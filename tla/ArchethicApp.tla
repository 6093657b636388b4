---------------------------- MODULE ArchethicApp ----------------------------
(***************************************************************************)
(* The session core of the Archethic Ledger application: the boot loop     *)
(* and the APDU loop of main.c, the four command handlers, the review      *)
(* flows with their approve and reject callbacks, and the menu.            *)
(*                                                                         *)
(* There is one thread.  It is always somewhere in the loops of main.c:    *)
(*   "boot"      in main(), before archethic_main is entered               *)
(*   "loop"      at the top of the APDU loop, about to call io_exchange    *)
(*   "wait"      inside io_exchange, handling button and status events     *)
(*   "dispatch"  io_exchange has returned a command                        *)
(*   "off"       the application has exited                                *)
(* A handler runs to its end in one step: it waits for nothing.  What the  *)
(* SDK does (io_exchange, the ux_flow engine, the cx functions) is         *)
(* modelled from how the application uses it.                              *)
(***************************************************************************)
EXTENDS Integers, ServiceSeek

CONSTANTS
  Ed25519,    (* the service entries <<w, i>> whose curve byte is 0         *)
  Heads,      (* first 34 bytes of a receiver address                       *)
  Tails,      (* last 32 bytes of a 66-byte receiver address                *)
  Amounts,
  Commands,   (* the commands the host may send                             *)
  Faults,     (* exceptions a key derivation of the SDK may throw           *)
  BadPoint,   (* envelope whose ephemeral key is not a point of the curve   *)
  BadTag,     (* envelope whose authentication tag does not verify          *)
  Device,     (* the seed of the device itself                              *)
  Blank,      (* zeroed or unwritten memory                                 *)
  Scrap,      (* the bytes of a public key or a signature, read as a wallet *)
  PathAt      (* where in its wallet the path of an entry starts            *)

SW_OK            == 36864   \* 0x9000
SW_WRONG_WALLET  == 27395   \* 0x6B03
SW_USER_REJECTED == 27013   \* 0x6985
SW_BAD_CLA       == 28160   \* 0x6E00
SW_BAD_INS       == 27904   \* 0x6D00
INVALID_PARAMETER == 2

Envelopes == Wallets \cup {BadPoint, BadTag}
NoAddr    == [head |-> Blank, tail |-> Blank]
Addrs     == [head : Heads \cup {Blank}, tail : Tails \cup {Blank}]
Reviews   == {"pubkey", "address", "sign"}
Kinds     == Reviews \cup {"version", "empty", "badcla", "badins"}
Byte      == 0..255
Position  == 0..256
Command   == [ins : Kinds, service : Byte, receiver : Addrs,
              amount : Amounts \cup {Blank}, env : Envelopes]

\* A service entry of a wallet: the i-th, counted from 1.  ScrapEntry: bytes
\* that no wallet put there and that happen to spell a path.
NoEntry    == <<Blank, 0>>
ScrapEntry == <<Scrap, 0>>
Entries    == (Wallets \X (1..256)) \cup {NoEntry, ScrapEntry}

\* A key pair: the seed, the entry its path and curve come from, and the
\* offset added to the address index.  NoKey: nothing was derived.  ScrapKey:
\* seed, path and curve were all read from what is no wallet.
NoKey     == [seed |-> Blank, entry |-> NoEntry, offset |-> 0]
ScrapKey  == [seed |-> Scrap, entry |-> ScrapEntry, offset |-> 0]
OriginKey == [seed |-> Device, entry |-> NoEntry, offset |-> 0]
Keys      == [seed : Wallets \cup {Device, Blank, Scrap}, entry : Entries, offset : {0, 1}]

\* What getTransactionHash hashes.
NoTx == [sender |-> NoKey, receiver |-> NoAddr, amount |-> Blank]
Txs  == [sender : Keys, receiver : Addrs, amount : Amounts \cup {Blank}]

NoText == [receiver |-> Blank, amount |-> Blank, path |-> NoEntry]
NoCmd   == [ins |-> "none", service |-> 0, receiver |-> NoAddr,
            amount |-> Blank, env |-> BadTag]
NoReply == [to |-> NoCmd, sw |-> 0, key |-> NoKey, tx |-> NoTx]

\* The longest wallet a command has room for: its data is at most 255 bytes,
\* of which 113 are the point, the tag and the wallet's key.
Room(cmd) ==
  IF cmd.ins = "address" THEN 255 - 1 - 113
  ELSE 255 - 1 - (IF cmd.receiver.tail = Blank THEN 34 ELSE 66) - 8 - 113

\* 16 is EXCEPTION_IO_RESET.  No exception of the SDK is in the 0x9000 class,
\* which CATCH_OTHER would report as it is.
ASSUME ConstantsOK ==
  /\ Total \in [Wallets -> 1..255]
  /\ WalletLen \in [Wallets -> 39..141]
  /\ Ed25519 \subseteq Wallets \X (1..256)
  /\ Commands \subseteq Command
  /\ \A cmd \in Commands : cmd.env \in Wallets => WalletLen[cmd.env] <= Room(cmd)
  /\ Faults \subseteq Nat
  /\ \A e \in Faults : 0 < e /\ e < 65536 /\ e # 16 /\ e \div 4096 # 9
  /\ Blank \notin Wallets \cup Heads \cup Tails \cup Amounts
  /\ {BadPoint, BadTag} \cap Wallets = {} /\ BadPoint # BadTag
  /\ Scrap \notin Wallets \cup {Blank}

ASSUME PathAtOK == PathAt \in [Wallets \X (1..256) -> Nat]

VARIABLES
  pc,
  asynch,     (* flags & IO_ASYNCH_REPLY, in archethic_main                 *)
  caught,     (* the status word CATCH_OTHER put in the buffer; 0 if tx = 0 *)
  pending,    (* the command the transport holds, not answered yet          *)
  reply,      (* the answer to the last command, once it has been sent      *)
  screen,     (* the flow on the display and its current step               *)
  seen,       (* the steps displayed since that flow was started            *)
  stackCount, (* G_ux.stack_count                                           *)
  callbacks,  (* the g_validate callbacks that are set                      *)
  publicKey,  (* getPublicKey.c: publicKey and its text g_public_key        *)
  addrPath,   (* getAddress.c: g_derivation_path,                           *)
  addrKey,    (*   the key g_addr and its text g_address are made from,     *)
  addrWallet, (*   and g_wallet                                             *)
  signText,   (* signHash.c: g_addr, g_amount, g_derivation_path,           *)
  gTx,        (*   g_tx,                                                    *)
  signWallet  (*   and g_Wallet                                             *)

loopVars == <<pc, asynch, caught>>
hostVars == <<pending, reply>>
uiVars   == <<screen, seen, stackCount>>
addrVars == <<addrPath, addrKey, addrWallet>>
signVars == <<signText, gTx, signWallet>>
globals  == <<callbacks, publicKey, addrVars, signVars>>
vars     == <<loopVars, hostVars, uiVars, globals>>

-----------------------------------------------------------------------------
(* Wallets in memory.                                                      *)

\* A wallet buffer: the wallet decrypted into it, Blank once it has been signed
\* over; the service entry, if any, that the bytes beyond the wallet's end
\* spell, which an earlier and longer wallet or a signature left there; and
\* whether the wallet's start is still its own, no public key written over it.
NoBuffer == [holds |-> Blank, beyond |-> NoEntry, intact |-> TRUE]
Buffers  == [holds : Wallets \cup {Blank}, beyond : Entries, intact : BOOLEAN]

\* The bytes performECDSA writes before it signs: curve, origin, public key.
Written == 0..66

\* Entries whose path, and the curve after it, a public key does not reach.
Kept(e) == e \in Wallets \X (1..256) /\ PathAt[e] \notin Written

LeftBy(buf) ==
  LET spelled == {buf.beyond} \cup
        {e \in Wallets \X (2..256) : e[1] = buf.holds /\ e[2] <= Total[e[1]]}
  IN  {NoEntry} \cup
      IF buf.intact THEN spelled ELSE {e \in spelled : Kept(e)} \cup {ScrapEntry}

\* Mutant: a wallet kept that an earlier command has sent.
DecryptedOnce(buf, w) ==
  IF buf.holds = Blank
  THEN {[holds |-> w, beyond |-> buf.beyond, intact |-> TRUE]} ELSE {buf}

\* decryptWallet writes the wallet at the start of the buffer: beyond its end
\* is left what was longer.
Decrypted(buf, w) ==
  {[holds |-> w, beyond |-> e, intact |-> TRUE] :
     e \in {f \in LeftBy(buf) : f[1] \in Wallets => WalletLen[f[1]] > WalletLen[w]}}

\* performECDSA has written the public key and the signature over the wallet.
Overwritten(buf) ==
  {[holds |-> Blank, beyond |-> e, intact |-> TRUE] : e \in LeftBy(buf) \cup {ScrapEntry}}

\* What is read as a service entry at a position.  The wallet's start is its
\* version, whose first byte reads as an empty path.
EntryAt(buf, pos) ==
  IF buf.holds = Blank \/ pos = 0 THEN NoEntry
  ELSE IF pos > Total[buf.holds] THEN buf.beyond
  ELSE <<buf.holds, pos>>

\* Mutant: the entry looked up by the service index, not by the position.
KeyByIndex(buf, s, pos, offset) ==
  LET entry == EntryAt(buf, s)
  IN  IF entry = NoEntry \/ TooShort(buf.holds, s) THEN NoKey
      ELSE [seed |-> buf.holds, entry |-> entry, offset |-> offset]

\* generateKeyFromWallet returns without a key when the wallet is too short
\* or there is no path at the position.  The seed is at the wallet's start.
KeyFromWallet(buf, s, pos, offset) ==
  LET entry == EntryAt(buf, pos)
  IN  IF entry = NoEntry \/ TooShort(buf.holds, s) THEN NoKey
      ELSE [seed |-> IF buf.intact THEN buf.holds ELSE Scrap,
            entry |-> entry, offset |-> offset]

-----------------------------------------------------------------------------
(* The display.                                                            *)

FlowSteps == [menu |-> 4, about |-> 2, pubkey |-> 5, address |-> 5, sign |-> 6]
Flows     == DOMAIN FlowSteps

\* Mutant: FLOW_LOOP in the flow of the sign review too.
LoopingSign == {"menu", "about", "sign"}
\* The flows that end in FLOW_LOOP.
Looping == {"menu", "about"}

ApproveStep(f) == FlowSteps[f] - 1
RejectStep(f)  == FlowSteps[f]

\* ux_flow_init(0, f, NULL)
StartFlow(f) ==
  /\ screen' = [flow |-> f, step |-> 1]
  /\ seen' = {1}

\* Mutant: a push without the test of stack_count.
PushAlways ==
  /\ stackCount' = stackCount + 1
  /\ StartFlow("menu")

ui_menu_main ==
  /\ stackCount' = IF stackCount = 0 THEN 1 ELSE stackCount
  /\ StartFlow("menu")

\* The end of a command handler that asks the user.
StartReview(f) ==
  /\ callbacks' = callbacks \cup {f}
  /\ StartFlow(f)
  /\ UNCHANGED stackCount

-----------------------------------------------------------------------------
(* Replies and exceptions.                                                 *)

\* io_exchange transmits: the transport then holds no command.
Transmit(sw, key, tx) ==
  /\ reply' = [to |-> pending, sw |-> sw, key |-> key, tx |-> tx]
  /\ pending' = NoCmd

\* The switch of CATCH_OTHER on e & 0xF000.
StatusWord(e) == IF e \div 4096 \in {6, 9} THEN e ELSE 26624 + (e % 2048)

\* THROW(e), wherever inside the loop, ends in CATCH_OTHER.
Throw(e) ==
  /\ caught' = StatusWord(e)
  /\ pc' = "loop"

Return ==
  /\ pc' = "loop"
  /\ UNCHANGED caught

-----------------------------------------------------------------------------
(* main and archethic_main.                                                *)

\* A launch: the application is loaded with its globals zeroed.
Init ==
  /\ pc = "boot" /\ asynch = FALSE /\ caught = 0
  /\ pending = NoCmd /\ reply = NoReply
  /\ screen = [flow |-> "menu", step |-> 1] /\ seen = {1} /\ stackCount = 0
  /\ callbacks = {} /\ publicKey = NoKey
  /\ addrPath = NoEntry /\ addrKey = NoKey /\ addrWallet = NoBuffer
  /\ signText = NoText
  /\ gTx = [service |-> 0, receiver |-> NoAddr, amount |-> Blank, seek |-> 0,
             sender |-> NoKey, hash |-> NoTx]
  /\ signWallet = NoBuffer

\* Mutant: the display is not reset.
BootKeepsDisplay ==
  /\ pc = "boot" /\ pc' = "loop"
  /\ asynch' = FALSE /\ caught' = 0
  /\ pending' = NoCmd
  /\ UNCHANGED <<reply, uiVars, globals>>

\* main() resets the display and the transport, shows the menu and enters
\* archethic_main.
Boot ==
  /\ pc = "boot" /\ pc' = "loop"
  /\ asynch' = FALSE /\ caught' = 0
  /\ pending' = NoCmd
  /\ stackCount' = 1 /\ StartFlow("menu")   \* UX_INIT, then ui_menu_main
  /\ UNCHANGED <<reply, globals>>

\* Any other exception there leaves the boot loop for app_exit.
BootFails ==
  /\ pc = "boot" /\ pc' = "off"
  /\ pending' = NoCmd
  /\ UNCHANGED <<asynch, caught, reply, uiVars, globals>>

\* Mutant: tx = 0 before rx = tx.
CallWithoutStatus ==
  /\ pc = "loop" /\ pc' = "wait"
  /\ caught' = 0
  /\ IF asynch THEN UNCHANGED hostVars ELSE pending' = NoCmd /\ UNCHANGED reply
  /\ UNCHANGED <<asynch, uiVars, globals>>

\* io_exchange(CHANNEL_APDU | flags, rx): with IO_ASYNCH_REPLY it transmits
\* nothing and keeps the command; without, the status word left by
\* CATCH_OTHER is sent and the transport is free again.
CallIoExchange ==
  /\ pc = "loop" /\ pc' = "wait"
  /\ caught' = 0
  /\ \/ asynch /\ UNCHANGED hostVars
     \/ ~asynch /\ caught # 0 /\ Transmit(caught, NoKey, NoTx)
     \/ ~asynch /\ caught = 0 /\ pending' = NoCmd /\ UNCHANGED reply
  /\ UNCHANGED <<asynch, uiVars, globals>>

\* Mutant: flags = 0 left out.
ReceiveKeepsFlag(cmd) ==
  /\ pc = "wait" /\ pc' = "dispatch"
  /\ pending = NoCmd /\ pending' = cmd
  /\ reply' = NoReply
  /\ UNCHANGED <<asynch, caught, uiVars, globals>>

\* A command arrives.  The transport takes none while it holds one.
Receive(cmd) ==
  /\ pc = "wait" /\ pc' = "dispatch"
  /\ pending = NoCmd /\ pending' = cmd
  /\ asynch' = FALSE
  /\ reply' = NoReply
  /\ UNCHANGED <<caught, uiVars, globals>>

\* USB power is lost while a command is held: io_event throws
\* EXCEPTION_IO_RESET, which archethic_main passes on to main.
Unplug ==
  /\ pc = "wait" /\ pc' = "boot"
  /\ pending # NoCmd
  /\ UNCHANGED <<asynch, caught, hostVars, uiVars, globals>>

Dispatching(ins) == pc = "dispatch" /\ pending.ins = ins

\* rx == 0
EmptyCommand ==
  /\ Dispatching("empty") /\ pc' = "boot"
  /\ UNCHANGED <<asynch, caught, hostVars, uiVars, globals>>

BadCommand ==
  /\ \/ Dispatching("badcla") /\ Throw(SW_BAD_CLA)
     \/ Dispatching("badins") /\ Throw(SW_BAD_INS)
  /\ UNCHANGED <<asynch, hostVars, uiVars, globals>>

-----------------------------------------------------------------------------
(* The command handlers.                                                   *)

handleGetVersion ==
  /\ Dispatching("version")
  /\ Transmit(SW_OK, NoKey, NoTx)
  /\ Return
  /\ UNCHANGED <<asynch, uiVars, globals>>

\* The flag is set before the derivation that may throw.
handleGetPublicKey ==
  /\ Dispatching("pubkey")
  /\ asynch' = TRUE
  /\ \/ /\ \E e \in Faults : Throw(e)
        /\ UNCHANGED <<publicKey, callbacks, uiVars>>
     \/ /\ publicKey' = OriginKey
        /\ StartReview("pubkey")
        /\ Return
  /\ UNCHANGED <<hostVars, addrVars, signVars>>

\* performECDH
EcdhThrows ==
  \/ \E e \in Faults : Throw(e)
  \/ pending.env = BadPoint /\ Throw(INVALID_PARAMETER)

\* decryptWallet finds a wrong tag: the handler answers BADDECODE.  The five
\* bytes it writes are in front of the services of what the buffer holds.
WrongWallet ==
  /\ pending.env = BadTag
  /\ Transmit(SW_WRONG_WALLET, NoKey, NoTx)
  /\ Return

handleGetAddress ==
  /\ Dispatching("address")
  /\ \/ EcdhThrows /\ UNCHANGED <<asynch, hostVars, uiVars, callbacks, addrVars>>
     \/ WrongWallet /\ UNCHANGED <<asynch, uiVars, callbacks, addrVars>>
     \/ /\ pending.env \in Wallets
        /\ addrWallet' \in Decrypted(addrWallet, pending.env)
        /\ asynch' = TRUE
        /\ LET pos == SeekEntry(pending.env, pending.service)
           IN  /\ addrPath' = EntryAt(addrWallet', pos)
               /\ \/ /\ addrPath' # NoEntry /\ \E e \in Faults : Throw(e)
                     /\ UNCHANGED <<addrKey, callbacks, uiVars>>
                  \/ /\ addrKey' = KeyFromWallet(addrWallet', pending.service, pos, 0)
                     /\ StartReview("address")
                     /\ Return
        /\ UNCHANGED hostVars
  /\ UNCHANGED <<publicKey, signVars>>

\* Mutants: 34 bytes of the receiver hashed, whatever its length; the amount
\* left out.
HashShortReceiver(sender, receiver, amount) ==
  [sender |-> sender, receiver |-> [receiver EXCEPT !.tail = Blank], amount |-> amount]
HashWithoutAmount(sender, receiver, amount) ==
  [sender |-> sender, receiver |-> receiver, amount |-> Blank]

getTransactionHash(sender, receiver, amount) ==
  [sender |-> sender, receiver |-> receiver, amount |-> amount]

\* The start of handleSignHash, before anything in it can throw.  The text of
\* the receiver, g_addr[70], has room for its first 34 bytes.
ParseTransfer ==
  /\ gTx' = [gTx EXCEPT !.service = pending.service,
                        !.receiver = pending.receiver,
                        !.amount = pending.amount]
  /\ signText' = [signText EXCEPT !.receiver = pending.receiver.head,
                                  !.amount = pending.amount]

\* Its end: the path, the sender (address index + 1), the hash, the review.
BuildTransfer ==
  LET cmd == pending
      pos == SeekEntry(cmd.env, cmd.service)
      sender == KeyFromWallet(signWallet', cmd.service, pos, 1)
  IN  /\ asynch' = TRUE
      /\ signText' = [receiver |-> cmd.receiver.head, amount |-> cmd.amount,
                      path |-> EntryAt(signWallet', pos)]
      /\ \/ /\ signText'.path # NoEntry /\ \E e \in Faults : Throw(e)
            /\ gTx' = [gTx EXCEPT !.service = cmd.service, !.receiver = cmd.receiver,
                                  !.amount = cmd.amount, !.seek = pos]
            /\ UNCHANGED <<callbacks, uiVars>>
         \/ /\ gTx' = [service |-> cmd.service, receiver |-> cmd.receiver,
                        amount |-> cmd.amount, seek |-> pos, sender |-> sender,
                        hash |-> getTransactionHash(sender, cmd.receiver, cmd.amount)]
            /\ StartReview("sign")
            /\ Return

handleSignHash ==
  /\ Dispatching("sign")
  /\ \/ /\ ParseTransfer /\ EcdhThrows
        /\ UNCHANGED <<asynch, hostVars, uiVars, callbacks, signWallet>>
     \/ /\ ParseTransfer /\ WrongWallet
        /\ UNCHANGED <<asynch, uiVars, callbacks, signWallet>>
     \/ /\ pending.env \in Wallets
        /\ signWallet' \in Decrypted(signWallet, pending.env)
        /\ BuildTransfer
        /\ UNCHANGED hostVars
  /\ UNCHANGED <<publicKey, addrVars>>

-----------------------------------------------------------------------------
(* Button events, handled inside io_exchange.                              *)

Showing(f, step) == pc = "wait" /\ screen = [flow |-> f, step |-> step]

ShowStep(step) ==
  /\ screen' = [screen EXCEPT !.step = step]
  /\ seen' = seen \cup {step}
  /\ UNCHANGED <<loopVars, hostVars, stackCount, globals>>

\* The ux_flow engine pages through a step before it leaves it, and wraps
\* around only in a flow with FLOW_LOOP.
MoveRight ==
  /\ pc = "wait"
  /\ \/ screen.step < FlowSteps[screen.flow] /\ ShowStep(screen.step + 1)
     \/ screen.step = FlowSteps[screen.flow] /\ screen.flow \in Looping /\ ShowStep(1)

MoveLeft ==
  /\ pc = "wait"
  /\ \/ screen.step > 1 /\ ShowStep(screen.step - 1)
     \/ screen.step = 1 /\ screen.flow \in Looping /\ ShowStep(FlowSteps[screen.flow])

ui_menu_about ==
  /\ Showing("menu", 3)
  /\ StartFlow("about")
  /\ UNCHANGED <<loopVars, hostVars, stackCount, globals>>

ui_menu_back ==
  /\ Showing("about", 2)
  /\ ui_menu_main
  /\ UNCHANGED <<loopVars, hostVars, globals>>

\* os_sched_exit: USB goes down with the application.
Quit ==
  /\ Showing("menu", 4) /\ pc' = "off"
  /\ pending' = NoCmd
  /\ UNCHANGED <<asynch, caught, reply, uiVars, globals>>

\* Mutant: back to the menu without an answer.
RejectSilently ==
  /\ \E f \in Reviews : Showing(f, RejectStep(f)) /\ f \in callbacks
  /\ ui_menu_main
  /\ UNCHANGED <<loopVars, hostVars, globals>>

\* (*g_validate_callback)(false) of the three reviews.
Reject ==
  /\ \E f \in Reviews : Showing(f, RejectStep(f)) /\ f \in callbacks
  /\ Transmit(SW_USER_REJECTED, NoKey, NoTx)
  /\ ui_menu_main
  /\ UNCHANGED <<loopVars, globals>>

\* ui_action_validate_pubkey(true)
ApprovePublicKey ==
  /\ Showing("pubkey", ApproveStep("pubkey")) /\ "pubkey" \in callbacks
  /\ Transmit(SW_OK, publicKey, NoTx)
  /\ ui_menu_main
  /\ UNCHANGED <<loopVars, globals>>

\* ui_validate_address_arch(true)
ApproveAddress ==
  /\ Showing("address", ApproveStep("address")) /\ "address" \in callbacks
  /\ Transmit(SW_OK, addrKey, NoTx)
  /\ ui_menu_main
  /\ UNCHANGED <<loopVars, globals>>

\* The keys performECDSA may derive.  In a wallet that a refused signature has
\* written over, a path that the public key reached is read from its bytes:
\* whether they spell one is left open.
SigningKeys ==
  LET key == KeyFromWallet(signWallet, gTx.service, gTx.seek, 0)
  IN  IF signWallet.intact \/ key = NoKey \/ Kept(key.entry) THEN {key}
      ELSE {NoKey, ScrapKey}

\* cx_ecdsa_sign refuses an Ed25519 key; with NoKey it is called on an
\* uninitialised key, with ScrapEntry on one of any curve: it may do either.
MaySign(key)   == key.entry \notin Ed25519
MayRefuse(key) == key.entry \in Ed25519 \cup {NoEntry, ScrapEntry}

\* performECDSA throws in cx_ecdsa_sign: the public key, if one was derived, is
\* over the wallet's start, and the signature is not written.
PublicKeyOver(buf, key) == IF key = NoKey THEN buf ELSE [buf EXCEPT !.intact = FALSE]

\* ui_validate_sign_hash(true): performECDSA derives the key, writes over the
\* wallet and signs.
ApproveSign ==
  /\ Showing("sign", ApproveStep("sign")) /\ "sign" \in callbacks
  /\ \E key \in SigningKeys :
       \/ /\ MaySign(key)
          /\ signWallet' \in Overwritten(signWallet)
          /\ Transmit(SW_OK, key, gTx.hash)
          /\ ui_menu_main
          /\ UNCHANGED <<pc, caught>>
       \/ /\ MayRefuse(key)
          /\ signWallet' = PublicKeyOver(signWallet, key)
          /\ Throw(INVALID_PARAMETER)
          /\ UNCHANGED <<hostVars, uiVars>>
       \/ /\ key # NoKey /\ \E e \in Faults : Throw(e)
          /\ UNCHANGED <<hostVars, uiVars, signWallet>>
  /\ UNCHANGED <<asynch, callbacks, publicKey, addrVars, signText, gTx>>

-----------------------------------------------------------------------------

Handle == \/ EmptyCommand \/ BadCommand
          \/ handleGetVersion \/ handleGetPublicKey
          \/ handleGetAddress \/ handleSignHash

Approve == ApprovePublicKey \/ ApproveAddress \/ ApproveSign
Button  == MoveRight \/ MoveLeft \/ ui_menu_about \/ ui_menu_back \/ Quit
           \/ Reject \/ Approve

\* os_sched_exit does not return.  Opening the application again is a launch.
Exited == pc = "off" /\ UNCHANGED vars

Next == \/ Boot \/ BootFails \/ Exited
        \/ CallIoExchange \/ Unplug \/ (\E cmd \in Commands : Receive(cmd))
        \/ Handle \/ Button

Spec == Init /\ [][Next]_vars

\* The thread runs until it waits for the host or the user.
Thread == Boot \/ BootFails \/ CallIoExchange \/ Handle

\* Assumption on the user: whoever sees a step of a review over and over
\* pages on, and in the end presses what is on the last one.
PageOn(step) == screen.flow \in Reviews /\ screen.step = step /\ MoveRight

UserFairness == /\ \A step \in 1..5 : SF_vars(PageOn(step))
                /\ SF_vars(Reject)

FairSpec == Spec /\ WF_vars(Thread) /\ UserFairness

-----------------------------------------------------------------------------
(* Properties.                                                             *)

Pending == Command \cup {NoCmd}
Texts   == [receiver : Heads \cup {Blank}, amount : Amounts \cup {Blank}, path : Entries]
Transfers == [service : Byte, receiver : Addrs, amount : Amounts \cup {Blank},
              seek : Position, sender : Keys, hash : Txs]

LoopTypeOK == /\ pc \in {"boot", "loop", "wait", "dispatch", "off"}
              /\ asynch \in BOOLEAN
              /\ caught \in Nat
HostTypeOK == /\ pending \in Pending
              /\ reply \in [to : Pending, sw : Nat, key : Keys, tx : Txs]
UITypeOK   == /\ screen \in [flow : Flows, step : 1..6]
              /\ screen.step <= FlowSteps[screen.flow]
              /\ seen \subseteq 1..6
              /\ stackCount \in {0, 1}
AddrTypeOK == addrPath \in Entries /\ addrKey \in Keys /\ addrWallet \in Buffers
SignTypeOK == /\ signText \in Texts
              /\ gTx \in Transfers
              /\ signWallet \in Buffers

\* Every variable has its type: the state the code keeps in its globals, in
\* archethic_main's locals and in the SDK's transport and display.
TypeOK == /\ LoopTypeOK /\ HostTypeOK /\ UITypeOK /\ AddrTypeOK /\ SignTypeOK
          /\ callbacks \subseteq Reviews
          /\ publicKey \in Keys

Up        == pc \notin {"boot", "off"}
Reviewing == Up /\ screen.flow \in Reviews

\* A review on the display belongs to the command the transport holds: same
\* kind, callback set, reply still to come.
ReviewIsOfPending ==
  Reviewing => /\ pending.ins = screen.flow
               /\ screen.flow \in callbacks
               /\ asynch

\* Where the thread is, relative to the command and its flags: the facts
\* that make ReviewIsOfPending and ConsentBeforeAnswer inductive.  At the top
\* of the loop a command is still held exactly when its answer is to come: a
\* caught status, or a review's outcome.
LoopConsistent ==
  /\ caught # SW_OK
  /\ caught # 0 => pc = "loop" /\ pending # NoCmd
  /\ pc = "loop" /\ ~asynch /\ caught = 0 => pending = NoCmd
  /\ pc = "dispatch" => ~asynch /\ pending # NoCmd
  /\ screen.flow \in Reviews => 1..screen.step \subseteq seen

\* What the sign review shows is what the held command asks for, and what the
\* hash to be signed is made of, although text and transaction are copies
\* made at different points of handleSignHash.
TextMatchesHash ==
  Reviewing /\ screen.flow = "sign" =>
    /\ signText.receiver = pending.receiver.head
    /\ signText.amount = pending.amount
    /\ gTx.hash = [sender |-> gTx.sender, receiver |-> pending.receiver,
                   amount |-> pending.amount]

\* The path a review shows is the path its address or sender is derived from.
ShownPathIsUsed ==
  Reviewing =>
    /\ screen.flow = "address" => addrKey.entry = addrPath
    /\ screen.flow = "sign" => gTx.sender.entry = signText.path

\* The user decides with everything displayed: a reviewed command is answered
\* with 0x9000 only from the approve step of its own review, all the steps
\* before it having been on the display since this review was started.
ConsentBeforeAnswer ==
  [][(reply' # reply /\ reply'.sw = SW_OK /\ reply'.to.ins \in Reviews)
       => /\ screen.flow = reply'.to.ins
          /\ screen.step = ApproveStep(screen.flow)
          /\ 1..screen.step \subseteq seen]_vars

\* A signature covers the receiver, all of it, and the amount that the
\* answered command carried.
SignsWhatWasAsked ==
  reply.sw = SW_OK /\ reply.to.ins = "sign" =>
    /\ reply.tx.receiver = reply.to.receiver
    /\ reply.tx.amount = reply.to.amount

OwnEntry(cmd) == <<cmd.env, cmd.service + 1>>

OwnKey(cmd, offset) == [seed |-> cmd.env, entry |-> OwnEntry(cmd), offset |-> offset]

\* An answer comes from the requested service of the command's own wallet:
\* the address is its key's, the sender is the key at address index + 1, the
\* signing key the one at address index.
AnswersFromOwnService ==
  reply.sw = SW_OK =>
    /\ reply.to.ins = "address" => reply.key = OwnKey(reply.to, 0)
    /\ reply.to.ins = "sign" => /\ reply.key = OwnKey(reply.to, 0)
                                /\ reply.tx.sender = OwnKey(reply.to, 1)

\* Derivations and signatures may fail and be approved again: still no answer
\* comes from another service.  What a second approval can do wrong, with a
\* public key over the wallet's start, is to sign with a key that was never
\* derived, or derived from that public key: only for a service of curve
\* Ed25519, and one whose path the public key reached.
NoOtherService ==
  reply.sw = SW_OK =>
    /\ reply.to.ins = "address" => reply.key = OwnKey(reply.to, 0)
    /\ reply.to.ins = "sign" =>
         /\ reply.tx.sender = OwnKey(reply.to, 1)
         /\ \/ reply.key = OwnKey(reply.to, 0)
            \/ /\ reply.key \in {NoKey, ScrapKey}
               /\ OwnEntry(reply.to) \in Ed25519 /\ ~Kept(OwnEntry(reply.to))

\* Whatever the host asks for and whatever fails, no seed of another wallet is
\* used, though wallets are written over one another and service entries may be
\* read from an earlier one.
OnlyOwnSeed ==
  reply.sw = SW_OK =>
    /\ reply.to.ins = "address" => reply.key.seed \in {Blank, reply.to.env}
    /\ reply.to.ins = "sign" =>
         /\ reply.tx.sender.seed \in {Blank, reply.to.env}
         /\ reply.key.seed \in {Blank, Scrap, reply.to.env}

\* A path on the display is one of the services of the command's wallet.
ShownPathIsOwn ==
  Reviewing =>
    /\ screen.flow = "address" => addrPath \in {NoEntry, OwnEntry(pending)}
    /\ screen.flow = "sign" => signText.path \in {NoEntry, OwnEntry(pending)}

\* A status word that CATCH_OTHER put in the buffer is sent to the host by
\* the next io_exchange.
CaughtStatusIsSent ==
  [][caught # 0 /\ caught' = 0 /\ Up => reply'.sw = caught]_vars

\* The held command will not be answered any more: io_exchange waits, and
\* neither a review nor a status word is on the way.
Unanswered == pc = "wait" /\ pending # NoCmd /\ ~Reviewing

\* While io_exchange waits with a command held, the user is being asked about
\* it, so that a button can still end it.
HeldIsReviewed == ~Unanswered

\* There is one way to lose a command's answer: io_exchange called with
\* IO_ASYNCH_REPLY set and a status word of CATCH_OTHER in the buffer, which it
\* then does not send.
LostOnlyWithStatus ==
  [][~Unanswered /\ Unanswered' => pc = "loop" /\ asynch /\ caught # 0]_vars

\* The application answers every command, or goes down: the transport does
\* not stay busy.
EveryCommandEnds == pending # NoCmd ~> pending = NoCmd

\* The inductive invariant of the session.
IInv == /\ TypeOK /\ ReviewIsOfPending /\ LoopConsistent
        /\ TextMatchesHash /\ ShownPathIsUsed /\ SignsWhatWasAsked

\* The abstract protocol.
Protocol == INSTANCE CommandProtocol WITH
  pending <- IF Up THEN pending ELSE NoCmd,
  asking  <- Reviewing,
  status  <- reply.sw,
  up      <- Up

ImplementsProtocol == Protocol!Spec
=============================================================================
