------------------------- MODULE ArchethicAppProofs -------------------------
(***************************************************************************)
(* Proofs about ArchethicApp, for every set of wallets, commands and       *)
(* exceptions that ConstantsOK allows.                                     *)
(***************************************************************************)
EXTENDS ArchethicApp, TLAPS

-----------------------------------------------------------------------------
(* The operators on wallets and status words.                              *)

\* The bytes beyond a wallet spell an entry of a wallet, or nothing.
LEMMA LeftByType ==
  ASSUME NEW buf \in Buffers
  PROVE  LeftBy(buf) \subseteq Entries
BY DEF LeftBy, Buffers, Entries

\* Decrypting a wallet into a buffer leaves a buffer that holds it.
LEMMA DecryptedType ==
  ASSUME NEW buf \in Buffers, NEW w \in Wallets, NEW b \in Decrypted(buf, w)
  PROVE  b \in Buffers /\ b.holds = w /\ b.intact
<1>1. PICK e \in Entries : b = [holds |-> w, beyond |-> e, intact |-> TRUE]
  BY LeftByType DEF Decrypted
<1>. QED
  BY <1>1 DEF Buffers

\* Signing leaves a buffer that holds no wallet.
LEMMA OverwrittenType ==
  ASSUME NEW buf \in Buffers, NEW b \in Overwritten(buf)
  PROVE  b \in Buffers
<1>1. ScrapEntry \in Entries
  BY DEF Entries
<1>2. PICK e \in Entries : b = [holds |-> Blank, beyond |-> e, intact |-> TRUE]
  BY <1>1, LeftByType DEF Overwritten
<1>. QED
  BY <1>2 DEF Buffers

\* A refused signature leaves one that holds the same wallet.
LEMMA PublicKeyOverType ==
  ASSUME NEW buf \in Buffers, NEW key
  PROVE  /\ PublicKeyOver(buf, key) \in Buffers
         /\ PublicKeyOver(buf, key).holds = buf.holds
BY DEF PublicKeyOver, Buffers

\* getDerivationPath seeks to an entry, to the wallet's end, or to its start.
LEMMA SeekType ==
  ASSUME NEW w \in Wallets, NEW s \in Byte
  PROVE  SeekEntry(w, s) \in Position
BY ConstantsOK DEF ConstantsOK, SeekEntry, TooShort, Byte, Position

\* What is read at a position is a service entry or an empty path.
LEMMA EntryAtType ==
  ASSUME NEW buf \in Buffers, NEW pos \in Position
  PROVE  EntryAt(buf, pos) \in Entries
<1>1. CASE buf.holds = Blank \/ pos = 0
  BY <1>1 DEF EntryAt, Entries
<1>2. CASE buf.holds # Blank /\ pos # 0 /\ pos > Total[buf.holds]
  BY <1>2 DEF EntryAt, Buffers
<1>3. CASE buf.holds # Blank /\ pos # 0 /\ ~(pos > Total[buf.holds])
  <2>1. EntryAt(buf, pos) = <<buf.holds, pos>>
    BY <1>3 DEF EntryAt
  <2>2. buf.holds \in Wallets /\ pos \in 1..256
    BY <1>3 DEF Buffers, Position
  <2>. QED
    BY <2>1, <2>2 DEF Entries
<1>. QED
  BY <1>1, <1>2, <1>3

\* generateKeyFromWallet yields a key or nothing.
LEMMA KeyType ==
  ASSUME NEW buf \in Buffers, NEW s \in Byte, NEW pos \in Position, NEW offset \in {0, 1}
  PROVE  KeyFromWallet(buf, s, pos, offset) \in Keys
<1>1. EntryAt(buf, pos) \in Entries
  BY EntryAtType
<1>2. NoKey \in Keys
  BY DEF NoKey, Keys, Entries
<1>3. (IF buf.intact THEN buf.holds ELSE Scrap) \in Wallets \cup {Device, Blank, Scrap}
  BY DEF Buffers
<1>. QED
  BY <1>1, <1>2, <1>3 DEF KeyFromWallet, Keys

\* The path getDerivationPath shows is the one generateKeyFromWallet uses: when
\* the wallet is too short for either, both read nothing.
LEMMA ShownEntryIsKeyEntry ==
  ASSUME NEW buf, NEW w \in Wallets, buf.holds = w, NEW s \in Byte, NEW offset
  PROVE  KeyFromWallet(buf, s, SeekEntry(w, s), offset).entry = EntryAt(buf, SeekEntry(w, s))
<1>1. CASE TooShort(w, s)
  <2>1. SeekEntry(w, s) = 0
    BY <1>1 DEF SeekEntry
  <2>2. EntryAt(buf, 0) = NoEntry
    BY DEF EntryAt
  <2>. QED
    BY <2>1, <2>2 DEF KeyFromWallet, NoKey
<1>2. CASE ~TooShort(w, s)
  BY <1>2 DEF KeyFromWallet, NoKey
<1>. QED
  BY <1>1, <1>2

\* No status word that CATCH_OTHER computes is the one of success.
LEMMA StatusWordType ==
  ASSUME NEW e \in Faults \cup {INVALID_PARAMETER, SW_BAD_CLA, SW_BAD_INS}
  PROVE  StatusWord(e) \in Nat /\ StatusWord(e) # 0 /\ StatusWord(e) # SW_OK
<1>1. e \in Nat /\ e # 0
  BY ConstantsOK DEF ConstantsOK, INVALID_PARAMETER, SW_BAD_CLA, SW_BAD_INS
<1>2. e \div 4096 # 9
  BY ConstantsOK DEF ConstantsOK, INVALID_PARAMETER, SW_BAD_CLA, SW_BAD_INS
<1>3. SW_OK \div 4096 = 9
  BY SMT DEF SW_OK
<1>4. e % 2048 \in Nat /\ e % 2048 < 2048
  BY <1>1
<1>5. CASE e \div 4096 \in {6, 9}
  <2>1. StatusWord(e) = e
    BY <1>5 DEF StatusWord
  <2>2. e # SW_OK
    BY <1>2, <1>3
  <2>. QED
    BY <1>1, <2>1, <2>2
<1>6. CASE ~(e \div 4096 \in {6, 9})
  <2>1. StatusWord(e) = 26624 + (e % 2048)
    BY <1>6 DEF StatusWord
  <2>. QED
    BY <1>4, <2>1 DEF SW_OK
<1>. QED
  BY <1>5, <1>6

-----------------------------------------------------------------------------
(* Type correctness.                                                       *)

\* The sentinels have the types of the values they stand for.
LEMMA SentinelTypes ==
  /\ NoEntry \in Entries /\ NoKey \in Keys /\ OriginKey \in Keys /\ ScrapKey \in Keys
  /\ NoAddr \in Addrs /\ NoTx \in Txs /\ NoBuffer \in Buffers
  /\ NoText \in Texts /\ NoCmd \in Pending
<1>1. NoEntry \in Entries /\ ScrapEntry \in Entries
  BY DEF Entries
<1>2. NoKey \in Keys /\ OriginKey \in Keys /\ ScrapKey \in Keys
  BY <1>1 DEF NoKey, OriginKey, ScrapKey, Keys
<1>3. NoAddr \in Addrs
  BY DEF NoAddr, Addrs
<1>4. NoTx \in Txs
  BY <1>2, <1>3 DEF NoTx, Txs
<1>. QED
  BY <1>1, <1>2, <1>3, <1>4 DEF NoBuffer, Buffers, NoText, Texts, Pending

\* A transmission is a reply to the pending command and frees the transport.
LEMMA TransmitType ==
  ASSUME HostTypeOK, NEW sw \in Nat, NEW key \in Keys, NEW tx \in Txs, Transmit(sw, key, tx)
  PROVE  HostTypeOK'
BY SentinelTypes DEF HostTypeOK, Transmit

\* A flow starts at a step it has.
LEMMA StartFlowType ==
  ASSUME NEW f \in Flows, StartFlow(f)
  PROVE  /\ screen' \in [flow : Flows, step : 1..6]
         /\ screen'.step <= FlowSteps[screen'.flow]
         /\ seen' \subseteq 1..6
BY DEF StartFlow, FlowSteps, Flows

\* The main menu is a legal display.
LEMMA MenuType ==
  ASSUME UITypeOK, ui_menu_main
  PROVE  UITypeOK'
<1>1. "menu" \in Flows
  BY DEF Flows, FlowSteps
<1>. QED
  BY <1>1, StartFlowType DEF UITypeOK, ui_menu_main

\* So is a review, which sets its callback.
LEMMA ReviewType ==
  ASSUME UITypeOK, callbacks \subseteq Reviews, NEW f \in Reviews, StartReview(f)
  PROVE  UITypeOK' /\ callbacks' \subseteq Reviews
<1>1. f \in Flows
  BY DEF Flows, FlowSteps, Reviews
<1>. QED
  BY <1>1, StartFlowType DEF UITypeOK, StartReview

\* An exception leaves a status word; so does a normal return.
LEMMA ThrowType ==
  ASSUME LoopTypeOK, asynch' \in BOOLEAN,
         \/ Return
         \/ \E e \in Faults \cup {INVALID_PARAMETER, SW_BAD_CLA, SW_BAD_INS} : Throw(e)
  PROVE  LoopTypeOK'
BY StatusWordType DEF LoopTypeOK, Return, Throw

\* TypeOK holds initially.
LEMMA TypeInit == Init => TypeOK
<1>. SUFFICES ASSUME Init PROVE TypeOK
  OBVIOUS
<1>1. LoopTypeOK /\ HostTypeOK
  BY SentinelTypes DEF Init, LoopTypeOK, HostTypeOK, NoReply
<1>2. UITypeOK
  BY DEF Init, UITypeOK, Flows, FlowSteps
<1>3. AddrTypeOK
  BY SentinelTypes DEF Init, AddrTypeOK
<1>4. SignTypeOK
  BY SentinelTypes DEF Init, SignTypeOK, Transfers, Byte, Position
<1>. QED
  BY <1>1, <1>2, <1>3, <1>4, SentinelTypes DEF Init, TypeOK

\* A command being dispatched is one of the host's, not the sentinel.
LEMMA DispatchedCommand ==
  ASSUME HostTypeOK, NEW ins \in Kinds, Dispatching(ins)
  PROVE  /\ pending \in Command
         /\ pending.service \in Byte /\ pending.receiver \in Addrs
         /\ pending.receiver.head \in Heads \cup {Blank}
         /\ pending.amount \in Amounts \cup {Blank}
<1>1. NoCmd.ins \notin Kinds
  BY DEF NoCmd, Kinds, Reviews
<1>2. pending \in Command
  BY <1>1 DEF HostTypeOK, Dispatching, Pending
<1>. QED
  BY <1>2 DEF Command, Addrs

\* handleGetAddress keeps the types.
LEMMA AddressType ==
  ASSUME TypeOK, handleGetAddress
  PROVE  TypeOK'
<1>. USE DEF TypeOK
<1>1. pending \in Command /\ pending.service \in Byte
  BY DispatchedCommand DEF handleGetAddress, Kinds, Reviews
<1>2. CASE EcdhThrows /\ UNCHANGED <<asynch, hostVars, uiVars, callbacks, addrVars>>
           /\ UNCHANGED <<publicKey, signVars>>
  <2>1. LoopTypeOK'
    BY <1>2, ThrowType DEF EcdhThrows, LoopTypeOK
  <2>. QED
    BY <1>2, <2>1 DEF hostVars, uiVars, addrVars, signVars, HostTypeOK, UITypeOK, AddrTypeOK, SignTypeOK
<1>3. CASE WrongWallet /\ UNCHANGED <<asynch, uiVars, callbacks, addrVars>>
           /\ UNCHANGED <<publicKey, signVars>>
  <2>1. LoopTypeOK'
    BY <1>3, ThrowType DEF WrongWallet, LoopTypeOK
  <2>2. HostTypeOK'
    BY <1>3, TransmitType, SentinelTypes DEF WrongWallet, SW_WRONG_WALLET
  <2>. QED
    BY <1>3, <2>1, <2>2 DEF uiVars, addrVars, signVars, UITypeOK, AddrTypeOK, SignTypeOK
<1>4. ASSUME pending.env \in Wallets,
             addrWallet' \in Decrypted(addrWallet, pending.env),
             asynch' = TRUE,
             NEW pos, pos = SeekEntry(pending.env, pending.service),
             addrPath' = EntryAt(addrWallet', pos),
             \/ (\E e \in Faults : Throw(e)) /\ UNCHANGED <<addrKey, callbacks, uiVars>>
             \/ /\ addrKey' = KeyFromWallet(addrWallet', pending.service, pos, 0)
                /\ StartReview("address")
                /\ Return,
             UNCHANGED <<hostVars, publicKey, signVars>>
      PROVE  TypeOK'
  <2>1. addrWallet' \in Buffers /\ pos \in Position
    BY <1>1, <1>4, DecryptedType, SeekType DEF AddrTypeOK
  <2>2. addrPath' \in Entries
    BY <1>4, <2>1, EntryAtType
  <2>3. KeyFromWallet(addrWallet', pending.service, pos, 0) \in Keys
    BY <1>1, <2>1, KeyType
  <2>4. AddrTypeOK'
    BY <1>4, <2>1, <2>2, <2>3 DEF AddrTypeOK
  <2>5. LoopTypeOK'
    BY <1>4, ThrowType
  <2>6. UITypeOK' /\ callbacks' \subseteq Reviews
    BY <1>4, ReviewType DEF uiVars, UITypeOK, Reviews
  <2>. QED
    BY <1>4, <2>4, <2>5, <2>6 DEF hostVars, signVars, HostTypeOK, SignTypeOK
<1>. QED
  BY <1>2, <1>3, <1>4 DEF handleGetAddress

\* handleSignHash keeps the types.
LEMMA SignType ==
  ASSUME TypeOK, handleSignHash
  PROVE  TypeOK'
<1>. USE DEF TypeOK
<1>1. /\ pending \in Command /\ pending.service \in Byte
      /\ pending.receiver \in Addrs /\ pending.receiver.head \in Heads \cup {Blank}
      /\ pending.amount \in Amounts \cup {Blank}
  BY DispatchedCommand DEF handleSignHash, Kinds, Reviews
<1>2. publicKey' \in Keys /\ AddrTypeOK'
  BY DEF handleSignHash, addrVars, AddrTypeOK
<1>3. ASSUME ParseTransfer, UNCHANGED signWallet
      PROVE  SignTypeOK'
  <2>1. signText' \in Texts
    BY <1>1, <1>3 DEF ParseTransfer, SignTypeOK, Texts
  <2>2. gTx' \in Transfers
    <3>1. gTx \in Transfers
      BY DEF SignTypeOK
    <3>. QED
      BY <1>1, <1>3, <3>1 DEF ParseTransfer, Transfers
  <2>. QED
    BY <1>3, <2>1, <2>2 DEF SignTypeOK
<1>4. CASE ParseTransfer /\ EcdhThrows /\ UNCHANGED <<asynch, hostVars, uiVars, callbacks, signWallet>>
  <2>1. LoopTypeOK'
    BY <1>4, ThrowType DEF EcdhThrows, LoopTypeOK
  <2>. QED
    BY <1>2, <1>3, <1>4, <2>1 DEF hostVars, uiVars, HostTypeOK, UITypeOK
<1>5. CASE ParseTransfer /\ WrongWallet /\ UNCHANGED <<asynch, uiVars, callbacks, signWallet>>
  <2>1. LoopTypeOK'
    BY <1>5, ThrowType DEF WrongWallet, LoopTypeOK
  <2>2. HostTypeOK'
    BY <1>5, TransmitType, SentinelTypes DEF WrongWallet, SW_WRONG_WALLET
  <2>. QED
    BY <1>2, <1>3, <1>5, <2>1, <2>2 DEF uiVars, UITypeOK
<1>6. CASE /\ pending.env \in Wallets
           /\ signWallet' \in Decrypted(signWallet, pending.env)
           /\ BuildTransfer
           /\ UNCHANGED hostVars
  <2>. DEFINE pos == SeekEntry(pending.env, pending.service)
              sender == KeyFromWallet(signWallet', pending.service, pos, 1)
              path == EntryAt(signWallet', pos)
  <2>1. signWallet' \in Buffers /\ pos \in Position
    BY <1>1, <1>6, DecryptedType, SeekType DEF SignTypeOK
  <2>2. path \in Entries /\ sender \in Keys
    BY <1>1, <2>1, EntryAtType, KeyType
  <2>3. /\ asynch' = TRUE
        /\ signText' = [receiver |-> pending.receiver.head, amount |-> pending.amount,
                        path |-> path]
        /\ \/ /\ \E e \in Faults : Throw(e)
              /\ gTx' = [gTx EXCEPT !.service = pending.service,
                                    !.receiver = pending.receiver,
                                    !.amount = pending.amount, !.seek = pos]
              /\ UNCHANGED <<callbacks, uiVars>>
           \/ /\ gTx' = [service |-> pending.service, receiver |-> pending.receiver,
                          amount |-> pending.amount, seek |-> pos, sender |-> sender,
                          hash |-> [sender |-> sender, receiver |-> pending.receiver,
                                    amount |-> pending.amount]]
              /\ StartReview("sign")
              /\ Return
    BY <1>6, Zenon DEF BuildTransfer, getTransactionHash
  <2>. HIDE DEF pos, sender, path
  <2>4. SignTypeOK'
    <3>1. signText' \in Texts
      BY <1>1, <2>2, <2>3 DEF Texts
    <3>2. [sender |-> sender, receiver |-> pending.receiver, amount |-> pending.amount] \in Txs
      BY <1>1, <2>2 DEF Txs
    <3>3. gTx' \in Transfers
      <4>1. gTx \in Transfers
        BY DEF SignTypeOK
      <4>2. CASE gTx' = [gTx EXCEPT !.service = pending.service,
                                    !.receiver = pending.receiver,
                                    !.amount = pending.amount, !.seek = pos]
        BY <1>1, <2>1, <4>1, <4>2 DEF Transfers
      <4>3. CASE gTx' = [service |-> pending.service, receiver |-> pending.receiver,
                         amount |-> pending.amount, seek |-> pos, sender |-> sender,
                         hash |-> [sender |-> sender, receiver |-> pending.receiver,
                                   amount |-> pending.amount]]
        BY <1>1, <2>1, <2>2, <3>2, <4>3 DEF Transfers
      <4>. QED
        BY <2>3, <4>2, <4>3
    <3>. QED
      BY <2>1, <3>1, <3>3 DEF SignTypeOK
  <2>5. LoopTypeOK'
    BY <2>3, ThrowType
  <2>6. UITypeOK' /\ callbacks' \subseteq Reviews
    BY <2>3, ReviewType DEF uiVars, UITypeOK, Reviews
  <2>. QED
    BY <1>2, <1>6, <2>4, <2>5, <2>6 DEF hostVars, HostTypeOK
<1>. QED
  BY <1>4, <1>5, <1>6 DEF handleSignHash

\* So does ui_validate_sign_hash(true).
LEMMA ApproveSignType ==
  ASSUME TypeOK, ApproveSign
  PROVE  TypeOK'
<1>. USE DEF TypeOK
<1>1. gTx.service \in Byte /\ gTx.seek \in Position /\ gTx.hash \in Txs
  BY DEF SignTypeOK, Transfers
<1>2. SigningKeys \subseteq Keys
  BY <1>1, KeyType, SentinelTypes DEF SigningKeys, SignTypeOK
<1>3. signWallet' \in Buffers
  BY OverwrittenType, PublicKeyOverType DEF ApproveSign, SignTypeOK
<1>4. SignTypeOK' /\ AddrTypeOK' /\ publicKey' \in Keys /\ callbacks' \subseteq Reviews
  BY <1>3 DEF ApproveSign, SignTypeOK, addrVars, AddrTypeOK
<1>5. LoopTypeOK'
  BY ThrowType DEF ApproveSign, LoopTypeOK
<1>6. HostTypeOK'
  BY <1>1, <1>2, TransmitType DEF ApproveSign, hostVars, HostTypeOK, SW_OK
<1>7. UITypeOK'
  BY MenuType DEF ApproveSign, uiVars, UITypeOK
<1>. QED
  BY <1>4, <1>5, <1>6, <1>7

\* TypeOK is inductive.
LEMMA TypeStep == TypeOK /\ [Next]_vars => TypeOK'
<1>. SUFFICES ASSUME TypeOK, [Next]_vars
              PROVE  TypeOK'
  OBVIOUS
<1>. USE DEF TypeOK
<1>0. ASSUME UNCHANGED globals
      PROVE  /\ AddrTypeOK' /\ SignTypeOK'
             /\ callbacks' \subseteq Reviews /\ publicKey' \in Keys
  BY <1>0 DEF globals, addrVars, signVars, AddrTypeOK, SignTypeOK
<1>1. CASE Boot
  BY <1>0, <1>1, StartFlowType, SentinelTypes
     DEF Boot, LoopTypeOK, HostTypeOK, UITypeOK, Flows, FlowSteps
<1>2. CASE BootFails \/ EmptyCommand \/ Unplug \/ Quit
  BY <1>0, <1>2, SentinelTypes
     DEF BootFails, EmptyCommand, Unplug, Quit, LoopTypeOK, hostVars, HostTypeOK, uiVars, UITypeOK
<1>3. CASE CallIoExchange
  <2>1. LoopTypeOK' /\ UITypeOK'
    BY <1>3 DEF CallIoExchange, LoopTypeOK, uiVars, UITypeOK
  <2>2. HostTypeOK'
    BY <1>3, SentinelTypes, TransmitType DEF CallIoExchange, LoopTypeOK, hostVars, HostTypeOK
  <2>. QED
    BY <1>0, <1>3, <2>1, <2>2 DEF CallIoExchange
<1>4. CASE \E cmd \in Commands : Receive(cmd)
  <2>1. HostTypeOK'
    BY <1>4, SentinelTypes, ConstantsOK DEF ConstantsOK, Receive, HostTypeOK, NoReply, Pending
  <2>. QED
    BY <1>0, <1>4, <2>1 DEF Receive, LoopTypeOK, uiVars, UITypeOK
<1>5. CASE BadCommand
  <2>1. LoopTypeOK'
    BY <1>5, ThrowType DEF BadCommand, LoopTypeOK
  <2>. QED
    BY <1>0, <1>5, <2>1 DEF BadCommand, hostVars, HostTypeOK, uiVars, UITypeOK
<1>6. CASE handleGetVersion
  <2>1. LoopTypeOK'
    BY <1>6, ThrowType DEF handleGetVersion, LoopTypeOK
  <2>2. HostTypeOK'
    BY <1>6, TransmitType, SentinelTypes DEF handleGetVersion, SW_OK
  <2>. QED
    BY <1>0, <1>6, <2>1, <2>2 DEF handleGetVersion, uiVars, UITypeOK
<1>7. CASE handleGetPublicKey
  <2>1. LoopTypeOK'
    BY <1>7, ThrowType DEF handleGetPublicKey
  <2>2. UITypeOK' /\ callbacks' \subseteq Reviews /\ publicKey' \in Keys
    BY <1>7, ReviewType, SentinelTypes DEF handleGetPublicKey, uiVars, UITypeOK, Reviews
  <2>. QED
    BY <1>7, <2>1, <2>2
       DEF handleGetPublicKey, hostVars, HostTypeOK, addrVars, AddrTypeOK, signVars, SignTypeOK
<1>8. CASE handleGetAddress \/ handleSignHash \/ ApproveSign
  BY <1>8, AddressType, SignType, ApproveSignType
<1>9. CASE MoveRight \/ MoveLeft
  <2>1. PICK step \in 1..6 : ShowStep(step) /\ step <= FlowSteps[screen.flow]
    BY <1>9 DEF MoveRight, MoveLeft, UITypeOK, Flows, FlowSteps, Looping
  <2>2. UITypeOK'
    BY <2>1 DEF ShowStep, UITypeOK
  <2>. QED
    BY <1>0, <2>1, <2>2 DEF ShowStep, loopVars, LoopTypeOK, hostVars, HostTypeOK
<1>10. CASE ui_menu_about \/ ui_menu_back
  <2>1. UITypeOK'
    BY <1>10, MenuType, StartFlowType DEF ui_menu_about, ui_menu_back, UITypeOK, Flows, FlowSteps
  <2>. QED
    BY <1>0, <1>10, <2>1 DEF ui_menu_about, ui_menu_back, loopVars, LoopTypeOK, hostVars, HostTypeOK
<1>11. CASE Reject \/ ApprovePublicKey \/ ApproveAddress
  <2>1. HostTypeOK'
    BY <1>11, TransmitType, SentinelTypes
       DEF Reject, ApprovePublicKey, ApproveAddress, AddrTypeOK, SW_OK, SW_USER_REJECTED
  <2>2. UITypeOK'
    BY <1>11, MenuType DEF Reject, ApprovePublicKey, ApproveAddress
  <2>. QED
    BY <1>0, <1>11, <2>1, <2>2 DEF Reject, ApprovePublicKey, ApproveAddress, loopVars, LoopTypeOK
<1>12. CASE UNCHANGED vars
  BY <1>0, <1>12 DEF vars, loopVars, LoopTypeOK, hostVars, HostTypeOK, uiVars, UITypeOK
<1>. QED
  BY <1>1, <1>2, <1>3, <1>4, <1>5, <1>6, <1>7, <1>8, <1>9, <1>10, <1>11, <1>12
     DEF Next, Handle, Button, Approve, Exited

\* Every variable of the session keeps its type, in every behaviour.
THEOREM TypeCorrect == Spec => []TypeOK
  BY TypeInit, TypeStep, PTL DEF Spec

-----------------------------------------------------------------------------
(* The session: reviews, commands, answers.                                *)

\* No review is on the display while a command is dispatched: the flag of the
\* one before was cleared when the new command came in.
LEMMA NoReviewAtDispatch ==
  ASSUME ReviewIsOfPending, LoopConsistent, pc = "dispatch"
  PROVE  screen.flow \notin Reviews
BY DEF ReviewIsOfPending, LoopConsistent, Reviewing, Up

\* Nor while the transport is free.
LEMMA NoReviewWhenIdle ==
  ASSUME ReviewIsOfPending, Up, pending = NoCmd
  PROVE  screen.flow \notin Reviews
BY DEF ReviewIsOfPending, Reviewing, NoCmd, Reviews

\* The menu and the about flow are no reviews.
LEMMA MenuIsNoReview ==
  ASSUME NEW f \in {"menu", "about"}, StartFlow(f)
  PROVE  screen'.flow \notin Reviews
BY DEF StartFlow, Reviews

\* A review that starts is the command's own, at its first step.
LEMMA ReviewStarts ==
  ASSUME NEW f \in Reviews, StartReview(f), pending'.ins = f, asynch' = TRUE,
         Return, caught = 0
  PROVE  ReviewIsOfPending' /\ LoopConsistent'
<1>1. screen' = [flow |-> f, step |-> 1] /\ seen' = {1} /\ f \in callbacks'
  BY DEF StartReview, StartFlow
<1>2. 1..screen'.step \subseteq seen'
  BY <1>1
<1>. QED
  BY <1>1, <1>2 DEF Return, ReviewIsOfPending, LoopConsistent, Reviewing, SW_OK

\* A handler that throws starts no review.
LEMMA HandlerThrows ==
  ASSUME ReviewIsOfPending, LoopConsistent, pc = "dispatch", UNCHANGED <<pending, uiVars>>,
         NEW e \in Faults \cup {INVALID_PARAMETER, SW_BAD_CLA, SW_BAD_INS}, Throw(e)
  PROVE  ReviewIsOfPending' /\ LoopConsistent'
BY NoReviewAtDispatch, StatusWordType
   DEF Throw, uiVars, ReviewIsOfPending, LoopConsistent, Reviewing

\* Nor does one that answers at once.
LEMMA HandlerAnswers ==
  ASSUME ReviewIsOfPending, LoopConsistent, pc = "dispatch", UNCHANGED uiVars, Return,
         pending' = NoCmd
  PROVE  ReviewIsOfPending' /\ LoopConsistent'
BY NoReviewAtDispatch
   DEF Return, uiVars, ReviewIsOfPending, LoopConsistent, Reviewing

\* The four handlers, and the loop's own checks, keep the session consistent.
LEMMA HandleSession ==
  ASSUME TypeOK, ReviewIsOfPending, LoopConsistent, Handle
  PROVE  ReviewIsOfPending' /\ LoopConsistent'
<1>1. pc = "dispatch" /\ caught = 0
  BY DEF Handle, EmptyCommand, BadCommand, handleGetVersion, handleGetPublicKey,
         handleGetAddress, handleSignHash, Dispatching, LoopConsistent
<1>2. CASE EmptyCommand
  BY <1>1, <1>2, NoReviewAtDispatch
     DEF EmptyCommand, uiVars, ReviewIsOfPending, LoopConsistent, Reviewing, Up, SW_OK
<1>3. CASE BadCommand
  BY <1>1, <1>3, HandlerThrows DEF BadCommand, hostVars
<1>4. CASE handleGetVersion
  BY <1>1, <1>4, HandlerAnswers DEF handleGetVersion, Transmit
<1>5. CASE handleGetPublicKey
  <2>1. CASE UNCHANGED <<hostVars, uiVars>> /\ \E e \in Faults : Throw(e)
    BY <1>1, <2>1, HandlerThrows DEF hostVars
  <2>2. CASE StartReview("pubkey") /\ Return
    BY <1>1, <1>5, <2>2, ReviewStarts DEF handleGetPublicKey, Dispatching, hostVars, Reviews
  <2>. QED
    BY <1>5, <2>1, <2>2 DEF handleGetPublicKey
<1>6. CASE handleGetAddress
  <2>1. CASE UNCHANGED <<hostVars, uiVars>> /\ (EcdhThrows \/ \E e \in Faults : Throw(e))
    BY <1>1, <2>1, HandlerThrows DEF EcdhThrows, hostVars
  <2>2. CASE UNCHANGED uiVars /\ WrongWallet
    BY <1>1, <2>2, HandlerAnswers DEF WrongWallet, Transmit
  <2>3. CASE UNCHANGED hostVars /\ asynch' = TRUE /\ StartReview("address") /\ Return
    BY <1>1, <1>6, <2>3, ReviewStarts DEF handleGetAddress, Dispatching, hostVars, Reviews
  <2>. QED
    BY <1>6, <2>1, <2>2, <2>3 DEF handleGetAddress
<1>7. CASE handleSignHash
  <2>1. CASE UNCHANGED <<hostVars, uiVars>> /\ (EcdhThrows \/ \E e \in Faults : Throw(e))
    BY <1>1, <2>1, HandlerThrows DEF EcdhThrows, hostVars
  <2>2. CASE UNCHANGED uiVars /\ WrongWallet
    BY <1>1, <2>2, HandlerAnswers DEF WrongWallet, Transmit
  <2>3. CASE UNCHANGED hostVars /\ asynch' = TRUE /\ StartReview("sign") /\ Return
    BY <1>1, <1>7, <2>3, ReviewStarts DEF handleSignHash, Dispatching, hostVars, Reviews
  <2>. QED
    BY <1>7, <2>1, <2>2, <2>3 DEF handleSignHash, BuildTransfer
<1>. QED
  BY <1>2, <1>3, <1>4, <1>5, <1>6, <1>7 DEF Handle

\* So do the user's buttons.
LEMMA ButtonSession ==
  ASSUME TypeOK, ReviewIsOfPending, LoopConsistent, Button
  PROVE  ReviewIsOfPending' /\ LoopConsistent'
<1>1. pc = "wait" /\ caught = 0
  BY DEF Button, Approve, MoveRight, MoveLeft, ui_menu_about, ui_menu_back, Quit, Reject,
         ApprovePublicKey, ApproveAddress, ApproveSign, Showing, LoopConsistent
<1>2. CASE MoveRight \/ MoveLeft
  <2>1. PICK step \in 1..6 :
          ShowStep(step) /\ (screen.flow \in Reviews => step <= screen.step + 1)
    BY <1>2 DEF MoveRight, MoveLeft, TypeOK, UITypeOK, Flows, FlowSteps, Looping, Reviews
  <2>2. screen'.flow = screen.flow /\ screen'.step = step /\ seen' = seen \cup {step}
    BY <2>1 DEF ShowStep, TypeOK, UITypeOK
  <2>3. screen'.flow \in Reviews => 1..screen'.step \subseteq seen'
    BY <2>1, <2>2 DEF LoopConsistent, TypeOK, UITypeOK
  <2>4. UNCHANGED <<loopVars, hostVars, callbacks>>
    BY <2>1 DEF ShowStep, globals
  <2>. QED
    BY <2>2, <2>3, <2>4
       DEF loopVars, hostVars, ReviewIsOfPending, LoopConsistent, Reviewing, Up
<1>3. CASE ui_menu_about \/ ui_menu_back \/ Reject \/ ApprovePublicKey \/ ApproveAddress
  <2>1. screen'.flow \notin Reviews
    BY <1>3, MenuIsNoReview
       DEF ui_menu_about, ui_menu_back, ui_menu_main, Reject, ApprovePublicKey, ApproveAddress
  <2>2. UNCHANGED loopVars
    BY <1>3 DEF ui_menu_about, ui_menu_back, Reject, ApprovePublicKey, ApproveAddress
  <2>. QED
    BY <1>1, <2>1, <2>2 DEF loopVars, ReviewIsOfPending, LoopConsistent, Reviewing
<1>4. CASE Quit
  BY <1>1, <1>4 DEF Quit, uiVars, ReviewIsOfPending, LoopConsistent, Reviewing, Up
<1>5. CASE ApproveSign
  <2>1. CASE ui_menu_main /\ UNCHANGED <<pc, caught>>
    BY <1>1, <2>1, MenuIsNoReview DEF ui_menu_main, ReviewIsOfPending, LoopConsistent, Reviewing
  <2>2. CASE /\ UNCHANGED <<hostVars, uiVars>>
             /\ \E e \in Faults \cup {INVALID_PARAMETER} : Throw(e)
    <3>1. pending # NoCmd
      BY <1>5 DEF ApproveSign, Showing, ReviewIsOfPending, Reviewing, Up, Reviews, NoCmd
    <3>. QED
      BY <1>1, <1>5, <2>2, <3>1, StatusWordType
       DEF ApproveSign, Throw, hostVars, uiVars, ReviewIsOfPending, LoopConsistent, Reviewing, Up
  <2>. QED
    BY <1>5, <2>1, <2>2 DEF ApproveSign
<1>. QED
  BY <1>2, <1>3, <1>4, <1>5 DEF Button, Approve

\* And every other step.
LEMMA SessionStep ==
  TypeOK /\ ReviewIsOfPending /\ LoopConsistent /\ [Next]_vars
    => ReviewIsOfPending' /\ LoopConsistent'
<1>. SUFFICES ASSUME TypeOK, ReviewIsOfPending, LoopConsistent, [Next]_vars
              PROVE  ReviewIsOfPending' /\ LoopConsistent'
  OBVIOUS
<1>1. CASE Boot
  BY <1>1, MenuIsNoReview DEF Boot, ReviewIsOfPending, LoopConsistent, Reviewing, SW_OK
<1>2. CASE BootFails \/ Unplug
  BY <1>2 DEF BootFails, Unplug, uiVars, ReviewIsOfPending, LoopConsistent, Reviewing, Up
<1>3. CASE CallIoExchange
  <2>1. screen.flow \in Reviews => asynch
    BY <1>3 DEF CallIoExchange, ReviewIsOfPending, Reviewing, Up
  <2>. QED
    BY <1>3, <2>1
       DEF CallIoExchange, globals, hostVars, uiVars, ReviewIsOfPending, LoopConsistent,
           Reviewing, Up, SW_OK
<1>4. CASE \E cmd \in Commands : Receive(cmd)
  <2>1. screen.flow \notin Reviews /\ caught = 0
    BY <1>4, NoReviewWhenIdle DEF Receive, Up, LoopConsistent
  <2>2. NoCmd \notin Commands
    BY ConstantsOK DEF ConstantsOK, Command, NoCmd, Kinds, Reviews
  <2>. QED
    BY <1>4, <2>1, <2>2 DEF Receive, uiVars, ReviewIsOfPending, LoopConsistent, Reviewing
<1>5. CASE Handle \/ Button
  BY <1>5, HandleSession, ButtonSession
<1>6. CASE Exited \/ UNCHANGED vars
  BY <1>6 DEF Exited, vars, loopVars, hostVars, uiVars, globals, ReviewIsOfPending,
              LoopConsistent, Reviewing, Up
<1>. QED
  BY <1>1, <1>2, <1>3, <1>4, <1>5, <1>6 DEF Next

\* What a review shows.
Shown == TextMatchesHash /\ ShownPathIsUsed

\* Nothing is to be checked when no review is on the display.
LEMMA NothingShown ==
  ASSUME screen'.flow \notin Reviews
  PROVE  Shown'
BY DEF Shown, TextMatchesHash, ShownPathIsUsed, Reviewing, Reviews

\* Nor when a step leaves the review, its command and its texts alone.
LEMMA SameShown ==
  ASSUME Shown, screen'.flow = screen.flow, Up' => Up,
         UNCHANGED <<pending, addrPath, addrKey, signText, gTx>>
  PROVE  Shown'
BY DEF Shown, TextMatchesHash, ShownPathIsUsed, Reviewing

\* handleGetAddress derives the address from the path it shows.
LEMMA AddressShown ==
  ASSUME TypeOK, handleGetAddress, StartReview("address"), pending.env \in Wallets,
         addrWallet' \in Decrypted(addrWallet, pending.env),
         LET pos == SeekEntry(pending.env, pending.service)
         IN  /\ addrPath' = EntryAt(addrWallet', pos)
             /\ addrKey' = KeyFromWallet(addrWallet', pending.service, pos, 0)
  PROVE  Shown'
<1>1. addrWallet'.holds = pending.env
  BY DecryptedType DEF TypeOK, AddrTypeOK
<1>2. pending.service \in Byte
  BY DispatchedCommand DEF TypeOK, handleGetAddress, Kinds, Reviews
<1>3. addrKey'.entry = addrPath'
  BY <1>1, <1>2, ShownEntryIsKeyEntry
<1>4. screen'.flow = "address"
  BY DEF StartReview, StartFlow
<1>. QED
  BY <1>3, <1>4 DEF Shown, TextMatchesHash, ShownPathIsUsed

\* handleSignHash shows the transfer it hashes.
LEMMA SignShown ==
  ASSUME TypeOK, Dispatching("sign"), UNCHANGED pending, StartReview("sign"),
         pending.env \in Wallets,
         signWallet' \in Decrypted(signWallet, pending.env),
         NEW pos, pos = SeekEntry(pending.env, pending.service),
         NEW sender, sender = KeyFromWallet(signWallet', pending.service, pos, 1),
         signText' = [receiver |-> pending.receiver.head, amount |-> pending.amount,
                      path |-> EntryAt(signWallet', pos)],
         gTx' = [service |-> pending.service, receiver |-> pending.receiver,
                 amount |-> pending.amount, seek |-> pos, sender |-> sender,
                 hash |-> [sender |-> sender, receiver |-> pending.receiver,
                           amount |-> pending.amount]]
  PROVE  Shown'
<1>1. signWallet'.holds = pending.env
  BY DecryptedType DEF TypeOK, SignTypeOK
<1>2. pending.service \in Byte
  BY DispatchedCommand DEF TypeOK, Kinds, Reviews
<1>3. gTx'.sender.entry = signText'.path
  BY <1>1, <1>2, ShownEntryIsKeyEntry
<1>4. screen'.flow = "sign"
  BY DEF StartReview, StartFlow
<1>. QED
  BY <1>3, <1>4 DEF Shown, TextMatchesHash, ShownPathIsUsed

\* What is shown stays true in every step.
LEMMA ShownStep ==
  TypeOK /\ ReviewIsOfPending /\ LoopConsistent /\ Shown /\ [Next]_vars => Shown'
<1>. SUFFICES ASSUME TypeOK, ReviewIsOfPending, LoopConsistent, Shown, [Next]_vars
              PROVE  Shown'
  OBVIOUS
<1>1. CASE Boot \/ ui_menu_about \/ ui_menu_back \/ Reject \/ ApprovePublicKey \/ ApproveAddress
  <2>1. screen'.flow \notin Reviews
    BY <1>1, MenuIsNoReview
       DEF Boot, ui_menu_about, ui_menu_back, ui_menu_main, Reject, ApprovePublicKey, ApproveAddress
  <2>. QED
    BY <2>1, NothingShown
<1>2. CASE BootFails \/ EmptyCommand \/ Unplug \/ Quit
  BY <1>2 DEF BootFails, EmptyCommand, Unplug, Quit, Shown, TextMatchesHash, ShownPathIsUsed,
              Reviewing, Up
<1>3. CASE CallIoExchange
  <2>1. screen.flow \in Reviews => UNCHANGED pending
    BY <1>3 DEF CallIoExchange, ReviewIsOfPending, Reviewing, Up, hostVars
  <2>2. UNCHANGED <<screen, addrPath, addrKey, signText, gTx>> /\ Up
    BY <1>3 DEF CallIoExchange, uiVars, globals, addrVars, signVars, Up
  <2>. QED
    BY <2>1, <2>2, NothingShown, SameShown
<1>4. CASE \E cmd \in Commands : Receive(cmd)
  <2>1. screen'.flow \notin Reviews
    BY <1>4, NoReviewWhenIdle DEF Receive, Up, uiVars
  <2>. QED
    BY <2>1, NothingShown
<1>5. CASE pc = "dispatch" /\ UNCHANGED uiVars
  <2>1. screen'.flow \notin Reviews
    BY <1>5, NoReviewAtDispatch DEF uiVars
  <2>. QED
    BY <2>1, NothingShown
<1>6. CASE BadCommand \/ handleGetVersion
  BY <1>5, <1>6 DEF BadCommand, handleGetVersion, Dispatching
<1>7. CASE handleGetPublicKey
  <2>1. CASE StartReview("pubkey")
    <3>1. screen'.flow = "pubkey"
      BY <2>1 DEF StartReview, StartFlow
    <3>. QED
      BY <3>1 DEF Shown, TextMatchesHash, ShownPathIsUsed
  <2>. QED
    BY <1>5, <1>7, <2>1 DEF handleGetPublicKey, Dispatching
<1>8. CASE handleGetAddress
  BY <1>5, <1>8, AddressShown DEF handleGetAddress, Dispatching
<1>9. CASE handleSignHash
  <2>1. CASE /\ pending.env \in Wallets
             /\ signWallet' \in Decrypted(signWallet, pending.env)
             /\ BuildTransfer
             /\ UNCHANGED hostVars
    <3>1. Dispatching("sign")
      BY <1>9 DEF handleSignHash
    <3>2. CASE UNCHANGED uiVars
      BY <1>5, <3>1, <3>2 DEF Dispatching
    <3>3. CASE StartReview("sign") /\ ~UNCHANGED uiVars
      BY <2>1, <3>1, <3>3, SignShown DEF BuildTransfer, getTransactionHash, hostVars
    <3>. QED
      BY <2>1, <3>2, <3>3 DEF BuildTransfer, uiVars
  <2>. QED
    BY <1>5, <1>9, <2>1 DEF handleSignHash, Dispatching
<1>10. CASE MoveRight \/ MoveLeft
  <2>1. PICK step \in 1..6 : ShowStep(step)
    BY <1>10 DEF MoveRight, MoveLeft, TypeOK, UITypeOK, Flows, FlowSteps
  <2>. QED
    BY <2>1, SameShown
       DEF ShowStep, loopVars, hostVars, globals, addrVars, signVars, Up, TypeOK, UITypeOK
<1>11. CASE ApproveSign
  <2>1. CASE ui_menu_main
    BY <2>1, MenuIsNoReview, NothingShown DEF ui_menu_main
  <2>2. CASE UNCHANGED <<hostVars, uiVars>>
    BY <1>11, <2>2, SameShown DEF ApproveSign, Showing, hostVars, uiVars, addrVars, Up
  <2>. QED
    BY <1>11, <2>1, <2>2 DEF ApproveSign
<1>12. CASE Exited \/ UNCHANGED vars
  BY <1>12, SameShown
     DEF Exited, vars, loopVars, hostVars, uiVars, globals, addrVars, signVars, Up
<1>. QED
  BY <1>1, <1>2, <1>3, <1>4, <1>6, <1>7, <1>8, <1>9, <1>10, <1>11, <1>12
     DEF Next, Handle, Button, Approve

\* Only the approve step of the sign review answers a sign command with 0x9000.
LEMMA SignAnswer ==
  ASSUME TypeOK, ReviewIsOfPending, LoopConsistent, Shown, SignsWhatWasAsked, [Next]_vars
  PROVE  SignsWhatWasAsked'
<1>1. CASE UNCHANGED reply
  BY <1>1 DEF SignsWhatWasAsked
<1>2. ASSUME NEW sw, NEW key, NEW tx, Transmit(sw, key, tx), sw # SW_OK \/ pending.ins # "sign"
      PROVE  SignsWhatWasAsked'
  BY <1>2 DEF Transmit, SignsWhatWasAsked
<1>3. CASE CallIoExchange
  BY <1>1, <1>2, <1>3 DEF CallIoExchange, LoopConsistent, hostVars
<1>4. CASE \E cmd \in Commands : Receive(cmd)
  BY <1>4 DEF Receive, NoReply, SW_OK, SignsWhatWasAsked
<1>5. CASE handleGetVersion
  BY <1>2, <1>5 DEF handleGetVersion, Dispatching
<1>6. CASE handleGetAddress \/ handleSignHash
  BY <1>1, <1>2, <1>6
     DEF handleGetAddress, handleSignHash, WrongWallet, hostVars, SW_WRONG_WALLET, SW_OK
<1>7. CASE Reject
  BY <1>2, <1>7 DEF Reject, SW_USER_REJECTED, SW_OK
<1>8. CASE ApprovePublicKey \/ ApproveAddress
  <2>1. pending.ins # "sign"
    BY <1>8 DEF ApprovePublicKey, ApproveAddress, Showing, ReviewIsOfPending, Reviewing, Up, Reviews
  <2>. QED
    BY <1>2, <1>8, <2>1 DEF ApprovePublicKey, ApproveAddress
<1>9. CASE ApproveSign
  <2>1. CASE \E key \in SigningKeys : Transmit(SW_OK, key, gTx.hash)
    <3>1. gTx.hash.receiver = pending.receiver /\ gTx.hash.amount = pending.amount
      BY <1>9 DEF ApproveSign, Showing, Shown, TextMatchesHash, Reviewing, Up, Reviews
    <3>. QED
      BY <2>1, <3>1 DEF Transmit, SignsWhatWasAsked
  <2>. QED
    BY <1>1, <1>9, <2>1 DEF ApproveSign, hostVars
<1>. QED
  BY <1>1, <1>3, <1>4, <1>5, <1>6, <1>7, <1>8, <1>9
     DEF Next, Handle, Button, Approve, Boot, BootFails, Unplug, Exited, EmptyCommand, BadCommand,
         handleGetPublicKey, MoveRight, MoveLeft, ShowStep, ui_menu_about, ui_menu_back, Quit,
         hostVars, vars

-----------------------------------------------------------------------------
(* The theorems.                                                           *)

\* IInv holds initially and every step keeps it.
THEOREM IInvInductive ==
  /\ Init => IInv
  /\ IInv /\ [Next]_vars => IInv'
<1>1. Init => IInv
  BY TypeInit
     DEF Init, IInv, ReviewIsOfPending, LoopConsistent, TextMatchesHash, ShownPathIsUsed,
         SignsWhatWasAsked, Reviewing, Up, Reviews, NoReply, SW_OK
<1>2. IInv /\ [Next]_vars => IInv'
  BY TypeStep, SessionStep, ShownStep, SignAnswer DEF IInv, Shown
<1>. QED
  BY <1>1, <1>2

\* In every behaviour of the session, for any wallets and exceptions: a review
\* belongs to the held command, shows what is hashed and derived, and a
\* signature covers the receiver and amount of the answered command.
THEOREM SessionSafe == Spec => []IInv
  BY IInvInductive, PTL DEF Spec

\* A review on the display is that of the command the transport holds, with
\* its callback set and its reply to come.
THEOREM ReviewOfPending == Spec => []ReviewIsOfPending
  BY SessionSafe, PTL DEF IInv

\* The receiver and the amount that the sign review shows are the command's,
\* and those of the hash that an approval signs.
THEOREM ReviewShowsTransfer == Spec => []TextMatchesHash
  BY SessionSafe, PTL DEF IInv

\* The path on the display is the one the address or the sender is derived from.
THEOREM PathShownIsUsed == Spec => []ShownPathIsUsed
  BY SessionSafe, PTL DEF IInv

\* A signature covers the receiver and the amount of the command it answers.
THEOREM SignedAsAsked == Spec => []SignsWhatWasAsked
  BY SessionSafe, PTL DEF IInv

\* A reviewed command is answered with 0x9000 only from the approve step of its
\* own review, after all the steps before it were displayed.
THEOREM Consent == Spec => ConsentBeforeAnswer
<1>. DEFINE Answered == reply' # reply /\ reply'.sw = SW_OK /\ reply'.to.ins \in Reviews
            Asked == /\ screen.flow = reply'.to.ins
                     /\ screen.step = ApproveStep(screen.flow)
                     /\ 1..screen.step \subseteq seen
<1>1. IInv /\ [Next]_vars => [Answered => Asked]_vars
  <2>. SUFFICES ASSUME IInv, Next, Answered
                PROVE  Asked
    OBVIOUS
  <2>1. ASSUME NEW sw, NEW key, NEW tx, Transmit(sw, key, tx)
        PROVE  sw = SW_OK /\ pending.ins \in Reviews /\ reply'.to = pending
    BY <2>1 DEF Transmit
  <2>2. CASE ApprovePublicKey \/ ApproveAddress \/ ApproveSign
    <3>1. /\ screen.flow \in Reviews /\ Reviewing
          /\ screen.step = ApproveStep(screen.flow)
      BY <2>2 DEF ApprovePublicKey, ApproveAddress, ApproveSign, Showing, Reviewing, Up, Reviews
    <3>2. reply'.to = pending
      BY <2>1, <2>2 DEF ApprovePublicKey, ApproveAddress, ApproveSign, hostVars
    <3>. QED
      BY <3>1, <3>2 DEF IInv, ReviewIsOfPending, LoopConsistent
  <2>3. CASE CallIoExchange
    BY <2>1, <2>3 DEF CallIoExchange, hostVars, IInv, LoopConsistent
  <2>4. CASE \E cmd \in Commands : Receive(cmd)
    BY <2>4 DEF Receive, NoReply, SW_OK
  <2>5. CASE handleGetVersion
    BY <2>1, <2>5 DEF handleGetVersion, Dispatching, Reviews
  <2>6. CASE handleGetAddress \/ handleSignHash
    BY <2>1, <2>6
       DEF handleGetAddress, handleSignHash, WrongWallet, hostVars, SW_WRONG_WALLET, SW_OK
  <2>7. CASE Reject
    BY <2>1, <2>7 DEF Reject, SW_USER_REJECTED, SW_OK
  <2>. QED
    BY <2>2, <2>3, <2>4, <2>5, <2>6, <2>7
       DEF Next, Handle, Button, Approve, Boot, BootFails, Unplug, Exited, EmptyCommand,
           BadCommand, handleGetPublicKey, MoveRight, MoveLeft, ShowStep, ui_menu_about,
           ui_menu_back, Quit, hostVars, vars
<1>. QED
  BY <1>1, SessionSafe, PTL DEF Spec, ConsentBeforeAnswer

\* What the thread's place says of the command and the flags, in every state.
THEOREM ConsistentLoop == Spec => []LoopConsistent
  BY SessionSafe, PTL DEF IInv

-----------------------------------------------------------------------------
(* Where reviews and answers come from: what a step can do to the review   *)
(* on the display, and to the last answer.                                 *)

SeekPosition == SeekEntry(pending.env, pending.service)

BeginsAddress ==
  /\ pending.env \in Wallets /\ pending.ins = "address"
  /\ addrWallet'.holds = pending.env /\ addrWallet'.intact
  /\ addrPath' = EntryAt(addrWallet', SeekPosition)
  /\ addrKey' = KeyFromWallet(addrWallet', pending.service, SeekPosition, 0)
  /\ screen'.flow = "address" /\ UNCHANGED pending

BeginsSign ==
  /\ pending.env \in Wallets /\ pending.ins = "sign"
  /\ signWallet'.holds = pending.env /\ signWallet'.intact
  /\ signText'.path = EntryAt(signWallet', SeekPosition)
  /\ gTx'.service = pending.service /\ gTx'.seek = SeekPosition
  /\ gTx'.sender = KeyFromWallet(signWallet', pending.service, SeekPosition, 1)
  /\ screen'.flow = "sign" /\ UNCHANGED pending

\* A signature was refused, behind the review that stays up.
SignRefused ==
  /\ ApproveSign
  /\ \E key \in SigningKeys : MayRefuse(key) /\ signWallet' = PublicKeyOver(signWallet, key)

\* The wallet is all that can change behind a review, by an approval that threw.
KeepsReview ==
  /\ screen'.flow = screen.flow /\ (Up' => Up)
  /\ UNCHANGED <<pending, addrPath, addrKey, signText, gTx>>
  /\ \/ UNCHANGED signWallet
     \/ SignRefused /\ signWallet'.holds = signWallet.holds

NoWalletReview == ~Up' \/ screen'.flow \notin {"address", "sign"}

LEMMA HandleReview ==
  ASSUME IInv, Handle
  PROVE  NoWalletReview \/ BeginsAddress \/ BeginsSign
<1>. USE DEF IInv
<1>1. pc = "dispatch" /\ screen.flow \notin Reviews
  BY NoReviewAtDispatch
     DEF Handle, EmptyCommand, BadCommand, handleGetVersion, handleGetPublicKey,
         handleGetAddress, handleSignHash, Dispatching
<1>2. CASE UNCHANGED uiVars
  BY <1>1, <1>2 DEF uiVars, Reviews, NoWalletReview
<1>3. CASE handleGetPublicKey /\ StartReview("pubkey")
  BY <1>3 DEF StartReview, StartFlow, NoWalletReview
<1>4. CASE handleGetAddress /\ ~UNCHANGED uiVars
  <2>1. /\ pending.env \in Wallets /\ UNCHANGED hostVars /\ pending.ins = "address"
        /\ addrWallet' \in Decrypted(addrWallet, pending.env)
        /\ addrPath' = EntryAt(addrWallet', SeekPosition)
        /\ addrKey' = KeyFromWallet(addrWallet', pending.service, SeekPosition, 0)
        /\ StartReview("address")
    BY <1>4 DEF handleGetAddress, SeekPosition, Dispatching
  <2>2. addrWallet'.holds = pending.env /\ addrWallet'.intact
    BY <2>1, DecryptedType DEF TypeOK, AddrTypeOK
  <2>. QED
    BY <2>1, <2>2 DEF StartReview, StartFlow, hostVars, BeginsAddress
<1>5. CASE handleSignHash /\ ~UNCHANGED uiVars
  <2>1. /\ pending.env \in Wallets /\ UNCHANGED hostVars /\ pending.ins = "sign"
        /\ signWallet' \in Decrypted(signWallet, pending.env)
        /\ BuildTransfer
    BY <1>5 DEF handleSignHash, Dispatching
  <2>2. /\ signText'.path = EntryAt(signWallet', SeekPosition)
        /\ gTx'.service = pending.service /\ gTx'.seek = SeekPosition
        /\ gTx'.sender = KeyFromWallet(signWallet', pending.service, SeekPosition, 1)
        /\ StartReview("sign")
    BY <1>5, <2>1 DEF BuildTransfer, SeekPosition
  <2>3. signWallet'.holds = pending.env /\ signWallet'.intact
    BY <2>1, DecryptedType DEF TypeOK, SignTypeOK
  <2>. QED
    BY <2>1, <2>2, <2>3 DEF StartReview, StartFlow, hostVars, BeginsSign
<1>. QED
  BY <1>2, <1>3, <1>4, <1>5 DEF Handle, EmptyCommand, BadCommand, handleGetVersion, handleGetPublicKey

LEMMA ReviewSteps ==
  ASSUME IInv, [Next]_vars
  PROVE  NoWalletReview \/ KeepsReview \/ BeginsAddress \/ BeginsSign
<1>. USE DEF IInv
<1>1. CASE Boot \/ ui_menu_about \/ ui_menu_back \/ Reject \/ ApprovePublicKey \/ ApproveAddress
  <2>1. screen'.flow \notin Reviews
    BY <1>1, MenuIsNoReview
       DEF Boot, ui_menu_about, ui_menu_back, ui_menu_main, Reject, ApprovePublicKey, ApproveAddress
  <2>. QED
    BY <2>1 DEF NoWalletReview, Reviews
<1>2. CASE BootFails \/ Unplug \/ Quit
  BY <1>2 DEF BootFails, Unplug, Quit, Up, NoWalletReview
<1>3. CASE CallIoExchange
  <2>1. screen.flow \in Reviews => UNCHANGED pending
    BY <1>3 DEF CallIoExchange, ReviewIsOfPending, Reviewing, Up, hostVars
  <2>2. UNCHANGED <<screen, addrPath, addrKey, signText, gTx, signWallet>> /\ Up
    BY <1>3 DEF CallIoExchange, uiVars, globals, addrVars, signVars, Up
  <2>. QED
    BY <2>1, <2>2 DEF Reviews, NoWalletReview, KeepsReview
<1>4. CASE \E cmd \in Commands : Receive(cmd)
  <2>1. screen'.flow \notin Reviews
    BY <1>4, NoReviewWhenIdle DEF Receive, Up, uiVars
  <2>. QED
    BY <2>1 DEF Reviews, NoWalletReview
<1>5. CASE Handle
  BY <1>5, HandleReview
<1>6. CASE MoveRight \/ MoveLeft
  <2>1. PICK step \in 1..6 : ShowStep(step)
    BY <1>6 DEF MoveRight, MoveLeft, TypeOK, UITypeOK, Flows, FlowSteps
  <2>. QED
    BY <2>1
       DEF ShowStep, loopVars, hostVars, globals, addrVars, signVars, Up, TypeOK, UITypeOK, KeepsReview
<1>7. CASE ApproveSign
  <2>1. CASE ui_menu_main
    BY <2>1, MenuIsNoReview DEF ui_menu_main, Reviews, NoWalletReview
  <2>2. CASE SignRefused /\ UNCHANGED <<hostVars, uiVars>>
    <3>1. signWallet'.holds = signWallet.holds
      BY <2>2, PublicKeyOverType DEF SignRefused, SignTypeOK, TypeOK
    <3>. QED
      BY <1>7, <2>2, <3>1 DEF ApproveSign, Showing, hostVars, uiVars, addrVars, Up, KeepsReview
  <2>3. CASE UNCHANGED <<hostVars, uiVars, signWallet>>
    BY <1>7, <2>3 DEF ApproveSign, Showing, hostVars, uiVars, addrVars, Up, KeepsReview
  <2>. QED
    BY <1>7, <2>1, <2>2, <2>3 DEF ApproveSign, SignRefused
<1>8. CASE Exited \/ UNCHANGED vars
  BY <1>8
     DEF Exited, vars, loopVars, hostVars, uiVars, globals, addrVars, signVars, Up, KeepsReview
<1>. QED
  BY <1>1, <1>2, <1>3, <1>4, <1>5, <1>6, <1>7, <1>8 DEF Next, Button, Approve

\* The answers that carry keys of a wallet.
AnswersAddress ==
  /\ ApproveAddress /\ Reviewing /\ screen.flow = "address" /\ pending.ins = "address"
  /\ Transmit(SW_OK, addrKey, NoTx)

AnswersSign ==
  /\ ApproveSign /\ Reviewing /\ screen.flow = "sign" /\ pending.ins = "sign"
  /\ \E key \in SigningKeys : Transmit(SW_OK, key, gTx.hash) /\ MaySign(key)
  /\ gTx.hash.sender = gTx.sender

LEMMA AnswerSteps ==
  ASSUME IInv, [Next]_vars
  PROVE  \/ UNCHANGED reply
         \/ reply'.sw # SW_OK \/ reply'.to.ins \notin {"address", "sign"}
         \/ AnswersAddress \/ AnswersSign
<1>. USE DEF IInv
<1>1. CASE CallIoExchange
  BY <1>1 DEF CallIoExchange, LoopConsistent, hostVars, Transmit
<1>2. CASE \E cmd \in Commands : Receive(cmd)
  BY <1>2 DEF Receive, NoReply, SW_OK
<1>3. CASE handleGetVersion
  BY <1>3 DEF handleGetVersion, Dispatching, Transmit
<1>4. CASE handleGetAddress \/ handleSignHash
  BY <1>4
     DEF handleGetAddress, handleSignHash, WrongWallet, hostVars, SW_WRONG_WALLET, SW_OK, Transmit
<1>5. CASE Reject
  BY <1>5 DEF Reject, SW_USER_REJECTED, SW_OK, Transmit
<1>6. CASE ApprovePublicKey
  <2>1. pending.ins = "pubkey"
    BY <1>6 DEF ApprovePublicKey, Showing, ReviewIsOfPending, Reviewing, Up, Reviews
  <2>. QED
    BY <1>6, <2>1 DEF ApprovePublicKey, Transmit
<1>7. CASE ApproveAddress
  <2>1. Reviewing /\ screen.flow = "address"
    BY <1>7 DEF ApproveAddress, Showing, Reviewing, Up, Reviews
  <2>. QED
    BY <1>7, <2>1 DEF ReviewIsOfPending, ApproveAddress, AnswersAddress
<1>8. CASE ApproveSign
  <2>1. Reviewing /\ screen.flow = "sign"
    BY <1>8 DEF ApproveSign, Showing, Reviewing, Up, Reviews
  <2>2. pending.ins = "sign" /\ gTx.hash.sender = gTx.sender
    BY <2>1 DEF ReviewIsOfPending, TextMatchesHash
  <2>. QED
    BY <1>8, <2>1, <2>2 DEF ApproveSign, hostVars, AnswersSign
<1>. QED
  BY <1>1, <1>2, <1>3, <1>4, <1>5, <1>6, <1>7, <1>8
     DEF Next, Handle, Button, Approve, Boot, BootFails, Unplug, Exited, EmptyCommand, BadCommand,
         handleGetPublicKey, MoveRight, MoveLeft, ShowStep, ui_menu_about, ui_menu_back, Quit,
         hostVars, vars

\* The transport holds a command of the host, or none.
LEMMA HeldStep ==
  ASSUME pending \in Commands \cup {NoCmd}, [Next]_vars
  PROVE  pending' \in Commands \cup {NoCmd}
<1>1. CASE UNCHANGED pending \/ pending' = NoCmd
  BY <1>1
<1>2. CASE \E cmd \in Commands : Receive(cmd)
  BY <1>2 DEF Receive
<1>3. CASE Handle
  BY <1>1, <1>3
     DEF Handle, EmptyCommand, BadCommand, handleGetVersion, handleGetPublicKey, handleGetAddress,
         handleSignHash, WrongWallet, Transmit, hostVars
<1>4. CASE Button
  BY <1>1, <1>4
     DEF Button, Approve, MoveRight, MoveLeft, ShowStep, ui_menu_about, ui_menu_back, Quit, Reject,
         ApprovePublicKey, ApproveAddress, ApproveSign, Transmit, hostVars
<1>5. CASE Boot \/ BootFails \/ Exited \/ CallIoExchange \/ Unplug \/ UNCHANGED vars
  BY <1>1, <1>5 DEF Boot, BootFails, Exited, CallIoExchange, Unplug, Transmit, hostVars, vars
<1>. QED
  BY <1>2, <1>3, <1>4, <1>5 DEF Next

-----------------------------------------------------------------------------
(* The seed, whatever the host asks for.                                   *)

\* The keys behind a review, and the key yet to be derived, are of the seed of
\* the held command's wallet.
SeedOfReview ==
  Reviewing =>
    /\ screen.flow = "address" => addrKey.seed \in {Blank, pending.env}
    /\ screen.flow = "sign" => /\ gTx.sender.seed \in {Blank, pending.env}
                              /\ signWallet.holds \in {Blank, pending.env}

\* A derived key is of the seed of the wallet in the buffer, as long as its
\* start is the wallet's own.
LEMMA SeedIs ==
  ASSUME NEW buf, NEW s, NEW pos, NEW offset
  PROVE  /\ KeyFromWallet(buf, s, pos, offset).seed \in {Blank, Scrap, buf.holds}
         /\ buf.intact => KeyFromWallet(buf, s, pos, offset).seed \in {Blank, buf.holds}
BY DEF KeyFromWallet, NoKey

\* Whatever is asked for and whatever throws, an answer is made with no seed of
\* another wallet than the command's own.
THEOREM OwnSeed == Spec => []OnlyOwnSeed
<1>1. Init => SeedOfReview /\ OnlyOwnSeed
  BY DEF Init, SeedOfReview, OnlyOwnSeed, Reviewing, Up, NoReply, SW_OK
<1>2. IInv /\ SeedOfReview /\ [Next]_vars => SeedOfReview'
  <2>. SUFFICES ASSUME IInv, SeedOfReview, [Next]_vars PROVE SeedOfReview'
    OBVIOUS
  <2>1. CASE NoWalletReview
    BY <2>1 DEF NoWalletReview, SeedOfReview, Reviewing
  <2>2. CASE KeepsReview
    BY <2>2 DEF KeepsReview, SeedOfReview, Reviewing
  <2>3. CASE BeginsAddress
    BY <2>3, SeedIs DEF BeginsAddress, SeedOfReview
  <2>4. CASE BeginsSign
    BY <2>4, SeedIs DEF BeginsSign, SeedOfReview
  <2>. QED
    BY <2>1, <2>2, <2>3, <2>4, ReviewSteps
<1>3. IInv /\ SeedOfReview /\ OnlyOwnSeed /\ [Next]_vars => OnlyOwnSeed'
  <2>. SUFFICES ASSUME IInv, SeedOfReview, OnlyOwnSeed, [Next]_vars PROVE OnlyOwnSeed'
    OBVIOUS
  <2>1. CASE AnswersAddress
    BY <2>1 DEF AnswersAddress, SeedOfReview, Transmit, OnlyOwnSeed
  <2>2. CASE AnswersSign
    <3>1. \A key \in SigningKeys : key.seed \in {Blank, Scrap, signWallet.holds}
      BY SeedIs DEF SigningKeys, NoKey, ScrapKey
    <3>. QED
      BY <2>2, <3>1 DEF AnswersSign, SeedOfReview, Transmit, OnlyOwnSeed
  <2>. QED
    BY <2>1, <2>2, AnswerSteps DEF OnlyOwnSeed
<1>. QED
  BY <1>1, <1>2, <1>3, SessionSafe, PTL DEF Spec

-----------------------------------------------------------------------------
(* A host that asks only for services its wallets have.                    *)

HostAsks == \A cmd \in Commands :
           cmd.ins \in {"address", "sign"} /\ cmd.env \in Wallets =>
             cmd.service < Total[cmd.env] /\ ~TooShort(cmd.env, cmd.service)

\* A review's keys are of the service of the held command, and so is the
\* wallet that the signing key is yet to be derived from.  A public key is over
\* its start only when a signature with an Ed25519 key was refused.
OwnReview ==
  Reviewing =>
    /\ screen.flow = "address" => addrKey = OwnKey(pending, 0)
    /\ screen.flow = "sign" =>
         /\ gTx.sender = OwnKey(pending, 1)
         /\ gTx.service = pending.service
         /\ gTx.seek = SeekPosition
         /\ signWallet.holds = pending.env
         /\ signWallet.intact \/ OwnEntry(pending) \in Ed25519
         /\ pending.env \in Wallets

OwnInv == pending \in Commands \cup {NoCmd} /\ OwnReview /\ NoOtherService

\* The key of a service that the wallet in a buffer has: its own, unless the
\* seed has been written over.
LEMMA OwnKeyIs ==
  ASSUME HostAsks, NEW cmd \in Commands, cmd.ins \in {"address", "sign"}, cmd.env \in Wallets,
         NEW buf, buf.holds = cmd.env, NEW offset
  PROVE  LET key == KeyFromWallet(buf, cmd.service, SeekEntry(cmd.env, cmd.service), offset)
         IN  /\ key # NoKey /\ key.entry = OwnEntry(cmd)
             /\ buf.intact => key = OwnKey(cmd, offset)
<1>1. /\ cmd.service \in Nat /\ Total[cmd.env] \in Nat /\ cmd.env # Blank
      /\ cmd.service < Total[cmd.env] /\ ~TooShort(cmd.env, cmd.service)
  BY ConstantsOK DEF ConstantsOK, HostAsks, Command, Byte
<1>2. SeekEntry(cmd.env, cmd.service) = cmd.service + 1
  BY <1>1 DEF SeekEntry
<1>3. EntryAt(buf, cmd.service + 1) = <<cmd.env, cmd.service + 1>>
  BY <1>1 DEF EntryAt
<1>4. <<cmd.env, cmd.service + 1>> # NoEntry
  BY <1>1 DEF NoEntry
<1>. QED
  BY <1>1, <1>2, <1>3, <1>4 DEF KeyFromWallet, OwnKey, OwnEntry, NoKey

\* A command that is not NoCmd is one of the host's.
LEMMA HeldIsCommand ==
  ASSUME pending \in Commands \cup {NoCmd}, pending.ins \in {"address", "sign"}
  PROVE  pending \in Commands
BY DEF NoCmd

\* The keys that an approved transfer may be signed with: its service's own, or
\* a refused one of the same curve; when a public key is over the path, one
\* that was never derived or is made of its bytes.
LEMMA SigningOwn ==
  ASSUME HostAsks, ReviewIsOfPending, OwnReview, pending \in Commands \cup {NoCmd}, ApproveSign,
         NEW key \in SigningKeys
  PROVE  /\ \/ key = OwnKey(pending, 0)
            \/ ~MaySign(key)
            \/ /\ key \in {NoKey, ScrapKey}
               /\ OwnEntry(pending) \in Ed25519 /\ ~Kept(OwnEntry(pending))
         /\ MayRefuse(key) => OwnEntry(pending) \in Ed25519
<1>1. Reviewing /\ screen.flow = "sign"
  BY DEF ApproveSign, Showing, Reviewing, Up, Reviews
<1>2. pending.ins = "sign" /\ pending \in Commands
  BY <1>1, HeldIsCommand DEF ReviewIsOfPending
<1>3. /\ gTx.service = pending.service /\ gTx.seek = SeekPosition /\ pending.env \in Wallets
      /\ signWallet.holds = pending.env
      /\ signWallet.intact \/ OwnEntry(pending) \in Ed25519
  BY <1>1 DEF OwnReview
<1>. DEFINE derived == KeyFromWallet(signWallet, gTx.service, gTx.seek, 0)
<1>4. /\ derived # NoKey /\ derived.entry = OwnEntry(pending)
      /\ signWallet.intact => derived = OwnKey(pending, 0)
  BY <1>2, <1>3, OwnKeyIs DEF SeekPosition
<1>5. SigningKeys = IF signWallet.intact \/ derived = NoKey \/ Kept(derived.entry)
                    THEN {derived} ELSE {NoKey, ScrapKey}
  BY DEF SigningKeys
<1>. HIDE DEF derived
<1>6. CASE signWallet.intact
  <2>1. key = OwnKey(pending, 0) /\ key.entry = OwnEntry(pending)
    BY <1>4, <1>5, <1>6
  <2>2. OwnEntry(pending) \notin {NoEntry, ScrapEntry}
    BY <1>3, ConstantsOK DEF ConstantsOK, OwnEntry, NoEntry, ScrapEntry
  <2>. QED
    BY <2>1, <2>2 DEF MayRefuse
<1>7. CASE ~signWallet.intact /\ Kept(OwnEntry(pending))
  <2>1. key.entry = OwnEntry(pending)
    BY <1>4, <1>5, <1>7
  <2>. QED
    BY <1>3, <1>7, <2>1 DEF MaySign
<1>8. CASE ~signWallet.intact /\ ~Kept(OwnEntry(pending))
  BY <1>3, <1>4, <1>5, <1>8
<1>. QED
  BY <1>6, <1>7, <1>8

LEMMA OwnReviewStep ==
  ASSUME HostAsks, IInv, pending \in Commands \cup {NoCmd}, OwnReview, [Next]_vars
  PROVE  OwnReview'
<1>1. CASE NoWalletReview
  BY <1>1 DEF NoWalletReview, OwnReview, Reviewing
<1>2. CASE KeepsReview
  <2>1. CASE UNCHANGED signWallet
    BY <1>2, <2>1 DEF KeepsReview, OwnReview, Reviewing, SeekPosition
  <2>2. CASE SignRefused /\ signWallet'.holds = signWallet.holds
    <3>1. OwnEntry(pending) \in Ed25519
      BY <2>2, SigningOwn DEF SignRefused, IInv
    <3>. QED
      BY <1>2, <2>2, <3>1 DEF KeepsReview, OwnReview, Reviewing, SeekPosition, OwnEntry, OwnKey
  <2>. QED
    BY <1>2, <2>1, <2>2 DEF KeepsReview
<1>3. CASE BeginsAddress
  <2>1. addrKey' = OwnKey(pending, 0)
    BY <1>3, HeldIsCommand, OwnKeyIs DEF BeginsAddress, SeekPosition
  <2>. QED
    BY <1>3, <2>1 DEF BeginsAddress, OwnReview, OwnKey, OwnEntry
<1>4. CASE BeginsSign
  <2>1. gTx'.sender = OwnKey(pending, 1)
    BY <1>4, HeldIsCommand, OwnKeyIs DEF BeginsSign, SeekPosition
  <2>. QED
    BY <1>4, <2>1 DEF BeginsSign, OwnReview, OwnKey, OwnEntry, SeekPosition
<1>. QED
  BY <1>1, <1>2, <1>3, <1>4, ReviewSteps

LEMMA OwnAnswerStep ==
  ASSUME HostAsks, IInv, OwnInv, [Next]_vars
  PROVE  NoOtherService'
<1>1. CASE AnswersAddress
  BY <1>1 DEF AnswersAddress, OwnInv, OwnReview, Transmit, NoOtherService
<1>2. CASE AnswersSign
  <2>1. PICK key \in SigningKeys : Transmit(SW_OK, key, gTx.hash) /\ MaySign(key)
    BY <1>2 DEF AnswersSign
  <2>2. \/ key = OwnKey(pending, 0)
        \/ /\ key \in {NoKey, ScrapKey}
           /\ OwnEntry(pending) \in Ed25519 /\ ~Kept(OwnEntry(pending))
    BY <1>2, <2>1, SigningOwn DEF AnswersSign, IInv, OwnInv
  <2>3. gTx.hash.sender = OwnKey(pending, 1)
    BY <1>2 DEF AnswersSign, OwnInv, OwnReview
  <2>. QED
    BY <1>2, <2>1, <2>2, <2>3 DEF AnswersSign, Transmit, NoOtherService, OwnEntry
<1>. QED
  BY <1>1, <1>2, AnswerSteps DEF OwnInv, NoOtherService

LEMMA OwnInit == Init => OwnInv
BY DEF Init, OwnInv, OwnReview, Reviewing, Up, NoOtherService, NoReply, SW_OK

LEMMA OwnStep == HostAsks /\ IInv /\ OwnInv /\ [Next]_vars => OwnInv'
BY HeldStep, OwnReviewStep, OwnAnswerStep DEF OwnInv

\* As long as the host asks for services its wallets have, no answer comes from
\* another service, whatever throws.  Only for one of curve Ed25519, with its
\* path in reach of a public key written over the wallet, can a signature be
\* made with a key that was never derived or came from that public key.
THEOREM NeverAnotherService ==
  ASSUME HostAsks
  PROVE  Spec => []NoOtherService
<1>1. IInv /\ OwnInv /\ [Next]_vars => OwnInv'
  BY OwnStep
<1>2. OwnInv => NoOtherService
  BY DEF OwnInv
<1>. QED
  BY <1>1, <1>2, OwnInit, SessionSafe, PTL DEF Spec

\* With none of the services of curve Ed25519, every address, sender and
\* signature is made with a key of the service asked for.
THEOREM OwnServiceAnswers ==
  ASSUME HostAsks, Ed25519 = {}
  PROVE  Spec => []AnswersFromOwnService
<1>1. NoOtherService => AnswersFromOwnService
  BY DEF NoOtherService, AnswersFromOwnService
<1>. QED
  BY <1>1, NeverAnotherService, PTL

\* A status word in the buffer, with the flag clear: io_exchange will send it.
CaughtIsSendable == caught # 0 => ~asynch

LEMMA CaughtStep ==
  ASSUME HostAsks, Ed25519 = {}, Faults = {}, IInv, OwnInv, CaughtIsSendable, [Next]_vars
  PROVE  CaughtIsSendable'
<1>. USE DEF IInv, LoopConsistent, CaughtIsSendable
<1>1. CASE Boot \/ CallIoExchange
  BY <1>1 DEF Boot, CallIoExchange
<1>2. CASE \E cmd \in Commands : Receive(cmd)
  BY <1>2 DEF Receive
<1>3. CASE UNCHANGED <<asynch, caught>>
  BY <1>3
<1>4. CASE BadCommand \/ handleGetVersion
  BY <1>4 DEF BadCommand, handleGetVersion, Dispatching
<1>5. ASSUME pc = "dispatch", UNCHANGED asynch \/ UNCHANGED caught
      PROVE  CaughtIsSendable'
  BY <1>5
<1>6. ASSUME pc = "dispatch", EcdhThrows, UNCHANGED asynch
      PROVE  CaughtIsSendable'
  BY <1>5, <1>6
<1>7. CASE handleGetPublicKey
  BY <1>5, <1>7 DEF handleGetPublicKey, Dispatching, Return
<1>8. CASE handleGetAddress
  BY <1>5, <1>6, <1>8 DEF handleGetAddress, WrongWallet, Dispatching, Return
<1>9. CASE handleSignHash
  BY <1>5, <1>6, <1>9 DEF handleSignHash, BuildTransfer, WrongWallet, Dispatching, Return
<1>10. CASE ApproveSign
  <2>1. \A key \in SigningKeys : ~MayRefuse(key)
    BY <1>10, SigningOwn DEF OwnInv, IInv
  <2>. QED
    BY <1>3, <1>10, <2>1 DEF ApproveSign
<1>. QED
  BY <1>1, <1>2, <1>3, <1>4, <1>7, <1>8, <1>9, <1>10
     DEF Next, Handle, Button, Approve, BootFails, Unplug, Exited, EmptyCommand, MoveRight, MoveLeft,
         ShowStep, ui_menu_about, ui_menu_back, Quit, Reject, ApprovePublicKey, ApproveAddress,
         loopVars, vars

\* With these commands, and as long as no derivation throws, no status word is
\* lost: the host gets the one that CATCH_OTHER put in the buffer.
THEOREM CaughtIsSent ==
  ASSUME HostAsks, Ed25519 = {}, Faults = {}
  PROVE  Spec => CaughtStatusIsSent
<1>1. Init => CaughtIsSendable
  BY DEF Init, CaughtIsSendable
<1>2. IInv /\ OwnInv /\ [Next]_vars => OwnInv'
  BY OwnStep
<1>3. IInv /\ OwnInv /\ CaughtIsSendable /\ [Next]_vars => CaughtIsSendable'
  BY CaughtStep
<1>. DEFINE Sent == caught # 0 /\ caught' = 0 /\ Up => reply'.sw = caught
<1>4. IInv /\ CaughtIsSendable /\ [Next]_vars => [Sent]_vars
  <2>. SUFFICES ASSUME IInv, CaughtIsSendable, Next, caught # 0, caught' = 0, Up
                PROVE  reply'.sw = caught
    OBVIOUS
  <2>1. pc = "loop"
    BY DEF IInv, LoopConsistent
  <2>2. CallIoExchange
    BY <2>1 DEF Next, Handle, Button, Approve, Boot, BootFails, Exited, Unplug, Receive, EmptyCommand,
                BadCommand, handleGetVersion, handleGetPublicKey, handleGetAddress, handleSignHash,
                Dispatching, MoveRight, MoveLeft, ui_menu_about, ui_menu_back, Quit, Reject,
                ApprovePublicKey, ApproveAddress, ApproveSign, Showing
  <2>3. Transmit(caught, NoKey, NoTx)
    BY <2>2 DEF CallIoExchange, CaughtIsSendable
  <2>. QED
    BY <2>3 DEF Transmit
<1>. QED
  BY <1>1, <1>2, <1>3, <1>4, OwnInit, SessionSafe, PTL DEF Spec, CaughtStatusIsSent

-----------------------------------------------------------------------------
(* A host that may ask for any service, the one just past the end excepted. *)

NoneJustPastEnd == \A cmd \in Commands :
                     cmd.ins \in {"address", "sign"} /\ cmd.env \in Wallets =>
                       cmd.service # Total[cmd.env]

\* The path read for such a command is the service's own, or empty: an index
\* further on makes getDerivationPath return early.
LEMMA OwnPathIs ==
  ASSUME NoneJustPastEnd, NEW cmd \in Commands, cmd.ins \in {"address", "sign"},
         cmd.env \in Wallets, NEW buf, buf.holds = cmd.env
  PROVE  EntryAt(buf, SeekEntry(cmd.env, cmd.service)) \in {NoEntry, OwnEntry(cmd)}
<1>1. /\ cmd.service \in Nat /\ Total[cmd.env] \in Nat /\ cmd.env # Blank
      /\ cmd.service # Total[cmd.env]
  BY ConstantsOK DEF ConstantsOK, NoneJustPastEnd, Command, Byte
<1>2. CASE SeekEntry(cmd.env, cmd.service) = 0
  BY <1>2 DEF EntryAt
<1>3. CASE SeekEntry(cmd.env, cmd.service) # 0
  <2>1. SeekEntry(cmd.env, cmd.service) = cmd.service + 1 /\ cmd.service + 1 <= Total[cmd.env]
    BY <1>1, <1>3 DEF SeekEntry
  <2>. QED
    BY <1>1, <2>1 DEF EntryAt, OwnEntry
<1>. QED
  BY <1>2, <1>3

LEMMA OwnPathStep ==
  ASSUME NoneJustPastEnd, IInv, pending \in Commands \cup {NoCmd}, ShownPathIsOwn, [Next]_vars
  PROVE  ShownPathIsOwn'
<1>1. CASE NoWalletReview
  BY <1>1 DEF NoWalletReview, ShownPathIsOwn, Reviewing
<1>2. CASE KeepsReview
  BY <1>2 DEF KeepsReview, ShownPathIsOwn, Reviewing
<1>3. CASE BeginsAddress
  <2>1. addrPath' \in {NoEntry, OwnEntry(pending)}
    BY <1>3, HeldIsCommand, OwnPathIs DEF BeginsAddress, SeekPosition
  <2>. QED
    BY <1>3, <2>1 DEF BeginsAddress, ShownPathIsOwn, OwnEntry
<1>4. CASE BeginsSign
  <2>1. signText'.path \in {NoEntry, OwnEntry(pending)}
    BY <1>4, HeldIsCommand, OwnPathIs DEF BeginsSign, SeekPosition
  <2>. QED
    BY <1>4, <2>1 DEF BeginsSign, ShownPathIsOwn, OwnEntry
<1>. QED
  BY <1>1, <1>2, <1>3, <1>4, ReviewSteps

\* Unless the host asks for the index just past the end of a wallet, no review
\* shows a path of anything but the service asked for.
THEOREM OwnPathShown ==
  ASSUME NoneJustPastEnd
  PROVE  Spec => []ShownPathIsOwn
<1>. DEFINE Holding == pending \in Commands \cup {NoCmd}
<1>1. Init => Holding /\ ShownPathIsOwn
  BY DEF Init, ShownPathIsOwn, Reviewing, Up
<1>2. Holding /\ [Next]_vars => Holding'
  BY HeldStep
<1>3. IInv /\ Holding /\ ShownPathIsOwn /\ [Next]_vars => ShownPathIsOwn'
  BY OwnPathStep
<1>. QED
  BY <1>1, <1>2, <1>3, SessionSafe, PTL DEF Spec

-----------------------------------------------------------------------------
(* How the answer to a command can be lost.                                *)

\* A handler that leaves IO_ASYNCH_REPLY set without a status word has started
\* the review that will answer.
AskedAtLoop == pc = "loop" /\ asynch /\ caught = 0 => Reviewing

LEMMA AskedStep ==
  ASSUME IInv, AskedAtLoop, [Next]_vars
  PROVE  AskedAtLoop'
<1>. USE DEF AskedAtLoop
<1>1. CASE Boot
  BY <1>1 DEF Boot
<1>2. CASE pc' # "loop" \/ UNCHANGED <<pc, asynch, caught, screen>>
  BY <1>2 DEF Reviewing, Up
<1>3. ASSUME NEW e \in Faults \cup {INVALID_PARAMETER, SW_BAD_CLA, SW_BAD_INS}, Throw(e)
      PROVE  AskedAtLoop'
  BY <1>3, StatusWordType DEF Throw
<1>4. ASSUME NEW f \in Reviews, StartReview(f), Return
      PROVE  AskedAtLoop'
  BY <1>4 DEF StartReview, StartFlow, Return, Reviewing, Up
<1>5. ASSUME pc = "dispatch", WrongWallet, UNCHANGED asynch
      PROVE  AskedAtLoop'
  BY <1>5 DEF IInv, LoopConsistent
<1>6. CASE EmptyCommand \/ BadCommand \/ handleGetVersion
  BY <1>2, <1>3, <1>6 DEF EmptyCommand, BadCommand, handleGetVersion, Dispatching, IInv, LoopConsistent
<1>7. CASE handleGetPublicKey
  BY <1>3, <1>4, <1>7 DEF handleGetPublicKey, Reviews
<1>8. CASE handleGetAddress
  BY <1>3, <1>4, <1>5, <1>8 DEF handleGetAddress, EcdhThrows, Dispatching, Reviews
<1>9. CASE handleSignHash
  BY <1>3, <1>4, <1>5, <1>9 DEF handleSignHash, BuildTransfer, EcdhThrows, Dispatching, Reviews
<1>10. CASE ApproveSign
  BY <1>2, <1>3, <1>10 DEF ApproveSign, Showing
<1>11. CASE BootFails \/ CallIoExchange \/ Unplug \/ \E cmd \in Commands : Receive(cmd)
  BY <1>2, <1>11 DEF BootFails, CallIoExchange, Unplug, Receive
<1>12. CASE MoveRight \/ MoveLeft \/ ui_menu_about \/ ui_menu_back \/ Quit \/ Reject
            \/ ApprovePublicKey \/ ApproveAddress
  BY <1>2, <1>12
     DEF MoveRight, MoveLeft, ShowStep, Showing, ui_menu_about, ui_menu_back, Quit, Reject,
         ApprovePublicKey, ApproveAddress, loopVars
<1>13. CASE Exited \/ UNCHANGED vars
  BY <1>2, <1>13 DEF Exited, vars, loopVars, uiVars
<1>. HIDE DEF AskedAtLoop
<1>. QED
  BY <1>1, <1>6, <1>7, <1>8, <1>9, <1>10, <1>11, <1>12, <1>13 DEF Next, Handle, Button, Approve

\* The step that loses an answer is a call of io_exchange.
LEMMA LosingStep ==
  ASSUME IInv, AskedAtLoop, [Next]_vars, ~Unanswered, Unanswered'
  PROVE  pc = "loop" /\ asynch /\ caught # 0
<1>. USE DEF Unanswered
<1>1. pc' = "wait" /\ pending' # NoCmd /\ ~Reviewing'
  OBVIOUS
<1>2. CASE CallIoExchange
  <2>1. asynch /\ UNCHANGED pending
    BY <1>1, <1>2 DEF CallIoExchange, Transmit, hostVars
  <2>2. ~Reviewing
    BY <1>1, <1>2 DEF CallIoExchange, uiVars, Reviewing, Up
  <2>. QED
    BY <1>2, <2>1, <2>2 DEF CallIoExchange, AskedAtLoop
<1>3. CASE pc = "wait" /\ UNCHANGED pending /\ screen'.flow = screen.flow
  BY <1>1, <1>3 DEF Reviewing, Up
<1>4. CASE MoveRight \/ MoveLeft
  <2>1. screen'.flow = screen.flow
    BY <1>4 DEF MoveRight, MoveLeft, ShowStep, IInv, TypeOK, UITypeOK
  <2>. QED
    BY <1>3, <1>4, <2>1 DEF MoveRight, MoveLeft, ShowStep, hostVars
<1>5. CASE ui_menu_about \/ ui_menu_back
  BY <1>1, <1>5 DEF ui_menu_about, ui_menu_back, Showing, hostVars, Reviewing, Reviews
<1>6. CASE Reject \/ Approve
  BY <1>1, <1>6 DEF Reject, Approve, ApprovePublicKey, ApproveAddress, ApproveSign, Transmit, Throw
<1>7. CASE Handle
  BY <1>1, <1>7
     DEF Handle, EmptyCommand, BadCommand, handleGetVersion, handleGetPublicKey, handleGetAddress,
         handleSignHash, BuildTransfer, WrongWallet, EcdhThrows, Throw, Return
<1>8. CASE Exited \/ UNCHANGED vars
  BY <1>1, <1>3, <1>8 DEF Exited, vars, loopVars, hostVars, uiVars
<1>. QED
  BY <1>1, <1>2, <1>4, <1>5, <1>6, <1>7, <1>8
     DEF Next, Button, Boot, BootFails, Unplug, Receive, Quit

LEMMA AskedInit == Init => AskedAtLoop
BY DEF Init, AskedAtLoop

\* Whatever the commands and the exceptions are, an answer is lost in one way
\* only: a status word of CATCH_OTHER that io_exchange is told not to send.
THEOREM LostByStatus == Spec => LostOnlyWithStatus
<1>1. IInv /\ AskedAtLoop /\ [Next]_vars => AskedAtLoop'
  BY AskedStep
<1>. DEFINE Lost == ~Unanswered /\ Unanswered' => pc = "loop" /\ asynch /\ caught # 0
<1>2. IInv /\ AskedAtLoop /\ [Next]_vars => [Lost]_vars
  BY LosingStep
<1>. QED
  BY <1>1, <1>2, AskedInit, SessionSafe, PTL DEF Spec, LostOnlyWithStatus

\* With commands about services of no Ed25519 curve that the wallets have, and as
\* long as no derivation throws, no answer is lost: while a command is held and
\* the application waits, its review is on the display.
THEOREM HeldReviewed ==
  ASSUME HostAsks, Ed25519 = {}, Faults = {}
  PROVE  Spec => []HeldIsReviewed
<1>1. Init => CaughtIsSendable /\ HeldIsReviewed
  BY DEF Init, CaughtIsSendable, HeldIsReviewed, Unanswered
<1>2. IInv /\ OwnInv /\ [Next]_vars => OwnInv'
  BY OwnStep
<1>3. IInv /\ OwnInv /\ CaughtIsSendable /\ [Next]_vars => CaughtIsSendable'
  BY CaughtStep
<1>4. IInv /\ AskedAtLoop /\ [Next]_vars => AskedAtLoop'
  BY AskedStep
<1>5. IInv /\ AskedAtLoop /\ CaughtIsSendable /\ HeldIsReviewed /\ [Next]_vars => HeldIsReviewed'
  BY LosingStep DEF CaughtIsSendable, HeldIsReviewed
<1>. QED
  BY <1>1, <1>2, <1>3, <1>4, <1>5, OwnInit, AskedInit, SessionSafe, PTL DEF Spec

-----------------------------------------------------------------------------
(* The refinement: ArchethicApp implements CommandProtocol.  Its initial    *)
(* states map to initial states, and each of its steps to a step of the     *)
(* protocol or to a stutter.                                                *)

\* The command as the abstract protocol sees it.
Held == IF Up THEN pending ELSE NoCmd

\* A step that leaves pc's side of Up, the command, the review and the answer
\* alone is a stutter.
LEMMA Stutter ==
  ASSUME Up' = Up, Held' = Held, Reviewing' = Reviewing, reply'.sw = reply.sw
  PROVE  UNCHANGED Protocol!vars
BY DEF Protocol!vars, Held

\* Leaving the loops for the boot loop or for app_exit is GoDown.
LEMMA Down ==
  ASSUME Up, ~Up', UNCHANGED reply
  PROVE  Protocol!GoDown
BY DEF Protocol!GoDown, Reviewing

\* A failure, or the version, is an answer the user was not asked for.
LEMMA AnswerUnasked ==
  ASSUME Up, Up', ~Reviewing, ~Reviewing', pending # NoCmd,
         NEW sw \in Nat, sw # 0, pending.ins \in Reviews => sw # SW_OK,
         NEW key, NEW tx, Transmit(sw, key, tx)
  PROVE  Protocol!Answer
<1>1. pending' = NoCmd /\ reply'.sw = sw
  BY DEF Transmit
<1>2. sw \in Nat \ {0}
  OBVIOUS
<1>3. Up' = Up /\ Reviewing' = Reviewing
  BY DEF Up, Reviewing
<1>. QED
  BY <1>1, <1>2, <1>3, Zenon DEF Protocol!Answer, Protocol!NeedsConsent

\* The end of a review is a decision.
LEMMA Decided ==
  ASSUME Reviewing, Up', ~Reviewing', NEW yes \in BOOLEAN, NEW key, NEW tx,
         Transmit(IF yes THEN SW_OK ELSE SW_USER_REJECTED, key, tx)
  PROVE  Protocol!Decide(yes)
BY DEF Protocol!Decide, Transmit, Reviewing

\* The start of a review asks the user about the held command.
LEMMA AskRefines ==
  ASSUME Up, pending # NoCmd, pending.ins \in Reviews, ~Reviewing,
         NEW f \in Reviews, StartReview(f), Return, UNCHANGED hostVars
  PROVE  Protocol!Ask
BY DEF Protocol!Ask, Protocol!NeedsConsent, StartReview, StartFlow, Return, hostVars, Reviewing, Up

\* The handlers refine Ask, Answer, GoDown or nothing.
LEMMA HandleRefines ==
  ASSUME IInv, Handle
  PROVE  [Protocol!Next]_(Protocol!vars)
<1>1. /\ pc = "dispatch" /\ Up /\ pending # NoCmd
      /\ ~Reviewing /\ screen.flow \notin Reviews
  BY NoReviewAtDispatch
     DEF Handle, EmptyCommand, BadCommand, handleGetVersion, handleGetPublicKey,
         handleGetAddress, handleSignHash, Dispatching, IInv, LoopConsistent, Up, Reviewing
<1>2. ASSUME UNCHANGED <<hostVars, uiVars>>, pc' = "loop"
      PROVE  UNCHANGED Protocol!vars
  BY <1>1, <1>2, Stutter DEF hostVars, uiVars, Up, Reviewing, Held
<1>3. ASSUME WrongWallet, UNCHANGED uiVars
      PROVE  Protocol!Answer
  BY <1>1, <1>3, AnswerUnasked
     DEF WrongWallet, Return, uiVars, Up, Reviewing, SW_WRONG_WALLET, SW_OK
<1>4. CASE EmptyCommand
  BY <1>1, <1>4, Down DEF EmptyCommand, hostVars, Up, Protocol!Next
<1>5. CASE BadCommand
  BY <1>2, <1>5 DEF BadCommand, Throw
<1>6. CASE handleGetVersion
  <2>1. pending.ins \notin Reviews /\ Up' /\ ~Reviewing'
    BY <1>1, <1>6 DEF handleGetVersion, Dispatching, Return, uiVars, Up, Reviewing, Reviews
  <2>2. SW_OK \in Nat /\ SW_OK # 0
    BY DEF SW_OK
  <2>. QED
    BY <1>1, <1>6, <2>1, <2>2, AnswerUnasked DEF handleGetVersion, Protocol!Next
<1>7. CASE handleGetPublicKey
  BY <1>1, <1>2, <1>7, AskRefines
     DEF handleGetPublicKey, Dispatching, Throw, Reviews, Protocol!Next, hostVars, uiVars
<1>8. CASE handleGetAddress
  BY <1>1, <1>2, <1>3, <1>8, AskRefines
     DEF handleGetAddress, EcdhThrows, Dispatching, Throw, Reviews, Protocol!Next, hostVars, uiVars
<1>9. CASE handleSignHash
  BY <1>1, <1>2, <1>3, <1>9, AskRefines
     DEF handleSignHash, BuildTransfer, EcdhThrows, Dispatching, Throw, Reviews, Protocol!Next,
         hostVars, uiVars
<1>. QED
  BY <1>4, <1>5, <1>6, <1>7, <1>8, <1>9 DEF Handle

\* The buttons refine Decide, GoDown or nothing.
LEMMA ButtonRefines ==
  ASSUME IInv, Button
  PROVE  [Protocol!Next]_(Protocol!vars)
<1>1. pc = "wait" /\ Up
  BY DEF Button, Approve, MoveRight, MoveLeft, ui_menu_about, ui_menu_back, Quit, Reject,
         ApprovePublicKey, ApproveAddress, ApproveSign, Showing, Up
<1>2. CASE MoveRight \/ MoveLeft
  <2>1. screen'.flow = screen.flow /\ UNCHANGED <<pc, pending, reply>>
    BY <1>2 DEF MoveRight, MoveLeft, ShowStep, loopVars, hostVars, IInv, TypeOK, UITypeOK
  <2>. QED
    BY <2>1, Stutter DEF Up, Reviewing, Held
<1>3. CASE ui_menu_about \/ ui_menu_back
  <2>1. screen.flow \notin Reviews
    BY <1>3 DEF ui_menu_about, ui_menu_back, Showing, Reviews
  <2>2. screen'.flow \notin Reviews
    BY <1>3, MenuIsNoReview DEF ui_menu_about, ui_menu_back, ui_menu_main
  <2>. QED
    BY <1>3, <2>1, <2>2, Stutter
       DEF ui_menu_about, ui_menu_back, loopVars, hostVars, Up, Reviewing, Held
<1>4. CASE Quit
  BY <1>1, <1>4, Down DEF Quit, Up, Protocol!Next
<1>5. CASE Reject \/ ApprovePublicKey \/ ApproveAddress
  <2>1. Reviewing
    BY <1>1, <1>5 DEF Reject, ApprovePublicKey, ApproveAddress, Showing, Reviewing, Reviews
  <2>2. Up' /\ ~Reviewing'
    BY <1>1, <1>5, MenuIsNoReview
       DEF Reject, ApprovePublicKey, ApproveAddress, ui_menu_main, loopVars, Up, Reviewing
  <2>3. CASE Reject
    BY <2>1, <2>2, <2>3, Decided DEF Reject, Protocol!Next
  <2>4. CASE ApprovePublicKey \/ ApproveAddress
    BY <2>1, <2>2, <2>4, Decided DEF ApprovePublicKey, ApproveAddress, Protocol!Next
  <2>. QED
    BY <1>5, <2>3, <2>4
<1>6. CASE ApproveSign
  <2>1. Reviewing
    BY <1>1, <1>6 DEF ApproveSign, Showing, Reviewing, Reviews
  <2>2. CASE ui_menu_main /\ UNCHANGED pc /\ \E key \in SigningKeys : Transmit(SW_OK, key, gTx.hash)
    BY <1>1, <2>1, <2>2, MenuIsNoReview, Decided DEF ui_menu_main, Up, Reviewing, Protocol!Next
  <2>3. CASE UNCHANGED <<hostVars, uiVars>> /\ pc' = "loop"
    BY <1>1, <2>3, Stutter DEF hostVars, uiVars, Up, Reviewing, Held
  <2>. QED
    BY <1>6, <2>2, <2>3 DEF ApproveSign, Throw
<1>. QED
  BY <1>2, <1>3, <1>4, <1>5, <1>6 DEF Button, Approve

\* Every step of the application refines a step of the protocol or a stutter.
LEMMA StepRefines == IInv /\ [Next]_vars => [Protocol!Next]_(Protocol!vars)
<1>. SUFFICES ASSUME IInv, [Next]_vars
              PROVE  [Protocol!Next]_(Protocol!vars)
  OBVIOUS
<1>1. CASE Boot
  <2>1. ~Reviewing'
    BY <1>1, MenuIsNoReview DEF Boot, Reviewing
  <2>. QED
    BY <1>1, <2>1 DEF Boot, Up, Reviewing, Protocol!Start, Protocol!Next
<1>2. CASE BootFails
  BY <1>2, Stutter DEF BootFails, Up, Reviewing, Held
<1>3. CASE CallIoExchange
  <2>1. Up /\ Up' /\ screen' = screen
    BY <1>3 DEF CallIoExchange, Up, uiVars
  <2>2. CASE UNCHANGED hostVars
    BY <2>1, <2>2, Stutter DEF hostVars, Reviewing, Held
  <2>3. CASE ~asynch /\ caught # 0 /\ Transmit(caught, NoKey, NoTx)
    <3>1. ~Reviewing /\ ~Reviewing'
      BY <2>1, <2>3 DEF IInv, ReviewIsOfPending, Reviewing
    <3>2. caught \in Nat /\ caught # SW_OK /\ pending # NoCmd
      BY <2>3 DEF IInv, TypeOK, LoopTypeOK, LoopConsistent
    <3>. QED
      BY <2>1, <2>3, <3>1, <3>2, AnswerUnasked DEF Protocol!Next
  <2>4. CASE ~asynch /\ caught = 0 /\ pending' = NoCmd /\ UNCHANGED reply
    <3>1. pending = NoCmd
      BY <1>3, <2>4 DEF CallIoExchange, IInv, LoopConsistent
    <3>. QED
      BY <2>1, <2>4, <3>1, Stutter DEF Reviewing, Held
  <2>. QED
    BY <1>3, <2>2, <2>3, <2>4 DEF CallIoExchange
<1>4. CASE \E cmd \in Commands : Receive(cmd)
  <2>1. PICK cmd \in Commands : Receive(cmd)
    BY <1>4
  <2>2. Protocol!Accept(cmd)
    BY <2>1 DEF Receive, uiVars, NoReply, Up, Reviewing, Protocol!Accept
  <2>. QED
    BY <2>2 DEF Protocol!Next
<1>5. CASE Unplug
  BY <1>5, Down DEF Unplug, hostVars, Up, Protocol!Next
<1>6. CASE Handle \/ Button
  BY <1>6, HandleRefines, ButtonRefines
<1>7. CASE Exited \/ UNCHANGED vars
  BY <1>7, Stutter DEF Exited, vars, loopVars, hostVars, uiVars, Up, Reviewing, Held
<1>. QED
  BY <1>1, <1>2, <1>3, <1>4, <1>5, <1>6, <1>7 DEF Next

\* The application implements CommandProtocol: one answer to a command, none
\* with success but after consent, none lost while the application is up.
THEOREM Implements == Spec => ImplementsProtocol
<1>1. Init => Protocol!Init
  BY DEF Init, NoReply, Up, Reviewing, Protocol!Init
<1>. QED
  BY <1>1, StepRefines, SessionSafe, PTL DEF Spec, ImplementsProtocol, Protocol!Spec
=============================================================================
