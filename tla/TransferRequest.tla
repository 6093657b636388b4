-------------------------- MODULE TransferRequest --------------------------
(***************************************************************************)
(* handleSignHash, and the start of handleGetAddress, byte by byte: the    *)
(* fields of a command at the offsets where they are read, the amount as   *)
(* format_fpu64 (AmountText) shows it, the wallet as decryptWallet finds   *)
(* it, and the transaction that getTransactionHash hashes.                 *)
(*                                                                         *)
(* The commands are those of the test client (archethic_cmd_builder.py).   *)
(* ArchethicApp has the same handlers with their fields already taken      *)
(* apart, with their exceptions, and with the review that ends them: this  *)
(* module is why it may.                                                   *)
(***************************************************************************)
EXTENDS AmountText, Sequences

CONSTANTS
  Requests,  (* the address and sign commands of the client                 *)
  Senders,   (* the addresses that generateArchEthicAddress may give        *)
  Genuine    (* point, tag and key of the envelopes whose tag verifies      *)

Byte == 0..255
PointLen    == 65
EnvelopeLen == PointLen + 16 + 32   \* the tag and the encrypted wallet key
AddressLen  == 34

\* What the client sends: sign_txn_hash_build and get_arch_address.
Data(r) ==
  IF r.kind = "sign"
    THEN <<r.service>> \o r.receiver \o r.amount \o r.envelope \o r.wallet
    ELSE <<r.service>> \o r.envelope \o r.wallet

Prefix(bytes, len) == [k \in 1..len |-> bytes[k]]

\* The number of 8 bytes, the first one the highest: the loop on dispAmt.
BigEndian(bytes) ==
  LET upTo[k \in 0..8] == IF k = 0 THEN 0 ELSE 256 * upTo[k - 1] + bytes[k]
  IN  upTo[8]

IsBytes(s, len) == s \in Seq(Byte) /\ Len(s) = len

\* A receiver: its curve, its hash type (SHA256, SHA512, SHA3_256 and
\* SHA3_512 are 0 to 3), and the digest.
IsReceiver(s) == /\ s \in Seq(Byte) /\ Len(s) \in {34, 66}
                 /\ s[2] \in {0, 1, 2, 3} /\ (s[2] % 2 = 1 <=> Len(s) = 66)

\* A wallet of no service has 38 bytes; LC is one byte.
IsRequest(r) ==
  /\ r.kind \in {"sign", "address"} /\ r.service \in Byte
  /\ IsBytes(r.envelope, EnvelopeLen)
  /\ r.wallet \in Seq(Byte) /\ Len(r.wallet) > 38
  /\ Len(Data(r)) < 256
  /\ r.kind = "sign" => /\ IsReceiver(r.receiver)
                        /\ IsBytes(r.amount, 8) /\ BigEndian(r.amount) \in Values

ASSUME RequestsOK == /\ \A r \in Requests : IsRequest(r)
                     /\ \A s \in Senders : IsBytes(s, AddressLen)

VARIABLES
  step,      (* where the handler is                                        *)
  request,   (* the command                                                 *)
  at,        (* dataBuffer, counted from the start of the command's data,   *)
  left,      (*   and dataLength                                            *)
  g_tx,      (* signHash.c: the fields of g_tx, its hash as what is hashed, *)
  g_addr,    (*   the bytes that g_addr spells,                             *)
  g_amount,  (*   and g_amount                                              *)
  envelope,  (* what performECDH and decryptWallet take for the envelope,   *)
  cipher,    (*   what decryptWallet deciphers,                             *)
  walletLen  (*   and the length it gives                                   *)

cursor      == <<at, left>>
walletVars  == <<envelope, cipher, walletLen>>
requestVars == <<step, request, cursor, g_tx, g_addr, g_amount, walletVars, formatVars>>

\* memcpy(..., dataBuffer + offset, len)
Bytes(offset, len) == [k \in 1..len |-> Data(request)[at + offset + k]]

\* dataBuffer += len; dataLength -= len
Advance(len) == at' = at + len /\ left' = (left - len) % 65536

NoRequest == [kind |-> "none"]

RequestInit ==
  /\ Init
  /\ step = "idle" /\ request = NoRequest /\ at = 0 /\ left = 0
  /\ g_tx = [service_index |-> 0, receiveAddr |-> [k \in 1..70 |-> 0], receiveAddrLen |-> 0,
             amount |-> [k \in 1..8 |-> 0], senderAddr |-> <<>>, tx |-> <<>>]
  /\ g_addr = <<>> /\ g_amount = Zeroed(TextLen)
  /\ envelope = <<>> /\ cipher = <<>> /\ walletLen = 0

\* A command, once the review of the one before is over.
Receive(r) ==
  /\ step \in {"idle", "refused", "review"}
  /\ step' = r.kind
  /\ request' = r /\ at' = 0 /\ left' = Len(Data(r))
  /\ envelope' = <<>> /\ cipher' = <<>> /\ walletLen' = 0   \* not read again
  /\ UNCHANGED <<g_tx, g_addr, g_amount, formatVars>>

\* The start of handleGetAddress: the service index.
ParseService ==
  /\ step = "address" /\ step' = "envelope"
  /\ Advance(1)
  /\ UNCHANGED <<request, g_tx, g_addr, g_amount, walletVars, formatVars>>

\* dataBuffer[1] % 2, once dataBuffer is past the service index.
ReceiverLen == IF Data(request)[at + 3] % 2 = 0 THEN 34 ELSE 66

\* Mutant: room for the shorter receivers only.
ReceiveAddrShort(len) ==
  [k \in 1..70 |-> IF k <= len /\ k <= 34 THEN Data(request)[at + 1 + k] ELSE g_tx.receiveAddr[k]]

\* The bytes past the receiver are those of an earlier, longer one.
ReceiveAddr(len) ==
  [k \in 1..70 |-> IF k <= len THEN Data(request)[at + 1 + k] ELSE g_tx.receiveAddr[k]]

\* The start of handleSignHash: the service index and the receiver.  Its text
\* has room for 34 of the 70 bytes.
ParseReceiver ==
  LET receiveAddr == ReceiveAddr(ReceiverLen)
  IN  /\ step = "sign" /\ step' = "amount"
      /\ g_tx' = [g_tx EXCEPT !.service_index = Data(request)[at + 1],
                              !.receiveAddr = receiveAddr, !.receiveAddrLen = ReceiverLen]
      /\ g_addr' = Prefix(receiveAddr, 34)
      /\ Advance(1 + ReceiverLen)
      /\ UNCHANGED <<request, g_amount, walletVars, formatVars>>

\* Then the amount, and the call of format_fpu64.
ParseAmount ==
  /\ step = "amount" /\ step' = "format"
  /\ g_tx' = [g_tx EXCEPT !.amount = Bytes(0, 8)]
  /\ Format(BigEndian(Bytes(0, 8)))
  /\ UNCHANGED <<request, cursor, g_addr, g_amount, walletVars>>

FormatAmount ==
  /\ step = "format" /\ FormatStep
  /\ UNCHANGED <<step, request, cursor, g_tx, g_addr, g_amount, walletVars>>

\* Mutant: what format_fpu64 left is kept only the first time.
ShowAmountOnce ==
  /\ step = "format" /\ Idle /\ step' = "envelope"
  /\ g_amount' = IF g_amount = Zeroed(TextLen) THEN text ELSE g_amount
  /\ Advance(8)
  /\ UNCHANGED <<request, g_tx, g_addr, walletVars, formatVars>>

\* Its result is not looked at: g_amount is what it left in test_g.
ShowAmount ==
  /\ step = "format" /\ Idle /\ step' = "envelope"
  /\ g_amount' = text
  /\ Advance(8)
  /\ UNCHANGED <<request, g_tx, g_addr, walletVars, formatVars>>

\* performECDH may throw: ArchethicApp has what follows.
EcdhThrows ==
  /\ step = "envelope" /\ step' = "idle"
  /\ UNCHANGED <<request, cursor, g_tx, g_addr, g_amount, walletVars, formatVars>>

\* Mutant: the result of the tag's verification is not looked at.
WalletLenOfAnyTag(len) == len

\* Mutant: an error is returned for a length.
WalletLenOrError(len) == IF envelope' \in Genuine THEN len ELSE -1

\* decryptWallet's *walletLen: what it deciphered, or 5 for BADDECODE0.
WalletLenFor(len) == IF envelope' \in Genuine THEN len ELSE 5

\* performECDH and decryptWallet, which takes dataLength as a uint8_t; and the
\* test on walletLen, a wallet of 5 bytes standing for a bad decode.
Decrypt ==
  LET dataLen == ((left - PointLen) % 65536) % 256
      len     == dataLen - 16 - 32
  IN  /\ step = "envelope"
      /\ Advance(PointLen)
      /\ envelope' = Bytes(0, EnvelopeLen)
      /\ cipher' = Bytes(EnvelopeLen, len)
      /\ walletLen' = WalletLenFor(len)
      /\ step' = IF walletLen' = 5 THEN "refused"
                 ELSE IF request.kind = "sign" THEN "build" ELSE "review"
      /\ UNCHANGED <<request, g_tx, g_addr, g_amount, formatVars>>

\* Mutant: 34 bytes of the receiver, whatever its length.
ShortTransaction(sender, receiver, amount) ==
  <<0, 0, 0, 1>> \o sender \o <<253, 0, 0, 0, 0, 0, 0, 0, 0, 0, 1>>
  \o Prefix(receiver, 34) \o amount \o <<0, 0>>

\* The bytes that getTransactionHash hashes: version, sender, type, sizes of
\* code and content, number of ownerships, of transfers, and so on.
Transaction(sender, receiver, amount) ==
  <<0, 0, 0, 1>> \o sender \o <<253, 0, 0, 0, 0, 0, 0, 0, 0, 0, 1>>
  \o receiver \o amount \o <<0, 0>>

\* The end of handleSignHash.
BuildTransfer(sender) ==
  /\ step = "build" /\ step' = "review"
  /\ g_tx' = [g_tx EXCEPT
       !.senderAddr = sender,
       !.tx = Transaction(sender, Prefix(g_tx.receiveAddr, g_tx.receiveAddrLen), g_tx.amount)]
  /\ UNCHANGED <<request, cursor, g_addr, g_amount, walletVars, formatVars>>

RequestNext ==
  \/ \E r \in Requests : Receive(r)
  \/ ParseService \/ ParseReceiver \/ ParseAmount \/ FormatAmount \/ ShowAmount
  \/ EcdhThrows \/ Decrypt \/ (\E s \in Senders : BuildTransfer(s))

RequestSpec == RequestInit /\ [][RequestNext]_requestVars

-----------------------------------------------------------------------------
(* Properties.                                                             *)

Steps == {"idle", "address", "sign", "amount", "format", "envelope", "build", "refused", "review"}

Array(n)  == [1..n -> Byte]
Transfers == [service_index : Byte, receiveAddr : Array(70), receiveAddrLen : {0, 34, 66},
              amount : Array(8), senderAddr : Seq(Byte), tx : Seq(Byte)]

\* The types of the handlers' locals and of signHash.c's globals.
RequestTypeOK ==
  /\ TypeOK
  /\ step \in Steps /\ request \in Requests \cup {NoRequest}
  /\ at \in Nat /\ left \in Nat /\ left < 65536
  /\ g_tx \in Transfers
  /\ g_amount \in [0..(TextLen - 1) -> Char]
  /\ walletLen \in Nat /\ walletLen < 256

Reviewing(kind) == step = "review" /\ request.kind = kind

\* What a review is about is what the client sent: no field is read from the
\* place of another, whatever the length of the receiver and of the wallet,
\* and nothing is left in it of an earlier, longer receiver.
FieldsAsSent ==
  /\ step = "review" =>
       envelope = request.envelope /\ cipher = request.wallet /\ walletLen = Len(request.wallet)
  /\ Reviewing("sign") =>
       /\ g_tx.service_index = request.service
       /\ Prefix(g_tx.receiveAddr, g_tx.receiveAddrLen) = request.receiver
       /\ g_tx.amount = request.amount
       /\ g_addr = Prefix(request.receiver, 34)

\* Where the amount is in what is hashed.
HashedAmount == [k \in 1..8 |-> g_tx.tx[Len(g_tx.tx) - 10 + k]]

\* The amount on the display is the number in the bytes that are hashed: both
\* are made of the command's, by different ways.
AmountShownIsHashed ==
  Reviewing("sign") => Denotes(g_amount, BigEndian(HashedAmount))

\* No other transfer has the bytes that are hashed: the fields have no
\* separators and the receiver's length varies, and still the signature is
\* for one sender, receiver and amount.
TransactionIsOneTransfer ==
  Reviewing("sign") =>
    \A r \in Requests, s \in Senders :
      r.kind = "sign" /\ Transaction(s, r.receiver, r.amount) = g_tx.tx =>
        s = g_tx.senderAddr /\ r.receiver = request.receiver /\ r.amount = request.amount

\* 5 is also a length: but the client's wallets are longer, and a command is
\* answered with BADDECODE exactly when its tag does not verify.
BadDecodeIsBadTag ==
  /\ step = "refused" => request.envelope \notin Genuine
  /\ step \in {"build", "review"} => request.envelope \in Genuine
=============================================================================
