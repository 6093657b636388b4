------------------------- MODULE OnchainWalletProofs -------------------------
(***************************************************************************)
(* The walk of getDerivationPath is right for every encoded wallet: at the *)
(* top of its loop it stands at the start of the c-th service, counted     *)
(* from 0.                                                                 *)
(***************************************************************************)
EXTENDS OnchainWallet, TLAPS

Inv == /\ TypeOK
       /\ pc = "call" => c = 0
       /\ pc \in {"seek", "found"} => service_index <= Total[wallet]
       /\ pc = "seek" => seek_bytes_l = Start[wallet][c + 1]
       /\ pc = "found" => seek_bytes = PathAt(wallet, service_index + 1)
       /\ pc = "refused" => ~InRange

\* Facts of the layout of one wallet.
LEMMA Layout ==
  ASSUME NEW w \in Wallets
  PROVE  /\ Length[w] \in Nat /\ Length[w] <= 200 /\ Total[w] \in Nat
         /\ Memory[w][4] = 32 /\ Memory[w][37] = Total[w]
         /\ Start[w][1] = 38 /\ Start[w][Total[w] + 1] = Length[w]
         /\ 38 + 6 * Total[w] <= Length[w]
<1>1. IsHeader(w) /\ AreServices(w)
  BY LayoutOK DEF LayoutOK
<1>2. Total[w] \in Nat
  BY <1>1 DEF IsHeader, Byte
<1>. QED
  BY <1>1, <1>2, Zenon DEF IsHeader, AreServices

LEMMA MemoryByte ==
  ASSUME NEW w \in Wallets, NEW k \in Nat, k <= 1023
  PROVE  Memory[w][k] \in Nat /\ Memory[w][k] <= 255
<1>1. IsMemory(w)
  BY LayoutOK DEF LayoutOK
<1>2. k \in 0..1023
  OBVIOUS
<1>3. Memory[w][k] \in Byte
  BY <1>1, <1>2, Zenon DEF IsMemory
<1>. QED
  BY <1>3 DEF Byte

LEMMA StartInside ==
  ASSUME NEW w \in Wallets, NEW k \in 1..(Total[w] + 1)
  PROVE  Start[w][k] \in Nat /\ Start[w][k] <= 200
<1>1. AreServices(w)
  BY LayoutOK DEF LayoutOK
<1>2. Start[w][k] \in Nat /\ Start[w][k] <= Length[w]
  BY <1>1, Zenon DEF AreServices
<1>. QED
  BY <1>2, Layout

LEMMA NextStart ==
  ASSUME NEW w \in Wallets, NEW k \in 1..Total[w]
  PROVE  Start[w][k + 1] = CurveAt(w, k) + 2
<1>1. AreServices(w)
  BY LayoutOK DEF LayoutOK
<1>. QED
  BY <1>1, Zenon DEF AreServices

\* The positions read at a service, also just past the end, are in the part
\* of the memory that the layout speaks of.
LEMMA PathAtNat ==
  ASSUME NEW w \in Wallets, NEW k \in 1..(Total[w] + 1)
  PROVE  /\ PathAt(w, k) \in Nat /\ PathAt(w, k) <= 456
         /\ PathAt(w, k) > Start[w][k]
<1>1. Start[w][k] \in Nat /\ Start[w][k] <= 200
  BY StartInside
<1>2. Memory[w][Start[w][k]] \in Nat /\ Memory[w][Start[w][k]] <= 255
  BY <1>1, MemoryByte
<1>. QED
  BY <1>1, <1>2 DEF PathAt

LEMMA InvInit == Init => Inv
BY DEF Init, Inv, TypeOK, Byte

\* From the start of a service the walk computes the position of its path
\* length.
LEMMA AtService ==
  ASSUME Inv, pc = "seek"
  PROVE  /\ c \in Nat /\ c <= service_index /\ c + 1 \in 1..(Total[wallet] + 1)
         /\ PathLenAt = PathAt(wallet, c + 1)
         /\ PathLenAt \in Nat /\ PathLenAt <= 456
<1>1. wallet \in Wallets /\ Total[wallet] \in Nat /\ c \in 0..service_index /\ service_index \in Nat
  BY Layout DEF Inv, TypeOK, Byte
<1>2. c + 1 \in 1..(Total[wallet] + 1)
  BY <1>1 DEF Inv
<1>3. PathLenAt = PathAt(wallet, c + 1)
  BY DEF Inv, PathLenAt, PathAt, At
<1>. QED
  BY <1>1, <1>2, <1>3, PathAtNat

LEMMA InvStep == Inv /\ [Next]_vars => Inv'
<1>. SUFFICES ASSUME Inv, [Next]_vars
              PROVE  Inv'
  OBVIOUS
<1>1. /\ wallet \in Wallets /\ service_index \in Byte /\ service_index \in Nat
      /\ Total[wallet] \in Nat /\ Length[wallet] \in Nat
  BY Layout DEF Inv, TypeOK, Byte
<1>2. CASE Refuse
  <2>1. 38 + 6 * Total[wallet] <= Length[wallet]
    BY <1>1, Layout
  <2>2. ~(service_index < Total[wallet])
    BY <1>1, <1>2, <2>1 DEF Refuse, TooShort
  <2>. QED
    BY <1>2, <2>2 DEF Refuse, call, Inv, TypeOK, InRange
<1>3. CASE ReadHeader
  <2>1. At(4) = 32 /\ At(37) = Total[wallet] /\ Start[wallet][1] = 38
    BY <1>1, Layout DEF At
  <2>2. /\ pc' = IF Total[wallet] < service_index THEN "refused" ELSE "seek"
        /\ seek_bytes_l' = 38
    BY <1>3, <2>1 DEF ReadHeader
  <2>3. c = 0
    BY <1>3 DEF ReadHeader, Inv
  <2>. QED
    BY <1>1, <1>3, <2>1, <2>2, <2>3 DEF ReadHeader, call, Inv, TypeOK, InRange
<1>4. CASE SkipService
  <2>1. pc = "seek"
    BY <1>4 DEF SkipService
  <2>2. c + 1 \in 1..Total[wallet] /\ c + 1 \in 0..service_index
    BY <1>1, <1>4, <2>1, AtService DEF SkipService, Inv
  <2>3. At(PathLenAt) \in Nat
    BY <1>1, <2>1, AtService, MemoryByte DEF At
  <2>4. Start[wallet][(c + 1) + 1] = PathLenAt + At(PathLenAt) + 1 + 2
    BY <1>1, <2>1, <2>2, AtService, NextStart DEF CurveAt, At
  <2>5. seek_bytes_l' = Start[wallet][c' + 1] /\ seek_bytes_l' \in Nat
    BY <1>4, <2>1, <2>2, <2>3, <2>4, AtService DEF SkipService
  <2>. QED
    BY <1>4, <2>1, <2>2, <2>5 DEF SkipService, call, Inv, TypeOK, InRange
<1>5. CASE TakeService
  BY <1>1, <1>5, AtService DEF TakeService, call, Inv, TypeOK, InRange, PathAt
<1>6. CASE Returned \/ UNCHANGED vars
  BY <1>6 DEF Returned, vars, call, Inv, TypeOK, InRange, PathAt
<1>. QED
  BY <1>2, <1>3, <1>4, <1>5, <1>6 DEF Next

\* The walk's variables keep their types, in every memory of the layout.
THEOREM WalkTypes == Spec => []TypeOK
  BY InvInit, InvStep, PTL DEF Spec, Inv

\* Of every encoded wallet, and for every service it has, the walk finds that
\* service's path.
THEOREM ServiceFound == Spec => []FindsService
<1>1. Inv => FindsService
  BY DEF Inv, FindsService
<1>. QED
  BY <1>1, InvInit, InvStep, PTL DEF Spec

\* The length test refuses no service of an encoded wallet.
THEOREM ServicesAdmitted == Spec => []AdmitsServices
<1>1. Inv => AdmitsServices
  BY DEF Inv, AdmitsServices
<1>. QED
  BY <1>1, InvInit, InvStep, PTL DEF Spec

\* The only index beyond a wallet's services that is accepted is the one just
\* past the end, and the entry is read from beyond the encoding.
THEOREM PastEnd == Spec => []PastEndReadsBeyond
<1>1. Inv => PastEndReadsBeyond
  <2>. SUFFICES ASSUME Inv, pc = "found", ~InRange
                PROVE  service_index = Total[wallet] /\ seek_bytes > Length[wallet]
    BY DEF PastEndReadsBeyond
  <2>1. wallet \in Wallets /\ Total[wallet] \in Nat /\ service_index \in Nat
    BY Layout DEF Inv, TypeOK, Byte
  <2>2. service_index = Total[wallet]
    BY <2>1 DEF Inv, InRange
  <2>3. Start[wallet][service_index + 1] = Length[wallet]
    BY <2>1, <2>2, Layout
  <2>4. service_index + 1 \in 1..(Total[wallet] + 1)
    BY <2>1, <2>2
  <2>. QED
    BY <2>1, <2>2, <2>3, <2>4, PathAtNat DEF Inv
<1>. QED
  BY <1>1, InvInit, InvStep, PTL DEF Spec

-----------------------------------------------------------------------------
(* What the callers take the walk for.                                     *)

\* The caller's position is written by the last step only, and a walk that
\* has begun is one that SeekEntry has an entry for.
Sought ==
  /\ pc \in {"call", "seek", "refused"} => seek_bytes = 0
  /\ pc \in {"seek", "found"} => ~TooShort
  /\ pc = "refused" => TooShort \/ Total[wallet] < service_index

LEMMA SoughtStep == Inv /\ Sought /\ [Next]_vars => Sought'
<1>. SUFFICES ASSUME Inv, Sought, [Next]_vars
              PROVE  Sought'
  OBVIOUS
<1>1. CASE Refuse
  BY <1>1 DEF Refuse, call, Sought, TooShort
<1>2. CASE ReadHeader
  <2>1. At(4) = 32 /\ At(37) = Total[wallet]
    BY Layout DEF At, Inv, TypeOK
  <2>2. pc' = IF Total[wallet] < service_index THEN "refused" ELSE "seek"
    BY <1>2, <2>1 DEF ReadHeader
  <2>. QED
    BY <1>2, <2>2 DEF ReadHeader, call, Sought, TooShort
<1>3. CASE SkipService
  BY <1>3 DEF SkipService, call, Sought, TooShort
<1>4. CASE TakeService
  BY <1>4 DEF TakeService, call, Sought, TooShort
<1>5. CASE Returned \/ UNCHANGED vars
  BY <1>5 DEF Returned, vars, call, Sought, TooShort
<1>. QED
  BY <1>1, <1>2, <1>3, <1>4, <1>5 DEF Next

\* Of every encoded wallet and for every index the walk returns what SeekEntry
\* says, which is how the session core models getDerivationPath.
THEOREM EntrySought == Spec => []SeeksEntry
<1>1. Init => Sought
  BY DEF Init, Sought
<1>2. Inv /\ Sought => SeeksEntry
  <2>. SUFFICES ASSUME Inv, Sought, pc \in {"refused", "found"}
                PROVE  seek_bytes = PositionOf(wallet, Seek!SeekEntry(wallet, service_index))
    BY DEF SeeksEntry
  <2>1. service_index \in Nat /\ service_index + 1 # 0 /\ Total[wallet] \in Nat
    BY Layout DEF Inv, TypeOK, Byte
  <2>2. Seek!SeekEntry(wallet, service_index) =
          IF TooShort \/ Total[wallet] < service_index THEN 0 ELSE service_index + 1
    BY DEF Seek!SeekEntry, Seek!TooShort, TooShort
  <2>3. CASE pc = "refused"
    BY <2>2, <2>3 DEF Sought, PositionOf
  <2>4. CASE pc = "found"
    <3>1. seek_bytes = PathAt(wallet, service_index + 1) /\ ~(Total[wallet] < service_index)
      BY <2>1, <2>4 DEF Inv
    <3>. QED
      BY <2>1, <2>2, <2>4, <3>1 DEF Sought, PositionOf
  <2>. QED
    BY <2>3, <2>4
<1>. QED
  BY <1>1, <1>2, InvInit, InvStep, SoughtStep, PTL DEF Spec

\* On the way to a service that the wallet has, no walk leaves the encoding.
THEOREM EncodingRead == Spec => []ReadsEncoding
<1>1. Inv => ReadsEncoding
  <2>. SUFFICES ASSUME Inv, pc \in {"seek", "found"}, InRange,
                       NEW p, p = IF pc = "seek" THEN PathLenAt ELSE seek_bytes
                PROVE  p + At(p) + 1 < Length[wallet]
    BY DEF ReadsEncoding
  <2>1. /\ wallet \in Wallets /\ service_index \in Nat /\ Total[wallet] \in Nat
        /\ Length[wallet] \in Nat /\ service_index < Total[wallet]
    BY Layout DEF Inv, TypeOK, Byte, InRange
  <2>2. PICK k \in 1..Total[wallet] : p = PathAt(wallet, k)
    <3>1. CASE pc = "seek"
      <4>1. c + 1 \in 1..Total[wallet]
        BY <2>1, <3>1, AtService
      <4>. QED
        BY <3>1, <4>1, AtService
    <3>2. CASE pc = "found"
      <4>1. service_index + 1 \in 1..Total[wallet]
        BY <2>1
      <4>. QED
        BY <3>2, <4>1 DEF Inv
    <3>. QED
      BY <3>1, <3>2
  <2>3. k \in 1..(Total[wallet] + 1) /\ k + 1 \in 1..(Total[wallet] + 1)
    BY <2>1
  <2>4. p \in Nat /\ p <= 456
    BY <2>1, <2>2, <2>3, PathAtNat
  <2>5. At(p) \in Nat
    BY <2>1, <2>4, MemoryByte DEF At
  <2>6. Start[wallet][k + 1] = p + At(p) + 1 + 2
    BY <2>1, <2>2, NextStart DEF CurveAt, At
  <2>7. Start[wallet][k + 1] <= Length[wallet]
    BY <2>1, <2>3, LayoutOK, Zenon DEF AreServices
  <2>. QED
    BY <2>1, <2>4, <2>5, <2>6, <2>7
<1>. QED
  BY <1>1, InvInit, InvStep, PTL DEF Spec
=============================================================================
