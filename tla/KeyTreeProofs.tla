--------------------------- MODULE KeyTreeProofs ---------------------------
(***************************************************************************)
(* The keys are those of SLIP-0010.  The inductive invariant KeyInv has    *)
(* the properties and where i and the path are at each step; with it,      *)
(* every step of KeyTree is a step of Slip10, which finds the data of the  *)
(* attempt to come in tmp, or a stutter.                                   *)
(***************************************************************************)
EXTENDS KeyTree, TLAPS

-----------------------------------------------------------------------------
(* Bytes.                                                                  *)

LEMMA Sizes ==
  /\ Base \in Nat /\ Base > 1 /\ HalfLen \in Nat /\ IndexLen \in Nat
  /\ 0 < IndexLen /\ IndexLen < HalfLen
BY BytesOK

LEMMA NodeOfHash ==
  ASSUME NEW hash \in Hash
  PROVE  Left(hash) \in Half /\ Right(hash) \in Half /\ Node(hash) \in [key : Half, chain : Half]
<1>1. \A k \in 1..HalfLen : k \in 1..(2 * HalfLen) /\ HalfLen + k \in 1..(2 * HalfLen)
  BY Sizes
<1>2. Left(hash) \in Half
  BY <1>1 DEF Left, Half, Hash
<1>3. Right(hash) \in Half
  BY <1>1 DEF Right, Half, Hash
<1>. QED
  BY <1>2, <1>3 DEF Node

LEMMA ZeroIsHalf == Zero \in Half
<1>1. 0 \in Byte
  BY Sizes DEF Byte
<1>. QED
  BY <1>1 DEF Zero, Half

LEMMA HardenIs ==
  ASSUME NEW index \in Index
  PROVE  Harden(index) \in Index /\ Hardened(Harden(index))
<1>1. 1 \in 1..IndexLen
  BY Sizes
<1>2. index[1] \in Nat /\ index[1] < Base
  BY <1>1, Sizes DEF Index, Byte
<1>. DEFINE b == index[1]
            c == IF 2 * b >= Base THEN b ELSE b + Base \div 2
<1>3. Harden(index) = [index EXCEPT ![1] = c]
  BY DEF Harden, Hardened
<1>. HIDE DEF b
<1>4. Base = 2 * (Base \div 2) /\ Base \div 2 \in Nat
  BY BytesOK
<1>5. c \in Nat /\ c < Base /\ 2 * c >= Base
  BY <1>2, <1>4, Sizes DEF b
<1>. HIDE DEF c
<1>6. c \in Byte
  BY <1>5, Sizes DEF Byte
<1>7. Harden(index) \in Index /\ Harden(index)[1] = c
  BY <1>1, <1>3, <1>6 DEF Index
<1>. QED
  BY <1>5, <1>7 DEF Hardened

LEMMA PathIs ==
  ASSUME NEW n \in Coins, NEW a \in Accounts, NEW x \in Addresses
  PROVE  /\ derivationPath(n, a, x) \in Seq(Index) /\ Len(derivationPath(n, a, x)) = 3
         /\ \A k \in 1..3 : /\ derivationPath(n, a, x)[k] \in Index
                            /\ Hardened(derivationPath(n, a, x)[k])
<1>1. n \in Index /\ a \in Index /\ x \in Index
  BY PathsOK
<1>. DEFINE p == Harden(n)
            q == Harden(a)
            r == Harden(x)
<1>2. /\ p \in Index /\ q \in Index /\ r \in Index
      /\ Hardened(p) /\ Hardened(q) /\ Hardened(r)
  BY <1>1, HardenIs
<1>3. derivationPath(n, a, x) = <<p, q, r>>
  BY DEF derivationPath
<1>. HIDE DEF p, q, r
<1>4. <<p, q, r>> \in Seq(Index) /\ Len(<<p, q, r>>) = 3
  BY <1>2
<1>5. \A k \in 1..3 : <<p, q, r>>[k] \in Index /\ Hardened(<<p, q, r>>[k])
  <2>. TAKE k \in 1..3
  <2>1. k = 1 \/ k = 2 \/ k = 3
    OBVIOUS
  <2>. QED
    BY <1>2, <2>1
<1>. QED
  BY <1>3, <1>4, <1>5

LEMMA NameIs ==
  \A c \in Curves : get_seed_key(c) \in Names
BY DEF get_seed_key, Names, Curves

-----------------------------------------------------------------------------
(* The buffer tmp.                                                         *)

LEMMA IndexedIs ==
  ASSUME tmp \in [Offsets -> Byte], path[i + 1] \in Index
  PROVE  Indexed \in [Offsets -> Byte]
<1>. SUFFICES ASSUME NEW k \in Offsets
              PROVE  (IF k > HalfLen /\ k <= HalfLen + IndexLen
                        THEN path[i + 1][k - HalfLen] ELSE tmp[k]) \in Byte
  BY DEF Indexed
<1>1. k \in Int
  BY Sizes DEF Offsets
<1>2. CASE k > HalfLen /\ k <= HalfLen + IndexLen
  <2>1. k - HalfLen \in 1..IndexLen
    BY <1>1, <1>2, Sizes
  <2>. QED
    BY <1>2, <2>1 DEF Index
<1>3. CASE ~(k > HalfLen /\ k <= HalfLen + IndexLen)
  BY <1>3
<1>. QED
  BY <1>2, <1>3

LEMMA HmacIs ==
  ASSUME TypeOK, path[i + 1] \in Index
  PROVE  /\ hmacData \in Message /\ hmacOutput \in Hash
         /\ hmacInPlace \in [Offsets -> Byte]
         /\ First(hmacInPlace) = Left(hmacOutput) /\ Second(hmacInPlace) = Right(hmacOutput)
<1>1. Indexed \in [Offsets -> Byte] /\ key.chain \in Half
  BY IndexedIs DEF TypeOK
<1>2. \A k \in 1..(1 + HalfLen + IndexLen) : k - 1 \in Offsets
  BY Sizes DEF Offsets
<1>3. hmacData \in Message
  BY <1>1, <1>2 DEF hmacData, Message
<1>4. hmacOutput \in Hash
  BY <1>1, <1>3, FunctionsOK DEF hmacOutput
<1>5. \A k \in Offsets : k < 2 * HalfLen => k + 1 \in 1..(2 * HalfLen)
  BY Sizes DEF Offsets
<1>6. hmacInPlace \in [Offsets -> Byte]
  BY <1>1, <1>4, <1>5 DEF hmacInPlace, Hash
<1>7. ASSUME NEW k \in 1..HalfLen
      PROVE  hmacInPlace[k - 1] = hmacOutput[k] /\ hmacInPlace[HalfLen + k - 1] = hmacOutput[HalfLen + k]
  <2>1. /\ k - 1 \in Offsets /\ k - 1 < 2 * HalfLen /\ (k - 1) + 1 = k
        /\ HalfLen + k - 1 \in Offsets /\ HalfLen + k - 1 < 2 * HalfLen
        /\ (HalfLen + k - 1) + 1 = HalfLen + k
    BY Sizes DEF Offsets
  <2>. QED
    BY <2>1 DEF hmacInPlace
<1>. QED
  BY <1>3, <1>4, <1>6, <1>7 DEF First, Second, Left, Right

\* The sum of a turn, in the first half of the buffer.
LEMMA SumIs ==
  ASSUME TypeOK, path[i + 1] \in Index, curve # "Ed25519"
  PROVE  Sum \in Half /\ BelowOrder(curve, Sum)
<1>1. First(hmacInPlace) \in Half
  BY HmacIs, NodeOfHash
<1>. QED
  BY <1>1, FunctionsOK DEF Sum, TypeOK

LEMMA SumInTmp ==
  ASSUME TypeOK, path[i + 1] \in Index, curve # "Ed25519"
  PROVE  [k \in Offsets |-> IF k < HalfLen THEN Sum[k + 1] ELSE hmacInPlace[k]] \in [Offsets -> Byte]
<1>1. \A k \in Offsets : k < HalfLen => k + 1 \in 1..HalfLen
  BY Sizes DEF Offsets
<1>2. hmacInPlace \in [Offsets -> Byte] /\ Sum \in [1..HalfLen -> Byte]
  BY HmacIs, SumIs DEF Half
<1>. QED
  BY <1>1, <1>2

LEMMA TaggedOneIs ==
  ASSUME NEW t \in [Offsets -> Byte]
  PROVE  TaggedOne(t) \in [Offsets -> Byte]
<1>1. \A k \in Offsets : k # 0 /\ k <= HalfLen => HalfLen + k - 1 \in Offsets
  BY Sizes DEF Offsets
<1>2. 1 \in Byte
  BY Sizes DEF Byte
<1>. QED
  BY <1>1, <1>2 DEF TaggedOne

LEMMA HashOfKeyIs ==
  ASSUME key \in [key : Half, chain : Half]
  PROVE  HashOfKey \in Hash
<1>1. \A k \in 1..(2 * HalfLen) : IF k <= HalfLen THEN k \in 1..HalfLen ELSE k - HalfLen \in 1..HalfLen
  BY Sizes
<1>. QED
  BY <1>1 DEF HashOfKey, Hash, Half

-----------------------------------------------------------------------------
(* The inductive invariant.                                                *)

\* What the steps hold to: the path is one of deriveArchEthicKeyPair's, the
\* loop is within it, and a node is usable before it is gone on from.
KeyInv ==
  /\ TypeOK
  /\ NeverThrows
  /\ KeyUsable
  /\ step # "idle" => path \in SlipPaths /\ masterSeed \in Seeds
  /\ step \in {"expand", "check"} => i = 0
  /\ step = "check" => curve # "Ed25519"
  /\ step = "turn" => i < Len(path)
  /\ step = "done" => i = Len(path) /\ privateKey = key.key

\* What a path of the invariant is: three indices, each hardened.
LEMMA PathOf ==
  ASSUME path \in SlipPaths
  PROVE  /\ path \in Seq(Index) /\ Len(path) = 3
         /\ \A k \in 1..3 : path[k] \in Index /\ Hardened(path[k])
<1>1. PICK n \in Coins, a \in Accounts, x \in Addresses : path = derivationPath(n, a, x)
  BY DEF SlipPaths
<1>. QED
  BY <1>1, PathIs

LEMMA AtIndex ==
  ASSUME KeyInv, step # "idle", i < Len(path)
  PROVE  /\ path[i + 1] \in Index /\ Hardened(path[i + 1])
         /\ i \in Nat /\ Len(path) = 3 /\ i + 1 \in 0..Len(path)
<1>1. path \in SlipPaths /\ i \in 0..Len(path)
  BY DEF KeyInv, TypeOK
<1>2. Len(path) = 3 /\ \A k \in 1..3 : path[k] \in Index /\ Hardened(path[k])
  BY <1>1, PathOf
<1>3. i \in Nat /\ i + 1 \in 1..3
  BY <1>1, <1>2
<1>. QED
  BY <1>2, <1>3

LEMMA KeyInit == Init => KeyInv
<1>. SUFFICES ASSUME Init PROVE KeyInv
  OBVIOUS
<1>1. 0 \in Byte /\ Zero \in Half
  BY Sizes, ZeroIsHalf DEF Byte
<1>2. <<>> \in Seq(Index) /\ Len(<<>>) = 0
  OBVIOUS
<1>3. TypeOK
  BY <1>1, <1>2 DEF Init, TypeOK, Steps, Curves, NoNode
<1>. QED
  BY <1>3 DEF Init, KeyInv, NeverThrows, KeyUsable

LEMMA KeyDerive ==
  ASSUME KeyInv, NEW c \in Curves, NEW s \in Seeds, NEW n \in Coins, NEW a \in Accounts,
         NEW x \in Addresses, Derive(c, s, n, a, x)
  PROVE  KeyInv'
<1>1. /\ step' = "expand" /\ curve' = c /\ masterSeed' = s /\ i' = 0
      /\ path' = derivationPath(n, a, x) /\ key' = key /\ tmp' = tmp /\ privateKey' = privateKey
  BY DEF Derive
<1>2. path' \in Seq(Index) /\ Len(path') = 3 /\ path' \in SlipPaths'
  BY <1>1, PathIs DEF SlipPaths
<1>3. TypeOK'
  BY <1>1, <1>2 DEF KeyInv, TypeOK, Steps
<1>. QED
  BY <1>1, <1>2, <1>3 DEF KeyInv, NeverThrows, KeyUsable

LEMMA KeyExpandSeed ==
  ASSUME KeyInv, ExpandSeed
  PROVE  KeyInv'
<1>. DEFINE hash == HmacSeed(get_seed_key(curve), masterSeed)
<1>1. /\ step = "expand" /\ step' = (IF curve = "Ed25519" THEN "child" ELSE "check")
      /\ key' = Node(hash) /\ i' = i /\ tmp' = tmp /\ privateKey' = privateKey
      /\ curve' = curve /\ masterSeed' = masterSeed /\ path' = path
  BY DEF ExpandSeed, args
<1>2. hash \in Hash
  BY <1>1, NameIs, FunctionsOK DEF KeyInv, TypeOK
<1>3. Node(hash) \in [key : Half, chain : Half]
  BY <1>2, NodeOfHash
<1>4. TypeOK'
  BY <1>1, <1>3 DEF KeyInv, TypeOK, Steps
<1>. QED
  BY <1>1, <1>4 DEF KeyInv, NeverThrows, KeyUsable, SlipPaths

LEMMA KeyExpandAgain ==
  ASSUME KeyInv, ExpandAgain
  PROVE  KeyInv'
<1>. DEFINE hash == HmacSeed(get_seed_key(curve), HashOfKey)
<1>1. /\ step = "check" /\ step' = step /\ key' = Node(hash)
      /\ i' = i /\ tmp' = tmp /\ privateKey' = privateKey
      /\ curve' = curve /\ masterSeed' = masterSeed /\ path' = path
  BY DEF ExpandAgain, args
<1>2. HashOfKey \in Hash
  BY HashOfKeyIs DEF KeyInv, TypeOK
<1>3. hash \in Hash
  BY <1>2, NameIs, FunctionsOK DEF KeyInv, TypeOK
<1>4. Node(hash) \in [key : Half, chain : Half]
  BY <1>3, NodeOfHash
<1>5. TypeOK'
  BY <1>1, <1>4 DEF KeyInv, TypeOK
<1>. QED
  BY <1>1, <1>5 DEF KeyInv, NeverThrows, KeyUsable, SlipPaths

LEMMA KeySeedExpanded ==
  ASSUME KeyInv, SeedExpanded
  PROVE  KeyInv'
BY DEF SeedExpanded, args, KeyInv, TypeOK, Steps, NeverThrows, KeyUsable, SlipPaths

LEMMA KeyPrepare ==
  ASSUME KeyInv, Prepare
  PROVE  KeyInv'
<1>1. step = "child" /\ i < Len(path)
  BY DEF Prepare
<1>2. path[i + 1] \in Index /\ Hardened(path[i + 1])
  BY <1>1, AtIndex
<1>. DEFINE start == [k \in 0..HalfLen |-> IF k = 0 THEN 0 ELSE key.key[k]]
<1>3. /\ step' = "turn"
      /\ tmp' = [k \in Offsets |-> IF k <= HalfLen THEN start[k] ELSE tmp[k]]
      /\ i' = i /\ key' = key /\ privateKey' = privateKey
      /\ curve' = curve /\ masterSeed' = masterSeed /\ path' = path
  BY <1>2 DEF Prepare, args
<1>4. tmp' \in [Offsets -> Byte]
  <2>1. \A k \in 0..HalfLen : start[k] \in Byte
    <3>1. 0 \in Byte /\ \A k \in 0..HalfLen : k # 0 => k \in 1..HalfLen
      BY Sizes DEF Byte
    <3>. QED
      BY <3>1 DEF KeyInv, TypeOK, Half
  <2>2. \A k \in Offsets : k <= HalfLen => k \in 0..HalfLen
    BY Sizes DEF Offsets
  <2>. HIDE DEF start
  <2>. QED
    BY <1>3, <2>1, <2>2 DEF KeyInv, TypeOK
<1>5. TypeOK'
  BY <1>3, <1>4 DEF KeyInv, TypeOK, Steps
<1>. QED
  BY <1>1, <1>3, <1>5 DEF KeyInv, NeverThrows, KeyUsable, SlipPaths

\* The end of a turn, with a key that is usable or of Ed25519.
LEMMA KeyNextNode ==
  ASSUME KeyInv, step = "turn", NEW half \in Half, NextNode(half), tmp' \in [Offsets -> Byte],
         curve # "Ed25519" => Usable(curve, half)
  PROVE  KeyInv'
<1>1. i < Len(path)
  BY DEF KeyInv
<1>2. path[i + 1] \in Index /\ i + 1 \in 0..Len(path)
  BY <1>1, AtIndex
<1>3. Second(hmacInPlace) \in Half
  BY <1>2, HmacIs, NodeOfHash DEF KeyInv
<1>4. /\ step' = "child" /\ i' = i + 1 /\ privateKey' = privateKey
      /\ key' = [key |-> half, chain |-> Second(hmacInPlace)]
      /\ curve' = curve /\ masterSeed' = masterSeed /\ path' = path
  BY DEF NextNode, args
<1>5. key' \in [key : Half, chain : Half] /\ key'.key = half
  BY <1>3, <1>4
<1>6. TypeOK'
  BY <1>2, <1>4, <1>5 DEF KeyInv, TypeOK, Steps
<1>. QED
  BY <1>4, <1>5, <1>6 DEF KeyInv, NeverThrows, KeyUsable, SlipPaths

LEMMA KeySlipTurn ==
  ASSUME KeyInv, SlipTurn
  PROVE  KeyInv'
<1>1. step = "turn" /\ curve = "Ed25519" /\ tmp' = hmacInPlace /\ NextNode(First(hmacInPlace))
  BY DEF SlipTurn
<1>2. TypeOK /\ path[i + 1] \in Index
  BY <1>1, AtIndex DEF KeyInv
<1>3. First(hmacInPlace) \in Half /\ hmacInPlace \in [Offsets -> Byte]
  BY <1>2, HmacIs, NodeOfHash
<1>. QED
  BY <1>1, <1>3, KeyNextNode

LEMMA KeyBip32Turn ==
  ASSUME KeyInv, Bip32Turn
  PROVE  KeyInv'
<1>1. /\ step = "turn" /\ curve # "Ed25519" /\ Accepts /\ NextNode(Sum)
      /\ tmp' = [k \in Offsets |-> IF k < HalfLen THEN Sum[k + 1] ELSE hmacInPlace[k]]
  BY DEF Bip32Turn
<1>2. TypeOK /\ path[i + 1] \in Index
  BY <1>1, AtIndex DEF KeyInv
<1>3. Sum \in Half /\ BelowOrder(curve, Sum) /\ tmp' \in [Offsets -> Byte]
  BY <1>1, <1>2, SumIs, SumInTmp
<1>4. Usable(curve, Sum)
  BY <1>1, <1>3 DEF Accepts, Usable
<1>. QED
  BY <1>1, <1>3, <1>4, KeyNextNode

LEMMA KeyBip32Again ==
  ASSUME KeyInv, Bip32Again
  PROVE  KeyInv'
<1>1. /\ step = "turn" /\ step' = step /\ tmp' = TaggedOne(hmacInPlace)
      /\ i' = i /\ key' = key /\ privateKey' = privateKey
      /\ curve' = curve /\ masterSeed' = masterSeed /\ path' = path
  BY DEF Bip32Again, args
<1>2. TypeOK /\ path[i + 1] \in Index
  BY <1>1, AtIndex DEF KeyInv
<1>3. tmp' \in [Offsets -> Byte]
  BY <1>1, <1>2, HmacIs, TaggedOneIs
<1>4. TypeOK'
  BY <1>1, <1>3 DEF KeyInv, TypeOK
<1>. QED
  BY <1>1, <1>4 DEF KeyInv, NeverThrows, KeyUsable, SlipPaths

LEMMA KeyFinish ==
  ASSUME KeyInv, Finish
  PROVE  KeyInv'
<1>1. /\ step = "child" /\ i = Len(path) /\ step' = "done" /\ privateKey' = key.key
      /\ i' = i /\ key' = key /\ tmp' = tmp
      /\ curve' = curve /\ masterSeed' = masterSeed /\ path' = path
  BY DEF Finish, args
<1>2. key.key \in Half
  BY DEF KeyInv, TypeOK
<1>3. TypeOK'
  BY <1>1, <1>2 DEF KeyInv, TypeOK, Steps
<1>. QED
  BY <1>1, <1>3 DEF KeyInv, NeverThrows, KeyUsable, SlipPaths

LEMMA KeyStep == KeyInv /\ [Next]_keyVars => KeyInv'
<1>. SUFFICES ASSUME KeyInv, [Next]_keyVars PROVE KeyInv'
  OBVIOUS
<1>1. ASSUME NEW c \in Curves, NEW s \in Seeds, NEW n \in Coins, NEW a \in Accounts,
             NEW x \in Addresses, Derive(c, s, n, a, x)
      PROVE  KeyInv'
  BY <1>1, KeyDerive
<1>2. CASE ExpandSeed
  BY <1>2, KeyExpandSeed
<1>3. CASE ExpandAgain
  BY <1>3, KeyExpandAgain
<1>4. CASE SeedExpanded
  BY <1>4, KeySeedExpanded
<1>5. CASE Prepare
  BY <1>5, KeyPrepare
<1>6. CASE SlipTurn
  BY <1>6, KeySlipTurn
<1>7. CASE Bip32Turn
  BY <1>7, KeyBip32Turn
<1>8. CASE Bip32Again
  BY <1>8, KeyBip32Again
<1>9. CASE Finish
  BY <1>9, KeyFinish
<1>10. CASE UNCHANGED keyVars
  BY <1>10 DEF keyVars, args, KeyInv, TypeOK, NeverThrows, KeyUsable, SlipPaths
<1>. QED
  BY <1>1, <1>2, <1>3, <1>4, <1>5, <1>6, <1>7, <1>8, <1>9, <1>10 DEF Next, Work

\* KeyInv holds in every state: the properties, and what each step relies on.
THEOREM KeyInvariant == Spec => []KeyInv
BY KeyInit, KeyStep, PTL DEF Spec

\* Every buffer keeps its size and holds bytes, and the loops of hdw_slip10
\* and hdw_bip32 stay within the path.
THEOREM KeyTypes == Spec => []TypeOK
<1>1. KeyInv => TypeOK
  BY DEF KeyInv
<1>. QED
  BY <1>1, KeyInvariant, PTL

\* No path of deriveArchEthicKeyPair is refused, whatever numbers a wallet has.
THEOREM KeyNeverThrows == Spec => []NeverThrows
<1>1. KeyInv => NeverThrows
  BY DEF KeyInv
<1>. QED
  BY <1>1, KeyInvariant, PTL

\* The private keys of both Weierstrass curves are usable, for every HMAC and
\* after any number of attempts.
THEOREM KeysUsable == Spec => []KeyUsable
<1>1. KeyInv => KeyUsable
  BY DEF KeyInv
<1>. QED
  BY <1>1, KeyInvariant, PTL

-----------------------------------------------------------------------------
(* The derivation is SLIP-0010's.                                          *)

\* The operators of KeyBytes are the same in both modules.
LEMMA SameBytes ==
  /\ S10!Curves = Curves /\ S10!NoNode = NoNode /\ S10!Zero = Zero
  /\ \A h : S10!Left(h) = Left(h) /\ S10!Right(h) = Right(h) /\ S10!Node(h) = Node(h)
  /\ \A c, h : S10!Usable(c, h) = Usable(c, h)
BY DEF S10!Curves, Curves, S10!NoNode, NoNode, S10!Zero, Zero, S10!Left, Left, S10!Right, Right,
       S10!Node, Node, S10!Usable, Usable

LEMMA SameName == \A c \in Curves : S10!SeedName[c] = get_seed_key(c)
BY DEF S10!SeedName, S10!Curves, Curves, get_seed_key

\* What is copied back to hash is what was hashed.
LEMMA HashKept ==
  ASSUME NEW hash \in Hash, NEW node, node = Node(hash)
  PROVE  [k \in 1..(2 * HalfLen) |-> IF k <= HalfLen THEN node.key[k] ELSE node.chain[k - HalfLen]] = hash
<1>1. \A k \in 1..(2 * HalfLen) :
        IF k <= HalfLen THEN k \in 1..HalfLen
        ELSE k - HalfLen \in 1..HalfLen /\ HalfLen + (k - HalfLen) = k
  BY Sizes
<1>2. node.key = Left(hash) /\ node.chain = Right(hash)
  BY DEF Node
<1>3. ASSUME NEW k \in 1..(2 * HalfLen)
      PROVE  (IF k <= HalfLen THEN node.key[k] ELSE node.chain[k - HalfLen]) = hash[k]
  <2>1. CASE k <= HalfLen
    BY <1>1, <1>2, <2>1 DEF Left
  <2>2. CASE ~(k <= HalfLen)
    <3>1. k - HalfLen \in 1..HalfLen /\ HalfLen + (k - HalfLen) = k
      BY <1>1, <2>2
    <3>2. node.chain[k - HalfLen] = hash[HalfLen + (k - HalfLen)]
      BY <1>2, <3>1 DEF Right
    <3>. QED
      BY <2>2, <3>1, <3>2
  <2>. QED
    BY <2>1, <2>2
<1>. QED
  BY <1>3 DEF Hash

\* The input that Prepare leaves in the buffer.
LEMMA PreparedData ==
  ASSUME KeyInv, step = "child", Prepare, i < Len(path)
  PROVE  hmacData' = FirstData
<1>1. Hardened(path[i + 1])
  BY AtIndex
<1>2. /\ tmp' = [k \in Offsets |-> IF k <= HalfLen THEN [m \in 0..HalfLen |-> IF m = 0 THEN 0 ELSE key.key[m]][k]
                                   ELSE tmp[k]]
      /\ i' = i /\ path' = path
  BY <1>1 DEF Prepare, args
<1>3. ASSUME NEW k \in 1..(1 + HalfLen + IndexLen)
      PROVE  Indexed'[k - 1] = IF k = 1 THEN 0 ELSE IF k <= 1 + HalfLen THEN key.key[k - 1]
                               ELSE path[i + 1][k - 1 - HalfLen]
  <2>. DEFINE m == k - 1
  <2>1. /\ m \in Offsets /\ m \in Nat /\ (k = 1 <=> m = 0) /\ (k <= 1 + HalfLen <=> m <= HalfLen)
        /\ m <= HalfLen + IndexLen /\ k - 1 - HalfLen = m - HalfLen
        /\ (m <= HalfLen => m \in 0..HalfLen) /\ (m > HalfLen <=> ~(m <= HalfLen))
    BY Sizes DEF Offsets
  <2>. HIDE DEF m
  <2>2. Indexed'[m] = IF m > HalfLen /\ m <= HalfLen + IndexLen
                      THEN path[i + 1][m - HalfLen] ELSE tmp'[m]
    BY <1>2, <2>1 DEF Indexed
  <2>3. m <= HalfLen => tmp'[m] = IF m = 0 THEN 0 ELSE key.key[m]
    BY <1>2, <2>1
  <2>4. Indexed'[m] = IF m = 0 THEN 0 ELSE IF m <= HalfLen THEN key.key[m] ELSE path[i + 1][m - HalfLen]
    BY <2>1, <2>2, <2>3, Sizes
  <2>. QED
    BY <2>1, <2>4 DEF m
<1>. QED
  BY <1>3 DEF hmacData, FirstData

\* The input of another attempt, after the copy within the buffer.
LEMMA AgainData ==
  ASSUME KeyInv, step = "turn", Bip32Again
  PROVE  hmacData' = S10!Tagged(1, Right(hmacOutput), path[i + 1])
<1>1. TypeOK /\ path[i + 1] \in Index
  BY AtIndex DEF KeyInv
<1>2. Second(hmacInPlace) = Right(hmacOutput)
  BY <1>1, HmacIs
<1>3. tmp' = TaggedOne(hmacInPlace) /\ i' = i /\ path' = path
  BY DEF Bip32Again, args
<1>4. ASSUME NEW k \in 1..(1 + HalfLen + IndexLen)
      PROVE  Indexed'[k - 1] = IF k = 1 THEN 1 ELSE IF k <= 1 + HalfLen THEN Right(hmacOutput)[k - 1]
                               ELSE path[i + 1][k - 1 - HalfLen]
  <2>. DEFINE m == k - 1
  <2>1. /\ m \in Offsets /\ m \in Nat /\ (k = 1 <=> m = 0) /\ (k <= 1 + HalfLen <=> m <= HalfLen)
        /\ m <= HalfLen + IndexLen /\ k - 1 - HalfLen = m - HalfLen
        /\ (m <= HalfLen /\ m # 0 => m \in 1..HalfLen) /\ (m > HalfLen <=> ~(m <= HalfLen))
    BY Sizes DEF Offsets
  <2>. HIDE DEF m
  <2>2. Indexed'[m] = IF m > HalfLen /\ m <= HalfLen + IndexLen
                      THEN path[i + 1][m - HalfLen] ELSE tmp'[m]
    BY <1>3, <2>1 DEF Indexed
  <2>3. m <= HalfLen => tmp'[m] = IF m = 0 THEN 1 ELSE hmacInPlace[HalfLen + m - 1]
    BY <1>3, <2>1 DEF TaggedOne
  <2>4. m <= HalfLen /\ m # 0 => hmacInPlace[HalfLen + m - 1] = Right(hmacOutput)[m]
    <3>1. m <= HalfLen /\ m # 0 => Second(hmacInPlace)[m] = hmacInPlace[HalfLen + m - 1]
      BY <2>1 DEF Second
    <3>. QED
      BY <1>2, <3>1
  <2>5. Indexed'[m] = IF m = 0 THEN 1 ELSE IF m <= HalfLen THEN Right(hmacOutput)[m]
                      ELSE path[i + 1][m - HalfLen]
    BY <2>1, <2>2, <2>3, <2>4, Sizes
  <2>. QED
    BY <2>1, <2>5 DEF m
<1>. QED
  BY <1>4 DEF hmacData, S10!Tagged

LEMMA FirstIsTagged == FirstData = S10!Tagged(0, key.key, path[i + 1])
BY DEF FirstData, S10!Tagged

LEMMA SlipInit == Init => S10!Init
BY DEF Init, S10!Init, SlipPhase, SlipDepth, SlipNode, SlipData, AtEnd, Expanded, S10!NoNode, NoNode,
       S10!Zero, Zero

\* Where SLIP-0010 is, for each place of the code.
LEMMA MapMaster ==
  (step = "expand" \/ (step = "check" /\ ~Usable(curve, key.key))) =>
    /\ SlipPhase = "master" /\ SlipDepth = 0 /\ SlipNode = NoNode
    /\ SlipData = IF step = "expand" THEN masterSeed ELSE HashOfKey
BY DEF SlipPhase, SlipDepth, SlipNode, SlipData, AtEnd, Expanded

LEMMA MapChild ==
  (Expanded /\ i # Len(path)) =>
    /\ SlipPhase = "child" /\ SlipDepth = i /\ SlipNode = key
    /\ SlipData = S10!Tagged(0, key.key, path[i + 1])
BY FirstIsTagged DEF SlipPhase, SlipDepth, SlipNode, SlipData, AtEnd, Expanded

LEMMA MapTurn ==
  step = "turn" =>
    /\ SlipPhase = "child" /\ SlipDepth = i /\ SlipNode = key /\ SlipData = hmacData
BY DEF SlipPhase, SlipDepth, SlipNode, SlipData, AtEnd, Expanded

LEMMA MapDone ==
  AtEnd => SlipPhase = "done" /\ SlipDepth = i /\ SlipNode = key /\ SlipData = <<>>
BY DEF SlipPhase, SlipDepth, SlipNode, SlipData, AtEnd, Expanded

\* A node is reached: the code goes on with it as SLIP-0010 does.
LEMMA SlipReach ==
  ASSUME KeyInv', Expanded', path' = path, NEW n, NEW d, key' = n, i' = d
  PROVE  S10!Reach(n, d)
<1>1. i' \in 0..Len(path')
  BY DEF KeyInv, TypeOK
<1>2. CASE i' = Len(path')
  <2>1. AtEnd'
    BY <1>2 DEF AtEnd
  <2>2. SlipPhase' = "done" /\ SlipDepth' = i' /\ SlipNode' = key' /\ SlipData' = <<>>
    BY <2>1 DEF SlipPhase, SlipDepth, SlipNode, SlipData, AtEnd, Expanded
  <2>. QED
    BY <1>2, <2>2 DEF S10!Reach
<1>3. CASE i' # Len(path')
  <2>1. /\ SlipPhase' = "child" /\ SlipDepth' = i' /\ SlipNode' = key'
        /\ SlipData' = S10!Tagged(0, key'.key, path'[i' + 1])
    BY <1>3 DEF SlipPhase, SlipDepth, SlipNode, SlipData, AtEnd, Expanded, FirstData, S10!Tagged
  <2>2. d < Len(path)
    <3>1. path' \in Seq(Index)
      BY DEF KeyInv, TypeOK
    <3>2. Len(path') \in Nat
      BY <3>1
    <3>. HIDE DEF KeyInv
    <3>. QED
      BY <1>1, <1>3, <3>2
  <2>. QED
    BY <2>1, <2>2 DEF S10!Reach
<1>. QED
  BY <1>2, <1>3

LEMMA SlipDerive ==
  ASSUME KeyInv, NEW c \in Curves, NEW s \in Seeds, NEW n \in Coins, NEW a \in Accounts,
         NEW x \in Addresses, Derive(c, s, n, a, x)
  PROVE  S10!Next
<1>1. /\ step \in {"idle", "done"} /\ step' = "expand" /\ curve' = c /\ masterSeed' = s
      /\ path' = derivationPath(n, a, x)
  BY DEF Derive, KeyInv, NeverThrows
<1>2. SlipPhase \in {"none", "done"}
  BY <1>1 DEF SlipPhase, AtEnd
<1>3. SlipPhase' = "master" /\ SlipDepth' = 0 /\ SlipNode' = NoNode /\ SlipData' = s
  BY <1>1 DEF SlipPhase, SlipDepth, SlipNode, SlipData, AtEnd, Expanded
<1>4. S10!Request(c, s, path')
  BY <1>1, <1>2, <1>3, SameBytes DEF S10!Request
<1>5. path' \in SlipPaths
  BY <1>1 DEF SlipPaths
<1>. QED
  BY <1>4, <1>5, SameBytes DEF S10!Next

\* A hash of the master node: its key is usable, or it is hashed again.
LEMMA SlipMaster ==
  ASSUME KeyInv, KeyInv', SlipPhase = "master", SlipDepth = 0, SlipNode = NoNode, i = 0,
         NEW hash \in Hash, hash = HmacSeed(get_seed_key(curve), SlipData), key' = Node(hash),
         i' = i, curve' = curve, path' = path, masterSeed' = masterSeed,
         step' = IF curve = "Ed25519" THEN "child" ELSE "check"
  PROVE  S10!Next
<1>1. curve \in Curves
  BY DEF KeyInv, TypeOK
<1>2. hash = HmacSeed(S10!SeedName[curve], SlipData)
  BY <1>1, SameName
<1>3. Node(hash).key = Left(hash)
  BY DEF Node
<1>4. CASE curve = "Ed25519" \/ Usable(curve, Left(hash))
  <2>1. Expanded'
    BY <1>3, <1>4 DEF Expanded
  <2>2. S10!Reach(S10!Node(hash), 0)
    BY <2>1, SlipReach, SameBytes
  <2>3. S10!Master
    BY <1>2, <1>4, <2>2, SameBytes DEF S10!Master
  <2>. QED
    BY <2>3 DEF S10!Next
<1>5. CASE ~(curve = "Ed25519" \/ Usable(curve, Left(hash)))
  <2>1. step' = "check" /\ ~Usable(curve', key'.key)
    BY <1>3, <1>5
  <2>2. SlipPhase' = "master" /\ SlipDepth' = 0 /\ SlipNode' = NoNode /\ SlipData' = HashOfKey'
    BY <2>1 DEF SlipPhase, SlipDepth, SlipNode, SlipData, AtEnd, Expanded
  <2>3. HashOfKey' = hash
    BY HashKept DEF HashOfKey
  <2>4. S10!Master
    BY <1>2, <1>5, <2>2, <2>3, SameBytes DEF S10!Master
  <2>. QED
    BY <2>4 DEF S10!Next
<1>. QED
  BY <1>4, <1>5

LEMMA SlipExpand ==
  ASSUME KeyInv, KeyInv', ExpandSeed \/ ExpandAgain
  PROVE  S10!Next
<1>. DEFINE hash == HmacSeed(get_seed_key(curve), SlipData)
<1>1. CASE ExpandSeed
  <2>1. /\ step = "expand" /\ i' = i /\ curve' = curve /\ path' = path /\ masterSeed' = masterSeed
        /\ step' = (IF curve = "Ed25519" THEN "child" ELSE "check")
        /\ key' = Node(HmacSeed(get_seed_key(curve), masterSeed))
    BY <1>1 DEF ExpandSeed, args
  <2>2. SlipPhase = "master" /\ SlipDepth = 0 /\ SlipNode = NoNode /\ SlipData = masterSeed
    BY <2>1, MapMaster
  <2>3. hash \in Hash /\ i = 0
    BY <2>1, <2>2, NameIs, FunctionsOK DEF KeyInv, TypeOK
  <2>. QED
    BY <2>1, <2>2, <2>3, SlipMaster
<1>2. CASE ExpandAgain
  <2>1. /\ step = "check" /\ ~Usable(curve, key.key) /\ curve # "Ed25519"
        /\ i' = i /\ curve' = curve /\ path' = path /\ masterSeed' = masterSeed
        /\ step' = (IF curve = "Ed25519" THEN "child" ELSE "check")
        /\ key' = Node(HmacSeed(get_seed_key(curve), HashOfKey))
    BY <1>2 DEF ExpandAgain, args, KeyInv
  <2>2. SlipPhase = "master" /\ SlipDepth = 0 /\ SlipNode = NoNode /\ SlipData = HashOfKey
    BY <2>1, MapMaster
  <2>3. HashOfKey \in Hash /\ curve \in Curves /\ i = 0
    BY <2>1, HashOfKeyIs DEF KeyInv, TypeOK
  <2>4. hash \in Hash
    BY <2>2, <2>3, NameIs, FunctionsOK
  <2>. QED
    BY <2>1, <2>2, <2>3, <2>4, SlipMaster
<1>. QED
  BY <1>1, <1>2

\* Steps of the code that are none of SLIP-0010's.
LEMMA SlipStutter ==
  ASSUME KeyInv, SeedExpanded \/ Prepare \/ Finish
  PROVE  UNCHANGED <<SlipPhase, curve, path, SlipDepth, SlipNode, SlipData>>
<1>1. CASE SeedExpanded
  BY <1>1 DEF SeedExpanded, args, SlipPhase, SlipDepth, SlipNode, SlipData, AtEnd, Expanded, FirstData
<1>2. CASE Prepare
  <2>1. step = "child" /\ i < Len(path)
    BY <1>2 DEF Prepare
  <2>2. Hardened(path[i + 1]) /\ i # Len(path)
    <3>1. Hardened(path[i + 1]) /\ i \in Nat /\ Len(path) = 3
      BY <2>1, AtIndex
    <3>. QED
      BY <2>1, <3>1
  <2>3. step' = "turn" /\ i' = i /\ key' = key /\ curve' = curve /\ path' = path
    BY <1>2, <2>2 DEF Prepare, args
  <2>4. SlipPhase = "child" /\ SlipDepth = i /\ SlipNode = key /\ SlipData = FirstData
    BY <2>1, <2>2, MapChild, FirstIsTagged DEF Expanded
  <2>5. SlipPhase' = "child" /\ SlipDepth' = i' /\ SlipNode' = key' /\ SlipData' = hmacData'
    BY <2>3 DEF SlipPhase, SlipDepth, SlipNode, SlipData, AtEnd, Expanded
  <2>6. hmacData' = FirstData
    BY <1>2, <2>1, PreparedData
  <2>. QED
    BY <2>3, <2>4, <2>5, <2>6
<1>3. CASE Finish
  BY <1>3 DEF Finish, args, SlipPhase, SlipDepth, SlipNode, SlipData, AtEnd, Expanded
<1>. QED
  BY <1>1, <1>2, <1>3

\* The end of a turn of both loops.
LEMMA SlipChild ==
  ASSUME KeyInv, KeyInv', step = "turn", NEW half, NextNode(half),
         \/ curve = "Ed25519" /\ half = First(hmacInPlace)
         \/ curve # "Ed25519" /\ Accepts /\ half = Sum
  PROVE  S10!Next
<1>1. TypeOK /\ path[i + 1] \in Index
  BY AtIndex DEF KeyInv
<1>2. First(hmacInPlace) = Left(hmacOutput) /\ Second(hmacInPlace) = Right(hmacOutput)
  BY <1>1, HmacIs
<1>3. /\ step' = "child" /\ i' = i + 1 /\ curve' = curve /\ path' = path
      /\ key' = [key |-> half, chain |-> Right(hmacOutput)]
  BY <1>2 DEF NextNode, args
<1>4. SlipPhase = "child" /\ SlipDepth = i /\ SlipNode = key /\ SlipData = hmacData
  BY MapTurn
<1>5. S10!Reach([key |-> half, chain |-> Right(hmacOutput)], i + 1)
  BY <1>3, SlipReach DEF Expanded
<1>6. hmacOutput = Hmac(SlipNode.chain, SlipData)
  BY <1>4 DEF hmacOutput
<1>7. CASE curve = "Ed25519"
  <2>1. Node(hmacOutput) = [key |-> half, chain |-> Right(hmacOutput)]
    BY <1>2, <1>7 DEF Node
  <2>2. S10!Child
    BY <1>3, <1>4, <1>5, <1>6, <1>7, <2>1, SameBytes DEF S10!Child
  <2>. QED
    BY <2>2 DEF S10!Next
<1>8. CASE curve # "Ed25519"
  <2>1. Sum = AddOrder(curve, Left(hmacOutput), key.key)
    BY <1>2 DEF Sum
  <2>2. BelowOrder(curve, Left(hmacOutput)) /\ Sum # Zero /\ half = Sum
    BY <1>2, <1>8 DEF Accepts
  <2>3. S10!Child
    BY <1>3, <1>4, <1>5, <1>6, <1>8, <2>1, <2>2, SameBytes DEF S10!Child
  <2>. QED
    BY <2>3 DEF S10!Next
<1>. QED
  BY <1>7, <1>8

LEMMA SlipAgain ==
  ASSUME KeyInv, Bip32Again
  PROVE  S10!Next
<1>1. /\ step = "turn" /\ curve # "Ed25519" /\ ~Accepts
      /\ step' = step /\ i' = i /\ key' = key /\ curve' = curve /\ path' = path
  BY DEF Bip32Again, args
<1>2. TypeOK /\ path[i + 1] \in Index
  BY <1>1, AtIndex DEF KeyInv
<1>3. First(hmacInPlace) = Left(hmacOutput)
  BY <1>2, HmacIs
<1>4. SlipPhase = "child" /\ SlipDepth = i /\ SlipNode = key /\ SlipData = hmacData
  BY <1>1, MapTurn
<1>5. SlipPhase' = "child" /\ SlipDepth' = i' /\ SlipNode' = key' /\ SlipData' = hmacData'
  BY <1>1 DEF SlipPhase, SlipDepth, SlipNode, SlipData, AtEnd, Expanded
<1>6. hmacData' = S10!Tagged(1, Right(hmacOutput), path[i + 1])
  BY <1>1, AgainData
<1>7. hmacOutput = Hmac(SlipNode.chain, SlipData)
  BY <1>4 DEF hmacOutput
<1>8. Sum = AddOrder(curve, Left(hmacOutput), key.key)
  BY <1>3 DEF Sum
<1>9. ~(BelowOrder(curve, Left(hmacOutput)) /\ Sum # Zero)
  BY <1>1, <1>3 DEF Accepts
<1>10. S10!Child
  BY <1>1, <1>4, <1>5, <1>6, <1>7, <1>8, <1>9, SameBytes DEF S10!Child
<1>. QED
  BY <1>10 DEF S10!Next

LEMMA SlipStep == KeyInv /\ KeyInv' /\ [Next]_keyVars => [S10!Next]_(S10!slipVars)
<1>. SUFFICES ASSUME KeyInv, KeyInv', [Next]_keyVars
              PROVE  S10!Next \/ UNCHANGED <<SlipPhase, curve, path, SlipDepth, SlipNode, SlipData>>
  BY DEF S10!slipVars
<1>1. ASSUME NEW c \in Curves, NEW s \in Seeds, NEW n \in Coins, NEW a \in Accounts,
             NEW x \in Addresses, Derive(c, s, n, a, x)
      PROVE  S10!Next
  BY <1>1, SlipDerive
<1>2. CASE ExpandSeed \/ ExpandAgain
  BY <1>2, SlipExpand
<1>3. CASE SeedExpanded \/ Prepare \/ Finish
  BY <1>3, SlipStutter
<1>4. CASE SlipTurn
  BY <1>4, SlipChild DEF SlipTurn
<1>5. CASE Bip32Turn
  BY <1>5, SlipChild DEF Bip32Turn
<1>6. CASE Bip32Again
  BY <1>6, SlipAgain
<1>7. CASE UNCHANGED keyVars
  BY <1>7 DEF keyVars, args, SlipPhase, SlipDepth, SlipNode, SlipData, AtEnd, Expanded, FirstData,
              HashOfKey, hmacData, Indexed
<1>. QED
  BY <1>1, <1>2, <1>3, <1>4, <1>5, <1>6, <1>7 DEF Next, Work

\* The code derives the keys of SLIP-0010, for every HMAC, every seed and
\* every path that it is given: what earlier attempts and calls left in its
\* buffers is never part of a key.
THEOREM DerivesSlip10 == Spec => ImplementsSlip10
<1>. QED
  BY SlipInit, SlipStep, KeyInvariant, PTL DEF Spec, ImplementsSlip10, S10!Spec
=============================================================================
