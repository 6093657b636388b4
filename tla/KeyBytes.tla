------------------------------ MODULE KeyBytes ------------------------------
(***************************************************************************)
(* What Slip10 and KeyTree have in common: bytes, halves of a hash, path   *)
(* indices, and the functions of the SDK.  A byte has 256 values, a half   *)
(* 32 bytes and an index 4; they are parameters, because nothing depends   *)
(* on them but that an index is shorter than a half.                       *)
(***************************************************************************)
EXTENDS Integers, Sequences

CONSTANTS
  Base, HalfLen, IndexLen,
  Seeds,              (* the seeds of wallets                               *)
  HmacSeed(_, _),     (* HMAC-SHA512, of a name and data,                   *)
  Hmac(_, _),         (*   and of a chain code and data                     *)
  BelowOrder(_, _),   (* cx_math_cmp with the order of a curve              *)
  AddOrder(_, _, _)   (* cx_math_addm modulo the order of a curve           *)

Byte   == 0..(Base - 1)
Half   == [1..HalfLen -> Byte]
Hash   == [1..(2 * HalfLen) -> Byte]
Index  == [1..IndexLen -> Byte]
Zero   == [k \in 1..HalfLen |-> 0]
Curves == {"Ed25519", "NISTP256", "SECP256K1"}

\* The most significant bit: 0x80000000.
Hardened(index) == 2 * index[1] >= Base

Left(hash)  == [k \in 1..HalfLen |-> hash[k]]
Right(hash) == [k \in 1..HalfLen |-> hash[HalfLen + k]]
Node(hash)  == [key |-> Left(hash), chain |-> Right(hash)]
NoNode      == [key |-> Zero, chain |-> Zero]

\* A private key of a Weierstrass curve.
Usable(curve, half) == half # Zero /\ BelowOrder(curve, half)

ASSUME BytesOK ==
  /\ Base \in Nat /\ Base > 1 /\ Base % 2 = 0
  /\ HalfLen \in Nat /\ IndexLen \in Nat /\ 0 < IndexLen /\ IndexLen < HalfLen

\* The names that HMAC-SHA512 is keyed with for the seed of each curve.
Names == {"ed25519 seed", "Nist256p1 seed", "Bitcoin seed"}

\* The data of a child's HMAC: a byte, a half and an index.
Message == [1..(1 + HalfLen + IndexLen) -> Byte]

\* Nothing is said of the functions but the types of what they give, and that
\* a sum modulo the order is below it.
ASSUME FunctionsOK ==
  /\ \A name \in Names, data \in Seeds \cup Hash : HmacSeed(name, data) \in Hash
  /\ \A chain \in Half, data \in Message : Hmac(chain, data) \in Hash
  /\ \A curve \in Curves \ {"Ed25519"}, a, b \in Half :
       AddOrder(curve, a, b) \in Half /\ BelowOrder(curve, AddOrder(curve, a, b))
=============================================================================
