------------------------------- MODULE Slip10 -------------------------------
(***************************************************************************)
(* What bip44.c promises: the master and child keys of SLIP-0010, which    *)
(* its comments refer to.  A derivation is a sequence of attempts, each    *)
(* with the HMAC of its own data, without buffers.  Paths are hardened.    *)
(***************************************************************************)
EXTENDS KeyBytes

CONSTANT Paths

VARIABLES
  phase,   (* "none", "master", "child", or "done"                          *)
  curve, path,
  depth,   (* how many indices of the path are done                         *)
  node,    (* the last node: a key and a chain code                         *)
  data     (* of the next attempt                                           *)

slipVars == <<phase, curve, path, depth, node, data>>

SeedName == [c \in Curves |-> IF c = "Ed25519" THEN "ed25519 seed"
                              ELSE IF c = "NISTP256" THEN "Nist256p1 seed" ELSE "Bitcoin seed"]

\* The data of an attempt at a child.
Tagged(b, half, index) ==
  [k \in 1..(1 + HalfLen + IndexLen) |->
     IF k = 1 THEN b
     ELSE IF k <= 1 + HalfLen THEN half[k - 1] ELSE index[k - 1 - HalfLen]]

Init ==
  /\ phase = "none" /\ curve = "SECP256K1" /\ path = <<>> /\ depth = 0
  /\ node = NoNode /\ data = <<>>

Request(c, s, p) ==
  /\ phase \in {"none", "done"} /\ phase' = "master"
  /\ curve' = c /\ path' = p /\ depth' = 0
  /\ node' = NoNode /\ data' = s

\* A node is reached: the derivation ends there, or goes on to its child.
Reach(n, d) ==
  /\ node' = n /\ depth' = d
  /\ \/ d = Len(path) /\ phase' = "done" /\ data' = <<>>
     \/ d < Len(path) /\ phase' = "child" /\ data' = Tagged(0, n.key, path[d + 1])

\* The master node.  The hash is hashed again as long as its key is unusable.
Master ==
  LET hash == HmacSeed(SeedName[curve], data)
  IN  /\ phase = "master"
      /\ \/ (curve = "Ed25519" \/ Usable(curve, Left(hash))) /\ Reach(Node(hash), 0)
         \/ /\ curve # "Ed25519" /\ ~Usable(curve, Left(hash))
            /\ data' = hash /\ UNCHANGED <<phase, depth, node>>
      /\ UNCHANGED <<curve, path>>

\* A child.  Ed25519 takes the left half for the key; the other curves add it
\* to the parent's, and try again with the right half when that cannot be.
Child ==
  LET hash == Hmac(node.chain, data)
      sum  == AddOrder(curve, Left(hash), node.key)
      fits == BelowOrder(curve, Left(hash)) /\ sum # Zero
  IN  /\ phase = "child"
      /\ \/ curve = "Ed25519" /\ Reach(Node(hash), depth + 1)
         \/ curve # "Ed25519" /\ fits /\ Reach([key |-> sum, chain |-> Right(hash)], depth + 1)
         \/ /\ curve # "Ed25519" /\ ~fits
            /\ data' = Tagged(1, Right(hash), path[depth + 1])
            /\ UNCHANGED <<phase, depth, node>>
      /\ UNCHANGED <<curve, path>>

Next ==
  \/ \E c \in Curves, s \in Seeds, p \in Paths : Request(c, s, p)
  \/ Master \/ Child

Spec == Init /\ [][Next]_slipVars
=============================================================================
