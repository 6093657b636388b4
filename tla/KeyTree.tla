------------------------------ MODULE KeyTree ------------------------------
(***************************************************************************)
(* The derivation of a service's key: deriveArchEthicKeyPair of            *)
(* archethic.c and archethic_derive_node_with_seed_key of bip44.c, with    *)
(* the one buffer tmp that is the input of an HMAC, then its output, then  *)
(* the input of the next attempt.                                          *)
(***************************************************************************)
EXTENDS KeyBytes

CONSTANTS
  Coins, Accounts, Addresses,  (* the numbers of a derivation path          *)
  Compressed(_, _)             (* of a curve: the point of a private key    *)

VARIABLES
  step,        (* where the derivation is                                   *)
  curve, masterSeed, path,
  i,           (* the index of the path that hdw_slip10 or hdw_bip32 is at  *)
  key,         (* the extended_private_key,                                 *)
  tmp,         (*   and their buffer                                        *)
  privateKey   (* rawPrivateKey of deriveArchEthicKeyPair                   *)

args    == <<curve, masterSeed, path>>
keyVars == <<step, args, i, key, tmp, privateKey>>

Offsets == 0..(2 * HalfLen + IndexLen)   \* of uint8_t tmp[1 + 64 + 4]

\* Mutant: + 0x80000000.
HardenAdds(index) == [index EXCEPT ![1] = @ + Base \div 2]

\* index | 0x80000000
Harden(index) == [index EXCEPT ![1] = IF Hardened(index) THEN @ ELSE @ + Base \div 2]

\* Mutant: the account as it is in the wallet.
SoftPath(coin_type, account, address_index) == <<Harden(coin_type), account, Harden(address_index)>>

\* derivationPath[] of deriveArchEthicKeyPair.
derivationPath(coin_type, account, address_index) ==
  <<Harden(coin_type), Harden(account), Harden(address_index)>>

get_seed_key(c) == IF c = "SECP256K1" THEN "Bitcoin seed"
                   ELSE IF c = "NISTP256" THEN "Nist256p1 seed" ELSE "ed25519 seed"

Init ==
  /\ step = "idle" /\ curve = "SECP256K1" /\ masterSeed = <<>> /\ path = <<>> /\ i = 0
  /\ key = NoNode /\ tmp = [k \in Offsets |-> 0] /\ privateKey = Zero

\* A call of deriveArchEthicKeyPair for an account other than 0xffff, which
\* is the device's own.  What an earlier call left stays on the stack.
Derive(c, s, coin_type, account, address_index) ==
  /\ step \in {"idle", "done", "thrown"} /\ step' = "expand"
  /\ curve' = c /\ masterSeed' = s /\ i' = 0
  /\ path' = derivationPath(coin_type, account, address_index)
  /\ UNCHANGED <<key, tmp, privateKey>>

\* The HMAC of the seed, in expand_seed_slip10 and in expand_seed.
ExpandSeed ==
  /\ step = "expand"
  /\ key' = Node(HmacSeed(get_seed_key(curve), masterSeed))
  /\ step' = IF curve = "Ed25519" THEN "child" ELSE "check"
  /\ UNCHANGED <<args, i, tmp, privateKey>>

\* The key and the chain code, copied back to hash.
HashOfKey == [k \in 1..(2 * HalfLen) |-> IF k <= HalfLen THEN key.key[k] ELSE key.chain[k - HalfLen]]

\* The loop of expand_seed.
ExpandAgain ==
  /\ step = "check" /\ ~Usable(curve, key.key)
  /\ key' = Node(HmacSeed(get_seed_key(curve), HashOfKey))
  /\ UNCHANGED <<step, args, i, tmp, privateKey>>

SeedExpanded ==
  /\ step = "check" /\ Usable(curve, key.key) /\ step' = "child"
  /\ UNCHANGED <<args, i, key, tmp, privateKey>>

\* A turn of the for loops of hdw_slip10 and hdw_bip32 begins: the first bytes
\* of tmp.  hdw_slip10 refuses an index that is not hardened.
Prepare ==
  LET start == IF Hardened(path[i + 1]) THEN [k \in 0..HalfLen |-> IF k = 0 THEN 0 ELSE key.key[k]]
               ELSE Compressed(curve, key.key)
  IN  /\ step = "child" /\ i < Len(path)
      /\ IF curve = "Ed25519" /\ ~Hardened(path[i + 1])
           THEN step' = "thrown" /\ UNCHANGED tmp
           ELSE step' = "turn" /\ tmp' = [k \in Offsets |-> IF k <= HalfLen THEN start[k] ELSE tmp[k]]
      /\ UNCHANGED <<args, i, key, privateKey>>

\* tmp[33] to tmp[36].
Indexed == [k \in Offsets |-> IF k > HalfLen /\ k <= HalfLen + IndexLen
                              THEN path[i + 1][k - HalfLen] ELSE tmp[k]]

\* cx_hmac_sha512(key->chain_code, 32, tmp, 37, tmp, ...)
hmacData    == [k \in 1..(1 + HalfLen + IndexLen) |-> Indexed[k - 1]]
hmacOutput  == Hmac(key.chain, hmacData)
hmacInPlace == [k \in Offsets |-> IF k < 2 * HalfLen THEN hmacOutput[k + 1] ELSE Indexed[k]]

First(t)  == [k \in 1..HalfLen |-> t[k - 1]]
Second(t) == [k \in 1..HalfLen |-> t[HalfLen + k - 1]]

Sum == AddOrder(curve, First(hmacInPlace), key.key)

\* Mutant: the sum is not compared with zero.
AcceptsZero == BelowOrder(curve, First(hmacInPlace))

\* What breaks out of while (true).
Accepts == BelowOrder(curve, First(hmacInPlace)) /\ Sum # Zero

\* The key and chain code of a turn, and the next one.
NextNode(half) ==
  /\ key' = [key |-> half, chain |-> Second(hmacInPlace)]
  /\ i' = i + 1 /\ step' = "child"
  /\ UNCHANGED <<args, privateKey>>

SlipTurn ==
  /\ step = "turn" /\ curve = "Ed25519"
  /\ tmp' = hmacInPlace
  /\ NextNode(First(hmacInPlace))

Bip32Turn ==
  /\ step = "turn" /\ curve # "Ed25519" /\ Accepts
  /\ tmp' = [k \in Offsets |-> IF k < HalfLen THEN Sum[k + 1] ELSE hmacInPlace[k]]
  /\ NextNode(Sum)

\* Mutant: the memcpy from its last byte to its first.
TaggedBackward(t) ==
  [k \in Offsets |-> IF k = 0 THEN 1
                     ELSE IF k = 1 THEN t[2 * HalfLen - 1]
                     ELSE IF k <= HalfLen THEN t[HalfLen + k - 1] ELSE t[k]]

\* Mutant: the input kept.
TaggedSame(t) == Indexed

\* tmp[0] = 1; memcpy(tmp + 1, tmp + 32, 32): the last byte written is the
\* first one read, so that the copy is right from the first byte to the last.
TaggedOne(t) == [k \in Offsets |-> IF k = 0 THEN 1
                                   ELSE IF k <= HalfLen THEN t[HalfLen + k - 1] ELSE t[k]]

\* The sum, if it was computed, is overwritten: tmp[1] to tmp[32] and tmp[0].
Bip32Again ==
  /\ step = "turn" /\ curve # "Ed25519" /\ ~Accepts
  /\ tmp' = TaggedOne(hmacInPlace)
  /\ UNCHANGED <<step, args, i, key, privateKey>>

Finish ==
  /\ step = "child" /\ i = Len(path) /\ step' = "done"
  /\ privateKey' = key.key
  /\ UNCHANGED <<args, i, key, tmp>>

Work == \/ ExpandSeed \/ ExpandAgain \/ SeedExpanded \/ Prepare
        \/ SlipTurn \/ Bip32Turn \/ Bip32Again \/ Finish

Next ==
  \/ \E c \in Curves, s \in Seeds, n \in Coins, a \in Accounts, x \in Addresses : Derive(c, s, n, a, x)
  \/ Work

Spec == Init /\ [][Next]_keyVars

\* One thread runs the derivation, and nothing in it waits.
FairSpec == Spec /\ WF_keyVars(Work)

ASSUME PathsOK == Coins \cup Accounts \cup Addresses \subseteq Index

-----------------------------------------------------------------------------
(* Properties.                                                             *)

Steps == {"idle", "expand", "check", "child", "turn", "done", "thrown"}

\* The buffer holds bytes, and i is within the path or at its end.
TypeOK ==
  /\ step \in Steps /\ curve \in Curves /\ masterSeed \in Seeds \cup {<<>>}
  /\ path \in Seq(Index) /\ i \in 0..Len(path)
  /\ key \in [key : Half, chain : Half] /\ tmp \in [Offsets -> Byte] /\ privateKey \in Half

\* The application's calls never throw: deriveArchEthicKeyPair hardens what it
\* takes from a wallet, which the Ed25519 branch insists on.
NeverThrows == step # "thrown"

\* The keys of a Weierstrass curve can be used, the one that is given as well
\* as those on the way to it: none is zero, or not below the order, after
\* however many attempts it took.
KeyUsable ==
  curve # "Ed25519" =>
    /\ step \in {"child", "turn"} => Usable(curve, key.key)
    /\ step = "done" => Usable(curve, privateKey)

\* What SLIP-0010 is at: the seed is expanded once its key is usable, and the
\* data of the next attempt is in tmp from the first attempt on.
Expanded  == (step = "check" /\ Usable(curve, key.key)) \/ step = "child"
AtEnd     == (Expanded /\ i = Len(path)) \/ step = "done"
SlipPaths == {derivationPath(n, a, x) : n \in Coins, a \in Accounts, x \in Addresses}
SlipPhase == IF step = "idle" THEN "none" ELSE IF AtEnd THEN "done"
             ELSE IF Expanded \/ step = "turn" THEN "child" ELSE "master"
SlipDepth == IF Expanded \/ step \in {"turn", "done"} THEN i ELSE 0
SlipNode  == IF Expanded \/ step \in {"turn", "done"} THEN key ELSE NoNode
FirstData == [k \in 1..(1 + HalfLen + IndexLen) |->
                IF k = 1 THEN 0 ELSE IF k <= 1 + HalfLen THEN key.key[k - 1]
                ELSE path[i + 1][k - 1 - HalfLen]]
SlipData  == IF step = "idle" \/ AtEnd THEN <<>>
             ELSE IF step = "expand" THEN masterSeed
             ELSE IF step = "turn" THEN hmacData
             ELSE IF Expanded THEN FirstData ELSE HashOfKey

S10 == INSTANCE Slip10 WITH Paths <- SlipPaths, phase <- SlipPhase, depth <- SlipDepth,
                            node <- SlipNode, data <- SlipData

\* Whatever is left in the buffers, the keys are those of SLIP-0010.
ImplementsSlip10 == S10!Spec

\* Every derivation ends: an attempt that fails is followed by one with
\* another input.
DerivationEnds == (step = "expand") ~> (step \in {"done", "thrown"})
=============================================================================
