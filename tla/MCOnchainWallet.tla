-------------------------- MODULE MCOnchainWallet --------------------------
(***************************************************************************)
(* OnchainWallet for TLC: wallets of one to three services, each with a    *)
(* name of 0, 3 or 6 bytes and a path of 12 or 15, encoded as the wallet   *)
(* encoder of the tests does, in a buffer that held ones (1) before.       *)
(***************************************************************************)
EXTENDS OnchainWallet, SequencesExt

Services  == [name : {0, 3, 6}, path : {12, 15}, curve : {2}]
MCWallets == UNION {[1..n -> Services] : n \in 1..3}

Bytes(n) == [k \in 1..n |-> 7]
Encode(s) == <<s.name>> \o Bytes(s.name) \o <<s.path>> \o Bytes(s.path) \o <<s.curve, 0>>
EncodeAll(w, n) == FoldLeft(\o, <<0, 0, 0, 1, 32>> \o Bytes(32) \o <<Len(w)>>,
                            [k \in 1..n |-> Encode(w[k])])

MCLength == [w \in MCWallets |-> Len(EncodeAll(w, Len(w)))]
MCTotal  == [w \in MCWallets |-> Len(w)]
MCStart  == [w \in MCWallets |-> [k \in 1..(Len(w) + 1) |-> Len(EncodeAll(w, k - 1))]]
MCMemory ==
  [w \in MCWallets |->
     LET encoding == EncodeAll(w, Len(w))
     IN  [k \in 0..1023 |-> IF k < Len(encoding) THEN encoding[k + 1] ELSE 1]]
=============================================================================
