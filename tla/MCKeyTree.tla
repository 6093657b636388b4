----------------------------- MODULE MCKeyTree -----------------------------
(***************************************************************************)
(* A small instance of KeyTree for TLC: bytes of one bit, halves of three  *)
(* and indices of two, and orders of five and six.  MCHmac mixes its       *)
(* arguments so that attempts fail often, some of them several times in a  *)
(* row, and so that none fails for ever: a hash that did would make the    *)
(* code loop, as it would make SLIP-0010.                                  *)
(***************************************************************************)
EXTENDS KeyTree, FiniteSets

Number(bytes) == LET upTo[k \in 0..Len(bytes)] == IF k = 0 THEN 0 ELSE Base * upTo[k - 1] + bytes[k]
                 IN  upTo[Len(bytes)]

Bytes(n, len) == [k \in 1..len |-> (n \div Base^(len - k)) % Base]

Mix(n) == LET m == n % 67 IN Bytes(((m * m) % 67) % 64, 2 * HalfLen)

MCHmacSeed(name, data) ==
  Mix(30 * Number(data) + 28 + (IF name = "Bitcoin seed" THEN 22
                                ELSE IF name = "Nist256p1 seed" THEN 33 ELSE 44))
MCHmac(chain, data) == Mix(30 * Number(data) + 37 * Number(chain) + 28)

Order(c) == IF c = "SECP256K1" THEN 5 ELSE 6
MCBelowOrder(c, half) == Number(half) < Order(c)
MCAddOrder(c, a, b)   == Bytes((Number(a) + Number(b)) % Order(c), HalfLen)
MCCompressed(c, half) == [k \in 0..HalfLen |-> 1]

MCSeeds     == {<<0, 0>>, <<0, 1>>, <<1, 0>>, <<1, 1>>}
MCCoins     == {<<0, 0>>, <<1, 1>>}
MCAccounts  == {<<0, 0>>, <<0, 1>>}
MCAddresses == {<<0, 0>>, <<0, 1>>}
=============================================================================
