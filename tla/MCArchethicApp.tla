--------------------------- MODULE MCArchethicApp ---------------------------
(***************************************************************************)
(* Small instances of ArchethicApp for TLC.  w1 is a wallet of one         *)
(* service, w2 one of two, with the lengths their encodings have: 38 bytes *)
(* of header and 19 bytes for each service with a 3-byte name.  With a     *)
(* second name of 9 bytes its path starts just behind a public key written *)
(* over the wallet's start.                                                *)
(***************************************************************************)
EXTENDS ArchethicApp

CONSTANTS w1, w2, h1, h2, t1, amt1, amt2

MCWallets   == {w1, w2}
MCTotal     == [w \in MCWallets |-> IF w = w1 THEN 1 ELSE 2]
MCWalletLen == [w \in MCWallets |-> 38 + 19 * MCTotal[w]]
MCPathAt    == [e \in MCWallets \X (1..256) |-> 42 + 19 * (e[2] - 1)]
LongNameLen == [MCWalletLen EXCEPT ![w2] = @ + 6]
LongNameAt  == [MCPathAt EXCEPT ![<<w2, 2>>] = @ + 6]
MCHeads     == {h1, h2}
MCTails     == {t1}
MCAmounts   == {amt1, amt2}

Simple(ins) == [NoCmd EXCEPT !.ins = ins]
Address(service, env) == [Simple("address") EXCEPT !.service = service, !.env = env]
Sign(service, env, head, tail, amount) ==
  [ins |-> "sign", service |-> service, env |-> env, amount |-> amount,
   receiver |-> [head |-> head, tail |-> tail]]

Others == {Simple(ins) : ins \in {"version", "pubkey", "empty", "badcla", "badins"}}

\* Commands about services the wallets have.  The bad envelopes and two
\* transfers that differ in everything make stale values visible.  Only the
\* wallet of one service leaves room for a 66-byte receiver.
OwnCommands ==
  Others \cup
  {Address(0, w1), Address(1, w2), Address(0, BadPoint), Address(0, BadTag),
   Sign(0, w1, h1, t1, amt1), Sign(1, w2, h2, Blank, amt2),
   Sign(0, BadPoint, h2, t1, amt2), Sign(1, BadTag, h2, Blank, amt2)}

\* The service index is a byte the host chooses: up to the one just past the
\* end, which getDerivationPath accepts, and one that it refuses.
AnyCommands ==
  {Simple("pubkey"), Address(1, w1), Address(0, w2), Sign(1, w1, h1, t1, amt1),
   Sign(1, w2, h2, Blank, amt2), Sign(9, BadPoint, h1, t1, amt1)}

\* One command of each kind, for the temporal properties.
FewCommands ==
  {Simple("pubkey"), Simple("badins"), Address(0, BadPoint), Address(0, w1),
   Sign(1, w2, h2, Blank, amt2)}

NoEd25519   == {}
SecondOfW2  == {<<w2, 2>>}
=============================================================================
