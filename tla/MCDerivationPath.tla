-------------------------- MODULE MCDerivationPath --------------------------
(***************************************************************************)
(* DerivationPath for TLC.  FormedPaths: m/a'/b'/c', the form that the     *)
(* wallet encoder writes.  AnyPaths: besides, every text of up to five     *)
(* characters out of "/", "'", "1" and "9" behind "m/", texts that do not  *)
(* start with "m/", and one with a zero in it.                             *)
(***************************************************************************)
EXTENDS DerivationPath

Start      == <<LetterM, Solidus>>
Apostrophe == 39

Numbers     == {<<48>>, <<49>>, <<57>>, <<49, 48>>, <<54, 53, 48>>}
FormedPaths == {Start \o n[1] \o <<Apostrophe, Solidus>>
                      \o n[2] \o <<Apostrophe, Solidus>>
                      \o n[3] \o <<Apostrophe>> : n \in [1..3 -> Numbers]}

Tails    == UNION {[1..n -> {Solidus, Apostrophe, 49, 57}] : n \in 0..5}
AnyPaths == {Start \o tail : tail \in Tails} \cup FormedPaths
            \cup {<<>>, <<LetterM>>, <<Solidus, LetterM, 49>>,
                  Start \o <<49, 0, 57, Solidus, 57>>}
=============================================================================
