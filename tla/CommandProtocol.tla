-------------------------- MODULE CommandProtocol --------------------------
(***************************************************************************)
(* What the application promises a host, whatever wallets, keys and        *)
(* screens are: commands are answered one at a time, each at most once;    *)
(* a command about a key is answered with success only after the user      *)
(* was asked and said yes; an unanswered command is lost only with the     *)
(* application going down.                                                 *)
(***************************************************************************)
EXTENDS Integers

CONSTANTS
  Commands,
  Reviews,   (* the kinds of command that need the user's consent *)
  NoCmd,
  SW_OK, SW_USER_REJECTED

VARIABLES
  up,
  pending,   (* the command being processed               *)
  asking,    (* the user is being asked about it          *)
  status     (* of its answer, 0 while there is none      *)

vars == <<up, pending, asking, status>>

NeedsConsent == pending.ins \in Reviews

Init == /\ up = FALSE
        /\ pending = NoCmd
        /\ asking = FALSE
        /\ status = 0

Start == /\ ~up /\ up'
         /\ UNCHANGED <<pending, asking, status>>

GoDown == /\ up /\ ~up'
          /\ pending' = NoCmd
          /\ asking' = FALSE
          /\ UNCHANGED status

Accept(cmd) == /\ up
               /\ pending = NoCmd /\ pending' = cmd
               /\ status' = 0
               /\ UNCHANGED <<up, asking>>

Ask == /\ pending # NoCmd /\ NeedsConsent
       /\ ~asking /\ asking'
       /\ UNCHANGED <<up, pending, status>>

\* An answer the user was not asked for: a failure, or no secret involved.
Answer == /\ pending # NoCmd /\ ~asking
          /\ pending' = NoCmd
          /\ status' \in Nat \ {0} /\ (NeedsConsent => status' # SW_OK)
          /\ UNCHANGED <<up, asking>>

Decide(yes) == /\ asking /\ ~asking'
               /\ pending' = NoCmd
               /\ status' = IF yes THEN SW_OK ELSE SW_USER_REJECTED
               /\ UNCHANGED up

Next == \/ Start \/ GoDown \/ Ask \/ Answer
        \/ \E cmd \in Commands : Accept(cmd)
        \/ \E yes \in BOOLEAN : Decide(yes)

Spec == Init /\ [][Next]_vars
=============================================================================
