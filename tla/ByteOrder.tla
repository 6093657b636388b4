----------------------------- MODULE ByteOrder -----------------------------
(***************************************************************************)
(* be2le of bip44.c, which le2be calls too: the reversal, in place, of the *)
(* bytes of a number.  Its loop steps both indices twice, so that it swaps *)
(* every other byte of the whole array with its mirror image, and not      *)
(* every byte of the first half.  bip44.c calls it for 32 bytes.           *)
(***************************************************************************)
EXTENDS Integers

CONSTANTS Bytes, Half

\* The length of the array is even.
ASSUME HalfOK == Half \in Nat

Length  == 2 * Half
Indices == 0..(Length - 1)
Mirror(k) == Length - 1 - k

VARIABLES v, i, j, len,
  given   \* the array at the call

vars == <<v, i, j, len, given>>

\* Mutant: the length not halved.
InitWholeLength == /\ given \in [Indices -> Bytes]
                   /\ v = given
                   /\ i = 0 /\ j = Length - 1
                   /\ len = Length

Init == /\ given \in [Indices -> Bytes]
        /\ v = given
        /\ i = 0 /\ j = Length - 1
        /\ len = Half   \* len /= 2

\* Mutants: the count reduced by two, like the indices; v[i] overwritten
\* before it is saved.
SwapCountedTwice ==
  /\ len > 0
  /\ v' = [v EXCEPT ![i] = v[j], ![j] = v[i]]
  /\ i' = i + 2 /\ j' = j - 2 /\ len' = len - 2
  /\ UNCHANGED given
SwapUnsaved ==
  /\ len > 0
  /\ v' = [v EXCEPT ![i] = v[j]]
  /\ i' = i + 2 /\ j' = j - 2 /\ len' = len - 1
  /\ UNCHANGED given

\* The body of the loop, which ends in i++ and j--, and the i++, j--, len--
\* of the for statement.
Swap ==
  /\ len > 0
  /\ v' = [v EXCEPT ![i] = v[j], ![j] = v[i]]
  /\ i' = i + 2 /\ j' = j - 2 /\ len' = len - 1
  /\ UNCHANGED given

Returned == len = 0 /\ UNCHANGED vars

Next == Swap \/ Returned

Spec == Init /\ [][Next]_vars

-----------------------------------------------------------------------------
(* Properties.                                                             *)

\* The types of the array and of the loop's indices.
TypeOK == /\ given \in [Indices -> Bytes] /\ v \in [Indices -> Bytes]
          /\ i \in Nat /\ j \in Int /\ len \in Nat

\* Both indices are inside the array whenever a swap is still to be done.
InArray == len > 0 => i \in Indices /\ j \in Indices

\* At the end every byte has changed places with its mirror image: a big
\* endian number has become the little endian one.
Reversed == len = 0 => \A k \in Indices : v[k] = given[Mirror(k)]
=============================================================================
