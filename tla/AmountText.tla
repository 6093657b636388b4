----------------------------- MODULE AmountText -----------------------------
(***************************************************************************)
(* format_fpu64 and the format_u64 it calls (common/format.c): an amount   *)
(* as the text of the sign review.  handleSignHash passes an 8-byte        *)
(* number, 8 decimals and a zeroed buffer of 30 characters, and does not   *)
(* look at what format_fpu64 returns.                                      *)
(*                                                                         *)
(* One turn of a loop of the code is one action.  Characters are ASCII     *)
(* codes.                                                                  *)
(***************************************************************************)
EXTENDS Integers

CONSTANTS
  Values,     (* the amounts, in the smallest unit                          *)
  MaxDigits,  (* 20: no uint64_t has more decimal digits                    *)
  Decimals,   (* 8                                                          *)
  BufLen,     (* sizeof(buffer) in format_fpu64: 21                         *)
  TextLen,    (* sizeof(test_g) in handleSignHash: 30                       *)
  Pow         (* Pow[k]: the k-th power of ten                              *)

IsPowers == /\ Pow \in [0..MaxDigits -> Nat] /\ Pow[0] = 1
            /\ \A k \in 1..MaxDigits : Pow[k] = 10 * Pow[k - 1]

\* The two lengths are what the code has: 21 > 20 and 30 > 20 + 1 + 8.
ASSUME SizesOK ==
  /\ MaxDigits \in Nat /\ Decimals \in Nat /\ Decimals < MaxDigits
  /\ BufLen \in Nat /\ BufLen > MaxDigits
  /\ TextLen \in Nat /\ TextLen > MaxDigits + 1 + Decimals

ASSUME ValuesOK == IsPowers /\ Values \subseteq Nat /\ \A v \in Values : v < Pow[MaxDigits]

VARIABLES
  stage,      (* where format_fpu64 is                                      *)
  value,      (* its argument                                               *)
  rest,       (* format_u64: in,                                            *)
  i, j,       (*   the two indices,                                         *)
  buffer,     (*   and out, which is buffer in format_fpu64                 *)
  text        (* dst                                                        *)

formatVars == <<stage, value, rest, i, j, buffer, text>>

Char  == 0..255
Nul   == 0
Zero  == 48
Point == 46
Zeroed(len) == [k \in 0..(len - 1) |-> Nul]

Init == /\ stage = "idle"
        /\ value = 0 /\ rest = 0 /\ i = 0 /\ j = 0
        /\ buffer = Zeroed(BufLen) /\ text = Zeroed(TextLen)

Idle == stage \in {"idle", "done", "failed"}

\* The call, with both buffers zeroed by their initialisers.
Format(v) == /\ Idle
             /\ stage' = "digits"
             /\ value' = v /\ rest' = v /\ i' = 0 /\ j' = 0
             /\ buffer' = Zeroed(BufLen) /\ text' = Zeroed(TextLen)

DigitChar(n) == Zero + (n % 10)

\* Mutant: the buffer taken to be full one character too early.
NextDigitEarly ==
  /\ stage = "digits" /\ rest > 9
  /\ buffer' = [buffer EXCEPT ![i] = DigitChar(rest)]
  /\ rest' = rest \div 10
  /\ i' = i + 1
  /\ stage' = IF i + 3 > BufLen - 1 THEN "failed" ELSE "digits"
  /\ UNCHANGED <<value, j, text>>

\* The digits from the last one on.  The test is i + 1 > outLen with the
\* incremented i and the decremented outLen.
NextDigit ==
  /\ stage = "digits" /\ rest > 9
  /\ buffer' = [buffer EXCEPT ![i] = DigitChar(rest)]
  /\ rest' = rest \div 10
  /\ i' = i + 1
  /\ stage' = IF i + 2 > BufLen - 1 THEN "failed" ELSE "digits"
  /\ UNCHANGED <<value, j, text>>

LastDigit ==
  /\ stage = "digits" /\ rest <= 9
  /\ buffer' = [buffer EXCEPT ![i] = DigitChar(rest), ![i + 1] = Nul]
  /\ stage' = "reverse"
  /\ UNCHANGED <<value, rest, i, j, text>>

SwapDigits ==
  /\ stage = "reverse" /\ j < i
  /\ buffer' = [buffer EXCEPT ![j] = buffer[i], ![i] = buffer[j]]
  /\ i' = i - 1 /\ j' = j + 1
  /\ UNCHANGED <<stage, value, rest, text>>

\* strlen(buffer)
Digits == CHOOSE n \in 0..(BufLen - 1) : buffer[n] = Nul /\ \A k \in 0..(n - 1) : buffer[k] # Nul

\* A number below one: "0.", zeros, and the digits; strncpy pads with Nul.
BelowOne ==
  LET lead == 2 + Decimals - Digits
  IN  [k \in 0..(TextLen - 1) |->
         IF k = 1 THEN Point
         ELSE IF k < lead THEN Zero
         ELSE IF k - lead < Digits THEN buffer[k - lead] ELSE Nul]

\* The point goes in between; what follows the decimals is left as it was.
AboveOne ==
  LET shift == Digits - Decimals
  IN  [k \in 0..(TextLen - 1) |->
         IF k < shift THEN buffer[k]
         ELSE IF k = shift THEN Point
         ELSE IF k <= shift + Decimals THEN buffer[k - 1] ELSE text[k]]

\* What the tests of dst_len compare it with.
Needed == IF Digits <= Decimals THEN 2 + Decimals - Digits ELSE Digits + 1 + Decimals

\* Mutant: as many digits as decimals are taken for a number above one.
PlacePointStrict ==
  /\ stage = "reverse" /\ j >= i
  /\ stage' = "done"
  /\ text' = IF Digits < Decimals THEN BelowOne ELSE AboveOne
  /\ UNCHANGED <<value, rest, i, j, buffer>>

\* The rest of format_fpu64.
PlacePoint ==
  /\ stage = "reverse" /\ j >= i
  /\ IF TextLen <= Needed
       THEN stage' = "failed" /\ UNCHANGED text
       ELSE stage' = "done" /\ text' = IF Digits <= Decimals THEN BelowOne ELSE AboveOne
  /\ UNCHANGED <<value, rest, i, j, buffer>>

FormatStep == NextDigit \/ LastDigit \/ SwapDigits \/ PlacePoint

Next == (\E v \in Values : Format(v)) \/ FormatStep

Spec == Init /\ [][Next]_formatVars

-----------------------------------------------------------------------------
(* Properties.                                                             *)

\* The types of format_fpu64's and format_u64's locals.
TypeOK == /\ stage \in {"idle", "digits", "reverse", "done", "failed"}
          /\ value \in Nat /\ rest \in Nat /\ i \in Int /\ j \in Nat
          /\ buffer \in [0..(BufLen - 1) -> Char]
          /\ text \in [0..(TextLen - 1) -> Char]

\* No amount is refused and none is written past the end of the 21
\* characters: the user is never asked to approve a blank amount.
AlwaysFits == /\ stage # "failed"
              /\ stage = "digits" => i + 1 < BufLen
              /\ stage = "reverse" => i < BufLen

DigitAt(v, e) == DigitChar(v \div Pow[e])

\* A text is the decimal numeral of v with its point before the Decimals last
\* digits, at place p: no digit is missing, none is put in front of the first
\* but a single zero, and the text ends there.
IsNumeral(t, v, p) ==
  /\ t[p] = Point /\ t[p + Decimals + 1] = Nul
  /\ \A k \in 0..(p - 1) : t[k] = DigitAt(v, Decimals + p - 1 - k)
  /\ \A k \in 1..Decimals : t[p + k] = DigitAt(v, Decimals - k)
  /\ v < Pow[Decimals + p]
  /\ p > 1 => v >= Pow[Decimals + p - 1]

Denotes(t, v) == \E p \in 1..(MaxDigits - Decimals) : IsNumeral(t, v, p)

\* What format_fpu64 leaves in dst is the amount it was given, whatever the
\* number of its digits.
ShowsAmount == stage = "done" => Denotes(text, value)
=============================================================================
