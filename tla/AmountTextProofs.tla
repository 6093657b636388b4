-------------------------- MODULE AmountTextProofs --------------------------
(***************************************************************************)
(* format_fpu64 writes the numeral of every amount.  DigitsInv relates the *)
(* buffer to the value in each loop; the number of digits is then found by *)
(* induction over a set of numbers.                                        *)
(***************************************************************************)
EXTENDS AmountText, Arithmetic, TLAPS

-----------------------------------------------------------------------------
(* Powers of ten.                                                          *)

LEMMA PowStep ==
  \A k \in Nat : k < MaxDigits => /\ Pow[k] \in Nat /\ Pow[k + 1] \in Nat
                                  /\ Pow[k + 1] = 10 * Pow[k]
<1>. SUFFICES ASSUME NEW k \in Nat, k < MaxDigits
              PROVE  Pow[k] \in Nat /\ Pow[k + 1] \in Nat /\ Pow[k + 1] = 10 * Pow[k]
  OBVIOUS
<1>1. k \in 0..MaxDigits /\ k + 1 \in 0..MaxDigits /\ k + 1 \in 1..MaxDigits /\ (k + 1) - 1 = k
  BY SizesOK
<1>2. Pow[k] \in Nat /\ Pow[k + 1] \in Nat
  BY <1>1, ValuesOK, Zenon DEF IsPowers
<1>3. Pow[k + 1] = 10 * Pow[(k + 1) - 1]
  BY <1>1, ValuesOK, Zenon DEF IsPowers
<1>. QED
  BY <1>1, <1>2, <1>3

LEMMA PowPositive == \A k \in Nat : k <= MaxDigits => Pow[k] \in Nat /\ Pow[k] > 0
<1>. DEFINE S == {k \in Nat : k <= MaxDigits => Pow[k] \in Nat /\ Pow[k] > 0}
<1>1. 0 \in S
  BY ValuesOK, SizesOK DEF IsPowers
<1>2. \A n \in Nat : n \in S => n + 1 \in S
  BY PowStep, SizesOK
<1>. HIDE DEF S
<1>3. Nat \subseteq S
  BY <1>1, <1>2, SetInduction, Zenon
<1>. QED
  BY <1>3 DEF S

LEMMA PowMonotone ==
  \A a, b \in Nat : a <= b /\ b <= MaxDigits => Pow[a] <= Pow[b]
<1>. SUFFICES ASSUME NEW a \in Nat
              PROVE  \A b \in Nat : a <= b /\ b <= MaxDigits => Pow[a] <= Pow[b]
  OBVIOUS
<1>. DEFINE S == {d \in Nat : a + d <= MaxDigits => Pow[a] <= Pow[a + d]}
<1>1. 0 \in S
  BY PowPositive, SizesOK
<1>2. \A n \in Nat : n \in S => n + 1 \in S
  <2>. SUFFICES ASSUME NEW n \in Nat, n \in S, a + (n + 1) <= MaxDigits
                PROVE  Pow[a] <= Pow[a + (n + 1)]
    OBVIOUS
  <2>1. a + n \in Nat /\ a + n < MaxDigits /\ a + (n + 1) = (a + n) + 1
    BY SizesOK
  <2>2. Pow[a + (n + 1)] = 10 * Pow[a + n] /\ Pow[a + n] \in Nat
    BY <2>1, PowStep
  <2>3. Pow[a] \in Nat /\ Pow[a] <= Pow[a + n]
    BY <2>1, PowPositive, SizesOK
  <2>. QED
    BY <2>2, <2>3
<1>. HIDE DEF S
<1>3. Nat \subseteq S
  BY <1>1, <1>2, SetInduction, Zenon
<1>4. \A d \in Nat : a + d <= MaxDigits => Pow[a] <= Pow[a + d]
  BY <1>3 DEF S
<1>5. ASSUME NEW b \in Nat, a <= b, b <= MaxDigits PROVE Pow[a] <= Pow[b]
  <2>1. b - a \in Nat /\ a + (b - a) = b
    BY <1>5
  <2>. QED
    BY <2>1, <1>4, <1>5
<1>. QED
  BY <1>5

-----------------------------------------------------------------------------
(* The inductive invariant.                                                *)

ValueInv == value \in Nat /\ value < Pow[MaxDigits]

\* Before each turn of the first loop: the i last digits are written, and
\* rest is the number without them.
DigitsInv ==
  stage = "digits" =>
    /\ i \in Nat /\ i < MaxDigits /\ j = 0
    /\ rest = value \div Pow[i] /\ rest < Pow[MaxDigits - i]
    /\ i > 0 => rest > 0
    /\ \A k \in Nat : k < i => buffer[k] = DigitAt(value, k)

\* The number of digits, once they are all written.
Count == i + j + 1

\* Before each turn of the second: outside j..i the digits are in their final
\* places, inside they are still mirrored.
ReverseInv ==
  stage \in {"reverse", "done"} =>
    /\ i \in Int /\ j \in Nat /\ j <= i + 1 /\ Count <= MaxDigits /\ Count > 0
    /\ value < Pow[Count] /\ (Count > 1 => value >= Pow[Count - 1])
    /\ buffer[Count] = Nul
    /\ \A k \in Nat : k < Count =>
         buffer[k] = DigitAt(value, IF k < j \/ k > i THEN Count - 1 - k ELSE k)

TextInv == stage \in {"digits", "reverse"} => \A k \in Nat : k < TextLen => text[k] = Nul

Inv == /\ TypeOK /\ ValueInv /\ DigitsInv /\ ReverseInv /\ TextInv
       /\ stage # "failed" /\ ShowsAmount

LEMMA ZeroedText ==
  \A len \in Nat : /\ Zeroed(len) \in [0..(len - 1) -> Char]
                   /\ \A k \in Nat : k < len => Zeroed(len)[k] = Nul
BY DEF Zeroed, Nul, Char

LEMMA DigitChars == \A n \in Nat : DigitChar(n) \in Char /\ DigitChar(n) # Nul
BY DEF DigitChar, Zero, Char, Nul

LEMMA InvInit == Init => Inv
<1>. SUFFICES ASSUME Init PROVE Inv
  OBVIOUS
<1>1. TypeOK
  <2>1. BufLen \in Nat /\ TextLen \in Nat
    BY SizesOK
  <2>2. Zeroed(BufLen) \in [0..(BufLen - 1) -> Char] /\ Zeroed(TextLen) \in [0..(TextLen - 1) -> Char]
    BY <2>1, ZeroedText, Zenon
  <2>3. value \in Nat /\ rest \in Nat /\ i \in Int /\ j \in Nat
    BY DEF Init
  <2>. QED
    BY <2>2, <2>3, Zenon DEF Init, TypeOK
<1>2. ValueInv
  BY PowPositive, SizesOK DEF Init, ValueInv
<1>. QED
  BY <1>1, <1>2 DEF Init, Inv, DigitsInv, ReverseInv, TextInv, ShowsAmount

LEMMA FormatKeeps ==
  ASSUME Inv, NEW v \in Values, Format(v)
  PROVE  Inv'
<1>1. v \in Nat /\ v < Pow[MaxDigits] /\ v \div 1 = v
  <2>1. v \in Nat /\ v < Pow[MaxDigits]
    BY ValuesOK
  <2>. QED
    BY <2>1
<1>2. TypeOK'
  <2>1. BufLen \in Nat /\ TextLen \in Nat
    BY SizesOK
  <2>2. Zeroed(BufLen) \in [0..(BufLen - 1) -> Char] /\ Zeroed(TextLen) \in [0..(TextLen - 1) -> Char]
    BY <2>1, ZeroedText, Zenon
  <2>3. value' \in Nat /\ rest' \in Nat /\ i' \in Int /\ j' \in Nat
    BY <1>1 DEF Format
  <2>. QED
    BY <2>2, <2>3, Zenon DEF Format, TypeOK
<1>3. ValueInv'
  BY <1>1 DEF ValueInv, Format
<1>4. DigitsInv'
  <2>1. Pow[0] = 1
    BY ValuesOK DEF IsPowers
  <2>. QED
    BY <1>1, <2>1, SizesOK DEF DigitsInv, Format
<1>5. TextInv'
  BY ZeroedText, SizesOK DEF TextInv, Format
<1>6. stage' \notin {"reverse", "done", "failed"}
  BY DEF Format
<1>7. ReverseInv' /\ ShowsAmount'
  BY <1>6, Zenon DEF ReverseInv, ShowsAmount
<1>. QED
  BY <1>2, <1>3, <1>4, <1>5, <1>6, <1>7 DEF Inv

LEMMA NextDigitKeeps ==
  ASSUME Inv, NextDigit
  PROVE  Inv'
<1>. DEFINE p == Pow[i]
<1>1. /\ i \in Nat /\ i < MaxDigits /\ j = 0 /\ value \in Nat /\ value < Pow[MaxDigits]
      /\ rest \in Nat /\ rest > 9 /\ rest = value \div Pow[i] /\ rest < Pow[MaxDigits - i]
      /\ \A k \in Nat : k < i => buffer[k] = DigitAt(value, k)
  BY DEF Inv, TypeOK, ValueInv, DigitsInv, NextDigit
<1>2. i + 1 < MaxDigits
  <2>1. Pow[0] = 1 /\ Pow[1] = 10
    <3>1. Pow[0] = 1
      BY ValuesOK DEF IsPowers
    <3>. QED
      BY <3>1, PowStep, SizesOK
  <2>2. SUFFICES ASSUME MaxDigits - i = 1 PROVE FALSE
    BY <1>1, SizesOK
  <2>. QED
    BY <1>1, <2>1, <2>2
<1>3. i' = i + 1 /\ stage' = "digits" /\ rest' = rest \div 10
  <2>1. ~(i + 2 > BufLen - 1)
    BY <1>1, <1>2, SizesOK
  <2>. QED
    BY <2>1 DEF NextDigit
<1>4. /\ buffer' = [buffer EXCEPT ![i] = DigitChar(rest)]
      /\ UNCHANGED <<value, j, text>>
  BY DEF NextDigit
<1>5. rest' \in Nat /\ rest' > 0 /\ 10 * rest' <= rest
  BY <1>1, <1>3
<1>6. rest' = value \div Pow[i + 1]
  <2>1. p \in Nat /\ p > 0 /\ Pow[i + 1] = 10 * p
    <3>1. i < MaxDigits /\ i <= MaxDigits /\ i \in Nat
      BY <1>1, SizesOK
    <3>2. Pow[i] \in Nat /\ Pow[i] > 0
      BY <3>1, PowPositive, Zenon
    <3>3. Pow[i + 1] = 10 * Pow[i]
      BY <3>1, PowStep, Zenon
    <3>. QED
      BY <3>2, <3>3, Zenon
  <2>. HIDE DEF p
  <2>2. (value \div p) \div 10 = value \div (10 * p)
    BY <1>1, <2>1, DivStep, Zenon
  <2>. QED
    BY <1>1, <1>3, <2>1, <2>2, Zenon DEF p
<1>7. rest' < Pow[MaxDigits - (i + 1)]
  <2>1. MaxDigits - (i + 1) \in Nat /\ MaxDigits - (i + 1) < MaxDigits
        /\ (MaxDigits - (i + 1)) + 1 = MaxDigits - i
    BY <1>1, <1>2, SizesOK
  <2>2. /\ Pow[MaxDigits - (i + 1)] \in Nat
        /\ Pow[MaxDigits - i] = 10 * Pow[MaxDigits - (i + 1)]
    BY <2>1, PowStep
  <2>. QED
    BY <1>1, <1>5, <2>2
<1>8. \A k \in Nat : k < i + 1 => buffer'[k] = DigitAt(value, k)
  <2>1. i \in 0..(BufLen - 1) /\ buffer \in [0..(BufLen - 1) -> Char]
    BY <1>1, SizesOK DEF Inv, TypeOK
  <2>2. buffer'[i] = DigitAt(value, i)
    BY <1>1, <1>4, <2>1 DEF DigitAt
  <2>3. \A k \in Nat : k < i => buffer'[k] = buffer[k]
    BY <1>1, <1>4, <2>1
  <2>. QED
    BY <1>1, <2>2, <2>3
<1>9. TypeOK'
  <2>1. buffer' \in [0..(BufLen - 1) -> Char]
    <3>1. DigitChar(rest) \in Char
      BY <1>1, DigitChars, Zenon
    <3>2. buffer \in [0..(BufLen - 1) -> Char]
      BY DEF Inv, TypeOK
    <3>. QED
      BY <1>4, <3>1, <3>2
  <2>. QED
    BY <1>1, <1>3, <1>4, <1>5, <2>1 DEF Inv, TypeOK
<1>10. DigitsInv'
  BY <1>1, <1>2, <1>3, <1>4, <1>5, <1>6, <1>7, <1>8 DEF DigitsInv
<1>11. ValueInv' /\ TextInv'
  BY <1>3, <1>4 DEF Inv, ValueInv, TextInv, NextDigit
<1>12. stage' \notin {"reverse", "done", "failed"}
  BY <1>3
<1>13. ReverseInv' /\ ShowsAmount'
  BY <1>12, Zenon DEF ReverseInv, ShowsAmount
<1>. QED
  BY <1>9, <1>10, <1>11, <1>12, <1>13 DEF Inv

LEMMA LastDigitKeeps ==
  ASSUME Inv, LastDigit
  PROVE  Inv'
<1>1. /\ i \in Nat /\ i < MaxDigits /\ j = 0 /\ value \in Nat
      /\ rest \in Nat /\ rest <= 9 /\ rest = value \div Pow[i] /\ (i > 0 => rest > 0)
      /\ \A k \in Nat : k < i => buffer[k] = DigitAt(value, k)
  BY DEF Inv, TypeOK, ValueInv, DigitsInv, LastDigit
<1>2. /\ stage' = "reverse" /\ i' = i /\ j' = j /\ value' = value /\ rest' = rest /\ text' = text
      /\ buffer' = [buffer EXCEPT ![i] = DigitChar(rest), ![i + 1] = Nul]
  BY DEF LastDigit
<1>3. value < Pow[i + 1] /\ (i > 0 => value >= Pow[i])
  <2>. DEFINE p == Pow[i]
              b == value % p
  <2>1. p \in Nat /\ p > 0 /\ Pow[i + 1] = 10 * p
    <3>1. i \in Nat /\ i < MaxDigits /\ i <= MaxDigits
      BY <1>1, SizesOK
    <3>2. Pow[i] \in Nat /\ Pow[i] > 0
      BY <3>1, PowPositive, Zenon
    <3>3. Pow[i + 1] = 10 * Pow[i]
      BY <3>1, PowStep, Zenon
    <3>. QED
      BY <3>2, <3>3, Zenon
  <2>. HIDE DEF p
  <2>2. b \in Nat /\ b < p /\ value = p * (value \div p) + b
    BY <1>1, <2>1, Division, Zenon
  <2>3. rest = value \div p
    BY <1>1 DEF p
  <2>. HIDE DEF b
  <2>4. value = p * rest + b
    BY <2>2, <2>3
  <2>5. p * rest <= 9 * p
    BY <1>1, <2>1
  <2>6. rest > 0 => p * rest >= p
    BY <1>1, <2>1
  <2>7. p * rest \in Nat
    BY <1>1, <2>1
  <2>8. value < 10 * p /\ (i > 0 => value >= p)
    BY <1>1, <2>1, <2>2, <2>4, <2>5, <2>6, <2>7
  <2>. QED
    BY <2>1, <2>8, Zenon DEF p
<1>4. i \in 0..(BufLen - 1) /\ i + 1 \in 0..(BufLen - 1)
  BY <1>1, SizesOK
<1>5. buffer \in [0..(BufLen - 1) -> Char]
  BY DEF Inv, TypeOK
<1>6. buffer'[i + 1] = Nul
  BY <1>2, <1>4, <1>5
<1>7. \A k \in Nat : k < i + 1 => buffer'[k] = DigitAt(value, k)
  <2>1. buffer'[i] = DigitAt(value, i)
    BY <1>1, <1>2, <1>4, <1>5 DEF DigitAt
  <2>2. \A k \in Nat : k < i => buffer'[k] = buffer[k]
    <3>1. \A k \in 0..(BufLen - 1) : k # i /\ k # i + 1 => buffer'[k] = buffer[k]
      BY <1>2, <1>5
    <3>2. \A k \in Nat : k < i => k \in 0..(BufLen - 1) /\ k # i /\ k # i + 1
      BY <1>1, SizesOK
    <3>. QED
      BY <3>1, <3>2, Zenon
  <2>. QED
    BY <1>1, <2>1, <2>2
<1>8. TypeOK'
  <2>1. DigitChar(rest) \in Char /\ Nul \in Char
    <3>1. Nul \in Char
      BY DEF Nul, Char
    <3>. QED
      BY <1>1, <3>1, DigitChars, Zenon
  <2>2. buffer' \in [0..(BufLen - 1) -> Char]
    BY <1>2, <1>5, <2>1
  <2>. QED
    BY <1>1, <1>2, <2>2 DEF Inv, TypeOK
<1>9. ReverseInv'
  <2>1. /\ i' \in Int /\ j' \in Nat /\ j' <= i' + 1 /\ Count' = i + 1
        /\ Count' <= MaxDigits /\ Count' > 0
    BY <1>1, <1>2, SizesOK DEF Count
  <2>2. Count' - 1 = i
    BY <1>1, <2>1
  <2>3. value' < Pow[Count'] /\ (Count' > 1 => value' >= Pow[Count' - 1])
    BY <1>1, <1>2, <1>3, <2>1, <2>2
  <2>4. buffer'[Count'] = Nul
    BY <1>6, <2>1
  <2>5. \A k \in Nat : k < Count' =>
          buffer'[k] = DigitAt(value', IF k < j' \/ k > i' THEN Count' - 1 - k ELSE k)
    <3>. SUFFICES ASSUME NEW k \in Nat, k < i + 1
                  PROVE  buffer'[k] = DigitAt(value', IF k < j' \/ k > i' THEN Count' - 1 - k ELSE k)
      BY <2>1
    <3>1. ~(k < j' \/ k > i')
      BY <1>1, <1>2
    <3>2. buffer'[k] = DigitAt(value, k) /\ value' = value
      BY <1>2, <1>7
    <3>. QED
      BY <3>1, <3>2, Zenon
  <2>. QED
    BY <2>1, <2>3, <2>4, <2>5 DEF ReverseInv
<1>10. ValueInv' /\ TextInv'
  BY <1>2 DEF Inv, ValueInv, TextInv, LastDigit
<1>11. DigitsInv' /\ ShowsAmount' /\ stage' # "failed"
  BY <1>2 DEF DigitsInv, ShowsAmount
<1>. QED
  BY <1>8, <1>9, <1>10, <1>11 DEF Inv

LEMMA SwapDigitsKeeps ==
  ASSUME Inv, SwapDigits
  PROVE  Inv'
<1>1. /\ i \in Int /\ j \in Nat /\ j < i /\ i + j + 1 <= MaxDigits /\ value \in Nat
      /\ value < Pow[Count] /\ (Count > 1 => value >= Pow[Count - 1])
      /\ buffer[Count] = Nul
      /\ \A k \in Nat : k < Count =>
           buffer[k] = DigitAt(value, IF k < j \/ k > i THEN Count - 1 - k ELSE k)
  BY DEF Inv, TypeOK, ReverseInv, SwapDigits, Count
<1>2. /\ stage' = "reverse" /\ i' = i - 1 /\ j' = j + 1
      /\ value' = value /\ rest' = rest /\ text' = text
      /\ buffer' = [buffer EXCEPT ![j] = buffer[i], ![i] = buffer[j]]
  BY DEF SwapDigits
<1>3. Count' = Count /\ Count = i + j + 1 /\ Count \in Nat
  BY <1>1, <1>2 DEF Count
<1>4. i \in 0..(BufLen - 1) /\ j \in 0..(BufLen - 1) /\ i # j /\ Count # i /\ Count # j
      /\ Count \in 0..(BufLen - 1)
  BY <1>1, <1>3, SizesOK
<1>5. buffer \in [0..(BufLen - 1) -> Char]
  BY DEF Inv, TypeOK
<1>6. /\ buffer'[j] = buffer[i] /\ buffer'[i] = buffer[j] /\ buffer'[Count] = Nul
      /\ \A k \in Nat : k < Count /\ k # i /\ k # j => buffer'[k] = buffer[k]
  <2>1. buffer'[j] = buffer[i] /\ buffer'[i] = buffer[j]
    BY <1>2, <1>4, <1>5
  <2>2. buffer'[Count] = Nul
    BY <1>1, <1>2, <1>4, <1>5
  <2>3. \A k \in 0..(BufLen - 1) : k # i /\ k # j => buffer'[k] = buffer[k]
    BY <1>2, <1>4, <1>5
  <2>4. \A k \in Nat : k < Count => k \in 0..(BufLen - 1)
    BY <1>4, SizesOK
  <2>. QED
    BY <2>1, <2>2, <2>3, <2>4, Zenon
<1>7. TypeOK'
  <2>1. buffer[i] \in Char /\ buffer[j] \in Char
    BY <1>4, <1>5
  <2>2. buffer' \in [0..(BufLen - 1) -> Char]
    BY <1>2, <1>5, <2>1
  <2>. QED
    BY <1>1, <1>2, <2>2 DEF Inv, TypeOK
<1>8. \A k \in Nat : k < Count =>
        buffer'[k] = DigitAt(value, IF k < j + 1 \/ k > i - 1 THEN Count - 1 - k ELSE k)
  <2>. SUFFICES ASSUME NEW k \in Nat, k < Count
                PROVE  buffer'[k] = DigitAt(value, IF k < j + 1 \/ k > i - 1 THEN Count - 1 - k ELSE k)
    OBVIOUS
  <2>1. CASE k = j
    <3>1. i \in Nat /\ i < Count /\ ~(i < j \/ i > i)
      BY <1>1, <1>3
    <3>2. buffer[i] = DigitAt(value, i)
      BY <1>1, <3>1
    <3>3. Count - 1 - k = i /\ k < j + 1
      BY <1>1, <1>3, <2>1
    <3>. QED
      BY <1>6, <2>1, <3>2, <3>3
  <2>2. CASE k = i
    <3>1. j \in Nat /\ j < Count /\ ~(j < j \/ j > i)
      BY <1>1, <1>3
    <3>2. buffer[j] = DigitAt(value, j)
      BY <1>1, <3>1
    <3>3. Count - 1 - k = j /\ k > i - 1
      BY <1>1, <1>3, <2>2
    <3>. QED
      BY <1>6, <2>2, <3>2, <3>3
  <2>3. CASE k # i /\ k # j
    <3>1. buffer'[k] = DigitAt(value, IF k < j \/ k > i THEN Count - 1 - k ELSE k)
      BY <1>1, <1>6, <2>3
    <3>2. (k < j \/ k > i) <=> (k < j + 1 \/ k > i - 1)
      BY <1>1, <2>3
    <3>. QED
      BY <3>1, <3>2, Zenon
  <2>. QED
    BY <2>1, <2>2, <2>3
<1>9. ReverseInv'
  <2>1. /\ i' \in Int /\ j' \in Nat /\ j' <= i' + 1 /\ Count' <= MaxDigits /\ Count' > 0
    BY <1>1, <1>2, <1>3
  <2>2. value' < Pow[Count'] /\ (Count' > 1 => value' >= Pow[Count' - 1]) /\ buffer'[Count'] = Nul
    BY <1>1, <1>2, <1>3, <1>6
  <2>3. \A k \in Nat : k < Count' =>
          buffer'[k] = DigitAt(value', IF k < j' \/ k > i' THEN Count' - 1 - k ELSE k)
    BY <1>2, <1>3, <1>8
  <2>. QED
    BY <2>1, <2>2, <2>3, Zenon DEF ReverseInv
<1>10. ValueInv' /\ TextInv'
  BY <1>2 DEF Inv, ValueInv, TextInv, SwapDigits
<1>11. DigitsInv' /\ ShowsAmount' /\ stage' # "failed"
  BY <1>2 DEF DigitsInv, ShowsAmount
<1>. QED
  BY <1>7, <1>9, <1>10, <1>11 DEF Inv

\* strlen stops at the first Nul, which is behind the last digit.
LEMMA AllDigits ==
  ASSUME Inv, PlacePoint
  PROVE  /\ Count \in Nat /\ Count > 0 /\ Count <= MaxDigits /\ Digits = Count
         /\ \A k \in Nat : k < Count => buffer[k] = DigitAt(value, Count - 1 - k)
<1>1. /\ i \in Int /\ j \in Nat /\ j >= i /\ j <= i + 1
      /\ Count \in Nat /\ Count > 0 /\ Count <= MaxDigits
      /\ value \in Nat /\ buffer[Count] = Nul
      /\ \A k \in Nat : k < Count =>
           buffer[k] = DigitAt(value, IF k < j \/ k > i THEN Count - 1 - k ELSE k)
  BY DEF Inv, TypeOK, ReverseInv, PlacePoint, Count
<1>2. \A k \in Nat : k < Count => buffer[k] = DigitAt(value, Count - 1 - k)
  <2>. SUFFICES ASSUME NEW k \in Nat, k < Count
                PROVE  buffer[k] = DigitAt(value, Count - 1 - k)
    OBVIOUS
  <2>1. (IF k < j \/ k > i THEN Count - 1 - k ELSE k) = Count - 1 - k
    BY <1>1 DEF Count
  <2>. QED
    BY <1>1, <2>1
<1>3. \A k \in Nat : k < Count => buffer[k] # Nul
  <2>. SUFFICES ASSUME NEW k \in Nat, k < Count
                PROVE  buffer[k] # Nul
    OBVIOUS
  <2>1. buffer[k] = DigitAt(value, Count - 1 - k)
    BY <1>2
  <2>2. Count - 1 - k \in Nat /\ Count - 1 - k <= MaxDigits
    BY <1>1, SizesOK
  <2>3. Pow[Count - 1 - k] \in Nat /\ Pow[Count - 1 - k] > 0
    BY <2>2, PowPositive, Zenon
  <2>4. value \div Pow[Count - 1 - k] \in Nat
    BY <1>1, <2>3, Division, Zenon
  <2>. QED
    BY <2>1, <2>4, DigitChars, Zenon DEF DigitAt
<1>4. Digits = Count
  <2>. DEFINE Ends(n) == buffer[n] = Nul /\ \A k \in 0..(n - 1) : buffer[k] # Nul
  <2>1. Count \in 0..(BufLen - 1)
    BY <1>1, SizesOK
  <2>2. Ends(Count)
    <3>1. \A k \in 0..(Count - 1) : k \in Nat /\ k < Count
      BY <1>1
    <3>. QED
      BY <1>1, <1>3, <3>1, Zenon
  <2>3. ASSUME NEW n \in 0..(BufLen - 1), Ends(n)
        PROVE  n = Count
    <3>1. n \in Nat
      BY <2>3
    <3>2. ~(n < Count)
      BY <1>3, <2>3, <3>1, Zenon
    <3>3. ~(Count < n)
      <4>1. Count < n => Count \in 0..(n - 1)
        BY <1>1, <3>1
      <4>. QED
        BY <1>1, <2>3, <4>1, Zenon
    <3>. QED
      BY <1>1, <3>1, <3>2, <3>3
  <2>. HIDE DEF Ends
  <2>4. (CHOOSE n \in 0..(BufLen - 1) : Ends(n)) = Count
    BY <2>1, <2>2, <2>3
  <2>. QED
    BY <2>4 DEF Digits, Ends
<1>. QED
  BY <1>1, <1>2, <1>4

\* Above the highest digit there are only zeros.
LEMMA NoDigit ==
  ASSUME NEW v \in Nat, NEW c \in Nat, NEW e \in Nat, c <= e, e <= MaxDigits, v < Pow[c]
  PROVE  DigitAt(v, e) = Zero
<1>1. Pow[e] \in Nat /\ Pow[e] > 0
  BY PowPositive, Zenon
<1>2. Pow[c] \in Nat
  <2>1. c <= MaxDigits
    BY SizesOK
  <2>. QED
    BY <2>1, PowPositive, Zenon
<1>3. Pow[c] <= Pow[e]
  BY PowMonotone, Zenon
<1>4. v < Pow[e]
  BY <1>1, <1>2, <1>3
<1>5. v \div Pow[e] = 0
  <2>1. v = Pow[e] * 0 + v
    BY <1>1
  <2>. QED
    BY <1>1, <1>4, <2>1, Quotient
<1>. QED
  BY <1>5 DEF DigitAt, DigitChar, Zero

LEMMA BelowOneShows ==
  ASSUME Inv, PlacePoint, Digits <= Decimals
  PROVE  BelowOne \in [0..(TextLen - 1) -> Char] /\ Denotes(BelowOne, value)
<1>1. /\ Count \in Nat /\ Count > 0 /\ Count <= Decimals /\ Digits = Count /\ Decimals \in Nat
      /\ \A k \in Nat : k < Count => buffer[k] = DigitAt(value, Count - 1 - k)
  BY AllDigits, SizesOK
<1>2. value \in Nat /\ value < Pow[Count]
  BY DEF Inv, TypeOK, ReverseInv, PlacePoint
<1>. DEFINE lead == 2 + Decimals - Count
<1>3. lead \in Nat /\ lead >= 2 /\ lead <= Decimals + 1 /\ lead + Count = Decimals + 2
      /\ Decimals + 2 < TextLen /\ TextLen \in Nat
  BY <1>1, SizesOK
<1>4. \A k \in Nat : k < TextLen =>
        BelowOne[k] = IF k = 1 THEN Point
                      ELSE IF k < lead THEN Zero
                      ELSE IF k - lead < Count THEN buffer[k - lead] ELSE Nul
  BY <1>1, <1>3 DEF BelowOne
<1>. HIDE DEF lead
<1>5. BelowOne \in [0..(TextLen - 1) -> Char]
  <2>1. buffer \in [0..(BufLen - 1) -> Char] /\ Point \in Char /\ Zero \in Char /\ Nul \in Char
    BY DEF Inv, TypeOK, Char, Point, Zero, Nul
  <2>2. \A k \in 0..(TextLen - 1) : ~(k < lead) /\ k - lead < Count => k - lead \in 0..(BufLen - 1)
    BY <1>1, <1>3, SizesOK
  <2>. HIDE DEF lead
  <2>3. \A k \in 0..(TextLen - 1) :
          (IF k = 1 THEN Point
           ELSE IF k < lead THEN Zero
           ELSE IF k - lead < Count THEN buffer[k - lead] ELSE Nul) \in Char
    BY <2>1, <2>2
  <2>. QED
    BY <1>1, <2>3, Zenon DEF BelowOne, lead
<1>6. BelowOne[1] = Point
  BY <1>1, <1>3, <1>4
<1>7. BelowOne[1 + Decimals + 1] = Nul
  BY <1>1, <1>3, <1>4
<1>8. \A k \in 0..(1 - 1) : BelowOne[k] = DigitAt(value, Decimals + 1 - 1 - k)
  <2>1. BelowOne[0] = Zero
    BY <1>1, <1>3, <1>4
  <2>2. DigitAt(value, Decimals) = Zero
    BY <1>1, <1>2, SizesOK, NoDigit
  <2>3. \A k \in 0..(1 - 1) : k = 0 /\ Decimals + 1 - 1 - k = Decimals
    BY <1>1
  <2>. QED
    BY <2>1, <2>2, <2>3, Zenon
<1>9. \A k \in 1..Decimals : BelowOne[1 + k] = DigitAt(value, Decimals - k)
  <2>. SUFFICES ASSUME NEW k \in Nat, k >= 1, k <= Decimals
                PROVE  BelowOne[1 + k] = DigitAt(value, Decimals - k)
    BY <1>1
  <2>1. k \in Nat /\ k >= 1 /\ k <= Decimals /\ 1 + k < TextLen /\ 1 + k # 1 /\ Decimals - k \in Nat
    BY <1>1, <1>3
  <2>2. CASE 1 + k < lead
    <3>1. BelowOne[1 + k] = Zero
      BY <1>4, <2>1, <2>2
    <3>2. Count <= Decimals - k /\ Decimals - k <= MaxDigits
      BY <1>1, <1>3, <2>1, <2>2, SizesOK
    <3>3. DigitAt(value, Decimals - k) = Zero
      BY <1>1, <1>2, <2>1, <3>2, NoDigit, Zenon
    <3>. QED
      BY <3>1, <3>3
  <2>3. CASE ~(1 + k < lead)
    <3>1. 1 + k - lead \in Nat /\ 1 + k - lead < Count /\ Count - 1 - (1 + k - lead) = Decimals - k
      BY <1>1, <1>3, <2>1, <2>3
    <3>2. BelowOne[1 + k] = buffer[1 + k - lead]
      BY <1>1, <1>3, <1>4, <2>1, <2>3, <3>1
    <3>. QED
      BY <1>1, <3>1, <3>2
  <2>. QED
    BY <2>2, <2>3
<1>10. value < Pow[Decimals + 1]
  <2>1. Count <= Decimals + 1 /\ Decimals + 1 <= MaxDigits /\ Decimals + 1 \in Nat /\ Count <= MaxDigits
    BY <1>1, SizesOK
  <2>2. Pow[Count] <= Pow[Decimals + 1] /\ Pow[Count] \in Nat /\ Pow[Decimals + 1] \in Nat
    BY <1>1, <2>1, PowMonotone, PowPositive, Zenon
  <2>. QED
    BY <1>2, <2>2
<1>11. IsNumeral(BelowOne, value, 1)
  BY <1>6, <1>7, <1>8, <1>9, <1>10 DEF IsNumeral
<1>12. 1 \in 1..(MaxDigits - Decimals)
  BY SizesOK
<1>. QED
  BY <1>5, <1>11, <1>12, Zenon DEF Denotes

LEMMA AboveOneShows ==
  ASSUME Inv, PlacePoint, Digits > Decimals
  PROVE  AboveOne \in [0..(TextLen - 1) -> Char] /\ Denotes(AboveOne, value)
<1>1. /\ Count \in Nat /\ Count <= MaxDigits /\ Digits = Count /\ Decimals \in Nat /\ Count > Decimals
      /\ \A k \in Nat : k < Count => buffer[k] = DigitAt(value, Count - 1 - k)
  BY AllDigits, SizesOK
<1>2. value \in Nat /\ value < Pow[Count] /\ (Count > 1 => value >= Pow[Count - 1])
  BY DEF Inv, TypeOK, ReverseInv, PlacePoint
<1>. DEFINE p == Count - Decimals
<1>3. p \in Nat /\ p >= 1 /\ p <= MaxDigits - Decimals /\ p + Decimals = Count
      /\ Count + 1 < TextLen /\ TextLen \in Nat
  BY <1>1, SizesOK
<1>4. \A k \in Nat : k < TextLen =>
        AboveOne[k] = IF k < p THEN buffer[k]
                      ELSE IF k = p THEN Point
                      ELSE IF k <= Count THEN buffer[k - 1] ELSE text[k]
  BY <1>1, <1>3 DEF AboveOne
<1>5. AboveOne \in [0..(TextLen - 1) -> Char]
  <2>1. /\ buffer \in [0..(BufLen - 1) -> Char] /\ Point \in Char
        /\ text \in [0..(TextLen - 1) -> Char]
    <3>1. Point \in Char
      BY DEF Char, Point
    <3>. QED
      BY <3>1 DEF Inv, TypeOK
  <2>2. \A k \in 0..(TextLen - 1) :
          /\ k < p => k \in 0..(BufLen - 1)
          /\ ~(k < p) /\ k # p /\ k <= p + Decimals => k - 1 \in 0..(BufLen - 1)
    BY <1>1, <1>3, SizesOK
  <2>. HIDE DEF p
  <2>3. \A k \in 0..(TextLen - 1) :
          (IF k < p THEN buffer[k]
           ELSE IF k = p THEN Point
           ELSE IF k <= p + Decimals THEN buffer[k - 1] ELSE text[k]) \in Char
    BY <2>1, <2>2
  <2>. QED
    BY <1>1, <2>3, Zenon DEF AboveOne, p
<1>. HIDE DEF p
<1>6. AboveOne[p] = Point
  BY <1>1, <1>3, <1>4
<1>7. AboveOne[p + Decimals + 1] = Nul
  <2>1. text[Count + 1] = Nul
    BY <1>1, <1>3 DEF Inv, TextInv, PlacePoint
  <2>. QED
    BY <1>1, <1>3, <1>4, <2>1
<1>8. \A k \in 0..(p - 1) : AboveOne[k] = DigitAt(value, Decimals + p - 1 - k)
  <2>. SUFFICES ASSUME NEW k \in Nat, k < p
                PROVE  AboveOne[k] = DigitAt(value, Decimals + p - 1 - k)
    BY <1>3
  <2>1. k \in Nat /\ k < p /\ k < Count /\ k < TextLen /\ Count - 1 - k = Decimals + p - 1 - k
    BY <1>1, <1>3
  <2>2. AboveOne[k] = buffer[k]
    BY <1>4, <2>1
  <2>. QED
    BY <1>1, <2>1, <2>2
<1>9. \A k \in 1..Decimals : AboveOne[p + k] = DigitAt(value, Decimals - k)
  <2>. SUFFICES ASSUME NEW k \in Nat, k >= 1, k <= Decimals
                PROVE  AboveOne[p + k] = DigitAt(value, Decimals - k)
    BY <1>1
  <2>1. /\ p + k \in Nat /\ ~(p + k < p) /\ p + k # p /\ p + k <= Count /\ p + k < TextLen
        /\ p + k - 1 \in Nat /\ p + k - 1 < Count /\ Count - 1 - (p + k - 1) = Decimals - k
    BY <1>1, <1>3
  <2>2. AboveOne[p + k] = buffer[p + k - 1]
    BY <1>1, <1>3, <1>4, <2>1
  <2>. QED
    BY <1>1, <2>1, <2>2
<1>10. value < Pow[Decimals + p] /\ (p > 1 => value >= Pow[Decimals + p - 1])
  <2>1. Decimals + p = Count /\ (p > 1 => Count > 1) /\ Decimals + p - 1 = Count - 1
    BY <1>1, <1>3
  <2>. QED
    BY <1>2, <2>1
<1>11. IsNumeral(AboveOne, value, p)
  BY <1>6, <1>7, <1>8, <1>9, <1>10 DEF IsNumeral
<1>12. p \in 1..(MaxDigits - Decimals)
  BY <1>3, SizesOK
<1>. QED
  BY <1>5, <1>11, <1>12, Zenon DEF Denotes

LEMMA PlacePointKeeps ==
  ASSUME Inv, PlacePoint
  PROVE  Inv'
<1>1. /\ Count \in Nat /\ Count > 0 /\ Count <= MaxDigits /\ Digits = Count
  BY AllDigits
<1>2. ~(TextLen <= Needed)
  BY <1>1, SizesOK DEF Needed
<1>3. /\ stage' = "done"
      /\ text' = IF Digits <= Decimals THEN BelowOne ELSE AboveOne
      /\ UNCHANGED <<value, rest, i, j, buffer>>
  BY <1>2 DEF PlacePoint
<1>4. text' \in [0..(TextLen - 1) -> Char] /\ Denotes(text', value)
  <2>1. Digits <= Decimals \/ Digits > Decimals
    BY <1>1, SizesOK
  <2>. QED
    BY <1>1, <1>3, <2>1, SizesOK, BelowOneShows, AboveOneShows
<1>5. TypeOK'
  BY <1>3, <1>4 DEF Inv, TypeOK
<1>6. ReverseInv'
  BY <1>3 DEF Inv, ReverseInv, PlacePoint, Count
<1>7. ShowsAmount'
  BY <1>3, <1>4 DEF ShowsAmount
<1>8. ValueInv' /\ TextInv' /\ DigitsInv' /\ stage' # "failed"
  BY <1>3 DEF Inv, ValueInv, TextInv, DigitsInv
<1>. QED
  BY <1>5, <1>6, <1>7, <1>8 DEF Inv

LEMMA InvStep == Inv /\ [Next]_formatVars => Inv'
<1>. SUFFICES ASSUME Inv, [Next]_formatVars PROVE Inv'
  OBVIOUS
<1>1. ASSUME NEW v \in Values, Format(v) PROVE Inv'
  BY <1>1, FormatKeeps
<1>2. CASE NextDigit
  BY <1>2, NextDigitKeeps
<1>3. CASE LastDigit
  BY <1>3, LastDigitKeeps
<1>4. CASE SwapDigits
  BY <1>4, SwapDigitsKeeps
<1>5. CASE PlacePoint
  BY <1>5, PlacePointKeeps
<1>6. CASE UNCHANGED formatVars
  BY <1>6 DEF formatVars, Inv, TypeOK, ValueInv, DigitsInv, ReverseInv, Count, TextInv,
              ShowsAmount, Denotes, IsNumeral
<1>. QED
  BY <1>1, <1>2, <1>3, <1>4, <1>5, <1>6 DEF Next, FormatStep

\* The types of the locals, whatever the amount.
THEOREM AmountTypes == Spec => []TypeOK
<1>1. Inv => TypeOK
  BY DEF Inv
<1>. QED
  BY <1>1, InvInit, InvStep, PTL DEF Spec

\* Neither buffer is ever too small: format_u64 and format_fpu64 return true
\* for every amount below 10^MaxDigits.
THEOREM AmountFits == Spec => []AlwaysFits
<1>1. Inv => AlwaysFits
  <2>. SUFFICES ASSUME Inv PROVE AlwaysFits
    OBVIOUS
  <2>1. stage # "failed"
    BY DEF Inv
  <2>2. stage = "digits" => i + 1 < BufLen
    BY SizesOK DEF Inv, DigitsInv
  <2>3. stage = "reverse" => i < BufLen
    BY SizesOK DEF Inv, TypeOK, ReverseInv, Count
  <2>. QED
    BY <2>1, <2>2, <2>3, Zenon DEF AlwaysFits
<1>. QED
  BY <1>1, InvInit, InvStep, PTL DEF Spec

\* The text is the numeral of the amount, for every number of digits,
\* decimals and size of the buffers that SizesOK allows.
THEOREM AmountShown == Spec => []ShowsAmount
<1>1. Inv => ShowsAmount
  BY DEF Inv
<1>. QED
  BY <1>1, InvInit, InvStep, PTL DEF Spec
=============================================================================
