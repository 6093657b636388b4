------------------------ MODULE DerivationPathProofs ------------------------
(***************************************************************************)
(* No path selects the seed of the device: every character adds at most 9  *)
(* to the account, because its digits are added up and not shifted, so     *)
(* that a path that fits the buffer stays far below 0xffff.                *)
(*                                                                         *)
(* And the loop computes what the text says, read character by character:  *)
(* after x characters ix is twice the number of separators behind the      *)
(* first, and the numbers are those of the first x characters.  That the   *)
(* recursive function of the reading exists is proved first.               *)
(***************************************************************************)
EXTENDS DerivationPath, FiniteSetTheorems, Arithmetic, TLAPS

\* The separators count by two: ix = 1, the branch that would shift the
\* account's digits, is never reached.
Inv == /\ TypeOK
       /\ ix % 2 = 0
       /\ x >= 2 /\ x - 2 <= MaxLen
       /\ account <= 9 * (x - 2)

LEMMA Mod ==
  ASSUME NEW n \in Nat, NEW w \in Nat, w > 0
  PROVE  n % w \in Nat /\ (n < w => n % w = n)
OBVIOUS

LEMMA WordPositive == Word \in Nat /\ Word > 0 /\ DeviceAccount < Word
BY PathsOK DEF PathsOK

\* A digit is read at a position of the path, and is at most 9.
LEMMA DigitRange ==
  ASSUME TypeOK, Scanning, Char(x) \in Digits
  PROVE  Digit \in 0..9
BY DEF Digit, Digits

LEMMA ElementOf ==
  ASSUME NEW S, NEW text \in Seq(S), NEW k \in 1..Len(text)
  PROVE  text[k] \in S
OBVIOUS

\* What is copied of a text is as long as the text.
LEMMA CopyType ==
  ASSUME NEW copy \in Copies
  PROVE  copy \in Seq(0..255) /\ Len(copy) \in Nat /\ Len(copy) <= MaxLen
<1>1. PICK text \in Paths : copy = Copied(text)
  BY DEF Copies
<1>2. text \in Seq(0..255) /\ Len(text) \in Nat /\ Len(text) <= MaxLen
  BY <1>1, PathsOK DEF PathsOK
<1>. DEFINE size == Len(text)
            Copy(k) == IF \E j \in 1..k : text[j] = 0 THEN 0 ELSE text[k]
<1>3. \A k \in 1..size : text[k] \in 0..255
  <2>. SUFFICES ASSUME NEW k \in 1..size PROVE text[k] \in 0..255
    OBVIOUS
  <2>1. text \in Seq(0..255)
    BY <1>2
  <2>2. k \in 1..Len(text)
    OBVIOUS
  <2>. QED
    BY <2>1, <2>2, ElementOf
<1>4. \A k \in 1..size : Copy(k) \in 0..255
  BY <1>3, <1>2
<1>5. copy = [k \in 1..size |-> Copy(k)]
  BY <1>1 DEF Copied
<1>. HIDE DEF size, Copy
<1>6. copy \in [1..size -> 0..255]
  BY <1>4, <1>5
<1>7. size \in Nat /\ size <= MaxLen
  BY <1>2 DEF size
<1>8. DOMAIN copy = 1..size
  BY <1>6
<1>. QED
  BY <1>6, <1>7, <1>8

LEMMA InBuffer ==
  ASSUME TypeOK, Scanning
  PROVE  x < MaxLen
<1>1. path \in Seq(0..255) /\ Len(path) <= MaxLen /\ MaxLen \in Nat
  BY CopyType, PathsOK DEF PathsOK, TypeOK
<1>. QED
  BY <1>1 DEF Scanning, TypeOK

LEMMA InvInit == Init => Inv
BY PathsOK DEF PathsOK, Init, Inv, TypeOK

LEMMA ReadKeeps ==
  ASSUME Inv, ReadDigit
  PROVE  Inv'
<1>1. Scanning /\ Char(x) \in Digits /\ TypeOK
  BY DEF ReadDigit, Inv
<1>2. Digit \in 0..9 /\ x < MaxLen /\ x \in Nat
  BY <1>1, DigitRange, InBuffer DEF TypeOK
<1>3. UNCHANGED <<pc, path, offset, ix>> /\ x' = x + 1
  BY DEF ReadDigit, NextChar
<1>4. \A n \in Nat : Append10(n) \in Nat
  <2>. SUFFICES ASSUME NEW n \in Nat PROVE Append10(n) \in Nat
    OBVIOUS
  <2>1. n * 10 + Digit \in Nat
    BY <1>2
  <2>. QED
    BY <2>1, Mod, WordPositive DEF Append10
<1>5. coin_type' \in Nat
  BY <1>1, <1>4 DEF ReadDigit, TypeOK
<1>6. address_index' \in Nat
  <2>1. address_index * 10 \in Nat
    BY <1>1 DEF TypeOK
  <2>. QED
    BY <1>1, <2>1, Mod, WordPositive DEF ReadDigit, TypeOK
<1>7. ix # 1
  BY DEF Inv
<1>8. account + Digit \in Nat /\ account + Digit <= 9 * (x - 1)
  BY <1>1, <1>2 DEF Inv, TypeOK
<1>9. account + Digit < Word
  <2>1. 9 * (x - 1) <= 9 * MaxLen /\ MaxLen \in Nat
    BY <1>2, PathsOK DEF PathsOK
  <2>. QED
    BY <1>2, <1>8, <2>1, PathsOK DEF PathsOK
<1>10. account' \in Nat /\ account' <= 9 * (x - 1)
  <2>1. (account + Digit) % Word = account + Digit
    BY <1>8, <1>9, Mod, WordPositive
  <2>2. account' = account + Digit \/ account' = account
    BY <1>7, <2>1 DEF ReadDigit
  <2>. QED
    BY <1>1, <1>2, <1>8, <2>2 DEF Inv, TypeOK
<1>11. TypeOK'
  BY <1>1, <1>3, <1>5, <1>6, <1>10 DEF TypeOK
<1>. QED
  BY <1>2, <1>3, <1>10, <1>11, PathsOK DEF PathsOK, Inv

LEMMA InvStep == Inv /\ [Next]_vars => Inv'
<1>. SUFFICES ASSUME Inv, [Next]_vars
              PROVE  Inv'
  OBVIOUS
<1>. USE DEF Inv, TypeOK, parsed
<1>1. CASE Check
  BY <1>1 DEF Check
<1>2. CASE Separator
  <2>1. x < MaxLen
    BY <1>2, InBuffer DEF Separator
  <2>2. ix' \in 0..255 /\ ix' % 2 = 0
    BY <1>2 DEF Separator
  <2>. QED
    BY <1>2, <2>1, <2>2, PathsOK DEF PathsOK, Separator, NextChar
<1>3. CASE ReadDigit
  BY <1>3, ReadKeeps
<1>4. CASE Skip
  <2>1. x < MaxLen
    BY <1>4, InBuffer DEF Skip
  <2>. QED
    BY <1>4, <2>1, PathsOK DEF PathsOK, Skip, NextChar
<1>5. CASE Finish
  <2>1. address_index + offset \in Nat
    OBVIOUS
  <2>2. address_index' \in Nat
    BY <1>5, <2>1, Mod, WordPositive DEF Finish
  <2>. QED
    BY <1>5, <2>2 DEF Finish
<1>6. CASE Returned \/ UNCHANGED vars
  BY <1>6 DEF Returned, vars
<1>. QED
  BY <1>1, <1>2, <1>3, <1>4, <1>5, <1>6 DEF Next

\* The parser keeps its types, for every set of paths.
THEOREM PathTypes == Spec => []TypeOK
  BY InvInit, InvStep, PTL DEF Spec, Inv

\* Whatever the text of a service's path, its key comes from the wallet's
\* seed and never from the device's.
THEOREM WalletSeed == Spec => []WalletSeedUsed
<1>1. Inv => WalletSeedUsed
  <2>1. ASSUME Inv PROVE account < DeviceAccount
    <3>1. account <= 9 * MaxLen
      BY <2>1, PathsOK DEF PathsOK, Inv, TypeOK
    <3>. QED
      BY <2>1, <3>1, PathsOK DEF PathsOK, Inv, TypeOK
  <2>. QED
    BY <2>1, PathsOK DEF PathsOK, Inv, TypeOK, WalletSeedUsed, Seed
<1>. QED
  BY <1>1, InvInit, InvStep, PTL DEF Spec

-----------------------------------------------------------------------------
(* Reading the text.                                                       *)

LEMMA DigitValue ==
  ASSUME NEW text \in Seq(0..255), NEW n \in 1..Len(text), text[n] \in Digits
  PROVE  text[n] - 48 \in Nat
BY DEF Digits

LEMMA Accumulated ==
  ASSUME NEW v \in Nat, NEW base \in Nat, NEW d \in Nat
  PROVE  v * base + d \in Nat
OBVIOUS

\* The recursive function that reads a text exists, and reads on by one
\* character at a time.
LEMMA Reading ==
  ASSUME NEW text \in Seq(0..255), NEW comp \in Nat, NEW base \in Nat
  PROVE  /\ ReadUpTo(text, comp, base)[0] = 0
         /\ \A n \in 1..Len(text) :
              /\ ReadUpTo(text, comp, base)[n - 1] \in Nat
              /\ ReadUpTo(text, comp, base)[n] =
                   IF DigitIn(text, n, comp)
                   THEN ReadUpTo(text, comp, base)[n - 1] * base + (text[n] - 48)
                   ELSE ReadUpTo(text, comp, base)[n - 1]
<1>. DEFINE size == Len(text)
            Next1(f) == [n \in 0..size |->
                           IF n = 0 THEN 0
                           ELSE IF DigitIn(text, n, comp) THEN f[n - 1] * base + (text[n] - 48)
                           ELSE f[n - 1]]
            step == [p \in (1..size) \X Nat |->
                       IF DigitIn(text, p[1], comp) THEN p[2] * base + (text[p[1]] - 48) ELSE p[2]]
            R == ReadUpTo(text, comp, base)
<1>1. size \in Nat
  OBVIOUS
<1>2. step \in [(1..size) \X Nat -> Nat]
  <2>. SUFFICES ASSUME NEW n \in 1..size, NEW v \in Nat, DigitIn(text, n, comp)
                PROVE  v * base + (text[n] - 48) \in Nat
    OBVIOUS
  <2>1. text[n] - 48 \in Nat
    BY DigitValue DEF DigitIn
  <2>. QED
    BY <2>1, Accumulated, Zenon
<1>3. PICK f \in [0..size -> Nat] :
        f[0] = 0 /\ \A n \in 1..size : f[n] = step[<<n, f[n - 1]>>]
  <2>. HIDE DEF size, step
  <2>. QED
    BY <1>1, <1>2, Solution
<1>4. \A n \in 1..size : f[n] = IF DigitIn(text, n, comp) THEN f[n - 1] * base + (text[n] - 48)
                                ELSE f[n - 1]
  <2>. SUFFICES ASSUME NEW n \in 1..size
                PROVE  f[n] = IF DigitIn(text, n, comp) THEN f[n - 1] * base + (text[n] - 48)
                              ELSE f[n - 1]
    OBVIOUS
  <2>1. f[n - 1] \in Nat
    BY <1>1
  <2>2. f[n] = step[<<n, f[n - 1]>>]
    <3>. HIDE DEF step
    <3>. QED
      BY <1>3
  <2>. QED
    BY <2>1, <2>2
<1>. HIDE DEF step
<1>5. f = Next1(f)
  BY <1>3, <1>4
<1>6. R = CHOOSE g : g = Next1(g)
  BY DEF ReadUpTo
<1>7. R = Next1(R)
  <2>. HIDE DEF R, Next1
  <2>. QED
    BY <1>5, <1>6
<1>. HIDE DEF R
<1>8. R[0] = 0 /\ \A n \in 1..size : R[n] = IF DigitIn(text, n, comp)
                                           THEN R[n - 1] * base + (text[n] - 48) ELSE R[n - 1]
  <2>1. 0 \in 0..size
    BY <1>1
  <2>2. R[0] = 0
    BY <1>7, <2>1
  <2>3. ASSUME NEW n \in 1..size
        PROVE  R[n] = IF DigitIn(text, n, comp) THEN R[n - 1] * base + (text[n] - 48)
                      ELSE R[n - 1]
    <3>1. n \in 0..size /\ n # 0
      BY <1>1
    <3>. QED
      BY <1>7, <3>1
  <2>. QED
    BY <2>2, <2>3
<1>. DEFINE S == {n \in Nat : n <= size => R[n] \in Nat}
<1>9. 0 \in S
  BY <1>8
<1>10. \A n \in Nat : n \in S => n + 1 \in S
  <2>. SUFFICES ASSUME NEW n \in Nat, R[n] \in Nat, n + 1 <= size
                PROVE  R[n + 1] \in Nat
    BY <1>1
  <2>1. n + 1 \in 1..size /\ (n + 1) - 1 = n
    BY <1>1
  <2>2. CASE DigitIn(text, n + 1, comp)
    <3>1. text[n + 1] - 48 \in Nat
      BY <2>1, <2>2, DigitValue DEF DigitIn
    <3>2. R[n + 1] = R[n] * base + (text[n + 1] - 48)
      BY <1>8, <2>1, <2>2
    <3>. QED
      BY <3>1, <3>2, Accumulated
  <2>3. CASE ~DigitIn(text, n + 1, comp)
    BY <1>8, <2>1, <2>3
  <2>. QED
    BY <2>2, <2>3
<1>. HIDE DEF S
<1>11. Nat \subseteq S
  BY <1>9, <1>10, SetInduction, Zenon
<1>12. \A n \in 1..size : R[n - 1] \in Nat
  BY <1>1, <1>11 DEF S
<1>. QED
  BY <1>8, <1>12 DEF R

\* A separator begins the next component; no other character does.
LEMMA ComponentStep ==
  ASSUME NEW text, NEW n \in Nat
  PROVE  /\ Component(text, n) \in Nat /\ Component(text, n) <= n
         /\ Component(text, n + 1) = IF text[n + 1] = Solidus THEN Component(text, n) + 1
                                     ELSE Component(text, n)
<1>. DEFINE Upto(m) == {k \in 1..m : text[k] = Solidus}
<1>1. IsFiniteSet(1..n) /\ Cardinality(1..n) = n
  BY FS_Interval
<1>2. Upto(n) \subseteq 1..n
  OBVIOUS
<1>3. IsFiniteSet(Upto(n)) /\ Cardinality(Upto(n)) <= n
  <2>. HIDE DEF Upto
  <2>. QED
    BY <1>1, <1>2, FS_Subset
<1>4. Cardinality(Upto(n)) \in Nat
  BY <1>3, FS_CardinalityType
<1>5. Cardinality(Upto(n + 1)) = IF text[n + 1] = Solidus THEN Cardinality(Upto(n)) + 1
                                 ELSE Cardinality(Upto(n))
  <2>1. CASE text[n + 1] = Solidus
    <3>1. Upto(n + 1) = Upto(n) \cup {n + 1} /\ n + 1 \notin Upto(n)
      BY <2>1
    <3>. QED
      BY <1>3, <2>1, <3>1, FS_AddElement
  <2>2. CASE text[n + 1] # Solidus
    <3>1. Upto(n + 1) = Upto(n)
      BY <2>2
    <3>. QED
      BY <2>2, <3>1
  <2>. QED
    BY <2>1, <2>2
<1>. QED
  BY <1>3, <1>4, <1>5 DEF Component

-----------------------------------------------------------------------------
(* The loop reads as ReadUpTo does.                                        *)

\* After x characters the separators are counted, by two and but for the first,
\* in ix, and the numbers are those of the characters read.
ReadSoFar ==
  /\ pc = "check" => x = 2 /\ ix = 0 /\ coin_type = 0 /\ account = 0 /\ address_index = 0
  /\ pc \in {"scan", "done"} =>
       /\ x <= Len(path)
       /\ ix = 2 * (Component(path, x) - 1)
       /\ coin_type = ReadUpTo(path, 1, 10)[x] % Word
       /\ account = ReadUpTo(path, 2, 1)[x] % Word
       /\ address_index = IF pc = "done" THEN offset ELSE 0
  /\ pc = "done" => x = Len(path)

LEMMA TextOfPath ==
  ASSUME TypeOK
  PROVE  /\ path \in Seq(0..255) /\ Len(path) \in Nat /\ Len(path) <= MaxLen
         /\ MaxLen \in Nat /\ MaxLen <= 29
BY CopyType, PathsOK DEF PathsOK, TypeOK

\* What the next character of the loop is, in the reading of the text.
LEMMA NextRead ==
  ASSUME TypeOK, Scanning
  PROVE  /\ x \in Nat /\ x + 1 \in 1..Len(path) /\ (x + 1) - 1 = x
         /\ Char(x) = path[x + 1]
         /\ Component(path, x) \in Nat /\ Component(path, x) <= x
         /\ Component(path, x + 1) = IF Char(x) = Solidus THEN Component(path, x) + 1
                                     ELSE Component(path, x)
<1>1. x \in Nat /\ x < Len(path) /\ Len(path) \in Nat
  BY TextOfPath DEF TypeOK, Scanning
<1>2. Char(x) = path[x + 1]
  BY <1>1 DEF Char
<1>3. /\ Component(path, x) \in Nat /\ Component(path, x) <= x
      /\ Component(path, x + 1) = IF path[x + 1] = Solidus THEN Component(path, x) + 1
                                  ELSE Component(path, x)
  BY <1>1, ComponentStep
<1>. QED
  BY <1>1, <1>2, <1>3

\* The letter and the first separator hold no digit.
LEMMA ReadStart ==
  ASSUME TypeOK, WellStarted
  PROVE  /\ 2 <= Len(path) /\ Component(path, 2) = 1
         /\ \A comp, base \in Nat : ReadUpTo(path, comp, base)[2] = 0
<1>1. path \in Seq(0..255) /\ Len(path) \in Nat
  BY TextOfPath
<1>2. 2 <= Len(path) /\ path[1] = LetterM /\ path[2] = Solidus
  BY <1>1 DEF WellStarted, Char, LetterM, Solidus
<1>3. Component(path, 2) = 1
  <2>1. Component(path, 0) = 0
    <3>1. {k \in 1..0 : path[k] = Solidus} = {}
      OBVIOUS
    <3>. QED
      BY <3>1, FS_EmptySet DEF Component
  <2>2. Component(path, 0 + 1) = 0
    BY <1>2, <2>1, ComponentStep DEF LetterM, Solidus
  <2>3. Component(path, 1 + 1) = 1
    BY <1>2, <2>2, ComponentStep
  <2>. QED
    BY <2>3
<1>4. ASSUME NEW comp \in Nat, NEW base \in Nat
      PROVE  ReadUpTo(path, comp, base)[2] = 0
  <2>1. ~DigitIn(path, 1, comp) /\ ~DigitIn(path, 2, comp)
    BY <1>2 DEF DigitIn, Digits, LetterM, Solidus
  <2>2. 1 \in 1..Len(path) /\ 2 \in 1..Len(path) /\ 1 - 1 = 0 /\ 2 - 1 = 1
    BY <1>1, <1>2
  <2>3. ReadUpTo(path, comp, base)[0] = 0
    BY <1>1, Reading
  <2>4. ReadUpTo(path, comp, base)[1] = ReadUpTo(path, comp, base)[1 - 1]
    BY <1>1, <2>1, <2>2, Reading
  <2>5. ReadUpTo(path, comp, base)[2] = ReadUpTo(path, comp, base)[2 - 1]
    BY <1>1, <2>1, <2>2, Reading
  <2>. QED
    BY <2>2, <2>3, <2>4, <2>5
<1>. QED
  BY <1>2, <1>3, <1>4

\* A number that is reduced with every digit is the reduced number.
LEMMA ReadReduced ==
  ASSUME TypeOK, Scanning, NEW comp \in Nat, NEW base \in Nat, base > 0, NEW n \in Nat,
         n = ReadUpTo(path, comp, base)[x] % Word
  PROVE  /\ Char(x) \in Digits /\ Component(path, x) = comp
              => (n * base + Digit) % Word = ReadUpTo(path, comp, base)[x + 1] % Word
         /\ ~(Char(x) \in Digits /\ Component(path, x) = comp)
              => n = ReadUpTo(path, comp, base)[x + 1] % Word
<1>. DEFINE R == ReadUpTo(path, comp, base)
<1>1. path \in Seq(0..255) /\ Len(path) \in Nat
  BY TextOfPath
<1>2. R[x] \in Nat /\ R[x + 1] = IF DigitIn(path, x + 1, comp) THEN R[x] * base + (path[x + 1] - 48)
                                  ELSE R[x]
  <2>1. x + 1 \in 1..Len(path) /\ (x + 1) - 1 = x
    BY NextRead
  <2>. QED
    BY <1>1, <2>1, Reading
<1>. HIDE DEF R
<1>3. Char(x) \in Digits => Component(path, x + 1) = Component(path, x)
  <2>1. Char(x) \in Digits => Char(x) # Solidus
    BY DEF Digits, Solidus
  <2>. QED
    BY <2>1, NextRead, Zenon
<1>4. DigitIn(path, x + 1, comp) <=> Char(x) \in Digits /\ Component(path, x) = comp
  BY <1>3, NextRead, Zenon DEF DigitIn
<1>5. ASSUME Char(x) \in Digits, Component(path, x) = comp
      PROVE  (n * base + Digit) % Word = R[x + 1] % Word
  <2>1. Digit \in Nat
    BY <1>5, DigitRange
  <2>2. R[x + 1] = R[x] * base + Digit
    BY <1>2, <1>4, <1>5, NextRead DEF Digit
  <2>3. n = R[x] % Word
    BY DEF R
  <2>4. ((R[x] % Word) * base + Digit) % Word = (R[x] * base + Digit) % Word
    <3>1. R[x] \in Nat /\ Word \in Nat /\ Word > 0
      BY <1>2, WordPositive
    <3>. QED
      <4>1. \A p, b, d \in Nat : p > 0 => ((R[x] % p) * b + d) % p = (R[x] * b + d) % p
        BY <3>1, ReducedBefore, Zenon
      <4>2. \A b, d \in Nat : ((R[x] % Word) * b + d) % Word = (R[x] * b + d) % Word
        BY <3>1, <4>1, Zenon
      <4>3. \A d \in Nat : ((R[x] % Word) * base + d) % Word = (R[x] * base + d) % Word
        BY <4>2, Zenon
      <4>. QED
        BY <2>1, <4>3, Zenon
  <2>. QED
    BY <2>2, <2>3, <2>4
<1>6. ~(Char(x) \in Digits /\ Component(path, x) = comp) => n = R[x + 1] % Word
  BY <1>2, <1>4 DEF R
<1>. QED
  BY <1>5, <1>6 DEF R

LEMMA ReadStep == Inv /\ ReadSoFar /\ [Next]_vars => ReadSoFar'
<1>. SUFFICES ASSUME Inv, ReadSoFar, [Next]_vars
              PROVE  ReadSoFar'
  OBVIOUS
<1>1. TypeOK /\ ix # 1 /\ path \in Seq(0..255) /\ Len(path) \in Nat
  BY TextOfPath DEF Inv
<1>2. coin_type \in Nat /\ account \in Nat /\ address_index \in Nat /\ x \in Nat /\ ix \in 0..255
  BY <1>1 DEF TypeOK
<1>3. CASE Check
  <2>1. 0 % Word = 0
    BY WordPositive
  <2>. QED
    BY <1>1, <1>3, <2>1, ReadStart DEF Check, ReadSoFar, parsed
<1>4. ASSUME Scanning, NextChar
      PROVE  /\ x' = x + 1 /\ x + 1 <= Len(path) /\ pc = "scan"
             /\ UNCHANGED <<pc, path, offset>>
  BY <1>1, <1>4, NextRead DEF NextChar, Scanning
<1>5. ASSUME Scanning
      PROVE  /\ ix = 2 * (Component(path, x) - 1) /\ address_index = 0
             /\ coin_type = ReadUpTo(path, 1, 10)[x] % Word
             /\ account = ReadUpTo(path, 2, 1)[x] % Word
  BY <1>5 DEF Scanning, ReadSoFar
<1>6. CASE Separator \/ Skip
  <2>1. Scanning /\ NextChar /\ UNCHANGED parsed /\ Char(x) \notin Digits
    BY <1>6 DEF Separator, Skip, Digits, Solidus
  <2>2. /\ coin_type = ReadUpTo(path, 1, 10)[x + 1] % Word
        /\ account = ReadUpTo(path, 2, 1)[x + 1] % Word
    BY <1>1, <1>2, <1>5, <2>1, ReadReduced
  <2>3. ix' = 2 * (Component(path, x + 1) - 1)
    <3>1. CASE Separator
      <4>1. Component(path, x + 1) = Component(path, x) + 1
        BY <1>1, <2>1, <3>1, NextRead DEF Separator
      <4>2. Component(path, x) \in Nat /\ Component(path, x) <= 29
        BY <1>1, <1>2, <2>1, NextRead, TextOfPath
      <4>3. ix = 2 * (Component(path, x) - 1) /\ ix + 2 \in 0..255
        BY <1>2, <1>5, <2>1, <4>2
      <4>4. ix' = ix + 2
        BY <3>1, <4>3 DEF Separator
      <4>. QED
        BY <4>1, <4>2, <4>3, <4>4
    <3>2. CASE Skip
      BY <1>1, <1>5, <2>1, <3>2, NextRead DEF Skip
    <3>. QED
      BY <1>6, <3>1, <3>2
  <2>. QED
    BY <1>4, <1>5, <2>1, <2>2, <2>3 DEF ReadSoFar, parsed
<1>7. CASE ReadDigit
  <2>1. Scanning /\ NextChar /\ Char(x) \in Digits /\ UNCHANGED ix
    BY <1>7 DEF ReadDigit
  <2>2. Component(path, x + 1) = Component(path, x) /\ Component(path, x) \in Nat
    BY <1>1, <2>1, NextRead DEF Digits, Solidus
  <2>. (ix = 0 <=> Component(path, x) = 1) /\ (ix = 2 <=> Component(path, x) = 2)
    BY <1>5, <2>1, <2>2
  <2>3. coin_type' = ReadUpTo(path, 1, 10)[x + 1] % Word
    <3>1. coin_type' = IF Component(path, x) = 1 THEN (coin_type * 10 + Digit) % Word ELSE coin_type
      BY <1>5, <1>7, <2>1, <2>2 DEF ReadDigit, Append10
    <3>. QED
      BY <1>1, <1>2, <1>5, <2>1, <3>1, ReadReduced
  <2>4. account' = ReadUpTo(path, 2, 1)[x + 1] % Word
    <3>1. account' = IF Component(path, x) = 2 THEN (account * 1 + Digit) % Word ELSE account
      BY <1>1, <1>2, <1>5, <1>7, <2>1, <2>2 DEF ReadDigit
    <3>. QED
      BY <1>1, <1>2, <1>5, <2>1, <3>1, ReadReduced
  <2>5. address_index' = 0
    BY <1>5, <1>7, <2>1, WordPositive DEF ReadDigit
  <2>. QED
    BY <1>4, <1>5, <2>1, <2>2, <2>3, <2>4, <2>5 DEF ReadSoFar
<1>8. CASE Finish
  <2>1. x = Len(path)
    BY <1>1, <1>2, <1>8 DEF Finish, ReadSoFar
  <2>2. address_index' = offset
    <3>1. address_index = 0 /\ offset \in 0..1
      BY <1>1, <1>8 DEF Finish, ReadSoFar, TypeOK
    <3>2. Word > 1
      BY PathsOK DEF PathsOK
    <3>. QED
      BY <1>8, <3>1, <3>2, WordPositive DEF Finish
  <2>. QED
    BY <1>8, <2>1, <2>2 DEF Finish, ReadSoFar
<1>9. CASE Returned \/ UNCHANGED vars
  BY <1>9 DEF Returned, vars, ReadSoFar
<1>. QED
  BY <1>3, <1>6, <1>7, <1>8, <1>9 DEF Next

\* For every text of a path the loop computes the first component in decimal,
\* the sum of the second's digits and the caller's offset, modulo 2^32.
THEOREM Parsed == Spec => []ParsedAs
<1>1. Init => ReadSoFar
  BY DEF Init, ReadSoFar
<1>2. Inv /\ ReadSoFar => ParsedAs
  BY DEF ReadSoFar, ParsedAs, Numeral, DigitSum
<1>. QED
  BY <1>1, <1>2, InvInit, InvStep, ReadStep, PTL DEF Spec
=============================================================================
