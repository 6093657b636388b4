--------------------------- MODULE ByteOrderProofs ---------------------------
(***************************************************************************)
(* The loop of be2le reverses every array of even length.  Before each     *)
(* turn i is even and j is its mirror image, which is odd: the swaps done  *)
(* so far have put right exactly the even places below i and the odd ones  *)
(* above j, and after half as many turns as there are bytes that is all    *)
(* of them.                                                                *)
(***************************************************************************)
EXTENDS ByteOrder, TLAPS

Swapped(k) == \/ k % 2 = 0 /\ k < i
              \/ k % 2 = 1 /\ k > j

Inv == /\ TypeOK
       /\ len <= Half
       /\ i = 2 * (Half - len)
       /\ j = Mirror(i)
       /\ \A k \in Indices : v[k] = IF Swapped(k) THEN given[Mirror(k)] ELSE given[k]

LEMMA InvInit == Init => Inv
BY HalfOK DEF Init, Inv, TypeOK, Indices, Length, Mirror, Swapped

LEMMA InvInArray == Inv => InArray
BY HalfOK DEF Inv, TypeOK, InArray, Indices, Length, Mirror

LEMMA SwapKeeps ==
  ASSUME Inv, Swap
  PROVE  Inv'
<1>1. /\ Half \in Nat /\ i \in Nat /\ len \in Nat /\ len > 0 /\ len <= Half
      /\ i = 2 * (Half - len) /\ j = Length - 1 - i
      /\ i \in Indices /\ j \in Indices /\ i # j
      /\ i % 2 = 0 /\ j % 2 = 1 /\ j \in Nat
  BY HalfOK DEF Inv, TypeOK, Swap, Indices, Length, Mirror
<1>2. /\ i' = i + 2 /\ j' = j - 2 /\ len' = len - 1 /\ given' = given
      /\ v' = [v EXCEPT ![i] = v[j], ![j] = v[i]]
  BY DEF Swap
<1>3. TypeOK'
  BY <1>1, <1>2 DEF Inv, TypeOK
<1>4. len' <= Half /\ i' = 2 * (Half - len') /\ j' = Mirror(i')
  BY <1>1, <1>2 DEF Mirror, Length
<1>5. ASSUME NEW k \in Indices
      PROVE  v'[k] = IF Swapped(k)' THEN given'[Mirror(k)] ELSE given'[k]
  <2>1. /\ k \in Nat /\ k < Length
        /\ v[k] = IF Swapped(k) THEN given[Mirror(k)] ELSE given[k]
    BY <1>1 DEF Inv, Indices, Length
  <2>2. CASE k = i
    <3>1. v'[k] = v[j] /\ Mirror(k) = j
      BY <1>1, <1>2, <2>2 DEF Inv, TypeOK, Mirror
    <3>2. ~Swapped(j)
      BY <1>1 DEF Swapped
    <3>3. v[j] = given[j]
      BY <1>1, <3>2 DEF Inv
    <3>4. Swapped(k)'
      BY <1>1, <1>2, <2>2 DEF Swapped
    <3>. QED
      BY <1>2, <3>1, <3>3, <3>4
  <2>3. CASE k = j
    <3>1. v'[k] = v[i] /\ Mirror(k) = i
      BY <1>1, <1>2, <2>3 DEF Inv, TypeOK, Mirror, Length
    <3>2. ~Swapped(i)
      BY <1>1 DEF Swapped
    <3>3. v[i] = given[i]
      BY <1>1, <3>2 DEF Inv
    <3>4. Swapped(k)'
      BY <1>1, <1>2, <2>3 DEF Swapped
    <3>. QED
      BY <1>2, <3>1, <3>3, <3>4
  <2>4. CASE k # i /\ k # j
    <3>1. v'[k] = v[k]
      BY <1>1, <1>2, <2>4 DEF Inv, TypeOK
    <3>2. Swapped(k)' <=> Swapped(k)
      BY <1>1, <1>2, <2>1, <2>4 DEF Swapped, Length
    <3>. QED
      BY <1>2, <2>1, <3>1, <3>2
  <2>. QED
    BY <2>2, <2>3, <2>4
<1>. QED
  BY <1>3, <1>4, <1>5 DEF Inv, Indices, Length, Mirror

LEMMA InvStep == Inv /\ [Next]_vars => Inv'
<1>1. ASSUME Inv, UNCHANGED vars PROVE Inv'
  BY <1>1 DEF Inv, TypeOK, Swapped, vars
<1>. QED
  BY <1>1, SwapKeeps DEF Next, Returned

\* The array keeps its size and its indices their types, for every even length.
THEOREM ArrayTypes == Spec => []TypeOK
  BY InvInit, InvStep, PTL DEF Spec, Inv

\* No swap reads or writes outside the array.
THEOREM StaysInArray == Spec => []InArray
  BY InvInit, InvStep, InvInArray, PTL DEF Spec

\* Every array of even length is reversed.
THEOREM Reverses == Spec => []Reversed
<1>1. Inv => Reversed
  <2>. SUFFICES ASSUME Inv, len = 0, NEW k \in Indices
                PROVE  v[k] = given[Mirror(k)]
    BY DEF Reversed
  <2>1. Half \in Nat /\ len = 0 /\ i = 2 * (Half - len) /\ j = Length - 1 - i
    BY HalfOK DEF Inv, Mirror
  <2>2. i = Length /\ j = -1
    BY <2>1 DEF Length
  <2>3. k \in Nat /\ k < Length /\ k % 2 \in {0, 1}
    BY <2>1 DEF Indices, Length
  <2>4. Swapped(k)
    BY <2>2, <2>3 DEF Swapped
  <2>. QED
    BY <2>4 DEF Inv
<1>. QED
  BY <1>1, InvInit, InvStep, PTL DEF Spec
=============================================================================
