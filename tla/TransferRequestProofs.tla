----------------------- MODULE TransferRequestProofs -----------------------
(***************************************************************************)
(* The review of a command is about the fields the client sent, and the    *)
(* bytes that are hashed are one transfer's.                               *)
(***************************************************************************)
EXTENDS TransferRequest, AmountTextProofs

-----------------------------------------------------------------------------
(* Concatenation.  What is known of a term is a predicate of its own, cited *)
(* for that term and only then expanded.                                   *)

Cat(a, b) == a \o b

IsCat(a, b, c) ==
  /\ c \in Seq(Byte) /\ Len(c) = Len(a) + Len(b) /\ Len(a) \in Nat /\ Len(b) \in Nat
  /\ \A k \in Nat : 1 <= k /\ k <= Len(a) => c[k] = a[k]
  /\ \A k \in Nat : 1 <= k /\ k <= Len(b) => c[Len(a) + k] = b[k]

LEMMA CatIs ==
  ASSUME NEW a \in Seq(Byte), NEW b \in Seq(Byte)
  PROVE  IsCat(a, b, Cat(a, b))
<1>1. a \o b \in Seq(Byte) /\ Len(a \o b) = Len(a) + Len(b) /\ Len(a) \in Nat /\ Len(b) \in Nat
  OBVIOUS
<1>2. \A k \in Nat : 1 <= k /\ k <= Len(a) => (a \o b)[k] = a[k]
  OBVIOUS
<1>3. \A k \in Nat : 1 <= k /\ k <= Len(b) => (a \o b)[Len(a) + k] = b[k]
  OBVIOUS
<1>. QED
  BY <1>1, <1>2, <1>3 DEF Cat, IsCat

LEMMA SameBytes ==
  ASSUME NEW a \in Seq(Byte), NEW b \in Seq(Byte), Len(a) = Len(b),
         \A k \in Nat : 1 <= k /\ k <= Len(a) => a[k] = b[k]
  PROVE  a = b
OBVIOUS

LEMMA CatSame ==
  ASSUME NEW a \in Seq(Byte), NEW b \in Seq(Byte), NEW c \in Seq(Byte), NEW d \in Seq(Byte),
         NEW e, IsCat(a, b, e), IsCat(c, d, e), Len(a) = Len(c)
  PROVE  a = c /\ b = d
<1>1. Len(b) = Len(d)
  BY DEF IsCat
<1>2. \A k \in Nat : 1 <= k /\ k <= Len(a) => a[k] = c[k]
  BY Zenon DEF IsCat
<1>3. \A k \in Nat : 1 <= k /\ k <= Len(b) => b[k] = d[k]
  BY <1>1, Zenon DEF IsCat
<1>4. a = c
  BY <1>2, SameBytes
<1>5. b = d
  BY <1>1, <1>3, SameBytes
<1>. QED
  BY <1>4, <1>5

Begins(f, b) == \A k \in Nat : 1 <= k /\ k <= Len(b) => f[k] = b[k]

LEMMA PrefixIs ==
  ASSUME NEW b \in Seq(Byte), NEW f, Begins(f, b)
  PROVE  Prefix(f, Len(b)) = b
BY DEF Prefix, Begins

LEMMA Literals ==
  /\ <<0, 0, 0, 1>> \in Seq(Byte) /\ Len(<<0, 0, 0, 1>>) = 4
  /\ <<253, 0, 0, 0, 0, 0, 0, 0, 0, 0, 1>> \in Seq(Byte)
  /\ Len(<<253, 0, 0, 0, 0, 0, 0, 0, 0, 0, 1>>) = 11
  /\ <<0, 0>> \in Seq(Byte) /\ Len(<<0, 0>>) = 2
BY DEF Byte

-----------------------------------------------------------------------------
(* The bytes that are hashed.                                              *)

\* The parts of a transaction, one more at a time.
Version == <<0, 0, 0, 1>>
Counts  == <<253, 0, 0, 0, 0, 0, 0, 0, 0, 0, 1>>
Ending  == <<0, 0>>
WithSender(s)       == Cat(Version, s)
WithCounts(s)       == Cat(WithSender(s), Counts)
WithReceiver(s, r)  == Cat(WithCounts(s), r)
WithAmount(s, r, a) == Cat(WithReceiver(s, r), a)

HasParts(s, r, a) ==
  /\ IsCat(Version, s, WithSender(s)) /\ Len(WithSender(s)) = 4 + Len(s)
  /\ IsCat(WithSender(s), Counts, WithCounts(s)) /\ Len(WithCounts(s)) = 15 + Len(s)
  /\ IsCat(WithCounts(s), r, WithReceiver(s, r))
  /\ Len(WithReceiver(s, r)) = 15 + Len(s) + Len(r)
  /\ IsCat(WithReceiver(s, r), a, WithAmount(s, r, a))
  /\ Len(WithAmount(s, r, a)) = 15 + Len(s) + Len(r) + Len(a)
  /\ IsCat(WithAmount(s, r, a), Ending, Transaction(s, r, a))
  /\ Len(Transaction(s, r, a)) = 17 + Len(s) + Len(r) + Len(a)

LEMMA Parts ==
  ASSUME NEW s \in Seq(Byte), NEW r \in Seq(Byte), NEW a \in Seq(Byte)
  PROVE  HasParts(s, r, a)
<1>1. /\ Version \in Seq(Byte) /\ Len(Version) = 4 /\ Counts \in Seq(Byte) /\ Len(Counts) = 11
      /\ Ending \in Seq(Byte) /\ Len(Ending) = 2
  BY Literals DEF Version, Counts, Ending
<1>2. Transaction(s, r, a) = Cat(WithAmount(s, r, a), Ending)
  BY Zenon DEF Transaction, WithAmount, WithReceiver, WithCounts, WithSender, Cat,
               Version, Counts, Ending
<1>3. Len(s) \in Nat /\ Len(r) \in Nat /\ Len(a) \in Nat
  OBVIOUS
<1>4. IsCat(Version, s, WithSender(s))
  BY <1>1, CatIs DEF WithSender
<1>5. WithSender(s) \in Seq(Byte) /\ Len(WithSender(s)) = 4 + Len(s)
  BY <1>1, <1>3, <1>4 DEF IsCat
<1>6. IsCat(WithSender(s), Counts, WithCounts(s))
  BY <1>1, <1>5, CatIs DEF WithCounts
<1>7. WithCounts(s) \in Seq(Byte) /\ Len(WithCounts(s)) = 15 + Len(s)
  BY <1>1, <1>3, <1>5, <1>6 DEF IsCat
<1>8. IsCat(WithCounts(s), r, WithReceiver(s, r))
  BY <1>7, CatIs DEF WithReceiver
<1>9. WithReceiver(s, r) \in Seq(Byte) /\ Len(WithReceiver(s, r)) = 15 + Len(s) + Len(r)
  BY <1>3, <1>7, <1>8 DEF IsCat
<1>10. IsCat(WithReceiver(s, r), a, WithAmount(s, r, a))
  BY <1>9, CatIs DEF WithAmount
<1>11. /\ WithAmount(s, r, a) \in Seq(Byte)
       /\ Len(WithAmount(s, r, a)) = 15 + Len(s) + Len(r) + Len(a)
  BY <1>3, <1>9, <1>10 DEF IsCat
<1>12. IsCat(WithAmount(s, r, a), Ending, Transaction(s, r, a))
  BY <1>1, <1>2, <1>11, CatIs
<1>13. Len(Transaction(s, r, a)) = 17 + Len(s) + Len(r) + Len(a)
  BY <1>1, <1>3, <1>11, <1>12 DEF IsCat
<1>. QED
  BY <1>4, <1>5, <1>6, <1>7, <1>8, <1>9, <1>10, <1>11, <1>12, <1>13, Zenon DEF HasParts

LEMMA AmountInTransaction ==
  ASSUME NEW s \in Seq(Byte), NEW r \in Seq(Byte), NEW a \in Seq(Byte), Len(a) = 8,
         NEW k \in Nat, 1 <= k, k <= 8
  PROVE  Transaction(s, r, a)[Len(Transaction(s, r, a)) - 10 + k] = a[k]
<1>. DEFINE b == WithReceiver(s, r)
            w == WithAmount(s, r, a)
            t == Transaction(s, r, a)
<1>1. HasParts(s, r, a)
  BY Parts
<1>2. /\ IsCat(b, a, w) /\ IsCat(w, Ending, t)
      /\ Len(w) = 15 + Len(s) + Len(r) + Len(a) /\ Len(b) = 15 + Len(s) + Len(r)
      /\ Len(t) = 17 + Len(s) + Len(r) + Len(a)
  BY <1>1, Zenon DEF HasParts
<1>. HIDE DEF b, w, t
<1>3. Len(s) \in Nat /\ Len(r) \in Nat
  OBVIOUS
<1>4. w[Len(b) + k] = a[k]
  BY <1>2 DEF IsCat
<1>5. /\ Len(b) + k \in Nat /\ 1 <= Len(b) + k /\ Len(b) + k <= Len(w)
      /\ Len(t) - 10 + k = Len(b) + k
  BY <1>2, <1>3
<1>6. t[Len(b) + k] = w[Len(b) + k]
  BY <1>2, <1>5, Zenon DEF IsCat
<1>7. t[Len(t) - 10 + k] = a[k]
  BY <1>4, <1>5, <1>6
<1>. QED
  BY <1>7 DEF t

\* No two transfers are hashed from the same bytes.
SameHashed(s1, r1, a1, s2, r2, a2) ==
  /\ Len(s1) = Len(s2) /\ Len(a1) = Len(a2)
  /\ Transaction(s1, r1, a1) = Transaction(s2, r2, a2)

LEMMA TransactionInjective ==
  ASSUME NEW s1 \in Seq(Byte), NEW r1 \in Seq(Byte), NEW a1 \in Seq(Byte),
         NEW s2 \in Seq(Byte), NEW r2 \in Seq(Byte), NEW a2 \in Seq(Byte),
         SameHashed(s1, r1, a1, s2, r2, a2)
  PROVE  s1 = s2 /\ r1 = r2 /\ a1 = a2
<1>1. /\ Len(s1) = Len(s2) /\ Len(a1) = Len(a2)
      /\ Transaction(s1, r1, a1) = Transaction(s2, r2, a2)
  BY DEF SameHashed
<1>2. Version \in Seq(Byte) /\ Counts \in Seq(Byte) /\ Ending \in Seq(Byte)
  BY Literals DEF Version, Counts, Ending
<1>3. HasParts(s1, r1, a1) /\ HasParts(s2, r2, a2)
  BY Parts
<1>. DEFINE t == Transaction(s1, r1, a1)
            c1 == WithSender(s1)
            c2 == WithSender(s2)
            d1 == WithCounts(s1)
            d2 == WithCounts(s2)
            e1 == WithReceiver(s1, r1)
            e2 == WithReceiver(s2, r2)
            f1 == WithAmount(s1, r1, a1)
            f2 == WithAmount(s2, r2, a2)
<1>4. /\ IsCat(Version, s1, c1) /\ IsCat(c1, Counts, d1) /\ IsCat(d1, r1, e1)
      /\ IsCat(e1, a1, f1) /\ IsCat(f1, Ending, t)
      /\ Len(c1) = 4 + Len(s1) /\ Len(d1) = 15 + Len(s1) /\ Len(e1) = 15 + Len(s1) + Len(r1)
      /\ Len(f1) = 15 + Len(s1) + Len(r1) + Len(a1) /\ Len(t) = 17 + Len(s1) + Len(r1) + Len(a1)
  BY <1>3, Zenon DEF HasParts
<1>5. /\ IsCat(Version, s2, c2) /\ IsCat(c2, Counts, d2) /\ IsCat(d2, r2, e2)
      /\ IsCat(e2, a2, f2) /\ IsCat(f2, Ending, t)
      /\ Len(c2) = 4 + Len(s2) /\ Len(d2) = 15 + Len(s2) /\ Len(e2) = 15 + Len(s2) + Len(r2)
      /\ Len(f2) = 15 + Len(s2) + Len(r2) + Len(a2) /\ Len(t) = 17 + Len(s2) + Len(r2) + Len(a2)
  BY <1>1, <1>3, Zenon DEF HasParts
<1>. HIDE DEF t, c1, c2, d1, d2, e1, e2, f1, f2
<1>6. /\ c1 \in Seq(Byte) /\ d1 \in Seq(Byte) /\ e1 \in Seq(Byte) /\ f1 \in Seq(Byte)
      /\ c2 \in Seq(Byte) /\ d2 \in Seq(Byte) /\ e2 \in Seq(Byte) /\ f2 \in Seq(Byte)
  BY <1>4, <1>5, Zenon DEF IsCat
<1>7. /\ Len(s1) \in Nat /\ Len(r1) \in Nat /\ Len(a1) \in Nat /\ Len(r2) \in Nat
  OBVIOUS
<1>8. Len(r1) = Len(r2)
  BY <1>1, <1>4, <1>5, <1>7
<1>9. Len(c1) = Len(c2) /\ Len(d1) = Len(d2) /\ Len(e1) = Len(e2) /\ Len(f1) = Len(f2)
  BY <1>1, <1>4, <1>5, <1>7, <1>8
<1>10. f1 = f2
  BY <1>2, <1>4, <1>5, <1>6, <1>9, CatSame
<1>11. e1 = e2 /\ a1 = a2
  BY <1>4, <1>5, <1>6, <1>9, <1>10, CatSame
<1>12. d1 = d2 /\ r1 = r2
  BY <1>4, <1>5, <1>6, <1>9, <1>11, CatSame
<1>13. c1 = c2
  BY <1>2, <1>4, <1>5, <1>6, <1>9, <1>12, CatSame
<1>14. s1 = s2
  BY <1>2, <1>4, <1>5, <1>13, CatSame
<1>. QED
  BY <1>11, <1>12, <1>14

-----------------------------------------------------------------------------
(* The data of a command.                                                  *)

IsSignData(r) ==
  /\ Len(Data(r)) = 122 + Len(r.receiver) + Len(r.wallet)
  /\ Data(r)[1] = r.service
  /\ \A k \in Nat : 1 <= k /\ k <= Len(r.receiver) => Data(r)[1 + k] = r.receiver[k]
  /\ \A k \in Nat : 1 <= k /\ k <= 8 => Data(r)[1 + Len(r.receiver) + k] = r.amount[k]
  /\ \A k \in Nat : 1 <= k /\ k <= 113 => Data(r)[9 + Len(r.receiver) + k] = r.envelope[k]
  /\ \A k \in Nat : 1 <= k /\ k <= Len(r.wallet) =>
       Data(r)[122 + Len(r.receiver) + k] = r.wallet[k]

IsAddressData(r) ==
  /\ Len(Data(r)) = 114 + Len(r.wallet)
  /\ \A k \in Nat : 1 <= k /\ k <= 113 => Data(r)[1 + k] = r.envelope[k]
  /\ \A k \in Nat : 1 <= k /\ k <= Len(r.wallet) => Data(r)[114 + k] = r.wallet[k]

LEMMA SignData ==
  ASSUME NEW r, IsRequest(r), r.kind = "sign"
  PROVE  IsSignData(r)
<1>. DEFINE a == r.receiver
            b == r.amount
            c == r.envelope
            d == r.wallet
            h == <<r.service>>
            x == Cat(h, a)
            y == Cat(x, b)
            z == Cat(y, c)
            t == Cat(z, d)
<1>1. /\ a \in Seq(Byte) /\ b \in Seq(Byte) /\ c \in Seq(Byte) /\ d \in Seq(Byte)
      /\ Len(b) = 8 /\ Len(c) = 113
  BY DEF IsRequest, IsReceiver, IsBytes, EnvelopeLen, PointLen
<1>2. h \in Seq(Byte) /\ Len(h) = 1 /\ h[1] = r.service
  BY DEF IsRequest
<1>3. Data(r) = t
  BY Zenon DEF Data, Cat
<1>. HIDE DEF h
<1>4. IsCat(h, a, x)
  BY <1>1, <1>2, CatIs
<1>. HIDE DEF x
<1>5. x \in Seq(Byte) /\ IsCat(x, b, y)
  <2>1. x \in Seq(Byte)
    BY <1>4 DEF IsCat
  <2>. QED
    BY <1>1, <2>1, CatIs
<1>. HIDE DEF y
<1>6. y \in Seq(Byte) /\ IsCat(y, c, z)
  <2>1. y \in Seq(Byte)
    BY <1>5 DEF IsCat
  <2>. QED
    BY <1>1, <2>1, CatIs
<1>. HIDE DEF z
<1>7. z \in Seq(Byte) /\ IsCat(z, d, t)
  <2>1. z \in Seq(Byte)
    BY <1>6 DEF IsCat
  <2>. QED
    BY <1>1, <2>1, CatIs
<1>. HIDE DEF t
<1>8. Len(a) \in Nat /\ Len(d) \in Nat
  BY <1>1
<1>9. /\ Len(x) = 1 + Len(a) /\ Len(y) = 9 + Len(a) /\ Len(z) = 122 + Len(a)
      /\ Len(t) = 122 + Len(a) + Len(d)
  <2>1. Len(x) = 1 + Len(a)
    BY <1>2, <1>4 DEF IsCat
  <2>2. Len(y) = 9 + Len(a)
    BY <1>1, <1>8, <1>5, <2>1 DEF IsCat
  <2>3. Len(z) = 122 + Len(a)
    BY <1>1, <1>8, <1>6, <2>2 DEF IsCat
  <2>4. Len(t) = 122 + Len(a) + Len(d)
    BY <1>1, <1>8, <1>7, <2>3 DEF IsCat
  <2>. QED
    BY <2>1, <2>2, <2>3, <2>4
<1>. HIDE DEF a, b, c, d
<1>10. /\ \A k \in Nat : 1 <= k /\ k <= 1 => x[k] = h[k]
       /\ \A k \in Nat : 1 <= k /\ k <= Len(a) => x[1 + k] = a[k]
  BY <1>2, <1>4 DEF IsCat
<1>11. /\ \A k \in Nat : 1 <= k /\ k <= 1 + Len(a) => y[k] = x[k]
       /\ \A k \in Nat : 1 <= k /\ k <= 8 => y[1 + Len(a) + k] = b[k]
  BY <1>1, <1>5, <1>9 DEF IsCat
<1>12. /\ \A k \in Nat : 1 <= k /\ k <= 9 + Len(a) => z[k] = y[k]
       /\ \A k \in Nat : 1 <= k /\ k <= 113 => z[9 + Len(a) + k] = c[k]
  BY <1>1, <1>6, <1>9 DEF IsCat
<1>13. /\ \A k \in Nat : 1 <= k /\ k <= 122 + Len(a) => t[k] = z[k]
       /\ \A k \in Nat : 1 <= k /\ k <= Len(d) => t[122 + Len(a) + k] = d[k]
  BY <1>1, <1>7, <1>9 DEF IsCat
<1>14. t[1] = r.service
  <2>1. 1 <= 1 + Len(a) /\ 1 <= 9 + Len(a) /\ 1 <= 122 + Len(a) /\ 1 \in Nat /\ 1 <= 1
    BY <1>8
  <2>2. t[1] = z[1] /\ z[1] = y[1] /\ y[1] = x[1] /\ x[1] = h[1]
    BY <1>10, <1>11, <1>12, <1>13, <2>1
  <2>. QED
    BY <1>2, <2>2
<1>15. \A k \in Nat : 1 <= k /\ k <= Len(a) => t[1 + k] = a[k]
  <2>. SUFFICES ASSUME NEW k \in Nat, 1 <= k, k <= Len(a) PROVE t[1 + k] = a[k]
    OBVIOUS
  <2>1. /\ 1 + k \in Nat /\ 1 <= 1 + k /\ 1 + k <= 1 + Len(a) /\ 1 + k <= 9 + Len(a)
        /\ 1 + k <= 122 + Len(a)
    BY <1>8
  <2>. QED
    BY <1>10, <1>11, <1>12, <1>13, <2>1
<1>16. \A k \in Nat : 1 <= k /\ k <= 8 => t[1 + Len(a) + k] = b[k]
  <2>. SUFFICES ASSUME NEW k \in Nat, 1 <= k, k <= 8 PROVE t[1 + Len(a) + k] = b[k]
    OBVIOUS
  <2>1. /\ 1 + Len(a) + k \in Nat /\ 1 <= 1 + Len(a) + k /\ 1 + Len(a) + k <= 9 + Len(a)
        /\ 1 + Len(a) + k <= 122 + Len(a)
    BY <1>8
  <2>. QED
    BY <1>11, <1>12, <1>13, <2>1
<1>17. \A k \in Nat : 1 <= k /\ k <= 113 => t[9 + Len(a) + k] = c[k]
  <2>. SUFFICES ASSUME NEW k \in Nat, 1 <= k, k <= 113 PROVE t[9 + Len(a) + k] = c[k]
    OBVIOUS
  <2>1. 9 + Len(a) + k \in Nat /\ 1 <= 9 + Len(a) + k /\ 9 + Len(a) + k <= 122 + Len(a)
    BY <1>8
  <2>. QED
    BY <1>12, <1>13, <2>1
<1>. QED
  BY <1>3, <1>9, <1>13, <1>14, <1>15, <1>16, <1>17, Zenon DEF IsSignData, a, b, c, d

LEMMA AddressData ==
  ASSUME NEW r, IsRequest(r), r.kind = "address"
  PROVE  IsAddressData(r)
<1>. DEFINE c == r.envelope
            d == r.wallet
            h == <<r.service>>
            z == Cat(h, c)
            t == Cat(z, d)
<1>1. c \in Seq(Byte) /\ d \in Seq(Byte) /\ Len(c) = 113
  BY DEF IsRequest, IsBytes, EnvelopeLen, PointLen
<1>2. h \in Seq(Byte) /\ Len(h) = 1
  BY DEF IsRequest
<1>3. Data(r) = t
  <2>1. r.kind # "sign"
    OBVIOUS
  <2>. QED
    BY <2>1, Zenon DEF Data, Cat
<1>. HIDE DEF h
<1>4. IsCat(h, c, z)
  BY <1>1, <1>2, CatIs
<1>. HIDE DEF z
<1>5. z \in Seq(Byte) /\ IsCat(z, d, t)
  <2>1. z \in Seq(Byte)
    BY <1>4 DEF IsCat
  <2>. QED
    BY <1>1, <2>1, CatIs
<1>. HIDE DEF t
<1>6. Len(d) \in Nat
  BY <1>1
<1>7. Len(z) = 114
  BY <1>1, <1>2, <1>4 DEF IsCat
<1>8. Len(t) = 114 + Len(d)
  BY <1>5, <1>6, <1>7 DEF IsCat
<1>. HIDE DEF c, d
<1>9. \A k \in Nat : 1 <= k /\ k <= 113 => z[1 + k] = c[k]
  BY <1>1, <1>2, <1>4 DEF IsCat
<1>10. /\ \A k \in Nat : 1 <= k /\ k <= 114 => t[k] = z[k]
       /\ \A k \in Nat : 1 <= k /\ k <= Len(d) => t[114 + k] = d[k]
  BY <1>5, <1>7 DEF IsCat
<1>11. \A k \in Nat : 1 <= k /\ k <= 113 => t[1 + k] = c[k]
  BY <1>9, <1>10
<1>. QED
  BY <1>3, <1>8, <1>10, <1>11, Zenon DEF IsAddressData, c, d

-----------------------------------------------------------------------------
(* What an assignment to fields of g_tx leaves.                            *)

ReceiveAddrs == Array(70)
Lens         == {0, 34, 66}
WithFieldReceiver(g, v, a, n) ==
  [g EXCEPT !.service_index = v, !.receiveAddr = a, !.receiveAddrLen = n]
WithFieldAmount(g, b) == [g EXCEPT !.amount = b]
WithTransaction(g, s, t) == [g EXCEPT !.senderAddr = s, !.tx = t]

SameReceiver(g, h) ==
  /\ h.service_index = g.service_index /\ h.receiveAddr = g.receiveAddr
  /\ h.receiveAddrLen = g.receiveAddrLen

LEMMA ReceiverAssigned ==
  ASSUME NEW g \in Transfers, NEW v \in Byte, NEW a \in ReceiveAddrs, NEW n \in Lens
  PROVE  LET h == WithFieldReceiver(g, v, a, n)
         IN  /\ h \in Transfers /\ h.service_index = v /\ h.receiveAddr = a
             /\ h.receiveAddrLen = n
BY DEF Transfers, WithFieldReceiver, ReceiveAddrs, Lens

LEMMA AmountAssigned ==
  ASSUME NEW g \in Transfers, NEW b \in Array(8)
  PROVE  LET h == WithFieldAmount(g, b)
         IN  h \in Transfers /\ SameReceiver(g, h) /\ h.amount = b
BY DEF Transfers, WithFieldAmount, SameReceiver

HasTransaction(h, g, s, t) ==
  /\ h \in Transfers /\ SameReceiver(g, h) /\ h.amount = g.amount
  /\ h.senderAddr = s /\ h.tx = t

LEMMA TransactionAssigned ==
  ASSUME NEW g \in Transfers, NEW s \in Seq(Byte), NEW t \in Seq(Byte)
  PROVE  HasTransaction(WithTransaction(g, s, t), g, s, t)
BY DEF Transfers, WithTransaction, SameReceiver, HasTransaction

-----------------------------------------------------------------------------
(* The inductive invariant.                                                *)

RLen       == Len(request.receiver)
EnvelopeAt == IF request.kind = "sign" THEN 9 + RLen ELSE 1
CursorAt(n) == at = n /\ left = Len(Data(request)) - n

\* Where dataBuffer is at each step, and what dataLength is then.
CursorInv ==
  /\ step # "idle" => request \in Requests
  /\ step = "address" => request.kind = "address" /\ CursorAt(0)
  /\ step = "sign" => request.kind = "sign" /\ CursorAt(0)
  /\ step \in {"amount", "format"} => request.kind = "sign" /\ CursorAt(1 + RLen)
  /\ step = "envelope" => CursorAt(EnvelopeAt)
  /\ step = "build" => request.kind = "sign"

ReceiverInv ==
  request.kind = "sign" /\ step \in {"amount", "format", "envelope", "build", "review"} =>
    /\ g_tx.service_index = request.service /\ g_tx.receiveAddrLen = RLen
    /\ Prefix(g_tx.receiveAddr, RLen) = request.receiver
    /\ g_addr = Prefix(request.receiver, 34)

AmountInv ==
  /\ request.kind = "sign" /\ step \in {"format", "envelope", "build", "review"} =>
       g_tx.amount = request.amount
  /\ step = "format" => stage # "idle" /\ value = BigEndian(request.amount)

ShownInv ==
  request.kind = "sign" /\ step \in {"envelope", "build", "review"} =>
    Denotes(g_amount, BigEndian(request.amount))

WalletInv ==
  /\ step \in {"build", "review"} =>
       /\ envelope = request.envelope /\ cipher = request.wallet
       /\ walletLen = Len(request.wallet) /\ request.envelope \in Genuine
  /\ step = "refused" => request.envelope \notin Genuine

HashInv ==
  request.kind = "sign" /\ step = "review" =>
    /\ g_tx.senderAddr \in Senders
    /\ g_tx.tx = Transaction(g_tx.senderAddr, request.receiver, request.amount)

RequestInv == /\ Inv /\ RequestTypeOK /\ CursorInv /\ ReceiverInv /\ AmountInv
              /\ ShownInv /\ WalletInv /\ HashInv

\* What memcpy takes from the data, given the bytes that are there.
InData(offset, b) ==
  \A k \in Nat : 1 <= k /\ k <= Len(b) => Data(request)[at + offset + k] = b[k]

LEMMA BytesAre ==
  ASSUME NEW b \in Seq(Byte), NEW offset, InData(offset, b)
  PROVE  Bytes(offset, Len(b)) = b
<1>1. Len(b) \in Nat /\ b = [k \in 1..Len(b) |-> b[k]]
  OBVIOUS
<1>2. \A k \in 1..Len(b) : Data(request)[at + offset + k] = b[k]
  BY <1>1 DEF InData
<1>3. [k \in 1..Len(b) |-> Data(request)[at + offset + k]] = [k \in 1..Len(b) |-> b[k]]
  BY <1>2
<1>. QED
  BY <1>1, <1>3, Zenon DEF Bytes

LEMMA BytesInArray ==
  ASSUME NEW b \in Seq(Byte)
  PROVE  b \in Array(Len(b))
BY DEF Array

LEMMA Remainders ==
  \A n \in Nat : /\ n < 65536 => n % 65536 = n
                 /\ n < 256 => n % 256 = n
                 /\ n % 2 = 0 <=> ~(n % 2 = 1)
OBVIOUS

IsFixed(r) ==
  /\ r.kind \in {"sign", "address"} /\ r.service \in Byte
  /\ r.envelope \in Seq(Byte) /\ Len(r.envelope) = 113
  /\ r.wallet \in Seq(Byte) /\ Len(r.wallet) \in Nat /\ Len(r.wallet) > 38
  /\ Len(Data(r)) \in Nat /\ Len(Data(r)) < 256
IsSign(r) ==
  /\ r.receiver \in Seq(Byte) /\ Len(r.receiver) \in Nat
  /\ Len(r.receiver) = 34 \/ Len(r.receiver) = 66
  /\ r.receiver[2] % 2 = 0 <=> Len(r.receiver) = 34
  /\ r.amount \in Seq(Byte) /\ Len(r.amount) = 8 /\ BigEndian(r.amount) \in Values

LEMMA RequestFields ==
  ASSUME NEW r \in Requests
  PROVE  /\ IsFixed(r)
         /\ r.kind = "sign" => IsSign(r) /\ IsSignData(r)
         /\ r.kind = "address" => IsAddressData(r)
<1>1. IsRequest(r)
  BY RequestsOK
<1>2. r.kind = "sign" => IsSignData(r)
  BY <1>1, SignData
<1>3. r.kind = "address" => IsAddressData(r)
  BY <1>1, AddressData
<1>4. r.kind \in {"sign", "address"}
  BY <1>1 DEF IsRequest
<1>5. /\ r.service \in Byte /\ r.envelope \in Seq(Byte) /\ Len(r.envelope) = 113
      /\ r.wallet \in Seq(Byte) /\ Len(r.wallet) \in Nat /\ Len(r.wallet) > 38
      /\ Len(Data(r)) < 256
  BY <1>1 DEF IsRequest, IsBytes, EnvelopeLen, PointLen
<1>6. r.kind = "sign" => IsSign(r)
  <2>. SUFFICES ASSUME r.kind = "sign" PROVE IsSign(r)
    OBVIOUS
  <2>1. /\ IsReceiver(r.receiver) /\ r.amount \in Seq(Byte) /\ Len(r.amount) = 8
        /\ BigEndian(r.amount) \in Values
    BY <1>1 DEF IsRequest, IsBytes
  <2>2. r.receiver \in Seq(Byte) /\ (Len(r.receiver) = 34 \/ Len(r.receiver) = 66)
    BY <2>1 DEF IsReceiver
  <2>3. r.receiver[2] % 2 = 0 <=> Len(r.receiver) = 34
    <3>1. r.receiver[2] \in Nat /\ (r.receiver[2] % 2 = 1 <=> Len(r.receiver) = 66)
      BY <2>1 DEF IsReceiver
    <3>2. r.receiver[2] % 2 = 0 <=> ~(r.receiver[2] % 2 = 1)
      BY <3>1, Remainders
    <3>. DEFINE p == r.receiver[2] % 2
                q == Len(r.receiver)
    <3>. HIDE DEF p, q
    <3>3. (p = 1 <=> q = 66) /\ (p = 0 <=> ~(p = 1)) /\ (q = 34 \/ q = 66)
      BY <2>2, <3>1, <3>2 DEF p, q
    <3>4. p = 0 <=> q = 34
      BY <3>3
    <3>. QED
      BY <3>4 DEF p, q
  <2>. QED
    BY <2>1, <2>2, <2>3 DEF IsSign
<1>7. Len(Data(r)) \in Nat
  <2>1. r.kind = "address" => Len(Data(r)) \in Nat
    BY <1>3, <1>5 DEF IsAddressData
  <2>2. r.kind = "sign" => Len(Data(r)) \in Nat
    BY <1>2, <1>5, <1>6 DEF IsSignData, IsSign
  <2>. QED
    BY <1>4, <2>1, <2>2
<1>. QED
  BY <1>2, <1>3, <1>4, <1>5, <1>6, <1>7 DEF IsFixed

-----------------------------------------------------------------------------
(* The steps.                                                              *)

LEMMA RequestInvInit == RequestInit => RequestInv
<1>. SUFFICES ASSUME RequestInit PROVE RequestInv
  OBVIOUS
<1>1. Inv /\ TypeOK
  BY InvInit DEF RequestInit, Inv
<1>2. g_tx \in Transfers
  <2>1. 0 \in Byte /\ <<>> \in Seq(Byte) /\ 0 \in {0, 34, 66}
    BY DEF Byte
  <2>2. [k \in 1..70 |-> 0] \in [1..70 -> Byte] /\ [k \in 1..8 |-> 0] \in [1..8 -> Byte]
    BY <2>1
  <2>. QED
    BY <2>1, <2>2 DEF RequestInit, Transfers, Array
<1>3. g_amount \in [0..(TextLen - 1) -> Char]
  BY ZeroedText, SizesOK DEF RequestInit
<1>4. RequestTypeOK
  BY <1>1, <1>2, <1>3 DEF RequestInit, RequestTypeOK, Steps
<1>5. step = "idle" /\ request.kind = "none"
  BY DEF RequestInit, NoRequest
<1>. QED
  BY <1>1, <1>4, <1>5
     DEF RequestInv, CursorInv, ReceiverInv, AmountInv, ShownInv, WalletInv, HashInv

LEMMA ReceiveKeeps ==
  ASSUME RequestInv, NEW r \in Requests, Receive(r)
  PROVE  RequestInv'
<1>1. IsFixed(r)
  BY RequestFields
<1>2. /\ step' = r.kind /\ request' = r /\ at' = 0 /\ left' = Len(Data(r)) /\ walletLen' = 0
      /\ UNCHANGED <<g_tx, g_addr, g_amount, formatVars>>
  BY DEF Receive
<1>3. r.kind \in {"sign", "address"} /\ Len(Data(r)) \in Nat /\ Len(Data(r)) < 256
  BY <1>1 DEF IsFixed
<1>4. Inv' /\ TypeOK'
  BY <1>2, InvStep DEF RequestInv, Inv
<1>5. RequestTypeOK'
  BY <1>2, <1>3, <1>4 DEF RequestInv, RequestTypeOK, Steps
<1>6. CursorInv'
  BY <1>2, <1>3 DEF CursorInv, CursorAt
<1>7. ReceiverInv' /\ AmountInv' /\ ShownInv' /\ WalletInv' /\ HashInv'
  BY <1>2, <1>3 DEF ReceiverInv, AmountInv, ShownInv, WalletInv, HashInv
<1>. QED
  BY <1>4, <1>5, <1>6, <1>7 DEF RequestInv

LEMMA ParseServiceKeeps ==
  ASSUME RequestInv, ParseService
  PROVE  RequestInv'
<1>1. /\ step = "address" /\ step' = "envelope" /\ at' = at + 1 /\ left' = (left - 1) % 65536
      /\ UNCHANGED <<request, g_tx, g_addr, g_amount, walletVars, formatVars>>
  BY DEF ParseService, Advance
<1>2. request \in Requests /\ request.kind = "address" /\ at = 0 /\ left = Len(Data(request))
  BY <1>1 DEF RequestInv, CursorInv, CursorAt, RequestTypeOK
<1>3. Len(Data(request)) = 114 + Len(request.wallet) /\ Len(request.wallet) \in Nat
      /\ Len(Data(request)) < 256
  BY <1>2, RequestFields DEF IsAddressData, IsFixed
<1>4. at' = 1 /\ left' = Len(Data(request)) - 1 /\ left' \in Nat /\ left' < 65536
  <2>1. left - 1 \in Nat /\ left - 1 < 65536
    BY <1>2, <1>3
  <2>2. left' = left - 1
    BY <1>1, <2>1, Remainders
  <2>. QED
    BY <1>1, <1>2, <2>1, <2>2
<1>5. Inv' /\ TypeOK'
  BY <1>1, InvStep DEF RequestInv, Inv
<1>6. RequestTypeOK'
  BY <1>1, <1>4, <1>5 DEF RequestInv, RequestTypeOK, Steps, walletVars
<1>7. CursorInv'
  BY <1>1, <1>2, <1>4 DEF CursorInv, CursorAt, EnvelopeAt
<1>8. ReceiverInv' /\ AmountInv' /\ ShownInv' /\ WalletInv' /\ HashInv'
  BY <1>1, <1>2 DEF ReceiverInv, AmountInv, ShownInv, WalletInv, HashInv
<1>. QED
  BY <1>5, <1>6, <1>7, <1>8 DEF RequestInv

LEMMA ParseReceiverKeeps ==
  ASSUME RequestInv, ParseReceiver
  PROVE  RequestInv'
<1>. DEFINE n == Len(request.receiver)
            w == Len(request.wallet)
            total == Len(Data(request))
            a == ReceiveAddr(ReceiverLen)
<1>1. /\ step = "sign" /\ step' = "amount"
      /\ g_tx' = WithFieldReceiver(g_tx, Data(request)[at + 1], a, ReceiverLen)
      /\ g_addr' = Prefix(a, 34)
      /\ Advance(1 + ReceiverLen)
      /\ UNCHANGED <<request, g_amount, walletVars, formatVars>>
  BY Zenon DEF ParseReceiver, WithFieldReceiver
<1>2. request \in Requests /\ request.kind = "sign" /\ at = 0 /\ left = total - 0
  BY <1>1 DEF RequestInv, CursorInv, CursorAt
<1>3. /\ n \in Nat /\ (n = 34 \/ n = 66) /\ w \in Nat /\ total = 122 + n + w /\ total < 256
      /\ request.receiver \in Seq(Byte) /\ (request.receiver[2] % 2 = 0 <=> n = 34)
      /\ request.service \in Byte /\ Data(request)[1] = request.service
      /\ \A k \in Nat : 1 <= k /\ k <= n => Data(request)[1 + k] = request.receiver[k]
  BY <1>2, RequestFields DEF IsFixed, IsSign, IsSignData
<1>4. \A k \in Nat : 1 <= k /\ k <= n => request.receiver[k] \in Byte
  BY <1>3
<1>. HIDE DEF n, w, total
<1>5. ReceiverLen = n
  <2>1. 1 <= 2 /\ 2 <= n /\ 2 \in Nat /\ at + 3 = 1 + 2
    BY <1>2, <1>3
  <2>2. Data(request)[at + 3] = request.receiver[2]
    BY <1>3, <2>1
  <2>. QED
    BY <1>3, <2>2 DEF ReceiverLen
<1>6. a \in Array(70) /\ \A k \in Nat : 1 <= k /\ k <= n => a[k] = request.receiver[k]
  <2>1. \A k \in Nat : 1 <= k /\ k <= n => Data(request)[at + 1 + k] = request.receiver[k]
    BY <1>2, <1>3
  <2>2. \A k \in 1..70 : g_tx.receiveAddr[k] \in Byte
    <3>1. g_tx.receiveAddr \in Array(70)
      BY DEF RequestInv, RequestTypeOK, Transfers
    <3>. QED
      BY <3>1 DEF Array
  <2>3. a \in Array(70)
    BY <1>4, <1>5, <2>1, <2>2 DEF Array, ReceiveAddr
  <2>4. ASSUME NEW k \in Nat, 1 <= k, k <= n
        PROVE  a[k] = request.receiver[k]
    <3>1. k \in 1..70
      BY <1>3, <2>4
    <3>2. a[k] = Data(request)[at + 1 + k]
      BY <1>5, <2>4, <3>1 DEF ReceiveAddr
    <3>. QED
      BY <2>1, <2>4, <3>2
  <2>. QED
    BY <2>3, <2>4
<1>. HIDE DEF a
<1>7. Prefix(a, n) = request.receiver
  <2>1. Begins(a, request.receiver)
    BY <1>6 DEF Begins, n
  <2>2. Prefix(a, Len(request.receiver)) = request.receiver
    BY <1>3, <2>1, PrefixIs
  <2>. QED
    BY <2>2 DEF n
<1>8. Prefix(a, 34) = Prefix(request.receiver, 34)
  <2>1. ASSUME NEW k \in 1..34
        PROVE  a[k] = request.receiver[k]
    <3>1. k \in Nat /\ 1 <= k /\ k <= n
      BY <1>3
    <3>. QED
      BY <1>6, <3>1
  <2>. QED
    BY <2>1 DEF Prefix
<1>9. g_tx' \in Transfers /\ g_tx'.service_index = request.service
      /\ g_tx'.receiveAddr = a /\ g_tx'.receiveAddrLen = n
  <2>1. g_tx \in Transfers /\ n \in Lens /\ at + 1 = 1
    BY <1>2, <1>3 DEF RequestInv, RequestTypeOK, Lens
  <2>2. g_tx' = WithFieldReceiver(g_tx, request.service, a, n)
    BY <1>1, <1>3, <1>5, <2>1
  <2>3. LET h == WithFieldReceiver(g_tx, request.service, a, n)
        IN  /\ h \in Transfers /\ h.service_index = request.service /\ h.receiveAddr = a
            /\ h.receiveAddrLen = n
    <3>1. request.service \in Byte /\ a \in ReceiveAddrs /\ g_tx \in Transfers /\ n \in Lens
      BY <1>3, <1>6, <2>1 DEF ReceiveAddrs
    <3>. QED
      BY <3>1, ReceiverAssigned, SMT
  <2>. QED
    BY <2>2, <2>3
<1>10. /\ at' = 1 + n /\ left' = total - (1 + n) /\ left' \in Nat /\ left' < 65536
       /\ at' \in Nat
  <2>1. left - (1 + n) \in Nat /\ left - (1 + n) < 65536
    BY <1>2, <1>3
  <2>2. left' = left - (1 + n) /\ at' = at + (1 + n)
    BY <1>1, <1>5, <2>1, Remainders DEF Advance
  <2>. QED
    BY <1>2, <1>3, <2>1, <2>2
<1>11. Inv' /\ TypeOK'
  BY <1>1, InvStep DEF RequestInv, Inv
<1>12. RequestTypeOK'
  BY <1>1, <1>9, <1>10, <1>11 DEF RequestInv, RequestTypeOK, Steps, walletVars
<1>13. CursorInv'
  <2>1. request' = request /\ step' = "amount" /\ (1 + RLen)' = 1 + n
    BY <1>1 DEF RLen, n
  <2>2. CursorAt(1 + RLen)'
    BY <1>10, <2>1 DEF CursorAt, total
  <2>. QED
    BY <1>2, <2>1, <2>2 DEF CursorInv
<1>14. ReceiverInv'
  BY <1>1, <1>7, <1>8, <1>9 DEF ReceiverInv, RLen, n
<1>15. AmountInv' /\ ShownInv' /\ WalletInv' /\ HashInv'
  BY <1>1 DEF AmountInv, ShownInv, WalletInv, HashInv
<1>. QED
  BY <1>11, <1>12, <1>13, <1>14, <1>15 DEF RequestInv

LEMMA AmountRead ==
  ASSUME RequestInv, ParseAmount
  PROVE  Bytes(0, 8) = request.amount
<1>. DEFINE n == Len(request.receiver)
<1>1. request \in Requests /\ request.kind = "sign" /\ at = 1 + n
  BY DEF ParseAmount, RequestInv, CursorInv, CursorAt, RLen
<1>2. /\ request.amount \in Seq(Byte) /\ Len(request.amount) = 8 /\ n \in Nat
      /\ \A k \in Nat : 1 <= k /\ k <= 8 => Data(request)[1 + n + k] = request.amount[k]
  BY <1>1, RequestFields DEF IsSign, IsSignData
<1>3. InData(0, request.amount)
  BY <1>1, <1>2 DEF InData
<1>4. Bytes(0, Len(request.amount)) = request.amount
  BY <1>2, <1>3, BytesAre
<1>. QED
  BY <1>2, <1>4

LEMMA ParseAmountKeeps ==
  ASSUME RequestInv, ParseAmount
  PROVE  RequestInv'
<1>. DEFINE n == Len(request.receiver)
<1>1. /\ step = "amount" /\ step' = "format"
      /\ g_tx' = [g_tx EXCEPT !.amount = Bytes(0, 8)]
      /\ Format(BigEndian(Bytes(0, 8)))
      /\ UNCHANGED <<request, at, left, g_addr, g_amount, walletVars>>
  BY DEF ParseAmount, cursor
<1>2. request \in Requests /\ request.kind = "sign" /\ at = 1 + n
  BY <1>1 DEF RequestInv, CursorInv, CursorAt, RLen
<1>3. /\ request.amount \in Seq(Byte) /\ Len(request.amount) = 8 /\ n \in Nat
      /\ BigEndian(request.amount) \in Values
      /\ \A k \in Nat : 1 <= k /\ k <= 8 => Data(request)[1 + n + k] = request.amount[k]
  BY <1>2, RequestFields DEF IsSign, IsSignData
<1>4. Bytes(0, 8) = request.amount
  BY AmountRead
<1>5. Format(BigEndian(request.amount))
  BY <1>1, <1>4
<1>6. Inv'
  <2>1. Inv
    BY DEF RequestInv
  <2>. QED
    BY <1>3, <1>5, <2>1, FormatKeeps
<1>7. stage' = "digits" /\ value' = BigEndian(request.amount)
  BY <1>5 DEF Format
<1>8. /\ g_tx' \in Transfers /\ g_tx'.service_index = g_tx.service_index
      /\ g_tx'.receiveAddr = g_tx.receiveAddr /\ g_tx'.receiveAddrLen = g_tx.receiveAddrLen
      /\ g_tx'.amount = request.amount
  <2>1. g_tx \in Transfers
    BY DEF RequestInv, RequestTypeOK
  <2>2. request.amount \in Array(8)
    BY <1>3, BytesInArray
  <2>3. g_tx' = WithFieldAmount(g_tx, request.amount)
    BY <1>1, <1>4 DEF WithFieldAmount
  <2>. QED
    BY <2>1, <2>2, <2>3, AmountAssigned, Zenon DEF SameReceiver
<1>9. RequestTypeOK'
  BY <1>1, <1>6, <1>8 DEF RequestInv, Inv, RequestTypeOK, Steps, walletVars
<1>10. CursorInv'
  BY <1>1, <1>2 DEF RequestInv, CursorInv, CursorAt, RLen
<1>11. ReceiverInv'
  BY <1>1, <1>2, <1>8 DEF RequestInv, ReceiverInv, RLen
<1>12. AmountInv'
  BY <1>1, <1>7, <1>8 DEF AmountInv
<1>13. ShownInv' /\ WalletInv' /\ HashInv'
  BY <1>1 DEF ShownInv, WalletInv, HashInv
<1>. QED
  BY <1>6, <1>9, <1>10, <1>11, <1>12, <1>13 DEF RequestInv

LEMMA FormatAmountKeeps ==
  ASSUME RequestInv, FormatAmount
  PROVE  RequestInv'
<1>1. /\ step = "format" /\ FormatStep
      /\ UNCHANGED <<step, request, cursor, g_tx, g_addr, g_amount, walletVars>>
  BY DEF FormatAmount
<1>2. Inv' /\ TypeOK'
  BY <1>1, InvStep DEF RequestInv, Inv, Next
<1>3. stage' # "idle" /\ value' = value
  BY <1>1 DEF RequestInv, AmountInv, FormatStep, NextDigit, LastDigit, SwapDigits, PlacePoint
<1>4. RequestTypeOK'
  BY <1>1, <1>2 DEF RequestInv, RequestTypeOK, cursor, walletVars
<1>5. CursorInv'
  BY <1>1 DEF RequestInv, CursorInv, CursorAt, RLen, cursor
<1>6. ReceiverInv'
  BY <1>1 DEF RequestInv, ReceiverInv, RLen
<1>7. AmountInv'
  BY <1>1, <1>3 DEF RequestInv, AmountInv
<1>8. ShownInv' /\ WalletInv' /\ HashInv'
  BY <1>1 DEF ShownInv, WalletInv, HashInv
<1>. QED
  BY <1>2, <1>4, <1>5, <1>6, <1>7, <1>8 DEF RequestInv

LEMMA ShowAmountKeeps ==
  ASSUME RequestInv, ShowAmount
  PROVE  RequestInv'
<1>. DEFINE n == Len(request.receiver)
            w == Len(request.wallet)
            total == Len(Data(request))
<1>1. /\ step = "format" /\ Idle /\ step' = "envelope" /\ g_amount' = text
      /\ at' = at + 8 /\ left' = (left - 8) % 65536
      /\ UNCHANGED <<request, g_tx, g_addr, walletVars, formatVars>>
  BY DEF ShowAmount, Advance
<1>2. request \in Requests /\ request.kind = "sign" /\ at = 1 + n /\ left = total - (1 + n)
  BY <1>1 DEF RequestInv, CursorInv, CursorAt, RLen
<1>3. n \in Nat /\ w \in Nat /\ total = 122 + n + w /\ total < 256
  BY <1>2, RequestFields DEF IsSign, IsFixed, IsSignData
<1>. HIDE DEF n, w, total
<1>4. at' = 9 + n /\ left' = total - (9 + n) /\ left' \in Nat /\ left' < 65536 /\ at' \in Nat
  <2>1. left - 8 \in Nat /\ left - 8 < 65536 /\ left - 8 = total - (9 + n)
    BY <1>2, <1>3
  <2>2. left' = left - 8
    BY <1>1, <2>1, Remainders
  <2>. QED
    BY <1>1, <1>2, <1>3, <2>1, <2>2
<1>5. Denotes(g_amount', BigEndian(request.amount))
  <2>1. stage = "done"
    BY <1>1 DEF RequestInv, Inv, AmountInv, Idle
  <2>2. Denotes(text, value) /\ value = BigEndian(request.amount)
    BY <1>1, <2>1 DEF RequestInv, Inv, ShowsAmount, AmountInv
  <2>. QED
    BY <1>1, <2>2
<1>6. Inv' /\ TypeOK'
  BY <1>1, InvStep DEF RequestInv, Inv
<1>7. RequestTypeOK'
  <2>1. text \in [0..(TextLen - 1) -> Char]
    BY DEF RequestInv, RequestTypeOK, TypeOK
  <2>. QED
    BY <1>1, <1>3, <1>4, <1>6, <2>1 DEF RequestInv, RequestTypeOK, Steps, walletVars
<1>8. CursorInv'
  <2>1. request' = request /\ step' = "envelope" /\ EnvelopeAt' = 9 + n
    BY <1>1, <1>2 DEF EnvelopeAt, RLen, n
  <2>2. at' = EnvelopeAt' /\ left' = total - EnvelopeAt'
    BY <1>4, <2>1
  <2>3. CursorAt(EnvelopeAt)'
    BY <2>1, <2>2 DEF CursorAt, total
  <2>. QED
    BY <1>2, <2>1, <2>3 DEF CursorInv
<1>9. ReceiverInv' /\ AmountInv'
  BY <1>1, <1>2 DEF RequestInv, ReceiverInv, RLen, AmountInv
<1>10. ShownInv'
  BY <1>1, <1>5 DEF ShownInv
<1>11. WalletInv' /\ HashInv'
  BY <1>1 DEF WalletInv, HashInv
<1>. QED
  BY <1>6, <1>7, <1>8, <1>9, <1>10, <1>11 DEF RequestInv

LEMMA EcdhThrowsKeeps ==
  ASSUME RequestInv, EcdhThrows
  PROVE  RequestInv'
<1>1. /\ step' = "idle"
      /\ UNCHANGED <<request, cursor, g_tx, g_addr, g_amount, walletVars, formatVars>>
  BY DEF EcdhThrows
<1>2. Inv' /\ TypeOK'
  BY <1>1, InvStep DEF RequestInv, Inv
<1>3. RequestTypeOK'
  BY <1>1, <1>2 DEF RequestInv, RequestTypeOK, Steps, cursor, walletVars
<1>4. /\ CursorInv' /\ ReceiverInv' /\ AmountInv' /\ ShownInv' /\ WalletInv' /\ HashInv'
  BY <1>1 DEF CursorInv, ReceiverInv, AmountInv, ShownInv, WalletInv, HashInv
<1>. QED
  BY <1>2, <1>3, <1>4 DEF RequestInv

LEMMA DecryptKeeps ==
  ASSUME RequestInv, Decrypt
  PROVE  RequestInv'
<1>. DEFINE w == Len(request.wallet)
            total == Len(Data(request))
            dataLen == ((left - PointLen) % 65536) % 256
            len == dataLen - 16 - 32
<1>1. /\ step = "envelope" /\ Advance(PointLen)
      /\ envelope' = Bytes(0, EnvelopeLen) /\ cipher' = Bytes(EnvelopeLen, len)
      /\ walletLen' = WalletLenFor(len)
      /\ step' = IF walletLen' = 5 THEN "refused"
                 ELSE IF request.kind = "sign" THEN "build" ELSE "review"
      /\ UNCHANGED <<request, g_tx, g_addr, g_amount, formatVars>>
  BY DEF Decrypt
<1>2. request \in Requests /\ at = EnvelopeAt /\ left = total - EnvelopeAt
  BY <1>1 DEF RequestInv, CursorInv, CursorAt
<1>3. /\ request.kind \in {"sign", "address"}
      /\ request.envelope \in Seq(Byte) /\ Len(request.envelope) = 113
      /\ request.wallet \in Seq(Byte) /\ w \in Nat /\ w > 38 /\ total < 256
  BY <1>2, RequestFields DEF IsFixed
<1>4. /\ EnvelopeAt \in Nat /\ total = EnvelopeAt + 113 + w
      /\ Begins([k \in Nat |-> Data(request)[EnvelopeAt + k]], request.envelope)
      /\ Begins([k \in Nat |-> Data(request)[EnvelopeAt + 113 + k]], request.wallet)
  <2>. HIDE DEF w, total
  <2>1. CASE request.kind = "sign"
    <3>. DEFINE n == Len(request.receiver)
    <3>1. /\ n \in Nat /\ total = 122 + n + w /\ EnvelopeAt = 9 + n
          /\ \A k \in Nat : 1 <= k /\ k <= 113 => Data(request)[9 + n + k] = request.envelope[k]
          /\ \A k \in Nat : 1 <= k /\ k <= w => Data(request)[122 + n + k] = request.wallet[k]
      BY <1>2, <2>1, RequestFields DEF IsSign, IsSignData, EnvelopeAt, RLen, w, total
    <3>. HIDE DEF n
    <3>2. EnvelopeAt \in Nat /\ EnvelopeAt + 113 = 122 + n
      BY <3>1
    <3>3. Begins([k \in Nat |-> Data(request)[EnvelopeAt + k]], request.envelope)
      BY <1>3, <3>1 DEF Begins
    <3>4. Begins([k \in Nat |-> Data(request)[EnvelopeAt + 113 + k]], request.wallet)
      BY <1>3, <3>1, <3>2 DEF Begins, w
    <3>. QED
      BY <3>1, <3>2, <3>3, <3>4
  <2>2. CASE request.kind = "address"
    <3>1. /\ total = 114 + w /\ EnvelopeAt = 1
          /\ \A k \in Nat : 1 <= k /\ k <= 113 => Data(request)[1 + k] = request.envelope[k]
          /\ \A k \in Nat : 1 <= k /\ k <= w => Data(request)[114 + k] = request.wallet[k]
      BY <1>2, <2>2, RequestFields DEF IsAddressData, EnvelopeAt, w, total
    <3>2. Begins([k \in Nat |-> Data(request)[EnvelopeAt + k]], request.envelope)
      BY <1>3, <3>1 DEF Begins
    <3>3. Begins([k \in Nat |-> Data(request)[EnvelopeAt + 113 + k]], request.wallet)
      BY <1>3, <3>1 DEF Begins, w
    <3>. QED
      BY <1>3, <3>1, <3>2, <3>3
  <2>. QED
    BY <1>3, <2>1, <2>2
<1>. HIDE DEF w, total
<1>5. len = w /\ left' \in Nat /\ left' < 65536 /\ at' \in Nat
  <2>1. left - 65 \in Nat /\ left - 65 < 256 /\ left - 65 < 65536 /\ left - 65 = 48 + w
    BY <1>2, <1>3, <1>4
  <2>2. (left - 65) % 65536 = left - 65 /\ (left - 65) % 256 = left - 65
    BY <2>1, Remainders
  <2>3. dataLen = 48 + w
    BY <2>1, <2>2 DEF PointLen
  <2>4. left' = left - 65 /\ at' = at + 65
    BY <1>1, <2>2 DEF PointLen, Advance
  <2>. HIDE DEF dataLen
  <2>. QED
    BY <1>2, <1>3, <1>4, <2>1, <2>3, <2>4
<1>. HIDE DEF len
<1>6. envelope' = request.envelope
  <2>1. InData(0, request.envelope)
    BY <1>2, <1>4 DEF Begins, InData
  <2>2. request.envelope \in Seq(Byte)
    BY <1>3
  <2>3. Bytes(0, Len(request.envelope)) = request.envelope
    BY <2>1, <2>2, BytesAre
  <2>. QED
    BY <1>1, <1>3, <2>3 DEF EnvelopeLen, PointLen
<1>7. cipher' = request.wallet
  <2>1. InData(113, request.wallet)
    BY <1>2, <1>4 DEF Begins, InData
  <2>2. Bytes(113, Len(request.wallet)) = request.wallet
    BY <1>3, <2>1, BytesAre
  <2>. QED
    BY <1>1, <1>5, <2>2 DEF EnvelopeLen, PointLen, w
<1>8. /\ walletLen' = IF request.envelope \in Genuine THEN w ELSE 5
      /\ walletLen' = 5 <=> request.envelope \notin Genuine
      /\ walletLen' \in Nat /\ walletLen' < 256
  <2>1. walletLen' = IF request.envelope \in Genuine THEN w ELSE 5
    BY <1>1, <1>5, <1>6 DEF WalletLenFor
  <2>2. w < 256
    BY <1>3, <1>4
  <2>. QED
    BY <1>3, <2>1, <2>2
<1>9. /\ request.envelope \notin Genuine => step' = "refused"
      /\ request.envelope \in Genuine =>
           step' = IF request.kind = "sign" THEN "build" ELSE "review"
  BY <1>1, <1>8
<1>10. Inv' /\ TypeOK'
  BY <1>1, InvStep DEF RequestInv, Inv
<1>11. RequestTypeOK'
  <2>1. step' \in Steps
    BY <1>9 DEF Steps
  <2>. QED
    BY <1>1, <1>5, <1>8, <1>10, <2>1 DEF RequestInv, RequestTypeOK
<1>12. CursorInv'
  BY <1>1, <1>2, <1>9 DEF CursorInv
<1>13. ReceiverInv' /\ AmountInv'
  BY <1>1, <1>9 DEF RequestInv, ReceiverInv, RLen, AmountInv
<1>14. ShownInv'
  BY <1>1 DEF RequestInv, ShownInv
<1>15. WalletInv'
  BY <1>1, <1>6, <1>7, <1>8, <1>9 DEF WalletInv, w
<1>16. HashInv'
  BY <1>1, <1>9, <1>3 DEF HashInv
<1>. QED
  BY <1>10, <1>11, <1>12, <1>13, <1>14, <1>15, <1>16 DEF RequestInv

LEMMA BuildTransferKeeps ==
  ASSUME RequestInv, NEW s \in Senders, BuildTransfer(s)
  PROVE  RequestInv'
<1>. DEFINE t == Transaction(s, Prefix(g_tx.receiveAddr, g_tx.receiveAddrLen), g_tx.amount)
<1>1. /\ step = "build" /\ step' = "review"
      /\ g_tx' = [g_tx EXCEPT !.senderAddr = s, !.tx = t]
      /\ UNCHANGED <<request, cursor, g_addr, g_amount, walletVars, formatVars>>
  BY Zenon DEF BuildTransfer
<1>2. request \in Requests /\ request.kind = "sign"
  BY <1>1 DEF RequestInv, CursorInv
<1>3. t = Transaction(s, request.receiver, request.amount)
  BY <1>1, <1>2 DEF RequestInv, ReceiverInv, AmountInv
<1>4. s \in Seq(Byte) /\ request.receiver \in Seq(Byte) /\ request.amount \in Seq(Byte)
  BY <1>2, RequestFields, RequestsOK DEF IsSign, IsBytes
<1>5. t \in Seq(Byte)
  <2>1. HasParts(s, request.receiver, request.amount)
    BY <1>4, Parts
  <2>2. Transaction(s, request.receiver, request.amount) \in Seq(Byte)
    BY <2>1, Zenon DEF HasParts, IsCat
  <2>. QED
    BY <1>3, <2>2
<1>. HIDE DEF t
<1>6. g_tx' \in Transfers /\ g_tx'.senderAddr = s /\ g_tx'.tx = t
      /\ g_tx'.service_index = g_tx.service_index /\ g_tx'.receiveAddr = g_tx.receiveAddr
      /\ g_tx'.receiveAddrLen = g_tx.receiveAddrLen /\ g_tx'.amount = g_tx.amount
  <2>1. g_tx \in Transfers
    BY DEF RequestInv, RequestTypeOK
  <2>2. g_tx' = WithTransaction(g_tx, s, t)
    BY <1>1 DEF WithTransaction
  <2>3. HasTransaction(g_tx', g_tx, s, t)
    BY <1>4, <1>5, <2>1, <2>2, TransactionAssigned, Zenon
  <2>. QED
    BY <2>3 DEF HasTransaction, SameReceiver
<1>7. Inv' /\ TypeOK'
  BY <1>1, InvStep DEF RequestInv, Inv
<1>8. RequestTypeOK'
  BY <1>1, <1>6, <1>7 DEF RequestInv, RequestTypeOK, Steps, cursor, walletVars
<1>9. CursorInv'
  BY <1>1, <1>2 DEF CursorInv
<1>10. ReceiverInv' /\ AmountInv' /\ ShownInv'
  BY <1>1, <1>6 DEF RequestInv, ReceiverInv, RLen, AmountInv, ShownInv
<1>11. WalletInv'
  BY <1>1 DEF RequestInv, WalletInv, walletVars
<1>12. HashInv'
  BY <1>1, <1>3, <1>6 DEF HashInv
<1>. QED
  BY <1>7, <1>8, <1>9, <1>10, <1>11, <1>12 DEF RequestInv

LEMMA RequestInvStep == RequestInv /\ [RequestNext]_requestVars => RequestInv'
<1>. SUFFICES ASSUME RequestInv, [RequestNext]_requestVars PROVE RequestInv'
  OBVIOUS
<1>1. ASSUME NEW r \in Requests, Receive(r) PROVE RequestInv'
  BY <1>1, ReceiveKeeps
<1>2. ASSUME NEW s \in Senders, BuildTransfer(s) PROVE RequestInv'
  BY <1>2, BuildTransferKeeps
<1>3. CASE UNCHANGED requestVars
  <2>1. UNCHANGED <<step, request, at, left, g_tx, g_addr, g_amount, walletVars, formatVars>>
    BY <1>3 DEF requestVars, cursor
  <2>2. Inv' /\ TypeOK'
    BY <2>1, InvStep DEF RequestInv, Inv
  <2>3. RequestTypeOK'
    BY <2>1, <2>2 DEF RequestInv, RequestTypeOK, walletVars
  <2>4. CursorInv'
    BY <2>1 DEF RequestInv, CursorInv, CursorAt, EnvelopeAt, RLen
  <2>5. ReceiverInv' /\ AmountInv' /\ ShownInv'
    BY <2>1 DEF RequestInv, ReceiverInv, RLen, AmountInv, ShownInv, formatVars
  <2>6. WalletInv' /\ HashInv'
    BY <2>1 DEF RequestInv, WalletInv, HashInv, walletVars
  <2>. QED
    BY <2>2, <2>3, <2>4, <2>5, <2>6 DEF RequestInv
<1>. QED
  BY <1>1, <1>2, <1>3, ParseServiceKeeps, ParseReceiverKeeps, ParseAmountKeeps,
     FormatAmountKeeps, ShowAmountKeeps, EcdhThrowsKeeps, DecryptKeeps DEF RequestNext

-----------------------------------------------------------------------------
(* The theorems.                                                           *)

\* The locals and globals of the two handlers keep their types; dataLength
\* and the length of the wallet stay in their widths.
THEOREM RequestTypes == RequestSpec => []RequestTypeOK
<1>1. RequestInv => RequestTypeOK
  BY DEF RequestInv
<1>. QED
  BY <1>1, RequestInvInit, RequestInvStep, PTL DEF RequestSpec

\* Whatever the commands, a review is about the fields that were sent.
THEOREM FieldsSent == RequestSpec => []FieldsAsSent
<1>1. RequestInv => FieldsAsSent
  BY DEF RequestInv, FieldsAsSent, Reviewing, ReceiverInv, AmountInv, WalletInv, RLen
<1>. QED
  BY <1>1, RequestInvInit, RequestInvStep, PTL DEF RequestSpec

\* The bytes of the amount are found again in what is hashed, and the text on
\* the display denotes their number.
THEOREM AmountsAgree == RequestSpec => []AmountShownIsHashed
<1>1. RequestInv => AmountShownIsHashed
  <2>. SUFFICES ASSUME RequestInv, step = "review", request.kind = "sign"
                PROVE  Denotes(g_amount, BigEndian(HashedAmount))
    BY DEF AmountShownIsHashed, Reviewing
  <2>1. request \in Requests
    BY DEF RequestInv, CursorInv
  <2>. DEFINE s == g_tx.senderAddr
              r == request.receiver
              a == request.amount
  <2>2. r \in Seq(Byte) /\ a \in Seq(Byte) /\ Len(a) = 8
    BY <2>1, RequestFields DEF IsSign
  <2>3. s \in Seq(Byte) /\ g_tx.tx = Transaction(s, r, a)
    BY RequestsOK DEF RequestInv, HashInv, IsBytes
  <2>. HIDE DEF s, r, a
  <2>4. \A k \in Nat : 1 <= k /\ k <= 8 =>
          Transaction(s, r, a)[Len(Transaction(s, r, a)) - 10 + k] = a[k]
    BY <2>2, <2>3, AmountInTransaction
  <2>5. HashedAmount = [k \in 1..8 |-> a[k]]
    BY <2>3, <2>4 DEF HashedAmount
  <2>6. a = [k \in 1..8 |-> a[k]]
    BY <2>2
  <2>7. Denotes(g_amount, BigEndian(a))
    BY DEF RequestInv, ShownInv, a
  <2>. QED
    BY <2>5, <2>6, <2>7
<1>. QED
  BY <1>1, RequestInvInit, RequestInvStep, PTL DEF RequestSpec

\* What is hashed stands for one transfer: concatenation without separators
\* is injective here, the receiver being the only field of varying length.
THEOREM OneTransfer == RequestSpec => []TransactionIsOneTransfer
<1>1. RequestInv => TransactionIsOneTransfer
  <2>. SUFFICES ASSUME RequestInv, step = "review", request.kind = "sign",
                       NEW r \in Requests, NEW s \in Senders, r.kind = "sign",
                       Transaction(s, r.receiver, r.amount) = g_tx.tx
                PROVE  /\ s = g_tx.senderAddr /\ r.receiver = request.receiver
                       /\ r.amount = request.amount
    BY DEF TransactionIsOneTransfer, Reviewing
  <2>1. request \in Requests
    BY DEF RequestInv, CursorInv
  <2>2. /\ request.receiver \in Seq(Byte) /\ request.amount \in Seq(Byte)
        /\ r.receiver \in Seq(Byte) /\ r.amount \in Seq(Byte)
    BY <2>1, RequestFields DEF IsSign
  <2>3. Len(request.amount) = Len(r.amount)
    BY <2>1, RequestFields DEF IsSign
  <2>4. /\ g_tx.senderAddr \in Senders
        /\ g_tx.tx = Transaction(g_tx.senderAddr, request.receiver, request.amount)
    BY DEF RequestInv, HashInv
  <2>5. s \in Seq(Byte) /\ g_tx.senderAddr \in Seq(Byte) /\ Len(s) = Len(g_tx.senderAddr)
    BY <2>4, RequestsOK DEF IsBytes
  <2>6. SameHashed(s, r.receiver, r.amount,
                   g_tx.senderAddr, request.receiver, request.amount)
    BY <2>3, <2>4, <2>5 DEF SameHashed
  <2>. QED
    BY <2>2, <2>5, <2>6, TransactionInjective
<1>. QED
  BY <1>1, RequestInvInit, RequestInvStep, PTL DEF RequestSpec

\* No genuine wallet is refused, and no other one is reviewed.
THEOREM BadDecodes == RequestSpec => []BadDecodeIsBadTag
<1>1. RequestInv => BadDecodeIsBadTag
  BY DEF RequestInv, BadDecodeIsBadTag, WalletInv
<1>. QED
  BY <1>1, RequestInvInit, RequestInvStep, PTL DEF RequestSpec

\* Within a command, the formatter does what it does by itself: so what holds
\* of AmountText holds here.
THEOREM RequestFormats == RequestSpec => Spec
<1>1. RequestInit => Init
  BY DEF RequestInit
<1>2. RequestInv /\ [RequestNext]_requestVars => [Next]_formatVars
  <2>. SUFFICES ASSUME RequestInv, [RequestNext]_requestVars PROVE [Next]_formatVars
    OBVIOUS
  <2>1. ASSUME ParseAmount PROVE \E v \in Values : Format(v)
    <3>1. /\ Format(BigEndian(Bytes(0, 8)))
          /\ request \in Requests /\ request.kind = "sign" /\ at = 1 + RLen
      BY <2>1 DEF ParseAmount, RequestInv, CursorInv, CursorAt
    <3>2. BigEndian(request.amount) \in Values
      BY <3>1, RequestFields DEF IsSign
    <3>3. Bytes(0, 8) = request.amount
      BY <2>1, AmountRead
    <3>. QED
      BY <3>1, <3>2, <3>3
  <2>2. ASSUME FormatAmount PROVE Next
    BY <2>2 DEF FormatAmount, Next
  <2>3. ASSUME ~ParseAmount, ~FormatAmount PROVE UNCHANGED formatVars
    <3>1. ASSUME NEW r \in Requests, Receive(r) PROVE UNCHANGED formatVars
      BY <3>1 DEF Receive
    <3>2. ASSUME ParseReceiver PROVE UNCHANGED formatVars
      BY <3>2, Zenon DEF ParseReceiver
    <3>3. ASSUME ParseService \/ ShowAmount \/ EcdhThrows PROVE UNCHANGED formatVars
      BY <3>3 DEF ParseService, ShowAmount, EcdhThrows
    <3>4. ASSUME Decrypt PROVE UNCHANGED formatVars
      BY <3>4 DEF Decrypt
    <3>5. ASSUME NEW s \in Senders, BuildTransfer(s) PROVE UNCHANGED formatVars
      BY <3>5, Zenon DEF BuildTransfer
    <3>6. ASSUME UNCHANGED requestVars PROVE UNCHANGED formatVars
      BY <3>6 DEF requestVars
    <3>. QED
      BY <2>3, <3>1, <3>2, <3>3, <3>4, <3>5, <3>6 DEF RequestNext
  <2>. QED
    BY <2>1, <2>2, <2>3 DEF Next
<1>. QED
  BY <1>1, <1>2, RequestInvInit, RequestInvStep, PTL DEF RequestSpec, Spec
=============================================================================
