------------------------- MODULE FrameCodec_proofs -------------------------
(***************************************************************************)
(* Proofs about module FrameCodec, for any base, any messages and any      *)
(* number of packets.                                                      *)
(***************************************************************************)
EXTENDS FrameCodec, SequenceTheorems, TLAPS

-----------------------------------------------------------------------------
(* Arithmetic. *)

\* Quotient and remainder.
LEMMA Division ==
    ASSUME NEW n \in Nat, NEW b \in Nat \ {0}
    PROVE  /\ n \div b \in Nat /\ n % b \in 0 .. b - 1
           /\ n = b * (n \div b) + (n % b)
  OBVIOUS

LEMMA DivisionIsUnique ==
    ASSUME NEW n \in Nat, NEW b \in Nat \ {0}, NEW q \in Nat, NEW r \in 0 .. b - 1,
           n = b * q + r
    PROVE  n \div b = q /\ n % b = r
<1> DEFINE p == n \div b
           s == n % b
<1>1. p \in Nat /\ s \in 0 .. b - 1 /\ n = b * p + s
  BY Division
<1> HIDE DEF p, s
<1>2. b * (p - q) = r - s
  <2>1. b * p + s = b * q + r
    BY <1>1
  <2>2. b * (p - q) = b * p - b * q
    BY <1>1
  <2>3. b * p \in Int /\ b * q \in Int
    BY <1>1
  <2>4. QED
    BY <1>1, <2>1, <2>2, <2>3
<1>3. ~(p > q)
  <2>1. ASSUME p > q PROVE b * (p - q) >= b
    BY <1>1, <2>1
  <2>2. QED
    BY <1>1, <1>2, <2>1
<1>4. ~(p < q)
  <2>1. ASSUME p < q PROVE b * (q - p) >= b
    BY <1>1, <2>1
  <2>2. b * (p - q) = -(b * (q - p))
    BY <1>1
  <2>3. QED
    BY <1>1, <1>2, <2>1, <2>2
<1>5. p = q
  BY <1>1, <1>3, <1>4
<1>6. r = s
  BY <1>1, <1>2, <1>5
<1>7. QED
  BY <1>5, <1>6 DEF p, s

\* A byte of a length gives its digit back, with or without the bit that says that
\* another follows.
LEMMA DigitOfByte ==
    ASSUME NEW x \in 0 .. Base - 1
    PROVE  x % Base = x /\ (x + Base) % Base = x
<1>1. Base \in Nat \ {0} /\ x \in Nat /\ x + Base \in Nat
  BY CodecAssumption
<1>2. x = Base * 0 + x /\ x + Base = Base * 1 + x
  BY <1>1
<1>3. x % Base = x
  BY <1>1, <1>2, DivisionIsUnique
<1>4. (x + Base) % Base = x
  BY <1>1, <1>2, DivisionIsUnique
<1>5. QED
  BY <1>3, <1>4

\* Two digits of a number, as writeInt() makes them.
LEMMA IntRead ==
    ASSUME NEW i \in 0 .. 4 * Base * Base - 1
    PROVE  /\ WriteInt(i) \in Seq(Byte) /\ Len(WriteInt(i)) = 2
           /\ WriteInt(i)[1] * 2 * Base + WriteInt(i)[2] = i
<1> DEFINE b == 2 * Base
<1>1. b \in Nat \ {0} /\ i \in Nat
  BY CodecAssumption
<1> DEFINE q == i \div b
           r == i % b
<1>2. q \in Nat /\ r \in 0 .. b - 1 /\ i = b * q + r
  BY <1>1, Division
<1>3. i < b * b
  BY CodecAssumption
<1>4. WriteInt(i) = <<q, r>>
  BY DEF WriteInt
<1> HIDE DEF q, r
<1>5. q < b
  <2>1. ASSUME q >= b PROVE b * q >= b * b
    BY <1>1, <1>2, <2>1
  <2>2. b * b \in Int /\ b * q \in Int
    BY <1>1, <1>2
  <2>3. QED
    BY <1>1, <1>2, <1>3, <2>1, <2>2
<1>6. q \in Byte /\ r \in Byte
  BY <1>1, <1>2, <1>5 DEF Byte
<1>7. q * 2 * Base + r = i
  BY <1>2, CodecAssumption
<1>8. QED
  BY <1>4, <1>6, <1>7

-----------------------------------------------------------------------------
(* The digits of a length. *)

LEMMA WeightFacts ==
    /\ Weight[1] = 1
    /\ \A k \in 1 .. 5 : Weight[k] \in Nat \ {0}
    /\ \A k \in 1 .. 4 : Weight[k + 1] = Base * Weight[k]
<1>1. Base \in Nat \ {0}
  BY CodecAssumption
<1> DEFINE a == Base * Base
           b == a * Base
           c == b * Base
<1>2. a \in Nat \ {0} /\ b \in Nat \ {0} /\ c \in Nat \ {0}
  BY <1>1
<1>3. a = Base * Base /\ b = Base * a /\ c = Base * b
  BY <1>1, <1>2
<1>4. Weight = <<1, Base, a, b, c>>
  BY DEF Weight
<1> HIDE DEF a, b, c
<1>5. /\ Weight[1] = 1 /\ Weight[2] = Base /\ Weight[3] = a /\ Weight[4] = b /\ Weight[5] = c
  BY <1>4
<1>6. \A k \in 1 .. 5 : Weight[k] \in Nat \ {0}
  BY <1>1, <1>2, <1>5
<1>7. Base = Base * 1
  BY <1>1
<1>8. \A k \in 1 .. 4 : Weight[k + 1] = Base * Weight[k]
  BY <1>3, <1>5, <1>7
<1>9. QED
  BY <1>5, <1>6, <1>8

\* The digit that the k-th turn takes.
DigitOf(n, k) == Quotients(n)[k] % Base

LEMMA QuotientFacts ==
    ASSUME NEW n \in Nat
    PROVE  /\ Quotients(n)[1] = n
           /\ \A k \in 1 .. 5 : Quotients(n)[k] \in Nat
           /\ \A k \in 1 .. 5 : DigitOf(n, k) \in 0 .. Base - 1
           /\ \A k \in 1 .. 4 : Quotients(n)[k] = Base * Quotients(n)[k + 1] + DigitOf(n, k)
           /\ \A k \in 1 .. 4 : Quotients(n)[k] = 0 => Quotients(n)[k + 1] = 0
<1>1. Base \in Nat \ {0}
  BY CodecAssumption
<1> DEFINE q == Quotients(n)
<1>2. /\ q[1] = n /\ q[2] = q[1] \div Base /\ q[3] = q[2] \div Base /\ q[4] = q[3] \div Base
      /\ q[5] = q[4] \div Base
  BY DEF Quotients
<1> HIDE DEF q
<1>3. q[1] \in Nat
  BY <1>2
<1>4. q[2] \in Nat
  BY <1>1, <1>2, <1>3, Division
<1>5. q[3] \in Nat
  BY <1>1, <1>2, <1>4, Division
<1>6. q[4] \in Nat
  BY <1>1, <1>2, <1>5, Division
<1>7. q[5] \in Nat
  BY <1>1, <1>2, <1>6, Division
<1>8. \A k \in 1 .. 5 : q[k] \in Nat
  BY <1>3, <1>4, <1>5, <1>6, <1>7
<1>9. \A k \in 1 .. 4 : q[k + 1] = q[k] \div Base
  BY <1>2
<1>10. \A k \in 1 .. 5 : q[k] % Base \in 0 .. Base - 1
  BY <1>1, <1>8, Division
<1>11. ASSUME NEW k \in 1 .. 4 PROVE q[k] = Base * q[k + 1] + (q[k] % Base)
  <2>1. q[k] \in Nat /\ q[k + 1] = q[k] \div Base
    BY <1>8, <1>9
  <2>2. q[k] = Base * (q[k] \div Base) + (q[k] % Base)
    BY <1>1, <2>1, Division
  <2>3. QED
    BY <2>1, <2>2
<1>12. ASSUME NEW k \in 1 .. 4, q[k] = 0 PROVE q[k + 1] = 0
  <2>1. q[k] = Base * 0 + 0 /\ 0 \in 0 .. Base - 1
    BY <1>1, <1>12
  <2>2. q[k] \div Base = 0
    BY <1>1, <1>8, <2>1, DivisionIsUnique
  <2>3. QED
    BY <1>9, <2>2
<1>13. QED
  BY <1>2, <1>8, <1>10, <1>11, <1>12 DEF q, DigitOf

\* The loop turns for as long as something is left.
LEMMA TurnsFacts ==
    ASSUME NEW n \in Nat
    PROVE  /\ Turns(n) \in 1 .. 5
           /\ \A i \in 2 .. 5 : i <= Turns(n) => Quotients(n)[i] > 0
           /\ \A i \in 2 .. 5 : i > Turns(n) => Quotients(n)[i] = 0
<1> DEFINE q == Quotients(n)
           Ends(k) == \A i \in 2 .. 5 : IF i <= k THEN q[i] > 0 ELSE q[i] = 0
<1>1. /\ q[2] \in Nat /\ q[3] \in Nat /\ q[4] \in Nat /\ q[5] \in Nat
      /\ q[2] = 0 => q[3] = 0
      /\ q[3] = 0 => q[4] = 0
      /\ q[4] = 0 => q[5] = 0
  BY QuotientFacts
<1> HIDE DEF q
<1>2. \E k \in 1 .. 5 : Ends(k)
  <2>1. CASE q[2] = 0
    <3>1. Ends(1)
      BY <1>1, <2>1
    <3>2. QED
      BY <3>1
  <2>2. CASE q[2] > 0 /\ q[3] = 0
    <3>1. Ends(2)
      BY <1>1, <2>2
    <3>2. QED
      BY <3>1
  <2>3. CASE q[2] > 0 /\ q[3] > 0 /\ q[4] = 0
    <3>1. Ends(3)
      BY <1>1, <2>3
    <3>2. QED
      BY <3>1
  <2>4. CASE q[2] > 0 /\ q[3] > 0 /\ q[4] > 0 /\ q[5] = 0
    <3>1. Ends(4)
      BY <1>1, <2>4
    <3>2. QED
      BY <3>1
  <2>5. CASE q[2] > 0 /\ q[3] > 0 /\ q[4] > 0 /\ q[5] > 0
    <3>1. Ends(5)
      BY <1>1, <2>5
    <3>2. QED
      BY <3>1
  <2>6. QED
    BY <1>1, <2>1, <2>2, <2>3, <2>4, <2>5
<1>3. Turns(n) = CHOOSE k \in 1 .. 5 : Ends(k)
  BY DEF Turns, q
<1>4. Turns(n) \in 1 .. 5 /\ Ends(Turns(n))
  BY <1>2, <1>3
<1>5. QED
  BY <1>4 DEF q

\* What the first k - 1 digits come to.
Lows(n) ==
    <<0, DigitOf(n, 1),
      DigitOf(n, 1) + DigitOf(n, 2) * Weight[2],
      DigitOf(n, 1) + DigitOf(n, 2) * Weight[2] + DigitOf(n, 3) * Weight[3],
      DigitOf(n, 1) + DigitOf(n, 2) * Weight[2] + DigitOf(n, 3) * Weight[3]
        + DigitOf(n, 4) * Weight[4]>>

\* A digit added to what is below its weight stays below the next weight.
LEMMA DigitAdded ==
    ASSUME NEW k \in 1 .. 4, NEW low \in 0 .. Weight[k] - 1, NEW x \in 0 .. Base - 1
    PROVE  low + x * Weight[k] \in 0 .. Weight[k + 1] - 1
<1> DEFINE w == Weight[k]
<1>1. w \in Nat \ {0} /\ Weight[k + 1] = Base * w /\ Base \in Nat \ {0}
  <2>1. k \in 1 .. 5 /\ Base \in Nat \ {0}
    BY CodecAssumption
  <2> HIDE DEF w
  <2>2. Weight[k] \in Nat \ {0} /\ Weight[k + 1] = Base * Weight[k]
    BY <2>1, WeightFacts
  <2>3. QED
    BY <2>1, <2>2 DEF w
<1> HIDE DEF w
<1>2. x * w <= (Base - 1) * w
  BY <1>1
<1>3. (Base - 1) * w = Base * w - w
  BY <1>1
<1>4. x * w \in Nat /\ Base * w \in Nat
  BY <1>1
<1>5. low \in 0 .. w - 1
  BY DEF w
<1>6. low + x * w \in 0 .. Base * w - 1
  BY <1>1, <1>2, <1>3, <1>4, <1>5
<1>7. QED
  BY <1>1, <1>6 DEF w

LEMMA LowsFacts ==
    ASSUME NEW n \in Nat
    PROVE  /\ Lows(n)[1] = 0
           /\ \A k \in 1 .. 5 : Lows(n)[k] \in 0 .. Weight[k] - 1
           /\ \A k \in 1 .. 4 : Lows(n)[k + 1] = Lows(n)[k] + DigitOf(n, k) * Weight[k]
           /\ Turns(n) <= 4 => Lows(n)[Turns(n) + 1] = n
<1> DEFINE l == Lows(n)
           q == Quotients(n)
           x == [k \in 1 .. 5 |-> DigitOf(n, k)]
           w == [k \in 1 .. 5 |-> Weight[k]]
<1>1. /\ w[1] = 1
      /\ \A k \in 1 .. 5 : w[k] \in Nat \ {0}
      /\ \A k \in 1 .. 4 : w[k + 1] = Base * w[k]
  BY WeightFacts
<1>2. /\ q[1] = n
      /\ \A k \in 1 .. 5 : q[k] \in Nat /\ x[k] \in 0 .. Base - 1
      /\ \A k \in 1 .. 4 : q[k] = Base * q[k + 1] + x[k]
  BY QuotientFacts
<1>3. Base \in Nat \ {0}
  BY CodecAssumption
<1>4. l[1] = 0 /\ \A k \in 1 .. 4 : l[k + 1] = l[k] + x[k] * w[k]
  <2>1. l = <<0, x[1], x[1] + x[2] * w[2], x[1] + x[2] * w[2] + x[3] * w[3],
              x[1] + x[2] * w[2] + x[3] * w[3] + x[4] * w[4]>>
    BY DEF Lows
  <2>2. 0 + x[1] * w[1] = x[1]
    BY <1>1, <1>2
  <2> HIDE DEF l, x, w
  <2>3. QED
    BY <2>1, <2>2
<1>5. \A k \in 1 .. 5 : l[k] \in 0 .. w[k] - 1
  <2>1. ASSUME NEW k \in 1 .. 4, l[k] \in 0 .. w[k] - 1 PROVE l[k + 1] \in 0 .. w[k + 1] - 1
    <3>1. l[k + 1] = l[k] + x[k] * Weight[k] /\ l[k] \in 0 .. Weight[k] - 1
      BY <1>4, <2>1
    <3>2. x[k] \in 0 .. Base - 1
      BY <1>2
    <3> HIDE DEF l, x
    <3>3. l[k] + x[k] * Weight[k] \in 0 .. Weight[k + 1] - 1
      BY <3>1, <3>2, DigitAdded
    <3>4. QED
      BY <3>1, <3>3
  <2> HIDE DEF l, x, w
  <2>2. l[1] \in 0 .. w[1] - 1
    BY <1>1, <1>4
  <2>3. l[2] \in 0 .. w[2] - 1
    BY <2>1, <2>2
  <2>4. l[3] \in 0 .. w[3] - 1
    BY <2>1, <2>3
  <2>5. l[4] \in 0 .. w[4] - 1
    BY <2>1, <2>4
  <2>6. l[5] \in 0 .. w[5] - 1
    BY <2>1, <2>5
  <2>7. QED
    BY <2>2, <2>3, <2>4, <2>5, <2>6
<1>6. \A k \in 1 .. 5 : n = l[k] + q[k] * w[k]
  <2> HIDE DEF l, x, w, q
  <2>1. ASSUME NEW k \in 1 .. 4, n = l[k] + q[k] * w[k] PROVE n = l[k + 1] + q[k + 1] * w[k + 1]
    <3> DEFINE v == w[k]
               y == x[k]
               p == q[k + 1]
    <3>1. v \in Nat /\ y \in Nat /\ p \in Nat /\ l[k] \in Nat
      BY <1>1, <1>2, <1>3, <1>5
    <3>2. /\ q[k] = Base * p + y /\ w[k + 1] = Base * v /\ l[k + 1] = l[k] + y * v
      BY <1>1, <1>2, <1>4
    <3> HIDE DEF v, y, p
    <3>3. (Base * p + y) * v = p * (Base * v) + y * v
      BY <1>3, <3>1
    <3>4. n = l[k] + (Base * p + y) * v
      BY <2>1, <3>2 DEF v
    <3>5. p * (Base * v) \in Int /\ y * v \in Int
      BY <1>3, <3>1
    <3>6. QED
      BY <3>1, <3>2, <3>3, <3>4, <3>5 DEF p
  <2>2. n = l[1] + q[1] * w[1]
    BY <1>1, <1>2, <1>4
  <2>3. n = l[2] + q[2] * w[2]
    BY <2>1, <2>2
  <2>4. n = l[3] + q[3] * w[3]
    BY <2>1, <2>3
  <2>5. n = l[4] + q[4] * w[4]
    BY <2>1, <2>4
  <2>6. n = l[5] + q[5] * w[5]
    BY <2>1, <2>5
  <2>7. QED
    BY <2>2, <2>3, <2>4, <2>5, <2>6
<1>7. ASSUME Turns(n) <= 4 PROVE l[Turns(n) + 1] = n
  <2>1. Turns(n) + 1 \in 2 .. 5 /\ q[Turns(n) + 1] = 0
    BY <1>7, TurnsFacts
  <2> HIDE DEF l, x, w, q
  <2>2. n = l[Turns(n) + 1] + 0 * w[Turns(n) + 1]
    BY <1>6, <2>1
  <2>3. QED
    BY <1>1, <1>5, <2>1, <2>2
<1>8. /\ \A k \in 1 .. 5 : l[k] \in 0 .. Weight[k] - 1
      /\ \A k \in 1 .. 4 : l[k + 1] = l[k] + DigitOf(n, k) * Weight[k]
  BY <1>4, <1>5
<1> HIDE DEF l
<1>9. QED
  BY <1>4, <1>7, <1>8 DEF l

\* The bytes of a length: each has its digit, and all but the last say that another
\* follows.
LEMMA LengthBytes ==
    ASSUME NEW n \in Nat
    PROVE  /\ EncodeLength(n) \in Seq(Byte) /\ Len(EncodeLength(n)) = Turns(n)
           /\ \A k \in 1 .. Turns(n) :
                 /\ EncodeLength(n)[k] % Base = DigitOf(n, k)
                 /\ k < Turns(n) => EncodeLength(n)[k] >= Base
                 /\ k = Turns(n) => EncodeLength(n)[k] < Base
<1> DEFINE e == EncodeLength(n)
<1>1. Base \in Nat \ {0} /\ Turns(n) \in 1 .. 5
  BY CodecAssumption, TurnsFacts
<1>2. e = [k \in 1 .. Turns(n) |-> DigitOf(n, k) + (IF k < Turns(n) THEN Base ELSE 0)]
  BY DEF EncodeLength, DigitOf
<1>3. ASSUME NEW k \in 1 .. Turns(n)
      PROVE  /\ e[k] \in Byte /\ e[k] % Base = DigitOf(n, k)
             /\ k < Turns(n) => e[k] >= Base
             /\ k = Turns(n) => e[k] < Base
  <2>1. DigitOf(n, k) \in 0 .. Base - 1
    <3>1. k \in 1 .. 5
      BY <1>1
    <3> HIDE DEF e
    <3>2. QED
      BY <3>1, QuotientFacts
  <2>2. e[k] = DigitOf(n, k) + (IF k < Turns(n) THEN Base ELSE 0)
    BY <1>2
  <2> HIDE DEF e
  <2>3. CASE k < Turns(n)
    <3>1. e[k] = DigitOf(n, k) + Base
      BY <2>2, <2>3
    <3>2. QED
      BY <1>1, <2>1, <2>3, <3>1, DigitOfByte DEF Byte
  <2>4. CASE k = Turns(n)
    <3>1. e[k] = DigitOf(n, k)
      BY <1>1, <2>1, <2>2, <2>4
    <3>2. QED
      BY <1>1, <2>1, <2>4, <3>1, DigitOfByte DEF Byte
  <2>5. QED
    BY <1>1, <2>3, <2>4
<1>4. e \in Seq(Byte) /\ Len(e) = Turns(n)
  BY <1>1, <1>2, <1>3
<1>5. QED
  BY <1>3, <1>4

-----------------------------------------------------------------------------
(* Packets: what Frame reads of what it wrote. *)

\* A part cut out of a sequence, and what follows it.
LEMMA MiddleCut ==
    ASSUME NEW S, NEW a \in Seq(S), NEW b \in Seq(S), NEW c \in Seq(S)
    PROVE  SubSeq((a \o b) \o c, Len(a) + 1, Len(a) + Len(b)) = b
<1> DEFINE s == (a \o b) \o c
           t == SubSeq(s, Len(a) + 1, Len(a) + Len(b))
<1>1. /\ Len(a) \in Nat /\ Len(b) \in Nat /\ Len(c) \in Nat
      /\ a \o b \in Seq(S) /\ Len(a \o b) = Len(a) + Len(b)
      /\ \A i \in 1 .. Len(a) + Len(b) : (a \o b)[i] = IF i <= Len(a) THEN a[i] ELSE b[i - Len(a)]
  BY LenProperties, ConcatProperties
<1>2. /\ s \in Seq(S) /\ Len(s) = Len(a) + Len(b) + Len(c)
      /\ \A i \in 1 .. Len(a) + Len(b) : s[i] = (a \o b)[i]
  <2>1. /\ s \in Seq(S) /\ Len(s) = Len(a \o b) + Len(c)
        /\ \A i \in 1 .. Len(a \o b) + Len(c) :
              s[i] = IF i <= Len(a \o b) THEN (a \o b)[i] ELSE c[i - Len(a \o b)]
    BY <1>1, ConcatProperties
  <2> HIDE DEF s
  <2>2. QED
    BY <1>1, <2>1
<1> HIDE DEF s
<1>3. \A i \in Len(a) + 1 .. Len(a) + Len(b) : s[i] = b[i - Len(a)] /\ s[i] \in S
  BY <1>1, <1>2, ElementOfSeq
<1>4. /\ t \in Seq(S)
      /\ Len(t) = IF Len(a) + 1 <= Len(a) + Len(b) THEN Len(a) + Len(b) - (Len(a) + 1) + 1 ELSE 0
      /\ \A i \in 1 .. Len(a) + Len(b) - (Len(a) + 1) + 1 : t[i] = s[Len(a) + 1 + i - 1]
  <2>1. Len(a) + 1 \in Int /\ Len(a) + Len(b) \in Int
    BY <1>1
  <2>2. QED
    BY <1>3, <2>1, SubSeqProperties
<1> HIDE DEF t
<1>5. Len(t) = Len(b)
  BY <1>1, <1>4
<1>6. \A i \in 1 .. Len(t) : t[i] = b[i]
  BY <1>1, <1>3, <1>4, <1>5
<1>7. t = b
  BY <1>4, <1>5, <1>6, SeqEqual
<1>8. QED
  BY <1>7 DEF s, t

LEMMA EndCut ==
    ASSUME NEW S, NEW a \in Seq(S), NEW b \in Seq(S)
    PROVE  SubSeq(a \o b, Len(a) + 1, Len(a \o b)) = b
<1>1. Len(a \o b) = Len(a) + Len(b) /\ a \o b \in Seq(S) /\ <<>> \in Seq(S)
  BY ConcatProperties, EmptySeq
<1>2. (a \o b) \o <<>> = a \o b
  BY <1>1, ConcatEmptySeq
<1>3. SubSeq((a \o b) \o <<>>, Len(a) + 1, Len(a) + Len(b)) = b
  BY <1>1, MiddleCut
<1>4. QED
  BY <1>1, <1>2, <1>3

\* The two bytes in front of a sequence.
LEMMA TwoInFront ==
    ASSUME NEW S, NEW a \in Seq(S), NEW b \in Seq(S), Len(a) = 2
    PROVE  (a \o b)[1] = a[1] /\ (a \o b)[2] = a[2]
<1>1. Len(b) \in Nat
  BY LenProperties
<1> DEFINE l == Len(a)
           m == Len(a) + Len(b)
           c == a \o b
<1>2. \A j \in 1 .. m : c[j] = IF j <= l THEN a[j] ELSE b[j - l]
  BY ConcatProperties
<1>3. l = 2 /\ 1 \in 1 .. m /\ 2 \in 1 .. m
  BY <1>1
<1> HIDE DEF l, m, c
<1>4. c[1] = a[1] /\ c[2] = a[2]
  BY <1>2, <1>3
<1>5. QED
  BY <1>4 DEF c

\* Two sequences in a row.
Join(a, b) == a \o b

LEMMA JoinIsSeq ==
    ASSUME NEW S, NEW a \in Seq(S), NEW b \in Seq(S)
    PROVE  Join(a, b) \in Seq(S) /\ Len(Join(a, b)) = Len(a) + Len(b)
  BY ConcatProperties DEF Join

LEMMA JoinEnd ==
    ASSUME NEW S, NEW a \in Seq(S), NEW b \in Seq(S)
    PROVE  SubSeq(Join(a, b), Len(a) + 1, Len(Join(a, b))) = b
  BY EndCut DEF Join

LEMMA JoinTwo ==
    ASSUME NEW S, NEW a \in Seq(S), NEW b \in Seq(S), Len(a) = 2
    PROVE  Join(a, b)[1] = a[1] /\ Join(a, b)[2] = a[2]
  BY TwoInFront DEF Join

LEMMA JoinEmpty ==
    ASSUME NEW S, NEW b \in Seq(S)
    PROVE  Join(<<>>, b) = b
  BY ConcatEmptySeq DEF Join

LEMMA JoinAssociates ==
    ASSUME NEW S, NEW a \in Seq(S), NEW b \in Seq(S), NEW c \in Seq(S)
    PROVE  Join(Join(a, b), c) = Join(a, Join(b, c))
  BY ConcatAssociative DEF Join

LEMMA JoinMiddle ==
    ASSUME NEW S, NEW a \in Seq(S), NEW b \in Seq(S), NEW c \in Seq(S)
    PROVE  SubSeq(Join(Join(a, b), c), Len(a) + 1, Len(a) + Len(b)) = b
  BY MiddleCut DEF Join

\* The parts of a PUBLISH.
Parts(a, t, i, v) == Join(Join(Join(a, t), i), v)

\* They can be cut out again.
LEMMA PartsCut ==
    ASSUME NEW a \in Seq(Byte), NEW t \in Seq(Byte), NEW i \in Seq(Byte), NEW v \in Seq(Byte),
           Len(a) = 2
    PROVE  /\ Parts(a, t, i, v) \in Seq(Byte)
           /\ Len(t) \in Nat
           /\ Len(Parts(a, t, i, v)) = 2 + Len(t) + Len(Join(i, v))
           /\ ReadInt(Parts(a, t, i, v)) = ReadInt(a)
           /\ SubSeq(Parts(a, t, i, v), 3, 2 + Len(t)) = t
           /\ SubSeq(Parts(a, t, i, v), 3 + Len(t), Len(Parts(a, t, i, v))) = Join(i, v)
<1> DEFINE d == Parts(a, t, i, v)
           r == Join(i, v)
           h == Join(a, t)
<1>1. r \in Seq(Byte) /\ h \in Seq(Byte) /\ Len(h) = Len(a) + Len(t) /\ Len(t) \in Nat
  <2>1. r \in Seq(Byte)
    BY JoinIsSeq
  <2>2. h \in Seq(Byte) /\ Len(h) = Len(a) + Len(t)
    BY JoinIsSeq
  <2>3. Len(t) \in Nat
    BY LenProperties
  <2> HIDE DEF r, h
  <2>4. QED
    BY <2>1, <2>2, <2>3
<1>2. d = Join(h, r)
  BY <1>1, JoinAssociates DEF Parts
<1>3. Join(h, r) = Join(a, Join(t, r))
  BY <1>1, JoinAssociates
<1>4. Join(t, r) \in Seq(Byte)
  BY <1>1, JoinIsSeq
<1>5. SubSeq(Join(h, r), Len(a) + 1, Len(a) + Len(t)) = t
  BY <1>1, JoinMiddle
<1> HIDE DEF d, r, h
<1>6. d[1] = a[1] /\ d[2] = a[2]
  <2> DEFINE u == Join(t, r)
  <2>1. u \in Seq(Byte) /\ d = Join(a, u)
    BY <1>2, <1>3, <1>4
  <2> HIDE DEF u
  <2>2. Join(a, u)[1] = a[1] /\ Join(a, u)[2] = a[2]
    BY <2>1, JoinTwo
  <2>3. QED
    BY <2>1, <2>2
<1>7. /\ d \in Seq(Byte) /\ Len(d) = Len(h) + Len(r) /\ Len(r) \in Nat
      /\ SubSeq(d, Len(h) + 1, Len(d)) = r
  <2>1. Join(h, r) \in Seq(Byte) /\ Len(Join(h, r)) = Len(h) + Len(r)
    BY <1>1, JoinIsSeq
  <2>2. SubSeq(Join(h, r), Len(h) + 1, Len(Join(h, r))) = r
    BY <1>1, JoinEnd
  <2>3. Len(r) \in Nat
    BY <1>1, LenProperties
  <2>4. QED
    BY <1>2, <2>1, <2>2, <2>3
<1>8. Len(a) + 1 = 3 /\ Len(a) + Len(t) = 2 + Len(t) /\ Len(h) + 1 = 3 + Len(t)
  BY <1>1
<1>9. SubSeq(d, 3, 2 + Len(t)) = t /\ SubSeq(d, 3 + Len(t), Len(d)) = r
  BY <1>2, <1>5, <1>7, <1>8
<1>10. Len(d) = 2 + Len(t) + Len(r)
  BY <1>1, <1>7
<1>11. ReadInt(d) = ReadInt(a)
  BY <1>6 DEF ReadInt
<1>12. QED
  BY <1>1, <1>7, <1>9, <1>10, <1>11 DEF d, r

\* readInt() finds the number that writeInt() put in front.
LEMMA IntInFront ==
    ASSUME NEW i \in 0 .. 4 * Base * Base - 1, NEW s \in Seq(Byte)
    PROVE  ReadInt(Join(WriteInt(i), s)) = i
<1>1. /\ WriteInt(i) \in Seq(Byte) /\ Len(WriteInt(i)) = 2
      /\ WriteInt(i)[1] * 2 * Base + WriteInt(i)[2] = i
  BY IntRead
<1>2. /\ (WriteInt(i) \o s)[1] = WriteInt(i)[1]
      /\ (WriteInt(i) \o s)[2] = WriteInt(i)[2]
  BY <1>1, TwoInFront
<1>3. QED
  BY <1>1, <1>2 DEF ReadInt, Join

\* A string is no longer than its two bytes of length can say.
LEMMA TruncatedFacts ==
    ASSUME NEW s \in Seq(Byte)
    PROVE  /\ Truncated(s) \in Seq(Byte)
           /\ Len(Truncated(s)) \in 0 .. 4 * Base * Base - 1
           /\ Truncated(Truncated(s)) = Truncated(s)
<1>1. MaxString \in 0 .. 4 * Base * Base - 1 /\ MaxString \in Nat /\ Len(s) \in Nat
  BY CodecAssumption, LenProperties
<1>2. CASE Len(s) <= MaxString
  <2>1. Truncated(s) = s
    BY <1>1, <1>2 DEF Truncated
  <2>2. Len(s) \in 0 .. 4 * Base * Base - 1
    <3>1. 4 * Base * Base - 1 \in Int
      BY CodecAssumption
    <3>2. QED
      BY <1>1, <1>2, <3>1
  <2>3. QED
    BY <2>1, <2>2
<1>3. CASE Len(s) > MaxString
  <2>1. Truncated(s) = SubSeq(s, 1, MaxString)
    BY <1>3 DEF Truncated
  <2>2. \A i \in 1 .. MaxString : s[i] \in Byte
    BY <1>1, <1>3, ElementOfSeq
  <2>3. SubSeq(s, 1, MaxString) \in Seq(Byte) /\ Len(SubSeq(s, 1, MaxString)) = MaxString
    BY <1>1, <2>2, SubSeqProperties
  <2>4. ~(Len(Truncated(s)) > MaxString)
    BY <1>1, <2>1, <2>3
  <2>5. Truncated(Truncated(s)) = Truncated(s)
    BY <2>4 DEF Truncated
  <2>6. QED
    BY <1>1, <2>1, <2>3, <2>5
<1>4. QED
  BY <1>1, <1>2, <1>3

\* What the reader relies on in a packet.
Readable(w) ==
    /\ HeaderOf(w) \in Byte
    /\ DataOf(w) \in Seq(Byte)
    /\ Turns(Len(DataOf(w))) <= 4
    /\ Decode(HeaderOf(w), DataOf(w)) = w

\* The string in front of data that is put together as PublishData() does.
LEMMA StringRead ==
    ASSUME NEW a \in Seq(Byte), NEW t \in Seq(Byte), NEW i \in Seq(Byte), NEW v \in Seq(Byte),
           Len(a) = 2
    PROVE  /\ Parts(a, t, i, v) \in Seq(Byte)
           /\ ~(Len(Parts(a, t, i, v)) < 2)
           /\ ReadInt(a) = Len(t) => ReadString(Parts(a, t, i, v)) = t
           /\ ReadInt(a) = Len(t) => AfterString(Parts(a, t, i, v)) = Join(i, v)
<1> DEFINE d == Parts(a, t, i, v)
           r == Join(i, v)
<1>1. /\ d \in Seq(Byte)
      /\ Len(t) \in Nat
      /\ Len(d) = 2 + Len(t) + Len(r)
      /\ ReadInt(d) = ReadInt(a)
      /\ SubSeq(d, 3, 2 + Len(t)) = t
      /\ SubSeq(d, 3 + Len(t), Len(d)) = r
  BY PartsCut
<1>2. r \in Seq(Byte)
  BY JoinIsSeq
<1> HIDE DEF d, r
<1>3. Len(r) \in Nat
  BY <1>2, LenProperties
<1>4. ~(2 + Len(t) > Len(d)) /\ ~(Len(d) < 2)
  BY <1>1, <1>3
<1>5. ASSUME ReadInt(a) = Len(t) PROVE ReadString(d) = t
  BY <1>1, <1>4, <1>5 DEF ReadString
<1>6. ASSUME ReadInt(a) = Len(t) PROVE AfterString(d) = r
  BY <1>1, <1>6 DEF AfterString
<1>7. QED
  BY <1>1, <1>4, <1>5, <1>6 DEF d, r

\* What follows the string.
LEMMA RestRead ==
    ASSUME NEW i \in Seq(Byte), NEW v \in Seq(Byte)
    PROVE  /\ i = <<>> => Join(i, v) = v
           /\ Len(i) = 2 => /\ ~(Len(Join(i, v)) < 2)
                            /\ SubSeq(Join(i, v), 3, Len(Join(i, v))) = v
<1> DEFINE r == Join(i, v)
<1>1. Len(r) = Len(i) + Len(v)
  BY JoinIsSeq
<1>2. SubSeq(r, Len(i) + 1, Len(r)) = v
  BY JoinEnd
<1>3. Join(<<>>, v) = v
  BY JoinEmpty
<1>4. Len(v) \in Nat
  BY LenProperties
<1> HIDE DEF r
<1>5. ASSUME Len(i) = 2 PROVE ~(Len(r) < 2) /\ Len(i) + 1 = 3
  BY <1>1, <1>4, <1>5
<1>6. QED
  BY <1>2, <1>3, <1>5 DEF r

\* Decode() reads the fields.
LEMMA FieldsRead ==
    ASSUME NEW a \in Seq(Byte), NEW t \in Seq(Byte), NEW i \in Seq(Byte), NEW v \in Seq(Byte),
           Len(a) = 2, ReadInt(a) = Len(t),
           NEW qos \in 0 .. 2, NEW id,
           qos = 0 => i = <<>> /\ id = 0,
           qos # 0 => Len(i) = 2 /\ ReadInt(Join(i, v)) = id
    PROVE  Decode(qos, Parts(a, t, i, v)) = [topic |-> t, id |-> id, payload |-> v, qos |-> qos]
<1> DEFINE d == Parts(a, t, i, v)
           r == Join(i, v)
<1> HIDE DEF d, r
<1>1. ~(Len(d) < 2) /\ ReadString(d) = t /\ AfterString(d) = r
  BY StringRead DEF d, r
<1>2. i = <<>> => r = v
  BY RestRead DEF r
<1>3. Len(i) = 2 => ~(Len(r) < 2) /\ SubSeq(r, 3, Len(r)) = v
  BY RestRead DEF r
<1>4. qos # 0 => ReadInt(r) = id
  BY DEF r
<1>5. qos # EmptyHeader
  BY DEF EmptyHeader
<1>6. CASE qos = 0
  <2>1. Decode(qos, d) = [topic |-> t, id |-> 0, payload |-> r, qos |-> qos]
    BY <1>1, <1>5, <1>6 DEF Decode
  <2>2. r = v /\ id = 0
    BY <1>2, <1>6
  <2>3. QED
    BY <2>1, <2>2 DEF d
<1>7. CASE qos # 0
  <2>1. ~(Len(r) < 2) /\ SubSeq(r, 3, Len(r)) = v
    BY <1>3, <1>7
  <2>2. Decode(qos, d) = [topic |-> t, id |-> ReadInt(r), payload |-> SubSeq(r, 3, Len(r)),
                          qos |-> qos]
    BY <1>1, <1>5, <1>7, <2>1 DEF Decode
  <2>3. QED
    BY <1>4, <1>7, <2>1, <2>2 DEF d
<1>8. QED
  BY <1>6, <1>7

\* The fields of a PUBLISH are read as they were written.
LEMMA PublishRead ==
    ASSUME NEW w \in [topic : Seq(Byte), id : Nat, payload : Seq(Byte), qos : 0 .. 2],
           Truncated(w.topic) = w.topic, Len(w.topic) \in 0 .. 4 * Base * Base - 1,
           w.id \in IF w.qos = 0 THEN {0} ELSE 1 .. 4 * Base * Base - 1
    PROVE  /\ PublishData(w) \in Seq(Byte)
           /\ Decode(w.qos, PublishData(w)) = w
<1> DEFINE t == w.topic
           v == w.payload
           a == WriteInt(Len(t))
           i == IF w.qos > 0 THEN WriteInt(w.id) ELSE <<>>
           d == PublishData(w)
<1>1. /\ t \in Seq(Byte) /\ v \in Seq(Byte) /\ w.qos \in 0 .. 2
      /\ w = [topic |-> t, id |-> w.id, payload |-> v, qos |-> w.qos]
  OBVIOUS
<1>2. a \in Seq(Byte) /\ Len(a) = 2 /\ ReadInt(a) = Len(t)
  BY IntRead DEF ReadInt
<1>3. w.qos = 0 => i = <<>> /\ w.id = 0
  OBVIOUS
<1>4. w.qos # 0 => i = WriteInt(w.id) /\ w.id \in 0 .. 4 * Base * Base - 1
  OBVIOUS
<1>5. d = Parts(a, t, i, v)
  BY DEF PublishData, WriteString, Parts, Join
<1> HIDE DEF a, i, t, v, d
<1>6. w.qos # 0 => Len(i) = 2 /\ i \in Seq(Byte)
  BY <1>4, IntRead
<1>7. i \in Seq(Byte)
  BY <1>3, <1>6, EmptySeq
<1>8. w.qos # 0 => Len(i) = 2 /\ ReadInt(Join(i, v)) = w.id
  BY <1>1, <1>4, <1>6, IntInFront
<1>9. d \in Seq(Byte)
  BY <1>1, <1>2, <1>5, <1>7, StringRead
<1>10. Decode(w.qos, d) = [topic |-> t, id |-> w.id, payload |-> v, qos |-> w.qos]
  BY <1>1, <1>2, <1>3, <1>5, <1>7, <1>8, FieldsRead
<1>11. QED
  BY <1>1, <1>9, <1>10 DEF d

\* What write() does not drop can be read.
LEMMA SaidIsReadable ==
    ASSUME NEW p \in Messages \cup {Empty}, Fits(p)
    PROVE  Readable(Said(p)) /\ FrameBytes(Said(p)) = FrameBytes(p)
<1>1. ASSUME HeaderOf(Said(p)) = HeaderOf(p), DataOf(Said(p)) = DataOf(p), DataOf(p) \in Seq(Byte)
      PROVE  Turns(Len(DataOf(Said(p)))) <= 4 /\ FrameBytes(Said(p)) = FrameBytes(p)
  <2>1. Len(DataOf(p)) \in Nat
    BY <1>1, LenProperties
  <2>2. QED
    BY <1>1, <2>1, LengthBytes DEF Fits, FrameBytes
<1>2. 0 .. 3 \subseteq Byte
  BY CodecAssumption DEF Byte
<1>3. CASE p = Empty
  <2>1. Said(p) = Empty /\ HeaderOf(Empty) = EmptyHeader /\ DataOf(Empty) = <<>>
    BY <1>3 DEF Said, HeaderOf, DataOf
  <2>2. Decode(EmptyHeader, <<>>) = Empty
    BY DEF Decode
  <2>3. <<>> \in Seq(Byte) /\ EmptyHeader \in Byte
    BY <1>2, EmptySeq DEF EmptyHeader
  <2>4. QED
    BY <1>1, <1>3, <2>1, <2>2, <2>3 DEF Readable
<1>4. CASE p # Empty
  <2> DEFINE w == Said(p)
  <2>1. /\ p \in [topic : Seq(Byte), id : Nat, payload : Seq(Byte), qos : 0 .. 2]
        /\ p.id \in IF p.qos = 0 THEN {0} ELSE 1 .. 4 * Base * Base - 1
    BY <1>4, CodecAssumption
  <2>2. /\ Truncated(p.topic) \in Seq(Byte)
        /\ Len(Truncated(p.topic)) \in 0 .. 4 * Base * Base - 1
        /\ Truncated(Truncated(p.topic)) = Truncated(p.topic)
    BY <2>1, TruncatedFacts
  <2>3. w = [p EXCEPT !.topic = Truncated(p.topic)]
    BY <1>4 DEF Said
  <2>4. /\ w \in [topic : Seq(Byte), id : Nat, payload : Seq(Byte), qos : 0 .. 2]
        /\ w.topic = Truncated(p.topic) /\ w.id = p.id /\ w.payload = p.payload /\ w.qos = p.qos
    BY <2>1, <2>2, <2>3
  <2>5. w # Empty
    <3>1. "qos" \in DOMAIN w
      BY <2>4
    <3>2. "qos" \notin DOMAIN Empty
      BY DEF Empty
    <3>3. QED
      BY <3>1, <3>2
  <2> HIDE DEF w
  <2>6. PublishData(w) \in Seq(Byte) /\ Decode(w.qos, PublishData(w)) = w
    BY <2>1, <2>2, <2>4, PublishRead
  <2>7. HeaderOf(w) = w.qos /\ DataOf(w) = PublishData(w)
    BY <2>5 DEF HeaderOf, DataOf
  <2>8. PublishData(w) = PublishData(p)
    BY <2>2, <2>4 DEF PublishData, WriteString
  <2>9. HeaderOf(w) = HeaderOf(p) /\ DataOf(w) = DataOf(p)
    BY <1>4, <2>4, <2>7, <2>8 DEF HeaderOf, DataOf
  <2>10. Turns(Len(DataOf(w))) <= 4 /\ FrameBytes(w) = FrameBytes(p)
    BY <1>1, <2>6, <2>7, <2>9 DEF w
  <2>11. w.qos \in Byte
    BY <1>2, <2>4
  <2>12. QED
    BY <2>6, <2>7, <2>10, <2>11 DEF Readable, w
<1>5. QED
  BY <1>3, <1>4

\* The bytes of a packet: the header, the length, the data.
LEMMA FrameFacts ==
    ASSUME NEW w, Readable(w)
    PROVE  LET e == EncodeLength(Len(DataOf(w)))
               t == Turns(Len(DataOf(w)))
           IN  /\ FrameBytes(w) \in Seq(Byte)
               /\ t \in 1 .. 4 /\ Len(DataOf(w)) \in Nat
               /\ Len(FrameBytes(w)) = 1 + t + Len(DataOf(w))
               /\ FrameBytes(w)[1] = HeaderOf(w)
               /\ \A k \in 1 .. t : FrameBytes(w)[1 + k] = e[k]
               /\ \A k \in 1 .. Len(DataOf(w)) : FrameBytes(w)[1 + t + k] = DataOf(w)[k]
<1> DEFINE n == Len(DataOf(w))
           e == EncodeLength(n)
           t == Turns(n)
           a == <<HeaderOf(w)>>
           f == FrameBytes(w)
<1>1. DataOf(w) \in Seq(Byte) /\ n \in Nat /\ HeaderOf(w) \in Byte /\ t <= 4
  BY LenProperties DEF Readable
<1>2. t \in 1 .. 4 /\ e \in Seq(Byte) /\ Len(e) = t
  <2>1. Turns(n) \in 1 .. 5
    BY <1>1, TurnsFacts
  <2>2. EncodeLength(n) \in Seq(Byte) /\ Len(EncodeLength(n)) = Turns(n)
    BY <1>1, LengthBytes
  <2>3. QED
    BY <1>1, <2>1, <2>2
<1>3. a \in Seq(Byte) /\ Len(a) = 1 /\ a[1] = HeaderOf(w)
  BY <1>1
<1>4. f = (a \o e) \o DataOf(w)
  BY DEF FrameBytes
<1> HIDE DEF a, e, t, n, f
<1>5. /\ a \o e \in Seq(Byte) /\ Len(a \o e) = 1 + t
      /\ \A i \in 1 .. 1 + t : (a \o e)[i] = IF i <= 1 THEN a[i] ELSE e[i - 1]
  <2>1. /\ a \o e \in Seq(Byte)
        /\ Len(a \o e) = Len(a) + Len(e)
        /\ \A i \in 1 .. Len(a) + Len(e) :
              (a \o e)[i] = IF i <= Len(a) THEN a[i] ELSE e[i - Len(a)]
    BY <1>2, <1>3, ConcatProperties
  <2>2. Len(a) = 1 /\ Len(e) = t
    BY <1>2, <1>3
  <2>3. QED
    BY <2>1, <2>2
<1>6. /\ f \in Seq(Byte) /\ Len(f) = 1 + t + n
      /\ \A i \in 1 .. 1 + t + n : f[i] = IF i <= 1 + t THEN (a \o e)[i] ELSE DataOf(w)[i - (1 + t)]
  <2> DEFINE b == a \o e
             d == DataOf(w)
  <2>1. Len(d) = n /\ Len(b) = 1 + t
    BY <1>5 DEF n
  <2>2. b \in Seq(Byte) /\ d \in Seq(Byte) /\ f = b \o d
    BY <1>1, <1>4, <1>5
  <2> HIDE DEF b, d
  <2>3. /\ f \in Seq(Byte) /\ Len(f) = Len(b) + Len(d)
        /\ \A i \in 1 .. Len(b) + Len(d) : f[i] = IF i <= Len(b) THEN b[i] ELSE d[i - Len(b)]
    BY <2>2, ConcatProperties
  <2>4. QED
    BY <2>1, <2>3 DEF b, d
<1>7. f[1] = HeaderOf(w)
  BY <1>1, <1>2, <1>3, <1>5, <1>6
<1>8. ASSUME NEW k \in 1 .. t PROVE f[1 + k] = e[k]
  BY <1>1, <1>2, <1>5, <1>6
<1>9. ASSUME NEW k \in 1 .. n PROVE f[1 + t + k] = DataOf(w)[k]
  <2> DEFINE j == 1 + t + k
  <2>1. j \in 1 .. 1 + t + n /\ ~(j <= 1 + t) /\ j - (1 + t) = k
    BY <1>1, <1>2
  <2> HIDE DEF j
  <2>2. f[j] = DataOf(w)[k]
    BY <1>6, <2>1
  <2>3. QED
    BY <2>2 DEF j
<1>10. QED
  BY <1>1, <1>2, <1>6, <1>7, <1>8, <1>9 DEF f, e, t, n


-----------------------------------------------------------------------------
(* Where one sequence of bytes lies in another. *)

ByteAt(s, k) == s[k]

\* s is in sent, after its first at bytes.
Lies(s, at, sent) ==
    /\ at + Len(s) <= Len(sent)
    /\ \A j \in 1 .. Len(s) : ByteAt(sent, at + j) = ByteAt(s, j)

LEMMA LiesHead ==
    ASSUME NEW s \in Seq(Byte), NEW sent \in Seq(Byte), NEW at \in Nat,
           s # <<>>, Lies(s, at, sent)
    PROVE  /\ Head(s) \in Byte /\ Tail(s) \in Seq(Byte) /\ Len(Tail(s)) = Len(s) - 1
           /\ at + 1 <= Len(sent) /\ ByteAt(sent, at + 1) = Head(s)
           /\ Lies(Tail(s), at + 1, sent)
<1>1. /\ Head(s) \in Byte /\ Tail(s) \in Seq(Byte) /\ Len(Tail(s)) = Len(s) - 1
      /\ \A j \in 1 .. Len(Tail(s)) : Tail(s)[j] = s[j + 1]
  BY HeadTailProperties
<1>2. Head(s) = s[1] /\ Len(s) \in Nat \ {0} /\ Len(sent) \in Nat
  BY HeadTailProperties, LenProperties
<1>3. at + 1 <= Len(sent) /\ ByteAt(sent, at + 1) = Head(s)
  BY <1>2 DEF Lies, ByteAt
<1>4. Lies(Tail(s), at + 1, sent)
  <2>1. ASSUME NEW j \in 1 .. Len(Tail(s)) PROVE ByteAt(sent, at + 1 + j) = ByteAt(Tail(s), j)
    <3>1. j + 1 \in 1 .. Len(s) /\ at + (j + 1) = at + 1 + j
      BY <1>1, <1>2
    <3>2. ByteAt(sent, at + (j + 1)) = ByteAt(s, j + 1)
      BY <3>1 DEF Lies
    <3>3. QED
      BY <1>1, <3>1, <3>2 DEF ByteAt
  <2>2. at + 1 + Len(Tail(s)) <= Len(sent)
    BY <1>1, <1>2 DEF Lies
  <2>3. QED
    BY <2>1, <2>2 DEF Lies
<1>5. QED
  BY <1>1, <1>3, <1>4

LEMMA LiesCut ==
    ASSUME NEW s \in Seq(Byte), NEW sent \in Seq(Byte), NEW at \in Nat,
           Lies(s, at, sent), NEW n \in 1 .. Len(s)
    PROVE  /\ SubSeq(s, 1, n) \in Seq(Byte) /\ Len(SubSeq(s, 1, n)) = n
           /\ SubSeq(s, n + 1, Len(s)) \in Seq(Byte)
           /\ Len(SubSeq(s, n + 1, Len(s))) = Len(s) - n
           /\ Lies(SubSeq(s, 1, n), at, sent)
           /\ Lies(SubSeq(s, n + 1, Len(s)), at + n, sent)
<1>1. Len(s) \in Nat /\ n \in Nat /\ Len(sent) \in Nat
  BY LenProperties
<1>2. \A i \in 1 .. Len(s) : s[i] \in Byte
  BY ElementOfSeq
<1> DEFINE a == SubSeq(s, 1, n)
           b == SubSeq(s, n + 1, Len(s))
<1>3. a \in Seq(Byte) /\ Len(a) = n /\ \A i \in 1 .. n : a[i] = s[i]
  <2>1. \A i \in 1 .. n : s[i] \in Byte
    BY <1>1, <1>2
  <2>2. /\ a \in Seq(Byte) /\ Len(a) = (IF 1 <= n THEN n - 1 + 1 ELSE 0)
        /\ \A i \in 1 .. n - 1 + 1 : a[i] = s[1 + i - 1]
    BY <1>1, <2>1, SubSeqProperties
  <2> HIDE DEF a
  <2>3. QED
    BY <1>1, <2>2
<1>4. b \in Seq(Byte) /\ Len(b) = Len(s) - n /\ \A i \in 1 .. Len(s) - n : b[i] = s[n + i]
  <2>1. \A i \in n + 1 .. Len(s) : s[i] \in Byte
    BY <1>1, <1>2
  <2>2. /\ b \in Seq(Byte) /\ Len(b) = (IF n + 1 <= Len(s) THEN Len(s) - (n + 1) + 1 ELSE 0)
        /\ \A i \in 1 .. Len(s) - (n + 1) + 1 : b[i] = s[n + 1 + i - 1]
    BY <1>1, <2>1, SubSeqProperties
  <2> HIDE DEF b
  <2>3. QED
    BY <1>1, <2>2
<1> HIDE DEF a, b
<1>5. Lies(a, at, sent)
  <2>1. ASSUME NEW j \in 1 .. n PROVE ByteAt(sent, at + j) = ByteAt(a, j)
    <3>1. j \in 1 .. Len(s)
      BY <1>1
    <3>2. ByteAt(sent, at + j) = ByteAt(s, j)
      BY <3>1 DEF Lies
    <3>3. QED
      BY <1>3, <3>2 DEF ByteAt
  <2>2. at + n <= Len(sent)
    BY <1>1 DEF Lies
  <2>3. QED
    BY <1>3, <2>1, <2>2 DEF Lies
<1>6. Lies(b, at + n, sent)
  <2>1. ASSUME NEW j \in 1 .. Len(b) PROVE ByteAt(sent, at + n + j) = ByteAt(b, j)
    <3>1. n + j \in 1 .. Len(s) /\ at + (n + j) = at + n + j
      BY <1>1, <1>4
    <3>2. ByteAt(sent, at + (n + j)) = ByteAt(s, n + j)
      BY <3>1 DEF Lies
    <3>3. QED
      BY <1>4, <3>1, <3>2 DEF ByteAt
  <2>2. QED
    BY <1>1, <1>4, <2>1 DEF Lies
<1>7. QED
  BY <1>3, <1>4, <1>5, <1>6 DEF a, b

\* More is sent: what lay there still does, the new bytes lie behind it, and they
\* are behind what lay at the end.
LEMMA JoinBytes ==
    ASSUME NEW s \in Seq(Byte), NEW f \in Seq(Byte)
    PROVE  /\ Join(s, f) \in Seq(Byte) /\ Len(Join(s, f)) = Len(s) + Len(f)
           /\ \A j \in 1 .. Len(s) : ByteAt(Join(s, f), j) = ByteAt(s, j)
           /\ \A j \in 1 .. Len(f) : ByteAt(Join(s, f), Len(s) + j) = ByteAt(f, j)
<1>1. Len(s) \in Nat /\ Len(f) \in Nat
  BY LenProperties
<1> DEFINE l == Len(s)
           k == Len(f)
           u == s \o f
<1>2. /\ u \in Seq(Byte) /\ Len(u) = l + k
      /\ \A j \in 1 .. l + k : u[j] = IF j <= l THEN s[j] ELSE f[j - l]
  BY ConcatProperties
<1>3. Join(s, f) = u
  BY DEF Join
<1>4. l \in Nat /\ k \in Nat
  BY <1>1
<1> HIDE DEF l, k, u
<1>5. \A j \in 1 .. l : u[j] = s[j]
  BY <1>2, <1>4
<1>6. \A j \in 1 .. k : u[l + j] = f[j]
  BY <1>2, <1>4
<1>7. QED
  BY <1>2, <1>3, <1>5, <1>6 DEF l, k, ByteAt

LEMMA LiesStill ==
    ASSUME NEW s \in Seq(Byte), NEW sent \in Seq(Byte), NEW at \in Nat, NEW f \in Seq(Byte),
           Lies(s, at, sent)
    PROVE  Lies(s, at, Join(sent, f))
<1>1. /\ Len(Join(sent, f)) = Len(sent) + Len(f)
      /\ \A j \in 1 .. Len(sent) : ByteAt(Join(sent, f), j) = ByteAt(sent, j)
  BY JoinBytes
<1>2. Len(s) \in Nat /\ Len(sent) \in Nat /\ Len(f) \in Nat
  BY LenProperties
<1>3. ASSUME NEW j \in 1 .. Len(s) PROVE ByteAt(Join(sent, f), at + j) = ByteAt(s, j)
  <2>1. at + j \in 1 .. Len(sent)
    BY <1>2 DEF Lies
  <2>2. QED
    BY <1>1, <2>1 DEF Lies
<1>4. QED
  BY <1>1, <1>2, <1>3 DEF Lies

LEMMA LiesBehind ==
    ASSUME NEW s \in Seq(Byte), NEW sent \in Seq(Byte), NEW at \in Nat, NEW f \in Seq(Byte),
           Lies(s, at, sent), at + Len(s) = Len(sent)
    PROVE  Lies(Join(s, f), at, Join(sent, f))
<1>1. /\ Len(Join(sent, f)) = Len(sent) + Len(f)
      /\ \A j \in 1 .. Len(sent) : ByteAt(Join(sent, f), j) = ByteAt(sent, j)
      /\ \A j \in 1 .. Len(f) : ByteAt(Join(sent, f), Len(sent) + j) = ByteAt(f, j)
  BY JoinBytes
<1>2. /\ Len(Join(s, f)) = Len(s) + Len(f)
      /\ \A j \in 1 .. Len(s) : ByteAt(Join(s, f), j) = ByteAt(s, j)
      /\ \A j \in 1 .. Len(f) : ByteAt(Join(s, f), Len(s) + j) = ByteAt(f, j)
  BY JoinBytes
<1>3. Len(s) \in Nat /\ Len(sent) \in Nat /\ Len(f) \in Nat
  BY LenProperties
<1>4. ASSUME NEW j \in 1 .. Len(s) + Len(f)
      PROVE  ByteAt(Join(sent, f), at + j) = ByteAt(Join(s, f), j)
  <2>1. CASE j <= Len(s)
    <3>1. j \in 1 .. Len(s) /\ at + j \in 1 .. Len(sent)
      BY <1>3, <2>1
    <3>2. QED
      BY <1>1, <1>2, <3>1 DEF Lies
  <2>2. CASE j > Len(s)
    <3> DEFINE k == j - Len(s)
    <3>1. k \in 1 .. Len(f) /\ at + j = Len(sent) + k /\ j = Len(s) + k
      <4>1. j \in Nat /\ j > Len(s) /\ j <= Len(s) + Len(f)
        BY <1>3, <2>2
      <4>2. k \in 1 .. Len(f) /\ j = Len(s) + k
        BY <1>3, <4>1
      <4>3. QED
        BY <1>3, <4>1, <4>2
    <3> HIDE DEF k
    <3>2. QED
      BY <1>1, <1>2, <3>1
  <2>3. QED
    BY <1>3, <2>1, <2>2
<1>5. QED
  BY <1>1, <1>2, <1>3, <1>4 DEF Lies

LEMMA LiesAtEnd ==
    ASSUME NEW sent \in Seq(Byte), NEW f \in Seq(Byte)
    PROVE  Lies(f, Len(sent), Join(sent, f))
<1>1. /\ Len(Join(sent, f)) = Len(sent) + Len(f)
      /\ \A j \in 1 .. Len(f) : ByteAt(Join(sent, f), Len(sent) + j) = ByteAt(f, j)
  BY JoinBytes
<1>2. Len(sent) \in Nat /\ Len(f) \in Nat
  BY LenProperties
<1>3. QED
  BY <1>1, <1>2 DEF Lies


-----------------------------------------------------------------------------
(* The ranges. *)

\* What write() does not drop, as the peer reads it.
Packets == {Said(p) : p \in {q \in Messages \cup {Empty} : Fits(q)}}

LEMMA PacketsAreReadable ==
    ASSUME NEW w \in Packets
    PROVE  Readable(w) /\ FrameBytes(w) \in Seq(Byte)
<1>1. PICK p \in Messages \cup {Empty} : Fits(p) /\ w = Said(p)
  BY DEF Packets
<1>2. Readable(w)
  BY <1>1, SaidIsReadable
<1>3. FrameBytes(w) \in Seq(Byte)
  BY <1>2, FrameFacts
<1>4. QED
  BY <1>2, <1>3

LEMMA FrameIsBytes ==
    ASSUME NEW p \in Messages \cup {Empty}, Fits(p)
    PROVE  /\ Said(p) \in Packets
           /\ FrameBytes(p) = FrameBytes(Said(p)) /\ FrameBytes(p) \in Seq(Byte)
<1>1. Said(p) \in Packets
  BY DEF Packets
<1>2. QED
  BY <1>1, SaidIsReadable, PacketsAreReadable

\* Each weight is at most the last.
LEMMA WeightBound ==
    ASSUME NEW k \in 1 .. 5, NEW x \in 0 .. Weight[k] - 1
    PROVE  x \in 0 .. Weight[5] - 1
<1>1. ASSUME NEW w \in Nat PROVE Base * w >= w
  BY CodecAssumption
<1>2. \A i \in 1 .. 5 : Weight[i] \in Nat
  BY WeightFacts
<1>3. \A i \in 1 .. 4 : Weight[i + 1] >= Weight[i]
  <2>1. ASSUME NEW i \in 1 .. 4 PROVE Weight[i + 1] >= Weight[i]
    <3>1. i \in 1 .. 5
      OBVIOUS
    <3>2. Weight[i + 1] = Base * Weight[i] /\ Weight[i] \in Nat
      BY <3>1, <1>2, WeightFacts
    <3>3. QED
      BY <1>1, <3>2
  <2>2. QED
    BY <2>1
<1>4. /\ Weight[5] >= Weight[4] /\ Weight[4] >= Weight[3] /\ Weight[3] >= Weight[2]
      /\ Weight[2] >= Weight[1]
  BY <1>3
<1>5. /\ Weight[1] \in Nat /\ Weight[2] \in Nat /\ Weight[3] \in Nat /\ Weight[4] \in Nat
      /\ Weight[5] \in Nat
  BY <1>2
<1> DEFINE a == Weight[1]
           b == Weight[2]
           c == Weight[3]
           d == Weight[4]
           e == Weight[5]
<1>6. \/ x \in 0 .. a - 1 \/ x \in 0 .. b - 1 \/ x \in 0 .. c - 1
      \/ x \in 0 .. d - 1 \/ x \in 0 .. e - 1
  OBVIOUS
<1> HIDE DEF a, b, c, d, e
<1>7. /\ e >= d /\ d >= c /\ c >= b /\ b >= a
      /\ a \in Nat /\ b \in Nat /\ c \in Nat /\ d \in Nat /\ e \in Nat
  BY <1>4, <1>5 DEF a, b, c, d, e
<1>8. x \in 0 .. e - 1
  BY <1>6, <1>7
<1>9. QED
  BY <1>8 DEF e

\* TypeOK with what it needs to last: a length that is being read is below the weight of
\* its next digit, and a lost connection has nothing on its way.
Ranges ==
    /\ TypeOK
    /\ readState = "Length" => length \in 0 .. Weight[shift + 1] - 1
    /\ ~up => wire = <<>>
    /\ written \in Seq(Packets)

LEMMA RangesInit == Init => Ranges
<1> SUFFICES ASSUME Init PROVE Ranges
  OBVIOUS
<1>1. 0 \in Byte /\ MaxWritten \in Nat /\ Base \in Nat \ {0}
  BY CodecAssumption DEF Byte
<1>2. 0 \in 0 .. Weight[5] - 1
  <2>1. 0 \in 0 .. Weight[1] - 1
    BY WeightFacts
  <2>2. QED
    BY <2>1, WeightBound
<1>3. <<>> \in Seq(Byte) /\ <<>> \in Seq(Packets)
  BY EmptySeq
<1>4. Len(written) <= MaxWritten
  BY <1>1 DEF Init
<1>5. readState \in {"Header", "Length", "PayLoad"} /\ readState # "Length" /\ readState # "PayLoad"
  BY DEF Init
<1>6. header \in Byte /\ length \in 0 .. Weight[5] - 1 /\ shift \in 0 .. 4
  BY <1>1, <1>2 DEF Init
<1>7. wire \in Seq(Byte) /\ batch \in Seq(Byte) /\ data \in Seq(Byte) /\ written \in Seq(Packets)
  BY <1>3 DEF Init
<1>8. up \in BOOLEAN /\ overlong \in BOOLEAN /\ error \in BOOLEAN /\ wire = <<>>
  BY Zenon DEF Init
<1>9. QED
  BY <1>4, <1>5, <1>6, <1>7, <1>8 DEF Ranges, TypeOK

LEMMA RangesOpen ==
    ASSUME Ranges, Open
    PROVE  Ranges'
<1>1. <<>> \in Seq(Packets) /\ Len(<<>>) = 0 /\ MaxWritten \in Nat
  BY EmptySeq, CodecAssumption
<1>2. Len(written') <= MaxWritten /\ written' \in Seq(Packets)
  BY <1>1 DEF Open
<1>3. up' \in BOOLEAN /\ overlong' \in BOOLEAN /\ error' \in BOOLEAN
  BY Zenon DEF Open
<1>4. readState' = "Header" /\ UNCHANGED <<wire, batch, header, length, shift, data>> /\ up'
  BY DEF Open
<1>5. QED
  BY <1>2, <1>3, <1>4 DEF Ranges, TypeOK

LEMMA RangesLose ==
    ASSUME Ranges, Lose
    PROVE  Ranges'
<1>1. <<>> \in Seq(Byte)
  BY EmptySeq
<1>2. QED
  BY <1>1 DEF Ranges, TypeOK, Lose, readerVars, histVars

LEMMA RangesWrite ==
    ASSUME Ranges, NEW p \in Messages \cup {Empty}, Write(p)
    PROVE  Ranges' /\ FrameBytes(p) \in Seq(Byte) /\ wire' = Join(wire, FrameBytes(p))
<1>1. FrameBytes(p) \in Seq(Byte) /\ Said(p) \in Packets
  BY FrameIsBytes DEF Write
<1>2. wire' = Join(wire, FrameBytes(p)) /\ wire \in Seq(Byte)
  BY DEF Write, Join, Ranges, TypeOK
<1>3. wire' \in Seq(Byte)
  BY <1>1, <1>2, JoinIsSeq
<1>4. written' \in Seq(Packets) /\ Len(written') = Len(written) + 1 /\ Len(written) \in Nat
  BY <1>1, AppendProperties, LenProperties DEF Write, Ranges
<1>5. Len(written') <= MaxWritten
  BY <1>4, CodecAssumption DEF Write
<1>6. QED
  BY <1>1, <1>2, <1>3, <1>4, <1>5 DEF Ranges, TypeOK, Write, readerVars

LEMMA OverlongIsBytes == Overlong \in Seq(Byte) /\ Len(Overlong) = 6
<1>1. 0 \in Byte /\ Base \in Byte
  BY CodecAssumption DEF Byte
<1>2. QED
  BY <1>1 DEF Overlong

LEMMA RangesWriteOverlong ==
    ASSUME Ranges, WriteOverlong
    PROVE  Ranges' /\ wire' = Join(wire, Overlong)
<1>1. wire' = Join(wire, Overlong) /\ wire \in Seq(Byte)
  BY DEF WriteOverlong, Join, Ranges, TypeOK
<1>2. wire' \in Seq(Byte)
  BY <1>1, OverlongIsBytes, JoinIsSeq
<1>3. QED
  BY <1>1, <1>2 DEF Ranges, TypeOK, WriteOverlong, readerVars

LEMMA RangesArrive ==
    ASSUME Ranges, NEW n \in 1 .. Len(wire), Arrive(n)
    PROVE  Ranges'
<1>1. wire \in Seq(Byte) /\ Len(wire) \in Nat
  BY LenProperties DEF Ranges, TypeOK
<1>2. Lies(wire, 0, wire)
  BY <1>1 DEF Lies
<1>3. batch' \in Seq(Byte) /\ wire' \in Seq(Byte)
  BY <1>1, <1>2, LiesCut DEF Arrive
<1>4. ~up => wire' = <<>>
  BY <1>1 DEF Ranges
<1>5. QED
  BY <1>3, <1>4 DEF Ranges, TypeOK, Arrive, readerVars, histVars

\* The byte that is read.
LEMMA BatchRead ==
    ASSUME Ranges, batch # <<>>
    PROVE  Head(batch) \in Byte /\ Tail(batch) \in Seq(Byte)
  BY HeadTailProperties DEF Ranges, TypeOK

LEMMA RangesReadHeader ==
    ASSUME Ranges, ReadHeader
    PROVE  Ranges'
<1>1. Head(batch) \in Byte /\ Tail(batch) \in Seq(Byte)
  BY BatchRead DEF ReadHeader
<1>2. <<>> \in Seq(Byte)
  BY EmptySeq
<1>3. 0 \in 0 .. Weight[1] - 1
  BY WeightFacts
<1>4. 0 \in 0 .. Weight[5] - 1
  BY <1>3, WeightBound
<1>5. QED
  BY <1>1, <1>2, <1>3, <1>4 DEF Ranges, TypeOK, ReadHeader, histVars

LEMMA RangesReadLength ==
    ASSUME Ranges, ReadLength
    PROVE  Ranges'
<1>1. Head(batch) \in Byte /\ Tail(batch) \in Seq(Byte)
  BY BatchRead DEF ReadLength
<1>2. Head(batch) % Base \in 0 .. Base - 1
  <2>1. Head(batch) \in Nat /\ Base \in Nat \ {0}
    BY <1>1, CodecAssumption DEF Byte
  <2>2. QED
    BY <2>1, Division
<1>3. shift \in 0 .. 3 /\ shift + 1 \in 1 .. 4 /\ length \in 0 .. Weight[shift + 1] - 1
  BY DEF Ranges, TypeOK, ReadLength
<1>4. length' \in 0 .. Weight[shift + 1 + 1] - 1
  <2>1. length' = length + (Head(batch) % Base) * Weight[shift + 1]
    BY DEF ReadLength
  <2> DEFINE k == shift + 1
             x == Head(batch) % Base
  <2>2. k \in 1 .. 4 /\ x \in 0 .. Base - 1 /\ length \in 0 .. Weight[k] - 1
    BY <1>2, <1>3
  <2> HIDE DEF k, x
  <2>3. length + x * Weight[k] \in 0 .. Weight[k + 1] - 1
    BY <2>2, DigitAdded
  <2>4. QED
    BY <2>1, <2>3 DEF k, x
<1>5. shift' = shift + 1
  BY DEF ReadLength
<1>6. length' \in 0 .. Weight[5] - 1
  <2> DEFINE k == shift + 1 + 1
  <2>1. k \in 1 .. 5 /\ length' \in 0 .. Weight[k] - 1
    BY <1>3, <1>4
  <2> HIDE DEF k
  <2>2. QED
    BY <2>1, WeightBound
<1>7. length' \in 0 .. Weight[shift' + 1] - 1 /\ shift' \in 0 .. 4 /\ shift' \in Nat
  BY <1>3, <1>4, <1>5
<1>8. length' \in Nat
  <2>1. Weight[5] \in Nat
    BY WeightFacts
  <2>2. QED
    BY <1>6, <2>1
<1>9. /\ readState' \in {"Header", "Length", "PayLoad"}
      /\ readState' = "Length" => shift' <= 3
      /\ readState' = "PayLoad" => length' > 0
      /\ error' \in BOOLEAN
  BY <1>8 DEF Ranges, TypeOK, ReadLength, EmitReceived, LastShift
<1>10. UNCHANGED <<up, wire, header, data, written, overlong>> /\ batch' = Tail(batch)
  BY DEF ReadLength
<1>11. QED
  BY <1>1, <1>6, <1>7, <1>9, <1>10 DEF Ranges, TypeOK


LEMMA RangesReadPayload ==
    ASSUME Ranges, ReadPayload
    PROVE  Ranges'
<1>1. Head(batch) \in Byte /\ Tail(batch) \in Seq(Byte)
  BY BatchRead DEF ReadPayload
<1>2. data' \in Seq(Byte)
  BY <1>1, AppendProperties DEF ReadPayload, Ranges, TypeOK
<1>3. Weight[5] \in Nat
  BY WeightFacts
<1>4. length' \in 0 .. Weight[5] - 1 /\ length' = length - 1
  BY <1>3 DEF Ranges, TypeOK, ReadPayload
<1>5. /\ readState' = "PayLoad" \/ readState' = "Header"
      /\ readState' = "PayLoad" => length' > 0
  BY <1>3, <1>4 DEF ReadPayload, EmitReceived
<1>6. UNCHANGED <<up, wire, header, shift, written, overlong, error>> /\ batch' = Tail(batch)
  BY DEF ReadPayload
<1>7. QED
  BY <1>1, <1>2, <1>4, <1>5, <1>6 DEF Ranges, TypeOK

LEMMA RangesStep == Ranges /\ [Next]_vars => Ranges'
<1> SUFFICES ASSUME Ranges, [Next]_vars PROVE Ranges'
  OBVIOUS
<1>1. CASE Open
  BY <1>1, RangesOpen
<1>2. CASE Lose
  BY <1>2, RangesLose
<1>3. CASE \E p \in Messages \cup {Empty} : Write(p)
  BY <1>3, RangesWrite
<1>4. CASE WriteOverlong
  BY <1>4, RangesWriteOverlong
<1>5. CASE \E n \in 1 .. Len(wire) : Arrive(n)
  BY <1>5, RangesArrive
<1>6. CASE ReadHeader
  BY <1>6, RangesReadHeader
<1>7. CASE ReadLength
  BY <1>7, RangesReadLength
<1>8. CASE ReadPayload
  BY <1>8, RangesReadPayload
<1>9. CASE UNCHANGED vars
  BY <1>9 DEF vars, readerVars, histVars, Ranges, TypeOK
<1>10. QED
  BY <1>1, <1>2, <1>3, <1>4, <1>5, <1>6, <1>7, <1>8, <1>9 DEF Next, Read

\* Every variable stays in its range: in particular the length that is being read never
\* has more than four digits, whatever bytes arrive (Network::onSocketReadReady()).
THEOREM CodecTypeCorrect == Spec => []TypeOK
<1>1. Ranges => TypeOK
  BY DEF Ranges
<1>2. QED
  BY <1>1, RangesInit, RangesStep, PTL DEF Spec

-----------------------------------------------------------------------------
(* Where the reader is in what was sent. *)

\* sent is every byte the peer wrote on this connection, and cut[k] the place after its
\* k-th packet: the first m packets it wrote lie one behind the other, and nothing is
\* behind them but, from an overlong length on, bytes that belong to no packet.
Stream(sent, m, cut) ==
    /\ sent \in Seq(Byte)
    /\ m \in 0 .. Len(written)
    /\ cut \in [0 .. m -> Nat] /\ cut[0] = 0
    /\ \A k \in 0 .. m - 1 :
          /\ cut[k + 1] = cut[k] + Len(FrameBytes(written[k + 1]))
          /\ Lies(FrameBytes(written[k + 1]), cut[k], sent)
    /\ IF overlong THEN Lies(Overlong, cut[m], sent)
                   ELSE m = Len(written) /\ cut[m] = Len(sent)

\* The reader's variables after the first i bytes of packet w.
Within(w, i) ==
    \/ /\ readState = "Length" /\ i = shift + 1
       /\ shift < Turns(Len(DataOf(w)))
       /\ header = HeaderOf(w) /\ data = <<>>
       /\ length = Lows(Len(DataOf(w)))[shift + 1]
    \/ /\ readState = "PayLoad" /\ i = 1 + Turns(Len(DataOf(w))) + Len(data)
       /\ header = HeaderOf(w) /\ Lies(data, 0, DataOf(w))
       /\ length = Len(DataOf(w)) - Len(data)

\* The reader is i bytes behind the r-th packet, with those up to it received, and what
\* it read and what is on its way come next.
Reading(sent, m, cut, r, i) ==
    /\ r \in 0 .. m /\ i \in Nat
    /\ received \in Seq(Packets) /\ Len(received) = r
    /\ \A k \in 1 .. r : received[k] = written[k]
    /\ \/ readState = "Header" /\ i = 0
       \/ r < m /\ Within(written[r + 1], i)
       \/ r = m /\ overlong /\ readState = "Length" /\ i = shift + 1
    /\ Lies(batch, cut[r] + i, sent)
    /\ Lies(wire, cut[r] + i + Len(batch), sent)
    /\ up => cut[r] + i + Len(batch) + Len(wire) = Len(sent)

InStep == \E sent, m, cut, r, i : Stream(sent, m, cut) /\ Reading(sent, m, cut, r, i)

\* Until the framing is lost, the reader is in step with the peer.
CodecInv ==
    /\ Ranges
    /\ error => overlong
    /\ ~error => InStep


\* Nothing was sent.
Clean ==
    /\ written = <<>> /\ received = <<>> /\ batch = <<>> /\ wire = <<>>
    /\ ~overlong /\ readState = "Header"

LEMMA CleanIsInStep == Clean => InStep
<1> SUFFICES ASSUME Clean PROVE InStep
  OBVIOUS
<1> DEFINE cut == [k \in 0 .. 0 |-> 0]
<1>1. <<>> \in Seq(Byte) /\ <<>> \in Seq(Packets) /\ Len(<<>>) = 0
  BY EmptySeq
<1>2. cut \in [0 .. 0 -> Nat] /\ cut[0] = 0
  OBVIOUS
<1> HIDE DEF cut
<1>3. Stream(<<>>, 0, cut)
  <2>1. 0 \in 0 .. Len(written) /\ Len(written) = 0
    BY DEF Clean
  <2>2. \A k \in 0 .. 0 - 1 : FALSE
    OBVIOUS
  <2>3. QED
    BY <1>1, <1>2, <2>1, <2>2 DEF Stream, Clean
<1>4. Lies(<<>>, 0, <<>>)
  BY <1>1 DEF Lies
<1>5. Reading(<<>>, 0, cut, 0, 0)
  <2>1. \A k \in 1 .. 0 : received[k] = written[k]
    OBVIOUS
  <2>2. /\ Lies(batch, cut[0] + 0, <<>>) /\ Lies(wire, cut[0] + 0 + Len(batch), <<>>)
        /\ cut[0] + 0 + Len(batch) + Len(wire) = Len(<<>>)
    BY <1>1, <1>2, <1>4 DEF Clean
  <2>3. /\ 0 \in 0 .. 0 /\ 0 \in Nat /\ received \in Seq(Packets) /\ Len(received) = 0
        /\ readState = "Header"
    BY <1>1 DEF Clean
  <2>4. QED
    BY <2>1, <2>2, <2>3 DEF Reading
<1>6. QED
  BY <1>3, <1>5 DEF InStep

LEMMA StreamKept ==
    ASSUME NEW sent, NEW m, NEW cut, Stream(sent, m, cut), UNCHANGED <<written, overlong>>
    PROVE  Stream(sent, m, cut)'
  BY DEF Stream

LEMMA PlaceFacts ==
    ASSUME Ranges, NEW sent, NEW m, NEW cut, NEW r, NEW i, Stream(sent, m, cut),
           Reading(sent, m, cut, r, i)
    PROVE  /\ sent \in Seq(Byte) /\ Len(sent) \in Nat /\ m \in Nat /\ r \in 0 .. m /\ i \in Nat
           /\ cut[r] \in Nat /\ cut[r] + i \in Nat
           /\ batch \in Seq(Byte) /\ Len(batch) \in Nat
           /\ wire \in Seq(Byte) /\ Len(wire) \in Nat
           /\ written \in Seq(Packets) /\ Len(written) \in Nat /\ m <= Len(written)
<1>1. batch \in Seq(Byte) /\ wire \in Seq(Byte) /\ written \in Seq(Packets) /\ sent \in Seq(Byte)
  BY DEF Ranges, TypeOK, Stream
<1>2. Len(batch) \in Nat /\ Len(wire) \in Nat /\ Len(written) \in Nat /\ Len(sent) \in Nat
  BY <1>1, LenProperties
<1>3. m \in 0 .. Len(written) /\ r \in 0 .. m /\ i \in Nat
  BY DEF Stream, Reading
<1>4. cut[r] \in Nat
  BY <1>3 DEF Stream
<1>5. QED
  BY <1>1, <1>2, <1>3, <1>4

LEMMA InStepLose ==
    ASSUME Ranges, InStep, Lose
    PROVE  InStep'
<1>1. PICK sent, m, cut, r, i : Stream(sent, m, cut) /\ Reading(sent, m, cut, r, i)
  BY DEF InStep
<1>2. Stream(sent, m, cut)'
  BY <1>1, StreamKept DEF Lose, histVars
<1>3. UNCHANGED <<batch, received, written, readState, header, length, shift, data, overlong>>
  BY DEF Lose, readerVars, histVars
<1>4. ~up' /\ wire' = <<>>
  BY DEF Lose
<1>5. Lies(<<>>, cut[r] + i + Len(batch), sent)
  <2> DEFINE at == cut[r] + i + Len(batch)
  <2>1. cut[r] + i \in Nat /\ Len(batch) \in Nat /\ Len(sent) \in Nat
    BY <1>1, PlaceFacts
  <2>2. Lies(batch, cut[r] + i, sent)
    BY <1>1 DEF Reading
  <2>3. at <= Len(sent)
    BY <2>2 DEF Lies
  <2>4. at \in Nat
    BY <2>1
  <2> HIDE DEF at
  <2>5. Lies(<<>>, at, sent)
    BY <2>1, <2>3, <2>4 DEF Lies
  <2>6. QED
    BY <2>5 DEF at
<1>6. Reading(sent, m, cut, r, i)'
  BY <1>1, <1>3, <1>4, <1>5 DEF Reading, Within
<1>7. QED
  BY <1>2, <1>6 DEF InStep

LEMMA InStepArrive ==
    ASSUME Ranges, InStep, NEW n \in 1 .. Len(wire), Arrive(n)
    PROVE  InStep'
<1>1. PICK sent, m, cut, r, i : Stream(sent, m, cut) /\ Reading(sent, m, cut, r, i)
  BY DEF InStep
<1>2. Stream(sent, m, cut)'
  BY <1>1, StreamKept DEF Arrive, histVars
<1>3. UNCHANGED <<up, received, written, readState, header, length, shift, data, overlong>>
  BY DEF Arrive, readerVars, histVars
<1>4. batch = <<>> /\ batch' = SubSeq(wire, 1, n) /\ wire' = SubSeq(wire, n + 1, Len(wire))
  BY DEF Arrive
<1> DEFINE at == cut[r] + i
<1>5. at \in Nat /\ wire \in Seq(Byte) /\ sent \in Seq(Byte) /\ Len(wire) \in Nat
  BY <1>1, PlaceFacts
<1>6. Lies(wire, at, sent) /\ (up => at + Len(wire) = Len(sent))
  <2>1. Len(batch) = 0 /\ at + 0 = at
    BY <1>4, <1>5
  <2>2. Lies(wire, at + Len(batch), sent) /\ (up => at + Len(batch) + Len(wire) = Len(sent))
    BY <1>1 DEF Reading
  <2> HIDE DEF at
  <2>3. QED
    BY <2>1, <2>2
<1> HIDE DEF at
<1>7. /\ Len(batch') = n /\ Len(wire') = Len(wire) - n
      /\ Lies(batch', at, sent) /\ Lies(wire', at + n, sent)
  BY <1>4, <1>5, <1>6, LiesCut
<1>8. up' => at + Len(batch') + Len(wire') = Len(sent)
  BY <1>3, <1>5, <1>6, <1>7
<1>9. Reading(sent, m, cut, r, i)'
  BY <1>1, <1>3, <1>7, <1>8 DEF Reading, Within, at
<1>10. QED
  BY <1>2, <1>9 DEF InStep

\* What was read, and then w, is what remains of sent.
Remains(sent, at, w) ==
    /\ Lies(batch, at, sent) /\ Lies(w, at + Len(batch), sent)
    /\ at + Len(batch) + Len(w) = Len(sent)

\* More is sent: the reader's place is the same.
LEMMA PlaceKept ==
    ASSUME Ranges, NEW sent, NEW m, NEW cut, NEW r, NEW i, NEW f \in Seq(Byte),
           Stream(sent, m, cut), Reading(sent, m, cut, r, i), up
    PROVE  Remains(Join(sent, f), cut[r] + i, Join(wire, f))
<1> DEFINE at == cut[r] + i
<1>1. /\ at \in Nat /\ batch \in Seq(Byte) /\ wire \in Seq(Byte) /\ sent \in Seq(Byte)
      /\ Len(wire) \in Nat /\ Len(batch) \in Nat /\ Len(f) \in Nat
  BY PlaceFacts, LenProperties
<1>2. /\ Lies(batch, at, sent) /\ Lies(wire, at + Len(batch), sent)
      /\ at + Len(batch) + Len(wire) = Len(sent)
  BY DEF Reading
<1> HIDE DEF at
<1>3. at + Len(batch) \in Nat
  BY <1>1
<1>4. Lies(batch, at, Join(sent, f))
  BY <1>1, <1>2, LiesStill
<1>5. Lies(Join(wire, f), at + Len(batch), Join(sent, f))
  BY <1>1, <1>2, <1>3, LiesBehind
<1>6. Len(Join(wire, f)) = Len(wire) + Len(f) /\ Len(Join(sent, f)) = Len(sent) + Len(f)
  BY <1>1, JoinIsSeq
<1>7. at + Len(batch) + Len(Join(wire, f)) = Len(Join(sent, f))
  <2>1. at \in Nat /\ Len(batch) \in Nat /\ Len(wire) \in Nat /\ Len(f) \in Nat
    BY <1>1
  <2>2. at + Len(batch) + Len(wire) = Len(sent)
    BY <1>2
  <2>3. at + Len(batch) + (Len(wire) + Len(f)) = Len(sent) + Len(f)
    BY <2>1, <2>2
  <2>4. QED
    BY <1>6, <2>3
<1>8. QED
  BY <1>4, <1>5, <1>7 DEF at, Remains

LEMMA FramesStill ==
    ASSUME Ranges, NEW sent, NEW m, NEW cut, NEW f \in Seq(Byte), Stream(sent, m, cut)
    PROVE  \A k \in 0 .. m - 1 : Lies(FrameBytes(written[k + 1]), cut[k], Join(sent, f))
<1> SUFFICES ASSUME NEW k \in 0 .. m - 1
             PROVE  Lies(FrameBytes(written[k + 1]), cut[k], Join(sent, f))
  OBVIOUS
<1>1. written \in Seq(Packets) /\ sent \in Seq(Byte) /\ m \in 0 .. Len(written)
  BY DEF Stream, Ranges
<1>2. Len(written) \in Nat
  BY <1>1, LenProperties
<1>3. /\ Lies(FrameBytes(written[k + 1]), cut[k], sent) /\ cut[k] \in Nat
      /\ k + 1 \in 1 .. Len(written)
  BY <1>1, <1>2 DEF Stream
<1>4. written[k + 1] \in Packets
  BY <1>1, <1>3, ElementOfSeq
<1>5. FrameBytes(written[k + 1]) \in Seq(Byte)
  BY <1>4, PacketsAreReadable
<1>6. QED
  BY <1>1, <1>3, <1>5, LiesStill

LEMMA InStepWriteOverlong ==
    ASSUME Ranges, InStep, WriteOverlong
    PROVE  InStep'
<1>1. PICK sent, m, cut, r, i : Stream(sent, m, cut) /\ Reading(sent, m, cut, r, i)
  BY DEF InStep
<1> DEFINE f == Overlong
           s == Join(sent, f)
<1>2. f \in Seq(Byte)
  BY OverlongIsBytes
<1>3. sent \in Seq(Byte)
  BY <1>1, PlaceFacts
<1>4. /\ UNCHANGED <<up, batch, received, written, readState, header, length, shift, data>>
      /\ overlong' /\ ~overlong /\ up
  BY DEF WriteOverlong, readerVars
<1>5. wire' = Join(wire, f)
  BY RangesWriteOverlong
<1> HIDE DEF f
<1>6. s \in Seq(Byte)
  BY <1>2, <1>3, JoinIsSeq
<1>7. /\ Lies(batch, cut[r] + i, s) /\ Lies(wire', cut[r] + i + Len(batch), s)
      /\ cut[r] + i + Len(batch) + Len(wire') = Len(s)
  <2>1. Remains(Join(sent, f), cut[r] + i, Join(wire, f))
    BY <1>1, <1>2, <1>4, PlaceKept
  <2>2. QED
    BY <1>5, <2>1 DEF Remains
<1>8. Lies(f, Len(sent), s)
  BY <1>2, <1>3, LiesAtEnd
<1> HIDE DEF s
<1>9. \A k \in 0 .. m - 1 : Lies(FrameBytes(written[k + 1]), cut[k], s)
  BY <1>1, <1>2, FramesStill DEF s
<1>10. Stream(s, m, cut)'
  <2>1. Lies(Overlong, cut[m], s)
    BY <1>1, <1>4, <1>8 DEF Stream, f
  <2>2. QED
    BY <1>1, <1>4, <1>6, <1>9, <2>1 DEF Stream
<1>11. Reading(s, m, cut, r, i)'
  BY <1>1, <1>4, <1>7 DEF Reading, Within
<1>12. QED
  BY <1>10, <1>11 DEF InStep


LEMMA InStepWrite ==
    ASSUME Ranges, InStep, NEW p \in Messages \cup {Empty}, Write(p)
    PROVE  InStep'
<1>1. PICK sent, m, cut, r, i : Stream(sent, m, cut) /\ Reading(sent, m, cut, r, i)
  BY DEF InStep
<1> DEFINE f == FrameBytes(p)
           w == Said(p)
           s == Join(sent, f)
<1>2. w \in Packets /\ f = FrameBytes(w) /\ f \in Seq(Byte)
  BY FrameIsBytes DEF Write
<1>3. /\ sent \in Seq(Byte) /\ Len(sent) \in Nat /\ m \in Nat /\ r \in 0 .. m /\ i \in Nat
      /\ written \in Seq(Packets) /\ Len(written) \in Nat /\ m <= Len(written)
  BY <1>1, PlaceFacts
<1>4. /\ UNCHANGED <<up, batch, received, readState, header, length, shift, data, overlong>>
      /\ up /\ written' = Append(written, w)
  BY DEF Write, readerVars
<1>5. wire' = Join(wire, f)
  BY RangesWrite
<1> HIDE DEF f, w
<1>6. s \in Seq(Byte) /\ Len(s) = Len(sent) + Len(f) /\ Len(f) \in Nat
  BY <1>2, <1>3, JoinIsSeq, LenProperties
<1>7. /\ Lies(batch, cut[r] + i, s) /\ Lies(wire', cut[r] + i + Len(batch), s)
      /\ cut[r] + i + Len(batch) + Len(wire') = Len(s)
  <2>1. Remains(Join(sent, f), cut[r] + i, Join(wire, f))
    <3>1. up
      BY <1>4
    <3>2. QED
      BY <1>1, <1>2, <3>1, PlaceKept
  <2>2. QED
    BY <1>5, <2>1 DEF Remains
<1>8. Lies(f, Len(sent), s)
  BY <1>2, <1>3, LiesAtEnd
<1>9. \A k \in 0 .. m - 1 : Lies(FrameBytes(written[k + 1]), cut[k], s)
  BY <1>1, <1>2, FramesStill
<1>10. overlong => Lies(Overlong, cut[m], s)
  <2>1. ASSUME overlong PROVE Lies(Overlong, cut[m], sent) /\ cut[m] \in Nat
    BY <1>1, <1>3, <2>1 DEF Stream
  <2>2. QED
    BY <1>2, <1>3, <2>1, OverlongIsBytes, LiesStill
<1> HIDE DEF s
<1>11. /\ Len(written') = Len(written) + 1 /\ written'[Len(written) + 1] = w
       /\ \A k \in 1 .. Len(written) : written'[k] = written[k]
  BY <1>2, <1>3, <1>4, AppendProperties
<1>12. \A k \in 1 .. m : written'[k] = written[k]
  BY <1>3, <1>11
<1>13. /\ \A k \in 1 .. r : received'[k] = written'[k]
       /\ r < m => written'[r + 1] = written[r + 1]
       /\ received' \in Seq(Packets) /\ Len(received') = r
  BY <1>1, <1>3, <1>4, <1>12 DEF Reading
<1>14. CASE overlong
  <2>1. Stream(s, m, cut)'
    <3>1. m \in 0 .. Len(written')
      BY <1>3, <1>11
    <3>2. ASSUME NEW k \in 0 .. m - 1
          PROVE  /\ cut[k + 1] = cut[k] + Len(FrameBytes(written'[k + 1]))
                 /\ Lies(FrameBytes(written'[k + 1]), cut[k], s)
      <4>1. k + 1 \in 1 .. m
        BY <1>3
      <4>2. written'[k + 1] = written[k + 1]
        BY <1>12, <4>1
      <4>3. cut[k + 1] = cut[k] + Len(FrameBytes(written[k + 1]))
        BY <1>1 DEF Stream
      <4>4. Lies(FrameBytes(written[k + 1]), cut[k], s)
        BY <1>9
      <4>5. QED
        BY <4>2, <4>3, <4>4
    <3>3. cut \in [0 .. m -> Nat] /\ cut[0] = 0
      BY <1>1 DEF Stream
    <3>4. QED
      BY <1>4, <1>6, <1>10, <1>14, <3>1, <3>2, <3>3 DEF Stream
  <2>2. Reading(s, m, cut, r, i)'
    <3>1. \/ readState' = "Header" /\ i = 0
          \/ r < m /\ Within(written[r + 1], i)'
          \/ r = m /\ overlong' /\ readState' = "Length" /\ i = shift' + 1
      <4>1. \/ readState = "Header" /\ i = 0
            \/ r < m /\ Within(written[r + 1], i)
            \/ r = m /\ overlong /\ readState = "Length" /\ i = shift + 1
        BY <1>1 DEF Reading
      <4>2. ASSUME r < m, Within(written[r + 1], i) PROVE Within(written[r + 1], i)'
        BY <1>4, <1>13, <4>2 DEF Within
      <4>3. QED
        BY <1>4, <4>1, <4>2
    <3>2. QED
      BY <1>1, <1>3, <1>4, <1>7, <1>13, <3>1 DEF Reading
  <2>3. QED
    BY <2>1, <2>2 DEF InStep
<1>15. CASE ~overlong
  <2> DEFINE c == [k \in 0 .. m + 1 |-> IF k <= m THEN cut[k] ELSE Len(s)]
  <2>1. m = Len(written) /\ cut[m] = Len(sent) /\ cut \in [0 .. m -> Nat] /\ cut[0] = 0
    BY <1>1, <1>15 DEF Stream
  <2>2. Len(s) \in Nat
    BY <1>3, <1>6
  <2>3. /\ c \in [0 .. m + 1 -> Nat] /\ \A k \in 0 .. m : c[k] = cut[k]
        /\ c[m + 1] = Len(s)
    BY <1>3, <2>1, <2>2
  <2> HIDE DEF c
  <2>4. Stream(s, m + 1, c)'
    <3>1. m + 1 = Len(written') /\ m + 1 \in 0 .. Len(written')
      BY <1>3, <1>11, <2>1
    <3>2. ASSUME NEW k \in 0 .. m
          PROVE  /\ c[k + 1] = c[k] + Len(FrameBytes(written'[k + 1]))
                 /\ Lies(FrameBytes(written'[k + 1]), c[k], s)
      <4>1. CASE k < m
        <5>1. k + 1 \in 1 .. m /\ k + 1 \in 0 .. m /\ k \in 0 .. m - 1
          BY <1>3, <4>1
        <5>2. c[k + 1] = cut[k + 1] /\ c[k] = cut[k] /\ written'[k + 1] = written[k + 1]
          BY <1>12, <2>3, <5>1
        <5>3. cut[k + 1] = cut[k] + Len(FrameBytes(written[k + 1]))
          BY <1>1, <5>1 DEF Stream
        <5>4. Lies(FrameBytes(written[k + 1]), cut[k], s)
          BY <1>9, <5>1
        <5>5. QED
          BY <5>2, <5>3, <5>4
      <4>2. CASE k = m
        <5>1. m \in 0 .. m
          BY <1>3
        <5>2. c[k + 1] = Len(s) /\ c[k] = Len(sent) /\ written'[k + 1] = w
          BY <1>11, <2>1, <2>3, <4>2, <5>1
        <5>3. QED
          BY <1>2, <1>6, <1>8, <5>2
      <4>3. QED
        BY <1>3, <4>1, <4>2
    <3>3. c[0] = 0
      BY <1>3, <2>1, <2>3
    <3>4. c[m + 1] = Len(s) /\ ~overlong'
      BY <1>4, <1>15, <2>3
    <3>5. IF overlong' THEN Lies(Overlong, c[m + 1], s)
                       ELSE m + 1 = Len(written') /\ c[m + 1] = Len(s)
      BY <3>1, <3>4
    <3>6. c \in [0 .. m + 1 -> Nat]
      BY <2>3
    <3> DEFINE l == m + 1
    <3>7. l \in 0 .. Len(written')
      BY <3>1
    <3> HIDE DEF l
    <3>8. /\ c \in [0 .. l -> Nat]
           /\ \A k \in 0 .. l - 1 :
                 /\ c[k + 1] = c[k] + Len(FrameBytes(written'[k + 1]))
                 /\ Lies(FrameBytes(written'[k + 1]), c[k], s)
      <4>1. c \in [0 .. l -> Nat]
        BY <3>6 DEF l
      <4>2. 0 .. l - 1 = 0 .. m
        BY <1>3 DEF l
      <4>3. QED
        BY <3>2, <4>1, <4>2
    <3>9. IF overlong' THEN Lies(Overlong, c[l], s) ELSE l = Len(written') /\ c[l] = Len(s)
      BY <3>5 DEF l
    <3>10. Stream(s, l, c)'
      BY <1>6, <3>3, <3>7, <3>8, <3>9 DEF Stream
    <3>11. QED
      BY <3>10 DEF l
  <2>5. Reading(s, m + 1, c, r, i)'
    <3>1. \/ readState' = "Header" /\ i = 0
          \/ r < m + 1 /\ Within(written[r + 1], i)'
      <4>1. \/ readState = "Header" /\ i = 0
            \/ r < m /\ Within(written[r + 1], i)
        BY <1>1, <1>15 DEF Reading
      <4>2. ASSUME r < m, Within(written[r + 1], i) PROVE Within(written[r + 1], i)'
        BY <1>4, <1>13, <4>2 DEF Within
      <4>3. QED
        BY <1>3, <1>4, <4>1, <4>2
    <3>2. r \in 0 .. m + 1 /\ c[r] = cut[r]
      BY <1>3, <2>3
    <3>3. QED
      BY <1>3, <1>4, <1>7, <1>13, <3>1, <3>2 DEF Reading
  <2>6. QED
    BY <2>4, <2>5 DEF InStep
<1>16. QED
  BY <1>14, <1>15


-----------------------------------------------------------------------------
(* The reader keeps in step. *)

\* Inside a packet there is a byte to come.
LEMMA WithinFrame ==
    ASSUME Ranges, NEW w \in Packets, NEW i, Within(w, i)
    PROVE  i \in Nat /\ i < Len(FrameBytes(w))
<1> DEFINE n == Len(DataOf(w))
           t == Turns(n)
           l == Len(FrameBytes(w))
<1>1. n \in Nat /\ t \in 1 .. 4 /\ l = 1 + t + n
  BY PacketsAreReadable, FrameFacts
<1>2. Len(data) \in Nat
  BY LenProperties DEF Ranges, TypeOK
<1>3. \/ readState = "Length" /\ i = shift + 1 /\ shift < t
      \/ readState = "PayLoad" /\ i = 1 + t + Len(data) /\ length = n - Len(data)
  BY DEF Within
<1> HIDE DEF n, t, l
<1>4. shift \in Nat /\ (readState = "PayLoad" => length > 0)
  BY DEF Ranges, TypeOK
<1>5. i \in Nat /\ i < l
  BY <1>1, <1>2, <1>3, <1>4
<1>6. QED
  BY <1>5 DEF l

LEMMA FrameIsLonger ==
    ASSUME NEW w \in Packets
    PROVE  Len(FrameBytes(w)) \in Nat \ {0}
<1>1. Readable(w)
  BY PacketsAreReadable
<1> DEFINE n == Len(DataOf(w))
           t == Turns(n)
           l == Len(FrameBytes(w))
<1>2. n \in Nat /\ t \in 1 .. 4 /\ l = 1 + t + n
  BY <1>1, FrameFacts
<1> HIDE DEF n, t, l
<1>3. l \in Nat \ {0}
  BY <1>2
<1>4. QED
  BY <1>3 DEF l

\* The place is in bounds when there is something to read.
LEMMA NextByte ==
    ASSUME Ranges, NEW sent, NEW m, NEW cut, NEW r, NEW i, Stream(sent, m, cut),
           Reading(sent, m, cut, r, i), batch # <<>>
    PROVE  /\ r < m => /\ written[r + 1] \in Packets
                       /\ i < Len(FrameBytes(written[r + 1]))
                       /\ Head(batch) = ByteAt(FrameBytes(written[r + 1]), i + 1)
           /\ r = m => overlong /\ i <= 4 /\ Head(batch) = ByteAt(Overlong, i + 1)
<1> DEFINE at == cut[r] + i
<1>1. /\ sent \in Seq(Byte) /\ Len(sent) \in Nat /\ m \in Nat /\ r \in 0 .. m /\ i \in Nat
      /\ cut[r] \in Nat /\ at \in Nat /\ batch \in Seq(Byte)
      /\ written \in Seq(Packets) /\ Len(written) \in Nat /\ m <= Len(written)
  BY PlaceFacts
<1>2. Lies(batch, at, sent)
  BY DEF Reading
<1> HIDE DEF at
<1>3. at + 1 <= Len(sent) /\ ByteAt(sent, at + 1) = Head(batch)
  BY <1>1, <1>2, LiesHead
<1>4. at + 1 = cut[r] + (i + 1)
  <2>1. cut[r] \in Nat /\ i \in Nat
    BY <1>1
  <2>2. QED
    BY <2>1 DEF at
<1>5. ASSUME r < m
      PROVE  /\ written[r + 1] \in Packets
             /\ i < Len(FrameBytes(written[r + 1]))
             /\ Head(batch) = ByteAt(FrameBytes(written[r + 1]), i + 1)
  <2> DEFINE w == written[r + 1]
  <2>1. r + 1 \in 1 .. m /\ r + 1 \in 1 .. Len(written) /\ r + 1 - 1 = r
    BY <1>1, <1>5
  <2>2. w \in Packets
    BY <1>1, <2>1, ElementOfSeq
  <2>3. Lies(FrameBytes(w), cut[r], sent)
    <3>1. r \in 0 .. m - 1
      BY <1>1, <1>5
    <3>2. QED
      BY <3>1 DEF Stream
  <2>4. \/ readState = "Header" /\ i = 0
        \/ Within(w, i)
    BY <1>5 DEF Reading
  <2> HIDE DEF w
  <2>5. Len(FrameBytes(w)) \in Nat \ {0}
    BY <2>2, FrameIsLonger
  <2>6. i < Len(FrameBytes(w))
    BY <2>2, <2>4, <2>5, WithinFrame
  <2>7. i + 1 \in 1 .. Len(FrameBytes(w))
    BY <1>1, <2>5, <2>6
  <2>8. ByteAt(sent, cut[r] + (i + 1)) = ByteAt(FrameBytes(w), i + 1)
    BY <2>3, <2>7 DEF Lies
  <2>9. QED
    BY <1>3, <1>4, <2>2, <2>6, <2>8 DEF w
<1>6. ASSUME r = m PROVE overlong /\ i <= 4 /\ Head(batch) = ByteAt(Overlong, i + 1)
  <2>1. \/ readState = "Header" /\ i = 0
        \/ overlong /\ readState = "Length" /\ i = shift + 1
    <3>1. ~(r < m)
      BY <1>1, <1>6
    <3>2. QED
      BY <3>1 DEF Reading
  <2>2. overlong
    <3>1. ASSUME ~overlong PROVE FALSE
      <4>1. cut[r] = Len(sent) /\ i = 0
        BY <1>6, <2>1, <3>1 DEF Stream
      <4>2. QED
        BY <1>1, <1>3, <1>4, <4>1
    <3>2. QED
      BY <3>1
  <2>3. i <= 4 /\ i + 1 \in 1 .. 6
    BY <1>1, <2>1 DEF Ranges, TypeOK
  <2>4. Lies(Overlong, cut[r], sent) /\ Len(Overlong) = 6
    BY <1>6, <2>2, OverlongIsBytes DEF Stream
  <2>5. ByteAt(sent, cut[r] + (i + 1)) = ByteAt(Overlong, i + 1)
    BY <2>3, <2>4 DEF Lies
  <2>6. QED
    BY <1>3, <1>4, <2>2, <2>3, <2>5
<1>7. QED
  BY <1>5, <1>6

\* The byte is taken: what is left comes next.
LEMMA ByteTaken ==
    ASSUME Ranges, NEW sent, NEW m, NEW cut, NEW r, NEW i, Stream(sent, m, cut),
           Reading(sent, m, cut, r, i), batch # <<>>, batch' = Tail(batch),
           UNCHANGED <<up, wire>>,
           NEW q, NEW j, cut[q] + j = cut[r] + (i + 1)
    PROVE  /\ Lies(batch, cut[q] + j, sent)'
           /\ Lies(wire, cut[q] + j + Len(batch), sent)'
           /\ (up => cut[q] + j + Len(batch) + Len(wire) = Len(sent))'
<1> DEFINE at == cut[r] + i
<1>1. /\ sent \in Seq(Byte) /\ i \in Nat /\ cut[r] \in Nat /\ at \in Nat
      /\ batch \in Seq(Byte) /\ Len(batch) \in Nat /\ Len(wire) \in Nat
  BY PlaceFacts
<1>2. /\ Lies(batch, at, sent) /\ Lies(wire, at + Len(batch), sent)
      /\ up => at + Len(batch) + Len(wire) = Len(sent)
  BY DEF Reading
<1>3. at + 1 = cut[q] + j
  BY <1>1
<1> HIDE DEF at
<1>4. Len(Tail(batch)) = Len(batch) - 1 /\ Lies(Tail(batch), at + 1, sent)
  BY <1>1, <1>2, LiesHead
<1>5. at + Len(batch) = at + 1 + Len(Tail(batch))
  BY <1>1, <1>4
<1> HIDE DEF at
<1>6. Lies(wire, at + 1 + Len(Tail(batch)), sent)
  BY <1>2, <1>5
<1>7. up => at + 1 + Len(Tail(batch)) + Len(wire) = Len(sent)
  BY <1>2, <1>5
<1>8. QED
  BY <1>3, <1>4, <1>6, <1>7


\* A byte in the middle of a packet, or of the overlong length.
LEMMA InStepInside ==
    ASSUME Ranges, NEW sent, NEW m, NEW cut, NEW r, NEW i, Stream(sent, m, cut),
           Reading(sent, m, cut, r, i), batch # <<>>, batch' = Tail(batch),
           UNCHANGED <<up, wire, written, overlong, received>>,
           \/ r < m /\ Within(written[r + 1], i + 1)'
           \/ r = m /\ overlong /\ readState' = "Length" /\ i + 1 = shift' + 1
    PROVE  InStep'
<1>1. Stream(sent, m, cut)'
  BY StreamKept
<1>2. i \in Nat /\ cut[r] \in Nat /\ r \in 0 .. m
  BY PlaceFacts
<1> DEFINE j == i + 1
<1>3. j \in Nat /\ cut[r] + j = cut[r] + (i + 1)
  BY <1>2
<1>4. \/ r < m /\ Within(written[r + 1], j)'
      \/ r = m /\ overlong' /\ readState' = "Length" /\ j = shift' + 1
  OBVIOUS
<1> HIDE DEF j
<1>5. /\ Lies(batch, cut[r] + j, sent)'
      /\ Lies(wire, cut[r] + j + Len(batch), sent)'
      /\ (up => cut[r] + j + Len(batch) + Len(wire) = Len(sent))'
  BY <1>3, ByteTaken
<1>6. /\ received' \in Seq(Packets) /\ Len(received') = r
      /\ \A k \in 1 .. r : received'[k] = written'[k]
  BY DEF Reading
<1>7. Reading(sent, m, cut, r, j)'
  BY <1>2, <1>3, <1>4, <1>5, <1>6 DEF Reading
<1>8. QED
  BY <1>1, <1>7 DEF InStep

\* The last byte of a packet.
LEMMA InStepEmitted ==
    ASSUME Ranges, NEW sent, NEW m, NEW cut, NEW r, NEW i, Stream(sent, m, cut),
           Reading(sent, m, cut, r, i), batch # <<>>, batch' = Tail(batch),
           UNCHANGED <<up, wire, written, overlong>>,
           r < m, i + 1 = Len(FrameBytes(written[r + 1])),
           readState' = "Header", received' = Append(received, written[r + 1])
    PROVE  InStep'
<1>1. Stream(sent, m, cut)'
  BY StreamKept
<1>2. /\ i \in Nat /\ cut[r] \in Nat /\ r \in 0 .. m /\ m \in Nat
      /\ written \in Seq(Packets) /\ Len(written) \in Nat /\ m <= Len(written)
  BY PlaceFacts
<1> DEFINE q == r + 1
<1>3. q \in 0 .. m /\ q \in 1 .. Len(written) /\ r \in 0 .. m - 1
  BY <1>2
<1>4. cut[q] = cut[r] + (i + 1)
  BY <1>3 DEF Stream
<1>5. cut[q] \in Nat
  BY <1>2, <1>4
<1>6. written[q] \in Packets
  BY <1>2, <1>3, ElementOfSeq
<1>7. /\ received' \in Seq(Packets) /\ Len(received') = q
      /\ \A k \in 1 .. q : received'[k] = written'[k]
  <2>1. /\ received \in Seq(Packets) /\ Len(received) = r
        /\ \A k \in 1 .. r : received[k] = written[k]
    BY DEF Reading
  <2> DEFINE w == written[q]
  <2>2. w \in Packets /\ received' = Append(received, w)
    BY <1>6
  <2> HIDE DEF w
  <2>3. /\ received' \in Seq(Packets) /\ Len(received') = Len(received) + 1
        /\ \A k \in 1 .. Len(received) : received'[k] = received[k]
        /\ received'[Len(received) + 1] = w
    BY <2>1, <2>2, AppendProperties
  <2>4. ASSUME NEW k \in 1 .. q PROVE received'[k] = written[k]
    <3>1. CASE k <= r
      <4>1. k \in 1 .. r /\ k \in 1 .. Len(received)
        BY <1>2, <2>1, <3>1
      <4>2. received'[k] = received[k] /\ received[k] = written[k]
        BY <2>1, <2>3, <4>1
      <4>3. QED
        BY <4>2
    <3>2. CASE k = q
      <4>1. received'[k] = w
        BY <2>1, <2>3, <3>2
      <4>2. QED
        BY <3>2, <4>1 DEF w
    <3>3. k <= r \/ k = q
      <4>1. r \in Nat
        BY <1>2
      <4>2. QED
        BY <4>1
    <3>4. QED
      BY <3>1, <3>2, <3>3
  <2>5. QED
    BY <2>1, <2>3, <2>4
<1> HIDE DEF q
<1>8. cut[q] + 0 = cut[r] + (i + 1)
  BY <1>4, <1>5
<1>9. /\ Lies(batch, cut[q] + 0, sent)'
      /\ Lies(wire, cut[q] + 0 + Len(batch), sent)'
      /\ (up => cut[q] + 0 + Len(batch) + Len(wire) = Len(sent))'
  BY <1>8, ByteTaken
<1>10. Reading(sent, m, cut, q, 0)'
  BY <1>3, <1>7, <1>9 DEF Reading
<1>11. QED
  BY <1>1, <1>10 DEF InStep

LEMMA InStepReadHeader ==
    ASSUME Ranges, InStep, ReadHeader
    PROVE  InStep'
<1>1. PICK sent, m, cut, r, i : Stream(sent, m, cut) /\ Reading(sent, m, cut, r, i)
  BY DEF InStep
<1>2. /\ batch # <<>> /\ batch' = Tail(batch) /\ readState = "Header"
      /\ UNCHANGED <<up, wire, written, overlong, received>>
      /\ readState' = "Length" /\ header' = Head(batch) /\ length' = 0 /\ shift' = 0
      /\ data' = <<>>
  BY DEF ReadHeader, histVars
<1>3. /\ r < m => /\ written[r + 1] \in Packets
                  /\ Head(batch) = ByteAt(FrameBytes(written[r + 1]), i + 1)
      /\ r = m => overlong
  BY <1>1, <1>2, NextByte
<1>4. i = 0 /\ r \in 0 .. m /\ m \in Nat
  <2>1. r \in 0 .. m /\ m \in Nat
    BY <1>1, PlaceFacts
  <2>2. i = 0
    BY <1>1, <1>2 DEF Reading, Within
  <2>3. QED
    BY <2>1, <2>2
<1>5. CASE r < m
  <2>1. PICK w \in Packets : w = written[r + 1] /\ Head(batch) = ByteAt(FrameBytes(w), 1)
    <3>1. 0 + 1 = 1
      OBVIOUS
    <3>2. QED
      BY <1>3, <1>4, <1>5, <3>1
  <2> DEFINE n == Len(DataOf(w))
             t == Turns(n)
  <2>2. n \in Nat /\ t \in 1 .. 4 /\ FrameBytes(w)[1] = HeaderOf(w)
    BY PacketsAreReadable, FrameFacts
  <2>3. Lows(n)[1] = 0
    BY <2>2, LowsFacts
  <2>4. Within(w, 1)'
    <3>1. 1 = shift' + 1 /\ shift' < t
      BY <1>2, <2>2
    <3>2. header' = HeaderOf(w)
      BY <1>2, <2>1, <2>2 DEF ByteAt
    <3>3. length' = Lows(n)[shift' + 1]
      BY <1>2, <2>3
    <3>4. QED
      BY <1>2, <3>1, <3>2, <3>3 DEF Within
  <2>5. Within(written[r + 1], i + 1)'
    BY <1>2, <1>4, <2>1, <2>4 DEF Within
  <2>6. QED
    BY <1>1, <1>2, <1>5, <2>5, InStepInside
<1>6. CASE r = m
  BY <1>1, <1>2, <1>3, <1>4, <1>6, InStepInside
<1>7. QED
  BY <1>4, <1>5, <1>6


\* What lies at the start and is as long is the whole.
LEMMA LiesWhole ==
    ASSUME NEW s \in Seq(Byte), NEW d \in Seq(Byte), Lies(s, 0, d), Len(s) = Len(d)
    PROVE  s = d
<1>1. Len(s) \in Nat
  BY LenProperties
<1>2. ASSUME NEW j \in 1 .. Len(s) PROVE s[j] = d[j]
  <2>1. 0 + j = j
    BY <1>1
  <2>2. ByteAt(d, 0 + j) = ByteAt(s, j)
    BY DEF Lies
  <2>3. QED
    BY <2>1, <2>2 DEF ByteAt
<1>3. QED
  BY <1>2, SeqEqual

\* One byte of the length of a packet.
LEMMA InStepReadLengthOf ==
    ASSUME Ranges, ReadLength, NEW sent, NEW m, NEW cut, NEW r, NEW i, Stream(sent, m, cut),
           Reading(sent, m, cut, r, i), r < m
    PROVE  InStep' /\ UNCHANGED error
<1>1. /\ batch # <<>> /\ batch' = Tail(batch) /\ readState = "Length"
      /\ UNCHANGED <<up, wire, header, data, written, overlong>>
      /\ length' = length + (Head(batch) % Base) * Weight[shift + 1] /\ shift' = shift + 1
  BY DEF ReadLength
<1>2. /\ written[r + 1] \in Packets
      /\ Head(batch) = ByteAt(FrameBytes(written[r + 1]), i + 1)
  BY <1>1, NextByte
<1>3. PICK w \in Packets : w = written[r + 1]
  BY <1>2
<1> DEFINE n == Len(DataOf(w))
           t == Turns(n)
           e == EncodeLength(n)
           b == Head(batch)
           k == shift + 1
<1>4. /\ DataOf(w) \in Seq(Byte) /\ n \in Nat /\ t \in 1 .. 4
      /\ Decode(HeaderOf(w), DataOf(w)) = w
      /\ Len(FrameBytes(w)) = 1 + t + n
      /\ \A j \in 1 .. t : FrameBytes(w)[1 + j] = e[j]
  <2>1. Readable(w)
    BY PacketsAreReadable
  <2>2. /\ n \in Nat /\ t \in 1 .. 4 /\ Len(FrameBytes(w)) = 1 + t + n
        /\ \A j \in 1 .. t : FrameBytes(w)[1 + j] = e[j]
    BY <2>1, FrameFacts
  <2>3. QED
    BY <2>1, <2>2 DEF Readable
<1>5. /\ i = k /\ shift < t /\ header = HeaderOf(w) /\ data = <<>> /\ length = Lows(n)[k]
  BY <1>1, <1>3 DEF Reading, Within
<1>6. shift \in Nat
  BY DEF Ranges, TypeOK
<1>7. k \in 1 .. t /\ k \in 1 .. 4 /\ k \in 1 .. 5 /\ i + 1 = 1 + k
  <2> HIDE DEF n, t
  <2>1. QED
    BY <1>4, <1>5, <1>6
<1>8. b = e[k]
  <2> HIDE DEF e, t, n, k
  <2>1. FrameBytes(w)[1 + k] = e[k]
    BY <1>4, <1>7
  <2>2. QED
    BY <1>2, <1>3, <1>7, <2>1 DEF ByteAt
<1>9. /\ b % Base = DigitOf(n, k)
      /\ k < t => b >= Base
      /\ k = t => b < Base
  <2> HIDE DEF k, b
  <2>1. QED
    BY <1>4, <1>7, <1>8, LengthBytes
<1>10. Lows(n)[k + 1] = Lows(n)[k] + DigitOf(n, k) * Weight[k]
  <2> HIDE DEF k, n
  <2>1. QED
    BY <1>4, <1>7, LowsFacts
<1>11. length' = Lows(n)[k + 1] /\ shift' = k
  BY <1>1, <1>5, <1>9, <1>10
<1>12. Lows(n)[t + 1] = n
  <2>1. n \in Nat /\ Turns(n) \in 1 .. 4
    BY <1>4
  <2> HIDE DEF n
  <2>2. Turns(n) <= 4
    BY <2>1
  <2>3. QED
    BY <2>1, <2>2, LowsFacts
<1>13. b \in 0 .. 2 * Base - 1 /\ Base \in Nat
  BY <1>1, BatchRead, CodecAssumption DEF Byte
<1> DEFINE More == b >= Base /\ shift' <= LastShift /\ UNCHANGED <<readState, received, error>>
           Lost == b >= Base /\ shift' > LastShift
           Done == b < Base /\ length' = 0 /\ EmitReceived(data) /\ UNCHANGED error
           Rest == /\ b < Base /\ length' > 0 /\ readState' = "PayLoad"
                   /\ UNCHANGED <<received, error>>
<1>14. More \/ Lost \/ Done \/ Rest
  BY DEF ReadLength
<1>15. CASE k < t
  <2>1. More
    <3>1. b >= Base /\ ~(b < Base)
      BY <1>9, <1>13, <1>15
    <3>2. ~(shift' > LastShift)
      <4> HIDE DEF k, t
      <4>1. QED
        BY <1>4, <1>7, <1>11, <1>15 DEF LastShift
    <3> HIDE DEF b
    <3>3. QED
      BY <1>14, <3>1, <3>2
  <2>2. Within(w, i + 1)'
    <3>1. i + 1 = shift' + 1 /\ shift' < t
      BY <1>5, <1>11, <1>15
    <3>2. length' = Lows(n)[shift' + 1]
      BY <1>11
    <3>3. QED
      BY <1>1, <1>5, <2>1, <3>1, <3>2 DEF Within
  <2>3. Within(written[r + 1], i + 1)' /\ UNCHANGED <<received, error>>
    BY <1>1, <1>3, <2>1, <2>2 DEF Within
  <2>4. QED
    BY <1>1, <2>3, InStepInside
<1>16. CASE k = t
  <2>1. length' = n /\ ~(b >= Base)
    <3>1. length' = n
      BY <1>11, <1>12, <1>16
    <3>2. QED
      BY <1>9, <1>13, <1>16, <3>1
  <2>2. CASE n = 0
    <3>1. EmitReceived(data) /\ UNCHANGED error
      <4>1. ~(length' > 0)
        BY <2>1, <2>2
      <4> HIDE DEF b
      <4>2. QED
        BY <1>14, <2>1, <4>1
    <3>2. DataOf(w) = <<>>
      BY <1>4, <2>2, EmptySeq
    <3>3. received' = Append(received, written[r + 1]) /\ readState' = "Header"
      BY <1>3, <1>4, <1>5, <3>1, <3>2 DEF EmitReceived
    <3>4. i + 1 = Len(FrameBytes(written[r + 1]))
      <4> HIDE DEF t, n, k
      <4>1. i + 1 = 1 + t + n
        BY <1>4, <1>7, <1>16, <2>2
      <4>2. QED
        BY <1>3, <1>4, <4>1
    <3>5. QED
      BY <1>1, <3>1, <3>3, <3>4, InStepEmitted
  <2>3. CASE n # 0
    <3>1. Rest
      <4>1. length' # 0
        BY <2>1, <2>3
      <4> HIDE DEF b
      <4>2. QED
        BY <1>14, <2>1, <4>1
    <3>2. Within(w, i + 1)'
      <4>1. data' = <<>> /\ Len(data') = 0
        BY <1>1, <1>5
      <4>2. i + 1 = 1 + t + 0 /\ n = n - 0
        <5> HIDE DEF t, n, k
        <5>1. QED
          BY <1>4, <1>7, <1>16
      <4>3. Lies(<<>>, 0, DataOf(w))
        BY <1>4 DEF Lies
      <4>4. QED
        BY <1>1, <1>5, <2>1, <3>1, <4>1, <4>2, <4>3 DEF Within
    <3>3. Within(written[r + 1], i + 1)' /\ UNCHANGED <<received, error>>
      BY <1>1, <1>3, <3>1, <3>2 DEF Within
    <3>4. QED
      BY <1>1, <3>3, InStepInside
  <2>4. QED
    BY <2>2, <2>3
<1>17. QED
  <2> HIDE DEF k, t
  <2>1. QED
    BY <1>4, <1>7, <1>15, <1>16

\* One byte of an overlong length: the fourth that says that another follows is the error.
LEMMA InStepReadLengthOverlong ==
    ASSUME Ranges, ReadLength, NEW sent, NEW m, NEW cut, NEW r, NEW i, Stream(sent, m, cut),
           Reading(sent, m, cut, r, i), r = m
    PROVE  overlong /\ (error' \/ InStep')
<1>1. /\ batch # <<>> /\ batch' = Tail(batch) /\ readState = "Length"
      /\ UNCHANGED <<up, wire, header, data, written, overlong>>
      /\ shift' = shift + 1
  BY DEF ReadLength
<1>2. overlong /\ Head(batch) = ByteAt(Overlong, i + 1)
  BY <1>1, NextByte
<1>3. m \in Nat
  BY PlaceFacts
<1>4. i = shift + 1 /\ shift \in 0 .. 3
  <2>1. ~(r < m)
    BY <1>3
  <2>2. QED
    BY <1>1, <2>1 DEF Reading, Ranges, TypeOK
<1>5. Base \in Nat \ {0}
  BY CodecAssumption
<1>6. Head(batch) = Base
  <2>1. i + 1 \in 2 .. 5
    BY <1>4
  <2>2. \A j \in 2 .. 5 : Overlong[j] = Base
    BY DEF Overlong
  <2>3. QED
    BY <1>2, <2>1, <2>2 DEF ByteAt
<1>7. \/ shift' <= LastShift /\ UNCHANGED <<readState, received, error>>
      \/ error'
  BY <1>5, <1>6 DEF ReadLength
<1>8. CASE shift' <= LastShift /\ UNCHANGED <<readState, received, error>>
  <2>1. readState' = "Length" /\ i + 1 = shift' + 1
    BY <1>1, <1>4, <1>8
  <2>2. InStep'
    BY <1>1, <1>2, <1>8, <2>1, InStepInside
  <2>3. QED
    BY <1>2, <1>8, <2>2
<1>9. QED
  BY <1>2, <1>7, <1>8


\* One byte of the data of a packet.
LEMMA InStepReadPayload ==
    ASSUME Ranges, InStep, ReadPayload
    PROVE  InStep'
<1>1. PICK sent, m, cut, r, i : Stream(sent, m, cut) /\ Reading(sent, m, cut, r, i)
  BY DEF InStep
<1>2. /\ batch # <<>> /\ batch' = Tail(batch) /\ readState = "PayLoad"
      /\ UNCHANGED <<up, wire, header, shift, written, overlong, error>>
      /\ data' = Append(data, Head(batch)) /\ length' = length - 1
      /\ IF length' > 0 THEN UNCHANGED <<readState, received>> ELSE EmitReceived(data')
  BY DEF ReadPayload
<1>3. r < m /\ Within(written[r + 1], i)
  BY <1>1, <1>2 DEF Reading
<1>4. /\ written[r + 1] \in Packets
      /\ Head(batch) = ByteAt(FrameBytes(written[r + 1]), i + 1)
  BY <1>1, <1>2, <1>3, NextByte
<1>5. PICK w \in Packets : w = written[r + 1]
  BY <1>4
<1> DEFINE n == Len(DataOf(w))
           t == Turns(n)
           l == Len(data)
           d == DataOf(w)
           f == FrameBytes(w)
<1>6. /\ d \in Seq(Byte) /\ n \in Nat /\ t \in 1 .. 4 /\ Decode(HeaderOf(w), d) = w
      /\ Len(f) = 1 + t + n
      /\ \A j \in 1 .. n : f[1 + t + j] = d[j]
  <2>1. Readable(w)
    BY PacketsAreReadable
  <2>2. /\ n \in Nat /\ t \in 1 .. 4 /\ Len(f) = 1 + t + n
        /\ \A j \in 1 .. n : f[1 + t + j] = d[j]
    BY <2>1, FrameFacts
  <2>3. QED
    BY <2>1, <2>2 DEF Readable
<1>7. i = 1 + t + l /\ header = HeaderOf(w) /\ Lies(data, 0, d) /\ length = n - l
  BY <1>2, <1>3, <1>5 DEF Within
<1>8. data \in Seq(Byte) /\ l \in Nat /\ length > 0 /\ length \in Int
  <2>1. data \in Seq(Byte)
    BY DEF Ranges, TypeOK
  <2>2. l \in Nat
    BY <2>1, LenProperties
  <2>3. length > 0
    BY <1>2 DEF Ranges, TypeOK
  <2>4. length \in Int
    BY <1>6, <1>7, <2>2
  <2>5. QED
    BY <2>1, <2>2, <2>3, <2>4
<1> HIDE DEF n, t, l, d, f
<1>9. l + 1 \in 1 .. n /\ i + 1 = 1 + t + (l + 1) /\ length' = n - (l + 1)
  BY <1>2, <1>6, <1>7, <1>8
<1>10. Head(batch) = ByteAt(d, l + 1)
  <2>1. Head(batch) = ByteAt(f, i + 1)
    BY <1>4, <1>5 DEF f
  <2>2. f[1 + t + (l + 1)] = d[l + 1]
    BY <1>6, <1>9
  <2>3. QED
    BY <1>9, <2>1, <2>2 DEF ByteAt
<1>11. Head(batch) \in Byte
  BY <1>2, BatchRead
<1>12. /\ data' \in Seq(Byte) /\ Len(data') = l + 1
       /\ Lies(data', 0, d)
  <2> DEFINE b == Head(batch)
             a == Append(data, b)
  <2>1. b \in Byte /\ b = ByteAt(d, l + 1) /\ data' = a
    BY <1>2, <1>10, <1>11
  <2> HIDE DEF b
  <2>2. /\ a \in Seq(Byte) /\ Len(a) = Len(data) + 1
        /\ \A j \in 1 .. Len(data) : a[j] = data[j]
        /\ a[Len(data) + 1] = b
    BY <1>8, <2>1, AppendProperties
  <2> HIDE DEF a
  <2>3. Len(a) = l + 1 /\ a[l + 1] = b /\ \A j \in 1 .. l : a[j] = data[j]
    BY <2>2 DEF l
  <2>4. ASSUME NEW j \in 1 .. l + 1 PROVE ByteAt(d, 0 + j) = ByteAt(a, j)
    <3>1. CASE j = l + 1
      <4>1. 0 + j = l + 1
        BY <1>8, <3>1
      <4>2. QED
        BY <2>1, <2>3, <3>1, <4>1 DEF ByteAt
    <3>2. CASE j # l + 1
      <4>1. j \in 1 .. l
        BY <1>8, <3>2
      <4>2. ByteAt(d, 0 + j) = ByteAt(data, j)
        BY <1>7, <4>1 DEF Lies, l
      <4>3. QED
        BY <2>3, <4>1, <4>2 DEF ByteAt
    <3>3. QED
      BY <3>1, <3>2
  <2>5. 0 + Len(a) <= Len(d)
    BY <1>6, <1>9, <2>3 DEF n, d
  <2>6. QED
    BY <2>1, <2>2, <2>3, <2>4, <2>5 DEF Lies
<1>13. CASE length' > 0
  <2>1. readState' = "PayLoad" /\ UNCHANGED received
    BY <1>2, <1>13
  <2>2. Within(w, i + 1)'
    <3>1. i + 1 = 1 + t + Len(data')
      BY <1>9, <1>12
    <3>2. length' = n - Len(data')
      BY <1>9, <1>12
    <3>3. QED
      BY <1>2, <1>7, <1>12, <2>1, <3>1, <3>2 DEF Within, n, t, d
  <2>3. Within(written[r + 1], i + 1)'
    BY <1>2, <1>5, <2>2 DEF Within
  <2>4. QED
    BY <1>1, <1>2, <1>3, <2>1, <2>3, InStepInside
<1>14. CASE ~(length' > 0)
  <2>1. l + 1 = n
    BY <1>6, <1>8, <1>9, <1>14
  <2>2. Len(data') = Len(d)
    BY <1>12, <2>1 DEF n, d
  <2>3. data' = d
    BY <1>6, <1>12, <2>2, LiesWhole
  <2>4. readState' = "Header" /\ received' = Append(received, written[r + 1])
    BY <1>2, <1>5, <1>6, <1>7, <1>14, <2>3 DEF EmitReceived
  <2>5. i + 1 = Len(FrameBytes(written[r + 1]))
    <3>1. i + 1 = Len(f)
      BY <1>6, <1>9, <2>1
    <3>2. QED
      BY <1>5, <3>1 DEF f
  <2>6. QED
    BY <1>1, <1>2, <1>3, <2>4, <2>5, InStepEmitted
<1>15. QED
  BY <1>13, <1>14

-----------------------------------------------------------------------------
(* The invariant. *)

LEMMA CodecInvInit == Init => CodecInv
<1> SUFFICES ASSUME Init PROVE CodecInv
  OBVIOUS
<1>1. Clean /\ ~error
  BY DEF Init, Clean
<1>2. QED
  BY <1>1, RangesInit, CleanIsInStep DEF CodecInv

LEMMA CleanNext == Clean' => InStep'
  BY CleanIsInStep, PTL

LEMMA CodecInvOpen ==
    ASSUME CodecInv, Open
    PROVE  CodecInv'
<1>1. Ranges' /\ wire = <<>>
  BY RangesOpen DEF CodecInv, Ranges, Open
<1>2. Clean' /\ ~error'
  BY <1>1 DEF Clean, Open
<1>3. QED
  BY <1>1, <1>2, CleanNext DEF CodecInv

LEMMA CodecInvReadLength ==
    ASSUME CodecInv, ReadLength
    PROVE  CodecInv'
<1>1. Ranges' /\ overlong' = overlong
  BY RangesReadLength DEF CodecInv, ReadLength
<1>2. CASE error
  <2>1. error'
    BY <1>2 DEF ReadLength
  <2>2. overlong
    BY <1>2 DEF CodecInv
  <2>3. QED
    BY <1>1, <2>1, <2>2 DEF CodecInv
<1>3. CASE ~error
  <2>1. PICK sent, m, cut, r, i : Stream(sent, m, cut) /\ Reading(sent, m, cut, r, i)
    BY <1>3 DEF CodecInv, InStep
  <2>2. Ranges
    BY DEF CodecInv
  <2>3. r < m \/ r = m
    BY <2>1, <2>2, PlaceFacts
  <2>4. CASE r < m
    <3>1. InStep' /\ ~error'
      BY <1>3, <2>1, <2>2, <2>4, InStepReadLengthOf
    <3>2. QED
      BY <1>1, <3>1 DEF CodecInv
  <2>5. CASE r = m
    <3>1. overlong /\ (error' \/ InStep')
      BY <2>1, <2>2, <2>5, InStepReadLengthOverlong
    <3>2. QED
      BY <1>1, <3>1 DEF CodecInv
  <2>6. QED
    BY <2>3, <2>4, <2>5
<1>4. QED
  BY <1>2, <1>3

LEMMA CodecInvStep == CodecInv /\ [Next]_vars => CodecInv'
<1> SUFFICES ASSUME CodecInv, [Next]_vars PROVE CodecInv'
  OBVIOUS
<1>1. Ranges /\ Ranges' /\ (error => overlong) /\ (~error => InStep)
  BY RangesStep DEF CodecInv
<1>2. ASSUME UNCHANGED error, overlong => overlong', ~error => InStep' PROVE CodecInv'
  BY <1>1, <1>2 DEF CodecInv
<1>3. CASE Open
  BY <1>3, CodecInvOpen
<1>4. CASE Lose
  <2>1. UNCHANGED error /\ (overlong => overlong')
    BY <1>4 DEF Lose, histVars
  <2>2. QED
    BY <1>1, <1>2, <1>4, <2>1, InStepLose
<1>5. CASE \E p \in Messages \cup {Empty} : Write(p)
  <2>1. PICK p \in Messages \cup {Empty} : Write(p)
    BY <1>5
  <2>2. UNCHANGED error /\ (overlong => overlong')
    BY <2>1 DEF Write
  <2>3. QED
    BY <1>1, <1>2, <2>1, <2>2, InStepWrite
<1>6. CASE WriteOverlong
  <2>1. UNCHANGED error /\ (overlong => overlong')
    BY <1>6 DEF WriteOverlong
  <2>2. QED
    BY <1>1, <1>2, <1>6, <2>1, InStepWriteOverlong
<1>7. CASE \E n \in 1 .. Len(wire) : Arrive(n)
  <2>1. PICK n \in 1 .. Len(wire) : Arrive(n)
    BY <1>7
  <2>2. UNCHANGED error /\ (overlong => overlong')
    BY <2>1 DEF Arrive, histVars
  <2>3. QED
    BY <1>1, <1>2, <2>1, <2>2, InStepArrive
<1>8. CASE ReadHeader
  <2>1. UNCHANGED error /\ (overlong => overlong')
    BY <1>8 DEF ReadHeader, histVars
  <2>2. QED
    BY <1>1, <1>2, <1>8, <2>1, InStepReadHeader
<1>9. CASE ReadLength
  BY <1>9, CodecInvReadLength
<1>10. CASE ReadPayload
  <2>1. UNCHANGED error /\ (overlong => overlong')
    BY <1>10 DEF ReadPayload
  <2>2. QED
    BY <1>1, <1>2, <1>10, <2>1, InStepReadPayload
<1>11. CASE UNCHANGED vars
  <2>1. ASSUME InStep PROVE InStep'
    <3>1. PICK sent, m, cut, r, i : Stream(sent, m, cut) /\ Reading(sent, m, cut, r, i)
      BY <2>1 DEF InStep
    <3>2. UNCHANGED <<up, wire, batch, readState, header, length, shift, data, received, written,
                      overlong>>
      BY <1>11 DEF vars, readerVars, histVars
    <3>3. Stream(sent, m, cut)' /\ Reading(sent, m, cut, r, i)'
      BY <3>1, <3>2 DEF Stream, Reading, Within
    <3>4. QED
      BY <3>3 DEF InStep
  <2>2. UNCHANGED error /\ (overlong => overlong')
    BY <1>11 DEF vars, histVars
  <2>3. QED
    BY <1>1, <1>2, <2>1, <2>2
<1>12. QED
  BY <1>3, <1>4, <1>5, <1>6, <1>7, <1>8, <1>9, <1>10, <1>11 DEF Next, Read

LEMMA CodecInvHolds == Spec => []CodecInv
  BY CodecInvInit, CodecInvStep, PTL DEF Spec

\* What is received on a connection is a prefix of what the peer wrote on it, field for
\* field, wherever the bytes were cut and wherever an earlier connection broke off
\* (Frame::write(), Network::onSocketReadReady() and onNetworkReceived()).
THEOREM FramesSafe == Spec => []FramesAsWritten
<1>1. CodecInv => FramesAsWritten
  <2> SUFFICES ASSUME CodecInv, ~overlong PROVE IsPrefix(received, written)
    BY DEF FramesAsWritten
  <2>1. Ranges /\ InStep
    BY DEF CodecInv
  <2>2. PICK sent, m, cut, r, i : Stream(sent, m, cut) /\ Reading(sent, m, cut, r, i)
    BY <2>1 DEF InStep
  <2>3. /\ written \in Seq(Packets) /\ Len(written) \in Nat /\ m <= Len(written)
        /\ r \in 0 .. m /\ m \in Nat
    BY <2>1, <2>2, PlaceFacts
  <2>4. /\ received \in Seq(Packets) /\ Len(received) = r
        /\ \A k \in 1 .. r : received[k] = written[k]
    BY <2>2 DEF Reading
  <2>5. Len(received) <= Len(written)
    BY <2>3, <2>4
  <2> DEFINE s == SubSeq(received, 1, r)
             u == SubSeq(written, 1, r)
  <2>6. s \in Seq(Packets) /\ Len(s) = r /\ \A k \in 1 .. r : s[k] = received[k]
    <3>1. \A k \in 1 .. r : received[k] \in Packets
      BY <2>4, ElementOfSeq
    <3>2. /\ s \in Seq(Packets) /\ Len(s) = (IF 1 <= r THEN r - 1 + 1 ELSE 0)
          /\ \A k \in 1 .. r - 1 + 1 : s[k] = received[1 + k - 1]
      BY <2>3, <3>1, SubSeqProperties
    <3> HIDE DEF s
    <3>3. QED
      BY <2>3, <3>2
  <2>7. u \in Seq(Packets) /\ Len(u) = r /\ \A k \in 1 .. r : u[k] = written[k]
    <3>1. \A k \in 1 .. r : written[k] \in Packets
      BY <2>3, ElementOfSeq
    <3>2. /\ u \in Seq(Packets) /\ Len(u) = (IF 1 <= r THEN r - 1 + 1 ELSE 0)
          /\ \A k \in 1 .. r - 1 + 1 : u[k] = written[1 + k - 1]
      BY <2>3, <3>1, SubSeqProperties
    <3> HIDE DEF u
    <3>3. QED
      BY <2>3, <3>2
  <2> HIDE DEF s, u
  <2>8. s = u
    BY <2>4, <2>6, <2>7, SeqEqual
  <2>9. QED
    BY <2>4, <2>5, <2>8 DEF IsPrefix, s, u
<1>2. QED
  BY <1>1, CodecInvHolds, PTL

\* error() is emitted for a length of more than four bytes, once they have arrived, and
\* for nothing else (Network::onSocketReadReady()).
THEOREM OverlongSafe == Spec => []OverlongIsReported
<1>1. CodecInv => OverlongIsReported
  <2> SUFFICES ASSUME CodecInv, up, overlong, wire = <<>>, batch = <<>>, ~error PROVE FALSE
    BY DEF OverlongIsReported, CodecInv
  <2>1. Ranges /\ InStep
    BY DEF CodecInv
  <2>2. PICK sent, m, cut, r, i : Stream(sent, m, cut) /\ Reading(sent, m, cut, r, i)
    BY <2>1 DEF InStep
  <2>3. /\ Len(sent) \in Nat /\ m \in Nat /\ r \in 0 .. m /\ i \in Nat /\ cut[r] \in Nat
        /\ written \in Seq(Packets) /\ Len(written) \in Nat /\ m <= Len(written)
    BY <2>1, <2>2, PlaceFacts
  <2>4. cut[r] + i = Len(sent)
    <3>1. cut[r] + i + Len(batch) + Len(wire) = Len(sent)
      BY <2>2 DEF Reading
    <3>2. Len(batch) = 0 /\ Len(wire) = 0
      OBVIOUS
    <3>3. QED
      BY <2>3, <3>1, <3>2
  <2>5. CASE r < m
    <3>1. r \in 0 .. m - 1 /\ r + 1 \in 1 .. Len(written)
      BY <2>3, <2>5
    <3>2. PICK w \in Packets : w = written[r + 1]
      BY <2>3, <3>1, ElementOfSeq
    <3>3. Lies(FrameBytes(w), cut[r], sent)
      BY <2>2, <3>1, <3>2 DEF Stream
    <3>4. \/ readState = "Header" /\ i = 0
          \/ Within(w, i)
      BY <2>2, <2>3, <2>5, <3>2 DEF Reading
    <3>5. i < Len(FrameBytes(w)) /\ Len(FrameBytes(w)) \in Nat
      <4>1. FrameBytes(w) \in Seq(Byte)
        BY PacketsAreReadable
      <4>2. Len(FrameBytes(w)) \in Nat \ {0}
        BY FrameIsLonger
      <4>3. QED
        BY <2>1, <3>4, <4>2, WithinFrame
    <3>6. cut[r] + Len(FrameBytes(w)) <= Len(sent)
      BY <3>3 DEF Lies
    <3>7. QED
      BY <2>3, <2>4, <3>5, <3>6
  <2>6. CASE r = m
    <3>1. Lies(Overlong, cut[r], sent) /\ Len(Overlong) = 6
      BY <2>2, <2>6, OverlongIsBytes DEF Stream
    <3>2. i <= 4
      <4>1. ~(r < m)
        BY <2>3, <2>6
      <4>2. \/ readState = "Header" /\ i = 0
            \/ readState = "Length" /\ i = shift + 1
        BY <2>2, <4>1 DEF Reading
      <4>3. QED
        BY <2>1, <4>2 DEF Ranges, TypeOK
    <3>3. cut[r] + 6 <= Len(sent)
      BY <3>1 DEF Lies
    <3>4. QED
      BY <2>3, <2>4, <3>2, <3>3
  <2>7. QED
    BY <2>3, <2>5, <2>6
<1>2. QED
  BY <1>1, CodecInvHolds, PTL
=============================================================================
