------------------------------ MODULE Xsk_proofs ------------------------------
(***************************************************************************)
(* AF_XDP: the rings of a socket, for any frames, size of the rings and    *)
(* number of values of an index; and the sockets of one UMEM with their    *)
(* contexts, for any sockets, queues and descriptors.                      *)
(***************************************************************************)
EXTENDS XskRings, XskSocket, SequenceTheorems, FiniteSetTheorems, WellFoundedInduction, TLAPS

Index == 0..Wrap - 1

LEMMA ModIn ==
  ASSUME NEW a \in Int, NEW m \in Nat \ {0}
  PROVE  a % m \in 0..m - 1
  BY SMT

LEMMA ModOf ==
  ASSUME NEW m \in Nat \ {0}, NEW k \in Int, NEW r \in 0..m - 1
  PROVE  (m * k + r) % m = r
  BY SMT

LEMMA ModParts ==
  ASSUME NEW a \in Int, NEW m \in Nat \ {0}
  PROVE  \E k \in Int : a = m * k + (a % m)
<1>1. a = m * (a \div m) + (a % m) /\ a \div m \in Int
  BY SMT
<1> QED
  BY <1>1

LEMMA Times ==
  ASSUME NEW m \in Int, NEW a \in Int, NEW b \in Int
  PROVE  m * (a + b) = m * a + m * b /\ m * (a - b) = m * a - m * b /\ m * a \in Int /\ m * b \in Int
  BY SMT

(* Whole rounds do not count. *)
LEMMA ModRounds ==
  ASSUME NEW a \in Int, NEW m \in Nat \ {0}, NEW k \in Int
  PROVE  (m * k + a) % m = a % m
<1>1. PICK j \in Int : a = m * j + (a % m)
  BY ModParts
<1>2. PICK r : r = a % m
  OBVIOUS
<1>3. r \in 0..m - 1
  BY <1>2, ModIn
<1>4. m * k + a = m * (k + j) + r /\ k + j \in Int
  BY <1>1, <1>2, <1>3, Times
<1>5. (m * (k + j) + r) % m = r
  BY <1>3, <1>4, ModOf
<1> QED
  BY <1>2, <1>4, <1>5

LEMMA ModSmall ==
  ASSUME NEW m \in Nat \ {0}, NEW a \in 0..m - 1
  PROVE  a % m = a
  BY SMT

LEMMA ModAbove ==
  ASSUME NEW m \in Nat \ {0}, NEW b \in 0..m - 1
  PROVE  (b + m) % m = b
<1>1. (m * 1 + b) % m = b
  BY ModOf
<1>2. m * 1 + b = b + m
  BY SMT
<1> QED
  BY ONLY <1>1, <1>2, Zenon

LEMMA ModBelow ==
  ASSUME NEW m \in Nat \ {0}, NEW b \in 0..m - 1
  PROVE  (b - m) % m = b
<1>1. (m * (-1) + b) % m = b
  BY ModOf
<1>2. m * (-1) + b = b - m
  BY SMT
<1> QED
  BY ONLY <1>1, <1>2, Zenon

LEMMA Sizes ==
  ASSUME RingAssumption
  PROVE  /\ Size \in Nat \ {0} /\ Wrap \in Nat \ {0} /\ Size < Wrap
         /\ \E q \in Int : Wrap = Size * q
<1>1. Size \in Nat \ {0} /\ Wrap \in Nat /\ Wrap % Size = 0 /\ Wrap > Size
  BY DEF RingAssumption
<1>2. PICK q \in Int : Wrap = Size * q + (Wrap % Size)
  <2>1. Wrap \in Int /\ Size \in Nat \ {0}
    BY <1>1
  <2> QED
    BY ONLY <2>1, ModParts, Zenon
<1>3. Size * q \in Int
  BY <1>1, Times
<1> QED
  BY <1>1, <1>2, <1>3

(***************************************************************************)
(* Indices go round a circle.                                              *)
(***************************************************************************)
LEMMA PlusMinus ==
  ASSUME RingAssumption, NEW a \in Index, NEW b \in Index
  PROVE  /\ Plus(a, b) = IF a + b < Wrap THEN a + b ELSE a + b - Wrap
         /\ Minus(a, b) = IF a >= b THEN a - b ELSE a - b + Wrap
         /\ Plus(a, b) \in Index /\ Minus(a, b) \in Index
<1>1. Wrap \in Nat \ {0} /\ a \in Int /\ b \in Int /\ 0 <= a /\ a < Wrap /\ 0 <= b /\ b < Wrap
  BY Sizes DEF Index
<1>7. Plus(a, b) = IF a + b < Wrap THEN a + b ELSE a + b - Wrap
  <2>1. CASE a + b < Wrap
    <3>1. a + b \in 0..Wrap - 1
      BY <1>1, <2>1
    <3>2. (a + b) % Wrap = a + b
      BY <1>1, <3>1, ModSmall
    <3> QED
      BY <2>1, <3>2 DEF Plus
  <2>2. CASE ~(a + b < Wrap)
    <3>1. PICK c \in 0..Wrap - 1 : c + Wrap = a + b
      <4>1. a + b - Wrap \in 0..Wrap - 1 /\ (a + b - Wrap) + Wrap = a + b
        BY <1>1, <2>2
      <4> QED
        BY <4>1
    <3>2. (c + Wrap) % Wrap = c
      BY <1>1, ModAbove
    <3>3. (a + b) % Wrap = c
      BY ONLY <3>1, <3>2, Zenon
    <3>4. c = a + b - Wrap
      BY <1>1, <3>1
    <3> QED
      BY <2>2, <3>3, <3>4 DEF Plus
  <2> QED
    BY <2>1, <2>2
<1>8. Minus(a, b) = IF a >= b THEN a - b ELSE a - b + Wrap
  <2>1. CASE a >= b
    <3>1. a - b \in 0..Wrap - 1
      BY <1>1, <2>1
    <3>2. (a - b) % Wrap = a - b
      BY <1>1, <3>1, ModSmall
    <3> QED
      BY <2>1, <3>2 DEF Minus
  <2>2. CASE ~(a >= b)
    <3>1. PICK c \in 0..Wrap - 1 : c - Wrap = a - b
      <4>1. (a - b) + Wrap \in 0..Wrap - 1 /\ ((a - b) + Wrap) - Wrap = a - b
        BY <1>1, <2>2
      <4> QED
        BY <4>1
    <3>2. (c - Wrap) % Wrap = c
      BY <1>1, ModBelow
    <3>3. (a - b) % Wrap = c
      BY ONLY <3>1, <3>2, Zenon
    <3>4. c = a - b + Wrap
      BY <1>1, <3>1
    <3> QED
      BY <2>2, <3>3, <3>4 DEF Minus
  <2> QED
    BY <2>1, <2>2
<1> QED
  BY <1>1, <1>7, <1>8 DEF Index

LEMMA Along ==
  ASSUME RingAssumption, NEW a \in Index, NEW b \in Index, NEW n \in Index
  PROVE  /\ Plus(b, Minus(a, b)) = a /\ Minus(a, a) = 0 /\ Minus(Plus(a, n), a) = n
         /\ Minus(a, b) + n < Wrap => Minus(Plus(a, n), b) = Minus(a, b) + n
         /\ n <= Minus(a, b) => Minus(a, Plus(b, n)) = Minus(a, b) - n
         /\ n <= Minus(a, b) => Minus(Minus(a, n), b) = Minus(a, b) - n
         /\ Minus(a, b) + n < Wrap => Minus(a, Minus(b, n)) = Minus(a, b) + n
<1>1. Wrap \in Nat \ {0} /\ \A i \in Index : i \in Int /\ 0 <= i /\ i < Wrap
  BY Sizes DEF Index
<1>2. \A i, j \in Index :
         /\ Plus(i, j) = IF i + j < Wrap THEN i + j ELSE i + j - Wrap
         /\ Minus(i, j) = IF i >= j THEN i - j ELSE i - j + Wrap
         /\ Plus(i, j) \in Index /\ Minus(i, j) \in Index
  BY PlusMinus
<1>3. Plus(b, Minus(a, b)) = a
  BY <1>1, <1>2
<1>4. Minus(a, a) = 0 /\ Minus(Plus(a, n), a) = n
  BY <1>1, <1>2
<1>m. PICK m \in Index : m = Minus(a, b) /\ m = IF a >= b THEN a - b ELSE a - b + Wrap
  BY <1>2
<1>5. Minus(a, b) + n < Wrap => Minus(Plus(a, n), b) = Minus(a, b) + n
  <2>1. PICK p \in Index : p = Plus(a, n) /\ p = IF a + n < Wrap THEN a + n ELSE a + n - Wrap
    BY <1>2
  <2>2. Minus(p, b) = IF p >= b THEN p - b ELSE p - b + Wrap
    BY <1>2
  <2> QED
    BY <1>1, <1>m, <2>1, <2>2
<1>6. n <= Minus(a, b) => Minus(a, Plus(b, n)) = Minus(a, b) - n
  <2>1. PICK p \in Index : p = Plus(b, n) /\ p = IF b + n < Wrap THEN b + n ELSE b + n - Wrap
    BY <1>2
  <2>2. Minus(a, p) = IF a >= p THEN a - p ELSE a - p + Wrap
    BY <1>2
  <2> QED
    BY <1>1, <1>m, <2>1, <2>2
<1>7. n <= Minus(a, b) => Minus(Minus(a, n), b) = Minus(a, b) - n
  <2>1. PICK p \in Index : p = Minus(a, n) /\ p = IF a >= n THEN a - n ELSE a - n + Wrap
    BY <1>2
  <2>2. Minus(p, b) = IF p >= b THEN p - b ELSE p - b + Wrap
    BY <1>2
  <2> QED
    BY <1>1, <1>m, <2>1, <2>2
<1>8. Minus(a, b) + n < Wrap => Minus(a, Minus(b, n)) = Minus(a, b) + n
  <2>1. PICK p \in Index : p = Minus(b, n) /\ p = IF b >= n THEN b - n ELSE b - n + Wrap
    BY <1>2
  <2>2. Minus(a, p) = IF a >= p THEN a - p ELSE a - p + Wrap
    BY <1>2
  <2> QED
    BY <1>1, <1>m, <2>1, <2>2
<1> QED
  BY <1>3, <1>4, <1>5, <1>6, <1>7, <1>8

LEMMA Chain ==
  ASSUME RingAssumption, NEW a \in Index, NEW b \in Index, NEW c \in Index,
         Minus(a, b) + Minus(b, c) < Wrap
  PROVE  Minus(a, c) = Minus(a, b) + Minus(b, c)
<1>1. Wrap \in Nat \ {0} /\ \A i \in Index : i \in Int /\ 0 <= i /\ i < Wrap
  BY Sizes DEF Index
<1>2. \A i, j \in Index : Minus(i, j) = IF i >= j THEN i - j ELSE i - j + Wrap
  BY PlusMinus
<1> QED
  BY <1>1, <1>2

(***************************************************************************)
(* Cells: an index and the one behind it by n meet the same cell as the    *)
(* sum would, and fewer than Size of them meet different ones.             *)
(***************************************************************************)
LEMMA CellOn ==
  ASSUME RingAssumption, NEW a \in Index, NEW n \in Index, NEW j \in Int
  PROVE  (Plus(a, n) + j) % Size = (a + n + j) % Size
<1>1. PICK q \in Int : Wrap = Size * q
  BY Sizes
<1>2. Size \in Nat \ {0} /\ Wrap \in Nat \ {0} /\ a \in Int /\ n \in Int
  BY Sizes DEF Index
<1>3. CASE Plus(a, n) = a + n
  BY <1>2, <1>3
<1>4. CASE Plus(a, n) = a + n - Wrap
  <2>1. PICK x \in Int : x = Plus(a, n) + j
    BY <1>2, <1>4
  <2>2. (Size * q + x) % Size = x % Size
    BY <1>2, ModRounds
  <2>3. Size * q + x = a + n + j
    BY <1>1, <1>2, <1>4, <2>1
  <2> QED
    BY ONLY <2>1, <2>2, <2>3, Zenon
<1> QED
  BY <1>3, <1>4, PlusMinus

LEMMA CellsDiffer ==
  ASSUME RingAssumption, NEW x \in Int, NEW y \in Int, x < y, y - x < Size
  PROVE  x % Size # y % Size
<1>1. Size \in Nat \ {0}
  BY Sizes
<1>2. PICK k \in Int : x = Size * k + (x % Size)
  BY <1>1, ModParts
<1>3. PICK l \in Int : y = Size * l + (y % Size)
  BY <1>1, ModParts
<1> SUFFICES ASSUME x % Size = y % Size PROVE FALSE
  OBVIOUS
<1>4. PICK r \in 0..Size - 1 : r = x % Size
  BY <1>1, ModIn
<1>5. x = Size * k + r /\ y = Size * l + r
  BY <1>2, <1>3, <1>4
<1>6. y - x = Size * (l - k)
  BY <1>1, <1>5, Times
<1>7. \A z \in Int : z >= 1 => Size * z >= Size
  BY <1>1, SMT
<1>8. \A z \in Int : z <= 0 => Size * z <= 0
  BY <1>1, SMT
<1>9. PICK z \in Int : z = l - k
  OBVIOUS
<1> QED
  BY <1>1, <1>6, <1>7, <1>8, <1>9

LEMMA CellIn ==
  ASSUME RingAssumption, NEW x \in Int
  PROVE  x % Size \in 0..Size - 1
  BY Sizes, ModIn

(***************************************************************************)
(* Stretches of a ring.                                                    *)
(***************************************************************************)
Ring == [0..Size - 1 -> Frames]

On(g, i, n) == [k \in 1..n |-> g[(i + k - 1) % Size]]

LEMMA IsOn ==
  ASSUME NEW r, NEW i, NEW n
  PROVE  Between(r, i, n) = On(r.ring, i, n)
  BY DEF Between, Cell, On

LEMMA Stretch ==
  ASSUME RingAssumption, NEW g \in Ring, NEW i \in Int, NEW n \in Nat
  PROVE  /\ On(g, i, n) \in Seq(Frames) /\ Len(On(g, i, n)) = n
         /\ DOMAIN On(g, i, n) = 1..n
         /\ \A k \in 1..n : On(g, i, n)[k] = g[(i + k - 1) % Size]
<1>1. ASSUME NEW k \in 1..n PROVE g[(i + k - 1) % Size] \in Frames
  <2>1. i + k - 1 \in Int
    OBVIOUS
  <2>2. PICK c \in 0..Size - 1 : c = (i + k - 1) % Size
    BY <2>1, CellIn
  <2> QED
    BY <2>2 DEF Ring
<1>2. On(g, i, n) = [k \in 1..n |-> g[(i + k - 1) % Size]]
  BY DEF On
<1>3. On(g, i, n) \in [1..n -> Frames]
  BY <1>1, <1>2
<1>4. On(g, i, n) \in Seq(Frames) /\ Len(On(g, i, n)) = n
  BY <1>3, IsASeq
<1> QED
  BY <1>2, <1>4

(* Two stretches one behind the other. *)
LEMMA Joined ==
  ASSUME RingAssumption, NEW g \in Ring, NEW a \in Index, NEW n \in Index, NEW m \in Nat
  PROVE  On(g, a, n) \o On(g, Plus(a, n), m) = On(g, a, n + m)
<1>1. n \in Nat /\ a \in Int /\ Plus(a, n) \in Int /\ n + m \in Nat
  BY Sizes, PlusMinus DEF Index
<1>2. PICK s : s = On(g, a, n)
  OBVIOUS
<1>3. PICK t : t = On(g, Plus(a, n), m)
  OBVIOUS
<1>4. PICK u : u = On(g, a, n + m)
  OBVIOUS
<1>5. s \in Seq(Frames) /\ Len(s) = n /\ \A k \in 1..n : s[k] = g[(a + k - 1) % Size]
  BY <1>1, <1>2, Stretch
<1>6. t \in Seq(Frames) /\ Len(t) = m /\ \A k \in 1..m : t[k] = g[(Plus(a, n) + k - 1) % Size]
  BY <1>1, <1>3, Stretch
<1>7. u \in Seq(Frames) /\ Len(u) = n + m /\ \A k \in 1..n + m : u[k] = g[(a + k - 1) % Size]
  BY <1>1, <1>4, Stretch
<1>8. s \o t \in Seq(Frames) /\ Len(s \o t) = n + m
  <2>1. s \in Seq(Frames) /\ t \in Seq(Frames) /\ Len(s) = n /\ Len(t) = m
    BY <1>5, <1>6
  <2>2. s \o t \in Seq(Frames) /\ Len(s \o t) = Len(s) + Len(t)
    BY ONLY <2>1, SMT
  <2> QED
    BY ONLY <2>1, <2>2, Zenon
<1>9. ASSUME NEW k \in 1..n + m PROVE (s \o t)[k] = u[k]
  <2>1. CASE k <= n
    <3>1. k \in 1..n /\ (s \o t)[k] = s[k]
      BY <1>1, <1>5, <1>6, <2>1
    <3> QED
      BY <1>5, <1>7, <3>1
  <2>2. CASE k > n
    <3>1. PICK j \in 1..m : k = n + j
      <4>1. k - n \in 1..m /\ k = n + (k - n)
        BY <1>1, <2>2
      <4> QED
        BY <4>1
    <3>2. (s \o t)[k] = t[j]
      BY <1>1, <1>5, <1>6, <3>1
    <3>3. (Plus(a, n) + (j - 1)) % Size = (a + n + (j - 1)) % Size
      BY CellOn
    <3>4. Plus(a, n) + (j - 1) = Plus(a, n) + j - 1 /\ a + n + (j - 1) = a + k - 1
      BY <1>1, <3>1
    <3>5. (Plus(a, n) + j - 1) % Size = (a + k - 1) % Size
      BY ONLY <3>3, <3>4, Zenon
    <3>6. PICK c : c = (a + k - 1) % Size
      OBVIOUS
    <3>7. PICK d : d = (Plus(a, n) + j - 1) % Size
      OBVIOUS
    <3>8. c = d
      BY <3>5, <3>6, <3>7, Zenon
    <3>9. t[j] = g[d] /\ u[k] = g[c]
      BY <1>6, <1>7, <3>1, <3>6, <3>7
    <3> QED
      BY <3>2, <3>8, <3>9
  <2>3. k <= n \/ k > n
    BY <1>1
  <2> QED
    BY ONLY <2>1, <2>2, <2>3, Zenon
<1>10. s \o t = u
  BY <1>7, <1>8, <1>9, SeqEqual
<1> QED
  BY <1>2, <1>3, <1>4, <1>10

(***************************************************************************)
(* Sequences of frames.                                                    *)
(***************************************************************************)
Once(s) == \A i, j \in DOMAIN s : s[i] = s[j] => i = j

LEMMA Split ==
  ASSUME NEW S, NEW s \in Seq(S), NEW t \in Seq(S)
  PROVE  SubSeq(s \o t, 1, Len(s)) = s /\ SubSeq(s \o t, Len(s) + 1, Len(s) + Len(t)) = t
<1>1. PICK w : w = s \o t
  OBVIOUS
<1>2. PICK m \in Nat : m = Len(s)
  OBVIOUS
<1>3. PICK n \in Nat : n = Len(t)
  OBVIOUS
<1>4. w \in Seq(S) /\ Len(w) = m + n /\ (\A i \in 1..m : w[i] = s[i] /\ w[i] \in S /\ s[i] \in S)
      /\ \A i \in 1..n : w[m + i] = t[i] /\ t[i] \in S
  <2>1. w \in Seq(S) /\ Len(w) = m + n
        /\ \A i \in 1..m + n : w[i] = IF i <= m THEN s[i] ELSE t[i - m]
    BY <1>1, <1>2, <1>3, ConcatProperties
  <2>2. (\A i \in 1..m : s[i] \in S) /\ \A i \in 1..n : t[i] \in S
    BY <1>2, <1>3
  <2>3. ASSUME NEW i \in 1..m PROVE w[i] = s[i]
    <3>1. i \in 1..m + n /\ i <= m
      OBVIOUS
    <3> QED
      BY <2>1, <3>1
  <2>4. ASSUME NEW i \in 1..n PROVE w[m + i] = t[i]
    <3>1. m + i \in 1..m + n /\ ~(m + i <= m) /\ (m + i) - m = i
      OBVIOUS
    <3> QED
      BY <2>1, <3>1
  <2> QED
    BY <2>1, <2>2, <2>3, <2>4
<1>5. SubSeq(w, 1, m) = s
  <2>1. SubSeq(w, 1, m) \in Seq(S) /\ Len(SubSeq(w, 1, m)) = m
        /\ \A i \in 1..m : SubSeq(w, 1, m)[i] = w[i]
    <3>1. 1 \in Int /\ m \in Int /\ (\A i \in 1..m : w[i] \in S) /\ m - 1 + 1 = m /\ (~(1 <= m) => m = 0)
      BY <1>4
    <3>2. \A i \in 1..m : 1 + i - 1 = i
      OBVIOUS
    <3> QED
      BY <3>1, <3>2, SubSeqProperties
  <2> QED
    BY <1>2, <1>4, <2>1, SeqEqual
<1>6. SubSeq(w, m + 1, m + n) = t
  <2>1. PICK a \in Int : a = m + 1
    OBVIOUS
  <2>2. PICK b \in Int : b = m + n
    OBVIOUS
  <2>3. ASSUME NEW i \in a..b PROVE w[i] \in S
    <3>1. PICK j \in 1..n : i = m + j
      <4>1. i - m \in 1..n /\ i = m + (i - m)
        BY <2>1, <2>2
      <4> QED
        BY <4>1
    <3> QED
      BY <1>4, <3>1
  <2>4. SubSeq(w, a, b) \in Seq(S) /\ Len(SubSeq(w, a, b)) = (IF a <= b THEN b - a + 1 ELSE 0)
        /\ \A i \in 1..b - a + 1 : SubSeq(w, a, b)[i] = w[a + i - 1]
    BY <2>3, SubSeqProperties
  <2>5. Len(SubSeq(w, a, b)) = n /\ \A i \in 1..n : SubSeq(w, a, b)[i] = t[i]
    <3>1. b - a + 1 = n /\ (~(a <= b) => n = 0) /\ \A i \in 1..n : a + i - 1 = m + i
      BY <2>1, <2>2
    <3> QED
      BY <1>4, <2>4, <3>1
  <2>6. SubSeq(w, a, b) = t
    BY <1>3, <2>4, <2>5, SeqEqual
  <2> QED
    BY <2>1, <2>2, <2>6
<1> QED
  BY <1>1, <1>2, <1>3, <1>5, <1>6

LEMMA ConcatIs ==
  ASSUME NEW S, NEW s \in Seq(S), NEW t \in Seq(S)
  PROVE  /\ ToSet(s \o t) = ToSet(s) \cup ToSet(t)
         /\ Once(s \o t) <=> Once(s) /\ Once(t) /\ ToSet(s) \cap ToSet(t) = {}
<1>1. PICK w : w = s \o t
  OBVIOUS
<1>2. PICK m \in Nat : m = Len(s)
  OBVIOUS
<1>3. PICK n \in Nat : n = Len(t)
  OBVIOUS
<1>4. /\ DOMAIN w = 1..m + n /\ DOMAIN s = 1..m /\ DOMAIN t = 1..n
      /\ \A i \in 1..m + n : w[i] = IF i <= m THEN s[i] ELSE t[i - m]
  BY <1>1, <1>2, <1>3, ConcatProperties
<1>5. \A i \in 1..m : i \in 1..m + n /\ w[i] = s[i]
  BY <1>4
<1>6. ASSUME NEW i \in 1..n PROVE m + i \in 1..m + n /\ w[m + i] = t[i]
  <2>1. m + i \in 1..m + n /\ ~(m + i <= m) /\ (m + i) - m = i
    OBVIOUS
  <2> QED
    BY <1>4, <2>1
<1>7. ASSUME NEW i \in 1..m + n
      PROVE  i \in 1..m \/ \E j \in 1..n : i = m + j
  <2>1. i > m => i - m \in 1..n /\ i = m + (i - m)
    OBVIOUS
  <2> QED
    BY <2>1
<1>8. ToSet(w) = ToSet(s) \cup ToSet(t)
  <2>1. ASSUME NEW x \in ToSet(w) PROVE x \in ToSet(s) \cup ToSet(t)
    <3>1. PICK i \in 1..m + n : x = w[i]
      BY <1>4 DEF ToSet
    <3> QED
      BY ZenonT(40), <1>4, <1>5, <1>6, <1>7, <3>1 DEF ToSet
  <2>2. ASSUME NEW x \in ToSet(s) PROVE x \in ToSet(w)
    BY <1>4, <1>5 DEF ToSet
  <2>3. ASSUME NEW x \in ToSet(t) PROVE x \in ToSet(w)
    BY <1>4, <1>6 DEF ToSet
  <2> QED
    BY <2>1, <2>2, <2>3
<1>9. ASSUME Once(w) PROVE Once(s) /\ Once(t) /\ ToSet(s) \cap ToSet(t) = {}
  <2>1. Once(s)
    BY <1>4, <1>5, <1>9 DEF Once
  <2>2. Once(t)
    <3> SUFFICES ASSUME NEW i \in 1..n, NEW j \in 1..n, t[i] = t[j] PROVE i = j
      BY <1>4 DEF Once
    <3>1. w[m + i] = w[m + j] /\ m + i \in 1..m + n /\ m + j \in 1..m + n
      BY <1>6
    <3>2. m + i = m + j
      BY <1>4, <1>9, <3>1 DEF Once
    <3> QED
      BY <3>2
  <2>3. ASSUME NEW x \in ToSet(s), x \in ToSet(t) PROVE FALSE
    <3>1. PICK i \in 1..m : x = w[i] /\ i \in 1..m + n
      BY <1>4, <1>5, <2>3 DEF ToSet
    <3>2. PICK j \in 1..n : x = w[m + j] /\ m + j \in 1..m + n
      BY <1>4, <1>6, <2>3 DEF ToSet
    <3>3. i = m + j
      BY <1>4, <1>9, <3>1, <3>2 DEF Once
    <3> QED
      BY <3>3
  <2> QED
    BY <2>1, <2>2, <2>3
<1>10. ASSUME Once(s), Once(t), ToSet(s) \cap ToSet(t) = {} PROVE Once(w)
  <2> SUFFICES ASSUME NEW i \in 1..m + n, NEW j \in 1..m + n, w[i] = w[j] PROVE i = j
    BY <1>4 DEF Once
  <2>1. CASE i \in 1..m /\ j \in 1..m
    BY <1>4, <1>5, <1>10, <2>1 DEF Once
  <2>2. CASE (\E k \in 1..n : i = m + k) /\ (\E k \in 1..n : j = m + k)
    <3>1. PICK k \in 1..n : i = m + k
      BY <2>2
    <3>2. PICK l \in 1..n : j = m + l
      BY <2>2
    <3>3. t[k] = t[l]
      BY <1>6, <3>1, <3>2
    <3> QED
      BY <1>4, <1>10, <3>1, <3>2, <3>3 DEF Once
  <2>3. ASSUME NEW a \in 1..m, NEW b \in 1..n PROVE w[a] # w[m + b]
    <3>1. s[a] \in ToSet(s) /\ t[b] \in ToSet(t)
      BY <1>4 DEF ToSet
    <3> QED
      BY <1>5, <1>6, <1>10, <3>1
  <2> QED
    BY <1>7, <2>1, <2>2, <2>3
<1> QED
  BY <1>1, <1>8, <1>9, <1>10

LEMMA OneIs ==
  ASSUME NEW S, NEW f \in S
  PROVE  <<f>> \in Seq(S) /\ ToSet(<<f>>) = {f} /\ Once(<<f>>)
<1>1. DOMAIN <<f>> = {1} /\ <<f>>[1] = f
  OBVIOUS
<1> QED
  BY <1>1 DEF ToSet, Once

LEMMA AppendIs ==
  ASSUME NEW S, NEW s \in Seq(S), NEW f \in S
  PROVE  /\ Append(s, f) \in Seq(S) /\ ToSet(Append(s, f)) = ToSet(s) \cup {f}
         /\ Once(Append(s, f)) <=> Once(s) /\ f \notin ToSet(s)
<1>1. PICK t \in Seq(S) : t = <<f>> /\ ToSet(t) = {f} /\ Once(t)
  BY OneIs
<1>2. Append(s, f) = s \o t /\ Append(s, f) \in Seq(S)
  BY <1>1, AppendIsConcat
<1>3. ToSet(s \o t) = ToSet(s) \cup ToSet(t)
  BY ConcatIs
<1>4. Once(s \o t) <=> Once(s) /\ Once(t) /\ ToSet(s) \cap ToSet(t) = {}
  BY ConcatIs
<1>5. ToSet(Append(s, f)) = ToSet(s) \cup {f}
  BY ONLY <1>1, <1>2, <1>3, Zenon
<1>6. Once(Append(s, f)) <=> Once(s) /\ f \notin ToSet(s)
  <2>1. ToSet(s) \cap ToSet(t) = {} <=> f \notin ToSet(s)
    BY <1>1
  <2> QED
    BY ONLY <1>1, <1>2, <1>4, <2>1, Zenon
<1> QED
  BY <1>2, <1>5, <1>6

LEMMA TailIs ==
  ASSUME NEW S, NEW s \in Seq(S), s # <<>>
  PROVE  /\ Tail(s) \in Seq(S) /\ Head(s) \in S /\ ToSet(s) = {Head(s)} \cup ToSet(Tail(s))
         /\ Once(s) <=> Head(s) \notin ToSet(Tail(s)) /\ Once(Tail(s))
         /\ s = <<Head(s)>> \o Tail(s)
<1>1. Head(s) \in S /\ Tail(s) \in Seq(S)
  BY HeadTailProperties
<1>2. PICK h \in S : h = Head(s)
  BY <1>1
<1>3. PICK t \in Seq(S) : t = Tail(s)
  BY <1>1
<1>4. PICK u \in Seq(S) : u = <<h>> /\ ToSet(u) = {h} /\ Once(u)
  BY OneIs
<1>5. s = u \o t
  <2>1. Len(s) # 0 /\ Len(s) \in Nat
    BY EmptySeq
  <2>2. s = <<Head(s)>> \o Tail(s)
    BY <2>1
  <2> QED
    BY <1>2, <1>3, <1>4, <2>2
<1>6. ToSet(u \o t) = ToSet(u) \cup ToSet(t)
  BY ConcatIs
<1>7. Once(u \o t) <=> Once(u) /\ Once(t) /\ ToSet(u) \cap ToSet(t) = {}
  BY ConcatIs
<1>8. ToSet(s) = {h} \cup ToSet(t)
  BY ONLY <1>4, <1>5, <1>6, Zenon
<1>9. Once(s) <=> h \notin ToSet(t) /\ Once(t)
  <2>1. ToSet(u) \cap ToSet(t) = {} <=> h \notin ToSet(t)
    BY <1>4
  <2> QED
    BY ONLY <1>4, <1>5, <1>7, <2>1, Zenon
<1> QED
  BY ONLY <1>1, <1>2, <1>3, <1>4, <1>5, <1>8, <1>9, Zenon

(* What a new entry in the cell behind a stretch does to it. *)
WroteBehind(g, h, a, n, f) ==
  /\ h \in Ring /\ h[(a + n) % Size] = f
  /\ \A d \in 0..Size - 1 : d # (a + n) % Size => h[d] = g[d]

Grows(g, h, a, n, f) ==
  On(h, a, n) = On(g, a, n) /\ On(h, a, n + 1) = Append(On(g, a, n), f)

LEMMA Overwritten ==
  ASSUME RingAssumption, NEW g \in Ring, NEW h, NEW a \in Int, NEW n \in Nat, n < Size,
         NEW f \in Frames, WroteBehind(g, h, a, n, f)
  PROVE  Grows(g, h, a, n, f)
<1>1. PICK c \in 0..Size - 1 : c = (a + n) % Size
  BY CellIn
<1>2. h \in Ring /\ h[c] = f /\ \A d \in 0..Size - 1 : d # c => h[d] = g[d]
  BY <1>1 DEF WroteBehind
<1>3. PICK s : s = On(g, a, n)
  OBVIOUS
<1>4. PICK t : t = On(h, a, n)
  OBVIOUS
<1>5. PICK u : u = On(h, a, n + 1)
  OBVIOUS
<1>6. s \in Seq(Frames) /\ Len(s) = n /\ \A k \in 1..n : s[k] = g[(a + k - 1) % Size]
  BY <1>3, Stretch
<1>7. t \in Seq(Frames) /\ Len(t) = n /\ \A k \in 1..n : t[k] = h[(a + k - 1) % Size]
  <2>1. h \in Ring
    BY <1>2
  <2> QED
    BY ONLY RingAssumption, <2>1, a \in Int, n \in Nat, <1>4, Stretch, Zenon
<1>8. u \in Seq(Frames) /\ Len(u) = n + 1 /\ \A k \in 1..n + 1 : u[k] = h[(a + k - 1) % Size]
  <2>1. h \in Ring
    BY <1>2
  <2>2. n + 1 \in Nat
    OBVIOUS
  <2> QED
    BY ONLY RingAssumption, <2>1, <2>2, a \in Int, <1>5, Stretch, Zenon
<1>9. ASSUME NEW k \in 1..n PROVE t[k] = s[k] /\ u[k] = s[k]
  <2>1. PICK x \in Int : x = a + k - 1
    OBVIOUS
  <2>2. PICK y \in Int : y = a + n
    OBVIOUS
  <2>3. x < y /\ y - x < Size
    BY Sizes, <2>1, <2>2
  <2>4. x % Size # y % Size
    BY <2>3, CellsDiffer
  <2>5. PICK d \in 0..Size - 1 : d = x % Size
    BY CellIn
  <2>6. d # c
    BY <1>1, <2>2, <2>4, <2>5
  <2>7. h[d] = g[d]
    BY <1>2, <2>6
  <2>8. k \in 1..n + 1
    OBVIOUS
  <2> QED
    BY <1>6, <1>7, <1>8, <2>1, <2>5, <2>7, <2>8
<1>10. t = s
  BY <1>6, <1>7, <1>9, SeqEqual
<1>11. u = Append(s, f)
  <2>1. Append(s, f) \in Seq(Frames) /\ Len(Append(s, f)) = n + 1
        /\ (\A k \in 1..n : Append(s, f)[k] = s[k]) /\ Append(s, f)[n + 1] = f
    BY <1>6, AppendProperties
  <2>2. u[n + 1] = f
    <3>1. n + 1 \in 1..n + 1 /\ a + (n + 1) - 1 = a + n
      OBVIOUS
    <3>2. u[n + 1] = h[(a + (n + 1) - 1) % Size]
      BY <1>8, <3>1
    <3>3. u[n + 1] = h[(a + n) % Size]
      BY ONLY <3>1, <3>2, Zenon
    <3> QED
      BY <1>1, <1>2, <3>3
  <2>3. ASSUME NEW k \in 1..n + 1 PROVE u[k] = Append(s, f)[k]
    <3>1. k \in 1..n \/ k = n + 1
      OBVIOUS
    <3> QED
      BY <1>9, <2>1, <2>2, <3>1
  <2> QED
    BY <1>8, <2>1, <2>3, SeqEqual
<1> QED
  BY <1>3, <1>4, <1>5, <1>10, <1>11 DEF Grows

(***************************************************************************)
(* Where the frames are: with the program (H), some of them already in a   *)
(* descriptor (W), in the transmit ring (S), with the kernel (K) or in the *)
(* completion ring (D).                                                    *)
(***************************************************************************)
Apart(H, S, W, K, D) ==
  /\ H \subseteq Frames /\ K \subseteq Frames
  /\ S \in Seq(Frames) /\ W \in Seq(Frames) /\ D \in Seq(Frames)
  /\ Once(S) /\ Once(W) /\ Once(D) /\ ToSet(W) \subseteq H
  /\ H \cap ToSet(S) = {} /\ H \cap K = {} /\ H \cap ToSet(D) = {}
  /\ ToSet(S) \cap K = {} /\ ToSet(S) \cap ToSet(D) = {} /\ K \cap ToSet(D) = {}
  /\ Frames = H \cup ToSet(S) \cup K \cup ToSet(D)

LEMMA ApartWrite ==
  ASSUME NEW H, NEW S, NEW W, NEW K, NEW D, Apart(H, S, W, K, D), NEW f \in H \ ToSet(W)
  PROVE  Apart(H, S, Append(W, f), K, D)
<1>1. W \in Seq(Frames) /\ f \in Frames /\ Once(W)
  BY DEF Apart
<1>2. /\ Append(W, f) \in Seq(Frames) /\ ToSet(Append(W, f)) = ToSet(W) \cup {f}
      /\ Once(Append(W, f))
  BY <1>1, AppendIs
<1> QED
  BY <1>2 DEF Apart

LEMMA ApartSubmit ==
  ASSUME NEW H, NEW S, NEW P \in Seq(Frames), NEW Q \in Seq(Frames), NEW K, NEW D,
         Apart(H, S, P \o Q, K, D)
  PROVE  Apart(H \ ToSet(P), S \o P, Q, K, D)
<1>1. S \in Seq(Frames) /\ Once(S)
  BY DEF Apart
<1>2. ToSet(P \o Q) = ToSet(P) \cup ToSet(Q) /\ Once(P) /\ Once(Q) /\ ToSet(P) \cap ToSet(Q) = {}
  BY ConcatIs DEF Apart
<1>3. ToSet(S \o P) = ToSet(S) \cup ToSet(P) /\ S \o P \in Seq(Frames)
  BY <1>1, ConcatIs
<1>4. Once(S \o P)
  <2>1. ToSet(S) \cap ToSet(P) = {}
    BY <1>2 DEF Apart
  <2> QED
    BY <1>1, <1>2, <2>1, ConcatIs
<1> QED
  BY <1>2, <1>3, <1>4 DEF Apart

LEMMA ApartTake ==
  ASSUME NEW H, NEW S, NEW W, NEW K, NEW D, Apart(H, S, W, K, D), S # <<>>
  PROVE  Apart(H, Tail(S), W, K \cup {Head(S)}, D)
<1>1. S \in Seq(Frames) /\ Once(S)
  BY DEF Apart
<1>2. /\ Tail(S) \in Seq(Frames) /\ Head(S) \in Frames /\ ToSet(S) = {Head(S)} \cup ToSet(Tail(S))
      /\ Head(S) \notin ToSet(Tail(S)) /\ Once(Tail(S))
  BY <1>1, TailIs
<1>3. PICK h : h = Head(S)
  OBVIOUS
<1>4. PICK t : t = Tail(S)
  OBVIOUS
<1>5. Apart(H, t, W, K \cup {h}, D)
  BY <1>2, <1>3, <1>4 DEF Apart
<1> QED
  BY <1>3, <1>4, <1>5

LEMMA ApartComplete ==
  ASSUME NEW H, NEW S, NEW W, NEW K, NEW D, Apart(H, S, W, K, D), NEW f \in K
  PROVE  Apart(H, S, W, K \ {f}, Append(D, f))
<1>1. D \in Seq(Frames) /\ f \in Frames /\ Once(D) /\ f \notin ToSet(D)
  BY DEF Apart
<1>2. /\ Append(D, f) \in Seq(Frames) /\ ToSet(Append(D, f)) = ToSet(D) \cup {f}
      /\ Once(Append(D, f))
  BY <1>1, AppendIs
<1> QED
  BY <1>2 DEF Apart

LEMMA ApartRelease ==
  ASSUME NEW H, NEW S, NEW W, NEW K, NEW P \in Seq(Frames), NEW Q \in Seq(Frames),
         Apart(H, S, W, K, P \o Q)
  PROVE  Apart(H \cup ToSet(P), S, W, K, Q)
<1>1. ToSet(P \o Q) = ToSet(P) \cup ToSet(Q) /\ Once(P) /\ Once(Q) /\ ToSet(P) \cap ToSet(Q) = {}
  BY ConcatIs DEF Apart
<1>2. ToSet(P) \subseteq Frames
  BY <1>1 DEF Apart
<1> QED
  BY <1>1, <1>2 DEF Apart

(* How often a frame is in a sequence without repetitions. *)
LEMMA CountOf ==
  ASSUME NEW s, Once(s), NEW f
  PROVE  Cardinality({k \in DOMAIN s : s[k] = f}) = IF f \in ToSet(s) THEN 1 ELSE 0
<1>1. CASE f \in ToSet(s)
  <2>1. PICK k \in DOMAIN s : s[k] = f
    BY <1>1 DEF ToSet
  <2>2. {j \in DOMAIN s : s[j] = f} = {k}
    BY <2>1 DEF Once
  <2> QED
    BY <1>1, <2>2, FS_Singleton
<1>2. CASE f \notin ToSet(s)
  <2>1. {j \in DOMAIN s : s[j] = f} = {}
    BY <1>2 DEF ToSet
  <2> QED
    BY <1>2, <2>1, FS_EmptySet
<1> QED
  BY <1>1, <1>2

(* As many frames as positions. *)
LEMMA AsMany ==
  ASSUME NEW s \in Seq(Frames), Once(s)
  PROVE  s \in SetToSeqs(ToSet(s))
<1>1. PICK n \in Nat : n = Len(s)
  OBVIOUS
<1>2. DOMAIN s = 1..n /\ s \in [1..n -> ToSet(s)]
  BY <1>1 DEF ToSet
<1>3. Cardinality(ToSet(s)) = n
  <2>1. s \in Injection(1..n, ToSet(s))
    BY <1>2 DEF Once, Injection, IsInjective
  <2>2. s \in Surjection(1..n, ToSet(s))
    BY <1>2 DEF ToSet, Surjection
  <2>3. ExistsBijection(1..n, ToSet(s))
    BY <2>1, <2>2 DEF ExistsBijection, Bijection
  <2> QED
    BY <2>3, FS_CountingElements
<1> QED
  BY <1>2, <1>3 DEF SetToSeqs, Once

(***************************************************************************)
(* The records of the rings, and what their indices leave room for.        *)
(***************************************************************************)
Records ==
  [ ring : Ring, producer : Index, consumer : Index, cached_prod : Index, cached_cons : Index ]

Content(r) == On(r.ring, r.consumer, Minus(r.producer, r.consumer))

TxRoom(r) ==
  Minus(r.producer, r.consumer) + Minus(r.cached_prod, r.producer)
    + Minus(r.cached_cons, r.cached_prod) <= Size

CompRoom(r) ==
  Minus(r.cached_cons, r.consumer) + Minus(r.cached_prod, r.cached_cons)
    + Minus(r.producer, r.cached_prod) <= Size

LEMMA Distances ==
  ASSUME RingAssumption
  PROVE  /\ \A i, j \in Index : Minus(i, j) \in Nat /\ Minus(i, j) \in Index /\ Plus(i, j) \in Index
         /\ \A i \in Index : i \in Nat /\ i < Wrap
         /\ \A i \in 0..Size : i \in Index
         /\ Size \in Nat /\ Wrap \in Nat /\ Size < Wrap
<1>1. Size \in Nat /\ Wrap \in Nat /\ Size < Wrap
  BY Sizes
<1>2. \A i, j \in Index : Minus(i, j) \in Index /\ Plus(i, j) \in Index
  BY PlusMinus
<1>3. (\A i \in Index : i \in Nat /\ i < Wrap) /\ \A i \in 0..Size : i \in Index
  BY <1>1 DEF Index
<1> QED
  BY <1>1, <1>2, <1>3

LEMMA Prefix ==
  ASSUME RingAssumption, NEW g \in Ring, NEW h \in Ring, NEW a \in Int,
         NEW n \in Nat, On(h, a, n) = On(g, a, n), NEW m \in 0..n
  PROVE  On(h, a, m) = On(g, a, m)
<1>1. PICK s : s = On(g, a, n)
  OBVIOUS
<1>2. PICK t : t = On(g, a, m)
  OBVIOUS
<1>3. PICK u : u = On(h, a, m)
  OBVIOUS
<1>4. m \in Nat
  OBVIOUS
<1>5. \A k \in 1..n : s[k] = g[(a + k - 1) % Size]
  BY <1>1, Stretch
<1>6. \A k \in 1..n : s[k] = h[(a + k - 1) % Size]
  BY <1>1, Stretch
<1>7. t \in Seq(Frames) /\ Len(t) = m /\ \A k \in 1..m : t[k] = g[(a + k - 1) % Size]
  BY <1>2, <1>4, Stretch
<1>8. u \in Seq(Frames) /\ Len(u) = m /\ \A k \in 1..m : u[k] = h[(a + k - 1) % Size]
  BY <1>3, <1>4, Stretch
<1>9. ASSUME NEW k \in 1..m PROVE u[k] = t[k]
  <2>1. k \in 1..n
    OBVIOUS
  <2> QED
    BY ONLY <1>5, <1>6, <1>7, <1>8, <2>1, k \in 1..m, Zenon
<1>10. u = t
  BY <1>7, <1>8, <1>9, SeqEqual
<1> QED
  BY <1>2, <1>3, <1>10

Submits(r, q, w, nb) ==
  /\ q \in Records /\ TxRoom(q) /\ w - nb \in 0..Minus(q.cached_prod, q.producer)
  /\ Content(q) = Content(r) \o On(r.ring, r.producer, nb)
  /\ On(r.ring, r.producer, w) = On(r.ring, r.producer, nb) \o On(q.ring, q.producer, w - nb)

LEMMA SubmitMoves ==
  ASSUME RingAssumption, NEW r \in Records, TxRoom(r),
         NEW w \in 0..Minus(r.cached_prod, r.producer), NEW nb \in 1..w,
         NEW q, q = [r EXCEPT !.producer = Plus(@, nb)]
  PROVE  Submits(r, q, w, nb)
<1>g. PICK g \in Ring : g = r.ring
  BY DEF Records
<1>1. PICK p \in Index : p = r.producer
  BY DEF Records
<1>2. PICK c \in Index : c = r.consumer
  BY DEF Records
<1>3. PICK cp \in Index : cp = r.cached_prod
  BY DEF Records
<1>4. PICK cc \in Index : cc = r.cached_cons
  BY DEF Records
<1>5. Minus(p, c) + Minus(cp, p) + Minus(cc, cp) <= Size
  BY <1>1, <1>2, <1>3, <1>4 DEF TxRoom
<1>6. nb \in Nat /\ nb <= w /\ w <= Minus(cp, p) /\ w \in Nat /\ nb >= 1 /\ w - nb \in Nat
  BY <1>1, <1>3, Distances
<1>7. nb \in Index /\ nb <= Minus(cp, p) /\ Minus(p, c) + nb < Wrap /\ Minus(p, c) \in Index
  BY <1>5, <1>6, Distances
<1>8. PICK pp \in Index : pp = Plus(p, nb)
  BY <1>7, Distances
<1>9. Minus(pp, c) = Minus(p, c) + nb
  BY <1>7, <1>8, Along
<1>10. Minus(cp, pp) = Minus(cp, p) - nb
  BY <1>7, <1>8, Along
<1>11. /\ q \in Records /\ q.producer = pp /\ q.consumer = c /\ q.cached_prod = cp /\ q.cached_cons = cc
       /\ q.ring = g
  BY <1>g, <1>1, <1>2, <1>3, <1>4, <1>8 DEF Records
<1>12. TxRoom(q) /\ w - nb \in 0..Minus(q.cached_prod, q.producer)
  BY <1>5, <1>6, <1>7, <1>9, <1>10, <1>11, Distances DEF TxRoom
<1>13. On(g, c, Minus(p, c)) \o On(g, p, nb) = On(g, c, Minus(p, c) + nb)
  <2>1. Plus(c, Minus(p, c)) = p
    BY Along
  <2>2. PICK m \in Index : m = Minus(p, c)
    BY <1>7
  <2>3. On(g, c, m) \o On(g, Plus(c, m), nb) = On(g, c, m + nb)
    BY ZenonT(40), RingAssumption, <1>6, Joined
  <2> QED
    BY ONLY <2>1, <2>2, <2>3, Zenon
<1>14. Content(q) = Content(r) \o On(r.ring, r.producer, nb)
  <2>1. Content(q) = On(g, c, Minus(pp, c))
    BY <1>11 DEF Content
  <2>2. Content(r) = On(g, c, Minus(p, c))
    BY <1>g, <1>1, <1>2 DEF Content
  <2> QED
    BY ONLY <1>g, <1>1, <1>9, <1>13, <2>1, <2>2, Zenon
<1>15. On(r.ring, r.producer, w) = On(r.ring, r.producer, nb) \o On(q.ring, q.producer, w - nb)
  <2>1. PICK m \in Nat : m = w - nb
    BY <1>6
  <2>2. nb + m = w
    BY <1>6, <2>1
  <2>3. On(g, p, nb) \o On(g, Plus(p, nb), m) = On(g, p, nb + m)
    BY <1>7, Joined
  <2> QED
    BY ONLY <1>g, <1>1, <1>8, <1>11, <2>1, <2>2, <2>3, Zenon
<1> QED
  BY <1>11, <1>12, <1>14, <1>15 DEF Submits

Takes(r, q, w) ==
  /\ q \in Records /\ TxRoom(q) /\ w \in 0..Minus(q.cached_prod, q.producer)
  /\ Content(r) # <<>> /\ Content(q) = Tail(Content(r)) /\ Cell(r, r.consumer) = Head(Content(r))
  /\ On(q.ring, q.producer, w) = On(r.ring, r.producer, w)

LEMMA TakeMoves ==
  ASSUME RingAssumption, NEW r \in Records, TxRoom(r), r.consumer # r.producer,
         NEW w \in 0..Minus(r.cached_prod, r.producer),
         NEW q, q = [r EXCEPT !.consumer = Plus(@, 1)]
  PROVE  Takes(r, q, w)
<1>g. PICK g \in Ring : g = r.ring
  BY DEF Records
<1>1. PICK p \in Index : p = r.producer
  BY DEF Records
<1>2. PICK c \in Index : c = r.consumer
  BY DEF Records
<1>3. PICK cp \in Index : cp = r.cached_prod
  BY DEF Records
<1>4. PICK cc \in Index : cc = r.cached_cons
  BY DEF Records
<1>5. Minus(p, c) + Minus(cp, p) + Minus(cc, cp) <= Size
  BY <1>1, <1>2, <1>3, <1>4 DEF TxRoom
<1>6. 1 \in Index /\ Minus(p, c) >= 1
  <2>1. 1 \in Index
    BY Sizes DEF Index
  <2>2. Minus(p, c) # 0
    <3>1. Minus(p, c) = IF p >= c THEN p - c ELSE p - c + Wrap
      BY PlusMinus
    <3> QED
      BY <1>1, <1>2, <3>1, Distances
  <2> QED
    BY <2>1, <2>2, Distances
<1>7. PICK d \in Index : d = Plus(c, 1)
  BY <1>6, Distances
<1>8. Minus(p, d) = Minus(p, c) - 1
  BY <1>6, <1>7, Along
<1>9. /\ q \in Records /\ q.producer = p /\ q.consumer = d /\ q.cached_prod = cp /\ q.cached_cons = cc
      /\ q.ring = g
  BY <1>g, <1>1, <1>2, <1>3, <1>4, <1>7 DEF Records
<1>10. TxRoom(q)
  BY <1>5, <1>8, <1>9, Distances DEF TxRoom
<1>11. PICK m \in Nat : m = Minus(p, d)
  BY Distances
<1>12. On(g, c, 1) \o On(g, d, m) = On(g, c, 1 + m)
  BY ONLY RingAssumption, <1>6, <1>7, g \in Ring, c \in Index, m \in Nat, Joined, Zenon
<1>13. 1 + m = Minus(p, c) /\ c \in Int /\ 1 \in Nat /\ d \in Int
  BY <1>8, <1>11, Distances
<1>14. PICK s : s = Content(r)
  OBVIOUS
<1>15. PICK t : t = Content(q)
  OBVIOUS
<1>16. s = On(g, c, 1 + m) /\ t = On(g, d, m)
  BY <1>g, <1>1, <1>2, <1>9, <1>11, <1>13, <1>14, <1>15 DEF Content
<1>17. PICK f : f = Cell(r, c)
  OBVIOUS
<1>18. f \in Frames
  BY <1>g, <1>17, CellIn, <1>13 DEF Ring, Cell
<1>19. On(g, c, 1) = <<f>>
  <2>1. On(g, c, 1) = [k \in 1..1 |-> g[(c + k - 1) % Size]]
    BY DEF On
  <2>2. \A k \in 1..1 : c + k - 1 = c
    BY <1>13
  <2>3. On(g, c, 1) = [k \in 1..1 |-> g[c % Size]]
    BY ONLY <2>1, <2>2, Zenon
  <2>4. f = g[c % Size]
    BY <1>g, <1>17 DEF Cell
  <2> QED
    BY <2>3, <2>4
<1>20. t \in Seq(Frames)
  BY <1>13, <1>16, Stretch
<1>21. s = <<f>> \o t
  BY ONLY <1>12, <1>16, <1>19, Zenon
<1>22. s # <<>> /\ Head(s) = f /\ Tail(s) = t
  BY <1>18, <1>20, <1>21
<1>23. On(q.ring, q.producer, w) = On(r.ring, r.producer, w) /\ w \in 0..Minus(q.cached_prod, q.producer)
  BY <1>g, <1>1, <1>3, <1>9
<1> QED
  BY ONLY <1>2, <1>9, <1>10, <1>14, <1>15, <1>17, <1>22, <1>23, Zenon DEF Takes

Writes(r, q, w, f) ==
  /\ q \in Records /\ TxRoom(q) /\ w + 1 \in 0..Minus(q.cached_prod, q.producer)
  /\ Content(q) = Content(r)
  /\ On(q.ring, q.producer, w + 1) = Append(On(r.ring, r.producer, w), f)

LEMMA WriteMoves ==
  ASSUME RingAssumption, NEW r \in Records, TxRoom(r), NEW f \in Frames,
         NEW w \in 0..Minus(r.cached_prod, r.producer), w < Minus(r.cached_prod, r.producer),
         NEW q, q = [r EXCEPT !.ring[(r.producer + w) % Size] = f]
  PROVE  Writes(r, q, w, f)
<1>g. PICK g \in Ring : g = r.ring
  BY DEF Records
<1>1. PICK p \in Index : p = r.producer
  BY DEF Records
<1>2. PICK c \in Index : c = r.consumer
  BY DEF Records
<1>3. PICK cp \in Index : cp = r.cached_prod
  BY DEF Records
<1>4. PICK cc \in Index : cc = r.cached_cons
  BY DEF Records
<1>5. Minus(p, c) + Minus(cp, p) + Minus(cc, cp) <= Size
  BY <1>1, <1>2, <1>3, <1>4 DEF TxRoom
<1>6. PICK u \in Index : u = Minus(p, c)
  BY Distances
<1>7. /\ w \in Nat /\ w < Minus(cp, p) /\ u \in Nat /\ u + w < Size /\ w < Size /\ p \in Int /\ c \in Int
      /\ u + w \in Nat /\ Minus(cp, p) \in Nat
  BY <1>1, <1>3, <1>5, <1>6, Distances
<1>8. PICK x \in 0..Size - 1 : x = (p + w) % Size
  BY <1>7, CellIn
<1>9. PICK h : h = [g EXCEPT ![x] = f]
  OBVIOUS
<1>10. h \in Ring
  BY <1>9 DEF Ring
<1>w. \A y, z : x = (y + z) % Size => WroteBehind(g, h, y, z, f)
  BY <1>9, <1>10 DEF Ring, WroteBehind
<1>11. /\ q \in Records /\ q.ring = h /\ q.producer = p /\ q.consumer = c /\ q.cached_prod = cp
       /\ q.cached_cons = cc
  <2>1. q = [r EXCEPT !.ring[x] = f]
    BY <1>1, <1>8
  <2> QED
    BY <1>g, <1>1, <1>2, <1>3, <1>4, <1>9, <1>10, <2>1 DEF Records
<1>12. TxRoom(q) /\ w + 1 \in 0..Minus(q.cached_prod, q.producer)
  BY <1>5, <1>7, <1>11 DEF TxRoom
<1>13. On(h, p, w + 1) = Append(On(g, p, w), f)
  <2>1. WroteBehind(g, h, p, w, f)
    BY ONLY <1>8, <1>w, Zenon
  <2>2. Grows(g, h, p, w, f)
    BY <1>7, <2>1, Overwritten
  <2> QED
    BY <2>2 DEF Grows
<1>14. On(h, c, u) = On(g, c, u)
  <2>1. Plus(c, u) = p
    BY <1>6, Along
  <2>2. (Plus(c, u) + w) % Size = (c + u + w) % Size
    BY <1>7, CellOn
  <2>3. c + u + w = c + (u + w)
    BY <1>7
  <2>4. (p + w) % Size = (c + (u + w)) % Size
    BY ONLY <2>1, <2>2, <2>3, Zenon
  <2>5. WroteBehind(g, h, c, u + w, f)
    BY ONLY <1>8, <1>w, <2>4, Zenon
  <2>6. Grows(g, h, c, u + w, f)
    BY <1>7, <2>5, Overwritten
  <2>7. u \in 0..u + w
    BY <1>7
  <2> QED
    BY <1>7, <1>10, <2>6, <2>7, Prefix DEF Grows
<1>15. Content(q) = Content(r)
  <2>1. Content(q) = On(h, c, u) /\ Content(r) = On(g, c, u)
    BY <1>g, <1>1, <1>2, <1>6, <1>11 DEF Content
  <2> QED
    BY <1>14, <2>1
<1>16. On(q.ring, q.producer, w + 1) = Append(On(r.ring, r.producer, w), f)
  BY ONLY <1>g, <1>1, <1>11, <1>13, Zenon
<1> QED
  BY <1>11, <1>12, <1>15, <1>16 DEF Writes

Completed(r, q, f) ==
  q = [r EXCEPT !.ring[r.producer % Size] = f, !.producer = Plus(@, 1)]

Completes(r, q, f) ==
  /\ q \in Records /\ CompRoom(q) /\ Content(q) = Append(Content(r), f)
  /\ q.cached_cons = r.cached_cons /\ q.consumer = r.consumer
  /\ On(q.ring, q.consumer, Minus(q.cached_cons, q.consumer))
       = On(r.ring, r.consumer, Minus(r.cached_cons, r.consumer))

LEMMA CompleteMoves ==
  ASSUME RingAssumption, NEW r \in Records, CompRoom(r), NEW f \in Frames,
         Minus(r.producer, r.consumer) < Size,
         NEW q, Completed(r, q, f)
  PROVE  Completes(r, q, f)
<1>g. PICK g \in Ring : g = r.ring
  BY DEF Records
<1>1. PICK p \in Index : p = r.producer
  BY DEF Records
<1>2. PICK c \in Index : c = r.consumer
  BY DEF Records
<1>3. PICK cp \in Index : cp = r.cached_prod
  BY DEF Records
<1>4. PICK cc \in Index : cc = r.cached_cons
  BY DEF Records
<1>5. Minus(cc, c) + Minus(cp, cc) + Minus(p, cp) <= Size
  BY <1>1, <1>2, <1>3, <1>4 DEF CompRoom
<1>6. PICK u \in Index : u = Minus(p, c)
  BY Distances
<1>7. /\ u \in Nat /\ u < Size /\ Size < Wrap /\ Size \in Nat /\ Wrap \in Nat /\ c \in Int /\ p \in Int /\ 1 \in Index
      /\ Minus(cc, c) \in Nat /\ Minus(cp, cc) \in Nat /\ Minus(p, cp) \in Nat
  <2>1. 1 \in Index
    BY Sizes DEF Index
  <2> QED
    BY <1>1, <1>2, <1>6, <2>1, Distances
<1>8. Minus(cp, c) = Minus(cc, c) + Minus(cp, cc)
  <2>1. Minus(cp, cc) + Minus(cc, c) < Wrap
    BY <1>5, <1>7
  <2>2. Minus(cp, c) = Minus(cp, cc) + Minus(cc, c)
    BY <2>1, Chain
  <2> QED
    BY <1>7, <2>2
<1>9. u = Minus(cc, c) + Minus(cp, cc) + Minus(p, cp)
  <2>1. Minus(p, cp) + Minus(cp, c) < Wrap
    BY <1>5, <1>7, <1>8
  <2>2. Minus(p, c) = Minus(p, cp) + Minus(cp, c)
    BY <2>1, Chain
  <2> QED
    BY <1>6, <1>7, <1>8, <2>2
<1>10. PICK d \in Index : d = Plus(p, 1)
  BY <1>7, Distances
<1>11. Minus(d, c) = u + 1
  <2>1. Minus(p, c) + 1 < Wrap
    BY <1>6, <1>7
  <2> QED
    BY <1>6, <1>7, <1>10, <2>1, Along
<1>12. Minus(d, cp) = Minus(p, cp) + 1
  <2>1. Minus(p, cp) + 1 < Wrap
    BY <1>7, <1>9
  <2> QED
    BY <1>7, <1>10, <2>1, Along
<1>13. PICK x \in 0..Size - 1 : x = p % Size
  BY <1>7, CellIn
<1>14. PICK h : h = [g EXCEPT ![x] = f]
  OBVIOUS
<1>15. h \in Ring
  BY <1>14 DEF Ring
<1>w. \A y, z : x = (y + z) % Size => WroteBehind(g, h, y, z, f)
  BY <1>14, <1>15 DEF Ring, WroteBehind
<1>16. /\ q \in Records /\ q.ring = h /\ q.producer = d /\ q.consumer = c /\ q.cached_prod = cp
       /\ q.cached_cons = cc
  <2>1. q = [r EXCEPT !.ring[x] = f, !.producer = d]
    BY <1>1, <1>10, <1>13 DEF Completed
  <2> QED
    BY <1>g, <1>1, <1>2, <1>3, <1>4, <1>14, <1>15, <2>1 DEF Records
<1>17. CompRoom(q)
  BY <1>7, <1>9, <1>12, <1>16 DEF CompRoom
<1>18. On(h, c, u) = On(g, c, u) /\ On(h, c, u + 1) = Append(On(g, c, u), f)
  <2>1. Plus(c, u) = p
    BY <1>6, Along
  <2>2. (Plus(c, u) + 0) % Size = (c + u + 0) % Size
    BY CellOn
  <2>3. p + 0 = p /\ c + u + 0 = c + u
    BY <1>7
  <2>4. p % Size = (c + u) % Size
    BY ONLY <2>1, <2>2, <2>3, Zenon
  <2>5. WroteBehind(g, h, c, u, f)
    BY ONLY <1>13, <1>w, <2>4, Zenon
  <2>6. Grows(g, h, c, u, f)
    BY <1>7, <2>5, Overwritten
  <2> QED
    BY <2>6 DEF Grows
<1>19. On(h, c, Minus(cc, c)) = On(g, c, Minus(cc, c))
  <2>1. Minus(cc, c) \in 0..u
    BY <1>7, <1>9
  <2> QED
    BY <1>7, <1>15, <1>18, <2>1, Prefix
<1>20. Content(q) = Append(Content(r), f)
  <2>1. Content(q) = On(h, c, Minus(d, c)) /\ Content(r) = On(g, c, u)
    BY <1>g, <1>1, <1>2, <1>6, <1>16 DEF Content
  <2> QED
    BY ONLY <1>11, <1>18, <2>1, Zenon
<1>21. On(q.ring, q.consumer, Minus(q.cached_cons, q.consumer))
         = On(r.ring, r.consumer, Minus(r.cached_cons, r.consumer))
  BY ONLY <1>g, <1>2, <1>4, <1>16, <1>19, Zenon
<1> QED
  BY <1>2, <1>4, <1>16, <1>17, <1>20, <1>21 DEF Completes

Reserves(r, z) ==
  /\ z \in Records /\ TxRoom(z) /\ Content(z) = Content(r) /\ z.ring = r.ring
  /\ z.producer = r.producer /\ z.consumer = r.consumer
  /\ Minus(r.cached_prod, r.producer) <= Minus(z.cached_prod, z.producer)

LEMMA ReserveMoves ==
  ASSUME RingAssumption, NEW r \in Records, TxRoom(r), NEW nb \in 1..Size,
         NEW q, q = xsk_prod_nb_free(r, nb),
         NEW z, z = IF Minus(q.cached_cons, q.cached_prod) < nb THEN q
                    ELSE [q EXCEPT !.cached_prod = Plus(@, nb)]
  PROVE  Reserves(r, z)
<1>g. PICK g \in Ring : g = r.ring
  BY DEF Records
<1>1. PICK p \in Index : p = r.producer
  BY DEF Records
<1>2. PICK c \in Index : c = r.consumer
  BY DEF Records
<1>3. PICK cp \in Index : cp = r.cached_prod
  BY DEF Records
<1>4. PICK cc \in Index : cc = r.cached_cons
  BY DEF Records
<1>5. Minus(p, c) + Minus(cp, p) + Minus(cc, cp) <= Size
  BY <1>1, <1>2, <1>3, <1>4 DEF TxRoom
<1>6. /\ Minus(p, c) \in Nat /\ Minus(cp, p) \in Nat /\ Minus(cc, cp) \in Nat
      /\ Size \in Nat /\ Wrap \in Nat /\ Size < Wrap /\ nb \in Nat /\ nb >= 1 /\ nb \in Index /\ Size \in Index
  BY Distances
<1>7. PICK d \in Index : d = Plus(c, Size)
  BY <1>6, Distances
<1>8. Minus(cp, c) = Minus(cp, p) + Minus(p, c)
  <2>1. Minus(cp, p) + Minus(p, c) < Wrap
    BY <1>5, <1>6
  <2> QED
    BY <2>1, Chain
<1>9. Minus(d, cp) = Size - Minus(cp, c)
  <2>1. Minus(d, c) = Size
    BY <1>6, <1>7, Along
  <2>2. PICK m \in Index : m = Minus(cp, c)
    BY Distances
  <2>3. Plus(c, m) = cp
    BY <2>2, Along
  <2>4. m <= Minus(d, c)
    BY <1>5, <1>6, <1>8, <2>1, <2>2
  <2>5. Minus(d, Plus(c, m)) = Minus(d, c) - m
    BY <2>4, Along
  <2> QED
    BY <2>1, <2>2, <2>3, <2>5
<1>10. PICK e \in Index : e = q.cached_cons
  BY <1>2, <1>4, <1>7 DEF xsk_prod_nb_free, Records
<1>11. Minus(p, c) + Minus(cp, p) + Minus(e, cp) <= Size
  <2>1. e = cc \/ e = d
    BY <1>2, <1>4, <1>7, <1>10 DEF xsk_prod_nb_free, Records
  <2>2. Minus(p, c) + Minus(cp, p) + Minus(d, cp) <= Size
    BY <1>6, <1>8, <1>9
  <2> QED
    BY <1>5, <2>1, <2>2
<1>12. /\ q \in Records /\ q.ring = g /\ q.producer = p /\ q.consumer = c /\ q.cached_prod = cp
       /\ q.cached_cons = e
  BY <1>g, <1>1, <1>2, <1>3, <1>4, <1>7, <1>10 DEF xsk_prod_nb_free, Records
<1>13. CASE Minus(e, cp) < nb
  <2>1. z = q
    BY <1>12, <1>13
  <2>2. TxRoom(q) /\ Content(q) = Content(r)
    BY <1>g, <1>1, <1>2, <1>11, <1>12 DEF TxRoom, Content
  <2>3. Minus(r.cached_prod, r.producer) <= Minus(z.cached_prod, z.producer)
    <3>1. z.cached_prod = cp /\ z.producer = p /\ r.cached_prod = cp /\ r.producer = p
      BY <1>1, <1>3, <1>12, <2>1
    <3>2. PICK m \in Nat : m = Minus(cp, p)
      BY <1>6
    <3> QED
      BY <3>1, <3>2
  <2> QED
    BY <1>g, <1>1, <1>2, <1>12, <2>1, <2>2, <2>3 DEF Reserves
<1>14. CASE ~(Minus(e, cp) < nb)
  <2>1. PICK x \in Index : x = Plus(cp, nb)
    BY <1>6, Distances
  <2>2. /\ z \in Records /\ z.ring = g /\ z.producer = p /\ z.consumer = c /\ z.cached_prod = x
        /\ z.cached_cons = e
    BY <1>12, <1>14, <2>1 DEF Records
  <2>3. nb <= Minus(e, cp) /\ Minus(e, cp) \in Nat
    BY <1>6, <1>14, Distances
  <2>4. Minus(e, x) = Minus(e, cp) - nb
    BY <1>6, <2>1, <2>3, Along
  <2>5. Minus(x, p) = Minus(cp, p) + nb
    <3>1. Minus(cp, p) + nb < Wrap
      BY <1>6, <1>11, <2>3
    <3> QED
      BY <1>6, <2>1, <3>1, Along
  <2>6. TxRoom(z)
    BY <1>6, <1>11, <2>2, <2>3, <2>4, <2>5 DEF TxRoom
  <2>7. Content(z) = Content(r)
    BY <1>g, <1>1, <1>2, <2>2 DEF Content
  <2>8. Minus(r.cached_prod, r.producer) <= Minus(z.cached_prod, z.producer)
    BY <1>1, <1>3, <1>6, <2>2, <2>5
  <2> QED
    BY <1>g, <1>1, <1>2, <2>2, <2>6, <2>7, <2>8 DEF Reserves
<1> QED
  BY <1>13, <1>14

(* What the program has peeked. *)
Seen(r) == On(r.ring, r.consumer, Minus(r.cached_cons, r.consumer))

Peeks(r, q) ==
  /\ q \in Records /\ CompRoom(q) /\ Content(q) = Content(r)
  /\ Seen(q) = Seen(r) \o On(r.ring, r.cached_cons, Minus(q.cached_cons, r.cached_cons))

LEMMA PeekMoves ==
  ASSUME RingAssumption, NEW r \in Records, CompRoom(r), NEW nb \in 1..Size,
         NEW q, q = xsk_cons_nb_avail(r, nb)
  PROVE  Peeks(r, q)
<1>g. PICK g \in Ring : g = r.ring
  BY DEF Records
<1>1. PICK p \in Index : p = r.producer
  BY DEF Records
<1>2. PICK c \in Index : c = r.consumer
  BY DEF Records
<1>3. PICK cp \in Index : cp = r.cached_prod
  BY DEF Records
<1>4. PICK cc \in Index : cc = r.cached_cons
  BY DEF Records
<1>5. Minus(cc, c) + Minus(cp, cc) + Minus(p, cp) <= Size
  BY <1>1, <1>2, <1>3, <1>4 DEF CompRoom
<1>6. PICK e \in Index : e = IF cp = cc THEN p ELSE cp
  OBVIOUS
<1>7. PICK m \in Nat : m = IF Minus(e, cc) > nb THEN nb ELSE Minus(e, cc)
  BY Distances
<1>8. /\ Minus(cc, c) \in Nat /\ Minus(cp, cc) \in Nat /\ Minus(p, cp) \in Nat /\ Minus(e, cc) \in Nat
      /\ Minus(p, e) \in Nat
      /\ Size \in Nat /\ Wrap \in Nat /\ Size < Wrap /\ nb \in Nat /\ nb >= 1
  BY Distances
<1>9. Minus(cc, c) + Minus(e, cc) + Minus(p, e) <= Size
  <2>1. CASE cp = cc
    <3>1. Minus(cp, cc) = 0 /\ Minus(p, p) = 0
      BY <2>1, Along
    <3> QED
      BY <1>5, <1>6, <1>8, <2>1, <3>1
  <2>2. CASE cp # cc
    BY <1>5, <1>6, <2>2
  <2> QED
    BY <2>1, <2>2
<1>10. m <= Minus(e, cc) /\ m \in Index
  <2>1. m <= Minus(e, cc)
    BY <1>7, <1>8
  <2>2. m \in 0..Size
    BY <1>8, <1>9, <2>1
  <2> QED
    BY <2>1, <2>2, Distances
<1>11. PICK d \in Index : d = Plus(cc, m)
  BY <1>10, Distances
<1>12. /\ q \in Records /\ q.ring = g /\ q.producer = p /\ q.consumer = c /\ q.cached_prod = e
       /\ q.cached_cons = d
  <2>1. PICK x : x = IF cp = cc THEN [r EXCEPT !.cached_prod = p] ELSE r
    OBVIOUS
  <2>2. /\ x \in Records /\ x.ring = g /\ x.producer = p /\ x.consumer = c /\ x.cached_prod = e
        /\ x.cached_cons = cc
    BY <1>g, <1>1, <1>2, <1>3, <1>4, <1>6, <2>1 DEF Records
  <2>3. q = [x EXCEPT !.cached_cons = Plus(@, IF Minus(x.cached_prod, x.cached_cons) > nb THEN nb
                                               ELSE Minus(x.cached_prod, x.cached_cons))]
    BY <1>1, <1>3, <1>4, <2>1 DEF xsk_cons_nb_avail
  <2>4. q = [x EXCEPT !.cached_cons = d]
    BY <1>7, <1>11, <2>2, <2>3
  <2> QED
    BY <2>2, <2>4 DEF Records
<1>13. Minus(e, d) = Minus(e, cc) - m
  BY <1>10, <1>11, Along
<1>14. Minus(d, c) = Minus(cc, c) + m /\ Minus(d, cc) = m
  <2>1. Minus(cc, c) + m < Wrap
    BY <1>7, <1>8, <1>9, <1>10
  <2> QED
    BY <1>10, <1>11, <2>1, Along
<1>15. CompRoom(q)
  BY <1>7, <1>8, <1>9, <1>12, <1>13, <1>14 DEF CompRoom
<1>16. Content(q) = Content(r)
  BY <1>g, <1>1, <1>2, <1>12 DEF Content
<1>17. On(g, c, Minus(cc, c)) \o On(g, cc, m) = On(g, c, Minus(cc, c) + m)
  <2>1. PICK n \in Index : n = Minus(cc, c)
    BY Distances
  <2>2. Plus(c, n) = cc
    BY <2>1, Along
  <2>3. On(g, c, n) \o On(g, Plus(c, n), m) = On(g, c, n + m)
    BY Joined
  <2> QED
    BY ONLY <2>1, <2>2, <2>3, Zenon
<1>18. Seen(q) = On(g, c, Minus(d, c)) /\ Seen(r) = On(g, c, Minus(cc, c))
  BY <1>g, <1>2, <1>4, <1>12 DEF Seen
<1>19. Seen(q) = Seen(r) \o On(r.ring, r.cached_cons, Minus(q.cached_cons, r.cached_cons))
  BY ONLY <1>g, <1>4, <1>12, <1>14, <1>17, <1>18, Zenon
<1> QED
  BY <1>12, <1>15, <1>16, <1>19 DEF Peeks

Cancels(r, q, nb) ==
  /\ q \in Records /\ CompRoom(q) /\ Content(q) = Content(r)
  /\ Seen(q) = SubSeq(Seen(r), 1, Len(Seen(r)) - nb)

LEMMA CancelMoves ==
  ASSUME RingAssumption, NEW r \in Records, CompRoom(r), NEW nb \in 1..Minus(r.cached_cons, r.consumer),
         NEW q, q = [r EXCEPT !.cached_cons = Minus(@, nb)]
  PROVE  Cancels(r, q, nb)
<1>g. PICK g \in Ring : g = r.ring
  BY DEF Records
<1>1. PICK p \in Index : p = r.producer
  BY DEF Records
<1>2. PICK c \in Index : c = r.consumer
  BY DEF Records
<1>3. PICK cp \in Index : cp = r.cached_prod
  BY DEF Records
<1>4. PICK cc \in Index : cc = r.cached_cons
  BY DEF Records
<1>5. Minus(cc, c) + Minus(cp, cc) + Minus(p, cp) <= Size
  BY <1>1, <1>2, <1>3, <1>4 DEF CompRoom
<1>6. /\ Minus(cc, c) \in Nat /\ Minus(cp, cc) \in Nat /\ Minus(p, cp) \in Nat
      /\ Size \in Nat /\ Wrap \in Nat /\ Size < Wrap
  BY Distances
<1>7. nb \in Nat /\ nb >= 1 /\ nb <= Minus(cc, c) /\ nb \in Index
  <2>1. nb \in Nat /\ nb >= 1 /\ nb <= Minus(cc, c)
    BY <1>2, <1>4, <1>6
  <2>2. nb \in 0..Size
    BY <1>5, <1>6, <2>1
  <2> QED
    BY <2>1, <2>2, Distances
<1>8. PICK d \in Index : d = Minus(cc, nb)
  BY <1>7, Distances
<1>9. /\ q \in Records /\ q.ring = g /\ q.producer = p /\ q.consumer = c /\ q.cached_prod = cp
      /\ q.cached_cons = d
  BY <1>g, <1>1, <1>2, <1>3, <1>4, <1>8 DEF Records
<1>10. Minus(d, c) = Minus(cc, c) - nb
  BY <1>7, <1>8, Along
<1>11. Minus(cp, d) = Minus(cp, cc) + nb
  <2>1. Minus(cp, cc) + nb < Wrap
    BY <1>5, <1>6, <1>7
  <2> QED
    BY <1>7, <1>8, <2>1, Along
<1>12. CompRoom(q)
  BY <1>5, <1>6, <1>7, <1>9, <1>10, <1>11 DEF CompRoom
<1>13. Content(q) = Content(r)
  BY <1>g, <1>1, <1>2, <1>9 DEF Content
<1>14. PICK n \in Index : n = Minus(d, c)
  BY Distances
<1>15. n \in Nat /\ n + nb = Minus(cc, c) /\ c \in Int /\ Plus(c, n) \in Index /\ Plus(c, n) \in Int
       /\ (n + nb) - nb = n
  BY <1>6, <1>7, <1>10, <1>14, Distances
<1>16. PICK s \in Seq(Frames) : s = On(g, c, n) /\ Len(s) = n
  BY <1>15, Stretch
<1>17. PICK t \in Seq(Frames) : t = On(g, Plus(c, n), nb) /\ Len(t) = nb
  BY <1>7, <1>15, Stretch
<1>18. s \o t = On(g, c, n + nb)
  BY ZenonT(40), <1>7, <1>16, <1>17, Joined
<1>19. SubSeq(s \o t, 1, Len(s)) = s
  BY Split
<1>20. Len(s \o t) = n + nb
  BY <1>16, <1>17
<1>21. Seen(r) = On(g, c, Minus(cc, c)) /\ Seen(q) = On(g, c, Minus(d, c))
  BY <1>g, <1>2, <1>4, <1>9 DEF Seen
<1>22. Seen(r) = s \o t /\ Seen(q) = s
  BY ONLY <1>14, <1>15, <1>16, <1>18, <1>21, Zenon
<1>23. Seen(q) = SubSeq(Seen(r), 1, Len(Seen(r)) - nb)
  BY ONLY <1>15, <1>16, <1>19, <1>20, <1>22, Zenon
<1> QED
  BY <1>9, <1>12, <1>13, <1>23 DEF Cancels

Releases(r, q, nb) ==
  /\ q \in Records /\ CompRoom(q)
  /\ \E s \in Seq(Frames) :
       /\ Len(s) = nb /\ Seen(q) \in Seq(Frames) /\ Content(q) \in Seq(Frames)
       /\ Seen(r) = s \o Seen(q) /\ Content(r) = s \o Content(q)

LEMMA ReleaseMoves ==
  ASSUME RingAssumption, NEW r \in Records, CompRoom(r), NEW nb \in 1..Minus(r.cached_cons, r.consumer),
         NEW q, q = [r EXCEPT !.consumer = Plus(@, nb)]
  PROVE  Releases(r, q, nb)
<1>g. PICK g \in Ring : g = r.ring
  BY DEF Records
<1>1. PICK p \in Index : p = r.producer
  BY DEF Records
<1>2. PICK c \in Index : c = r.consumer
  BY DEF Records
<1>3. PICK cp \in Index : cp = r.cached_prod
  BY DEF Records
<1>4. PICK cc \in Index : cc = r.cached_cons
  BY DEF Records
<1>5. Minus(cc, c) + Minus(cp, cc) + Minus(p, cp) <= Size
  BY <1>1, <1>2, <1>3, <1>4 DEF CompRoom
<1>6. /\ Minus(cc, c) \in Nat /\ Minus(cp, cc) \in Nat /\ Minus(p, cp) \in Nat
      /\ Size \in Nat /\ Wrap \in Nat /\ Size < Wrap
  BY Distances
<1>7. nb \in Nat /\ nb >= 1 /\ nb <= Minus(cc, c) /\ nb \in Index
  <2>1. nb \in Nat /\ nb >= 1 /\ nb <= Minus(cc, c)
    BY <1>2, <1>4, <1>6
  <2>2. nb \in 0..Size
    BY <1>5, <1>6, <2>1
  <2> QED
    BY <2>1, <2>2, Distances
<1>8. PICK d \in Index : d = Plus(c, nb)
  BY <1>7, Distances
<1>9. /\ q \in Records /\ q.ring = g /\ q.producer = p /\ q.consumer = d /\ q.cached_prod = cp
      /\ q.cached_cons = cc
  BY <1>g, <1>1, <1>2, <1>3, <1>4, <1>8 DEF Records
<1>10. Minus(cc, d) = Minus(cc, c) - nb
  BY <1>7, <1>8, Along
<1>11. CompRoom(q)
  BY <1>5, <1>6, <1>7, <1>9, <1>10 DEF CompRoom
<1>12. Minus(p, c) >= Minus(cc, c) /\ Minus(p, c) \in Nat
  <2>1. Minus(cp, cc) + Minus(cc, c) < Wrap
    BY <1>5, <1>6
  <2>2. Minus(cp, c) = Minus(cp, cc) + Minus(cc, c)
    BY <2>1, Chain
  <2>3. Minus(p, cp) + Minus(cp, c) < Wrap
    BY <1>5, <1>6, <2>2
  <2>4. Minus(p, c) = Minus(p, cp) + Minus(cp, c)
    BY <2>3, Chain
  <2> QED
    BY <1>6, <2>2, <2>4
<1>13. Minus(p, d) = Minus(p, c) - nb
  <2>1. nb <= Minus(p, c)
    BY <1>6, <1>7, <1>12
  <2> QED
    BY <1>7, <1>8, <2>1, Along
<1>14. PICK m \in Nat : m = Minus(cc, d)
  BY Distances
<1>15. PICK n \in Nat : n = Minus(p, d)
  BY Distances
<1>16. nb + m = Minus(cc, c) /\ nb + n = Minus(p, c) /\ c \in Int /\ d \in Int
  BY <1>6, <1>7, <1>10, <1>12, <1>13, <1>14, <1>15, Distances
<1>17. PICK s \in Seq(Frames) : s = On(g, c, nb) /\ Len(s) = nb
  BY <1>7, <1>16, Stretch
<1>18. s \o On(g, d, m) = On(g, c, nb + m) /\ s \o On(g, d, n) = On(g, c, nb + n)
  <2>1. On(g, c, nb) \o On(g, Plus(c, nb), m) = On(g, c, nb + m)
    BY ZenonT(40), <1>7, Joined
  <2>2. On(g, c, nb) \o On(g, Plus(c, nb), n) = On(g, c, nb + n)
    BY ZenonT(40), <1>7, Joined
  <2> QED
    BY ONLY <1>8, <1>17, <2>1, <2>2, Zenon
<1>19. On(g, d, m) \in Seq(Frames) /\ On(g, d, n) \in Seq(Frames)
  BY <1>16, Stretch
<1>20. Seen(q) = On(g, d, m) /\ Content(q) = On(g, d, n)
  BY <1>9, <1>14, <1>15 DEF Seen, Content
<1>21. Seen(r) = On(g, c, Minus(cc, c)) /\ Content(r) = On(g, c, Minus(p, c))
  BY <1>g, <1>1, <1>2, <1>4 DEF Seen, Content
<1>22. Seen(r) = s \o Seen(q) /\ Content(r) = s \o Content(q)
  BY ONLY <1>16, <1>18, <1>20, <1>21, Zenon
<1> QED
  BY <1>9, <1>11, <1>17, <1>19, <1>20, <1>22 DEF Releases

(***************************************************************************)
(* The inductive invariant: the copies leave room, the frames are apart,   *)
(* the descriptors written ahead of the transmit ring included, and what   *)
(* was peeked is what the copies cover.                                    *)
(***************************************************************************)
RInv ==
  /\ tx \in Records /\ comp \in Records
  /\ TxRoom(tx) /\ CompRoom(comp)
  /\ written \in 0..Minus(tx.cached_prod, tx.producer)
  /\ Apart(held, Content(tx), On(tx.ring, tx.producer, written), kernel, Content(comp))
  /\ seen = Seen(comp)

LEMMA NoStretch ==
  ASSUME RingAssumption, NEW g \in Ring, NEW i \in Int
  PROVE  On(g, i, 0) = <<>>
<1>1. PICK s \in Seq(Frames) : s = On(g, i, 0) /\ Len(s) = 0
  BY Stretch
<1> QED
  BY <1>1, EmptySeq

LEMMA StartsRight ==
  ASSUME RingAssumption, RingsInit
  PROVE  RInv
<1>1. PICK f \in Frames : tx = EmptyRing(f, Size) /\ comp = EmptyRing(f, 0)
  BY DEF RingsInit
<1>2. PICK g \in Ring : g = [i \in 0..Size - 1 |-> f]
  BY DEF Ring
<1>3. 0 \in Index /\ Size \in Index /\ Size \in Nat
  BY Sizes DEF Index
<1>4. Minus(0, 0) = 0 /\ Minus(Size, 0) = Size
  <2>1. Minus(Size, 0) = IF Size >= 0 THEN Size - 0 ELSE Size - 0 + Wrap
    BY <1>3, PlusMinus
  <2>2. Minus(0, 0) = 0
    BY <1>3, Along
  <2> QED
    BY <1>3, <2>1, <2>2
<1>5. /\ tx \in Records /\ tx.ring = g /\ tx.producer = 0 /\ tx.consumer = 0
      /\ tx.cached_prod = 0 /\ tx.cached_cons = Size
  BY <1>1, <1>2, <1>3 DEF EmptyRing, Records
<1>6. /\ comp \in Records /\ comp.ring = g /\ comp.producer = 0 /\ comp.consumer = 0
      /\ comp.cached_prod = 0 /\ comp.cached_cons = 0
  BY <1>1, <1>2, <1>3 DEF EmptyRing, Records
<1>7. TxRoom(tx) /\ CompRoom(comp)
  BY <1>3, <1>4, <1>5, <1>6 DEF TxRoom, CompRoom
<1>8. On(g, 0, 0) = <<>>
  BY NoStretch
<1>9. Content(tx) = <<>> /\ Content(comp) = <<>> /\ Seen(comp) = <<>>
      /\ On(tx.ring, tx.producer, written) = <<>>
  BY <1>4, <1>5, <1>6, <1>8 DEF Content, Seen, RingsInit
<1>10. Apart(held, <<>>, <<>>, kernel, <<>>)
  BY DEF Apart, RingsInit, Once, ToSet
<1>11. written \in 0..Minus(tx.cached_prod, tx.producer)
  BY <1>4, <1>5 DEF RingsInit
<1>12. seen = Seen(comp)
  BY <1>9 DEF RingsInit
<1> QED
  BY <1>5, <1>6, <1>7, <1>9, <1>10, <1>11, <1>12 DEF RInv

LEMMA ReserveKept ==
  ASSUME RingAssumption, RInv, NEW nb \in Counts, xsk_ring_prod__reserve(nb)
  PROVE  RInv' /\ UNCHANGED <<held, kernel, Content(tx), Content(comp)>>
<1>1. PICK r \in Records : r = tx
  BY DEF RInv
<1>2. PICK z : z = tx'
  OBVIOUS
<1>3. PICK q : q = xsk_prod_nb_free(r, nb)
  OBVIOUS
<1>4. z = IF Minus(q.cached_cons, q.cached_prod) < nb THEN q ELSE [q EXCEPT !.cached_prod = Plus(@, nb)]
  BY <1>1, <1>2, <1>3 DEF xsk_ring_prod__reserve
<1>5. TxRoom(r) /\ nb \in 1..Size
  BY <1>1 DEF RInv, Counts
<1>6. /\ z \in Records /\ TxRoom(z) /\ Content(z) = Content(r) /\ z.ring = r.ring
      /\ z.producer = r.producer /\ z.consumer = r.consumer
      /\ Minus(r.cached_prod, r.producer) <= Minus(z.cached_prod, z.producer)
  <2>1. Reserves(r, z)
    BY <1>3, <1>4, <1>5, ReserveMoves
  <2> QED
    BY <2>1 DEF Reserves
<1>7. written \in 0..Minus(z.cached_prod, z.producer)
  <2>1. Minus(r.cached_prod, r.producer) \in Nat /\ Minus(z.cached_prod, z.producer) \in Nat
    BY <1>6, Distances DEF Records
  <2>2. written \in 0..Minus(r.cached_prod, r.producer)
    BY <1>1 DEF RInv
  <2> QED
    BY <1>6, <2>1, <2>2
<1>8. comp' = comp /\ held' = held /\ written' = written /\ kernel' = kernel /\ seen' = seen
  BY DEF xsk_ring_prod__reserve
<1> QED
  BY <1>1, <1>2, <1>6, <1>7, <1>8 DEF RInv

LEMMA WriteKept ==
  ASSUME RingAssumption, RInv, WriteDesc
  PROVE  RInv' /\ UNCHANGED <<held, kernel, Content(tx), Content(comp)>>
<1>1. PICK r \in Records : r = tx
  BY DEF RInv
<1>2. PICK q : q = tx'
  OBVIOUS
<1>3. PICK w : w = written
  OBVIOUS
<1>4. w \in 0..Minus(r.cached_prod, r.producer) /\ w < Minus(r.cached_prod, r.producer) /\ TxRoom(r)
  BY <1>1, <1>3 DEF WriteDesc, Reserved, RInv
<1>5. PICK f \in held \ ToSet(On(r.ring, r.producer, w)) :
        q = [r EXCEPT !.ring[(r.producer + w) % Size] = f]
  BY <1>1, <1>2, <1>3, IsOn DEF WriteDesc, Written
<1>6. f \in Frames
  BY <1>5 DEF RInv, Apart
<1>7. /\ q \in Records /\ TxRoom(q) /\ w + 1 \in 0..Minus(q.cached_prod, q.producer)
      /\ Content(q) = Content(r)
      /\ On(q.ring, q.producer, w + 1) = Append(On(r.ring, r.producer, w), f)
  <2>1. Writes(r, q, w, f)
    BY <1>4, <1>5, <1>6, WriteMoves
  <2> QED
    BY <2>1 DEF Writes
<1>8. comp' = comp /\ held' = held /\ written' = w + 1 /\ kernel' = kernel /\ seen' = seen
  BY <1>3 DEF WriteDesc
<1>9. Apart(held, Content(r), On(r.ring, r.producer, w), kernel, Content(comp))
  BY <1>1, <1>3 DEF RInv
<1>10. Apart(held, Content(r), Append(On(r.ring, r.producer, w), f), kernel, Content(comp))
  BY <1>5, <1>9, ApartWrite
<1>11. Apart(held, Content(q), On(q.ring, q.producer, w + 1), kernel, Content(comp))
  BY ONLY <1>7, <1>10, Zenon
<1> QED
  BY <1>1, <1>2, <1>7, <1>8, <1>11 DEF RInv

LEMMA SubmitKept ==
  ASSUME RingAssumption, RInv, NEW nb \in Counts, xsk_ring_prod__submit(nb)
  PROVE  /\ RInv'
         /\ \E s \in Seq(Frames) :
              /\ Once(s) /\ ToSet(s) \subseteq held /\ held' = held \ ToSet(s)
              /\ Content(tx)' = Content(tx) \o s
         /\ UNCHANGED <<kernel, Content(comp)>>
<1>1. PICK r \in Records : r = tx
  BY DEF RInv
<1>2. PICK q : q = tx'
  OBVIOUS
<1>3. PICK w : w = written
  OBVIOUS
<1>4. w \in 0..Minus(r.cached_prod, r.producer) /\ TxRoom(r) /\ nb \in 1..w
  BY <1>1, <1>3 DEF xsk_ring_prod__submit, RInv
<1>5. q = [r EXCEPT !.producer = Plus(@, nb)]
  BY <1>1, <1>2 DEF xsk_ring_prod__submit
<1>6. /\ q \in Records /\ TxRoom(q) /\ w - nb \in 0..Minus(q.cached_prod, q.producer)
      /\ Content(q) = Content(r) \o On(r.ring, r.producer, nb)
      /\ On(r.ring, r.producer, w) = On(r.ring, r.producer, nb) \o On(q.ring, q.producer, w - nb)
  <2>1. Submits(r, q, w, nb)
    BY <1>4, <1>5, SubmitMoves
  <2> QED
    BY <2>1 DEF Submits
<1>7. PICK s \in Seq(Frames) : s = On(r.ring, r.producer, nb)
  <2>1. r.ring \in Ring /\ r.producer \in Int /\ nb \in Nat
    BY Distances DEF Records, Counts
  <2> QED
    BY <2>1, Stretch
<1>8. PICK t \in Seq(Frames) : t = On(q.ring, q.producer, w - nb)
  <2>1. q.ring \in Ring /\ q.producer \in Int /\ w - nb \in Nat
    BY <1>6, Distances DEF Records
  <2>2. PICK m \in Nat : m = w - nb
    BY <2>1
  <2> QED
    BY <2>1, <2>2, Stretch
<1>9. /\ comp' = comp /\ held' = held \ ToSet(s) /\ written' = w - nb /\ kernel' = kernel /\ seen' = seen
  BY <1>1, <1>3, <1>7, IsOn DEF xsk_ring_prod__submit
<1>10. On(r.ring, r.producer, w) = s \o t
  BY ONLY <1>6, <1>7, <1>8, Zenon
<1>11. Apart(held, Content(r), s \o t, kernel, Content(comp))
  <2>1. Apart(held, Content(r), On(r.ring, r.producer, w), kernel, Content(comp))
    BY <1>1, <1>3 DEF RInv
  <2> QED
    BY ONLY <1>10, <2>1, Zenon
<1>12. Apart(held \ ToSet(s), Content(r) \o s, t, kernel, Content(comp))
  BY <1>11, ApartSubmit
<1>13. Content(q) = Content(r) \o s
  BY ONLY <1>6, <1>7, Zenon
<1>14. Apart(held', Content(q), On(q.ring, q.producer, w - nb), kernel', Content(comp))
  BY ONLY <1>8, <1>9, <1>12, <1>13, Zenon
<1>15. RInv'
  BY <1>2, <1>6, <1>9, <1>14 DEF RInv
<1>16. Once(s) /\ ToSet(s) \subseteq held
  <2>1. Once(s \o t) /\ ToSet(s \o t) \subseteq held
    BY <1>11 DEF Apart
  <2> QED
    BY <2>1, ConcatIs
<1> QED
  BY <1>1, <1>2, <1>9, <1>13, <1>15, <1>16

LEMMA TakeKept ==
  ASSUME RingAssumption, RInv, KernelTake
  PROVE  /\ RInv'
         /\ Content(tx) # <<>> /\ kernel' = kernel \cup {Head(Content(tx))}
         /\ Content(tx)' = Tail(Content(tx)) /\ UNCHANGED <<held, Content(comp)>>
<1>1. PICK r \in Records : r = tx
  BY DEF RInv
<1>2. PICK q : q = tx'
  OBVIOUS
<1>3. PICK w : w = written
  OBVIOUS
<1>4. w \in 0..Minus(r.cached_prod, r.producer) /\ TxRoom(r) /\ r.consumer # r.producer
  BY <1>1, <1>3 DEF KernelTake, RInv
<1>5. q = [r EXCEPT !.consumer = Plus(@, 1)]
  BY <1>1, <1>2 DEF KernelTake
<1>6. Takes(r, q, w)
  BY <1>4, <1>5, TakeMoves
<1>7. comp' = comp /\ held' = held /\ written' = w /\ seen' = seen /\ kernel' = kernel \cup {Cell(r, r.consumer)}
  BY <1>1, <1>3 DEF KernelTake
<1>8. Apart(held, Content(r), On(r.ring, r.producer, w), kernel, Content(comp)) /\ Content(r) # <<>>
  BY <1>1, <1>3, <1>6 DEF RInv, Takes
<1>9. Apart(held, Tail(Content(r)), On(r.ring, r.producer, w), kernel \cup {Head(Content(r))}, Content(comp))
  BY <1>8, ApartTake
<1>10. Apart(held, Content(q), On(q.ring, q.producer, w), kernel', Content(comp))
  BY ONLY <1>6, <1>7, <1>9, Zenon DEF Takes
<1>11. RInv'
  BY <1>2, <1>6, <1>7, <1>10 DEF RInv, Takes
<1> QED
  BY <1>1, <1>2, <1>6, <1>7, <1>11 DEF Takes

LEMMA CompleteKept ==
  ASSUME RingAssumption, RInv, NEW f \in Frames, KernelComplete(f)
  PROVE  /\ RInv' /\ f \in kernel /\ kernel' = kernel \ {f}
         /\ Content(comp)' = Append(Content(comp), f) /\ UNCHANGED <<held, Content(tx)>>
<1>1. PICK r \in Records : r = comp
  BY DEF RInv
<1>2. PICK q : q = comp'
  OBVIOUS
<1>3. CompRoom(r) /\ Minus(r.producer, r.consumer) < Size /\ f \in kernel
  BY <1>1 DEF KernelComplete, RInv
<1>4. Completed(r, q, f)
  BY <1>1, <1>2 DEF KernelComplete, Completed
<1>5. Completes(r, q, f)
  BY <1>3, <1>4, CompleteMoves
<1>6. tx' = tx /\ held' = held /\ written' = written /\ seen' = seen /\ kernel' = kernel \ {f}
  BY DEF KernelComplete
<1>7. PICK w : w = On(tx.ring, tx.producer, written)
  OBVIOUS
<1>8. Apart(held, Content(tx), w, kernel, Content(r))
  BY <1>1, <1>7 DEF RInv
<1>9. Apart(held, Content(tx), w, kernel \ {f}, Append(Content(r), f))
  BY <1>3, <1>8, ApartComplete
<1>10. Apart(held, Content(tx), w, kernel', Content(q))
  BY ONLY <1>5, <1>6, <1>9, Zenon DEF Completes
<1>11. seen = Seen(q)
  BY <1>1, <1>5 DEF RInv, Completes, Seen
<1>12. RInv'
  BY <1>2, <1>5, <1>6, <1>7, <1>10, <1>11 DEF RInv, Completes
<1> QED
  BY <1>1, <1>2, <1>3, <1>5, <1>6, <1>12 DEF Completes

LEMMA PeekKept ==
  ASSUME RingAssumption, RInv, NEW nb \in Counts, xsk_ring_cons__peek(nb)
  PROVE  RInv' /\ UNCHANGED <<held, kernel, Content(tx), Content(comp)>>
<1>1. PICK r \in Records : r = comp
  BY DEF RInv
<1>2. PICK q : q = comp'
  OBVIOUS
<1>3. CompRoom(r) /\ nb \in 1..Size
  BY <1>1 DEF RInv, Counts
<1>4. q = xsk_cons_nb_avail(r, nb)
  BY <1>1, <1>2 DEF xsk_ring_cons__peek
<1>5. Peeks(r, q)
  BY <1>3, <1>4, PeekMoves
<1>6. tx' = tx /\ held' = held /\ written' = written /\ kernel' = kernel
      /\ seen' = seen \o On(r.ring, r.cached_cons, Minus(q.cached_cons, r.cached_cons))
  BY <1>1, <1>2, IsOn DEF xsk_ring_cons__peek
<1>7. seen = Seen(r)
  BY <1>1 DEF RInv
<1>8. seen' = Seen(q)
  BY ONLY <1>5, <1>6, <1>7, Zenon DEF Peeks
<1> QED
  BY <1>1, <1>2, <1>5, <1>6, <1>8 DEF RInv, Peeks

LEMMA CancelKept ==
  ASSUME RingAssumption, RInv, NEW nb \in Counts, xsk_ring_cons__cancel(nb)
  PROVE  RInv' /\ UNCHANGED <<held, kernel, Content(tx), Content(comp)>>
<1>1. PICK r \in Records : r = comp
  BY DEF RInv
<1>2. PICK q : q = comp'
  OBVIOUS
<1>3. CompRoom(r) /\ nb \in 1..Minus(r.cached_cons, r.consumer)
  BY <1>1 DEF RInv, xsk_ring_cons__cancel, Peeked
<1>4. q = [r EXCEPT !.cached_cons = Minus(@, nb)]
  BY <1>1, <1>2 DEF xsk_ring_cons__cancel
<1>5. Cancels(r, q, nb)
  BY <1>3, <1>4, CancelMoves
<1>6. tx' = tx /\ held' = held /\ written' = written /\ kernel' = kernel
      /\ seen' = SubSeq(seen, 1, Len(seen) - nb)
  BY DEF xsk_ring_cons__cancel
<1>7. seen = Seen(r)
  BY <1>1 DEF RInv
<1>8. seen' = Seen(q)
  BY ONLY <1>5, <1>6, <1>7, Zenon DEF Cancels
<1> QED
  BY <1>1, <1>2, <1>5, <1>6, <1>8 DEF RInv, Cancels

LEMMA ReleaseKept ==
  ASSUME RingAssumption, RInv, NEW nb \in Counts, xsk_ring_cons__release(nb)
  PROVE  /\ RInv'
         /\ nb \in 1..Len(Content(comp))
         /\ held' = held \cup ToSet(SubSeq(Content(comp), 1, nb))
         /\ Content(comp)' = SubSeq(Content(comp), nb + 1, Len(Content(comp)))
         /\ UNCHANGED <<kernel, Content(tx)>>
<1>1. PICK r \in Records : r = comp
  BY DEF RInv
<1>2. PICK q : q = comp'
  OBVIOUS
<1>3. CompRoom(r) /\ nb \in 1..Minus(r.cached_cons, r.consumer)
  BY <1>1 DEF RInv, xsk_ring_cons__release, Peeked
<1>4. q = [r EXCEPT !.consumer = Plus(@, nb)]
  BY <1>1, <1>2 DEF xsk_ring_cons__release
<1>5. Releases(r, q, nb)
  BY <1>3, <1>4, ReleaseMoves
<1>6. PICK s \in Seq(Frames) :
        /\ Len(s) = nb /\ Seen(q) \in Seq(Frames) /\ Content(q) \in Seq(Frames)
        /\ Seen(r) = s \o Seen(q) /\ Content(r) = s \o Content(q)
  BY <1>5 DEF Releases
<1>7. PICK t \in Seq(Frames) : t = Seen(q)
  BY <1>6
<1>8. PICK u \in Seq(Frames) : u = Content(q)
  BY <1>6
<1>9. seen = s \o t
  BY <1>1, <1>6, <1>7 DEF RInv
<1>10. Len(s \o t) = nb + Len(t) /\ Len(s \o u) = nb + Len(u) /\ Len(t) \in Nat /\ Len(u) \in Nat /\ nb \in Nat
  <2>1. Len(s \o t) = Len(s) + Len(t) /\ Len(s \o u) = Len(s) + Len(u)
    OBVIOUS
  <2> QED
    BY <1>6, <2>1 DEF Counts
<1>11. SubSeq(s \o t, 1, Len(s)) = s /\ SubSeq(s \o t, Len(s) + 1, Len(s) + Len(t)) = t
  BY Split
<1>12. SubSeq(s \o u, 1, Len(s)) = s /\ SubSeq(s \o u, Len(s) + 1, Len(s) + Len(u)) = u
  BY Split
<1>13. /\ tx' = tx /\ written' = written /\ kernel' = kernel
       /\ held' = held \cup ToSet(SubSeq(seen, 1, nb)) /\ seen' = SubSeq(seen, nb + 1, Len(seen))
  BY DEF xsk_ring_cons__release
<1>14. held' = held \cup ToSet(s) /\ seen' = Seen(q)
  BY ONLY <1>6, <1>7, <1>9, <1>10, <1>11, <1>13, Zenon
<1>15. SubSeq(Content(r), 1, nb) = s /\ Content(q) = SubSeq(Content(r), nb + 1, Len(Content(r)))
  BY ONLY <1>6, <1>8, <1>10, <1>12, Zenon
<1>16. nb \in 1..Len(Content(r))
  <2>1. Len(Content(r)) = nb + Len(u)
    BY ONLY <1>6, <1>8, <1>10, Zenon
  <2>2. nb >= 1
    BY DEF Counts
  <2> QED
    BY <1>10, <2>1, <2>2
<1>17. PICK w : w = On(tx.ring, tx.producer, written)
  OBVIOUS
<1>18. Apart(held, Content(tx), w, kernel, s \o u)
  <2>1. Apart(held, Content(tx), w, kernel, Content(r))
    BY <1>1, <1>17 DEF RInv
  <2>2. Content(r) = s \o u
    BY ONLY <1>6, <1>8, Zenon
  <2> QED
    BY ONLY <2>1, <2>2, Zenon
<1>19. Apart(held \cup ToSet(s), Content(tx), w, kernel, u)
  BY <1>18, ApartRelease
<1>20. RInv'
  BY <1>2, <1>5, <1>8, <1>13, <1>14, <1>17, <1>19 DEF RInv, Releases
<1>21. held' = held \cup ToSet(SubSeq(Content(r), 1, nb))
  BY ONLY <1>14, <1>15, Zenon
<1> QED
  BY <1>1, <1>2, <1>13, <1>15, <1>16, <1>20, <1>21

LEMMA InRings == InTx = Content(tx) /\ InComp = Content(comp)
  BY IsOn DEF InTx, InComp, Content

(* The invariant says that every frame is at one place, and the rest. *)
LEMMA RInvIsSound ==
  ASSUME RingAssumption, RInv
  PROVE  RingsSound
<1>1. RingsTypeOK
  <2>1. \A r \in {tx, comp} : r \in Records
    BY DEF RInv
  <2>2. \A r \in Records : r.ring \in Ring /\ {r.producer, r.consumer, r.cached_prod, r.cached_cons} \subseteq Index
    BY DEF Records
  <2>3. held \subseteq Frames /\ kernel \subseteq Frames /\ written \in 0..Reserved
    BY DEF RInv, Apart, Reserved
  <2> QED
    BY <2>1, <2>2, <2>3 DEF RingsTypeOK, Ring, Index
<1>2. FramesOnce
  <2> SUFFICES ASSUME NEW f \in Frames
               PROVE  Cardinality({k \in DOMAIN InTx : InTx[k] = f})
                        + Cardinality({k \in DOMAIN InComp : InComp[k] = f})
                        + (IF f \in held THEN 1 ELSE 0) + (IF f \in kernel THEN 1 ELSE 0) = 1
    BY DEF FramesOnce
  <2>1. PICK S : S = InTx
    OBVIOUS
  <2>2. PICK D : D = InComp
    OBVIOUS
  <2>3. PICK w : Apart(held, S, w, kernel, D)
    BY <2>1, <2>2, InRings DEF RInv
  <2>4. Once(S) /\ Once(D)
    BY <2>3 DEF Apart
  <2>5. Cardinality({k \in DOMAIN S : S[k] = f}) = IF f \in ToSet(S) THEN 1 ELSE 0
    BY <2>4, CountOf
  <2>6. Cardinality({k \in DOMAIN D : D[k] = f}) = IF f \in ToSet(D) THEN 1 ELSE 0
    BY <2>4, CountOf
  <2>7. (IF f \in ToSet(S) THEN 1 ELSE 0) + (IF f \in ToSet(D) THEN 1 ELSE 0)
          + (IF f \in held THEN 1 ELSE 0) + (IF f \in kernel THEN 1 ELSE 0) = 1
    BY <2>3 DEF Apart
  <2> QED
    BY <2>1, <2>2, <2>5, <2>6, <2>7
<1>3. CopiesAreSafe
  <2>1. PICK r \in Records : r = tx
    BY DEF RInv
  <2>2. PICK q \in Records : q = comp
    BY DEF RInv
  <2>3. Minus(r.cached_prod, r.consumer) <= Size
    <3>1. r.producer \in Index /\ r.consumer \in Index /\ r.cached_prod \in Index /\ r.cached_cons \in Index
      BY DEF Records
    <3>2. /\ Minus(r.producer, r.consumer) \in Nat /\ Minus(r.cached_prod, r.producer) \in Nat
          /\ Minus(r.cached_cons, r.cached_prod) \in Nat /\ Size \in Nat /\ Wrap \in Nat /\ Size < Wrap
      BY <3>1, Distances
    <3>3. Minus(r.producer, r.consumer) + Minus(r.cached_prod, r.producer)
            + Minus(r.cached_cons, r.cached_prod) <= Size
      BY <2>1 DEF RInv, TxRoom
    <3>4. Minus(r.cached_prod, r.producer) + Minus(r.producer, r.consumer) < Wrap
      BY <3>2, <3>3
    <3>5. Minus(r.cached_prod, r.consumer) = Minus(r.cached_prod, r.producer) + Minus(r.producer, r.consumer)
      BY <3>1, <3>4, Chain
    <3> QED
      BY <3>2, <3>3, <3>5
  <2>4. Minus(q.cached_cons, q.consumer) <= Minus(q.producer, q.consumer)
    <3>1. q.producer \in Index /\ q.consumer \in Index /\ q.cached_prod \in Index /\ q.cached_cons \in Index
      BY DEF Records
    <3>2. /\ Minus(q.cached_cons, q.consumer) \in Nat /\ Minus(q.cached_prod, q.cached_cons) \in Nat
          /\ Minus(q.producer, q.cached_prod) \in Nat /\ Size \in Nat /\ Wrap \in Nat /\ Size < Wrap
      BY <3>1, Distances
    <3>3. Minus(q.cached_cons, q.consumer) + Minus(q.cached_prod, q.cached_cons)
            + Minus(q.producer, q.cached_prod) <= Size
      BY <2>2 DEF RInv, CompRoom
    <3>4. Minus(q.cached_prod, q.cached_cons) + Minus(q.cached_cons, q.consumer) < Wrap
      BY <3>2, <3>3
    <3>5. Minus(q.cached_prod, q.consumer) = Minus(q.cached_prod, q.cached_cons) + Minus(q.cached_cons, q.consumer)
      BY <3>1, <3>4, Chain
    <3>6. Minus(q.producer, q.cached_prod) + Minus(q.cached_prod, q.consumer) < Wrap
      BY <3>2, <3>3, <3>5
    <3>7. Minus(q.producer, q.consumer) = Minus(q.producer, q.cached_prod) + Minus(q.cached_prod, q.consumer)
      BY <3>1, <3>6, Chain
    <3> QED
      BY <3>2, <3>5, <3>7
  <2> QED
    BY <2>1, <2>2, <2>3, <2>4 DEF CopiesAreSafe
<1>4. PeekedStays
  BY IsOn DEF RInv, PeekedStays, Peeked, Seen
<1> QED
  BY <1>1, <1>2, <1>3, <1>4 DEF RingsSound

LEMMA RInvKept ==
  ASSUME RingAssumption, RInv, [RingsNext]_ringsVars
  PROVE  RInv'
<1>1. CASE Sending
  BY <1>1, ReserveKept, WriteKept DEF Sending
<1>2. CASE Submitting
  BY <1>2, SubmitKept DEF Submitting
<1>3. CASE Peeking
  BY <1>3, PeekKept DEF Peeking
<1>4. CASE Releasing
  BY <1>4, ReleaseKept DEF Releasing
<1>5. CASE KernelSends
  BY <1>5, TakeKept, CompleteKept DEF KernelSends
<1>6. CASE \E nb \in Counts : xsk_ring_cons__cancel(nb)
  BY <1>6, CancelKept
<1>7. CASE UNCHANGED ringsVars
  BY <1>7 DEF ringsVars, RInv
<1> QED
  BY <1>1, <1>2, <1>3, <1>4, <1>5, <1>6, <1>7 DEF RingsNext

(* The rings of xsk.h are sound wherever the indices wrap: every frame is  *)
(* at one place, the copies promise no more than there is, and what was    *)
(* peeked stays until it is released.                                      *)
THEOREM RingsAreSound ==
  ASSUME RingAssumption
  PROVE  RingsSpec => []RingsSound
<1>1. RingsInit => RInv
  BY StartsRight
<1>2. RInv /\ [RingsNext]_ringsVars => RInv'
  BY RInvKept
<1>3. RInv => RingsSound
  BY RInvIsSound
<1> QED
  BY <1>1, <1>2, <1>3, PTL DEF RingsSpec

(***************************************************************************)
(* The rings implement two queues.  The program's submit is a step of the  *)
(* queue to the kernel, its release one of the queue back; what it does    *)
(* with its copies is not seen.                                            *)
(***************************************************************************)
Same == UNCHANGED <<held, kernel, Content(tx), Content(comp)>>

LEMMA SameIsStutter ==
  ASSUME Same
  PROVE  UNCHANGED Promise!vars
<1>1. InTx' = InTx /\ InComp' = InComp
  BY IsOn DEF Same, InTx, InComp, Content
<1> QED
  BY <1>1 DEF Same, Promise!vars

LEMMA StepIsPromised ==
  ASSUME RingAssumption, RInv, [RingsNext]_ringsVars
  PROVE  [Promise!Next]_(Promise!vars)
<1>1. InTx = Content(tx) /\ InTx' = Content(tx)' /\ InComp = Content(comp) /\ InComp' = Content(comp)'
  BY IsOn DEF InTx, InComp, Content
<1>2. CASE Sending
  <2>1. Same
    BY <1>2, ReserveKept, WriteKept DEF Sending, Same
  <2> QED
    BY <2>1, SameIsStutter
<1>3. CASE Submitting
  <2>1. PICK nb \in Counts : xsk_ring_prod__submit(nb)
    BY <1>3 DEF Submitting
  <2>2. PICK s \in Seq(Frames) :
          /\ Once(s) /\ ToSet(s) \subseteq held /\ held' = held \ ToSet(s)
          /\ Content(tx)' = Content(tx) \o s
    BY <2>1, SubmitKept
  <2>3. UNCHANGED <<kernel, Content(comp)>>
    BY <2>1, SubmitKept
  <2>4. s \in SetToSeqs(ToSet(s)) /\ ToSet(s) \in SUBSET held
    BY <2>2, AsMany
  <2>5. s \in Promise!SetToSeqs(ToSet(s))
    <3>1. Promise!Cardinality(ToSet(s)) = Cardinality(ToSet(s))
      BY DEF Promise!Cardinality, Cardinality
    <3> QED
      BY <2>4, <3>1 DEF Promise!SetToSeqs, SetToSeqs
  <2>6. InTx' = InTx \o s /\ UNCHANGED <<kernel, InComp>>
    BY <1>1, <2>2, <2>3
  <2>7. Promise!Send
    BY <2>2, <2>4, <2>5, <2>6 DEF Promise!Send
  <2> QED
    BY <2>7 DEF Promise!Next
<1>4. CASE Peeking
  <2>1. Same
    BY <1>4, PeekKept DEF Peeking, Same
  <2> QED
    BY <2>1, SameIsStutter
<1>5. CASE Releasing
  <2>1. PICK nb \in Counts : xsk_ring_cons__release(nb)
    BY <1>5 DEF Releasing
  <2>2. /\ nb \in 1..Len(Content(comp))
        /\ held' = held \cup ToSet(SubSeq(Content(comp), 1, nb))
        /\ Content(comp)' = SubSeq(Content(comp), nb + 1, Len(Content(comp)))
        /\ UNCHANGED <<kernel, Content(tx)>>
    BY <2>1, ReleaseKept
  <2>3. Promise!ToSet(SubSeq(Content(comp), 1, nb)) = ToSet(SubSeq(Content(comp), 1, nb))
    BY DEF Promise!ToSet, ToSet
  <2>4. Promise!Collect
    BY <1>1, <2>2, <2>3 DEF Promise!Collect
  <2> QED
    BY <2>4 DEF Promise!Next
<1>6. CASE KernelTake
  <2>1. /\ Content(tx) # <<>> /\ kernel' = kernel \cup {Head(Content(tx))}
        /\ Content(tx)' = Tail(Content(tx)) /\ UNCHANGED <<held, Content(comp)>>
    BY <1>6, TakeKept
  <2>2. Promise!Take
    BY <1>1, <2>1 DEF Promise!Take
  <2> QED
    BY <2>2 DEF Promise!Next
<1>7. CASE \E f \in Frames : KernelComplete(f)
  <2>1. PICK f \in Frames : KernelComplete(f)
    BY <1>7
  <2>2. /\ f \in kernel /\ kernel' = kernel \ {f}
        /\ Content(comp)' = Append(Content(comp), f) /\ UNCHANGED <<held, Content(tx)>>
    BY <2>1, CompleteKept
  <2>3. Promise!Complete
    BY <1>1, <2>2 DEF Promise!Complete
  <2> QED
    BY <2>3 DEF Promise!Next
<1>8. CASE \E nb \in Counts : xsk_ring_cons__cancel(nb)
  <2>1. Same
    BY <1>8, CancelKept DEF Same
  <2> QED
    BY <2>1, SameIsStutter
<1>9. CASE UNCHANGED ringsVars
  BY <1>9, SameIsStutter DEF ringsVars, Same
<1> QED
  BY <1>2, <1>3, <1>4, <1>5, <1>6, <1>7, <1>8, <1>9 DEF RingsNext, KernelSends

LEMMA StartIsPromised ==
  ASSUME RingAssumption, RingsInit
  PROVE  Promise!Init
<1>1. RInv
  BY StartsRight
<1>2. Content(tx) \in Seq(Frames) /\ Content(comp) \in Seq(Frames) /\ held = Frames /\ kernel = {}
      /\ held \cap ToSet(Content(tx)) = {} /\ held \cap ToSet(Content(comp)) = {}
  BY <1>1 DEF RInv, Apart, RingsInit
<1>3. ASSUME NEW s \in Seq(Frames), Frames \cap ToSet(s) = {} PROVE s = <<>>
  <2>1. Len(s) \in Nat /\ DOMAIN s = 1..Len(s) /\ \A i \in 1..Len(s) : s[i] \in Frames /\ s[i] \in ToSet(s)
    BY DEF ToSet
  <2>2. Len(s) = 0
    <3>1. ~(1 \in 1..Len(s))
      BY <1>3, <2>1
    <3> QED
      BY <2>1, <3>1
  <2> QED
    BY <2>2, EmptySeq
<1>4. InTx = <<>> /\ InComp = <<>>
  BY <1>2, <1>3, InRings
<1> QED
  BY <1>2, <1>4 DEF Promise!Init

(* The four indices and the copies of xsk.h behave as two queues: frames   *)
(* come out in the order they went in, none lost, repeated or overtaken.   *)
THEOREM QueuesAreImplemented ==
  ASSUME RingAssumption
  PROVE  RingsSpec => ImplementsQueues
<1>1. RingsInit => RInv /\ Promise!Init
  BY StartsRight, StartIsPromised
<1>2. RInv /\ [RingsNext]_ringsVars => RInv'
  BY RInvKept
<1>3. RInv /\ [RingsNext]_ringsVars => [Promise!Next]_(Promise!vars)
  BY StepIsPromised
<1> QED
  BY <1>1, <1>2, <1>3, PTL DEF RingsSpec, ImplementsQueues, Promise!Spec

-----------------------------------------------------------------------------
(***************************************************************************)
(* Sockets: the table of descriptors, and who relies on which of them.     *)
(***************************************************************************)
LEMMA LeastIsIn ==
  ASSUME NEW S \in SUBSET Nat, S # {}
  PROVE  Min(S) \in S
<1> DEFINE R == OpToRel(<, Nat)
<1>1. PICK x \in S : \A y \in S : ~(<<y, x>> \in R)
  BY NatLessThanWellFounded, WFMin
<1>2. \A a \in Nat, b \in Nat : <<b, a>> \in R <=> b < a
  BY DEF OpToRel
<1>3. \A y \in S : ~(y < x)
  BY <1>1, <1>2
<1>4. \A y \in S : x <= y
  BY <1>3
<1> QED
  BY <1>4 DEF Min

Unopened(table) == {n \in Fds : table[n] = FreeFd}

(* What was open stays what it was. *)
Keeps(table, new) == DOMAIN new = Fds /\ \A n \in Fds : table[n] # FreeFd => new[n] = table[n]

LEMMA UnopenedFinite ==
  ASSUME XskAssumption, NEW table
  PROVE  IsFiniteSet(Unopened(table)) /\ Cardinality(Unopened(table)) \in Nat
<1>1. Unopened(table) \subseteq Fds
  BY DEF Unopened
<1> QED
  BY <1>1, FS_Subset, FS_CardinalityType DEF XskAssumption

LEMMA LowestUnopened ==
  ASSUME XskAssumption, NEW table, NEW k \in Nat \ {0}, CanOpen(table, k)
  PROVE  Lowest(table) \in Fds /\ table[Lowest(table)] = FreeFd
<1>1. Unopened(table) \in SUBSET Nat
  BY DEF Unopened, XskAssumption
<1>2. Unopened(table) # {}
  <2>1. Cardinality(Unopened(table)) >= k
    BY DEF CanOpen, Unopened
  <2>2. SUFFICES ASSUME Unopened(table) = {} PROVE FALSE
    OBVIOUS
  <2> QED
    BY <2>1, <2>2, FS_EmptySet
<1>4. Min(Unopened(table)) \in Unopened(table)
  BY <1>1, <1>2, LeastIsIn
<1> QED
  BY <1>4 DEF Lowest, Unopened

LEMMA Opened ==
  ASSUME XskAssumption, NEW table, DOMAIN table = Fds, NEW k \in Nat, CanOpen(table, k + 1),
         NEW what, what # FreeFd
  PROVE  LET n == Lowest(table)
             new == OpenFd(table, what)
         IN  /\ n \in Fds /\ table[n] = FreeFd /\ new[n] = what
             /\ Keeps(table, new) /\ CanOpen(new, k)
             /\ \A m \in Fds \ {n} : new[m] = table[m]
<1>1. PICK n : n = Lowest(table)
  OBVIOUS
<1>2. n \in Fds /\ table[n] = FreeFd
  BY <1>1, LowestUnopened
<1>3. PICK new : new = OpenFd(table, what)
  OBVIOUS
<1>4. new = [table EXCEPT ![n] = what]
  BY <1>1, <1>3 DEF OpenFd
<1>5. /\ new[n] = what /\ DOMAIN new = Fds
      /\ \A m \in Fds \ {n} : new[m] = table[m]
  BY <1>2, <1>4
<1>6. Keeps(table, new)
  BY <1>2, <1>5 DEF Keeps
<1>7. Unopened(new) = Unopened(table) \ {n}
  BY <1>2, <1>5 DEF Unopened
<1>8. Cardinality(Unopened(new)) = Cardinality(Unopened(table)) - 1
  <2>1. IsFiniteSet(Unopened(table)) /\ n \in Unopened(table)
    BY <1>2, UnopenedFinite DEF Unopened
  <2> QED
    BY <1>7, <2>1, FS_RemoveElement
<1>9. CanOpen(new, k)
  <2>1. Cardinality(Unopened(table)) >= k + 1
    BY DEF CanOpen, Unopened
  <2>2. Cardinality(Unopened(new)) >= k
    BY <2>1, <1>8, UnopenedFinite
  <2> QED
    BY <2>2 DEF CanOpen, Unopened
<1> QED
  BY <1>1, <1>2, <1>3, <1>5, <1>6, <1>9

LEMMA Closed ==
  ASSUME NEW table, NEW t1, DOMAIN table = Fds, Keeps(table, t1), NEW nums,
         \A n \in nums : n \in Fds => table[n] = FreeFd
  PROVE  Keeps(table, CloseFds(t1, nums))
  BY DEF Keeps, CloseFds

LEMMA KeepsTwice ==
  ASSUME NEW a, NEW b, NEW c, Keeps(a, b), Keeps(b, c)
  PROVE  Keeps(a, c)
  BY DEF Keeps

-----------------------------------------------------------------------------
Contexts == [refcount : Nat, prog : Fds \cup {Nothing}, map : Fds \cup {Nothing}]

SocketDomains ==
  /\ DOMAIN fd = Fds
  /\ umem \in [open : BOOLEAN, fd : Fds \cup {Nothing}, refcount : Nat, saved : BOOLEAN]
  /\ ctx \in [Queues -> Contexts]
  /\ xsk \in [Sockets -> [queue : Queues \cup {Nothing}, fd : Fds \cup {Nothing}]]
  /\ progs \in 0..MaxProgs /\ attached \in 0..progs
  /\ xskmap \in [1..MaxProgs -> [Queues -> Sockets \cup {Nothing}]]

(* Who relies on which number.  *)
UmemIsOpen == umem.open => umem.fd \in Fds /\ fd[umem.fd] = <<"umem", Nothing>>
SocketIsOpen(s) == xsk[s].fd = umem.fd \/ (xsk[s].fd \in Fds /\ fd[xsk[s].fd] = <<"sock", s>>)
Programmed(q) == ctx[q].refcount > 0 /\ ctx[q].prog # Nothing
Relies(c, table, p) ==
  /\ c.prog \in Fds /\ table[c.prog] = <<"prog", p>>
  /\ c.map \in Fds /\ table[c.map] = <<"map", p>>
CtxIsOpen(q) == Programmed(q) => \E p \in 1..progs : Relies(ctx[q], fd, p)
ProgramsDiffer(c, d) == c.prog # d.prog /\ c.map # d.map
CtxsApart == \A q, r \in Queues : Programmed(q) /\ Programmed(r) /\ q # r => ProgramsDiffer(ctx[q], ctx[r])

(* Without sharing the program of the interface gives packets of a queue   *)
(* to its socket, whose context has that program's map.                    *)
Alone == \A s, t \in LiveXsk : xsk[s].queue = xsk[t].queue => s = t
Entered(q, s) ==
  /\ s \in LiveXsk /\ xsk[s].queue = q /\ Programmed(q)
  /\ ctx[q].map \in Fds /\ fd[ctx[q].map] = <<"map", attached>>
MapOfAttached ==
  attached # Nothing => \A q \in Queues, s \in Sockets : xskmap[attached][q] = s => Entered(q, s)
MapsToCome == \A p \in 1..MaxProgs : p > progs => \A q \in Queues : xskmap[p][q] = Nothing

RelyInv ==
  /\ UmemIsOpen /\ (\A s \in LiveXsk : SocketIsOpen(s)) /\ (\A q \in Queues : CtxIsOpen(q)) /\ CtxsApart
  /\ Alone /\ MapOfAttached /\ MapsToCome

SocketsInv == SocketDomains /\ CountsCover /\ RelyInv

-----------------------------------------------------------------------------
(* What is common to all outcomes, what a failure leaves, and what a       *)
(* success has opened.                                                     *)
AnyOutcome(o, table, c) ==
  /\ o.c \in Contexts /\ o.c.refcount = c.refcount /\ Keeps(table, o.fd)
  /\ o.progs \in progs..MaxProgs /\ o.attached \in 0..o.progs
  /\ o.xskmap \in [1..MaxProgs -> [Queues -> Sockets \cup {Nothing}]]
FailedOutcome(o) == o.xskmap = xskmap /\ (o.attached = attached \/ o.attached = Nothing)
SetUp(o, table, q, s) ==
  /\ o.attached # Nothing
  /\ Relies(o.c, o.fd, o.attached) /\ table[o.c.prog] = FreeFd /\ table[o.c.map] = FreeFd
  /\ o.xskmap \in InMap(o.attached, q, s)
  /\ o.attached = attached \/ (attached = Nothing /\ o.attached = progs + 1 /\ o.progs = progs + 1)

LEMMA EntersMap ==
  ASSUME SocketDomains, NEW q \in Queues, NEW s \in Sockets, NEW p \in 1..MaxProgs,
         NEW m \in InMap(p, q, s)
  PROVE  m \in [1..MaxProgs -> [Queues -> Sockets \cup {Nothing}]]
<1>1. xskmap \in [1..MaxProgs -> [Queues -> Sockets \cup {Nothing}]]
  BY DEF SocketDomains
<1>2. m = xskmap \/ m = [xskmap EXCEPT ![p] = [xskmap[p] EXCEPT ![q] = s]]
  BY <1>1 DEF InMap
<1> QED
  BY <1>1, <1>2

LEMMA NewProgram ==
  ASSUME XskAssumption, SocketDomains, attached = Nothing,
         NEW q \in Queues, NEW s \in Sockets,
         NEW table, DOMAIN table = Fds, CanOpen(table, 2), NEW c \in Contexts,
         NEW o \in SetUpNew(table, c, q, s)
  PROVE  /\ AnyOutcome(o, table, c)
         /\ IF o.ok THEN SetUp(o, table, q, s) ELSE FailedOutcome(o)
<1> DEFINE p == progs + 1
           c1 == [c EXCEPT !.map = Lowest(table)]
           t1 == OpenFd(table, <<"map", p>>)
           c2 == [c1 EXCEPT !.prog = Lowest(t1)]
           t2 == OpenFd(t1, <<"prog", p>>)
<1>1. progs \in 0..MaxProgs /\ MaxProgs \in Nat /\ attached \in 0..progs
      /\ xskmap \in [1..MaxProgs -> [Queues -> Sockets \cup {Nothing}]]
  BY DEF SocketDomains, XskAssumption
<1>2. progs # MaxProgs
      /\ \/ \E m \in InMap(p, q, s) : o = Outcome(TRUE, c2, t2, p, p, m)
         \/ o = Outcome(FALSE, c1, table, progs, Nothing, xskmap)
         \/ o = Outcome(FALSE, c2, table, p, Nothing, xskmap)
  BY DEF SetUpNew
<1>3. p \in 1..MaxProgs
  BY <1>1, <1>2
<1>4. /\ Lowest(table) \in Fds /\ table[Lowest(table)] = FreeFd /\ t1[Lowest(table)] = <<"map", p>>
      /\ Keeps(table, t1) /\ CanOpen(t1, 1)
      /\ \A m \in Fds \ {Lowest(table)} : t1[m] = table[m]
  BY Opened, <<"map", p>> # FreeFd DEF FreeFd
<1>5. /\ Lowest(t1) \in Fds /\ t1[Lowest(t1)] = FreeFd /\ t2[Lowest(t1)] = <<"prog", p>>
      /\ Keeps(t1, t2)
      /\ \A m \in Fds \ {Lowest(t1)} : t2[m] = t1[m]
  <2>1. DOMAIN t1 = Fds /\ CanOpen(t1, 0 + 1) /\ <<"prog", p>> # FreeFd
    BY <1>4 DEF Keeps, FreeFd
  <2> QED
    BY <2>1, Opened
<1>6. Keeps(table, t2)
  BY <1>4, <1>5, KeepsTwice
<1>7. c1 \in Contexts /\ c1.refcount = c.refcount /\ c1.map = Lowest(table)
  BY <1>4 DEF Contexts
<1>8. c2 \in Contexts /\ c2.refcount = c.refcount /\ c2.map = Lowest(table) /\ c2.prog = Lowest(t1)
  BY <1>5, <1>7 DEF Contexts
<1>9. Lowest(t1) # Lowest(table) /\ table[Lowest(t1)] = FreeFd /\ t2[Lowest(table)] = <<"map", p>>
  <2>1. t1[Lowest(table)] # FreeFd
    BY <1>4 DEF FreeFd
  <2> QED
    BY <2>1, <1>4, <1>5
<1>10. Keeps(table, table)
  BY DEF Keeps
<1>11. CASE \E m \in InMap(p, q, s) : o = Outcome(TRUE, c2, t2, p, p, m)
  <2>1. PICK m \in InMap(p, q, s) : o = Outcome(TRUE, c2, t2, p, p, m)
    BY <1>11
  <2>2. m \in [1..MaxProgs -> [Queues -> Sockets \cup {Nothing}]]
    BY <1>3, EntersMap
  <2>3. o.ok /\ o.c = c2 /\ o.fd = t2 /\ o.progs = p /\ o.attached = p /\ o.xskmap = m
    BY <2>1 DEF Outcome
  <2> HIDE DEF c1, c2, t1, t2
  <2>4. AnyOutcome(o, table, c)
    BY <2>2, <2>3, <1>1, <1>3, <1>6, <1>8 DEF AnyOutcome
  <2>5. Relies(o.c, o.fd, o.attached)
    BY <2>3, <1>4, <1>5, <1>8, <1>9 DEF Relies
  <2>6. o.xskmap \in InMap(o.attached, q, s) /\ o.attached = progs + 1 /\ o.progs = progs + 1
    BY <2>3
  <2>7. o.attached # Nothing
    BY <2>6, <1>1 DEF Nothing
  <2>8. table[o.c.prog] = FreeFd /\ table[o.c.map] = FreeFd
    BY <2>3, <1>4, <1>8, <1>9
  <2>9. SetUp(o, table, q, s)
    BY <2>5, <2>6, <2>7, <2>8 DEF SetUp
  <2> QED
    BY <2>3, <2>4, <2>9
<1>12. CASE o = Outcome(FALSE, c1, table, progs, Nothing, xskmap)
  <2>3. ~o.ok /\ o.c = c1 /\ o.fd = table /\ o.progs = progs /\ o.attached = Nothing /\ o.xskmap = xskmap
    BY <1>12 DEF Outcome
  <2> QED
    BY <2>3, <1>1, <1>7, <1>10 DEF AnyOutcome, FailedOutcome, Nothing
<1>13. CASE o = Outcome(FALSE, c2, table, p, Nothing, xskmap)
  <2>3. ~o.ok /\ o.c = c2 /\ o.fd = table /\ o.progs = p /\ o.attached = Nothing /\ o.xskmap = xskmap
    BY <1>13 DEF Outcome
  <2> HIDE DEF c1, c2, t1, t2
  <2> QED
    BY <2>3, <1>10, <1>1, <1>3, <1>8 DEF AnyOutcome, FailedOutcome, Nothing
<1> QED
  BY <1>2, <1>11, <1>12, <1>13

LEMMA AttachedProgram ==
  ASSUME XskAssumption, SocketDomains, attached # Nothing,
         NEW q \in Queues, NEW s \in Sockets,
         NEW table, DOMAIN table = Fds, CanOpen(table, 2), NEW c \in Contexts,
         NEW o \in SetUpAttached(table, c, q, s)
  PROVE  /\ AnyOutcome(o, table, c)
         /\ IF o.ok THEN SetUp(o, table, q, s) ELSE FailedOutcome(o)
<1> DEFINE p == attached
           c1 == [c EXCEPT !.prog = Lowest(table)]
           t1 == OpenFd(table, <<"prog", p>>)
           c2 == [c1 EXCEPT !.map = Lowest(t1)]
           t2 == OpenFd(t1, <<"map", p>>)
           c3 == [c1 EXCEPT !.map = Nothing]
           t3 == CloseFds(t2, {c1.prog})
<1>1. progs \in 0..MaxProgs /\ MaxProgs \in Nat /\ attached \in 0..progs
      /\ xskmap \in [1..MaxProgs -> [Queues -> Sockets \cup {Nothing}]]
  BY DEF SocketDomains, XskAssumption
<1>2. \/ \E m \in InMap(p, q, s) : o = Outcome(TRUE, c2, t2, progs, p, m)
      \/ o = Outcome(FALSE, c3, table, progs, p, xskmap)
      \/ o = Outcome(FALSE, c2, t3, progs, p, xskmap)
  BY DEF SetUpAttached
<1>3. p \in 1..MaxProgs
  BY <1>1 DEF Nothing
<1>4. /\ Lowest(table) \in Fds /\ table[Lowest(table)] = FreeFd /\ t1[Lowest(table)] = <<"prog", p>>
      /\ Keeps(table, t1) /\ CanOpen(t1, 1)
      /\ \A m \in Fds \ {Lowest(table)} : t1[m] = table[m]
  BY Opened, <<"prog", p>> # FreeFd DEF FreeFd
<1>5. /\ Lowest(t1) \in Fds /\ t1[Lowest(t1)] = FreeFd /\ t2[Lowest(t1)] = <<"map", p>>
      /\ Keeps(t1, t2)
      /\ \A m \in Fds \ {Lowest(t1)} : t2[m] = t1[m]
  <2>1. DOMAIN t1 = Fds /\ CanOpen(t1, 0 + 1) /\ <<"map", p>> # FreeFd
    BY <1>4 DEF Keeps, FreeFd
  <2> QED
    BY <2>1, Opened
<1>6. Keeps(table, t2)
  BY <1>4, <1>5, KeepsTwice
<1>7. c1 \in Contexts /\ c1.refcount = c.refcount /\ c1.prog = Lowest(table)
  BY <1>4 DEF Contexts
<1>8. c2 \in Contexts /\ c2.refcount = c.refcount /\ c2.prog = Lowest(table) /\ c2.map = Lowest(t1)
  BY <1>5, <1>7 DEF Contexts
<1>9. Lowest(t1) # Lowest(table) /\ table[Lowest(t1)] = FreeFd /\ t2[Lowest(table)] = <<"prog", p>>
  <2>1. t1[Lowest(table)] # FreeFd
    BY <1>4 DEF FreeFd
  <2> QED
    BY <2>1, <1>4, <1>5
<1>10. Keeps(table, table)
  BY DEF Keeps
<1>11. CASE \E m \in InMap(p, q, s) : o = Outcome(TRUE, c2, t2, progs, p, m)
  <2>1. PICK m \in InMap(p, q, s) : o = Outcome(TRUE, c2, t2, progs, p, m)
    BY <1>11
  <2>2. m \in [1..MaxProgs -> [Queues -> Sockets \cup {Nothing}]]
    BY <1>3, EntersMap
  <2>3. o.ok /\ o.c = c2 /\ o.fd = t2 /\ o.progs = progs /\ o.attached = p /\ o.xskmap = m
    BY <2>1 DEF Outcome
  <2> HIDE DEF c1, c2, t1, t2
  <2>4. AnyOutcome(o, table, c)
    BY <2>2, <2>3, <1>1, <1>3, <1>6, <1>8 DEF AnyOutcome
  <2>5. Relies(o.c, o.fd, o.attached)
    BY <2>3, <1>4, <1>5, <1>8, <1>9 DEF Relies
  <2>6. SetUp(o, table, q, s)
    BY ZenonT(40), <2>1, <2>3, <2>5, <1>1, <1>3, <1>4, <1>8, <1>9 DEF SetUp, Nothing
  <2> QED
    BY <2>3, <2>4, <2>6
<1>12. CASE o = Outcome(FALSE, c3, table, progs, p, xskmap)
  <2>3. ~o.ok /\ o.c = c3 /\ o.fd = table /\ o.progs = progs /\ o.attached = p /\ o.xskmap = xskmap
    BY <1>12 DEF Outcome
  <2>4. c3 \in Contexts /\ c3.refcount = c.refcount
    BY <1>7 DEF Contexts
  <2> QED
    BY <2>3, <2>4, <1>1, <1>10 DEF AnyOutcome, FailedOutcome, Nothing
<1>13. CASE o = Outcome(FALSE, c2, t3, progs, p, xskmap)
  <2>3. ~o.ok /\ o.c = c2 /\ o.fd = t3 /\ o.progs = progs /\ o.attached = p /\ o.xskmap = xskmap
    BY <1>13 DEF Outcome
  <2>4. Keeps(table, t3)
    <3> HIDE DEF t2, c1, t1
    <3> QED
      BY <1>4, <1>6, <1>7, Closed
  <2> HIDE DEF c1, c2, t1, t2, t3
  <2> QED
    BY <2>3, <2>4, <1>1, <1>3, <1>8 DEF AnyOutcome, FailedOutcome, Nothing
<1> QED
  BY <1>2, <1>11, <1>12, <1>13

LEMMA SetUpOutcomes ==
  ASSUME XskAssumption, SocketDomains, NEW q \in Queues, NEW s \in Sockets,
         NEW table, DOMAIN table = Fds, CanOpen(table, 2), NEW c \in Contexts,
         NEW o \in setup_xdp_prog(table, c, q, s)
  PROVE  /\ AnyOutcome(o, table, c)
         /\ IF o.ok THEN SetUp(o, table, q, s) ELSE FailedOutcome(o)
<1>1. CASE o = Outcome(FALSE, c, table, progs, attached, xskmap)
  <2>1. ~o.ok /\ o.c = c /\ o.fd = table /\ o.progs = progs /\ o.attached = attached /\ o.xskmap = xskmap
    BY <1>1 DEF Outcome
  <2>2. progs \in 0..MaxProgs /\ attached \in 0..progs /\ MaxProgs \in Nat
        /\ xskmap \in [1..MaxProgs -> [Queues -> Sockets \cup {Nothing}]]
    BY DEF SocketDomains, XskAssumption
  <2> QED
    BY <2>1, <2>2 DEF AnyOutcome, FailedOutcome, Keeps
<1>2. CASE attached = Nothing /\ o \in SetUpNew(table, c, q, s)
  BY <1>2, NewProgram
<1>3. CASE attached # Nothing /\ o \in SetUpAttached(table, c, q, s)
  BY <1>3, AttachedProgram
<1> QED
  BY <1>1, <1>2, <1>3 DEF setup_xdp_prog

-----------------------------------------------------------------------------
(* The context a call works on, and the table with the new socket in it.   *)
LEMMA ContextsOfCalls ==
  ASSUME SocketDomains, NEW q \in Queues
  PROVE  /\ GotCtx(q) \in Contexts /\ GotCtx(q).refcount = ctx[q].refcount + 1
         /\ Bound(q) \in Contexts /\ Bound(q).refcount = ctx[q].refcount + 1
         /\ Bound(q).prog = Nothing
<1>1. ctx[q] \in Contexts
  BY DEF SocketDomains
<1>2. GotCtx(q) \in Contexts /\ GotCtx(q).refcount = ctx[q].refcount + 1
  BY <1>1 DEF GotCtx, NoCtx, Contexts, Nothing
<1>3. PICK c \in Contexts : c = GotCtx(q)
  BY <1>2
<1> QED
  BY <1>2, <1>3 DEF Bound, Contexts, Nothing

LEMMA PutBack ==
  ASSUME NEW c \in Contexts, c.refcount # 0
  PROVE  /\ PutCtx(c) \in Contexts /\ PutCtx(c).refcount = c.refcount - 1
         /\ c.refcount = 1 => PutCtx(c) = NoCtx
  BY DEF PutCtx, NoCtx, Contexts, Nothing

LEMMA FewerCanBeOpened ==
  ASSUME XskAssumption, NEW table, CanOpen(table, 3)
  PROVE  CanOpen(table, 2)
<1>1. Cardinality(Unopened(table)) \in Nat /\ Cardinality(Unopened(table)) >= 3
  BY UnopenedFinite DEF CanOpen, Unopened
<1>2. Cardinality(Unopened(table)) >= 2
  BY <1>1
<1> QED
  BY <1>2 DEF CanOpen, Unopened

LEMMA NewSocket ==
  ASSUME XskAssumption, SocketDomains, NEW s \in Sockets, NEW q \in Queues, CanCreate(s, q)
  PROVE  /\ DOMAIN WithSocket(s) = Fds /\ Keeps(fd, WithSocket(s)) /\ CanOpen(WithSocket(s), 2)
         /\ SocketFd \in Fds \cup {Nothing}
         /\ IF umem.refcount > 0
            THEN /\ SocketFd \in Fds /\ fd[SocketFd] = FreeFd /\ WithSocket(s)[SocketFd] = <<"sock", s>>
            ELSE SocketFd = umem.fd
<1>1. DOMAIN fd = Fds /\ umem.fd \in Fds \cup {Nothing} /\ CanOpen(fd, 3)
  BY DEF SocketDomains, CanCreate
<1>2. CASE umem.refcount > 0
  <2>1. WithSocket(s) = OpenFd(fd, <<"sock", s>>) /\ SocketFd = Lowest(fd)
    BY <1>2 DEF WithSocket, SocketFd
  <2>2. <<"sock", s>> # FreeFd /\ CanOpen(fd, 2 + 1)
    BY <1>1 DEF FreeFd
  <2>3. /\ Lowest(fd) \in Fds /\ fd[Lowest(fd)] = FreeFd /\ OpenFd(fd, <<"sock", s>>)[Lowest(fd)] = <<"sock", s>>
        /\ Keeps(fd, OpenFd(fd, <<"sock", s>>)) /\ CanOpen(OpenFd(fd, <<"sock", s>>), 2)
    BY <1>1, <2>2, Opened
  <2> QED
    BY <1>2, <2>1, <2>3 DEF Keeps
<1>3. CASE ~(umem.refcount > 0)
  BY <1>1, <1>3, FewerCanBeOpened DEF WithSocket, SocketFd, Keeps
<1> QED
  BY <1>2, <1>3

LEMMA AbandonKeeps ==
  ASSUME XskAssumption, SocketDomains, NEW s \in Sockets, NEW q \in Queues, CanCreate(s, q),
         NEW table, Keeps(WithSocket(s), table)
  PROVE  Keeps(fd, Abandon(table, SocketFd))
<1>1. Keeps(fd, table)
  BY NewSocket, KeepsTwice
<1>2. CASE umem.refcount = 0
  BY <1>1, <1>2 DEF Abandon
<1>3. CASE umem.refcount # 0
  <2>1. umem.refcount > 0
    BY <1>3 DEF SocketDomains
  <2>2. fd[SocketFd] = FreeFd /\ DOMAIN fd = Fds
    BY <2>1, NewSocket DEF SocketDomains
  <2>3. Keeps(fd, CloseFds(table, {SocketFd}))
    BY <1>1, <2>2, Closed
  <2> QED
    BY <1>3, <2>3 DEF Abandon
<1> QED
  BY <1>2, <1>3

-----------------------------------------------------------------------------
(* Counting: contexts and the UMEM, whether queues are shared or not.      *)
CountInv == SocketDomains /\ CountsCover
Users(q) == {s \in LiveXsk : xsk[s].queue = q}

LEMMA UsersFinite ==
  ASSUME XskAssumption
  PROVE  /\ IsFiniteSet(LiveXsk) /\ Cardinality(LiveXsk) \in Nat
         /\ \A q : IsFiniteSet(Users(q)) /\ Cardinality(Users(q)) \in Nat
<1>1. LiveXsk \subseteq Sockets /\ \A q : Users(q) \subseteq Sockets
  BY DEF LiveXsk, Users
<1> QED
  BY <1>1, FS_Subset, FS_CardinalityType DEF XskAssumption

LEMMA SameCounts ==
  ASSUME CountsCover, xsk' = xsk, SocketDomains, SocketDomains',
         \A q \in Queues : ctx'[q].refcount = ctx[q].refcount,
         umem'.refcount >= umem.refcount, umem.open => umem'.open, NEW n \in Nat, n = Cardinality(LiveXsk)
  PROVE  CountsCover'
<1>1. LiveXsk' = LiveXsk /\ \A q \in Queues : {s \in LiveXsk' : xsk'[s].queue = q} = {s \in LiveXsk : xsk[s].queue = q}
  BY DEF LiveXsk
<1>2. umem'.refcount \in Nat /\ umem.refcount \in Nat
  BY DEF SocketDomains
<1>3. umem.refcount >= n /\ (LiveXsk # {} => umem.open)
      /\ \A q \in Queues : ctx[q].refcount = Cardinality({s \in LiveXsk : xsk[s].queue = q})
  BY DEF CountsCover
<1>4. umem'.refcount >= Cardinality(LiveXsk')
  BY <1>1, <1>2, <1>3
<1>5. LiveXsk' # {} => umem'.open
  BY <1>1, <1>3
<1>6. \A q \in Queues : ctx'[q].refcount = Cardinality({s \in LiveXsk' : xsk'[s].queue = q})
  BY <1>1, <1>3
<1> QED
  BY <1>4, <1>5, <1>6 DEF CountsCover

LEMMA CreateCounts ==
  ASSUME XskAssumption, CountInv, NEW s \in Sockets, NEW q \in Queues, Create(s, q)
  PROVE  CountInv'
<1>1. PICK o \in setup_xdp_prog(WithSocket(s), Bound(q), q, s)
                 \cup {Outcome(TRUE, Bound(q), WithSocket(s), progs, attached, xskmap)} :
        /\ fd' = o.fd /\ ctx' = [ctx EXCEPT ![q] = o.c]
        /\ progs' = o.progs /\ attached' = o.attached /\ xskmap' = o.xskmap
  BY DEF Create
<1>2. /\ SocketDomains /\ CanCreate(s, q)
      /\ umem' = [umem EXCEPT !.refcount = @ + 1, !.saved = @ /\ ~TakesSaved(q)]
      /\ xsk' = [xsk EXCEPT ![s] = [queue |-> q, fd |-> SocketFd]]
  BY DEF CountInv, Create
<1>3. AnyOutcome(o, WithSocket(s), Bound(q))
  <2>1. CASE o = Outcome(TRUE, Bound(q), WithSocket(s), progs, attached, xskmap)
    <3>1. /\ o.c = Bound(q) /\ o.fd = WithSocket(s) /\ o.progs = progs /\ o.attached = attached
          /\ o.xskmap = xskmap
      BY <2>1 DEF Outcome
    <3>2. progs \in 0..MaxProgs /\ attached \in 0..progs /\ MaxProgs \in Nat
          /\ xskmap \in [1..MaxProgs -> [Queues -> Sockets \cup {Nothing}]]
      BY <1>2 DEF SocketDomains, XskAssumption
    <3> QED
      BY <1>2, <3>1, <3>2, ContextsOfCalls, NewSocket DEF AnyOutcome, Keeps
  <2>2. CASE o \in setup_xdp_prog(WithSocket(s), Bound(q), q, s)
    BY <1>2, <2>2, SetUpOutcomes, ContextsOfCalls, NewSocket
  <2> QED
    BY <1>1, <2>1, <2>2
<1>4. /\ o.c \in Contexts /\ o.c.refcount = ctx[q].refcount + 1 /\ DOMAIN o.fd = Fds
      /\ o.progs \in progs..MaxProgs /\ o.attached \in 0..o.progs
      /\ o.xskmap \in [1..MaxProgs -> [Queues -> Sockets \cup {Nothing}]]
  BY <1>2, <1>3, ContextsOfCalls DEF AnyOutcome, Keeps
<1>5. SocketFd \in Fds \cup {Nothing}
  BY <1>2, NewSocket
<1>6. SocketDomains'
  <2>1. umem' \in [open : BOOLEAN, fd : Fds \cup {Nothing}, refcount : Nat, saved : BOOLEAN]
    <3>1. PICK takes \in BOOLEAN : takes = TakesSaved(q)
      BY DEF TakesSaved
    <3>2. umem' = [umem EXCEPT !.refcount = @ + 1, !.saved = @ /\ ~takes]
      BY <1>2, <3>1
    <3>3. umem \in [open : BOOLEAN, fd : Fds \cup {Nothing}, refcount : Nat, saved : BOOLEAN]
      BY <1>2 DEF SocketDomains
    <3>4. PICK one : one = [umem EXCEPT !.refcount = @ + 1]
      OBVIOUS
    <3>5. one \in [open : BOOLEAN, fd : Fds \cup {Nothing}, refcount : Nat, saved : BOOLEAN]
      BY <3>3, <3>4
    <3>6. umem' = [one EXCEPT !.saved = one.saved /\ ~takes]
      BY <3>2, <3>3, <3>4
    <3>7. PICK saved \in BOOLEAN : saved = (one.saved /\ ~takes)
      BY <3>5
    <3> QED
      BY <3>5, <3>6, <3>7
  <2>2. ctx' \in [Queues -> Contexts]
    BY <1>1, <1>2, <1>4 DEF SocketDomains
  <2>3. xsk' \in [Sockets -> [queue : Queues \cup {Nothing}, fd : Fds \cup {Nothing}]]
    BY <1>2, <1>5 DEF SocketDomains
  <2>4. progs' \in 0..MaxProgs /\ attached' \in 0..progs'
    BY <1>1, <1>2, <1>4 DEF SocketDomains
  <2> QED
    BY <1>1, <1>4, <2>1, <2>2, <2>3, <2>4 DEF SocketDomains
<1>7. s \notin LiveXsk /\ LiveXsk' = LiveXsk \cup {s} /\ umem.open
  BY <1>2 DEF LiveXsk, CanCreate, NoXsk, SocketDomains, XskAssumption, Nothing
<1>8. \A r \in Queues : Users(r)' = IF r = q THEN Users(r) \cup {s} ELSE Users(r)
  BY <1>2, <1>7 DEF Users, LiveXsk, SocketDomains
<1>9. Cardinality(LiveXsk') = Cardinality(LiveXsk) + 1
  BY <1>7, UsersFinite, FS_AddElement
<1>10. Cardinality(Users(q)') = Cardinality(Users(q)) + 1
  <2>1. s \notin Users(q) /\ Users(q)' = Users(q) \cup {s}
    BY <1>7, <1>8 DEF Users
  <2> QED
    BY <2>1, UsersFinite, FS_AddElement
<1>11. umem'.refcount = umem.refcount + 1 /\ umem'.open /\ umem.refcount \in Nat
  BY <1>2, <1>7 DEF SocketDomains
<1>12. ctx'[q].refcount = ctx[q].refcount + 1 /\ \A r \in Queues \ {q} : ctx'[r] = ctx[r]
  BY <1>1, <1>2, <1>4 DEF SocketDomains
<1>13. umem.refcount >= Cardinality(LiveXsk) /\ \A r \in Queues : ctx[r].refcount = Cardinality(Users(r))
  BY DEF CountInv, CountsCover, Users
<1>14. umem'.refcount >= Cardinality(LiveXsk')
  BY <1>9, <1>11, <1>13, UsersFinite
<1>15. \A r \in Queues : ctx'[r].refcount = Cardinality(Users(r)')
  BY <1>8, <1>10, <1>12, <1>13
<1> QED
  BY <1>6, <1>11, <1>14, <1>15 DEF CountInv, CountsCover, Users

LEMMA DeleteCounts ==
  ASSUME XskAssumption, CountInv, NEW s \in Sockets, SocketDelete(s)
  PROVE  CountInv'
<1>1. PICK q \in Queues : q = xsk[s].queue
  BY DEF SocketDelete, LiveXsk, CountInv, SocketDomains
<1>2. /\ SocketDomains /\ s \in LiveXsk /\ fd' = CloseFds(fd, Closes(s))
      /\ ctx' = [ctx EXCEPT ![q] = PutCtx(ctx[q])]
      /\ umem' = [umem EXCEPT !.refcount = @ - 1]
      /\ xsk' = [xsk EXCEPT ![s] = NoXsk]
      /\ UNCHANGED <<progs, attached>>
      /\ xskmap' = [p \in 1..MaxProgs |-> [k \in Queues |->
              IF \/ ctx[q].prog # Nothing /\ ctx[q].map # Nothing /\ fd[ctx[q].map] = <<"map", p>> /\ k = q
                 \/ xsk[s].fd # umem.fd /\ xskmap[p][k] = s
              THEN Nothing ELSE xskmap[p][k]]]
  BY <1>1 DEF SocketDelete, CountInv
<1>3. s \in Users(q)
  BY <1>1, <1>2 DEF Users
<1>4. umem.refcount >= Cardinality(LiveXsk) /\ (\A r \in Queues : ctx[r].refcount = Cardinality(Users(r))) /\ umem.open
  BY <1>2 DEF CountInv, CountsCover, Users
<1>5. LiveXsk' = LiveXsk \ {s} /\ \A r \in Queues : Users(r)' = IF r = q THEN Users(r) \ {s} ELSE Users(r)
  BY <1>1, <1>2 DEF LiveXsk, Users, NoXsk, SocketDomains
<1>6. Cardinality(LiveXsk') = Cardinality(LiveXsk) - 1 /\ Cardinality(Users(q)') = Cardinality(Users(q)) - 1
  BY ZenonT(40), <1>2, <1>3, <1>5, UsersFinite, FS_RemoveElement
<1>7. Cardinality(LiveXsk) # 0 /\ Cardinality(Users(q)) # 0
  BY <1>2, <1>3, UsersFinite, FS_EmptySet
<1>8. umem.refcount \in Nat /\ umem.refcount # 0 /\ ctx[q] \in Contexts /\ ctx[q].refcount # 0
  BY <1>2, <1>4, <1>7, UsersFinite DEF SocketDomains
<1>9. PutCtx(ctx[q]) \in Contexts /\ PutCtx(ctx[q]).refcount = ctx[q].refcount - 1
  BY <1>8, PutBack
<1>10. SocketDomains'
  <2>1. umem' \in [open : BOOLEAN, fd : Fds \cup {Nothing}, refcount : Nat, saved : BOOLEAN]
    BY SMTT(30), <1>2, <1>8 DEF SocketDomains
  <2>2. ctx' \in [Queues -> Contexts]
    BY <1>2, <1>9 DEF SocketDomains
  <2>3. xsk' \in [Sockets -> [queue : Queues \cup {Nothing}, fd : Fds \cup {Nothing}]]
    BY <1>2 DEF SocketDomains, NoXsk
  <2>4. xskmap' \in [1..MaxProgs -> [Queues -> Sockets \cup {Nothing}]]
    BY <1>2 DEF SocketDomains
  <2>5. DOMAIN fd' = Fds
    BY <1>2 DEF CloseFds
  <2> QED
    BY <1>2, <2>1, <2>2, <2>3, <2>4, <2>5 DEF SocketDomains
<1>11. umem'.refcount = umem.refcount - 1 /\ umem'.open
  BY <1>2, <1>4 DEF SocketDomains
<1>12. ctx'[q].refcount = ctx[q].refcount - 1 /\ \A r \in Queues \ {q} : ctx'[r] = ctx[r]
  BY <1>2, <1>9 DEF SocketDomains
<1>13. umem'.refcount >= Cardinality(LiveXsk')
  BY <1>4, <1>6, <1>8, <1>11, UsersFinite
<1>14. \A r \in Queues : ctx'[r].refcount = Cardinality(Users(r)')
  BY <1>4, <1>5, <1>6, <1>12
<1> QED
  BY <1>10, <1>11, <1>13, <1>14 DEF CountInv, CountsCover, Users

(* A creation that fails: what it leaves in the table was not there before, *)
(* and no context counts it.                                               *)
CreationFailed(q) ==
  /\ Keeps(fd, fd') /\ xsk' = xsk
  /\ umem'.open = umem.open /\ umem'.fd = umem.fd
  /\ \A r \in Queues : ctx'[r] = ctx[r] \/ r = q
  /\ ctx[q].refcount = 0 => ctx'[q].refcount = 0
  /\ progs' >= progs /\ xskmap' = xskmap /\ (attached' = attached \/ attached' = Nothing)

LEMMA FailedCounts ==
  ASSUME XskAssumption, CountInv, NEW s \in Sockets, NEW q \in Queues,
         CreateFailsEarly(s, q) \/ CreateFailsLate(s, q) \/ NoSocketFd(s, q)
  PROVE  CountInv' /\ CreationFailed(q)
<1>1. /\ SocketDomains /\ CountsCover /\ CanCreate(s, q) /\ xsk' = xsk
      /\ umem \in [open : BOOLEAN, fd : Fds \cup {Nothing}, refcount : Nat, saved : BOOLEAN]
      /\ ctx \in [Queues -> Contexts]
      /\ xskmap \in [1..MaxProgs -> [Queues -> Sockets \cup {Nothing}]]
      /\ progs \in 0..MaxProgs /\ attached \in 0..progs
  BY DEF CountInv, CreateFailsEarly, CreateFailsLate, NoSocketFd, SocketDomains
<1> SUFFICES /\ CreationFailed(q)
             /\ umem' \in [open : BOOLEAN, fd : Fds \cup {Nothing}, refcount : Nat, saved : BOOLEAN]
             /\ umem'.refcount >= umem.refcount
             /\ ctx' \in [Queues -> Contexts] /\ ctx'[q].refcount = ctx[q].refcount
             /\ progs' \in 0..MaxProgs /\ attached' \in 0..progs'
  <2>2. SocketDomains'
    BY <1>1 DEF SocketDomains, CreationFailed, Keeps
  <2>3. \A r \in Queues : ctx'[r].refcount = ctx[r].refcount
    BY DEF CreationFailed
  <2>4. CountsCover'
    BY <1>1, <2>2, <2>3, SameCounts, UsersFinite DEF CreationFailed
  <2> QED
    BY <2>2, <2>4 DEF CountInv
<1>2. CASE NoSocketFd(s, q)
  <2>1. /\ umem' = [umem EXCEPT !.refcount = @ + 1]
        /\ UNCHANGED <<fd, ctx, progs, attached, xskmap>>
    BY <1>2 DEF NoSocketFd
  <2>2. /\ umem' \in [open : BOOLEAN, fd : Fds \cup {Nothing}, refcount : Nat, saved : BOOLEAN]
        /\ umem'.refcount = umem.refcount + 1 /\ umem'.open = umem.open /\ umem'.fd = umem.fd
    BY <1>1, <2>1
  <2>3. Keeps(fd, fd')
    BY <1>1, <2>1 DEF Keeps, SocketDomains
  <2>4. progs' >= progs /\ umem'.refcount >= umem.refcount
    BY <1>1, <2>1, <2>2
  <2> QED
    BY <1>1, <2>1, <2>2, <2>3, <2>4 DEF CreationFailed
<1>3. Bound(q) \in Contexts /\ Bound(q).refcount = ctx[q].refcount + 1 /\ GotCtx(q) \in Contexts
      /\ GotCtx(q).refcount = ctx[q].refcount + 1 /\ ctx[q].refcount \in Nat
  BY <1>1, ContextsOfCalls DEF Contexts
<1>4. CASE CreateFailsEarly(s, q)
  <2>1. Keeps(fd, fd')
    <3>1. Keeps(WithSocket(s), WithSocket(s)) /\ fd' = Abandon(WithSocket(s), SocketFd)
      BY <1>1, <1>4, NewSocket DEF Keeps, CreateFailsEarly
    <3> QED
      BY <1>1, <3>1, AbandonKeeps
  <2>2. PutCtx(GotCtx(q)) \in Contexts /\ PutCtx(GotCtx(q)).refcount = ctx[q].refcount
    BY <1>3, PutBack
  <2>3. progs' = progs /\ attached' = attached /\ xskmap' = xskmap
    BY <1>4 DEF CreateFailsEarly
  <2>4. CASE UNCHANGED <<umem, ctx>>
    <3>1. progs' >= progs /\ umem'.refcount >= umem.refcount
      BY <1>1, <2>3, <2>4
    <3> QED
      BY <1>1, <2>1, <2>3, <2>4, <3>1 DEF CreationFailed
  <2>5. CASE /\ ctx' = [ctx EXCEPT ![q] = PutCtx(GotCtx(q))]
             /\ umem' = [umem EXCEPT !.saved = @ /\ ~TakesSaved(q)]
    <3>1. /\ umem'.open = umem.open /\ umem'.fd = umem.fd /\ umem'.refcount = umem.refcount
          /\ umem' \in [open : BOOLEAN, fd : Fds \cup {Nothing}, refcount : Nat, saved : BOOLEAN]
      BY <1>1, <2>5 DEF TakesSaved
    <3>2. ctx' \in [Queues -> Contexts] /\ ctx'[q].refcount = ctx[q].refcount /\ \A r \in Queues : ctx'[r] = ctx[r] \/ r = q
      BY <1>1, <2>2, <2>5
    <3> QED
      BY <1>1, <2>1, <2>3, <3>1, <3>2 DEF CreationFailed
  <2> QED
    BY <1>4, <2>4, <2>5 DEF CreateFailsEarly
<1>5. CASE CreateFailsLate(s, q)
  <2>1. PICK o \in setup_xdp_prog(WithSocket(s), Bound(q), q, s) :
           /\ ~o.ok
           /\ fd' = Abandon(o.fd, SocketFd)
           /\ ctx' = [ctx EXCEPT ![q] = PutCtx(o.c)]
           /\ umem' = [umem EXCEPT !.saved = @ /\ ~TakesSaved(q)]
           /\ progs' = o.progs /\ attached' = o.attached /\ xskmap' = o.xskmap
    BY <1>5 DEF CreateFailsLate
  <2>2. AnyOutcome(o, WithSocket(s), Bound(q)) /\ FailedOutcome(o)
    BY <1>1, <1>3, <2>1, SetUpOutcomes, NewSocket
  <2>3. o.c \in Contexts /\ o.c.refcount = ctx[q].refcount + 1 /\ Keeps(WithSocket(s), o.fd)
    BY <1>3, <2>2 DEF AnyOutcome
  <2>4. Keeps(fd, fd')
    BY <1>1, <2>1, <2>3, AbandonKeeps
  <2>5. PutCtx(o.c) \in Contexts /\ PutCtx(o.c).refcount = ctx[q].refcount
    BY <1>3, <2>3, PutBack
  <2>6. ctx' \in [Queues -> Contexts] /\ ctx'[q].refcount = ctx[q].refcount /\ \A r \in Queues : ctx'[r] = ctx[r] \/ r = q
    BY <1>1, <2>1, <2>5
  <2>7. /\ umem'.open = umem.open /\ umem'.fd = umem.fd /\ umem'.refcount = umem.refcount
        /\ umem' \in [open : BOOLEAN, fd : Fds \cup {Nothing}, refcount : Nat, saved : BOOLEAN]
    BY <1>1, <2>1 DEF TakesSaved
  <2>8. /\ progs' \in 0..MaxProgs /\ attached' \in 0..progs' /\ progs' >= progs
        /\ xskmap' = xskmap /\ (attached' = attached \/ attached' = Nothing)
    BY <1>1, <2>1, <2>2 DEF AnyOutcome, FailedOutcome
  <2> QED
    BY <1>1, <2>4, <2>6, <2>7, <2>8 DEF CreationFailed
<1> QED
  BY <1>2, <1>4, <1>5

(* Nobody has a socket: the UMEM is made or deleted. *)
LEMMA UmemCounts ==
  ASSUME XskAssumption, CountInv, UmemCreate \/ UmemDelete
  PROVE  CountInv'
<1>1. /\ SocketDomains /\ CountsCover
      /\ UNCHANGED <<ctx, xsk, progs, attached, xskmap>>
  BY DEF CountInv, UmemCreate, UmemDelete
<1>2. LiveXsk' = LiveXsk /\ \A q \in Queues : {s \in LiveXsk' : xsk'[s].queue = q} = {s \in LiveXsk : xsk[s].queue = q}
  BY <1>1 DEF LiveXsk
<1>3. SocketDomains' /\ (UNCHANGED umem \/ (LiveXsk = {} /\ umem'.refcount = 0))
  <2>1. CASE UmemCreate
    <3>1. CanOpen(fd, 0 + 1) /\ <<"umem", Nothing>> # FreeFd
      BY <2>1 DEF UmemCreate, FreeFd
    <3>2. Lowest(fd) \in Fds /\ DOMAIN fd' = Fds
      BY <1>1, <2>1, <3>1, Opened DEF UmemCreate, SocketDomains, Keeps
    <3> QED
      BY <1>1, <2>1, <3>2 DEF UmemCreate, SocketDomains
  <2>2. CASE UmemDelete /\ umem.refcount # 0
    BY <1>1, <2>2 DEF UmemDelete, SocketDomains
  <2>3. CASE UmemDelete /\ umem.refcount = 0
    <3>1. umem' = NoUmem /\ fd' = CloseFds(fd, {umem.fd})
      BY <2>3 DEF UmemDelete
    <3>2. Cardinality(LiveXsk) = 0
      BY <1>1, <2>3, UsersFinite DEF CountsCover
    <3>3. LiveXsk = {}
      BY <3>2, UsersFinite, FS_EmptySet
    <3> QED
      BY <1>1, <3>1, <3>3 DEF SocketDomains, NoUmem, CloseFds, Nothing
  <2> QED
    BY <2>1, <2>2, <2>3
<1>4. umem'.refcount >= Cardinality(LiveXsk') /\ (LiveXsk' # {} => umem'.open)
  BY <1>1, <1>2, <1>3, FS_EmptySet DEF CountsCover
<1> QED
  BY <1>1, <1>2, <1>3, <1>4 DEF CountInv, CountsCover

LEMMA OtherCounts ==
  ASSUME XskAssumption, CountInv, OtherUmemCreate \/ Detached \/ UNCHANGED socketVars
  PROVE  /\ CountInv' /\ Keeps(fd, fd') /\ UNCHANGED <<umem, ctx, xsk, progs, xskmap>>
         /\ attached' = attached \/ attached' = Nothing
<1>1. /\ SocketDomains /\ CountsCover /\ UNCHANGED <<umem, ctx, xsk, progs, xskmap>>
      /\ attached' = attached \/ attached' = Nothing
  BY DEF CountInv, OtherUmemCreate, Detached, socketVars
<1>2. Keeps(fd, fd')
  <2>1. CASE OtherUmemCreate
    <3>1. CanOpen(fd, 0 + 1) /\ OtherUmem # FreeFd /\ fd' = OpenFd(fd, OtherUmem)
      BY <2>1 DEF OtherUmemCreate, FreeFd, OtherUmem
    <3> QED
      BY <1>1, <3>1, Opened DEF SocketDomains
  <2>2. CASE Detached \/ UNCHANGED socketVars
    BY <1>1, <2>2 DEF Detached, socketVars, Keeps, SocketDomains
  <2> QED
    BY <2>1, <2>2
<1>3. SocketDomains'
  BY <1>1, <1>2 DEF SocketDomains, Keeps, Nothing
<1>4. CountsCover'
  BY <1>1 DEF CountsCover, LiveXsk
<1> QED
  BY <1>1, <1>2, <1>3, <1>4 DEF CountInv

LEMMA CountsKept ==
  ASSUME XskAssumption, CountInv, [SocketsNext]_socketVars
  PROVE  CountInv'
  BY UmemCounts, OtherCounts, CreateCounts, DeleteCounts, FailedCounts DEF SocketsNext

LEMMA CountsStart ==
  ASSUME XskAssumption, SocketsInit
  PROVE  CountInv
<1>1. SocketDomains
  BY DEF SocketsInit, SocketDomains, NoUmem, NoCtx, NoXsk, Contexts, Nothing, XskAssumption
<1>2. LiveXsk = {} /\ \A q \in Queues : {s \in LiveXsk : xsk[s].queue = q} = {} /\ ctx[q].refcount = 0
  BY DEF SocketsInit, LiveXsk, NoXsk, NoCtx
<1>3. umem.refcount = 0
  BY DEF SocketsInit, NoUmem
<1> QED
  BY <1>1, <1>2, <1>3, FS_EmptySet DEF CountInv, CountsCover

(* A context lives as long as sockets use it and the UMEM outlives them,   *)
(* also when several sockets share a queue.                                *)
THEOREM SocketsAreCounted ==
  ASSUME XskAssumption
  PROVE  SocketsSpec => []CountsCover
<1>1. SocketsInit => CountInv
  BY CountsStart
<1>2. CountInv /\ [SocketsNext]_socketVars => CountInv'
  BY CountsKept
<1>3. CountInv => CountsCover
  BY DEF CountInv
<1> QED
  BY <1>1, <1>2, <1>3, PTL DEF SocketsSpec

-----------------------------------------------------------------------------
(* Who relies on what, when no queue is shared.                            *)
LEMMA OneUser ==
  ASSUME XskAssumption, CountInv, Alone, NEW s \in LiveXsk
  PROVE  xsk[s].queue \in Queues /\ ctx[xsk[s].queue].refcount = 1
<1>1. xsk[s].queue \in Queues
  BY DEF CountInv, SocketDomains, LiveXsk
<1>2. Users(xsk[s].queue) = {s}
  BY DEF Users, Alone
<1>3. Cardinality(Users(xsk[s].queue)) = 1
  BY <1>2, FS_Singleton
<1> QED
  BY <1>1, <1>3 DEF CountInv, CountsCover, Users

LEMMA NoUser ==
  ASSUME XskAssumption, CountInv, NEW q \in Queues, \A t \in LiveXsk : xsk[t].queue # q
  PROVE  ctx[q].refcount = 0
<1>1. Users(q) = {}
  BY DEF Users
<1>2. Cardinality(Users(q)) = 0
  BY <1>1, FS_EmptySet
<1> QED
  BY <1>2 DEF CountInv, CountsCover, Users

(* Nothing that anybody relies on changes. *)
LEMMA QuietKeeps ==
  ASSUME CountInv, CountInv', RelyInv, Keeps(fd, fd'), xsk' = xsk, umem'.open = umem.open, umem'.fd = umem.fd,
         \A q \in Queues : ctx'[q] = ctx[q] \/ (ctx[q].refcount = 0 /\ ctx'[q].refcount = 0),
         progs' >= progs, xskmap' = xskmap, attached' = attached \/ attached' = Nothing
  PROVE  RelyInv'
<1>1. LiveXsk' = LiveXsk
  BY DEF LiveXsk
<1>2. \A q \in Queues : Programmed(q)' = Programmed(q) /\ (Programmed(q) => ctx'[q] = ctx[q])
  BY DEF Programmed
<1>3. progs \in Nat /\ progs' \in Nat
  BY DEF CountInv, SocketDomains
<1>4. UmemIsOpen'
  BY DEF RelyInv, UmemIsOpen, Keeps, FreeFd
<1>5. ASSUME NEW s \in LiveXsk' PROVE SocketIsOpen(s)'
  BY <1>1 DEF RelyInv, SocketIsOpen, Keeps, FreeFd
<1>6. ASSUME NEW q \in Queues PROVE CtxIsOpen(q)'
  <2>1. SUFFICES ASSUME Programmed(q) PROVE \E p \in 1..progs' : Relies(ctx[q], fd', p)
    BY <1>2 DEF CtxIsOpen
  <2>2. PICK p \in 1..progs : Relies(ctx[q], fd, p)
    BY <2>1 DEF RelyInv, CtxIsOpen
  <2>3. Relies(ctx[q], fd', p) /\ p \in 1..progs'
    BY <2>2, <1>3 DEF Relies, Keeps, FreeFd
  <2> QED
    BY <2>3
<1>7. CtxsApart'
  BY <1>2 DEF RelyInv, CtxsApart
<1>8. Alone'
  BY <1>1 DEF RelyInv, Alone
<1>9. MapOfAttached'
  <2>1. SUFFICES ASSUME attached' # Nothing, NEW q \in Queues, NEW s \in Sockets,
                        xskmap[attached][q] = s, attached' = attached
                 PROVE  Entered(q, s)'
    BY DEF MapOfAttached
  <2>2. Entered(q, s)
    BY <2>1 DEF RelyInv, MapOfAttached
  <2> QED
    BY <2>1, <2>2, <1>1, <1>2 DEF Entered, Keeps, FreeFd
<1>10. MapsToCome'
  BY <1>3 DEF RelyInv, MapsToCome, CountInv, SocketDomains
<1> QED
  BY <1>4, <1>5, <1>6, <1>7, <1>8, <1>9, <1>10 DEF RelyInv

LEMMA UmemKeeps ==
  ASSUME XskAssumption, CountInv, RelyInv, UmemCreate \/ UmemDelete
  PROVE  RelyInv'
<1>1. UNCHANGED <<ctx, xsk, progs, attached, xskmap>> /\ LiveXsk' = LiveXsk
  BY DEF UmemCreate, UmemDelete, LiveXsk
<1>2. CASE UmemDelete /\ umem.refcount # 0
  <2>1. UNCHANGED <<umem, fd>>
    BY <1>2 DEF UmemDelete
  <2>2. CountInv' /\ Keeps(fd, fd') /\ progs' >= progs
    BY <1>1, <1>2, <2>1, UmemCounts DEF Keeps, CountInv, SocketDomains
  <2> QED
    BY <1>1, <2>1, <2>2, QuietKeeps
<1>3. CASE ~(UmemDelete /\ umem.refcount # 0)
  <2>1. LiveXsk = {}
    <3>1. CASE UmemCreate
      BY <3>1 DEF UmemCreate
    <3>2. CASE UmemDelete /\ umem.refcount = 0
      <4>1. Cardinality(LiveXsk) = 0
        BY <3>2, UsersFinite DEF CountInv, CountsCover
      <4> QED
        BY <4>1, UsersFinite, FS_EmptySet
    <3> QED
      BY <1>3, <3>1, <3>2
  <2>2. UmemIsOpen'
    <3>1. CASE UmemCreate
      <4>1. CanOpen(fd, 0 + 1) /\ <<"umem", Nothing>> # FreeFd /\ DOMAIN fd = Fds
        BY <3>1 DEF UmemCreate, FreeFd, CountInv, SocketDomains
      <4>2. Lowest(fd) \in Fds /\ OpenFd(fd, <<"umem", Nothing>>)[Lowest(fd)] = <<"umem", Nothing>>
        BY <4>1, Opened
      <4> QED
        BY <3>1, <4>2 DEF UmemCreate, UmemIsOpen
    <3>2. CASE UmemDelete /\ umem.refcount = 0
      BY <3>2 DEF UmemDelete, NoUmem, UmemIsOpen
    <3> QED
      BY <1>3, <3>1, <3>2
  <2>3. \A q \in Queues : ~Programmed(q)
    BY <2>1, NoUser DEF Programmed, CountInv, SocketDomains
  <2>4. \A q \in Queues : ~Programmed(q)'
    BY <1>1, <2>3 DEF Programmed
  <2>5. MapOfAttached'
    BY <1>1, <2>1 DEF RelyInv, MapOfAttached, Entered
  <2>6. MapsToCome' /\ Alone'
    BY <1>1, <2>1 DEF RelyInv, MapsToCome, Alone
  <2>7. \A s \in LiveXsk' : SocketIsOpen(s)'
    BY <1>1, <2>1
  <2>8. (\A q \in Queues : CtxIsOpen(q)') /\ CtxsApart'
    BY <2>4 DEF CtxIsOpen, CtxsApart
  <2> QED
    BY <2>2, <2>5, <2>6, <2>7, <2>8 DEF RelyInv
<1> QED
  BY <1>2, <1>3

LEMMA FailedKeeps ==
  ASSUME XskAssumption, ~Shared, CountInv, RelyInv, NEW s \in Sockets, NEW q \in Queues,
         CreateFailsEarly(s, q) \/ CreateFailsLate(s, q) \/ NoSocketFd(s, q)
  PROVE  RelyInv'
<1>1. CountInv' /\ CreationFailed(q)
  BY FailedCounts
<1>2. \A t \in LiveXsk : xsk[t].queue # q
  BY DEF CreateFailsEarly, CreateFailsLate, NoSocketFd, CanCreate
<1>3. ctx[q].refcount = 0
  BY <1>2, NoUser
<1> QED
  BY <1>1, <1>3, QuietKeeps DEF CreationFailed

LEMMA OtherKeeps ==
  ASSUME XskAssumption, CountInv, RelyInv, OtherUmemCreate \/ Detached \/ UNCHANGED socketVars
  PROVE  RelyInv'
<1>1. /\ CountInv' /\ Keeps(fd, fd') /\ UNCHANGED <<umem, ctx, xsk, progs, xskmap>>
      /\ attached' = attached \/ attached' = Nothing
  BY OtherCounts
<1>2. progs' >= progs
  BY <1>1 DEF CountInv, SocketDomains
<1> QED
  BY <1>1, <1>2, QuietKeeps

(* What a creation adds to what was relied on. *)
LEMMA CreateAdds ==
  ASSUME XskAssumption, ~Shared, CountInv, RelyInv, NEW s \in Sockets, NEW q \in Queues, Create(s, q)
  PROVE  /\ Keeps(fd, fd') /\ umem'.open = umem.open /\ umem'.fd = umem.fd
         /\ s \notin LiveXsk /\ LiveXsk' = LiveXsk \cup {s} /\ xsk'[s].queue = q
         /\ \A t \in LiveXsk : xsk'[t] = xsk[t] /\ xsk[t].queue # q
         /\ SocketIsOpen(s)' /\ ctx[q].refcount = 0 /\ ctx'[q].refcount = 1
         /\ \A r \in Queues \ {q} : ctx'[r] = ctx[r]
         /\ \/ ctx'[q].prog = Nothing /\ UNCHANGED <<progs, attached, xskmap>>
            \/ /\ attached' # Nothing /\ progs' >= progs
               /\ Relies(ctx'[q], fd', attached') /\ fd[ctx'[q].prog] = FreeFd /\ fd[ctx'[q].map] = FreeFd
               /\ xskmap' \in InMap(attached', q, s)
               /\ attached' = attached \/ (attached = Nothing /\ attached' = progs + 1 /\ progs' = progs + 1)
<1>1. PICK o \in setup_xdp_prog(WithSocket(s), Bound(q), q, s)
                 \cup {Outcome(TRUE, Bound(q), WithSocket(s), progs, attached, xskmap)} :
        /\ o.ok /\ fd' = o.fd /\ ctx' = [ctx EXCEPT ![q] = o.c]
        /\ progs' = o.progs /\ attached' = o.attached /\ xskmap' = o.xskmap
  BY DEF Create
<1>2. /\ SocketDomains /\ CanCreate(s, q)
      /\ umem' = [umem EXCEPT !.refcount = @ + 1, !.saved = @ /\ ~TakesSaved(q)]
      /\ xsk' = [xsk EXCEPT ![s] = [queue |-> q, fd |-> SocketFd]]
  BY DEF CountInv, Create
<1>3. \A t \in LiveXsk : xsk[t].queue # q
  BY <1>2 DEF CanCreate
<1>4. ctx[q].refcount = 0
  BY <1>3, NoUser
<1>5. s \notin LiveXsk /\ LiveXsk' = LiveXsk \cup {s}
  BY <1>2 DEF LiveXsk, CanCreate, NoXsk, SocketDomains, XskAssumption, Nothing
<1>6. xsk'[s] = [queue |-> q, fd |-> SocketFd] /\ \A t \in LiveXsk : xsk'[t] = xsk[t]
  BY <1>2, <1>5 DEF SocketDomains, LiveXsk
<1>7. /\ Keeps(WithSocket(s), o.fd) /\ o.c.refcount = 1
      /\ \/ o.c.prog = Nothing /\ o.progs = progs /\ o.attached = attached /\ o.xskmap = xskmap
         \/ SetUp(o, WithSocket(s), q, s) /\ o.progs >= progs
  <2>1. CASE o = Outcome(TRUE, Bound(q), WithSocket(s), progs, attached, xskmap)
    <3>1. /\ o.c = Bound(q) /\ o.fd = WithSocket(s) /\ o.progs = progs /\ o.attached = attached
          /\ o.xskmap = xskmap
      BY <2>1 DEF Outcome
    <3> QED
      BY <1>2, <1>4, <3>1, ContextsOfCalls, NewSocket DEF Keeps
  <2>2. CASE o \in setup_xdp_prog(WithSocket(s), Bound(q), q, s)
    <3>1. AnyOutcome(o, WithSocket(s), Bound(q)) /\ SetUp(o, WithSocket(s), q, s)
      BY <1>1, <1>2, <2>2, SetUpOutcomes, ContextsOfCalls, NewSocket
    <3>2. progs \in Nat /\ MaxProgs \in Nat
      BY <1>2 DEF SocketDomains, XskAssumption
    <3> QED
      BY <1>2, <1>4, <3>1, <3>2, ContextsOfCalls DEF AnyOutcome
  <2> QED
    BY <1>1, <2>1, <2>2
<1>8. umem'.open = umem.open /\ umem'.fd = umem.fd
  BY <1>2 DEF SocketDomains
<1>9. Keeps(fd, WithSocket(s)) /\ Keeps(fd, fd')
  BY <1>1, <1>2, <1>7, NewSocket, KeepsTwice
<1>10. SocketIsOpen(s)'
  <2>1. CASE umem.refcount > 0
    BY <1>1, <1>2, <1>6, <1>7, <2>1, NewSocket DEF Keeps, FreeFd, SocketIsOpen
  <2>2. CASE ~(umem.refcount > 0)
    BY <1>2, <1>6, <1>8, <2>2, NewSocket DEF SocketIsOpen
  <2> QED
    BY <2>1, <2>2
<1>11. ctx'[q] = o.c /\ \A r \in Queues \ {q} : ctx'[r] = ctx[r]
  BY <1>1, <1>2 DEF SocketDomains
<1>12. ASSUME SetUp(o, WithSocket(s), q, s)
       PROVE  fd[o.c.prog] = FreeFd /\ fd[o.c.map] = FreeFd
  BY <1>9, <1>12 DEF SetUp, Relies, Keeps
<1>13. \/ ctx'[q].prog = Nothing /\ UNCHANGED <<progs, attached, xskmap>>
       \/ /\ attached' # Nothing /\ progs' >= progs
          /\ Relies(ctx'[q], fd', attached') /\ fd[ctx'[q].prog] = FreeFd /\ fd[ctx'[q].map] = FreeFd
          /\ xskmap' \in InMap(attached', q, s)
          /\ attached' = attached \/ (attached = Nothing /\ attached' = progs + 1 /\ progs' = progs + 1)
  BY <1>1, <1>7, <1>11, <1>12 DEF SetUp
<1> QED
  BY <1>3, <1>4, <1>5, <1>6, <1>7, <1>8, <1>9, <1>10, <1>11, <1>13

LEMMA CreateKeeps ==
  ASSUME XskAssumption, ~Shared, CountInv, CountInv', RelyInv, NEW s \in Sockets, NEW q \in Queues, Create(s, q)
  PROVE  RelyInv'
<1> DEFINE Inhibited == ctx'[q].prog = Nothing /\ UNCHANGED <<progs, attached, xskmap>>
           Entering == /\ attached' # Nothing /\ progs' >= progs
                       /\ Relies(ctx'[q], fd', attached') /\ fd[ctx'[q].prog] = FreeFd /\ fd[ctx'[q].map] = FreeFd
                       /\ xskmap' \in InMap(attached', q, s)
                       /\ \/ attached' = attached
                          \/ attached = Nothing /\ attached' = progs + 1 /\ progs' = progs + 1
<1>1. /\ Keeps(fd, fd') /\ umem'.open = umem.open /\ umem'.fd = umem.fd
      /\ s \notin LiveXsk /\ LiveXsk' = LiveXsk \cup {s} /\ xsk'[s].queue = q
      /\ \A t \in LiveXsk : xsk'[t] = xsk[t] /\ xsk[t].queue # q
      /\ SocketIsOpen(s)' /\ ctx[q].refcount = 0 /\ ctx'[q].refcount = 1
      /\ \A r \in Queues \ {q} : ctx'[r] = ctx[r]
      /\ Inhibited \/ Entering
  BY CreateAdds
<1>2. /\ progs \in Nat /\ progs' \in Nat /\ attached' \in 0..progs' /\ progs' \in 0..MaxProgs /\ MaxProgs \in Nat
      /\ attached \in 0..progs /\ xskmap \in [1..MaxProgs -> [Queues -> Sockets \cup {Nothing}]]
  BY DEF CountInv, SocketDomains, XskAssumption
<1>3. progs' >= progs
  BY <1>1, <1>2
<1>4. /\ \A r \in Queues \ {q} : Programmed(r)' = Programmed(r)
      /\ ~Programmed(q) /\ (Programmed(q)' => Entering)
  BY <1>1 DEF Programmed
<1>5. UmemIsOpen'
  BY <1>1 DEF RelyInv, UmemIsOpen, Keeps, FreeFd
<1>6. ASSUME NEW t \in LiveXsk' PROVE SocketIsOpen(t)'
  BY <1>1 DEF RelyInv, SocketIsOpen, Keeps, FreeFd
<1>7. ASSUME NEW r \in Queues, r # q, Programmed(r)
      PROVE  /\ ctx'[r] = ctx[r] /\ fd[ctx[r].prog] # FreeFd /\ fd[ctx[r].map] # FreeFd
             /\ \E p \in 1..progs' : Relies(ctx[r], fd', p)
  <2>1. PICK p \in 1..progs : Relies(ctx[r], fd, p)
    BY <1>7 DEF RelyInv, CtxIsOpen
  <2>2. Relies(ctx[r], fd', p) /\ p \in 1..progs'
    BY <1>1, <1>2, <1>3, <2>1 DEF Relies, Keeps, FreeFd
  <2> QED
    BY <1>1, <1>7, <2>1, <2>2 DEF Relies, FreeFd
<1>8. ASSUME NEW r \in Queues PROVE CtxIsOpen(r)'
  <2>1. CASE r # q
    BY <1>4, <1>7, <2>1 DEF CtxIsOpen
  <2>2. CASE r = q /\ Programmed(q)'
    <3>1. attached' \in 1..progs'
      BY <1>2, <1>4, <2>2 DEF Nothing
    <3> QED
      BY <1>4, <2>2, <3>1 DEF CtxIsOpen
  <2> QED
    BY <2>1, <2>2 DEF CtxIsOpen
<1>9. CtxsApart'
  <2>1. SUFFICES ASSUME NEW r \in Queues, NEW u \in Queues, Programmed(r)', Programmed(u)', r # u
                 PROVE  ProgramsDiffer(ctx'[r], ctx'[u])
    BY DEF CtxsApart
  <2>2. CASE r # q /\ u # q
    BY <1>1, <1>4, <2>1, <2>2 DEF RelyInv, CtxsApart
  <2>3. CASE r = q
    BY <1>4, <1>7, <2>1, <2>3 DEF ProgramsDiffer
  <2>4. CASE u = q
    BY <1>4, <1>7, <2>1, <2>4 DEF ProgramsDiffer
  <2> QED
    BY <2>2, <2>3, <2>4
<1>10. Alone'
  BY <1>1 DEF RelyInv, Alone
<1>11. ASSUME NEW r \in Queues, NEW t \in Sockets, attached # Nothing, attached' = attached,
              t = xskmap[attached][r]
       PROVE  Entered(r, t)' /\ r # q
  <2>1. Entered(r, t)
    BY <1>11 DEF RelyInv, MapOfAttached
  <2>2. r # q
    BY <1>1, <2>1 DEF Entered
  <2> QED
    BY <1>1, <1>4, <1>11, <2>1, <2>2 DEF Entered, Keeps, FreeFd
<1>12. MapOfAttached'
  <2>1. SUFFICES ASSUME attached' # Nothing, NEW r \in Queues, NEW t \in Sockets, xskmap'[attached'][r] = t
                 PROVE  Entered(r, t)'
    BY DEF MapOfAttached
  <2>2. CASE Inhibited
    BY <1>11, <2>1, <2>2
  <2>3. CASE Entering
    <3>1. attached' \in 1..MaxProgs
      BY <1>2, <2>1 DEF Nothing
    <3>2. \/ xskmap' = xskmap
          \/ xskmap' = [xskmap EXCEPT ![attached'] = [xskmap[attached'] EXCEPT ![q] = s]]
      BY <2>3, <1>2, <3>1 DEF InMap
    <3>3. xskmap'[attached'][r] = xskmap[attached'][r] \/ (r = q /\ xskmap'[attached'][r] = s)
      BY <1>2, <3>1, <3>2
    <3>4. CASE r = q /\ xskmap'[attached'][r] = s
      <4>2. Programmed(q)'
        BY <1>1, <2>3 DEF Programmed, Relies, XskAssumption, Nothing
      <4>3. t = s /\ ctx'[q].map \in Fds /\ fd'[ctx'[q].map] = <<"map", attached'>>
        BY <2>1, <2>3, <3>4 DEF Relies
      <4>4. s \in LiveXsk' /\ xsk'[s].queue = q /\ r = q
        BY <1>1, <3>4
      <4> HIDE DEF Entering, Inhibited
      <4> QED
        BY <4>2, <4>3, <4>4 DEF Entered
    <3>5. CASE xskmap'[attached'][r] = xskmap[attached'][r] /\ attached' = attached
      BY <1>11, <2>1, <3>5
    <3>6. CASE xskmap'[attached'][r] = xskmap[attached'][r] /\ attached' = progs + 1
      BY <1>2, <2>1, <3>1, <3>6 DEF RelyInv, MapsToCome, XskAssumption, Nothing
    <3> QED
      BY <2>3, <3>3, <3>4, <3>5, <3>6
  <2> QED
    BY <1>1, <2>2, <2>3
<1>13. MapsToCome'
  <2>1. SUFFICES ASSUME NEW p \in 1..MaxProgs, p > progs', NEW r \in Queues
                 PROVE  xskmap'[p][r] = Nothing
    BY DEF MapsToCome
  <2>2. xskmap[p][r] = Nothing
    BY <1>2, <1>3, <2>1 DEF RelyInv, MapsToCome
  <2>3. CASE Entering
    <3>1. attached' \in 1..MaxProgs /\ p # attached'
      BY <1>2, <2>1, <2>3 DEF Nothing
    <3>2. \/ xskmap' = xskmap
          \/ xskmap' = [xskmap EXCEPT ![attached'] = [xskmap[attached'] EXCEPT ![q] = s]]
      BY <2>3, <1>2, <3>1 DEF InMap
    <3> QED
      BY <1>2, <2>2, <3>1, <3>2
  <2> QED
    BY <1>1, <2>2, <2>3
<1> QED
  BY <1>5, <1>6, <1>8, <1>9, <1>10, <1>12, <1>13 DEF RelyInv

LEMMA DeleteKeeps ==
  ASSUME XskAssumption, ~Shared, CountInv, CountInv', RelyInv, NEW s \in Sockets, SocketDelete(s)
  PROVE  RelyInv'
<1>1. PICK q \in Queues : q = xsk[s].queue
  BY DEF SocketDelete, LiveXsk, CountInv, SocketDomains
<1>2. /\ SocketDomains /\ s \in LiveXsk /\ fd' = CloseFds(fd, Closes(s))
      /\ ctx' = [ctx EXCEPT ![q] = PutCtx(ctx[q])]
      /\ umem' = [umem EXCEPT !.refcount = @ - 1]
      /\ xsk' = [xsk EXCEPT ![s] = NoXsk]
      /\ UNCHANGED <<progs, attached>>
      /\ xskmap' = [p \in 1..MaxProgs |-> [k \in Queues |->
              IF \/ ctx[q].prog # Nothing /\ ctx[q].map # Nothing /\ fd[ctx[q].map] = <<"map", p>> /\ k = q
                 \/ xsk[s].fd # umem.fd /\ xskmap[p][k] = s
              THEN Nothing ELSE xskmap[p][k]]]
  BY <1>1 DEF SocketDelete, CountInv
<1>3. ctx[q].refcount = 1 /\ ctx[q] \in Contexts
  BY <1>1, <1>2, OneUser DEF RelyInv, SocketDomains
<1>4. ctx'[q] = NoCtx /\ \A r \in Queues \ {q} : ctx'[r] = ctx[r]
  BY <1>2, <1>3 DEF SocketDomains, PutCtx
<1>5. LiveXsk' = LiveXsk \ {s} /\ \A t \in LiveXsk \ {s} : xsk'[t] = xsk[t] /\ xsk[t].queue # q
  BY <1>1, <1>2 DEF LiveXsk, NoXsk, SocketDomains, RelyInv, Alone
<1>6. umem'.open = umem.open /\ umem'.fd = umem.fd /\ umem.open
  BY <1>2 DEF SocketDomains, CountInv, CountsCover
<1>7. umem.fd \in Fds /\ fd[umem.fd] = <<"umem", Nothing>> /\ SocketIsOpen(s)
      /\ (ctx[q].prog # Nothing => \E p \in 1..progs : Relies(ctx[q], fd, p))
  BY <1>2, <1>3, <1>6 DEF RelyInv, UmemIsOpen, CtxIsOpen, Programmed
(* What is closed is the program and the map of the context and the socket. *)
<1>8. ASSUME NEW n \in Closes(s)
      PROVE  \/ Programmed(q) /\ (n = ctx[q].prog \/ n = ctx[q].map)
             \/ fd[n] = <<"sock", s>>
  <2>1. \/ ctx[q].prog # Nothing /\ (n = ctx[q].prog \/ n = ctx[q].map)
        \/ xsk[s].fd # umem.fd /\ n = xsk[s].fd
    BY <1>1, <1>8 DEF Closes
  <2> QED
    BY <1>3, <1>7, <2>1 DEF Programmed, SocketIsOpen
<1>9. ASSUME NEW n \in Closes(s) PROVE \E p : fd[n] \in {<<"prog", p>>, <<"map", p>>, <<"sock", s>>}
  BY <1>7, <1>8, <1>9 DEF Relies, Programmed
<1>10. DOMAIN fd' = Fds /\ \A n \in Fds : fd'[n] = IF n \in Closes(s) THEN FreeFd ELSE fd[n]
  BY <1>2 DEF CloseFds
<1>11. UmemIsOpen'
  <2>1. umem.fd \notin Closes(s)
    BY <1>7, <1>9
  <2> QED
    BY <1>6, <1>7, <1>10, <2>1 DEF UmemIsOpen
<1>12. ASSUME NEW t \in LiveXsk' PROVE SocketIsOpen(t)'
  <2>1. t \in LiveXsk /\ t # s /\ xsk'[t] = xsk[t] /\ SocketIsOpen(t)
    BY <1>5, <1>12 DEF RelyInv
  <2>2. CASE xsk[t].fd = umem.fd
    BY <1>6, <2>1, <2>2 DEF SocketIsOpen
  <2>3. CASE xsk[t].fd \in Fds /\ fd[xsk[t].fd] = <<"sock", t>>
    <3>1. xsk[t].fd \notin Closes(s)
      BY <1>9, <2>1, <2>3
    <3> QED
      BY <1>10, <2>1, <2>3, <3>1 DEF SocketIsOpen
  <2> QED
    BY <2>1, <2>2, <2>3 DEF SocketIsOpen
<1>13. ~Programmed(q)' /\ \A r \in Queues \ {q} : Programmed(r)' = Programmed(r)
  BY <1>4 DEF Programmed, NoCtx
<1>14. ASSUME NEW r \in Queues \ {q}, Programmed(r), NEW p, Relies(ctx[r], fd, p)
       PROVE  Relies(ctx[r], fd', p)
  <2>1. ctx[r].prog \notin Closes(s)
    <3>1. SUFFICES ASSUME ctx[r].prog \in Closes(s) PROVE FALSE
      OBVIOUS
    <3>2. Programmed(q) /\ (ctx[r].prog = ctx[q].prog \/ ctx[r].prog = ctx[q].map)
      BY <1>8, <1>14, <3>1 DEF Relies
    <3>3. ProgramsDiffer(ctx[r], ctx[q])
      BY <1>14, <3>2 DEF RelyInv, CtxsApart
    <3> QED
      BY <1>7, <1>14, <3>2, <3>3 DEF ProgramsDiffer, Relies, Programmed
  <2>2. ctx[r].map \notin Closes(s)
    <3>1. SUFFICES ASSUME ctx[r].map \in Closes(s) PROVE FALSE
      OBVIOUS
    <3>2. Programmed(q) /\ (ctx[r].map = ctx[q].prog \/ ctx[r].map = ctx[q].map)
      BY <1>8, <1>14, <3>1 DEF Relies
    <3>3. ProgramsDiffer(ctx[r], ctx[q])
      BY <1>14, <3>2 DEF RelyInv, CtxsApart
    <3> QED
      BY <1>7, <1>14, <3>2, <3>3 DEF ProgramsDiffer, Relies, Programmed
  <2> QED
    BY <1>10, <1>14, <2>1, <2>2 DEF Relies
<1>15. ASSUME NEW r \in Queues PROVE CtxIsOpen(r)'
  <2>1. SUFFICES ASSUME Programmed(r)' PROVE \E p \in 1..progs' : Relies(ctx'[r], fd', p)
    BY DEF CtxIsOpen
  <2>2. r \in Queues \ {q} /\ Programmed(r) /\ ctx'[r] = ctx[r] /\ progs' = progs
    BY <1>2, <1>4, <1>13, <2>1
  <2>3. PICK p \in 1..progs : Relies(ctx[r], fd, p)
    BY <2>2 DEF RelyInv, CtxIsOpen
  <2> QED
    BY <1>14, <2>2, <2>3
<1>16. CtxsApart'
  BY <1>4, <1>13 DEF RelyInv, CtxsApart
<1>17. Alone'
  BY <1>5 DEF RelyInv, Alone
<1>18. MapOfAttached'
  <2>1. SUFFICES ASSUME attached # Nothing, NEW r \in Queues, NEW t \in Sockets, xskmap'[attached][r] = t
                 PROVE  Entered(r, t)'
    BY <1>2 DEF MapOfAttached
  <2>2. attached \in 1..MaxProgs
    BY <1>2, <2>1 DEF SocketDomains, Nothing, XskAssumption
  <2>3. t # Nothing
    BY DEF XskAssumption, Nothing
  <2>4. /\ xskmap[attached][r] = t
        /\ ~(ctx[q].prog # Nothing /\ ctx[q].map # Nothing /\ fd[ctx[q].map] = <<"map", attached>> /\ r = q)
    BY <1>2, <2>1, <2>2, <2>3
  <2>5. Entered(r, t)
    BY <2>1, <2>3, <2>4 DEF RelyInv, MapOfAttached
  <2>6. r # q
    BY <2>4, <2>5 DEF Entered, Programmed, XskAssumption, Nothing
  <2>7. t \in LiveXsk' /\ xsk'[t].queue = r
    BY <1>1, <1>5, <2>5, <2>6 DEF Entered
  <2>8. PICK p \in 1..progs : Relies(ctx[r], fd, p)
    BY <2>5 DEF Entered, RelyInv, CtxIsOpen
  <2>9. Relies(ctx[r], fd', p) /\ ctx'[r] = ctx[r] /\ Programmed(r)'
    BY <1>4, <1>13, <1>14, <2>5, <2>6, <2>8 DEF Entered
  <2>10. fd[ctx[r].map] = <<"map", attached>> /\ fd[ctx[r].map] = <<"map", p>> /\ fd'[ctx[r].map] = <<"map", p>>
    BY <2>5, <2>8, <2>9 DEF Entered, Relies
  <2> QED
    BY <1>2, <2>4, <2>5, <2>7, <2>9, <2>10 DEF Entered
<1>19. MapsToCome'
  BY <1>2 DEF RelyInv, MapsToCome
<1> QED
  BY <1>11, <1>12, <1>15, <1>16, <1>17, <1>18, <1>19 DEF RelyInv

LEMMA RelyStarts ==
  ASSUME XskAssumption, SocketsInit
  PROVE  RelyInv
<1>1. LiveXsk = {} /\ ~umem.open /\ attached = Nothing
  BY DEF SocketsInit, LiveXsk, NoXsk, NoUmem
<1>2. \A q \in Queues : ~Programmed(q)
  BY DEF SocketsInit, Programmed, NoCtx
<1>3. MapsToCome
  BY DEF SocketsInit, MapsToCome
<1> QED
  BY <1>1, <1>2, <1>3 DEF RelyInv, UmemIsOpen, CtxIsOpen, CtxsApart, Alone, MapOfAttached

LEMMA SocketsInvIsEnough ==
  ASSUME XskAssumption, SocketsInv
  PROVE  SocketsSound
<1>1. SocketDomains /\ CountsCover /\ CountInv
  BY DEF SocketsInv, CountInv
<1>2. SocketTypes
  <2>1. \A q \in Queues : ctx[q].refcount \in 0..Cardinality(Sockets)
    <3>1. \A q \in Queues : Users(q) \subseteq Sockets
      BY DEF Users, LiveXsk
    <3>2. \A q \in Queues : Cardinality(Users(q)) <= Cardinality(Sockets) /\ Cardinality(Sockets) \in Nat
      BY <3>1, FS_Subset, FS_CardinalityType DEF XskAssumption
    <3>3. \A q \in Queues : ctx[q].refcount = Cardinality(Users(q)) /\ Cardinality(Users(q)) \in Nat
      BY <1>1, UsersFinite DEF CountsCover, Users
    <3> QED
      BY <3>2, <3>3
  <2> QED
    BY <1>1, <2>1 DEF SocketTypes, SocketDomains
<1>3. NumbersMeanWhatTheyDid
  <2>1. umem.open => fd[umem.fd] = <<"umem", Nothing>>
    BY DEF SocketsInv, RelyInv, UmemIsOpen
  <2>2. \A s \in LiveXsk : xsk[s].fd # umem.fd => fd[xsk[s].fd] = <<"sock", s>>
    BY DEF SocketsInv, RelyInv, SocketIsOpen
  <2>3. ASSUME NEW q \in Queues, ctx[q].refcount > 0 /\ ctx[q].prog # Nothing
        PROVE  /\ fd[ctx[q].prog][1] = "prog" /\ fd[ctx[q].map][1] = "map"
               /\ fd[ctx[q].prog][2] = fd[ctx[q].map][2]
    <3>1. PICK p \in 1..progs : Relies(ctx[q], fd, p)
      BY <2>3 DEF SocketsInv, RelyInv, CtxIsOpen, Programmed
    <3> QED
      BY <3>1 DEF Relies
  <2> QED
    BY <2>1, <2>2, <2>3 DEF NumbersMeanWhatTheyDid
<1>4. NoPacketsToDeleted
  <2>1. SUFFICES ASSUME NEW q \in Queues, attached # Nothing, xskmap[attached][q] # Nothing
                 PROVE  xskmap[attached][q] \in LiveXsk
    BY DEF NoPacketsToDeleted
  <2>2. xskmap[attached][q] \in Sockets
    BY <1>1, <2>1 DEF SocketDomains, XskAssumption, Nothing
  <2> QED
    BY <2>1, <2>2 DEF SocketsInv, RelyInv, MapOfAttached, Entered
<1> QED
  BY <1>1, <1>2, <1>3, <1>4 DEF SocketsSound

(* With a queue for every socket: every number a live socket or context    *)
(* relies on stands for what it was opened for, however many creations     *)
(* fail and at whatever step, and a deleted socket gets no more packets.   *)
THEOREM SocketsAreSound ==
  ASSUME XskAssumption, ~Shared
  PROVE  SocketsSpec => []SocketsSound
<1>1. SocketsInit => SocketsInv
  BY CountsStart, RelyStarts DEF SocketsInv, CountInv
<1>2. SocketsInv /\ [SocketsNext]_socketVars => SocketsInv'
  <2> SUFFICES ASSUME SocketsInv, [SocketsNext]_socketVars PROVE SocketsInv'
    OBVIOUS
  <2>1. CountInv /\ RelyInv
    BY DEF SocketsInv, CountInv
  <2>2. CountInv'
    BY <2>1, CountsKept
  <2>3. RelyInv'
    BY <2>1, <2>2, UmemKeeps, OtherKeeps, FailedKeeps, CreateKeeps, DeleteKeeps DEF SocketsNext
  <2> QED
    BY <2>2, <2>3 DEF SocketsInv, CountInv
<1>3. SocketsInv => SocketsSound
  BY SocketsInvIsEnough
<1> QED
  BY <1>1, <1>2, <1>3, PTL DEF SocketsSpec
=============================================================================
