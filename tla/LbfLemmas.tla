----------------------------- MODULE LbfLemmas ------------------------------
(***************************************************************************)
(* Facts about the operators the LBF modules are built from, those of      *)
(* LbfDelay: its arithmetic, and its list of hnodes.                       *)
(***************************************************************************)
EXTENDS LbfDelay, SequenceTheorems, WellFoundedInduction, TLAPS

(***************************************************************************)
(* Division and remainder: what the per-hop shares rest on.                *)
(***************************************************************************)
LEMMA DivBounds ==
  ASSUME NEW a \in Nat, NEW b \in Nat \ {0}
  PROVE  /\ a \div b \in Nat
         /\ b * (a \div b) <= a
         /\ a <= b * (a \div b) + b - 1
  BY SMT

LEMMA DivShrinks ==
  ASSUME NEW a \in Nat, NEW b \in Nat \ {0}
  PROVE  a \div b \in 0..a
  BY SMT

LEMMA DivGrows ==
  ASSUME NEW a \in Nat, NEW b \in Nat, NEW u \in Nat \ {0}, a <= b
  PROVE  a \div u <= b \div u
<1>1. /\ a \div u \in Nat /\ b \div u \in Nat
      /\ u * (a \div u) <= a /\ b <= u * (b \div u) + u - 1
  BY DivBounds
<1>2. ASSUME b \div u < a \div u PROVE FALSE
  <2> DEFINE x == a \div u
             y == b \div u
  <2>1. x \in Nat /\ y \in Nat /\ y + 1 <= x /\ u * x <= a /\ b <= u * y + u - 1
    BY <1>1, <1>2
  <2> HIDE DEF x, y
  <2>2. u * (y + 1) = u * y + u /\ u * (y + 1) <= u * x
    BY <2>1, SMT
  <2>3. u * y \in Nat /\ u * x \in Nat
    BY <2>1, SMT
  <2> QED
    BY <2>1, <2>2, <2>3
<1> QED
  BY <1>1, <1>2

LEMMA DivMonotone ==
  ASSUME NEW d \in Nat, NEW q \in Nat, NEW u \in Nat \ {0}
  PROVE  /\ d <= q * u => d \div u <= q
         /\ q * u <= d => q <= d \div u
  BY SMT

LEMMA Distributes ==
  ASSUME NEW u \in Nat, NEW a \in Nat, NEW b \in Nat, NEW c \in Nat
  PROVE  u * (a + b + c) = u * a + u * b + u * c
  BY SMT

LEMMA Rearranges ==
  ASSUME NEW u \in Nat, NEW a \in Nat
  PROVE  a * 10 * u = u * (10 * a)
  BY SMT

LEMMA ModRangeOf ==
  ASSUME NEW a \in Int, NEW b \in Nat \ {0}
  PROVE  a % b \in 0..b-1
  BY SMT

LEMMA ModSmallOf ==
  ASSUME NEW b \in Nat \ {0}, NEW a \in 0..b-1
  PROVE  a % b = a
  BY SMT

LEMMA DivMod ==
  ASSUME NEW a \in Int, NEW m \in Nat \ {0}
  PROVE  /\ a \div m \in Int /\ a % m \in 0..m-1
         /\ a = m * (a \div m) + (a % m)
BY SMT

LEMMA ModUnique ==
  ASSUME NEW m \in Nat \ {0}, NEW k \in Int, NEW r \in 0..m-1
  PROVE  (m * k + r) % m = r
BY SMT

LEMMA Distribute ==
  ASSUME NEW m \in Int, NEW a \in Int, NEW b \in Int
  PROVE  m * (a + b) = m * a + m * b /\ m * a \in Int
BY SMT

LEMMA ModMultiple ==
  ASSUME NEW a \in Int, NEW m \in Nat \ {0}, NEW k \in Int
  PROVE  (a + m * k) % m = a % m
<1> DEFINE d == a \div m
           r == a % m
<1>1. d \in Int /\ r \in 0..m-1 /\ a = m * d + r
  BY DivMod
<1> HIDE DEF d, r
<1>2. a + m * k = m * (d + k) + r /\ d + k \in Int
  BY <1>1, Distribute
<1>3. (m * (d + k) + r) % m = r
  BY <1>1, <1>2, ModUnique
<1> QED
  BY <1>2, <1>3 DEF r

(* Adding to a counter that wraps and wrapping the sum are the same.       *)
LEMMA ModAdd ==
  ASSUME NEW a \in Int, NEW d \in Int, NEW m \in Nat \ {0}
  PROVE  ((a % m) + d) % m = (a + d) % m
<1> DEFINE k == a \div m
           r == a % m
<1>1. k \in Int /\ r \in 0..m-1 /\ a = m * k + r
  BY DivMod
<1> HIDE DEF k, r
<1>2. r + d \in Int /\ a + d = (r + d) + m * k
  BY <1>1, Distribute
<1>3. ((r + d) + m * k) % m = (r + d) % m
  BY <1>1, <1>2, ModMultiple
<1> QED
  BY <1>2, <1>3 DEF r

LEMMA U16Type == U16 \in Nat \ {0}
  BY DEF U16

LEMMA LqbBelow == LQB_BESTEFFORT \in Nat /\ LQB_BESTEFFORT < U16
  BY DEF LQB_BESTEFFORT, U16

(***************************************************************************)
(* The wire-order decrement stays in 16 bits, and below 256 it counts.     *)
(***************************************************************************)
LEMMA DecHopsBelow ==
  ASSUME NEW h \in Nat, h < U16
  PROVE  DecHops(h) \in Nat /\ DecHops(h) < U16
<1>1. h < 256 * 256
  BY DEF U16
<1>2. h \div 256 \in Nat /\ h \div 256 < 256
  BY <1>1, SMT
<1>3. (h % 256) + 255 \in Nat
  BY SMT
<1>4. ((h % 256) + 255) % 256 \in Nat /\ ((h % 256) + 255) % 256 < 256
  BY <1>3, SMT
<1>5. ASSUME NEW q \in Nat, NEW r \in Nat, q < 256, r < 256
      PROVE  256 * q + r \in Nat /\ 256 * q + r < 256 * 256
  BY <1>5, SMT
<1>6. DecHops(h) \in Nat /\ DecHops(h) < 256 * 256
  BY <1>2, <1>4, <1>5 DEF DecHops
<1> QED
  BY <1>6 DEF U16

LEMMA DecHopsType ==
  ASSUME NEW h \in 0..U16-1
  PROVE  DecHops(h) \in 0..U16-1
<1>1. h \in Nat /\ h < U16
  BY U16Type
<1> QED
  BY <1>1, DecHopsBelow, U16Type

LEMMA DecHopsCounts ==
  ASSUME NEW h \in 1..255
  PROVE  DecHops(h) = h - 1
  BY SMT DEF DecHops

LEMMA TenthsType ==
  ASSUME NEW ms \in Nat
  PROVE  Tenths(ms) \in 0..U16-1
  BY U16Type, ModRangeOf DEF Tenths

(***************************************************************************)
(* A hop's share of the minimum and of the maximum is a natural number,    *)
(* and a budget has 16 bits, whatever the header says.                     *)
(***************************************************************************)
LEMMA ShareType ==
  ASSUME NEW c, c.min \in Nat, c.max \in Nat, c.todelay \in Nat,
         NEW e \in 0..U16-1, NEW h \in 1..U16-1
  PROVE  LqMin(c, e, h) \in Nat /\ LqMax(c, e, h) \in Nat
<1>2. /\ Tenths(c.min) \in Nat /\ Tenths(c.max) \in Nat
      /\ Tenths(c.todelay) \in Nat
  BY TenthsType
<1>3. h \in Nat \ {0} /\ e \in Nat
  BY U16Type
<1> DEFINE spent == e + Tenths(c.todelay)
<1>4. spent \in Nat
  BY <1>2, <1>3
<1>5. LqMin(c, e, h) \in Nat
  <2>1. CASE Tenths(c.min) > spent
    <3>1. Tenths(c.min) - spent \in Nat
      BY <1>2, <1>4, <2>1
    <3> QED
      BY <3>1, <2>1, <1>3, DivBounds DEF LqMin, lbf_get_min_delay
  <2>2. CASE ~(Tenths(c.min) > spent)
    BY <2>2 DEF LqMin, lbf_get_min_delay
  <2> QED
    BY <2>1, <2>2
<1>6. LqMax(c, e, h) \in Nat
  <2>1. (Tenths(c.max) - spent) % U16 \in Nat
    <3>1. Tenths(c.max) - spent \in Int
      BY <1>2, <1>4
    <3>2. ASSUME NEW x \in Int
          PROVE  x % U16 \in Nat
      BY U16Type, ModRangeOf
    <3> QED
      BY <3>1, <3>2
  <2>2. ((Tenths(c.max) - spent) % U16) \div h \in Nat
    BY <2>1, <1>3, DivBounds
  <2> QED
    BY <2>2 DEF LqMax, lbf_get_max_delay, DMAX_BESTEFFORT
<1> QED
  BY <1>5, <1>6

LEMMA BudgetType ==
  ASSUME NEW c, c.min \in Nat, c.max \in Nat, c.todelay \in Nat,
         NEW e \in 0..U16-1, NEW h \in 1..U16-1
  PROVE  LqBudget(c, e, h) \in 0..U16-1
<1>1. LqMax(c, e, h) - LqMin(c, e, h) \in Int
  BY ShareType
<1>2. ASSUME NEW x \in Int PROVE x % U16 \in 0..U16-1
  BY U16Type, ModRangeOf
<1>3. LQB_BESTEFFORT \in 0..U16-1
  BY LqbBelow, U16Type
<1> QED
  BY <1>1, <1>2, <1>3 DEF LqBudget

LEMMA RangeStartType ==
  ASSUME NEW b \in Nat
  PROVE  RangeStart(b) \in Nat
<1>1. b % LQB_RANGE \in 0..b
  BY SMT DEF LQB_RANGE
<1> QED
  BY <1>1 DEF RangeStart

-----------------------------------------------------------------------------

(***************************************************************************)
(* A nonempty set of natural numbers has a least element, the one Min      *)
(* chooses.                                                                *)
(***************************************************************************)
LEMMA LeastNat ==
  ASSUME NEW S \in SUBSET Nat, S # {}
  PROVE  Min(S) \in S /\ \A y \in S : Min(S) <= y
<1> DEFINE R == OpToRel(<, Nat)
<1>1. PICK x \in S : \A y \in S : ~(<<y, x>> \in R)
  BY NatLessThanWellFounded, WFMin
<1>2. \A a \in Nat, b \in Nat : <<b, a>> \in R <=> b < a
  BY DEF OpToRel
<1>3. \A y \in S : ~(y < x)
  BY <1>1, <1>2
<1>4. \A y \in S : x <= y
  BY <1>3
<1> QED
  BY <1>4 DEF Min

(***************************************************************************)
(* Inserting into, and sweeping the front of, a sequence.                  *)
(***************************************************************************)
LEMMA InsertAtType ==
  ASSUME NEW S, NEW s \in Seq(S), NEW i \in 1..Len(s)+1, NEW e \in S
  PROVE  InsertAt(s, i, e) \in Seq(S)
<1>1. SubSeq(s, 1, i-1) \in Seq(S)
  BY SubSeqProperties, LenProperties
<1>2. SubSeq(s, i, Len(s)) \in Seq(S)
  BY SubSeqProperties, LenProperties
<1>3. <<e>> \in Seq(S)
  OBVIOUS
<1> QED
  BY <1>1, <1>2, <1>3, ConcatProperties DEF InsertAt

LEMMA InsertAtLength ==
  ASSUME NEW S, NEW s \in Seq(S), NEW i \in 1..Len(s)+1, NEW e \in S
  PROVE  Len(InsertAt(s, i, e)) = Len(s) + 1
<1>1. SubSeq(s, 1, i-1) \in Seq(S) /\ Len(SubSeq(s, 1, i-1)) = i - 1
  BY SubSeqProperties, LenProperties
<1>2. /\ SubSeq(s, i, Len(s)) \in Seq(S)
      /\ Len(SubSeq(s, i, Len(s))) = Len(s) + 1 - i
  BY SubSeqProperties, LenProperties
<1>3. <<e>> \in Seq(S) /\ Len(<<e>>) = 1
  OBVIOUS
<1>4. /\ SubSeq(s, 1, i-1) \o <<e>> \in Seq(S)
      /\ Len(SubSeq(s, 1, i-1) \o <<e>>) = i
  BY <1>1, <1>3, ConcatProperties
<1>5. Len(InsertAt(s, i, e)) = i + (Len(s) + 1 - i)
  <2> DEFINE a == SubSeq(s, 1, i-1) \o <<e>>
             b == SubSeq(s, i, Len(s))
  <2>1. InsertAt(s, i, e) = a \o b
    BY DEF InsertAt
  <2>2. a \in Seq(S) /\ Len(a) = i /\ b \in Seq(S) /\ Len(b) = Len(s) + 1 - i
    BY <1>2, <1>4
  <2> HIDE DEF a, b
  <2>3. Len(a \o b) = Len(a) + Len(b)
    BY <2>2, ConcatProperties
  <2> QED
    BY <2>1, <2>2, <2>3
<1> QED
  BY <1>5

LEMMA SweepType ==
  ASSUME NEW S, NEW s \in Seq(S), NEW X
  PROVE  Sweep(s, X) \in Seq(S)
<1> DEFINE I == {i \in 1..Len(s) : s[i] \notin X}
           i == SelectInSeq(s, LAMBDA r : r \notin X)
<1>1. i = IF I # {} THEN Min(I) ELSE 0
  BY DEF SelectInSeq
<1>2. i \in 0..Len(s)
  <2>1. I \in SUBSET Nat /\ Len(s) \in Nat
    OBVIOUS
  <2> HIDE DEF i
  <2>2. CASE I # {}
    <3>1. Min(I) \in I
      BY <2>1, <2>2, LeastNat
    <3> QED
      BY <1>1, <2>2, <3>1
  <2>3. CASE I = {}
    BY <1>1, <2>1, <2>3
  <2> QED
    BY <2>2, <2>3
<1> HIDE DEF i
<1>3. i # 0 => SubSeq(s, i, Len(s)) \in Seq(S)
  BY <1>2, SubSeqProperties, LenProperties
<1>4. Sweep(s, X) = IF i = 0 THEN <<>> ELSE SubSeq(s, i, Len(s))
  BY DEF Sweep, i
<1> QED
  BY <1>3, <1>4

LEMMA QueueAddType ==
  ASSUME NEW P, NEW q \in Seq(P), NEW p \in P, NEW tmin
  PROVE  pnode_queue_add(q, p, tmin) \in Seq(P)
<1> DEFINE I == {i \in 1..Len(q) : tmin[p] < tmin[q[i]]}
           i == SelectInSeq(q, LAMBDA r : tmin[p] < tmin[r])
<1>1. i = IF I # {} THEN Min(I) ELSE 0
  BY DEF SelectInSeq
<1>2. pnode_queue_add(q, p, tmin)
        = IF i = 0 THEN Append(q, p) ELSE InsertAt(q, i, p)
  BY DEF pnode_queue_add
<1>3. I \in SUBSET Nat /\ I \subseteq 1..Len(q) /\ Len(q) \in Nat
  OBVIOUS
<1> HIDE DEF i, I
<1>4. CASE I # {}
  <2>1. i \in 1..Len(q)
    BY <1>1, <1>3, <1>4, LeastNat
  <2>2. i # 0 /\ i \in 1..Len(q)+1
    BY <2>1, <1>3
  <2> QED
    BY <1>2, <2>2, InsertAtType
<1>5. CASE I = {}
  BY <1>1, <1>2, <1>5, AppendProperties
<1> QED
  BY <1>4, <1>5

(***************************************************************************)
(* The walk of lbf_get_hnode stops inside the list or just behind it, and  *)
(* afterwards the list has an hnode where it stopped.                      *)
(***************************************************************************)
LEMMA StopType ==
  ASSUME NEW P, NEW hs \in Seq(Hnode(P)), NEW b \in Nat
  PROVE  Stop(hs, b) \in 1..Len(hs)+1
<1> DEFINE T(h) == InRange(h.range_start, b) \/ b < h.range_start
           I == {i \in 1..Len(hs) : T(hs[i])}
           i == SelectInSeq(hs, LAMBDA h : \/ InRange(h.range_start, b)
                                           \/ b < h.range_start)
<1>1. i = IF I # {} THEN Min(I) ELSE 0
  BY DEF SelectInSeq
<1>2. Stop(hs, b) = IF i = 0 THEN Len(hs) + 1 ELSE i
  BY DEF Stop
<1>3. I \in SUBSET Nat /\ I \subseteq 1..Len(hs) /\ Len(hs) \in Nat
  OBVIOUS
<1> HIDE DEF i, I
<1>4. CASE I # {}
  <2>1. i \in 1..Len(hs)
    BY <1>1, <1>3, <1>4, LeastNat
  <2> QED
    BY <1>2, <1>3, <2>1
<1>5. CASE I = {}
  BY <1>1, <1>2, <1>3, <1>5
<1> QED
  BY <1>4, <1>5

LEMMA GetHnodeType ==
  ASSUME NEW P, NEW hs \in Seq(Hnode(P)), NEW b \in Nat
  PROVE  /\ lbf_get_hnode(hs, b) \in Seq(Hnode(P))
         /\ Stop(hs, b) \in 1..Len(lbf_get_hnode(hs, b))
<1>1. Stop(hs, b) \in 1..Len(hs)+1 /\ Len(hs) \in Nat
  BY StopType
<1>2. CASE HasHnode(hs, b)
  BY <1>1, <1>2 DEF HasHnode, lbf_get_hnode
<1>3. CASE ~HasHnode(hs, b)
  <2> DEFINE k == Stop(hs, b)
             new == create_hnode(b)
  <2>1. new \in Hnode(P)
    BY RangeStartType DEF create_hnode, Hnode
  <2> HIDE DEF new, k
  <2>2. k \in 1..Len(hs)+1
    BY <1>1 DEF k
  <2>3. InsertAt(hs, k, new) \in Seq(Hnode(P))
    BY <2>1, <2>2, InsertAtType
  <2>4. Len(InsertAt(hs, k, new)) = Len(hs) + 1
    BY <2>1, <2>2, InsertAtLength
  <2>5. lbf_get_hnode(hs, b) = InsertAt(hs, k, new)
    BY <1>3 DEF lbf_get_hnode, k, new
  <2> QED
    BY <1>1, <2>2, <2>3, <2>4, <2>5 DEF k
<1> QED
  BY <1>2, <1>3

(***************************************************************************)
(* Replacing the queues of the hnodes, one by one or all at once.          *)
(***************************************************************************)
LEMMA SetQueueType ==
  ASSUME NEW P, NEW hs \in Seq(Hnode(P)), NEW i \in 1..Len(hs), NEW q \in Seq(P)
  PROVE  [hs EXCEPT ![i].queue = q] \in Seq(Hnode(P))
<1>1. hs[i] \in Hnode(P)
  OBVIOUS
<1>2. [hs[i] EXCEPT !.queue = q] \in Hnode(P)
  BY <1>1 DEF Hnode
<1> QED
  BY <1>2, ExceptSeq

LEMMA MapQueueType ==
  ASSUME NEW P, NEW hs \in Seq(Hnode(P)), NEW f \in [DOMAIN hs -> Seq(P)]
  PROVE  [i \in DOMAIN hs |-> [hs[i] EXCEPT !.queue = f[i]]] \in Seq(Hnode(P))
<1>1. DOMAIN hs = 1..Len(hs) /\ Len(hs) \in Nat
  OBVIOUS
<1>2. \A i \in DOMAIN hs : [hs[i] EXCEPT !.queue = f[i]] \in Hnode(P)
  <2> TAKE i \in DOMAIN hs
  <2>1. hs[i] \in Hnode(P)
    OBVIOUS
  <2> QED
    BY <2>1 DEF Hnode
<1> QED
  BY <1>1, <1>2

LEMMA PopHeadType ==
  ASSUME NEW P, NEW hs \in Seq(Hnode(P)), NEW p \in P
  PROVE  PopHead(hs, p) \in Seq(Hnode(P))
<1>1. DOMAIN hs = 1..Len(hs) /\ Len(hs) \in Nat
  OBVIOUS
<1>2. \A i \in DOMAIN hs : PopHead(hs, p)[i] \in Hnode(P)
  <2> TAKE i \in DOMAIN hs
  <2>1. hs[i] \in Hnode(P)
    OBVIOUS
  <2>3. hs[i].queue \in Seq(P)
    BY <2>1 DEF Hnode
  <2>2. hs[i].queue # <<>> => Tail(hs[i].queue) \in Seq(P)
    BY <2>3, HeadTailProperties
  <2> QED
    BY <2>1, <2>2, <2>3 DEF PopHead, Hnode
<1> QED
  BY <1>1, <1>2 DEF PopHead

-----------------------------------------------------------------------------
(***************************************************************************)
(* What the walks choose: SelectInSeq finds the first element that passes  *)
(* the test, if any does.                                                  *)
(***************************************************************************)
LEMMA InsertAtElements ==
  ASSUME NEW S, NEW s \in Seq(S), NEW i \in 1..Len(s)+1, NEW e \in S
  PROVE  \A j \in 1..Len(s)+1 :
           InsertAt(s, i, e)[j] = IF j < i THEN s[j]
                                  ELSE IF j = i THEN e ELSE s[j-1]
<1> DEFINE a == SubSeq(s, 1, i-1)
           b == SubSeq(s, i, Len(s))
           c == a \o <<e>>
           t == c \o b
<1>1. /\ a \in Seq(S) /\ Len(a) = i - 1
      /\ \A j \in 1..i-1 : a[j] = s[j]
  BY SubSeqProperties, LenProperties
<1>2. /\ b \in Seq(S) /\ Len(b) = Len(s) + 1 - i
      /\ \A j \in 1..Len(s)+1-i : b[j] = s[i+j-1]
  BY SubSeqProperties, LenProperties
<1>3. <<e>> \in Seq(S) /\ Len(<<e>>) = 1 /\ <<e>>[1] = e
  OBVIOUS
<1>4. /\ c \in Seq(S) /\ Len(c) = i
      /\ \A j \in 1..i : c[j] = IF j <= i - 1 THEN a[j] ELSE <<e>>[j-(i-1)]
  BY <1>1, <1>3, ConcatProperties
<1>5. InsertAt(s, i, e) = t
  BY DEF InsertAt
<1> HIDE DEF a, b, c
<1>6. \A j \in 1..Len(s)+1 : t[j] = IF j <= i THEN c[j] ELSE b[j-i]
  BY <1>2, <1>4, ConcatProperties, LenProperties
<1> HIDE DEF t
<1> TAKE j \in 1..Len(s)+1
<1>7. CASE j < i
  BY <1>1, <1>4, <1>5, <1>6, <1>7
<1>8. CASE j = i
  BY <1>3, <1>4, <1>5, <1>6, <1>8
<1>9. CASE j > i
  <2>1. j - i \in 1..Len(s)+1-i /\ i + (j - i) - 1 = j - 1
    BY <1>9, LenProperties
  <2>2. b[j-i] = s[j-1]
    BY <1>2, <2>1
  <2>3. t[j] = b[j-i]
    BY <1>6, <1>9
  <2> QED
    BY <1>5, <1>9, <2>2, <2>3
<1> QED
  BY <1>7, <1>8, <1>9

(***************************************************************************)
(* t is s without its first elements.                                      *)
(***************************************************************************)
Tails(t, s) ==
  \E d \in 0..Len(s) : /\ Len(t) = Len(s) - d
                       /\ \A j \in 1..Len(t) : t[j] = s[j+d]

(***************************************************************************)
(* A sweep drops packets of the set from the front, and stops at one that  *)
(* is not in it.                                                           *)
(***************************************************************************)
LEMMA SweepFacts ==
  ASSUME NEW S, NEW s \in Seq(S), NEW X
  PROVE  /\ Tails(Sweep(s, X), s)
         /\ \A j \in 1..Len(s) :
              s[j] \in X \/ \E k \in 1..Len(Sweep(s, X)) : Sweep(s, X)[k] = s[j]
         /\ Sweep(s, X) # <<>> => Head(Sweep(s, X)) \notin X
<1> DEFINE I == {i \in 1..Len(s) : s[i] \notin X}
           i == SelectInSeq(s, LAMBDA r : r \notin X)
<1>1. i = IF I # {} THEN Min(I) ELSE 0
  BY DEF SelectInSeq
<1>2. Sweep(s, X) = IF i = 0 THEN <<>> ELSE SubSeq(s, i, Len(s))
  BY DEF Sweep
<1>3. I \in SUBSET Nat /\ Len(s) \in Nat
  OBVIOUS
<1> HIDE DEF i
<1>4. CASE I = {}
  <2>1. Sweep(s, X) = <<>> /\ Len(<<>>) = 0
    BY <1>1, <1>2, <1>4
  <2>2. Tails(<<>>, s)
    BY <1>3 DEF Tails
  <2> QED
    BY <1>4, <2>1, <2>2
<1>5. CASE I # {}
  <2>1. i \in I /\ \A y \in I : i <= y
    BY <1>1, <1>3, <1>5, LeastNat
  <2>2. i \in 1..Len(s) /\ s[i] \notin X /\ i # 0
    BY <2>1
  <2> DEFINE t == SubSeq(s, i, Len(s))
  <2>3. /\ t \in Seq(S) /\ Len(t) = Len(s) - (i - 1)
        /\ \A j \in 1..Len(t) : t[j] = s[j+(i-1)]
    BY <2>2, SubSeqProperties, LenProperties
  <2>4. Sweep(s, X) = t
    BY <1>2, <2>2
  <2> HIDE DEF t
  <2>5. Tails(t, s)
    <3>1. i - 1 \in 0..Len(s)
      BY <2>2
    <3> QED
      BY <2>3, <3>1 DEF Tails
  <2>6. ASSUME NEW j \in 1..Len(s), s[j] \notin X
        PROVE  \E k \in 1..Len(t) : t[k] = s[j]
    <3>1. i <= j
      BY <2>1, <2>6
    <3>2. j - (i - 1) \in 1..Len(t) /\ (j - (i - 1)) + (i - 1) = j
      BY <2>2, <2>3, <3>1
    <3> QED
      BY <2>3, <3>2
  <2>7. Head(t) = s[i]
    <3>1. Len(t) >= 1 /\ t[1] = s[1+(i-1)] /\ 1 + (i-1) = i
      BY <2>2, <2>3
    <3> QED
      BY <2>3, <3>1
  <2> QED
    BY <2>2, <2>4, <2>5, <2>6, <2>7
<1> QED
  BY <1>4, <1>5

(***************************************************************************)
(* pnode_queue_add inserts p at a place k with no later release before it  *)
(* and no release as early behind it.                                      *)
(***************************************************************************)
LEMMA QueueAddFacts ==
  ASSUME NEW P, NEW q \in Seq(P), NEW p \in P, NEW tmin \in [P -> Nat],
         \A j, k \in 1..Len(q) : j < k => tmin[q[j]] <= tmin[q[k]]
  PROVE  LET r == pnode_queue_add(q, p, tmin)
         IN  \E k \in 1..Len(q)+1 :
               /\ r \in Seq(P) /\ Len(r) = Len(q) + 1
               /\ \A j \in 1..Len(q)+1 :
                    r[j] = IF j < k THEN q[j] ELSE IF j = k THEN p ELSE q[j-1]
               /\ \A j \in 1..k-1 : tmin[q[j]] <= tmin[p]
               /\ \A j \in k..Len(q) : tmin[p] <= tmin[q[j]]
<1> DEFINE r == pnode_queue_add(q, p, tmin)
           I == {i \in 1..Len(q) : tmin[p] < tmin[q[i]]}
           i == SelectInSeq(q, LAMBDA x : tmin[p] < tmin[x])
<1>1. i = IF I # {} THEN Min(I) ELSE 0
  BY DEF SelectInSeq
<1>2. r = IF i = 0 THEN Append(q, p) ELSE InsertAt(q, i, p)
  BY DEF pnode_queue_add
<1>3. I \in SUBSET Nat /\ Len(q) \in Nat /\ \A j \in 1..Len(q) : q[j] \in P
  OBVIOUS
<1>4. \A x \in P : tmin[x] \in Nat
  OBVIOUS
<1> HIDE DEF i, r
<1> SUFFICES \E k \in 1..Len(q)+1 :
               /\ r \in Seq(P) /\ Len(r) = Len(q) + 1
               /\ \A j \in 1..Len(q)+1 :
                    r[j] = IF j < k THEN q[j] ELSE IF j = k THEN p ELSE q[j-1]
               /\ \A j \in 1..k-1 : tmin[q[j]] <= tmin[p]
               /\ \A j \in k..Len(q) : tmin[p] <= tmin[q[j]]
  BY DEF r
<1>5. CASE I = {}
  <2>1. r = Append(q, p)
    BY <1>1, <1>2, <1>5
  <2>2. \A j \in 1..Len(q) : tmin[q[j]] <= tmin[p]
    BY <1>3, <1>4, <1>5
  <2>3. /\ r \in Seq(P) /\ Len(r) = Len(q) + 1
        /\ \A j \in 1..Len(q) : r[j] = q[j]
        /\ r[Len(q)+1] = p
    BY <2>1, AppendProperties
  <2>4. Len(q) + 1 \in 1..Len(q)+1
    BY <1>3
  <2>5. \A j \in 1..Len(q)+1 :
          r[j] = IF j < Len(q) + 1 THEN q[j] ELSE IF j = Len(q) + 1 THEN p ELSE q[j-1]
    <3> TAKE j \in 1..Len(q)+1
    <3>1. CASE j = Len(q) + 1
      BY <1>3, <2>3, <3>1
    <3>2. CASE j # Len(q) + 1
      <4>1. j \in 1..Len(q) /\ j < Len(q) + 1
        BY <1>3, <3>2
      <4> QED
        BY <2>3, <4>1
    <3> QED
      BY <3>1, <3>2
  <2>6. \A j \in 1..(Len(q)+1)-1 : tmin[q[j]] <= tmin[p]
    BY <1>3, <2>2
  <2>7. \A j \in (Len(q)+1)..Len(q) : tmin[p] <= tmin[q[j]]
    BY <1>3
  <2> QED
    BY <2>3, <2>4, <2>5, <2>6, <2>7
<1>6. CASE I # {}
  <2>1. i \in I /\ \A y \in I : i <= y
    BY <1>1, <1>3, <1>6, LeastNat
  <2>2. i \in 1..Len(q) /\ tmin[p] < tmin[q[i]] /\ i # 0 /\ i \in 1..Len(q)+1
    BY <1>3, <2>1
  <2>3. \A j \in 1..i-1 : tmin[q[j]] <= tmin[p]
    <3> TAKE j \in 1..i-1
    <3>1. j \in 1..Len(q) /\ ~(i <= j)
      BY <2>2
    <3>2. ~(tmin[p] < tmin[q[j]])
      BY <2>1, <3>1
    <3> QED
      BY <1>3, <1>4, <3>1, <3>2
  <2>4. \A j \in i..Len(q) : tmin[p] <= tmin[q[j]]
    <3> TAKE j \in i..Len(q)
    <3>1. j \in 1..Len(q)
      BY <2>2
    <3>2. tmin[q[i]] <= tmin[q[j]]
      BY <2>2, <3>1, <1>3, <1>4
    <3> QED
      BY <1>3, <1>4, <2>2, <3>1, <3>2
  <2>5. r = InsertAt(q, i, p)
    BY <1>2, <2>2
  <2>6. /\ r \in Seq(P) /\ Len(r) = Len(q) + 1
        /\ \A j \in 1..Len(q)+1 :
             r[j] = IF j < i THEN q[j] ELSE IF j = i THEN p ELSE q[j-1]
    <3>1. r \in Seq(P) /\ Len(r) = Len(q) + 1
      BY <2>2, <2>5, InsertAtType, InsertAtLength
    <3>2. \A j \in 1..Len(q)+1 :
            InsertAt(q, i, p)[j] = IF j < i THEN q[j]
                                   ELSE IF j = i THEN p ELSE q[j-1]
      BY <2>2, InsertAtElements
    <3> QED
      BY <2>5, <3>1, <3>2
  <2> QED
    BY <2>2, <2>3, <2>4, <2>6
<1> QED
  BY <1>5, <1>6

-----------------------------------------------------------------------------
(***************************************************************************)
(* What the searches of a dequeue rely on in a list hs, for release times  *)
(* tm and budgets lb: both orders, packets in their own ranges, ranges     *)
(* that start at multiples of their width, and no packet in two places.    *)
(***************************************************************************)
QueuesSorted(hs, tm) ==
  \A i \in DOMAIN hs : \A j, k \in DOMAIN hs[i].queue :
    j < k => tm[hs[i].queue[j]] <= tm[hs[i].queue[k]]

RangesSorted(hs) ==
  \A i, j \in DOMAIN hs : i < j => hs[i].range_start <= hs[j].range_start

OwnRanges(hs, lb) ==
  \A i \in DOMAIN hs : \A j \in DOMAIN hs[i].queue :
    RangeStart(lb[hs[i].queue[j]]) = hs[i].range_start

Aligned(hs) == \A i \in DOMAIN hs : hs[i].range_start % LQB_RANGE = 0

Once(hs) ==
  \A i1, i2 \in DOMAIN hs :
    \A j1 \in DOMAIN hs[i1].queue, j2 \in DOMAIN hs[i2].queue :
      hs[i1].queue[j1] = hs[i2].queue[j2] => i1 = i2 /\ j1 = j2

Fine(hs, tm, lb) ==
  /\ QueuesSorted(hs, tm) /\ RangesSorted(hs) /\ OwnRanges(hs, lb)
  /\ Aligned(hs) /\ Once(hs)

(* The list new is hs after removals at the fronts of its queues.          *)
Shrunk(new, hs) ==
  /\ DOMAIN new = DOMAIN hs
  /\ \A i \in DOMAIN hs : /\ new[i].range_start = hs[i].range_start
                          /\ Tails(new[i].queue, hs[i].queue)

(* Every queue of new is that of hs without its d[i] first pnodes.         *)
ShiftedBy(new, hs, d) ==
  \A i \in DOMAIN hs : \A j \in DOMAIN new[i].queue :
    /\ j + d[i] \in DOMAIN hs[i].queue
    /\ new[i].queue[j] = hs[i].queue[j+d[i]]

LEMMA HnodeType ==
  ASSUME NEW P, NEW hs \in Seq(Hnode(P)), NEW i \in DOMAIN hs
  PROVE  /\ hs[i].queue \in Seq(P) /\ hs[i].range_start \in Nat
         /\ DOMAIN hs[i].queue = 1..Len(hs[i].queue)
         /\ Len(hs[i].queue) \in Nat
<1>1. hs[i] \in Hnode(P)
  OBVIOUS
<1>2. hs[i].queue \in Seq(P) /\ hs[i].range_start \in Nat
  BY <1>1 DEF Hnode
<1> QED
  BY <1>2, LenProperties

LEMMA InPnodes ==
  ASSUME NEW hs, NEW p
  PROVE  p \in Pnodes(hs) <=>
           \E i \in DOMAIN hs : \E j \in DOMAIN hs[i].queue :
             p = hs[i].queue[j]
BY DEF Pnodes, ToSet

LEMMA InHeads ==
  ASSUME NEW P, NEW hs \in Seq(Hnode(P)), NEW p
  PROVE  p \in Heads(hs) <=>
           \E i \in DOMAIN hs : 1 \in DOMAIN hs[i].queue /\ p = hs[i].queue[1]
<1>1. ASSUME NEW i \in DOMAIN hs
      PROVE  p \in HeadOf(hs[i].queue) <=>
               1 \in DOMAIN hs[i].queue /\ p = hs[i].queue[1]
  <2>1. /\ hs[i].queue \in Seq(P) /\ DOMAIN hs[i].queue = 1..Len(hs[i].queue)
        /\ Len(hs[i].queue) \in Nat
    BY HnodeType
  <2> DEFINE q == hs[i].queue
  <2> HIDE DEF q
  <2>2. q \in Seq(P) /\ DOMAIN q = 1..Len(q) /\ Len(q) \in Nat
    BY <2>1 DEF q
  <2>3. q # <<>> => Len(q) >= 1 /\ Head(q) = q[1]
    BY <2>2, EmptySeq
  <2>4. q = <<>> => Len(q) = 0
    BY EmptySeq
  <2>5. p \in HeadOf(q) <=> 1 \in DOMAIN q /\ p = q[1]
    BY <2>2, <2>3, <2>4 DEF HeadOf
  <2> QED
    BY <2>5 DEF q
<1> QED
  BY <1>1 DEF Heads

LEMMA HeadsArePnodes ==
  ASSUME NEW P, NEW hs \in Seq(Hnode(P))
  PROVE  Heads(hs) \subseteq Pnodes(hs)
BY InHeads, InPnodes

(* A place in the shrunk list comes from one in the list before.           *)
LEMMA ShrunkPlaces ==
  ASSUME NEW P, NEW hs \in Seq(Hnode(P)), NEW new \in Seq(Hnode(P)),
         Shrunk(new, hs)
  PROVE  \E d \in [DOMAIN hs -> Nat] : ShiftedBy(new, hs, d)
<1> DEFINE D(i, d) ==
      /\ Len(new[i].queue) = Len(hs[i].queue) - d
      /\ \A j \in 1..Len(new[i].queue) : new[i].queue[j] = hs[i].queue[j+d]
    g(i) == CHOOSE d \in 0..Len(hs[i].queue) : D(i, d)
    f == [i \in DOMAIN hs |-> g(i)]
<1>4. ASSUME NEW i \in DOMAIN hs
      PROVE  g(i) \in 0..Len(hs[i].queue) /\ D(i, g(i))
  <2>1. \E d \in 0..Len(hs[i].queue) : D(i, d)
    BY DEF Shrunk, Tails
  <2> QED
    BY <2>1
<1> HIDE DEF g
<1>1. ASSUME NEW i \in DOMAIN hs
      PROVE  f[i] \in 0..Len(hs[i].queue) /\ D(i, f[i])
  BY <1>4
<1>5. ASSUME NEW i \in DOMAIN hs PROVE g(i) \in Nat
  <2>1. Len(hs[i].queue) \in Nat
    BY HnodeType
  <2> QED
    BY <1>4, <2>1
<1>3. f \in [DOMAIN hs -> Nat]
  BY <1>5
<1> HIDE DEF f
<1>2. ASSUME NEW i \in DOMAIN hs
      PROVE  \A j \in DOMAIN new[i].queue :
               /\ j + f[i] \in DOMAIN hs[i].queue
               /\ new[i].queue[j] = hs[i].queue[j+f[i]]
  <2>1. /\ f[i] \in 0..Len(hs[i].queue)
        /\ Len(new[i].queue) = Len(hs[i].queue) - f[i]
        /\ \A j \in 1..Len(new[i].queue) :
             new[i].queue[j] = hs[i].queue[j+f[i]]
    BY <1>1
  <2>2. i \in DOMAIN new
    BY DEF Shrunk
  <2>3. /\ hs[i].queue \in Seq(P) /\ DOMAIN hs[i].queue = 1..Len(hs[i].queue)
        /\ Len(hs[i].queue) \in Nat
        /\ new[i].queue \in Seq(P)
        /\ DOMAIN new[i].queue = 1..Len(new[i].queue)
        /\ Len(new[i].queue) \in Nat
    BY <2>2, HnodeType
  <2> DEFINE q == hs[i].queue
             r == new[i].queue
             d == f[i]
  <2>4. /\ d \in 0..Len(q) /\ Len(r) = Len(q) - d
        /\ \A j \in 1..Len(r) : r[j] = q[j+d]
        /\ q \in Seq(P) /\ DOMAIN q = 1..Len(q) /\ Len(q) \in Nat
        /\ r \in Seq(P) /\ DOMAIN r = 1..Len(r) /\ Len(r) \in Nat
    BY <2>1, <2>3
  <2> HIDE DEF q, r, d
  <2>6. \A j \in DOMAIN r : j + d \in DOMAIN q /\ r[j] = q[j+d]
    BY <2>4
  <2> QED
    BY <2>6 DEF q, r, d
<1> QED
  BY <1>2, <1>3 DEF ShiftedBy

LEMMA ShrunkFine ==
  ASSUME NEW P, NEW hs \in Seq(Hnode(P)), NEW new \in Seq(Hnode(P)),
         Shrunk(new, hs), NEW tm, NEW lb, Fine(hs, tm, lb)
  PROVE  Fine(new, tm, lb) /\ Pnodes(new) \subseteq Pnodes(hs)
<1>9. PICK d \in [DOMAIN hs -> Nat] : ShiftedBy(new, hs, d)
  BY ShrunkPlaces
<1>1. \A i \in DOMAIN hs :
        \A j \in DOMAIN new[i].queue :
          /\ j + d[i] \in DOMAIN hs[i].queue
          /\ new[i].queue[j] = hs[i].queue[j+d[i]]
  BY <1>9 DEF ShiftedBy
<1>2. /\ DOMAIN new = DOMAIN hs
      /\ \A i \in DOMAIN hs : new[i].range_start = hs[i].range_start
  BY DEF Shrunk
<1>3. \A i \in DOMAIN hs : DOMAIN new[i].queue \subseteq Nat /\ d[i] \in Nat
  BY <1>2, HnodeType
<1>4. QueuesSorted(new, tm)
  <2> SUFFICES ASSUME NEW i \in DOMAIN hs, NEW j \in DOMAIN new[i].queue,
                      NEW k \in DOMAIN new[i].queue, j < k
               PROVE  tm[new[i].queue[j]] <= tm[new[i].queue[k]]
    BY <1>2 DEF QueuesSorted
  <2>1. j + d[i] < k + d[i]
    BY <1>3
  <2> QED
    BY <1>1, <2>1 DEF Fine, QueuesSorted
<1>5. RangesSorted(new) /\ Aligned(new)
  BY <1>2 DEF Fine, RangesSorted, Aligned
<1>6. OwnRanges(new, lb)
  <2> SUFFICES ASSUME NEW i \in DOMAIN hs, NEW j \in DOMAIN new[i].queue
               PROVE  RangeStart(lb[new[i].queue[j]]) = new[i].range_start
    BY <1>2 DEF OwnRanges
  <2>1. /\ j + d[i] \in DOMAIN hs[i].queue
        /\ new[i].queue[j] = hs[i].queue[j+d[i]]
    BY <1>1
  <2>2. RangeStart(lb[hs[i].queue[j+d[i]]]) = hs[i].range_start
    BY <2>1 DEF Fine, OwnRanges
  <2> QED
    BY <1>2, <2>1, <2>2
<1>7. Once(new)
  <2> SUFFICES ASSUME NEW i1 \in DOMAIN hs, NEW i2 \in DOMAIN hs,
                      NEW j1 \in DOMAIN new[i1].queue,
                      NEW j2 \in DOMAIN new[i2].queue,
                      new[i1].queue[j1] = new[i2].queue[j2]
               PROVE  i1 = i2 /\ j1 = j2
    BY <1>2 DEF Once
  <2>1. i1 = i2 /\ j1 + d[i1] = j2 + d[i2]
    BY <1>1 DEF Fine, Once
  <2> QED
    BY <1>3, <2>1
<1>8. Pnodes(new) \subseteq Pnodes(hs)
  <2> SUFFICES ASSUME NEW p \in Pnodes(new) PROVE p \in Pnodes(hs)
    OBVIOUS
  <2>1. PICK i \in DOMAIN new : \E j \in DOMAIN new[i].queue :
          p = new[i].queue[j]
    BY InPnodes
  <2>2. i \in DOMAIN hs /\ \E j \in DOMAIN hs[i].queue : p = hs[i].queue[j]
    BY <1>1, <1>2, <2>1
  <2> QED
    BY <2>2, InPnodes
<1> QED
  BY <1>4, <1>5, <1>6, <1>7, <1>8 DEF Fine

(***************************************************************************)
(* When every head has its hnode pointer, handing it on at every removal   *)
(* gives it to the new heads and to nothing else.                          *)
(***************************************************************************)
LEMMA ShrunkHeads ==
  ASSUME NEW P, NEW hs \in Seq(Hnode(P)), NEW new \in Seq(Hnode(P)),
         Shrunk(new, hs), Once(hs)
  PROVE  (Heads(hs) \cap Pnodes(new)) \cup
           UNION {HeadOf(new[i].queue) :
                    i \in {j \in DOMAIN new : new[j].queue # hs[j].queue}}
         = Heads(new)
<1>7. PICK d \in [DOMAIN hs -> Nat] : ShiftedBy(new, hs, d)
  BY ShrunkPlaces
<1>1. \A i \in DOMAIN hs :
        \A j \in DOMAIN new[i].queue :
          /\ j + d[i] \in DOMAIN hs[i].queue
          /\ new[i].queue[j] = hs[i].queue[j+d[i]]
  BY <1>7 DEF ShiftedBy
<1>2. DOMAIN new = DOMAIN hs
  BY DEF Shrunk
<1>3. \A i \in DOMAIN hs :
        /\ DOMAIN new[i].queue = 1..Len(new[i].queue)
        /\ Len(new[i].queue) \in Nat /\ d[i] \in Nat
  BY <1>2, HnodeType
<1> DEFINE moved == UNION {HeadOf(new[i].queue) :
                      i \in {j \in DOMAIN new : new[j].queue # hs[j].queue}}
<1>4. moved \subseteq Heads(new)
  BY DEF Heads
<1>5. Heads(hs) \cap Pnodes(new) \subseteq Heads(new)
  <2> SUFFICES ASSUME NEW p \in Heads(hs), p \in Pnodes(new)
               PROVE  p \in Heads(new)
    OBVIOUS
  <2>1. PICK i \in DOMAIN hs : 1 \in DOMAIN hs[i].queue /\ p = hs[i].queue[1]
    BY InHeads
  <2>6. PICK k \in DOMAIN new : \E j \in DOMAIN new[k].queue :
          p = new[k].queue[j]
    BY InPnodes
  <2>2. PICK j \in DOMAIN new[k].queue : p = new[k].queue[j]
    BY <2>6
  <2>3. p = hs[k].queue[j+d[k]] /\ j + d[k] \in DOMAIN hs[k].queue
    BY <1>1, <1>2, <2>2
  <2>4. j + d[k] = 1
    BY <1>2, <2>1, <2>3 DEF Once
  <2>5. j = 1
    BY <1>2, <1>3, <2>2, <2>4
  <2> QED
    BY <2>2, <2>5, InHeads
<1>6. ASSUME NEW p \in Heads(new), p \notin moved
      PROVE  p \in Heads(hs) /\ p \in Pnodes(new)
  <2>1. PICK i \in DOMAIN new : p \in HeadOf(new[i].queue)
    BY DEF Heads
  <2>2. new[i].queue = hs[i].queue
    BY <1>6, <2>1
  <2>3. p \in Heads(hs)
    BY <1>2, <2>1, <2>2 DEF Heads
  <2> QED
    BY <2>3, HeadsArePnodes
<1> QED
  BY <1>4, <1>5, <1>6

(***************************************************************************)
(* Where a budget belongs: its range starts at a multiple of the width,    *)
(* and no aligned range that starts at or below the budget starts later.   *)
(***************************************************************************)
LEMMA RangeStartFacts ==
  ASSUME NEW b \in Nat
  PROVE  /\ RangeStart(b) \in Nat /\ RangeStart(b) <= b
         /\ RangeStart(b) % LQB_RANGE = 0
         /\ \A s \in Nat : s % LQB_RANGE = 0 /\ s <= b => s <= RangeStart(b)
         /\ \A s \in Nat : s % LQB_RANGE = 0 /\ InRange(s, b)
              => RangeStart(b) = s
BY SMT DEF RangeStart, LQB_RANGE, InRange

LEMMA StopFacts ==
  ASSUME NEW P, NEW hs \in Seq(Hnode(P)), NEW b \in Nat
  PROVE  /\ \A i \in 1..Stop(hs, b)-1 : hs[i].range_start <= b
         /\ Stop(hs, b) <= Len(hs) =>
              \/ InRange(hs[Stop(hs, b)].range_start, b)
              \/ b < hs[Stop(hs, b)].range_start
<1> DEFINE T(h) == InRange(h.range_start, b) \/ b < h.range_start
           I == {i \in 1..Len(hs) : T(hs[i])}
           i == SelectInSeq(hs, LAMBDA h : \/ InRange(h.range_start, b)
                                           \/ b < h.range_start)
           k == Stop(hs, b)
<1>1. i = IF I # {} THEN Min(I) ELSE 0
  BY DEF SelectInSeq
<1>2. k = IF i = 0 THEN Len(hs) + 1 ELSE i
  BY DEF Stop
<1>3. I \in SUBSET Nat /\ Len(hs) \in Nat
  OBVIOUS
<1>4. \A j \in 1..Len(hs) : hs[j].range_start \in Nat
  BY HnodeType
<1>5. \A j \in 1..Len(hs) : j \in I <=> T(hs[j])
  OBVIOUS
<1> HIDE DEF i, k
<1>6. CASE I = {}
  <2>1. k = Len(hs) + 1
    BY <1>1, <1>2, <1>6
  <2>2. \A j \in 1..Len(hs) : ~T(hs[j])
    BY <1>5, <1>6
  <2>3. \A j \in 1..k-1 : hs[j].range_start <= b
    BY <1>3, <1>4, <2>1, <2>2
  <2>4. ~(k <= Len(hs))
    BY <1>3, <2>1
  <2> QED
    BY <2>3, <2>4 DEF k
<1>7. CASE I # {}
  <2>1. i \in I /\ \A y \in I : i <= y
    BY <1>1, <1>3, <1>7, LeastNat
  <2>2. i \in 1..Len(hs) /\ k = i /\ T(hs[k])
    BY <1>2, <2>1
  <2>3. \A j \in 1..k-1 : hs[j].range_start <= b
    <3> TAKE j \in 1..k-1
    <3>1. j \in 1..Len(hs) /\ ~(k <= j)
      BY <2>2, <1>3
    <3>2. ~T(hs[j])
      BY <1>5, <2>1, <2>2, <3>1
    <3> QED
      BY <1>4, <3>1, <3>2
  <2> QED
    BY <2>2, <2>3 DEF k
<1> QED
  BY <1>6, <1>7

(***************************************************************************)
(* lbf_get_hnode leaves the packets where they were, in a list as fine as  *)
(* before, and where it stopped is an hnode of the range of the budget.    *)
(***************************************************************************)
LEMMA NewHnodeFine ==
  ASSUME NEW P, NEW hs \in Seq(Hnode(P)), NEW b \in Nat, NEW tm, NEW lb,
         Fine(hs, tm, lb), ~HasHnode(hs, b)
  PROVE  LET k == Stop(hs, b)
             new == InsertAt(hs, k, create_hnode(b))
         IN  /\ Fine(new, tm, lb)
             /\ Pnodes(new) = Pnodes(hs) /\ Heads(new) = Heads(hs)
             /\ new[k].range_start = RangeStart(b)
<1> DEFINE k == Stop(hs, b)
           c == create_hnode(b)
           new == InsertAt(hs, k, c)
           old(j) == IF j < k THEN j ELSE j - 1
<1>1. k \in 1..Len(hs)+1 /\ Len(hs) \in Nat
  BY StopType
<1>2. c \in Hnode(P) /\ c.range_start = RangeStart(b) /\ c.queue = <<>>
  BY RangeStartType DEF create_hnode, Hnode
<1>3. /\ \A i \in 1..k-1 : hs[i].range_start <= b
      /\ k <= Len(hs) => b < hs[k].range_start
  BY <1>1, StopFacts DEF HasHnode
<1> HIDE DEF k, c
<1>4. /\ new \in Seq(Hnode(P)) /\ Len(new) = Len(hs) + 1
      /\ \A j \in 1..Len(hs)+1 :
           new[j] = IF j < k THEN hs[j] ELSE IF j = k THEN c ELSE hs[j-1]
  BY <1>1, <1>2, InsertAtType, InsertAtLength, InsertAtElements
<1>5. DOMAIN new = 1..Len(hs)+1 /\ DOMAIN hs = 1..Len(hs)
  BY <1>4
<1> HIDE DEF new
<1>6. /\ new[k].range_start = RangeStart(b) /\ new[k].queue = <<>>
      /\ DOMAIN new[k].queue = {} /\ k \in DOMAIN new
  <2>1. new[k] = c
    BY <1>1, <1>4
  <2>2. DOMAIN <<>> = {}
    OBVIOUS
  <2> QED
    BY <1>1, <1>2, <1>5, <2>1, <2>2
<1>7. \A j \in DOMAIN new \ {k} :
        old(j) \in DOMAIN hs /\ new[j] = hs[old(j)]
  BY <1>1, <1>4, <1>5
<1>8. \A i \in DOMAIN hs : \E j \in DOMAIN new \ {k} :
        old(j) = i /\ new[j] = hs[i]
  <2> TAKE i \in DOMAIN hs
  <2>1. CASE i < k
    <3>1. i \in DOMAIN new \ {k} /\ old(i) = i
      BY <1>1, <1>5, <2>1
    <3> QED
      BY <1>7, <3>1
  <2>2. CASE ~(i < k)
    <3>1. i + 1 \in DOMAIN new \ {k} /\ old(i + 1) = i
      BY <1>1, <1>5, <2>2
    <3> QED
      BY <1>7, <3>1
  <2> QED
    BY <2>1, <2>2
<1>9. \A i, j \in DOMAIN new \ {k} :
        (i < j => old(i) < old(j)) /\ (old(i) = old(j) => i = j)
  BY <1>1, <1>5
<1>10. \A i \in DOMAIN hs : hs[i].range_start \in Nat
  BY HnodeType
<1>11. RangeStart(b) \in Nat /\ RangeStart(b) <= b
  BY RangeStartFacts
<1>12. \A i \in DOMAIN hs : i < k => hs[i].range_start <= RangeStart(b)
  <2> SUFFICES ASSUME NEW i \in DOMAIN hs, i < k
               PROVE  hs[i].range_start <= RangeStart(b)
    OBVIOUS
  <2>1. hs[i].range_start <= b /\ hs[i].range_start % LQB_RANGE = 0
    BY <1>1, <1>3, <1>5 DEF Fine, Aligned
  <2> QED
    BY <1>10, <2>1, RangeStartFacts
<1>13. \A i \in DOMAIN hs : k <= i => RangeStart(b) <= hs[i].range_start
  <2> SUFFICES ASSUME NEW i \in DOMAIN hs, k <= i
               PROVE  RangeStart(b) <= hs[i].range_start
    OBVIOUS
  <2>1. k \in DOMAIN hs /\ b < hs[k].range_start
    BY <1>1, <1>3, <1>5
  <2>2. hs[k].range_start <= hs[i].range_start
    BY <1>1, <1>5, <1>10, <2>1 DEF Fine, RangesSorted
  <2> QED
    BY <1>10, <1>11, <2>1, <2>2
<1>14. RangesSorted(new)
  <2> SUFFICES ASSUME NEW i \in DOMAIN new, NEW j \in DOMAIN new, i < j
               PROVE  new[i].range_start <= new[j].range_start
    BY DEF RangesSorted
  <2>1. CASE i = k
    <3>1. j \in DOMAIN new \ {k} /\ k <= old(j)
      BY <1>1, <1>5, <2>1
    <3> QED
      BY <1>6, <1>7, <1>13, <2>1, <3>1
  <2>2. CASE j = k
    <3>1. i \in DOMAIN new \ {k} /\ old(i) < k
      BY <1>1, <1>5, <2>2
    <3> QED
      BY <1>6, <1>7, <1>12, <2>2, <3>1
  <2>3. CASE i # k /\ j # k
    <3>1. old(i) < old(j)
      BY <1>9, <2>3
    <3> HIDE DEF old
    <3> QED
      BY <1>7, <2>3, <3>1 DEF Fine, RangesSorted
  <2> QED
    BY <2>1, <2>2, <2>3
<1> HIDE DEF old
<1>15. Aligned(new)
  BY <1>6, <1>7, RangeStartFacts DEF Fine, Aligned
<1>16. QueuesSorted(new, tm)
  BY <1>6, <1>7 DEF Fine, QueuesSorted
<1>17. OwnRanges(new, lb)
  BY <1>6, <1>7 DEF Fine, OwnRanges
<1>18. Once(new)
  BY <1>6, <1>7, <1>9 DEF Fine, Once
<1>19. Pnodes(new) = Pnodes(hs)
  <2>2. ASSUME NEW p \in Pnodes(new) PROVE p \in Pnodes(hs)
    <3>1. PICK i \in DOMAIN new : \E j \in DOMAIN new[i].queue :
            p = new[i].queue[j]
      BY InPnodes
    <3>2. i \in DOMAIN new \ {k}
      BY <1>6, <3>1
    <3>3. old(i) \in DOMAIN hs /\ new[i] = hs[old(i)]
      BY <1>7, <3>2
    <3> QED
      BY <3>1, <3>3, InPnodes
  <2>3. ASSUME NEW p \in Pnodes(hs) PROVE p \in Pnodes(new)
    <3>1. PICK i \in DOMAIN hs : \E j \in DOMAIN hs[i].queue :
            p = hs[i].queue[j]
      BY InPnodes
    <3>2. PICK m \in DOMAIN new : new[m] = hs[i]
      BY <1>8
    <3> QED
      BY <3>1, <3>2, InPnodes
  <2> QED
    BY <2>2, <2>3
<1>20. Heads(new) = Heads(hs)
  <2>1. HeadOf(<<>>) = {}
    BY DEF HeadOf
  <2>2. \A i \in DOMAIN new \ {k} :
          \E m \in DOMAIN hs : new[i].queue = hs[m].queue
    BY <1>7
  <2>3. \A m \in DOMAIN hs : \E i \in DOMAIN new : new[i].queue = hs[m].queue
    BY <1>8
  <2>4. HeadOf(new[k].queue) = {}
    BY <1>6, <2>1
  <2> QED
    BY <2>2, <2>3, <2>4 DEF Heads
<1> QED
  BY <1>6, <1>14, <1>15, <1>16, <1>17, <1>18, <1>19, <1>20 DEF Fine, new, k, c

LEMMA GetHnodeFine ==
  ASSUME NEW P, NEW hs \in Seq(Hnode(P)), NEW b \in Nat, NEW tm, NEW lb,
         Fine(hs, tm, lb)
  PROVE  /\ Fine(lbf_get_hnode(hs, b), tm, lb)
         /\ Pnodes(lbf_get_hnode(hs, b)) = Pnodes(hs)
         /\ Heads(lbf_get_hnode(hs, b)) = Heads(hs)
         /\ lbf_get_hnode(hs, b)[Stop(hs, b)].range_start = RangeStart(b)
<1>1. CASE HasHnode(hs, b)
  <2> DEFINE k == Stop(hs, b)
  <2>1. k \in 1..Len(hs) /\ InRange(hs[k].range_start, b)
    BY <1>1, StopType DEF HasHnode
  <2>2. k \in DOMAIN hs /\ hs[k].range_start \in Nat
    BY <2>1, HnodeType
  <2>3. hs[k].range_start % LQB_RANGE = 0
    BY <2>2 DEF Fine, Aligned
  <2>4. hs[k].range_start = RangeStart(b)
    BY <2>1, <2>2, <2>3, RangeStartFacts
  <2> QED
    BY <1>1, <2>4 DEF lbf_get_hnode
<1>2. CASE ~HasHnode(hs, b)
  BY <1>2, NewHnodeFine DEF lbf_get_hnode
<1> QED
  BY <1>1, <1>2

(***************************************************************************)
(* A packet that is not in the list joins the queue of an hnode of its     *)
(* range: the list stays fine, and it displaces the head of that queue or  *)
(* none.                                                                   *)
(***************************************************************************)
(* When the packet may join, what the list is afterwards, and its state.   *)
Joins(P, hs, i, p, tm, lb, tm2, lb2) ==
  /\ hs \in Seq(Hnode(P)) /\ i \in 1..Len(hs) /\ p \in P \ Pnodes(hs)
  /\ tm \in [P -> Nat] /\ tm2 \in [P -> Nat]
  /\ Fine(hs, tm, lb) /\ RangeStart(lb2[p]) = hs[i].range_start
  /\ \A q \in P \ {p} : tm2[q] = tm[q] /\ lb2[q] = lb[q]

Requeued(hs, i, queue) == [hs EXCEPT ![i].queue = queue]

Joined(hs, i, p, queue, tm2, lb2) ==
  LET new == Requeued(hs, i, queue)
  IN  /\ Fine(new, tm2, lb2)
      /\ Pnodes(new) = Pnodes(hs) \cup {p}
      /\ Heads(new) = IF Head(queue) = p
                        THEN (Heads(hs) \ HeadOf(hs[i].queue)) \cup {p}
                        ELSE Heads(hs)

LEMMA AddPnodeFine ==
  ASSUME NEW P, NEW hs, NEW i, NEW p, NEW tm, NEW lb, NEW tm2, NEW lb2,
         Joins(P, hs, i, p, tm, lb, tm2, lb2)
  PROVE  Joined(hs, i, p, pnode_queue_add(hs[i].queue, p, tm2), tm2, lb2)
<1> SUFFICES ASSUME hs \in Seq(Hnode(P)), i \in 1..Len(hs), p \in P,
                    p \notin Pnodes(hs),
                    tm \in [P -> Nat], tm2 \in [P -> Nat],
                    Fine(hs, tm, lb), RangeStart(lb2[p]) = hs[i].range_start,
                    \A q \in P \ {p} : tm2[q] = tm[q] /\ lb2[q] = lb[q]
             PROVE  Joined(hs, i, p, pnode_queue_add(hs[i].queue, p, tm2),
                           tm2, lb2)
  BY DEF Joins
<1> DEFINE q == hs[i].queue
           r == pnode_queue_add(q, p, tm2)
           new == Requeued(hs, i, r)
<1>1. /\ i \in DOMAIN hs /\ q \in Seq(P) /\ DOMAIN q = 1..Len(q)
      /\ Len(q) \in Nat
  BY HnodeType
<1>2. \A j \in DOMAIN q : q[j] \in Pnodes(hs) /\ q[j] \in P /\ q[j] # p
  BY <1>1, InPnodes
<1>3. \A m \in DOMAIN hs : \A j \in DOMAIN hs[m].queue :
        /\ hs[m].queue[j] \in P \ {p}
        /\ tm2[hs[m].queue[j]] = tm[hs[m].queue[j]]
        /\ lb2[hs[m].queue[j]] = lb[hs[m].queue[j]]
  <2> TAKE m \in DOMAIN hs
  <2> TAKE j \in DOMAIN hs[m].queue
  <2>1. hs[m].queue[j] \in Pnodes(hs)
    BY InPnodes
  <2>2. hs[m].queue[j] \in P
    BY HnodeType
  <2> QED
    BY <2>1, <2>2
<1>4. \A j, k \in 1..Len(q) : j < k => tm2[q[j]] <= tm2[q[k]]
  BY <1>1, <1>3 DEF Fine, QueuesSorted
<1> HIDE DEF q
<1>5. PICK k \in 1..Len(q)+1 :
        /\ r \in Seq(P) /\ Len(r) = Len(q) + 1
        /\ \A j \in 1..Len(q)+1 :
             r[j] = IF j < k THEN q[j] ELSE IF j = k THEN p ELSE q[j-1]
        /\ \A j \in 1..k-1 : tm2[q[j]] <= tm2[p]
        /\ \A j \in k..Len(q) : tm2[p] <= tm2[q[j]]
  BY <1>1, <1>4, QueueAddFacts
<1> HIDE DEF r
<1>6. /\ DOMAIN r = 1..Len(q)+1 /\ r[k] = p /\ k \in DOMAIN r
      /\ \A j \in DOMAIN r : j < k => r[j] = q[j]
      /\ \A j \in DOMAIN r : j > k => r[j] = q[j-1]
  <2>1. DOMAIN r = 1..Len(q)+1 /\ k \in DOMAIN r
    BY <1>5, LenProperties
  <2>2. \A j \in DOMAIN r :
          r[j] = IF j < k THEN q[j] ELSE IF j = k THEN p ELSE q[j-1]
    BY <1>5, <2>1
  <2>3. r[k] = p
    BY <1>1, <2>1, <2>2
  <2>4. \A j \in DOMAIN r : j < k => r[j] = q[j]
    BY <2>2
  <2>5. \A j \in DOMAIN r : j > k => r[j] = q[j-1]
    <3> SUFFICES ASSUME NEW j \in DOMAIN r, j > k PROVE r[j] = q[j-1]
      OBVIOUS
    <3>1. ~(j < k) /\ j # k
      BY <1>1, <2>1
    <3> QED
      BY <2>2, <3>1
  <2> QED
    BY <2>1, <2>3, <2>4, <2>5
<1> DEFINE old(j) == IF j < k THEN j ELSE j - 1
<1>7. /\ \A j \in DOMAIN r \ {k} : old(j) \in DOMAIN q /\ r[j] = q[old(j)]
      /\ \A j, m \in DOMAIN r \ {k} :
           (j < m => old(j) < old(m)) /\ (old(j) = old(m) => j = m)
  <2>1. \A j \in DOMAIN r \ {k} : old(j) \in DOMAIN q /\ r[j] = q[old(j)]
    <3> TAKE j \in DOMAIN r \ {k}
    <3>1. CASE j < k
      BY <1>1, <1>6, <3>1
    <3>2. CASE j > k
      BY SMTT(30), <1>1, <1>6, <3>2
    <3> QED
      BY <1>1, <1>6, <3>1, <3>2
  <2>2. \A j, m \in DOMAIN r \ {k} :
           (j < m => old(j) < old(m)) /\ (old(j) = old(m) => j = m)
    <3>1. \A j, m \in Int \ {k} :
            (j < m => old(j) < old(m)) /\ (old(j) = old(m) => j = m)
      BY <1>1
    <3>2. DOMAIN r \subseteq Int
      BY <1>1, <1>6
    <3> HIDE DEF old
    <3> QED
      BY <3>1, <3>2
  <2> QED
    BY <2>1, <2>2
<1>8. \A m \in DOMAIN q : \E j \in DOMAIN r \ {k} : old(j) = m
  <2> TAKE m \in DOMAIN q
  <2>1. CASE m < k
    <3>1. m \in DOMAIN r \ {k} /\ old(m) = m
      BY <1>1, <1>6, <2>1
    <3> QED
      BY <3>1
  <2>2. CASE ~(m < k)
    <3>1. m + 1 \in DOMAIN r \ {k} /\ old(m + 1) = m
      BY SMTT(30), <1>1, <1>6, <2>2
    <3> QED
      BY <3>1
  <2> QED
    BY <2>1, <2>2
<1>9. /\ DOMAIN new = DOMAIN hs
      /\ new[i].queue = r /\ new[i].range_start = hs[i].range_start
      /\ \A m \in DOMAIN hs \ {i} : new[m] = hs[m]
  <2>1. hs[i] \in Hnode(P)
    BY <1>1
  <2> QED
    BY <1>1, <2>1 DEF Hnode, Requeued
<1>10. QueuesSorted(new, tm2)
  <2>1. \A j, m \in DOMAIN r : j < m => tm2[r[j]] <= tm2[r[m]]
    <3> SUFFICES ASSUME NEW j \in DOMAIN r, NEW m \in DOMAIN r, j < m
                 PROVE  tm2[r[j]] <= tm2[r[m]]
      OBVIOUS
    <3>1. CASE j = k
      <4>1. old(m) \in k..Len(q) /\ m \in DOMAIN r \ {k}
        BY SMTT(30), <1>5, <1>6, <3>1
      <4> QED
        BY <1>5, <1>6, <1>7, <3>1, <4>1
    <3>2. CASE m = k
      <4>1. old(j) \in 1..k-1 /\ j \in DOMAIN r \ {k}
        BY <1>5, <1>6, <3>2
      <4> QED
        BY <1>5, <1>6, <1>7, <3>2, <4>1
    <3>3. CASE j # k /\ m # k
      <4>1. old(j) < old(m) /\ old(j) \in 1..Len(q) /\ old(m) \in 1..Len(q)
        BY <1>1, <1>7, <3>3
      <4>2. r[j] = q[old(j)] /\ r[m] = q[old(m)]
        BY <1>7, <3>3
      <4> HIDE DEF old
      <4> QED
        BY <1>4, <4>1, <4>2
    <3> QED
      BY <3>1, <3>2, <3>3
  <2> SUFFICES ASSUME NEW m \in DOMAIN hs, NEW j \in DOMAIN new[m].queue,
                      NEW n \in DOMAIN new[m].queue, j < n
               PROVE  tm2[new[m].queue[j]] <= tm2[new[m].queue[n]]
    BY <1>9 DEF QueuesSorted
  <2>2. CASE m = i
    BY <1>9, <2>1, <2>2
  <2>3. CASE m # i
    <3>1. new[m] = hs[m]
      BY <1>9, <2>3
    <3>2. tm[hs[m].queue[j]] <= tm[hs[m].queue[n]]
      BY <3>1 DEF Fine, QueuesSorted
    <3> QED
      BY <1>3, <3>1, <3>2
  <2> QED
    BY <2>2, <2>3
<1> HIDE DEF new, old
<1>11. RangesSorted(new) /\ Aligned(new)
  <2>1. \A m \in DOMAIN hs : new[m].range_start = hs[m].range_start
    BY <1>9
  <2> QED
    BY <1>9, <2>1 DEF Fine, RangesSorted, Aligned
<1>12. \A m \in DOMAIN new : \A j \in DOMAIN new[m].queue :
         \/ m = i /\ j = k /\ new[m].queue[j] = p
         \/ m = i /\ j \in DOMAIN r \ {k} /\ old(j) \in DOMAIN hs[m].queue
              /\ new[m].queue[j] = hs[m].queue[old(j)]
         \/ m # i /\ m \in DOMAIN hs /\ new[m] = hs[m]
  BY <1>6, <1>7, <1>9 DEF q
<1>13. OwnRanges(new, lb2)
  <2> SUFFICES ASSUME NEW m \in DOMAIN new, NEW j \in DOMAIN new[m].queue
               PROVE  RangeStart(lb2[new[m].queue[j]]) = new[m].range_start
    BY DEF OwnRanges
  <2>1. CASE m = i /\ j = k
    BY <1>6, <1>9, <2>1
  <2>2. CASE m = i /\ j # k
    <3>1. old(j) \in DOMAIN hs[i].queue /\ r[j] = hs[i].queue[old(j)]
      BY <1>7, <1>9, <2>2 DEF q
    <3>2. RangeStart(lb[hs[i].queue[old(j)]]) = hs[i].range_start
      BY <1>1, <3>1 DEF Fine, OwnRanges
    <3>3. lb2[hs[i].queue[old(j)]] = lb[hs[i].queue[old(j)]]
      BY <1>1, <1>3, <3>1
    <3> QED
      BY <1>9, <2>2, <3>1, <3>2, <3>3
  <2>3. CASE m # i
    <3>1. new[m] = hs[m] /\ m \in DOMAIN hs
      BY <1>9, <2>3
    <3>2. RangeStart(lb[hs[m].queue[j]]) = hs[m].range_start
      BY <3>1 DEF Fine, OwnRanges
    <3>3. lb2[hs[m].queue[j]] = lb[hs[m].queue[j]]
      BY <1>3, <3>1
    <3> QED
      BY <3>1, <3>2, <3>3
  <2> QED
    BY <2>1, <2>2, <2>3
<1>14. Once(new)
  <2> SUFFICES ASSUME NEW i1 \in DOMAIN new, NEW i2 \in DOMAIN new,
                      NEW j1 \in DOMAIN new[i1].queue,
                      NEW j2 \in DOMAIN new[i2].queue,
                      new[i1].queue[j1] = new[i2].queue[j2]
               PROVE  i1 = i2 /\ j1 = j2
    BY DEF Once
  <2> DEFINE o(m, j) == IF m = i THEN old(j) ELSE j
             isP(m, j) == m = i /\ j = k
  <2>1. \A m \in DOMAIN new : \A j \in DOMAIN new[m].queue :
          /\ isP(m, j) => new[m].queue[j] = p
          /\ ~isP(m, j) => /\ m \in DOMAIN hs /\ o(m, j) \in DOMAIN hs[m].queue
                           /\ new[m].queue[j] = hs[m].queue[o(m, j)]
                           /\ new[m].queue[j] # p
    <3> TAKE m \in DOMAIN new
    <3> TAKE j \in DOMAIN new[m].queue
    <3>1. ASSUME isP(m, j) PROVE new[m].queue[j] = p
      BY <1>12, <3>1
    <3>2. ASSUME ~isP(m, j)
          PROVE  /\ m \in DOMAIN hs /\ o(m, j) \in DOMAIN hs[m].queue
                 /\ new[m].queue[j] = hs[m].queue[o(m, j)]
      BY <1>1, <1>12, <3>2
    <3>3. ASSUME ~isP(m, j) PROVE new[m].queue[j] # p
      BY <1>3, <3>2, <3>3
    <3> QED
      BY <3>1, <3>2, <3>3
  <2>2. CASE isP(i1, j1) \/ isP(i2, j2)
    BY <2>1, <2>2
  <2>3. CASE ~isP(i1, j1) /\ ~isP(i2, j2)
    <3>1. i1 = i2 /\ o(i1, j1) = o(i2, j2)
      <4> HIDE DEF o, isP
      <4>1. /\ i1 \in DOMAIN hs /\ o(i1, j1) \in DOMAIN hs[i1].queue
            /\ i2 \in DOMAIN hs /\ o(i2, j2) \in DOMAIN hs[i2].queue
            /\ hs[i1].queue[o(i1, j1)] = hs[i2].queue[o(i2, j2)]
        BY <2>1, <2>3
      <4> QED
        BY <4>1 DEF Fine, Once
    <3>2. CASE i1 = i
      BY <1>7, <1>9, <2>3, <3>1, <3>2
    <3>3. CASE i1 # i
      BY <3>1, <3>3
    <3> QED
      BY <3>1, <3>2, <3>3
  <2> QED
    BY <2>2, <2>3
<1>15. Pnodes(new) = Pnodes(hs) \cup {p}
  <2>1. \A j \in DOMAIN r : r[j] = p \/ \E m \in DOMAIN q : r[j] = q[m]
    BY <1>6, <1>7
  <2>2. \A m \in DOMAIN q : \E j \in DOMAIN r : r[j] = q[m]
    BY <1>7, <1>8
  <2>3. ToSet(r) = ToSet(q) \cup {p}
    BY <1>6, <2>1, <2>2 DEF ToSet
  <2>4. ASSUME NEW x
        PROVE  x \in Pnodes(new) <=> x \in Pnodes(hs) \cup {p}
    <3>1. x \in Pnodes(new) <=>
            \/ x \in ToSet(r)
            \/ \E m \in DOMAIN hs \ {i} : x \in ToSet(hs[m].queue)
      <4>1. x \in Pnodes(new) <=> \E m \in DOMAIN hs : x \in ToSet(new[m].queue)
        BY <1>9 DEF Pnodes
      <4> QED
        BY <1>1, <1>9, <4>1
    <3>2. x \in Pnodes(hs) <=>
            \/ x \in ToSet(q)
            \/ \E m \in DOMAIN hs \ {i} : x \in ToSet(hs[m].queue)
      BY <1>1 DEF Pnodes, q
    <3> QED
      BY <2>3, <3>1, <3>2
  <2> QED
    BY <2>4
<1>16. Heads(new) = IF Head(r) = p
                      THEN (Heads(hs) \ HeadOf(q)) \cup {p} ELSE Heads(hs)
  <2>1. HeadOf(r) = {r[1]} /\ Head(r) = r[1] /\ 1 \in DOMAIN r
    <3>1. r \in Seq(P) /\ Len(r) >= 1 /\ Len(r) \in Nat
      BY <1>1, <1>5
    <3>2. r # <<>>
      BY <3>1, EmptySeq
    <3> QED
      BY <1>1, <1>6, <3>1, <3>2 DEF HeadOf
  <2> DEFINE others == UNION {HeadOf(hs[m].queue) : m \in DOMAIN hs \ {i}}
  <2>2. Heads(new) = others \cup {r[1]}
    BY <1>1, <1>9, <2>1 DEF Heads
  <2>3. Heads(hs) = others \cup HeadOf(q)
    BY <1>1 DEF Heads, q
  <2>4. others \cap HeadOf(q) = {}
    <3> SUFFICES ASSUME NEW m \in DOMAIN hs \ {i}, NEW x \in HeadOf(hs[m].queue),
                        x \in HeadOf(q)
                 PROVE  FALSE
      OBVIOUS
    <3>1. ASSUME NEW n \in DOMAIN hs, x \in HeadOf(hs[n].queue)
          PROVE  1 \in DOMAIN hs[n].queue /\ x = hs[n].queue[1]
      <4> DEFINE s == hs[n].queue
      <4>1. s \in Seq(P) /\ DOMAIN s = 1..Len(s) /\ Len(s) \in Nat
        BY HnodeType
      <4>2. x \in HeadOf(s)
        BY <3>1
      <4> HIDE DEF s
      <4>3. s # <<>> /\ x = Head(s)
        BY <4>2 DEF HeadOf
      <4>4. Len(s) >= 1
        BY <4>1, <4>3, EmptySeq
      <4>5. 1 \in DOMAIN s /\ x = s[1]
        BY <4>1, <4>3, <4>4
      <4> QED
        BY <4>5 DEF s
    <3>2. /\ 1 \in DOMAIN hs[m].queue /\ x = hs[m].queue[1]
          /\ 1 \in DOMAIN hs[i].queue /\ x = hs[i].queue[1]
      BY <1>1, <3>1 DEF q
    <3>3. m \in DOMAIN hs /\ Once(hs)
      BY DEF Fine
    <3>4. hs[m].queue[1] = hs[i].queue[1]
      BY <3>2
    <3>5. m = i
      BY <1>1, <3>2, <3>3, <3>4 DEF Once
    <3> QED
      BY <3>5
  <2>5. CASE k = 1
    BY <1>6, <2>1, <2>2, <2>3, <2>4, <2>5
  <2>6. CASE k # 1
    <3>1. r[1] = q[1] /\ 1 \in DOMAIN q
      BY <1>1, <1>5, <1>6, <2>6
    <3>2. q # <<>> /\ HeadOf(q) = {q[1]}
      <4>1. Len(q) >= 1 /\ Len(q) \in Nat
        BY <1>1, <3>1
      <4>2. q # <<>>
        BY <4>1, EmptySeq
      <4> QED
        BY <1>1, <4>1, <4>2 DEF HeadOf
    <3>3. Head(r) # p
      BY <1>2, <2>1, <3>1 DEF q
    <3> QED
      BY <2>2, <2>3, <3>1, <3>2, <3>3
  <2> QED
    BY <2>5, <2>6
<1> QED
  BY <1>10, <1>11, <1>13, <1>14, <1>15, <1>16 DEF Joined, Fine, new, r, q

(***************************************************************************)
(* Removals at the fronts of queues, as the searches and remove_pnode make *)
(* them.                                                                   *)
(***************************************************************************)
LEMMA TailsSelf ==
  ASSUME NEW S, NEW s \in Seq(S)
  PROVE  Tails(s, s)
<1>1. Len(s) \in Nat /\ 0 \in 0..Len(s) /\ Len(s) = Len(s) - 0
  BY LenProperties
<1>2. \A j \in 1..Len(s) : s[j] = s[j+0]
  OBVIOUS
<1> QED
  BY <1>1, <1>2 DEF Tails

LEMMA TailsTail ==
  ASSUME NEW S, NEW s \in Seq(S), NEW t \in Seq(S), t # <<>>, Tails(t, s)
  PROVE  Tails(Tail(t), s)
<1>1. PICK d \in 0..Len(s) : /\ Len(t) = Len(s) - d
                             /\ \A j \in 1..Len(t) : t[j] = s[j+d]
  BY DEF Tails
<1> DEFINE u == Tail(t)
<1>2. /\ Len(u) = Len(t) - 1 /\ \A j \in 1..Len(u) : u[j] = t[j+1]
      /\ Len(t) \in Nat \ {0} /\ Len(s) \in Nat
  BY HeadTailProperties, EmptySeq, LenProperties
<1> HIDE DEF u
<1>3. d + 1 \in 0..Len(s) /\ Len(u) = Len(s) - (d + 1)
  BY <1>1, <1>2
<1>4. \A j \in 1..Len(u) : u[j] = s[j+(d+1)]
  <2> TAKE j \in 1..Len(u)
  <2>1. j + 1 \in 1..Len(t) /\ (j + 1) + d = j + (d + 1)
    BY <1>1, <1>2
  <2>2. u[j] = t[j+1] /\ t[j+1] = s[(j+1)+d]
    BY <1>1, <1>2, <2>1
  <2> QED
    BY <2>1, <2>2
<1> QED
  BY <1>3, <1>4 DEF Tails, u

SetQueues(hs, f) == [i \in DOMAIN hs |-> [hs[i] EXCEPT !.queue = f[i]]]

LEMMA QueuesShrunk ==
  ASSUME NEW P, NEW hs \in Seq(Hnode(P)), NEW f \in [DOMAIN hs -> Seq(P)],
         \A i \in DOMAIN hs : Tails(f[i], hs[i].queue)
  PROVE  /\ SetQueues(hs, f) \in Seq(Hnode(P)) /\ Shrunk(SetQueues(hs, f), hs)
         /\ \A i \in DOMAIN hs : SetQueues(hs, f)[i].queue = f[i]
<1> DEFINE new == SetQueues(hs, f)
<1>1. new \in Seq(Hnode(P))
  BY MapQueueType DEF SetQueues
<1>2. ASSUME NEW i \in DOMAIN hs
      PROVE  new[i].queue = f[i] /\ new[i].range_start = hs[i].range_start
  <2>1. hs[i] \in Hnode(P)
    OBVIOUS
  <2> QED
    BY <2>1 DEF Hnode, SetQueues
<1>3. Shrunk(new, hs)
  <2>1. DOMAIN new = DOMAIN hs
    BY DEF SetQueues
  <2> HIDE DEF new
  <2> QED
    BY <1>2, <2>1 DEF Shrunk
<1> QED
  BY <1>1, <1>2, <1>3

(* The first of what is left of a queue leaves the list with it.           *)
LEMMA HeadGone ==
  ASSUME NEW P, NEW hs \in Seq(Hnode(P)), NEW new \in Seq(Hnode(P)),
         Shrunk(new, hs), Once(hs), NEW i \in DOMAIN hs,
         NEW t \in Seq(P), t # <<>>, Tails(t, hs[i].queue),
         new[i].queue = Tail(t)
  PROVE  /\ Head(t) \in Pnodes(hs) /\ Head(t) \notin Pnodes(new)
         /\ \E j \in DOMAIN hs[i].queue : Head(t) = hs[i].queue[j]
<1> DEFINE q == hs[i].queue
<1>1. PICK d \in 0..Len(q) : /\ Len(t) = Len(q) - d
                             /\ \A j \in 1..Len(t) : t[j] = q[j+d]
  BY DEF Tails
<1>2. DOMAIN q = 1..Len(q) /\ Len(q) \in Nat
  BY HnodeType
<1>3. /\ Len(Tail(t)) = Len(t) - 1 /\ Len(t) \in Nat \ {0}
      /\ \A j \in 1..Len(Tail(t)) : Tail(t)[j] = t[j+1]
      /\ Tail(t) \in Seq(P) /\ Head(t) = t[1]
  BY HeadTailProperties, EmptySeq
<1> HIDE DEF q
<1>4. 1 + d \in DOMAIN q /\ Head(t) = q[1+d]
  BY <1>1, <1>2, <1>3
<1>5. Head(t) \in Pnodes(hs)
  BY <1>4, InPnodes DEF q
<1>6. ASSUME Head(t) \in Pnodes(new) PROVE FALSE
  <2>1. PICK k \in DOMAIN new : \E j \in DOMAIN new[k].queue :
          Head(t) = new[k].queue[j]
    BY <1>6, InPnodes
  <2>2. PICK j \in DOMAIN new[k].queue : Head(t) = new[k].queue[j]
    BY <2>1
  <2>3. PICK e \in [DOMAIN hs -> Nat] : ShiftedBy(new, hs, e)
    BY ShrunkPlaces
  <2>4. k \in DOMAIN hs
    BY DEF Shrunk
  <2>5. /\ j + e[k] \in DOMAIN hs[k].queue
        /\ hs[k].queue[j+e[k]] = q[1+d]
    BY <1>4, <2>2, <2>3, <2>4 DEF ShiftedBy
  <2>6. k = i
    BY <1>4, <2>4, <2>5 DEF Once, q
  <2>7. DOMAIN Tail(t) = 1..Len(Tail(t)) /\ j \in DOMAIN Tail(t)
    BY <1>3, <2>2, <2>6, LenProperties
  <2>8. j + 1 \in 1..Len(t) /\ (j + 1) + d \in DOMAIN q
    BY <1>1, <1>2, <1>3, <2>7
  <2>9. Head(t) = q[(j+1)+d]
    <3>1. Tail(t)[j] = t[j+1]
      BY <1>3, <2>7
    <3>2. t[j+1] = q[(j+1)+d]
      BY <1>1, <2>8
    <3> QED
      BY <2>2, <2>6, <3>1, <3>2
  <2>10. (j + 1) + d = 1 + d
    BY <1>4, <2>8, <2>9 DEF Once, q
  <2> QED
    BY <2>7, <2>10, <1>1, <1>2, <1>3
<1> QED
  BY <1>4, <1>5, <1>6 DEF q

LEMMA PopHeadFacts ==
  ASSUME NEW P, NEW hs \in Seq(Hnode(P)), NEW p \in P, Once(hs),
         p \in Heads(hs)
  PROVE  /\ Shrunk(PopHead(hs, p), hs)
         /\ Pnodes(PopHead(hs, p)) = Pnodes(hs) \ {p}
<1> DEFINE new == PopHead(hs, p)
           pop(i) == hs[i].queue # <<>> /\ Head(hs[i].queue) = p
<1>1. new \in Seq(Hnode(P)) /\ DOMAIN new = DOMAIN hs
  BY PopHeadType DEF PopHead
<1>2. ASSUME NEW i \in DOMAIN hs
      PROVE  /\ new[i].range_start = hs[i].range_start
             /\ new[i].queue = IF pop(i) THEN Tail(hs[i].queue)
                               ELSE hs[i].queue
  <2>1. hs[i] \in Hnode(P)
    OBVIOUS
  <2> QED
    BY <2>1 DEF PopHead, Hnode
<1> HIDE DEF new
<1>3. Shrunk(new, hs)
  <2> SUFFICES ASSUME NEW i \in DOMAIN hs
               PROVE  Tails(new[i].queue, hs[i].queue)
    BY <1>1, <1>2 DEF Shrunk
  <2>1. hs[i].queue \in Seq(P)
    BY HnodeType
  <2> QED
    BY <1>2, <2>1, TailsSelf, TailsTail
<1>4. Pnodes(new) \subseteq Pnodes(hs)
  <2>1. PICK e \in [DOMAIN hs -> Nat] : ShiftedBy(new, hs, e)
    BY <1>1, <1>3, ShrunkPlaces
  <2> SUFFICES ASSUME NEW x \in Pnodes(new) PROVE x \in Pnodes(hs)
    OBVIOUS
  <2>2. PICK i \in DOMAIN new : \E j \in DOMAIN new[i].queue :
          x = new[i].queue[j]
    BY InPnodes
  <2>3. i \in DOMAIN hs /\ \E j \in DOMAIN hs[i].queue : x = hs[i].queue[j]
    BY <1>1, <2>1, <2>2 DEF ShiftedBy
  <2> QED
    BY <2>3, InPnodes
<1>5. p \notin Pnodes(new)
  <2>1. PICK i \in DOMAIN hs : p \in HeadOf(hs[i].queue)
    BY DEF Heads
  <2>2. pop(i)
    BY <2>1 DEF HeadOf
  <2> DEFINE t == hs[i].queue
  <2>3. t \in Seq(P) /\ t # <<>> /\ Head(t) = p /\ new[i].queue = Tail(t)
    BY <1>2, <2>2, HnodeType
  <2>4. Tails(t, hs[i].queue)
    BY <2>3, TailsSelf
  <2> HIDE DEF t
  <2>6. Head(t) \notin Pnodes(new)
    BY <1>1, <1>3, <2>3, <2>4, HeadGone
  <2> QED
    BY <2>3, <2>6
<1>6. ASSUME NEW x \in Pnodes(hs), x # p
      PROVE  x \in Pnodes(new)
  <2>1. PICK i \in DOMAIN hs : \E j \in DOMAIN hs[i].queue :
          x = hs[i].queue[j]
    BY InPnodes
  <2>2. PICK j \in DOMAIN hs[i].queue : x = hs[i].queue[j]
    BY <2>1
  <2>3. CASE ~pop(i)
    BY <1>1, <1>2, <2>2, <2>3, InPnodes
  <2>4. CASE pop(i)
    <3> DEFINE q == hs[i].queue
    <3>1. q \in Seq(P) /\ DOMAIN q = 1..Len(q) /\ Len(q) \in Nat
      BY HnodeType
    <3>2. q # <<>> /\ Head(q) = p /\ new[i].queue = Tail(q)
      BY <1>2, <2>4
    <3>3. j \in DOMAIN q /\ x = q[j]
      BY <2>2
    <3> HIDE DEF q
    <3>4. /\ Tail(q) \in Seq(P) /\ Len(Tail(q)) = Len(q) - 1
          /\ \A m \in 1..Len(Tail(q)) : Tail(q)[m] = q[m+1]
          /\ DOMAIN Tail(q) = 1..Len(Tail(q)) /\ Head(q) = q[1]
      BY <3>1, <3>2, HeadTailProperties, LenProperties
    <3>5. j # 1
      BY <1>6, <3>2, <3>3, <3>4
    <3>6. j - 1 \in DOMAIN Tail(q) /\ (j - 1) + 1 = j
      BY <3>1, <3>3, <3>4, <3>5
    <3>7. Tail(q)[j-1] = x
      BY <3>3, <3>4, <3>6
    <3> QED
      BY <1>1, <3>2, <3>6, <3>7, InPnodes
  <2> QED
    BY <2>3, <2>4
<1> QED
  BY <1>3, <1>4, <1>5, <1>6 DEF new
=============================================================================
