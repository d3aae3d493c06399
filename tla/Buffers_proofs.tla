---------------------------- MODULE Buffers_proofs ----------------------------
(***************************************************************************)
(* What BPF programs leave for a user is read: the records of ring buffers,*)
(* for any rings, room, lengths and orders of commits; and those of perf   *)
(* buffers, for any processors, size of the rings and sizes of samples.    *)
(***************************************************************************)
EXTENDS BpfRingbuf, BpfPerfBuffer, FiniteSetTheorems, TLAPS

(***************************************************************************)
(* What makes RingbufSound inductive.  Records lie one after the other, so *)
(* a position of the ring is where some number of records ends.            *)
(***************************************************************************)
Records == [pos : Nat, len : Lens, state : {"busy", "commit", "discard"}]

End(l, i) == l[i].pos + roundup_len(l[i].len)

(* The position where the first k records of a log end.                    *)
Pos(l, k) == IF k = 0 THEN 0 ELSE End(l, k)

LogFine(l) ==
  /\ Len(l) <= MaxRecords
  /\ \A i \in 1..Len(l) : l[i].pos = Pos(l, i - 1)
  /\ \A i, j \in 1..Len(l) : i < j => End(l, i) <= l[j].pos

(* Of a log, the callback got just the committed among the first g.        *)
Given(l, s, g) ==
  /\ s \in Seq(1..g)
  /\ \A k \in 1..Len(s) : l[s[k]].state = "commit"
  /\ \A j, k \in 1..Len(s) : j < k => s[j] < s[k]
  /\ \A i \in 1..g : /\ l[i].state # "busy"
                     /\ l[i].state = "commit" => \E k \in 1..Len(s) : s[k] = i

(* The consumer position is past just the records that were given.         *)
Settled(l, c, s) == \E g \in 0..Len(l) : c = Pos(l, g) /\ Given(l, s, g)

(* The reader is past the header of a record and has not yet stored that.  *)
Taking == rd.pc \in {"callback", "release"}

ReaderStates ==
  [pc : {"idle", "next", "producer", "header", "callback", "release"}, todo : Seq(Maps),
   cons : Nat, prod : Nat, rec : Nat, cnt : Int, res : Int, new : BOOLEAN, read : Nat]

Types ==
  /\ rings \in Seq(Maps)
  /\ log \in [Maps -> Seq(Records)]
  /\ consumer \in [Maps -> Nat]
  /\ got \in [Maps -> Seq(Nat)]
  /\ rd \in ReaderStates

Logs == \A m \in Maps : LogFine(log[m]) /\ Pos(log[m], Len(log[m])) - consumer[m] <= Room

Others == \A m \in Maps : (Taking => m # Ring) => Settled(log[m], consumer[m], got[m])

(* What the reader holds of the ring it reads.                             *)
Takes(l, c, s) ==
  /\ rd.rec \in 1..Len(l)
  /\ c = Pos(l, rd.rec - 1) /\ rd.cons = Pos(l, rd.rec)
  /\ rd.pc = "callback" => l[rd.rec].state = "commit" /\ Given(l, s, rd.rec - 1)
  /\ rd.pc = "release" => Given(l, s, rd.rec)

Reader ==
  /\ rd.pc \notin {"idle", "next"} => rd.todo # <<>>
  /\ rd.pc \in {"producer", "header"} => rd.cons = consumer[Ring]
  /\ rd.pc \in {"header", "callback", "release"} => rd.prod <= Pos(log[Ring], Len(log[Ring]))
  /\ Taking => Takes(log[Ring], consumer[Ring], got[Ring])

IInv == Types /\ Logs /\ Others /\ Reader

(* What the kernel does to a log: records are added and busy ones end.     *)
Grown(l, n) ==
  /\ Len(l) <= Len(n)
  /\ \A i \in 1..Len(l) : /\ n[i].pos = l[i].pos /\ n[i].len = l[i].len
                          /\ l[i].state # "busy" => n[i].state = l[i].state
-----------------------------------------------------------------------------
(* A record takes up room.                                                 *)
LEMMA RecordRoom ==
  ASSUME NEW n \in Nat
  PROVE  roundup_len(n) \in Nat /\ roundup_len(n) >= 1
BY DEF roundup_len, HdrSz

(* The ends of the records are positions that grow from one to the next.   *)
LEMMA Positions ==
  ASSUME RingbufAssumption, NEW l \in Seq(Records), LogFine(l)
  PROVE  /\ \A k \in 0..Len(l) : Pos(l, k) \in Nat
         /\ \A j, k \in 0..Len(l) : j < k => Pos(l, j) < Pos(l, k)
<1>1. \A i \in 1..Len(l) : /\ l[i].pos \in Nat /\ roundup_len(l[i].len) \in Nat
                           /\ roundup_len(l[i].len) >= 1
  <2> TAKE i \in 1..Len(l)
  <2>1. l[i] \in Records
    OBVIOUS
  <2>2. l[i].pos \in Nat /\ l[i].len \in Nat
    BY <2>1 DEF Records, RingbufAssumption
  <2> QED
    BY <2>2, RecordRoom
<1>2. \A i \in 1..Len(l) : End(l, i) \in Nat /\ End(l, i) > l[i].pos
  BY <1>1 DEF End
<1>3. \A k \in 0..Len(l) : Pos(l, k) \in Nat
  BY <1>2 DEF Pos
<1>4. ASSUME NEW j \in 0..Len(l), NEW k \in 0..Len(l), j < k PROVE Pos(l, j) < Pos(l, k)
  <2>1. k \in 1..Len(l) /\ Pos(l, k) = End(l, k)
    BY <1>4 DEF Pos
  <2>2. CASE j = 0
    BY <2>1, <2>2, <1>1, <1>2 DEF Pos
  <2>3. CASE j # 0
    <3>1. j \in 1..Len(l) /\ Pos(l, j) = End(l, j)
      BY <2>3 DEF Pos
    <3>2. End(l, j) <= l[k].pos
      BY <2>1, <3>1, <1>4 DEF LogFine
    <3> QED
      BY <2>1, <3>1, <3>2, <1>1, <1>2
  <2> QED
    BY <2>2, <2>3
<1> QED
  BY <1>3, <1>4

(* A position belongs to one number of records.                            *)
LEMMA PositionIsOne ==
  ASSUME RingbufAssumption, NEW l \in Seq(Records), LogFine(l),
         NEW j \in 0..Len(l), NEW k \in 0..Len(l)
  PROVE  /\ Pos(l, j) = Pos(l, k) => j = k
         /\ Pos(l, j) < Pos(l, k) <=> j < k
         /\ Pos(l, j) <= Pos(l, Len(l))
<1>1. Len(l) \in Nat /\ Len(l) \in 0..Len(l) /\ j \in Int /\ k \in Int
  OBVIOUS
<1>2. j < k \/ k < j \/ j = k
  BY <1>1
<1>3. Pos(l, j) \in Nat /\ Pos(l, k) \in Nat /\ Pos(l, Len(l)) \in Nat
  BY <1>1, Positions
<1>4. /\ j < k => Pos(l, j) < Pos(l, k)
      /\ k < j => Pos(l, k) < Pos(l, j)
      /\ j < Len(l) => Pos(l, j) < Pos(l, Len(l))
  BY <1>1, Positions
<1> QED
  BY <1>1, <1>2, <1>3, <1>4

LEMMA ProducerIsLast ==
  ASSUME NEW m
  PROVE  log[m] \in Seq(Records) => producer(m) = Pos(log[m], Len(log[m]))
BY DEF producer, Pos, End

(* What the callback got is what FreedWasRead and InOrderOnce ask for.     *)
LEMMA GivenIsInOrder ==
  ASSUME NEW l \in Seq(Records), NEW g \in 0..Len(l), NEW s, Given(l, s, g)
  PROVE  /\ \A k \in 1..Len(s) : l[s[k]].state = "commit"
         /\ \A k \in 1..Len(s) : \A i \in 1..s[k] :
              /\ l[i].state # "busy"
              /\ l[i].state = "commit" => \E j \in 1..k : s[j] = i
         /\ \A k \in 1..Len(s) - 1 : s[k] < s[k + 1]
<1>1. /\ s \in Seq(1..g) /\ Len(s) \in Nat
      /\ \A k \in 1..Len(s) : l[s[k]].state = "commit"
      /\ \A j, k \in 1..Len(s) : j < k => s[j] < s[k]
      /\ \A i \in 1..g : /\ l[i].state # "busy"
                         /\ l[i].state = "commit" => \E k \in 1..Len(s) : s[k] = i
  <2>1. s \in Seq(1..g) /\ Len(s) \in Nat
    BY DEF Given
  <2> QED
    BY <2>1 DEF Given
<1>2. ASSUME NEW k \in 1..Len(s), NEW i \in 1..s[k]
      PROVE  /\ l[i].state # "busy"
             /\ l[i].state = "commit" => \E j \in 1..k : s[j] = i
  <2>1. s[k] \in 1..g /\ i \in 1..g
    BY <1>1
  <2>2. ASSUME l[i].state = "commit" PROVE \E j \in 1..k : s[j] = i
    <3>1. PICK j \in 1..Len(s) : s[j] = i
      BY <1>1, <2>1, <2>2
    <3>2. ~(k < j)
      <4> SUFFICES ASSUME k < j PROVE FALSE
        OBVIOUS
      <4>1. s[k] < s[j]
        BY <1>1
      <4> QED
        BY <3>1, <4>1, <2>1
    <3> QED
      BY <3>1, <3>2
  <2> QED
    BY <1>1, <2>1, <2>2
<1>3. \A k \in 1..Len(s) - 1 : s[k] < s[k + 1]
  <2> TAKE k \in 1..Len(s) - 1
  <2>1. k \in 1..Len(s) /\ k + 1 \in 1..Len(s) /\ k < k + 1
    BY <1>1
  <2> QED
    BY <1>1, <2>1
<1> QED
  BY <1>1, <1>2, <1>3

(* The callback gets one more record.                                      *)
LEMMA GiveOne ==
  ASSUME NEW l, NEW g \in Nat, NEW s, Given(l, s, g), l[g + 1].state = "commit"
  PROVE  Given(l, Append(s, g + 1), g + 1)
<1> DEFINE t == Append(s, g + 1)
<1>1. /\ s \in Seq(1..g) /\ Len(s) \in Nat
      /\ \A k \in 1..Len(s) : l[s[k]].state = "commit"
      /\ \A j, k \in 1..Len(s) : j < k => s[j] < s[k]
      /\ \A i \in 1..g : /\ l[i].state # "busy"
                         /\ l[i].state = "commit" => \E k \in 1..Len(s) : s[k] = i
  <2>1. s \in Seq(1..g) /\ Len(s) \in Nat
    BY DEF Given
  <2> QED
    BY <2>1 DEF Given
<1>2. /\ s \in Seq(1..(g + 1)) /\ g + 1 \in 1..(g + 1)
  BY <1>1
<1>3. /\ t \in Seq(1..(g + 1)) /\ Len(t) = Len(s) + 1 /\ t[Len(s) + 1] = g + 1
      /\ \A k \in 1..Len(s) : t[k] = s[k] /\ s[k] \in 1..g
  BY <1>1, <1>2
<1> HIDE DEF t
<1>4. \A k \in 1..Len(t) : k \in 1..Len(s) \/ k = Len(s) + 1
  BY <1>1, <1>3
<1>5. \A k \in 1..Len(t) : l[t[k]].state = "commit"
  <2> TAKE k \in 1..Len(t)
  <2>1. CASE k \in 1..Len(s)
    <3>1. t[k] = s[k] /\ l[s[k]].state = "commit"
      BY <1>1, <1>3, <2>1
    <3> QED
      BY <3>1
  <2>2. CASE k = Len(s) + 1
    <3>1. t[k] = g + 1
      BY <1>3, <2>2
    <3> QED
      BY <3>1
  <2> QED
    BY <1>4, <2>1, <2>2
<1>6. ASSUME NEW j \in 1..Len(t), NEW k \in 1..Len(t), j < k PROVE t[j] < t[k]
  <2>1. j \in 1..Len(s)
    BY <1>1, <1>3, <1>6
  <2>2. CASE k \in 1..Len(s)
    BY <1>1, <1>3, <1>6, <2>1, <2>2
  <2>3. CASE k = Len(s) + 1
    BY <1>3, <2>1, <2>3
  <2> QED
    BY <1>4, <2>2, <2>3
<1>7. ASSUME NEW i \in 1..(g + 1)
      PROVE  /\ l[i].state # "busy"
             /\ l[i].state = "commit" => \E k \in 1..Len(t) : t[k] = i
  <2>1. CASE i = g + 1
    BY <1>1, <1>3, <2>1
  <2>2. CASE i \in 1..g
    <3>1. l[i].state # "busy"
      BY <1>1, <2>2
    <3>2. ASSUME l[i].state = "commit" PROVE \E k \in 1..Len(t) : t[k] = i
      <4>1. PICK k \in 1..Len(s) : s[k] = i
        BY <1>1, <2>2, <3>2
      <4> QED
        BY <1>1, <1>3, <4>1
    <3> QED
      BY <3>1, <3>2
  <2> QED
    BY <2>1, <2>2
<1>8. Given(l, t, g + 1)
  BY <1>3, <1>5, <1>6, <1>7 DEF Given
<1> QED
  BY <1>8 DEF t

(* A discarded record is passed over.                                      *)
LEMMA PassOver ==
  ASSUME NEW l, NEW g \in Nat, NEW s, Given(l, s, g), l[g + 1].state = "discard"
  PROVE  Given(l, s, g + 1)
<1>1. /\ s \in Seq(1..(g + 1))
      /\ \A i \in 1..(g + 1) : i \in 1..g \/ i = g + 1
  BY DEF Given
<1> QED
  BY <1>1 DEF Given

LEMMA GrownPos ==
  ASSUME NEW l \in Seq(Records), NEW n \in Seq(Records), Grown(l, n), NEW k \in 0..Len(l)
  PROVE  Pos(n, k) = Pos(l, k)
<1>1. CASE k = 0
  BY <1>1 DEF Pos
<1>2. CASE k # 0
  <2>1. k \in 1..Len(l)
    BY <1>2
  <2>2. n[k].pos = l[k].pos /\ n[k].len = l[k].len
    BY <2>1 DEF Grown
  <2> QED
    BY <1>2, <2>2 DEF Pos, End
<1> QED
  BY <1>1, <1>2

LEMMA GrownGiven ==
  ASSUME NEW l \in Seq(Records), NEW n \in Seq(Records), Grown(l, n),
         NEW g \in 0..Len(l), NEW s, Given(l, s, g)
  PROVE  Given(n, s, g)
<1>1. s \in Seq(1..g) /\ \A k \in 1..Len(s) : s[k] \in 1..g
  BY DEF Given
<1>2. \A i \in 1..g : l[i].state # "busy"
  BY DEF Given
<1>3. \A i \in 1..g : n[i].state = l[i].state
  BY <1>2 DEF Grown
<1>4. \A k \in 1..Len(s) : n[s[k]].state = "commit"
  <2>1. \A k \in 1..Len(s) : l[s[k]].state = "commit"
    BY DEF Given
  <2> QED
    BY <1>1, <1>3, <2>1
<1> QED
  BY <1>1, <1>2, <1>3, <1>4 DEF Given

LEMMA GrownSettled ==
  ASSUME NEW l \in Seq(Records), NEW n \in Seq(Records), Grown(l, n),
         NEW c, NEW s, Settled(l, c, s)
  PROVE  Settled(n, c, s)
<1>1. PICK g \in 0..Len(l) : c = Pos(l, g) /\ Given(l, s, g)
  BY DEF Settled
<1>2. Pos(n, g) = Pos(l, g) /\ Given(n, s, g)
  BY <1>1, GrownPos, GrownGiven
<1>3. g \in 0..Len(n)
  BY DEF Grown
<1> QED
  BY <1>1, <1>2, <1>3 DEF Settled

LEMMA AddedRecord ==
  ASSUME RingbufAssumption, NEW l \in Seq(Records), LogFine(l), Len(l) < MaxRecords,
         NEW x \in Records, x.pos = Pos(l, Len(l))
  PROVE  /\ Append(l, x) \in Seq(Records) /\ LogFine(Append(l, x)) /\ Grown(l, Append(l, x))
         /\ Pos(Append(l, x), Len(Append(l, x))) = Pos(l, Len(l)) + roundup_len(x.len)
<1> DEFINE n == Append(l, x)
<1>1. /\ n \in Seq(Records) /\ Len(l) \in Nat /\ Len(n) = Len(l) + 1 /\ n[Len(l) + 1] = x
      /\ \A i \in 1..Len(l) : n[i] = l[i]
  OBVIOUS
<1> HIDE DEF n
<1>2. Grown(l, n)
  BY <1>1 DEF Grown
<1>3. \A k \in 0..Len(l) : Pos(n, k) = Pos(l, k)
  BY <1>1, <1>2, GrownPos
<1>4. \A i \in 1..Len(n) : i \in 1..Len(l) \/ i = Len(l) + 1
  BY <1>1
<1>5. \A i \in 1..Len(n) : n[i].pos = Pos(n, i - 1)
  <2> TAKE i \in 1..Len(n)
  <2>1. CASE i \in 1..Len(l)
    <3>1. l[i].pos = Pos(l, i - 1) /\ i - 1 \in 0..Len(l)
      BY <2>1, <1>1 DEF LogFine
    <3> QED
      BY <2>1, <3>1, <1>1, <1>3
  <2>2. CASE i = Len(l) + 1
    <3>1. n[i].pos = Pos(l, Len(l)) /\ i - 1 = Len(l) /\ Len(l) \in 0..Len(l)
      BY <2>2, <1>1
    <3> QED
      BY <3>1, <1>3
  <2> QED
    BY <1>4, <2>1, <2>2
<1>6. \A i \in 1..Len(l) : End(n, i) = End(l, i) /\ End(l, i) = Pos(l, i)
  BY <1>1 DEF End, Pos
<1>7. \A i, j \in 1..Len(n) : i < j => End(n, i) <= n[j].pos
  <2> SUFFICES ASSUME NEW i \in 1..Len(n), NEW j \in 1..Len(n), i < j
               PROVE  End(n, i) <= n[j].pos
    OBVIOUS
  <2>1. i \in 1..Len(l)
    BY <1>1
  <2>2. CASE j \in 1..Len(l)
    <3>1. End(l, i) <= l[j].pos
      BY <2>1, <2>2 DEF LogFine
    <3> QED
      BY <2>1, <2>2, <3>1, <1>1, <1>6
  <2>3. CASE j = Len(l) + 1
    <3>1. n[j].pos = Pos(l, Len(l))
      BY <2>3, <1>1
    <3>2. Pos(l, i) <= Pos(l, Len(l))
      BY <1>1, <2>1, PositionIsOne
    <3> QED
      BY <2>1, <3>1, <3>2, <1>6
  <2> QED
    BY <1>4, <2>2, <2>3
<1>8. Len(n) <= MaxRecords
  BY <1>1 DEF RingbufAssumption
<1>9. LogFine(n)
  BY <1>5, <1>7, <1>8 DEF LogFine
<1>10. Pos(n, Len(n)) = Pos(l, Len(l)) + roundup_len(x.len)
  BY <1>1 DEF Pos, End
<1> QED
  BY <1>1, <1>2, <1>9, <1>10 DEF n

LEMMA EndedRecord ==
  ASSUME NEW l \in Seq(Records), LogFine(l), NEW i \in 1..Len(l), l[i].state = "busy",
         NEW how \in {"commit", "discard"}
  PROVE  LET n == [l EXCEPT ![i].state = how]
         IN  n \in Seq(Records) /\ LogFine(n) /\ Grown(l, n) /\ Len(n) = Len(l)
<1> DEFINE x == [l[i] EXCEPT !.state = how]
           n == [l EXCEPT ![i].state = how]
<1>1. l[i] \in Records
  OBVIOUS
<1>2. x \in Records /\ x.pos = l[i].pos /\ x.len = l[i].len
  BY <1>1 DEF Records
<1>3. n = [l EXCEPT ![i] = x]
  OBVIOUS
<1> HIDE DEF x, n
<1>4. n \in Seq(Records) /\ Len(n) = Len(l)
  BY <1>2, <1>3
<1>5. n[i] = x /\ \A j \in 1..Len(l) : j # i => n[j] = l[j]
  BY <1>3
<1>6. \A j \in 1..Len(l) : n[j].pos = l[j].pos /\ n[j].len = l[j].len
  BY <1>2, <1>5
<1>7. Grown(l, n)
  BY <1>4, <1>5, <1>6 DEF Grown
<1>8. \A j \in 1..Len(l) : End(n, j) = End(l, j)
  BY <1>6 DEF End
<1>9. \A j \in 1..Len(l) : Pos(n, j - 1) = Pos(l, j - 1)
  BY <1>4, <1>7, GrownPos
<1>10. LogFine(n)
  BY <1>4, <1>6, <1>8, <1>9 DEF LogFine
<1> QED
  BY <1>4, <1>7, <1>10 DEF n

-----------------------------------------------------------------------------
(***************************************************************************)
(* Every step keeps the invariant.                                         *)
(***************************************************************************)
LEMMA InitIInv ==
  ASSUME RingbufAssumption, RingbufInit
  PROVE  IInv
<1>1. Types
  BY DEF RingbufInit, Types, ReaderStates, Idle, Records
<1>a. ASSUME NEW m \in Maps
      PROVE  log[m] = <<>> /\ got[m] = <<>> /\ consumer[m] = 0
  BY DEF RingbufInit
<1>b. /\ Len(<<>>) = 0 /\ LogFine(<<>>) /\ Pos(<<>>, 0) = 0 /\ Given(<<>>, <<>>, 0)
  BY DEF LogFine, Pos, Given
<1>2. Logs
  <2>1. ASSUME NEW m \in Maps
        PROVE  LogFine(log[m]) /\ Pos(log[m], Len(log[m])) - consumer[m] <= Room
    BY <1>a, <1>b DEF RingbufAssumption
  <2> QED
    BY <2>1 DEF Logs
<1>3. Others
  <2>1. ASSUME NEW m \in Maps
        PROVE  Settled(log[m], consumer[m], got[m])
    BY <1>a, <1>b DEF Settled
  <2> QED
    BY <2>1 DEF Others
<1>4. Reader
  BY DEF RingbufInit, Reader, Idle, Taking
<1> QED
  BY <1>1, <1>2, <1>3, <1>4 DEF IInv

(* The ring the reader is at is one of the maps.                           *)
LEMMA RingIsMap ==
  ASSUME Types, rd.todo # <<>>
  PROVE  Ring \in Maps /\ Tail(rd.todo) \in Seq(Maps)
<1>1. rd.todo \in Seq(Maps)
  BY DEF Types, ReaderStates
<1> QED
  BY <1>1 DEF Ring

LEMMA LogIInv ==
  ASSUME RingbufAssumption, IInv, NEW m \in Maps, NEW n \in Seq(Records), LogFine(n),
         Grown(log[m], n), Pos(n, Len(n)) - consumer[m] <= Room,
         log' = [log EXCEPT ![m] = n], UNCHANGED <<consumer, rings, rd, got, answer>>
  PROVE  IInv'
<1>1. Types /\ Logs /\ Others /\ Reader
  BY DEF IInv
<1>2. log \in [Maps -> Seq(Records)]
  BY <1>1 DEF Types, ReaderStates
<1>3. log'[m] = n /\ (\A x \in Maps : x # m => log'[x] = log[x]) /\ log' \in [Maps -> Seq(Records)]
  BY <1>2
<1>4. Types'
  BY <1>1, <1>3 DEF Types, ReaderStates
<1>5. Logs'
  BY <1>1, <1>3 DEF Logs
<1>6. ASSUME NEW x \in Maps, Settled(log[x], consumer[x], got[x])
      PROVE  Settled(log'[x], consumer[x], got[x])
  BY <1>2, <1>3, <1>6, GrownSettled
<1>7. Taking' = Taking /\ Ring' = Ring
  BY DEF Taking, Ring
<1>8. Others'
  <2> SUFFICES ASSUME NEW x \in Maps, Taking => x # Ring
               PROVE  Settled(log'[x], consumer[x], got[x])
    BY <1>7 DEF Others
  <2> QED
    BY <1>1, <1>6 DEF Others
<1>9. rd.pc \notin {"idle", "next"} => Ring \in Maps
  BY <1>1, RingIsMap DEF Reader
<1>10. ASSUME rd.pc \in {"header", "callback", "release"}
       PROVE  rd.prod <= Pos(log'[Ring], Len(log'[Ring]))
  <2>1. Ring \in Maps /\ rd.prod <= Pos(log[Ring], Len(log[Ring]))
    BY <1>1, <1>9, <1>10 DEF Reader
  <2>2. CASE Ring = m
    <3>1. Len(log[m]) \in 0..Len(n) /\ Len(log[m]) \in 0..Len(log[m]) /\ Len(n) \in 0..Len(n)
      BY <1>2 DEF Grown
    <3>2. Pos(n, Len(log[m])) = Pos(log[m], Len(log[m]))
      BY <1>2, <3>1, GrownPos
    <3>3. Pos(n, Len(log[m])) <= Pos(n, Len(n))
      BY <3>1, PositionIsOne
    <3>4. Pos(n, Len(log[m])) \in Nat /\ Pos(n, Len(n)) \in Nat /\ rd.prod \in Nat
      BY <1>1, <3>1, Positions DEF Types, ReaderStates
    <3> QED
      BY <1>3, <2>1, <2>2, <3>2, <3>3, <3>4
  <2>3. CASE Ring # m
    BY <1>3, <2>1, <2>3
  <2> QED
    BY <2>2, <2>3
<1>11. ASSUME Taking PROVE Takes(log[Ring], consumer[Ring], got[Ring])'
  <2>1. Ring \in Maps /\ Takes(log[Ring], consumer[Ring], got[Ring])
    BY <1>1, <1>9, <1>11 DEF Reader, Taking
  <2>2. CASE Ring = m
    <3>1. /\ rd.rec \in 1..Len(log[m]) /\ rd.rec \in 0..Len(log[m])
          /\ rd.rec - 1 \in 0..Len(log[m]) /\ rd.rec \in 1..Len(n)
      BY <1>2, <2>1, <2>2 DEF Takes, Grown
    <3>2. Pos(n, rd.rec) = Pos(log[m], rd.rec) /\ Pos(n, rd.rec - 1) = Pos(log[m], rd.rec - 1)
      BY <1>2, <3>1, GrownPos
    <3>3. ASSUME rd.pc = "callback" PROVE n[rd.rec].state = "commit" /\ Given(n, got[m], rd.rec - 1)
      <4>1. log[m][rd.rec].state = "commit" /\ Given(log[m], got[m], rd.rec - 1)
        BY <2>1, <2>2, <3>3 DEF Takes
      <4>2. n[rd.rec].state = "commit"
        BY <3>1, <4>1 DEF Grown
      <4> QED
        BY <1>2, <3>1, <4>1, <4>2, GrownGiven
    <3>4. ASSUME rd.pc = "release" PROVE Given(n, got[m], rd.rec)
      <4>1. Given(log[m], got[m], rd.rec)
        BY <2>1, <2>2, <3>4 DEF Takes
      <4> QED
        BY <1>2, <3>1, <4>1, GrownGiven
    <3>5. consumer[m] = Pos(n, rd.rec - 1) /\ rd.cons = Pos(n, rd.rec)
      BY <2>1, <2>2, <3>2 DEF Takes
    <3>6. Takes(n, consumer[m], got[m])
      BY <3>1, <3>3, <3>4, <3>5 DEF Takes
    <3>7. Ring' = m /\ log'[m] = n
      BY <1>3, <1>7, <2>2
    <3> QED
      BY <3>6, <3>7 DEF Takes
  <2>3. CASE Ring # m
    <3>1. log'[Ring] = log[Ring]
      BY <1>3, <2>1, <2>3
    <3> QED
      BY <1>7, <2>1, <3>1 DEF Takes
  <2> QED
    BY <2>2, <2>3
<1>12. Reader'
  BY <1>1, <1>7, <1>10, <1>11 DEF Reader
<1> QED
  BY <1>4, <1>5, <1>8, <1>12 DEF IInv

(* The kernel, on any CPU.                                                 *)
LEMMA ReserveIInv ==
  ASSUME RingbufAssumption, IInv, NEW m \in Maps, Reserve(m)
  PROVE  IInv'
<1>1. log[m] \in Seq(Records) /\ LogFine(log[m]) /\ consumer[m] \in Nat
  BY DEF IInv, Types, ReaderStates, Logs
<1>2. PICK l \in Lens :
        /\ producer(m) + roundup_len(l) - consumer[m] <= Room
        /\ log' = [log EXCEPT ![m] = Append(@, [pos |-> producer(m), len |-> l, state |-> "busy"])]
  BY DEF Reserve
<1>3. producer(m) = Pos(log[m], Len(log[m])) /\ producer(m) \in Nat
  BY <1>1, ProducerIsLast, Positions
<1> DEFINE x == [pos |-> producer(m), len |-> l, state |-> "busy"]
           n == Append(log[m], x)
<1>4. x \in Records /\ x.pos = Pos(log[m], Len(log[m])) /\ x.len = l
  BY <1>3 DEF Records
<1>5. log' = [log EXCEPT ![m] = n]
  BY <1>2
<1>6. Len(log[m]) < MaxRecords /\ UNCHANGED <<consumer, rings, rd, got, answer>>
  BY DEF Reserve
<1> HIDE DEF x
<1>7. /\ n \in Seq(Records) /\ LogFine(n) /\ Grown(log[m], n)
      /\ Pos(n, Len(n)) = Pos(log[m], Len(log[m])) + roundup_len(x.len)
  BY <1>1, <1>4, <1>6, AddedRecord
<1> HIDE DEF n
<1>8. Pos(n, Len(n)) - consumer[m] <= Room
  <2>1. Pos(n, Len(n)) = producer(m) + roundup_len(l)
    BY <1>3, <1>4, <1>7
  <2>2. roundup_len(l) \in Nat
    BY RecordRoom DEF RingbufAssumption
  <2> QED
    BY <1>1, <1>2, <1>3, <2>1, <2>2 DEF RingbufAssumption
<1> QED
  BY <1>5, <1>6, <1>7, <1>8, LogIInv

LEMMA FinishIInv ==
  ASSUME RingbufAssumption, IInv, NEW m \in Maps, NEW i \in DOMAIN log[m], Finish(m, i)
  PROVE  IInv'
<1>1. log[m] \in Seq(Records) /\ LogFine(log[m]) /\ i \in 1..Len(log[m])
  BY DEF IInv, Types, ReaderStates, Logs
<1>2. PICK how \in {"commit", "discard"} : log' = [log EXCEPT ![m][i].state = how]
  BY DEF Finish
<1> DEFINE n == [log[m] EXCEPT ![i].state = how]
<1>3. log' = [log EXCEPT ![m] = n]
  BY <1>2
<1>4. log[m][i].state = "busy" /\ UNCHANGED <<consumer, rings, rd, got, answer>>
  BY DEF Finish
<1>5. n \in Seq(Records) /\ LogFine(n) /\ Grown(log[m], n) /\ Len(n) = Len(log[m])
  BY <1>1, <1>4, EndedRecord
<1> HIDE DEF n
<1>6. Len(n) \in 0..Len(log[m])
  BY <1>1, <1>5
<1>7. Pos(n, Len(n)) = Pos(log[m], Len(n))
  BY <1>1, <1>5, <1>6, GrownPos
<1>8. Pos(log[m], Len(log[m])) - consumer[m] <= Room
  BY DEF IInv, Logs
<1>9. Pos(n, Len(n)) - consumer[m] <= Room
  BY <1>5, <1>7, <1>8
<1> QED
  BY <1>3, <1>4, <1>5, <1>9, LogIInv

(* Steps of the reader that leave the rings alone.                         *)
LEMMA QuietIInv ==
  ASSUME IInv, UNCHANGED <<log, consumer, got>>, Types', ~Taking, ~Taking', Reader'
  PROVE  IInv'
<1>1. Logs'
  BY DEF IInv, Logs
<1>2. \A m \in Maps : Settled(log[m], consumer[m], got[m])
  BY DEF IInv, Others
<1>3. \A m \in Maps : Settled(log'[m], consumer'[m], got'[m])
  BY <1>2
<1>4. Others'
  BY <1>3 DEF Others
<1> QED
  BY <1>1, <1>4 DEF IInv

LEMMA ReaderTypes ==
  ASSUME Types, UNCHANGED <<log, consumer, rings, got>>, rd' \in ReaderStates
  PROVE  Types'
BY DEF Types, ReaderStates

LEMMA RestIInv ==
  ASSUME IInv, UNCHANGED <<log, consumer, got>>, Types', ~Taking, rd'.pc \in {"idle", "next"}
  PROVE  IInv'
<1>1. ~Taking'
  BY DEF Taking
<1>2. Reader'
  BY <1>1 DEF Reader
<1> QED
  BY <1>1, <1>2, QuietIInv

LEMMA AddIInv ==
  ASSUME IInv, NEW m \in Maps, ring_buffer__add(m)
  PROVE  IInv'
<1>1. /\ rings' = Append(rings, m) /\ rd.pc = "idle"
      /\ UNCHANGED <<log, consumer, rd, got, answer>>
  BY DEF ring_buffer__add
<1>2. Types'
  BY <1>1 DEF IInv, Types, ReaderStates
<1> QED
  BY <1>1, <1>2, RestIInv DEF Taking

LEMMA CallIInv ==
  ASSUME IInv, Calling
  PROVE  IInv'
<1>1. Types
  BY DEF IInv
<1>2. PICK todo \in Seq(Maps) : rd' = Begin(todo)
  <2>1. CASE ring_buffer__consume
    BY <1>1, <2>1 DEF ring_buffer__consume, Types, ReaderStates
  <2>2. CASE ring_buffer__poll
    <3>1. PICK n \in 1..Len(rings) : \E todo \in [1..n -> Ready] : rd' = Begin(todo)
      BY <2>2 DEF ring_buffer__poll
    <3>2. PICK todo \in [1..n -> Ready] : rd' = Begin(todo)
      BY <3>1
    <3>3. Ready \subseteq Maps /\ n \in Nat
      BY <1>1 DEF Ready, Types, ReaderStates
    <3>4. todo \in Seq(Maps)
      BY <3>3
    <3> QED
      BY <3>2, <3>4
  <2> QED
    BY <2>1, <2>2 DEF Calling
<1>3. rd.pc = "idle" /\ UNCHANGED <<log, consumer, rings, got, answer>>
  BY DEF Calling, ring_buffer__consume, ring_buffer__poll
<1>4. rd' = [pc |-> "next", todo |-> todo, cons |-> 0, prod |-> 0, rec |-> 0,
             cnt |-> 0, res |-> 0, new |-> FALSE, read |-> 0]
  BY <1>2 DEF Begin, Idle
<1>5. Types' /\ rd'.pc = "next"
  BY <1>1, <1>3, <1>4 DEF Types, ReaderStates
<1> QED
  BY <1>3, <1>5, RestIInv DEF Taking

(* The reader when it turns to a ring.                                     *)
Turned(r, c, n) == [r EXCEPT !.pc = "producer", !.cons = c, !.cnt = n]

LEMMA ToProducer ==
  ASSUME NEW r \in ReaderStates, NEW c \in Nat, NEW n \in Int
  PROVE  /\ Turned(r, c, n) \in ReaderStates
         /\ Turned(r, c, n).pc = "producer" /\ Turned(r, c, n).cons = c
         /\ Turned(r, c, n).todo = r.todo
<1>1. Turned(r, c, n) \in ReaderStates
  BY DEF Turned, ReaderStates
<1>2. Turned(r, c, n).pc = "producer"
  BY DEF Turned, ReaderStates
<1>3. Turned(r, c, n).cons = c /\ Turned(r, c, n).todo = r.todo
  BY DEF Turned, ReaderStates
<1> QED
  BY <1>1, <1>2, <1>3

LEMMA NextRingIInv ==
  ASSUME IInv, NextRing
  PROVE  IInv'
<1>1. Types /\ rd.pc = "next" /\ UNCHANGED <<log, consumer, rings, got>>
  BY DEF IInv, NextRing
<1>2. CASE rd.todo = <<>>
  <2>1. rd' = Idle
    BY <1>2 DEF NextRing, Return
  <2>2. Types' /\ rd'.pc = "idle"
    BY <1>1, <2>1 DEF Types, ReaderStates, Idle
  <2> QED
    BY <1>1, <2>2, RestIInv DEF Taking
<1>3. CASE rd.todo # <<>>
  <2>1. rd' = [rd EXCEPT !.pc = "producer", !.cons = consumer[Ring], !.cnt = 0]
    BY <1>3 DEF NextRing
  <2>2. Ring \in Maps
    BY <1>1, <1>3, RingIsMap
  <2> DEFINE c == consumer[Ring]
  <2>5. c \in Nat /\ rd' = Turned(rd, c, 0)
    BY <1>1, <2>1, <2>2 DEF Types, Turned
  <2> HIDE DEF c
  <2>7. rd \in ReaderStates
    BY <1>1 DEF Types
  <2>6. rd' \in ReaderStates
    BY <2>5, <2>7, ToProducer
  <2>8. rd'.pc = "producer" /\ rd'.cons = c /\ rd'.todo = rd.todo
    BY <2>5, <2>7, ToProducer
  <2>3. Types' /\ rd'.pc = "producer" /\ rd'.cons = consumer[Ring] /\ rd'.todo = rd.todo
    BY <1>1, <2>6, <2>8, ReaderTypes DEF c
  <2>4. Reader' /\ ~Taking' /\ ~Taking
    BY <1>1, <1>3, <2>3 DEF Reader, Taking, Ring
  <2> QED
    BY <1>1, <2>3, <2>4, QuietIInv
<1> QED
  BY <1>2, <1>3

LEMMA LoadProducerIInv ==
  ASSUME RingbufAssumption, IInv, LoadProducer
  PROVE  IInv'
<1>1. /\ Types /\ Logs /\ Reader /\ rd.pc = "producer"
      /\ UNCHANGED <<log, consumer, rings, got>>
  BY DEF IInv, LoadProducer
<1>2. rd.todo # <<>> /\ rd.cons = consumer[Ring] /\ Ring \in Maps
  BY <1>1, RingIsMap DEF Reader
<1>3. log[Ring] \in Seq(Records) /\ LogFine(log[Ring])
  BY <1>1, <1>2 DEF Types, ReaderStates, Logs
<1>4. producer(Ring) = Pos(log[Ring], Len(log[Ring])) /\ producer(Ring) \in Nat
  BY <1>3, ProducerIsLast, Positions
<1>5. rd' = [rd EXCEPT !.prod = producer(Ring), !.new = FALSE, !.pc = "header"]
  BY DEF LoadProducer
<1>6. /\ Types' /\ rd'.pc = "header" /\ rd'.cons = rd.cons /\ rd'.todo = rd.todo
      /\ rd'.prod = Pos(log[Ring], Len(log[Ring]))
  BY <1>1, <1>4, <1>5 DEF Types, ReaderStates
<1>7. rd'.prod <= Pos(log[Ring], Len(log[Ring]))
  BY <1>4, <1>6
<1>8. Ring' = Ring /\ ~Taking /\ ~Taking'
  BY <1>1, <1>6 DEF Ring, Taking
<1>9. Reader'
  BY <1>1, <1>2, <1>6, <1>7, <1>8 DEF Reader
<1> QED
  BY <1>1, <1>6, <1>8, <1>9, QuietIInv

(* The header the reader looks at is that of the first record that was not *)
(* given.                                                                  *)
LEMMA HereIsNext ==
  ASSUME RingbufAssumption, IInv, rd.pc = "header", ~Behind
  PROVE  \E g \in Nat : /\ Here = g + 1 /\ g + 1 \in 1..Len(log[Ring])
                        /\ consumer[Ring] = Pos(log[Ring], g)
                        /\ Given(log[Ring], got[Ring], g)
<1>1. Types /\ Logs /\ Others /\ Reader
  BY DEF IInv
<1>2. Ring \in Maps /\ rd.cons = consumer[Ring]
  BY <1>1, RingIsMap DEF Reader
<1> DEFINE l == log[Ring]
<1>3. l \in Seq(Records) /\ LogFine(l)
  BY <1>1, <1>2 DEF Types, Logs
<1>4. Settled(l, consumer[Ring], got[Ring])
  BY <1>1, <1>2 DEF Others, Taking
<1>5. rd.cons < rd.prod /\ rd.prod <= Pos(l, Len(l)) /\ rd.cons \in Nat /\ rd.prod \in Nat
  BY <1>1 DEF Behind, Reader, Types, ReaderStates
<1> HIDE DEF l
<1>6. PICK g \in 0..Len(l) : consumer[Ring] = Pos(l, g) /\ Given(l, got[Ring], g)
  BY <1>4 DEF Settled
<1>7. Len(l) \in Nat /\ Len(l) \in 0..Len(l) /\ Pos(l, Len(l)) \in Nat
  BY <1>3, Positions
<1>8. Pos(l, g) < Pos(l, Len(l))
  BY <1>2, <1>5, <1>6, <1>7
<1>9. g + 1 \in 1..Len(l)
  BY <1>3, <1>7, <1>8, PositionIsOne
<1>10. ASSUME NEW i \in 1..Len(l) PROVE l[i].pos = rd.cons <=> i = g + 1
  <2>1. l[i].pos = Pos(l, i - 1) /\ i - 1 \in 0..Len(l)
    BY <1>3, <1>7 DEF LogFine
  <2>2. Pos(l, i - 1) = Pos(l, g) <=> i - 1 = g
    BY <1>3, <2>1, PositionIsOne
  <2> QED
    BY <1>2, <1>6, <2>1, <2>2
<1>11. Here = CHOOSE i \in DOMAIN l : l[i].pos = rd.cons
  BY DEF Here, l
<1>12. DOMAIN l = 1..Len(l)
  BY <1>3
<1>13. Here = g + 1
  BY <1>9, <1>10, <1>11, <1>12
<1>14. g \in Nat
  BY <1>7
<1> QED
  BY <1>6, <1>9, <1>13, <1>14 DEF l

LEMMA DoneTypes ==
  ASSUME Types, rd.todo # <<>>, NEW n \in Int
  PROVE  Done(n) \in ReaderStates /\ Done(n).pc = "next"
<1>1. rd \in ReaderStates /\ Tail(rd.todo) \in Seq(Maps)
  BY RingIsMap DEF Types
<1>2. rd.res + n \in Int
  BY <1>1 DEF ReaderStates
<1> QED
  BY <1>1, <1>2 DEF Done, ReaderStates

LEMMA PassIInv ==
  ASSUME RingbufAssumption, IInv, rd.pc = "header", ~Behind,
         NEW pc \in {"callback", "release"}, Pass(pc), UNCHANGED <<log, consumer, rings, got>>,
         State = IF pc = "callback" THEN "commit" ELSE "discard"
  PROVE  IInv'
<1>1. Types /\ Logs /\ Others /\ Reader
  BY DEF IInv
<1>2. Ring \in Maps /\ rd.cons = consumer[Ring] /\ rd.todo # <<>>
  BY <1>1, RingIsMap DEF Reader
<1> DEFINE l == log[Ring]
           r == roundup_len(l[Here].len)
<1>3. l \in Seq(Records) /\ LogFine(l)
  BY <1>1, <1>2 DEF Types, Logs
<1>4. PICK g \in Nat : /\ Here = g + 1 /\ g + 1 \in 1..Len(l)
                       /\ consumer[Ring] = Pos(l, g)
                       /\ Given(l, got[Ring], g)
  BY HereIsNext
<1>5. rd' = [rd EXCEPT !.pc = pc, !.rec = Here, !.new = TRUE, !.cons = @ + r]
  BY DEF Pass
<1>6. l[Here].state = IF pc = "callback" THEN "commit" ELSE "discard"
  BY DEF State
<1> HIDE DEF l
<1>7. l[Here] \in Records
  BY <1>3, <1>4
<1>8. r \in Nat
  BY <1>7, RecordRoom DEF Records, RingbufAssumption
<1>9. l[Here].pos = Pos(l, g)
  <2>1. l[g + 1].pos = Pos(l, (g + 1) - 1)
    BY <1>3, <1>4 DEF LogFine
  <2>2. (g + 1) - 1 = g
    OBVIOUS
  <2> QED
    BY <1>4, <2>1, <2>2
<1>10. Pos(l, g + 1) = Pos(l, g) + r
  BY <1>4, <1>9 DEF Pos, End
<1> HIDE DEF r
<1>11. rd \in ReaderStates /\ Here \in Nat /\ rd.cons + r \in Nat
  BY SMTT(30), <1>1, <1>4, <1>8 DEF Types, ReaderStates
<1>12. rd' = [rd EXCEPT !.pc = pc, !.rec = Here, !.new = TRUE, !.cons = rd.cons + r]
  BY <1>5, <1>11 DEF ReaderStates
<1>13. /\ rd'.pc = pc /\ rd'.rec = g + 1 /\ rd'.todo = rd.todo
       /\ rd'.cons = Pos(l, g + 1) /\ rd'.prod = rd.prod
  BY <1>2, <1>4, <1>10, <1>11, <1>12 DEF ReaderStates
<1>14. rd' \in ReaderStates
  BY <1>11, <1>12 DEF ReaderStates
<1>15. Types'
  BY <1>1, <1>14, ReaderTypes
<1>16. Ring' = Ring
  BY <1>13 DEF Ring
<1>17. Logs'
  BY <1>1 DEF Logs
<1>18. Others'
  <2>1. \A m \in Maps : Settled(log[m], consumer[m], got[m])
    BY <1>1 DEF Others, Taking
  <2> QED
    BY <2>1 DEF Others
<1>19. (g + 1) - 1 = g
  OBVIOUS
<1>20. /\ pc = "callback" => l[g + 1].state = "commit" /\ Given(l, got[Ring], g)
       /\ pc = "release" => Given(l, got[Ring], g + 1)
  BY <1>4, <1>6, PassOver
<1>21. Takes(l, consumer[Ring], got[Ring])'
  <2>1. l' = l /\ consumer'[Ring'] = consumer[Ring] /\ got'[Ring'] = got[Ring]
    BY <1>16 DEF l
  <2> QED
    BY <1>4, <1>13, <1>19, <1>20, <2>1 DEF Takes
<1>22. Reader'
  BY <1>1, <1>2, <1>13, <1>16, <1>21 DEF Reader, l
<1> QED
  BY <1>15, <1>17, <1>18, <1>22 DEF IInv

LEMMA LoadHeaderIInv ==
  ASSUME RingbufAssumption, IInv, LoadHeader
  PROVE  IInv'
<1>1. Types /\ Reader /\ rd.pc = "header" /\ UNCHANGED <<log, consumer, rings, got>>
  BY DEF IInv, LoadHeader
<1>2. rd.todo # <<>> /\ rd.cons = consumer[Ring] /\ rd \in ReaderStates
  BY <1>1 DEF Reader, Types
<1>3. rd.cnt \in Int
  BY <1>2 DEF ReaderStates
<1>4. ASSUME rd' = Done(rd.cnt) PROVE IInv'
  <2>1. rd' \in ReaderStates /\ rd'.pc = "next"
    BY <1>1, <1>2, <1>3, <1>4, DoneTypes
  <2> QED
    BY <1>1, <2>1, ReaderTypes, RestIInv DEF Taking
<1>5. ASSUME rd' = [rd EXCEPT !.pc = "producer"] PROVE IInv'
  <2>1. rd' \in ReaderStates /\ rd'.pc = "producer" /\ rd'.todo = rd.todo /\ rd'.cons = rd.cons
    BY <1>2, <1>5 DEF ReaderStates
  <2>2. Types' /\ Ring' = Ring
    BY <1>1, <2>1, ReaderTypes DEF Ring
  <2>3. Reader' /\ ~Taking /\ ~Taking'
    BY <1>1, <1>2, <2>1, <2>2 DEF Reader, Taking
  <2> QED
    BY <1>1, <2>2, <2>3, QuietIInv
<1>6. CASE Behind /\ AllSeen
  BY <1>4, <1>5, <1>6 DEF AllSeen
<1>7. CASE ~Behind /\ State = "busy" /\ rd' = Done(rd.cnt)
  BY <1>4, <1>7
<1>8. CASE ~Behind /\ State = "commit" /\ Pass("callback")
  BY <1>1, <1>8, PassIInv
<1>9. CASE ~Behind /\ State = "discard" /\ Pass("release")
  BY <1>1, <1>9, PassIInv
<1> QED
  BY <1>6, <1>7, <1>8, <1>9 DEF LoadHeader

(* The reader stores the position behind the record it is at.              *)
LEMMA StoreIInv ==
  ASSUME RingbufAssumption, IInv, Taking, Types', UNCHANGED <<log, rings>>,
         consumer' = [consumer EXCEPT ![Ring] = rd.cons],
         Given(log[Ring], got'[Ring], rd.rec),
         \A m \in Maps : m # Ring => got'[m] = got[m],
         rd'.pc \in {"idle", "next"} \/ rd' = [rd EXCEPT !.pc = "header"]
  PROVE  IInv'
<1>1. Types /\ Logs /\ Others /\ Reader
  BY DEF IInv
<1>2. Ring \in Maps /\ Takes(log[Ring], consumer[Ring], got[Ring]) /\ rd.todo # <<>>
  BY <1>1, RingIsMap DEF Reader, Taking
<1>3. log[Ring] \in Seq(Records) /\ LogFine(log[Ring])
  BY <1>1, <1>2 DEF Types, Logs
<1>4. /\ rd.rec \in 1..Len(log[Ring]) /\ rd.cons = Pos(log[Ring], rd.rec)
      /\ consumer[Ring] = Pos(log[Ring], rd.rec - 1)
  BY <1>2 DEF Takes
<1>5. /\ rd.rec \in 0..Len(log[Ring]) /\ rd.rec - 1 \in 0..Len(log[Ring])
      /\ rd.rec - 1 < rd.rec /\ Len(log[Ring]) \in 0..Len(log[Ring])
  BY <1>3, <1>4
<1>6. consumer'[Ring] = rd.cons /\ \A m \in Maps : m # Ring => consumer'[m] = consumer[m]
  BY <1>1, <1>2 DEF Types
<1>7. Logs'
  <2> SUFFICES ASSUME NEW m \in Maps
               PROVE  LogFine(log[m]) /\ Pos(log[m], Len(log[m])) - consumer'[m] <= Room
    BY DEF Logs
  <2>1. CASE m = Ring
    <3>1. /\ Pos(log[m], rd.rec - 1) < Pos(log[m], rd.rec) /\ Pos(log[m], rd.rec) \in Nat
          /\ Pos(log[m], rd.rec - 1) \in Nat /\ Pos(log[m], Len(log[m])) \in Nat
      BY <1>3, <1>5, <2>1, Positions
    <3>2. Pos(log[m], Len(log[m])) - Pos(log[m], rd.rec - 1) <= Room /\ Room \in Nat
      BY <1>1, <1>4, <2>1 DEF Logs, RingbufAssumption
    <3>3. consumer'[m] = Pos(log[m], rd.rec)
      BY <1>4, <1>6, <2>1
    <3> QED
      BY <1>1, <3>1, <3>2, <3>3 DEF Logs
  <2>2. CASE m # Ring
    BY <1>1, <1>6, <2>2 DEF Logs
  <2> QED
    BY <2>1, <2>2
<1>8. \A m \in Maps : Settled(log[m], consumer'[m], got'[m])
  <2> TAKE m \in Maps
  <2>1. CASE m = Ring
    BY <1>4, <1>5, <1>6, <2>1 DEF Settled
  <2>2. CASE m # Ring
    BY <1>1, <1>6, <2>2 DEF Others
  <2> QED
    BY <2>1, <2>2
<1>9. Others'
  BY <1>8 DEF Others
<1>10. Reader'
  <2>1. CASE rd'.pc \in {"idle", "next"}
    BY <2>1 DEF Reader, Taking
  <2>2. CASE rd' = [rd EXCEPT !.pc = "header"]
    <3>1. /\ rd'.pc = "header" /\ rd'.todo = rd.todo /\ rd'.cons = rd.cons
          /\ rd'.prod = rd.prod
      BY <1>1, <2>2 DEF Types, ReaderStates
    <3>2. Ring' = Ring
      BY <3>1 DEF Ring
    <3> QED
      BY <1>1, <1>2, <1>6, <3>1, <3>2 DEF Reader, Taking
  <2> QED
    BY <2>1, <2>2
<1> QED
  BY <1>7, <1>9, <1>10 DEF IInv

LEMMA ReleaseIInv ==
  ASSUME RingbufAssumption, IInv, Release
  PROVE  IInv'
<1>1. /\ Types /\ Reader /\ rd.pc = "release" /\ UNCHANGED <<log, rings, got>>
      /\ consumer' = [consumer EXCEPT ![Ring] = rd.cons] /\ rd' = [rd EXCEPT !.pc = "header"]
  BY DEF IInv, Release
<1>2. Taking /\ Given(log[Ring], got[Ring], rd.rec)
  BY <1>1 DEF Reader, Taking, Takes
<1>3. rd \in ReaderStates /\ rd.cons \in Nat
  BY <1>1 DEF Types, ReaderStates
<1>4. rd' \in ReaderStates
  BY <1>1, <1>3 DEF ReaderStates
<1>5. Types'
  BY <1>1, <1>3, <1>4 DEF Types
<1> QED
  BY <1>1, <1>2, <1>5, StoreIInv

LEMMA CallbackIInv ==
  ASSUME RingbufAssumption, IInv, Callback
  PROVE  IInv'
<1>1. /\ Types /\ Logs /\ Others /\ Reader /\ rd.pc = "callback" /\ UNCHANGED <<log, rings>>
      /\ got' = [got EXCEPT ![Ring] = Append(@, rd.rec)]
  BY DEF IInv, Callback
<1>2. /\ Taking /\ Ring \in Maps /\ rd.todo # <<>>
      /\ Takes(log[Ring], consumer[Ring], got[Ring])
  BY <1>1, RingIsMap DEF Reader, Taking
<1>3. /\ rd.rec \in 1..Len(log[Ring]) /\ log[Ring][rd.rec].state = "commit"
      /\ Given(log[Ring], got[Ring], rd.rec - 1)
  BY <1>1, <1>2 DEF Takes
<1>4. rd.rec - 1 \in Nat /\ (rd.rec - 1) + 1 = rd.rec /\ rd.rec \in Nat
  BY <1>3
<1>5. Given(log[Ring], Append(got[Ring], rd.rec), rd.rec)
  <2>1. PICK g \in Nat : g = rd.rec - 1
    BY <1>4
  <2>2. rd.rec = g + 1
    BY <1>4, <2>1
  <2>3. Given(log[Ring], Append(got[Ring], g + 1), g + 1)
    BY <1>3, <2>1, <2>2, GiveOne
  <2> QED
    BY <2>2, <2>3
<1>6. /\ got'[Ring] = Append(got[Ring], rd.rec) /\ got' \in [Maps -> Seq(Nat)]
      /\ \A m \in Maps : m # Ring => got'[m] = got[m]
  <2>1. got \in [Maps -> Seq(Nat)]
    BY <1>1 DEF Types
  <2>2. Append(got[Ring], rd.rec) \in Seq(Nat)
    BY <1>2, <1>4, <2>1
  <2> QED
    BY <1>1, <1>2, <2>1, <2>2
<1>7. Given(log[Ring], got'[Ring], rd.rec)
  BY <1>5, <1>6
<1>8. rd \in ReaderStates /\ rd.cons \in Nat /\ rd.cnt \in Int /\ rd.read \in Nat
  BY <1>1 DEF Types, ReaderStates
<1>9. PICK err \in Results :
        /\ consumer' = IF err = 0 THEN consumer ELSE [consumer EXCEPT ![Ring] = rd.cons]
        /\ \/ err = 0 /\ rd' = [rd EXCEPT !.cnt = @ + 1, !.read = @ + 1, !.pc = "release"]
                     /\ UNCHANGED answer
           \/ err > 0 /\ rd' = [Done(err) EXCEPT !.read = @ + 1] /\ UNCHANGED answer
           \/ err < 0 /\ Return(err, rd.read + 1)
  BY DEF Callback
<1>10. err \in Int
  BY DEF RingbufAssumption
<1>11. ASSUME consumer' = [consumer EXCEPT ![Ring] = rd.cons], rd' \in ReaderStates,
              rd'.pc \in {"idle", "next"}
       PROVE  IInv'
  <2>1. Types'
    BY <1>1, <1>6, <1>8, <1>11 DEF Types
  <2> QED
    BY <1>1, <1>2, <1>6, <1>7, <1>11, <2>1, StoreIInv
<1>12. CASE err > 0
  <2>1. rd' = [Done(err) EXCEPT !.read = @ + 1]
    BY <1>9, <1>10, <1>12
  <2>2. Done(err) \in ReaderStates /\ Done(err).pc = "next"
    BY <1>1, <1>2, <1>10, DoneTypes
  <2>3. rd' \in ReaderStates /\ rd'.pc = "next"
    BY SMTT(30), <2>1, <2>2 DEF ReaderStates
  <2> QED
    BY <1>9, <1>10, <1>11, <1>12, <2>3
<1>13. CASE err < 0
  <2>1. rd' = Idle
    BY <1>9, <1>10, <1>13 DEF Return
  <2>2. rd' \in ReaderStates /\ rd'.pc = "idle"
    BY <2>1 DEF Idle, ReaderStates
  <2> QED
    BY <1>9, <1>10, <1>11, <1>13, <2>2
<1>14. CASE err = 0
  <2>1. rd' = [rd EXCEPT !.cnt = rd.cnt + 1, !.read = rd.read + 1, !.pc = "release"]
    BY <1>9, <1>14
  <2>2. rd.cnt + 1 \in Int /\ rd.read + 1 \in Nat
    BY <1>8
  <2>3. rd' \in ReaderStates
    BY <1>8, <2>1, <2>2 DEF ReaderStates
  <2>4. /\ rd'.pc = "release" /\ rd'.todo = rd.todo /\ rd'.cons = rd.cons
        /\ rd'.prod = rd.prod /\ rd'.rec = rd.rec
    BY <1>8, <2>1 DEF ReaderStates
  <2>5. consumer' = consumer /\ Types'
    BY <1>1, <1>6, <1>9, <1>14, <2>3 DEF Types
  <2>6. Ring' = Ring
    BY <2>4 DEF Ring
  <2>7. Logs'
    BY <1>1, <2>5 DEF Logs
  <2>8. Others'
    BY <1>1, <1>2, <1>6, <2>4, <2>5, <2>6 DEF Others, Taking
  <2>9. Takes(log[Ring], consumer[Ring], got[Ring])'
    BY <1>1, <1>2, <1>7, <2>4, <2>5, <2>6 DEF Takes
  <2>10. Reader'
    BY <1>1, <1>2, <2>4, <2>6, <2>9 DEF Reader, Taking
  <2> QED
    BY <2>5, <2>7, <2>8, <2>10 DEF IInv
<1> QED
  BY <1>10, <1>12, <1>13, <1>14

(***************************************************************************)
(* The theorems.                                                           *)
(***************************************************************************)

(* The state keeps its types, and what makes the rest inductive holds, for *)
(* any rings, records, callbacks and any orders of the kernel's steps.     *)
THEOREM Invariant ==
  ASSUME RingbufAssumption
  PROVE  RingbufSpec => []IInv
<1>1. RingbufInit => IInv
  BY InitIInv
<1>2. IInv /\ [RingbufNext]_ringbufVars => IInv'
  <2> SUFFICES ASSUME IInv, [RingbufNext]_ringbufVars PROVE IInv'
    OBVIOUS
  <2>1. CASE UNCHANGED ringbufVars
    BY <2>1 DEF ringbufVars, IInv, Types, Logs, Others, Settled, Reader, Taking, Takes, Ring
  <2>2. CASE KernelWrites
    BY <2>2, ReserveIInv, FinishIInv DEF KernelWrites
  <2>3. CASE Reading
    BY <2>3, NextRingIInv, LoadProducerIInv, LoadHeaderIInv, CallbackIInv, ReleaseIInv DEF Reading
  <2>4. CASE Calling \/ \E m \in Maps : ring_buffer__add(m)
    BY <2>4, CallIInv, AddIInv
  <2> QED
    BY <2>1, <2>2, <2>3, <2>4 DEF RingbufNext
<1> QED
  BY <1>1, <1>2, PTL DEF RingbufSpec

LEMMA IInvSound ==
  ASSUME RingbufAssumption, IInv
  PROVE  RingbufSound
<1>1. Types /\ Logs /\ Others /\ Reader
  BY DEF IInv
<1>2. ASSUME NEW m \in Maps
      PROVE  /\ log[m] \in Seq(Records) /\ LogFine(log[m]) /\ consumer[m] \in Nat
             /\ producer(m) = Pos(log[m], Len(log[m])) /\ producer(m) \in Nat
  <2>1. log[m] \in Seq(Records) /\ LogFine(log[m]) /\ consumer[m] \in Nat
    BY <1>1 DEF Types, Logs
  <2> QED
    BY <2>1, ProducerIsLast, Positions
<1>3. ASSUME NEW m \in Maps
      PROVE  \E c, g \in 0..Len(log[m]) :
               c <= g /\ consumer[m] = Pos(log[m], c) /\ Given(log[m], got[m], g)
  <2>1. CASE Taking => m # Ring
    <3>1. PICK g \in 0..Len(log[m]) : consumer[m] = Pos(log[m], g) /\ Given(log[m], got[m], g)
      BY <1>1, <2>1 DEF Others, Settled
    <3> QED
      BY <3>1
  <2>2. CASE Taking /\ m = Ring
    <3>1. /\ rd.rec \in 1..Len(log[m]) /\ consumer[m] = Pos(log[m], rd.rec - 1)
          /\ Given(log[m], got[m], rd.rec - 1) \/ Given(log[m], got[m], rd.rec)
      BY <1>1, <2>2 DEF Reader, Takes, Taking
    <3>2. rd.rec - 1 \in 0..Len(log[m]) /\ rd.rec \in 0..Len(log[m]) /\ rd.rec - 1 <= rd.rec
      BY <3>1, <1>2
    <3> QED
      BY <3>1, <3>2
  <2> QED
    BY <2>1, <2>2
<1>4. RingbufTypeOK
  <2>1. ASSUME NEW m \in Maps
        PROVE  /\ Len(log[m]) <= MaxRecords /\ consumer[m] \in 0..producer(m)
               /\ producer(m) - consumer[m] <= Room
    <3>1. PICK c \in 0..Len(log[m]) : consumer[m] = Pos(log[m], c)
      BY <1>3
    <3>2. Pos(log[m], c) <= Pos(log[m], Len(log[m]))
      BY <1>2, PositionIsOne
    <3> QED
      BY <1>1, <1>2, <3>1, <3>2 DEF Logs, LogFine
  <2>2. ASSUME rd.pc \notin {"idle", "next"} PROVE rd.todo # <<>> /\ rd.cons <= producer(Ring)
    <3>1. rd.todo # <<>> /\ Ring \in Maps
      BY <1>1, <2>2, RingIsMap DEF Reader
    <3>2. CASE Taking
      <4>1. rd.rec \in 0..Len(log[Ring]) /\ rd.cons = Pos(log[Ring], rd.rec)
        BY <1>1, <3>2 DEF Reader, Takes
      <4>2. Pos(log[Ring], rd.rec) <= Pos(log[Ring], Len(log[Ring]))
        BY <1>2, <3>1, <4>1, PositionIsOne
      <4> QED
        BY <1>2, <3>1, <4>1, <4>2
    <3>3. CASE ~Taking
      <4>1. rd.cons = consumer[Ring]
        BY <1>1, <2>2, <3>3 DEF Reader, Taking, Types, ReaderStates
      <4> QED
        BY <1>2, <2>1, <3>1, <4>1
    <3> QED
      BY <3>1, <3>2, <3>3
  <2>3. rd.pc \in {"idle", "next", "producer", "header", "callback", "release"}
    BY <1>1 DEF Types, ReaderStates
  <2> QED
    BY <2>1, <2>2, <2>3 DEF RingbufTypeOK
<1>5. InOrderOnce
  <2> SUFFICES ASSUME NEW m \in Maps
               PROVE  LET n == Len(got[m])
                      IN  /\ \A k \in 1..n : log[m][got[m][k]].state = "commit"
                          /\ \A k \in 1..n : \A i \in 1..got[m][k] :
                               /\ log[m][i].state # "busy"
                               /\ log[m][i].state = "commit" => \E j \in 1..k : got[m][j] = i
                          /\ \A k \in 1..n - 1 : got[m][k] < got[m][k + 1]
    BY DEF InOrderOnce
  <2>1. PICK g \in 0..Len(log[m]) : Given(log[m], got[m], g)
    BY <1>3
  <2> QED
    BY <1>2, <2>1, GivenIsInOrder
<1>6. FreedWasRead
  <2> SUFFICES ASSUME NEW m \in Maps, NEW i \in DOMAIN log[m], log[m][i].pos < consumer[m]
               PROVE  /\ log[m][i].state # "busy"
                      /\ log[m][i].state = "commit" => \E k \in DOMAIN got[m] : got[m][k] = i
    BY DEF FreedWasRead
  <2>1. PICK c \in 0..Len(log[m]), g \in 0..Len(log[m]) :
          c <= g /\ consumer[m] = Pos(log[m], c) /\ Given(log[m], got[m], g)
    BY <1>3
  <2>2. i \in 1..Len(log[m]) /\ i - 1 \in 0..Len(log[m])
    BY <1>2
  <2>3. Pos(log[m], i - 1) < Pos(log[m], c)
    BY <1>2, <2>1, <2>2 DEF LogFine
  <2>4. i - 1 < c
    BY <1>2, <2>1, <2>2, <2>3, PositionIsOne
  <2>5. i \in 1..g
    BY <2>1, <2>2, <2>4
  <2>6. got[m] \in Seq(1..g)
    BY <2>1 DEF Given
  <2> QED
    BY <2>1, <2>5, <2>6 DEF Given
<1> QED
  BY <1>4, <1>5, <1>6 DEF RingbufSound

(* The callback gets the committed records of every ring, each once and in *)
(* the order they were reserved, and what the kernel may overwrite has     *)
(* been read (ringbuf_process_ring).                                       *)
THEOREM RecordsAreRead ==
  ASSUME RingbufAssumption
  PROVE  RingbufSpec => []RingbufSound
<1>1. IInv => RingbufSound
  BY IInvSound
<1> QED
  BY Invariant, <1>1, PTL
-----------------------------------------------------------------------------
(***************************************************************************)
(* What makes PerfSound inductive.  A position of the ring is in one slot; *)
(* the slots from where the reader is to where the kernel is hold whole    *)
(* records, and their numbers go on from what the user has had.            *)
(***************************************************************************)
Parts == [kind : {"none", "sample", "lost"}, nr : Nat, part : Nat, size : Nat]

Slots == [0..Size - 1 -> Parts]

Cell(r, p) == r.slot[p % Size]

(* Between two positions nothing differs; or one record lies there.        *)
Same(q, r, t, h) == \A p \in t..h - 1 : Cell(q, p) = Cell(r, p)

Lies(q, g, h, kind, nr, n) == \A p \in g..h - 1 : Cell(q, p) = Part(kind, nr, p - g + 1, n)

(* The records between two positions are there from end to end.            *)
Whole(r, t, h) ==
  \A p \in t..h - 1 :
    /\ Cell(r, p).part \in 1..Cell(r, p).size
    /\ t <= p - Cell(r, p).part + 1 /\ p - Cell(r, p).part + Cell(r, p).size < h
    /\ \A j \in 1..Cell(r, p).size :
         Cell(r, p - Cell(r, p).part + j) = Part(Cell(r, p).kind, Cell(r, p).nr, j, Cell(r, p).size)

(* How many outputs there were before the record at a position, and up to  *)
(* it when nothing may be there yet.                                       *)
Before(r, p) == IF Cell(r, p).kind = "sample" THEN Cell(r, p).nr - 1
                ELSE Cell(r, p + 1).nr - 1 - Cell(r, p).nr

Upto(r, p, h, e) == IF p < h THEN Before(r, p) ELSE e

(* The record at p is a sample that the next one goes on from, or says     *)
(* what was lost before the sample behind it.                              *)
Follows(r, p, h, e) ==
  \/ Cell(r, p).kind = "sample" /\ Cell(r, p).nr = Upto(r, p + Cell(r, p).size, h, e)
  \/ Cell(r, p).kind = "lost" /\ Cell(r, p).size = 1 /\ p + 1 < h /\ Cell(r, p + 1).kind = "sample"

Numbered(r, t, h, e) == \A p \in t..h - 1 : Cell(r, p).part = 1 => Follows(r, p, h, e)

(* What is read next goes on from what the user has had.                   *)
GoesOn(r, t, h, e, s) ==
  /\ Through(s, Len(s)) = Upto(r, t, h, e)
  /\ (s # <<>> /\ s[Len(s)][1].kind = "lost") => t < h /\ Cell(r, t).kind = "sample"

Rings == [slot : Slots, head : Nat, tail : Nat, lost : Nat, out : Nat, wake : BOOLEAN]

PerfRight(r, t, s) ==
  /\ t \in Nat /\ r.tail <= t /\ t <= r.head /\ r.head - r.tail <= Size
  /\ r.lost <= r.out /\ r.out <= MaxOut
  /\ Whole(r, t, r.head) /\ Numbered(r, t, r.head, r.out - r.lost)
  /\ RecordsWhole(s) /\ NoneMissed(s)
  /\ GoesOn(r, t, r.head, r.out - r.lost, s)
-----------------------------------------------------------------------------
LEMMA ModIn ==
  ASSUME NEW a \in Int, NEW m \in Nat \ {0}
  PROVE  a % m \in 0..m - 1
  BY SMT

LEMMA ModOf ==
  ASSUME NEW m \in Nat \ {0}, NEW k \in Int, NEW r \in 0..m - 1
  PROVE  (m * k + r) % m = r
  BY SMT

LEMMA ModParts ==
  ASSUME NEW a \in Int, NEW m \in Nat \ {0}
  PROVE  \E k \in Int : a = m * k + (a % m)
<1>1. a = m * (a \div m) + (a % m) /\ a \div m \in Int
  BY SMT
<1> QED
  BY <1>1

LEMMA Times ==
  ASSUME NEW m \in Int, NEW a \in Int, NEW b \in Int
  PROVE  m * (a + b) = m * a + m * b /\ m * (a - b) = m * a - m * b /\ m * a \in Int /\ m * b \in Int
  BY SMT

(* How far a slot is past another does not depend on the rounds.           *)
LEMMA SlotsApart ==
  ASSUME NEW m \in Nat \ {0}, NEW p \in Int, NEW h \in Int, NEW k \in {0, 1},
         NEW d \in 0..m - 1, p - h = d - m * k
  PROVE  ((p % m) - h) % m = d
<1>1. PICK j \in Int : p = m * j + (p % m)
  BY ModParts
<1>2. PICK i : i = p % m
  OBVIOUS
<1>3. i \in Int /\ p = m * j + i /\ m * j \in Int /\ m * k \in Int
  BY <1>1, <1>2, ModIn, Times
<1>4. 0 - k - j \in Int /\ m * (0 - k - j) = 0 - m * k - m * j
  <2>1. m * (0 - k) = 0 - m * k /\ m * ((0 - k) - j) = m * (0 - k) - m * j
    BY Times
  <2> QED
    BY <2>1, <1>3
<1>5. i - h = m * (0 - k - j) + d
  BY <1>3, <1>4
<1>6. (m * (0 - k - j) + d) % m = d
  BY <1>4, ModOf
<1>7. (i - h) % m = d
  BY ONLY <1>5, <1>6, Zenon
<1> QED
  BY ONLY <1>2, <1>7, Zenon

(* The slots from h on, and those that were filled before.                 *)
LEMMA SlotsOn ==
  ASSUME NEW m \in Nat \ {0}, NEW p \in Int, NEW h \in Int, p - h \in 0..m - 1
  PROVE  ((p % m) - h) % m = p - h
<1>1. 0 \in {0, 1} /\ p - h = (p - h) - m * 0
  BY SMT
<1> QED
  BY ONLY <1>1, SlotsApart, p - h \in 0..m - 1, m \in Nat \ {0}, p \in Int, h \in Int, Zenon

LEMMA SlotsBack ==
  ASSUME NEW m \in Nat \ {0}, NEW p \in Int, NEW h \in Int, p - h + m \in 0..m - 1
  PROVE  ((p % m) - h) % m = p - h + m
<1>1. 1 \in {0, 1} /\ p - h = (p - h + m) - m * 1
  BY SMT
<1> QED
  BY ONLY <1>1, SlotsApart, p - h + m \in 0..m - 1, m \in Nat \ {0}, p \in Int, h \in Int, Zenon

LEMMA CellIsPart ==
  ASSUME PerfAssumption, NEW r, r.slot \in Slots, NEW p \in Nat
  PROVE  Cell(r, p) \in Parts
<1>1. p % Size \in 0..Size - 1
  BY ModIn DEF PerfAssumption
<1> QED
  BY <1>1 DEF Cell, Slots

(* A record that is put in fills its slots; those before, as many as there *)
(* is room for, stay.                                                      *)
LEMMA PutCells ==
  ASSUME PerfAssumption, NEW r \in Rings, NEW h \in Nat, r.head = h,
         NEW kind \in {"sample", "lost"}, NEW nr \in Nat, NEW n \in 1..Size,
         NEW h2 \in Nat, h2 = h + n, NEW t \in Nat, h2 - Size <= t,
         NEW q, q = Put(r, kind, nr, n)
  PROVE  /\ q \in Rings /\ q.head = h2 /\ q.tail = r.tail /\ q.lost = r.lost /\ q.out = r.out
         /\ Lies(q, h, h2, kind, nr, n) /\ Same(q, r, t, h)
<1> DEFINE g == [i \in 0..Size - 1 |-> LET k == (i - h) % Size
                   IN  IF k < n THEN Part(kind, nr, k + 1, n) ELSE r.slot[i]]
<1>1. Size \in Nat \ {0} /\ h \in Int /\ h \in Nat /\ r.slot \in Slots /\ n \in Nat
  BY DEF PerfAssumption, Rings
<1>2. q = [r EXCEPT !.slot = g, !.head = @ + n]
  BY DEF Put
<1>3. g \in Slots
  <2> SUFFICES ASSUME NEW i \in 0..Size - 1 PROVE g[i] \in Parts
    BY DEF Slots
  <2>1. (i - h) % Size \in Nat
    BY <1>1, ModIn
  <2>2. r.slot[i] \in Parts
    BY <1>1 DEF Slots
  <2> QED
    BY <1>1, <2>1, <2>2 DEF Parts, Part
<1>4. /\ \A i \in 0..Size - 1 : (i - h) % Size < n => g[i] = Part(kind, nr, ((i - h) % Size) + 1, n)
      /\ \A i \in 0..Size - 1 : ~((i - h) % Size < n) => g[i] = r.slot[i]
  OBVIOUS
<1> HIDE DEF g
<1>5. PICK x : x = [r EXCEPT !.slot = g]
  OBVIOUS
<1>6. /\ x \in Rings /\ x.slot = g /\ x.head = h /\ x.tail = r.tail /\ x.lost = r.lost
      /\ x.out = r.out /\ x.wake = r.wake
  BY <1>3, <1>5 DEF Rings
<1>7. q = [x EXCEPT !.head = h + n]
  BY <1>1, <1>2, <1>5 DEF Rings
<1>8. q \in Rings /\ q.slot = g /\ q.head = h2 /\ q.tail = r.tail /\ q.lost = r.lost /\ q.out = r.out
  BY <1>1, <1>6, <1>7 DEF Rings
<1>9. ASSUME NEW p \in h..h2 - 1 PROVE Cell(q, p) = Part(kind, nr, p - h + 1, n)
  <2>1. p \in Int /\ p - h \in 0..Size - 1 /\ p - h < n
    BY <1>1
  <2>2. ((p % Size) - h) % Size = p - h
    BY ONLY <1>1, <2>1, SlotsOn, Zenon
  <2>3. p % Size \in 0..Size - 1
    BY <1>1, <2>1, ModIn
  <2>4. g[p % Size] = Part(kind, nr, p - h + 1, n)
    BY <1>4, <2>1, <2>2, <2>3
  <2> QED
    BY <1>8, <2>4 DEF Cell
<1>10. ASSUME NEW p \in t..h - 1 PROVE Cell(q, p) = Cell(r, p)
  <2>1. p \in Int /\ p - h + Size \in 0..Size - 1 /\ ~(p - h + Size < n)
    BY <1>1
  <2>2. ((p % Size) - h) % Size = p - h + Size
    BY ONLY <1>1, <2>1, SlotsBack, Zenon
  <2>3. p % Size \in 0..Size - 1
    BY <1>1, <2>1, ModIn
  <2>4. g[p % Size] = r.slot[p % Size]
    BY <1>4, <2>1, <2>2, <2>3
  <2> QED
    BY <1>8, <2>4 DEF Cell
<1> QED
  BY <1>8, <1>9, <1>10 DEF Lies, Same

(* The record a position is the first of.                                  *)
LEMMA RecordFrom ==
  ASSUME PerfAssumption, NEW r \in Rings, NEW t \in Nat, NEW h \in Nat, Whole(r, t, h),
         NEW p \in t..h - 1, Cell(r, p).part = 1
  PROVE  /\ Cell(r, p).size \in Nat /\ Cell(r, p).size >= 1 /\ p + Cell(r, p).size <= h
         /\ \A j \in 1..Cell(r, p).size :
              Cell(r, p + j - 1) = Part(Cell(r, p).kind, Cell(r, p).nr, j, Cell(r, p).size)
<1>1. p \in Nat /\ Cell(r, p) \in Parts
  BY CellIsPart DEF Rings
<1>2. PICK x : x = Cell(r, p)
  OBVIOUS
<1>3. x.size \in Nat /\ x.part = 1
  BY <1>1, <1>2 DEF Parts
<1>4. /\ x.part \in 1..x.size /\ p - x.part + x.size < h
      /\ \A j \in 1..x.size : Cell(r, p - x.part + j) = Part(x.kind, x.nr, j, x.size)
  BY <1>2 DEF Whole
<1>5. \A j \in 1..x.size : p - x.part + j = p + j - 1
  BY <1>1, <1>3
<1>6. \A j \in 1..x.size : Cell(r, p + j - 1) = Part(x.kind, x.nr, j, x.size)
  BY <1>4, <1>5
<1>7. x.size >= 1 /\ p + x.size <= h
  BY <1>1, <1>3, <1>4
<1> QED
  BY <1>2, <1>3, <1>6, <1>7

(* The reader is at the first slot of a record.                            *)
LEMMA ReaderStarts ==
  ASSUME PerfAssumption, NEW r \in Rings, NEW t \in Nat, NEW h \in Nat, Whole(r, t, h), t < h
  PROVE  t \in t..h - 1 /\ Cell(r, t).part = 1
<1>1. t \in t..h - 1 /\ Cell(r, t) \in Parts
  BY CellIsPart DEF Rings
<1>2. Cell(r, t).part \in 1..Cell(r, t).size /\ t <= t - Cell(r, t).part + 1
  BY <1>1 DEF Whole
<1>3. Cell(r, t).part \in Nat
  BY <1>1 DEF Parts
<1> QED
  BY <1>1, <1>2, <1>3

(* A slot that a record has is of that record.                             *)
LEMMA OneRecord ==
  ASSUME PerfAssumption, NEW r \in Rings, NEW t \in Nat, NEW h \in Nat, Whole(r, t, h),
         NEW p \in t..h - 1, Cell(r, p).part = 1,
         NEW p2 \in t..h - 1, Cell(r, p2).part = 1, p < p2
  PROVE  p + Cell(r, p).size <= p2
<1> SUFFICES ASSUME p2 < p + Cell(r, p).size PROVE FALSE
  <2>1. Cell(r, p).size \in Nat
    BY RecordFrom
  <2> QED
    BY <2>1
<1>1. PICK n : n = Cell(r, p).size
  OBVIOUS
<1>2. /\ n \in Nat /\ p2 < p + n
      /\ \A j \in 1..n : Cell(r, p + j - 1) = Part(Cell(r, p).kind, Cell(r, p).nr, j, n)
  BY <1>1, RecordFrom
<1>3. p2 - p + 1 \in 1..n /\ p + (p2 - p + 1) - 1 = p2
  BY <1>2
<1>4. Cell(r, p2) = Part(Cell(r, p).kind, Cell(r, p).nr, p2 - p + 1, n)
  BY <1>2, <1>3
<1>5. Cell(r, p2).part = p2 - p + 1
  BY <1>4 DEF Part
<1> QED
  BY <1>5

(* The slots of a record lead to its first.                                *)
LEMMA FirstOf ==
  ASSUME PerfAssumption, NEW r \in Rings, NEW t \in Nat, NEW h \in Nat, Whole(r, t, h),
         NEW p \in t..h - 1
  PROVE  \E f \in t..p : /\ f = p - Cell(r, p).part + 1 /\ f \in t..h - 1
                         /\ Cell(r, f).part = 1 /\ Cell(r, f).size = Cell(r, p).size
<1>1. PICK x : x = Cell(r, p)
  OBVIOUS
<1>2. p \in Nat /\ x \in Parts
  BY <1>1, CellIsPart DEF Rings
<1>3. x.part \in Nat /\ x.size \in Nat
  BY <1>2 DEF Parts
<1>4. /\ x.part \in 1..x.size /\ t <= p - x.part + 1
      /\ \A j \in 1..x.size : Cell(r, p - x.part + j) = Part(x.kind, x.nr, j, x.size)
  BY <1>1 DEF Whole
<1>5. 1 \in 1..x.size /\ p - x.part + 1 \in t..p /\ p - x.part + 1 \in t..h - 1
  BY <1>2, <1>3, <1>4
<1>6. Cell(r, p - x.part + 1) = Part(x.kind, x.nr, 1, x.size)
  BY <1>4, <1>5
<1>7. Cell(r, p - x.part + 1).part = 1 /\ Cell(r, p - x.part + 1).size = x.size
  BY <1>6 DEF Part
<1> QED
  BY <1>1, <1>5, <1>7

(* Behind a record is the first slot of the next.                          *)
LEMMA NextStarts ==
  ASSUME PerfAssumption, NEW r \in Rings, NEW t \in Nat, NEW h \in Nat, Whole(r, t, h),
         NEW p \in t..h - 1, Cell(r, p).part = 1, p + Cell(r, p).size < h
  PROVE  p + Cell(r, p).size \in t..h - 1 /\ Cell(r, p + Cell(r, p).size).part = 1
<1>1. PICK n : n = Cell(r, p).size
  OBVIOUS
<1>2. n \in Nat /\ n >= 1 /\ p + n \in t..h - 1
  BY <1>1, RecordFrom
<1>3. PICK w \in t..h - 1 : w = p + n
  BY <1>2
<1>4. PICK f \in t..w : /\ f = w - Cell(r, w).part + 1 /\ f \in t..h - 1
                       /\ Cell(r, f).part = 1 /\ Cell(r, f).size = Cell(r, w).size
  BY FirstOf
<1>5. w \in Nat /\ Cell(r, w) \in Parts
  BY CellIsPart DEF Rings
<1>6. Cell(r, w).part \in Nat /\ Cell(r, w).size \in Nat
  BY <1>5 DEF Parts
<1>7. CASE f = w
  BY <1>1, <1>2, <1>3, <1>4, <1>7
<1>8. CASE f # w
  <2>1. ~(p < f)
    <3> SUFFICES ASSUME p < f PROVE FALSE
      OBVIOUS
    <3>1. p + n <= f
      BY <1>1, <1>4, OneRecord
    <3> QED
      BY <1>2, <1>3, <1>4, <1>8, <3>1
  <2>2. ~(f < p)
    <3> SUFFICES ASSUME f < p PROVE FALSE
      OBVIOUS
    <3>1. f + Cell(r, f).size <= p
      BY <1>4, OneRecord
    <3>2. Cell(r, w).part \in 1..Cell(r, w).size
      BY DEF Whole
    <3> QED
      BY <1>2, <1>3, <1>4, <1>6, <3>1, <3>2
  <2>3. f = p
    BY <1>2, <1>3, <1>4, <2>1, <2>2
  <2>4. Cell(r, w).part = n + 1 /\ Cell(r, w).size = n
    BY <1>1, <1>2, <1>3, <1>4, <1>6, <2>3
  <2>5. Cell(r, w).part \in 1..Cell(r, w).size
    BY DEF Whole
  <2> QED
    BY <1>2, <1>3, <2>4, <2>5
<1> QED
  BY <1>7, <1>8

(* Without its first record the rest is whole still.                       *)
LEMMA RestWhole ==
  ASSUME PerfAssumption, NEW r \in Rings, NEW t \in Nat, NEW h \in Nat, Whole(r, t, h), t < h
  PROVE  Whole(r, t + Cell(r, t).size, h)
<1>1. PICK n : n = Cell(r, t).size
  OBVIOUS
<1>2. t \in t..h - 1 /\ Cell(r, t).part = 1 /\ n \in Nat /\ n >= 1 /\ t + n <= h
  <2>1. t \in t..h - 1 /\ Cell(r, t).part = 1
    BY ReaderStarts
  <2> QED
    BY <1>1, <2>1, RecordFrom
<1>3. ASSUME NEW p \in t + n..h - 1 PROVE p \in t..h - 1 /\ t + n <= p - Cell(r, p).part + 1
  <2>1. p \in t..h - 1
    BY <1>2
  <2>2. PICK f \in t..p : /\ f = p - Cell(r, p).part + 1 /\ f \in t..h - 1
                          /\ Cell(r, f).part = 1 /\ Cell(r, f).size = Cell(r, p).size
    BY <2>1, FirstOf
  <2>3. CASE t < f
    BY <1>1, <1>2, <2>1, <2>2, <2>3, OneRecord
  <2>4. CASE f = t
    <3>1. Cell(r, p).size = n /\ Cell(r, p) \in Parts
      BY <1>1, <2>1, <2>2, <2>4, CellIsPart DEF Rings
    <3>2. Cell(r, p).part \in 1..Cell(r, p).size /\ Cell(r, p).part \in Nat
      BY <2>1, <3>1 DEF Whole, Parts
    <3> QED
      BY <1>2, <2>2, <2>4, <3>1, <3>2
  <2> QED
    BY <2>1, <2>2, <2>3, <2>4
<1>4. Whole(r, t + n, h)
  BY <1>3 DEF Whole
<1> QED
  BY <1>1, <1>4

(* Slots that do not change are whole as before, and with a record behind  *)
(* them.                                                                   *)
LEMMA WholeOn ==
  ASSUME PerfAssumption, NEW r \in Rings, NEW q \in Rings, NEW t \in Nat, NEW h \in Nat,
         t <= h, Whole(r, t, h), Same(q, r, t, h),
         NEW kind, NEW nr, NEW n \in Nat, NEW h2 \in Nat, h2 = h + n, Lies(q, h, h2, kind, nr, n)
  PROVE  Whole(q, t, h2)
<1> DEFINE Fine(p, x) ==
      /\ x.part \in 1..x.size
      /\ t <= p - x.part + 1 /\ p - x.part + x.size < h2
      /\ \A j \in 1..x.size : Cell(q, p - x.part + j) = Part(x.kind, x.nr, j, x.size)
<1>1. ASSUME NEW p \in t..h - 1 PROVE Fine(p, Cell(q, p))
  <2>1. PICK x : x = Cell(r, p)
    OBVIOUS
  <2>2. p \in Nat /\ x \in Parts /\ Cell(q, p) = x
    BY <2>1, CellIsPart DEF Rings, Same
  <2>3. x.part \in Nat /\ x.size \in Nat
    BY <2>2 DEF Parts
  <2>4. /\ x.part \in 1..x.size
        /\ t <= p - x.part + 1 /\ p - x.part + x.size < h
        /\ \A j \in 1..x.size : Cell(r, p - x.part + j) = Part(x.kind, x.nr, j, x.size)
    BY <2>1 DEF Whole
  <2>5. \A j \in 1..x.size : p - x.part + j \in t..h - 1
    BY <2>2, <2>3, <2>4
  <2>6. \A j \in 1..x.size : Cell(q, p - x.part + j) = Part(x.kind, x.nr, j, x.size)
    BY <2>4, <2>5 DEF Same
  <2>7. Fine(p, x)
    BY <2>2, <2>3, <2>4, <2>6
  <2> QED
    BY <2>2, <2>7
<1>2. ASSUME NEW p \in h..h2 - 1 PROVE Fine(p, Cell(q, p))
  <2>1. PICK x : x = Part(kind, nr, p - h + 1, n)
    OBVIOUS
  <2>2. x.kind = kind /\ x.nr = nr /\ x.part = p - h + 1 /\ x.size = n
    BY <2>1 DEF Part
  <2>3. /\ x.part \in 1..x.size /\ t <= p - x.part + 1 /\ p - x.part + x.size < h2
    BY <2>2
  <2>4. ASSUME NEW j \in 1..x.size
        PROVE  Cell(q, p - x.part + j) = Part(x.kind, x.nr, j, x.size)
    <3>1. p - x.part + j \in h..h2 - 1 /\ (p - x.part + j) - h + 1 = j
      BY <2>2
    <3>2. Cell(q, p - x.part + j) = Part(kind, nr, j, n)
      BY <3>1 DEF Lies
    <3> QED
      BY <2>2, <3>2
  <2>5. Fine(p, x)
    BY <2>3, <2>4
  <2> QED
    BY <2>1, <2>5 DEF Lies
<1>3. \A p \in t..h2 - 1 : p \in t..h - 1 \/ p \in h..h2 - 1
  OBVIOUS
<1>4. \A p \in t..h2 - 1 : Fine(p, Cell(q, p))
  BY <1>1, <1>2, <1>3
<1> QED
  BY <1>4 DEF Whole
-----------------------------------------------------------------------------
(* Slots that do not change say what they said.                            *)
LEMMA SameBefore ==
  ASSUME PerfAssumption, NEW r \in Rings, NEW q \in Rings, NEW t \in Nat, NEW h \in Nat, NEW e,
         Whole(r, t, h), Numbered(r, t, h, e), Same(q, r, t, h),
         NEW p \in t..h - 1, Cell(r, p).part = 1
  PROVE  Before(q, p) = Before(r, p)
<1>1. Cell(q, p) = Cell(r, p) /\ Follows(r, p, h, e)
  BY DEF Numbered, Same
<1>2. CASE Cell(r, p).kind = "sample"
  BY <1>1, <1>2 DEF Before
<1>3. CASE Cell(r, p).kind # "sample"
  <2>1. p + 1 < h
    BY <1>1, <1>3 DEF Follows
  <2>2. p + 1 \in t..h - 1
    BY <2>1
  <2>3. Cell(q, p + 1) = Cell(r, p + 1)
    BY <2>2 DEF Same
  <2> QED
    BY <1>1, <2>3 DEF Before
<1> QED
  BY <1>2, <1>3

(* What the kernel puts behind the records goes on from them.              *)
LEMMA NumberedOn ==
  ASSUME PerfAssumption, NEW r \in Rings, NEW q \in Rings, NEW t \in Nat, NEW h \in Nat, NEW e,
         Whole(r, t, h), Numbered(r, t, h, e), Same(q, r, t, h),
         NEW h2 \in Nat, h < h2, NEW e2, Before(q, h) = e,
         \A p \in h..h2 - 1 : Cell(q, p).part = 1 => Follows(q, p, h2, e2)
  PROVE  Numbered(q, t, h2, e2)
<1>1. ASSUME NEW p \in t..h - 1, Cell(q, p).part = 1 PROVE Follows(q, p, h2, e2)
  <2>1. Cell(q, p) = Cell(r, p) /\ Cell(r, p).part = 1 /\ Follows(r, p, h, e)
    BY <1>1 DEF Numbered, Same
  <2>2. CASE Cell(r, p).kind = "sample"
    <3>1. PICK n : n = Cell(r, p).size
      OBVIOUS
    <3>2. n \in Nat /\ n >= 1 /\ p + n <= h
      BY <2>1, <3>1, RecordFrom
    <3>3. Cell(r, p).nr = Upto(r, p + n, h, e)
      BY <2>1, <2>2, <3>1 DEF Follows
    <3>4. CASE p + n < h
      <4>1. p + n \in t..h - 1 /\ Cell(r, p + n).part = 1
        BY <2>1, <3>1, <3>4, NextStarts
      <4>2. PICK w \in t..h - 1 : w = p + n /\ Cell(r, w).part = 1
        BY <4>1
      <4>3. Before(q, w) = Before(r, w)
        BY <4>2, SameBefore
      <4>4. Cell(q, p).nr = Upto(q, p + n, h2, e2)
        BY <2>1, <3>3, <3>4, <4>2, <4>3 DEF Upto
      <4> QED
        BY <2>1, <2>2, <3>1, <4>4 DEF Follows
    <3>5. CASE p + n = h
      <4>1. Cell(q, p).nr = Upto(q, p + n, h2, e2)
        BY <2>1, <3>3, <3>5 DEF Upto
      <4> QED
        BY <2>1, <2>2, <3>1, <4>1 DEF Follows
    <3> QED
      BY <3>2, <3>4, <3>5
  <2>3. CASE Cell(r, p).kind # "sample"
    <3>1. Cell(r, p).kind = "lost" /\ Cell(r, p).size = 1 /\ p + 1 < h /\ Cell(r, p + 1).kind = "sample"
      BY <2>1, <2>3 DEF Follows
    <3>2. p + 1 \in t..h - 1 /\ p + 1 < h2
      BY <3>1
    <3>3. Cell(q, p + 1) = Cell(r, p + 1)
      BY <3>2 DEF Same
    <3> QED
      BY <2>1, <3>1, <3>2, <3>3 DEF Follows
  <2> QED
    BY <2>2, <2>3
<1>2. \A p \in t..h2 - 1 : p \in t..h - 1 \/ p \in h..h2 - 1
  OBVIOUS
<1> QED
  BY <1>1, <1>2 DEF Numbered

LEMMA GoesOnOn ==
  ASSUME PerfAssumption, NEW r \in Rings, NEW q \in Rings, NEW t \in Nat, NEW h \in Nat, NEW e,
         t <= h, Whole(r, t, h), Numbered(r, t, h, e), Same(q, r, t, h),
         NEW h2 \in Nat, h < h2, NEW e2, Before(q, h) = e,
         NEW s, GoesOn(r, t, h, e, s)
  PROVE  GoesOn(q, t, h2, e2, s)
<1>1. Through(s, Len(s)) = Upto(r, t, h, e)
  BY DEF GoesOn
<1>2. CASE t < h
  <2>1. t \in t..h - 1 /\ Cell(r, t).part = 1
    BY <1>2, ReaderStarts
  <2>2. Before(q, t) = Before(r, t) /\ Cell(q, t) = Cell(r, t)
    BY <2>1, SameBefore DEF Same
  <2>3. Upto(q, t, h2, e2) = Upto(r, t, h, e) /\ t < h2
    BY <1>2, <2>2 DEF Upto
  <2> QED
    BY <1>1, <2>2, <2>3 DEF GoesOn
<1>3. CASE t = h
  <2>1. Upto(q, t, h2, e2) = Upto(r, t, h, e) /\ ~(t < h)
    BY <1>3 DEF Upto
  <2> QED
    BY <1>1, <2>1 DEF GoesOn
<1> QED
  BY <1>2, <1>3

(* A user who has one more record has it whole, and it goes on.            *)
LEMMA OneMore ==
  ASSUME PerfAssumption, NEW r \in Rings, NEW t \in Nat, NEW h \in Nat, NEW e,
         Whole(r, t, h), t < h, NEW s \in Seq(Seq(Parts)), RecordsWhole(s),
         NEW rec, rec = [k \in 1..Cell(r, t).size |-> Cell(r, t + k - 1)]
  PROVE  /\ rec \in Seq(Parts) /\ rec[1] = Cell(r, t) /\ RecordsWhole(Append(s, rec))
<1>1. PICK n : n = Cell(r, t).size
  OBVIOUS
<1>2. PICK x : x = Cell(r, t)
  OBVIOUS
<1>3. /\ n \in Nat /\ n >= 1 /\ t + n <= h
      /\ \A j \in 1..n : Cell(r, t + j - 1) = Part(x.kind, x.nr, j, n)
  <2>1. t \in t..h - 1 /\ Cell(r, t).part = 1
    BY ReaderStarts
  <2> QED
    BY <1>1, <1>2, <2>1, RecordFrom
<1>4. rec = [k \in 1..n |-> Cell(r, t + k - 1)]
  BY <1>1
<1>5. \A k \in 1..n : Cell(r, t + k - 1) \in Parts
  <2> TAKE k \in 1..n
  <2>1. t + k - 1 \in Nat
    BY <1>3
  <2> QED
    BY <2>1, CellIsPart DEF Rings
<1>6. rec \in Seq(Parts) /\ Len(rec) = n
  <2>1. rec \in [1..n -> Parts] /\ n \in Nat
    BY ONLY <1>3, <1>4, <1>5, Zenon
  <2> QED
    BY ONLY <2>1, SMT
<1>7. \A i \in 1..n : rec[i] = Part(x.kind, x.nr, i, n)
  BY <1>3, <1>4
<1>8. 1 \in 1..n /\ rec[1] = Cell(r, t)
  <2>1. 1 \in 1..n /\ t + 1 - 1 = t
    BY <1>3
  <2> QED
    BY <1>4, <2>1
<1>9. \A i \in 1..n : rec[i] = Part(rec[1].kind, rec[1].nr, i, Len(rec))
  BY <1>2, <1>6, <1>7, <1>8
<1>10. DOMAIN rec = 1..n /\ DOMAIN s = 1..Len(s) /\ Len(s) \in Nat
  BY ONLY <1>6, s \in Seq(Seq(Parts)), SMT
<1>11. PICK u : u = Append(s, rec)
  OBVIOUS
<1>12. /\ DOMAIN u = 1..Len(s) + 1 /\ u[Len(s) + 1] = rec
       /\ \A k \in 1..Len(s) : u[k] = s[k]
  BY <1>6, <1>11
<1>13. \A k \in DOMAIN u : k \in 1..Len(s) \/ k = Len(s) + 1
  BY <1>10, <1>12
<1>14. ASSUME NEW k \in DOMAIN u, NEW i \in DOMAIN u[k]
       PROVE  u[k][i] = Part(u[k][1].kind, u[k][1].nr, i, Len(u[k]))
  <2>1. CASE k \in 1..Len(s)
    <3>1. u[k] = s[k] /\ k \in DOMAIN s
      BY <1>10, <1>12, <2>1
    <3>2. i \in DOMAIN s[k]
      BY <3>1
    <3> QED
      BY <3>1, <3>2 DEF RecordsWhole
  <2>2. CASE k = Len(s) + 1
    BY <1>9, <1>10, <1>12, <2>2
  <2> QED
    BY <1>13, <2>1, <2>2
<1>15. RecordsWhole(u)
  BY <1>14 DEF RecordsWhole
<1> QED
  BY <1>6, <1>8, <1>11, <1>15

LEMMA ThroughSame ==
  ASSUME NEW s \in Seq(Seq(Parts)), NEW rec \in Seq(Parts)
  PROVE  /\ \A k \in 0..Len(s) : Through(Append(s, rec), k) = Through(s, k)
         /\ Through(Append(s, rec), Len(s) + 1) =
              IF rec[1].kind = "sample" THEN rec[1].nr
              ELSE rec[1].nr + IF Len(s) = 0 THEN 0 ELSE s[Len(s)][1].nr
         /\ Len(Append(s, rec)) = Len(s) + 1 /\ DOMAIN Append(s, rec) = 1..Len(s) + 1
         /\ Append(s, rec)[Len(s) + 1] = rec
         /\ \A k \in 1..Len(s) : Append(s, rec)[k] = s[k]
<1>1. PICK u : u = Append(s, rec)
  OBVIOUS
<1>2. /\ Len(s) \in Nat /\ Len(u) = Len(s) + 1 /\ DOMAIN u = 1..Len(s) + 1
      /\ u[Len(s) + 1] = rec /\ \A k \in 1..Len(s) : u[k] = s[k]
  BY <1>1
<1>3. ASSUME NEW k \in 0..Len(s) PROVE Through(u, k) = Through(s, k)
  <2>1. CASE k = 0
    BY <2>1 DEF Through
  <2>2. CASE k = 1
    <3>1. k \in 1..Len(s) /\ u[k] = s[k]
      BY <1>2, <2>2
    <3> QED
      BY <2>2, <3>1 DEF Through
  <2>3. CASE k # 0 /\ k # 1
    <3>1. k \in 1..Len(s) /\ k - 1 \in 1..Len(s)
      BY <1>2, <2>3
    <3>2. u[k] = s[k] /\ u[k - 1] = s[k - 1]
      BY <1>2, <3>1
    <3> QED
      BY <2>3, <3>2 DEF Through
  <2> QED
    BY <2>1, <2>2, <2>3
<1>4. Through(u, Len(s) + 1) = IF rec[1].kind = "sample" THEN rec[1].nr
                               ELSE rec[1].nr + IF Len(s) = 0 THEN 0 ELSE s[Len(s)][1].nr
  <2>1. CASE Len(s) = 0
    BY <1>2, <2>1 DEF Through
  <2>2. CASE Len(s) # 0
    <3>1. Len(s) \in 1..Len(s) /\ (Len(s) + 1) - 1 = Len(s) /\ Len(s) + 1 # 1 /\ Len(s) + 1 # 0
      BY <1>2, <2>2
    <3>2. u[(Len(s) + 1) - 1] = s[Len(s)]
      BY <1>2, <3>1
    <3> QED
      BY <1>2, <2>2, <3>1, <3>2 DEF Through
  <2> QED
    BY <2>1, <2>2
<1> QED
  BY <1>1, <1>2, <1>3, <1>4

LEMMA ReadOn ==
  ASSUME PerfAssumption, NEW r \in Rings, NEW t \in Nat, NEW h \in Nat, NEW e,
         Whole(r, t, h), Numbered(r, t, h, e), t < h, NEW s \in Seq(Seq(Parts)),
         NoneMissed(s), GoesOn(r, t, h, e, s),
         NEW rec \in Seq(Parts), rec[1] = Cell(r, t)
  PROVE  /\ NoneMissed(Append(s, rec))
         /\ GoesOn(r, t + Cell(r, t).size, h, e, Append(s, rec))
<1>1. PICK x : x = Cell(r, t)
  OBVIOUS
<1>2. PICK u : u = Append(s, rec)
  OBVIOUS
<1>3. /\ Len(s) \in Nat /\ Len(u) = Len(s) + 1 /\ DOMAIN u = 1..Len(s) + 1
      /\ u[Len(s) + 1] = rec /\ \A k \in 1..Len(s) : u[k] = s[k]
      /\ \A k \in 0..Len(s) : Through(u, k) = Through(s, k)
      /\ Through(u, Len(s) + 1) = IF x.kind = "sample" THEN x.nr
                                  ELSE x.nr + IF Len(s) = 0 THEN 0 ELSE s[Len(s)][1].nr
  <2>1. Len(s) \in Nat
    OBVIOUS
  <2> QED
    BY <1>1, <1>2, <2>1, ThroughSame
<1>4. /\ t \in t..h - 1 /\ x.part = 1 /\ x \in Parts
      /\ x.size \in Nat /\ x.size >= 1 /\ t + x.size <= h /\ x.nr \in Nat
  <2>1. t \in t..h - 1 /\ x.part = 1 /\ x \in Parts
    BY <1>1, ReaderStarts, CellIsPart DEF Rings
  <2>2. x.size \in Nat /\ x.size >= 1 /\ t + x.size <= h
    BY <1>1, <2>1, RecordFrom
  <2> QED
    BY <2>1, <2>2 DEF Parts
<1>5. Follows(r, t, h, e)
  BY <1>1, <1>4 DEF Numbered
<1>6. Through(s, Len(s)) = Before(r, t)
  BY DEF GoesOn, Upto
<1>7. /\ s # <<>> <=> Len(s) # 0 
      /\ u # <<>> /\ u[Len(u)][1] = x
  BY <1>1, <1>2, <1>3
<1>8. \A k \in 1..Len(s) : \/ u[k][1].kind = "sample" /\ u[k][1].nr = Through(u, k - 1) + 1
                           \/ u[k][1].kind = "lost" /\ (k > 1 => u[k - 1][1].kind = "sample")
  <2> TAKE k \in 1..Len(s)
  <2>1. k \in DOMAIN s /\ u[k] = s[k] /\ k - 1 \in 0..Len(s) /\ (k > 1 => k - 1 \in 1..Len(s))
    BY <1>3
  <2>2. Through(u, k - 1) = Through(s, k - 1) /\ (k > 1 => u[k - 1] = s[k - 1])
    BY <1>3, <2>1
  <2> QED
    BY <2>1, <2>2 DEF NoneMissed
<1>9. ASSUME \/ x.kind = "sample" /\ x.nr = Through(s, Len(s)) + 1
             \/ x.kind = "lost" /\ (Len(s) # 0 => s[Len(s)][1].kind = "sample")
      PROVE  NoneMissed(u)
  <2>1. ASSUME NEW k \in DOMAIN u, k \notin 1..Len(s)
        PROVE  \/ u[k][1].kind = "sample" /\ u[k][1].nr = Through(u, k - 1) + 1
               \/ u[k][1].kind = "lost" /\ (k > 1 => u[k - 1][1].kind = "sample")
    <3>1. k = Len(s) + 1 /\ k - 1 = Len(s) /\ Len(s) \in 0..Len(s) /\ (Len(s) # 0 => Len(s) \in 1..Len(s))
      BY <1>3, <2>1
    <3>2. u[k][1] = x /\ Through(u, k - 1) = Through(s, Len(s)) /\ (Len(s) # 0 => u[k - 1] = s[Len(s)])
      BY <1>1, <1>3, <3>1
    <3>3. k > 1 => Len(s) # 0
      BY <3>1
    <3> QED
      BY <1>9, <3>2, <3>3
  <2> QED
    BY <1>8, <2>1 DEF NoneMissed
<1>10. CASE x.kind = "sample"
  <2>1. x.nr = Through(s, Len(s)) + 1
    BY <1>1, <1>4, <1>6, <1>10 DEF Before
  <2>2. x.nr = Upto(r, t + x.size, h, e)
    BY <1>1, <1>5, <1>10 DEF Follows
  <2>3. Through(u, Len(u)) = Upto(r, t + x.size, h, e) /\ u[Len(u)][1].kind # "lost"
    BY <1>3, <1>7, <1>10, <2>2
  <2>4. GoesOn(r, t + x.size, h, e, u)
    BY <2>3 DEF GoesOn
  <2> QED
    BY <1>1, <1>2, <1>9, <1>10, <2>1, <2>4
<1>11. CASE x.kind # "sample"
  <2>1. x.kind = "lost" /\ x.size = 1 /\ t + 1 < h /\ Cell(r, t + 1).kind = "sample"
    BY <1>1, <1>5, <1>11 DEF Follows
  <2>2. PICK y : y = Cell(r, t + 1)
    OBVIOUS
  <2>3. y \in Parts /\ y.nr \in Nat
    <3>1. y \in Parts
      BY <2>2, CellIsPart DEF Rings
    <3> QED
      BY <3>1 DEF Parts
  <2>4. Through(s, Len(s)) = y.nr - 1 - x.nr
    BY <1>1, <1>6, <1>11, <2>2 DEF Before
  <2>5. Len(s) # 0 => Len(s) \in DOMAIN s /\ s[Len(s)][1].kind = "sample"
    <3> SUFFICES ASSUME Len(s) # 0 PROVE Len(s) \in DOMAIN s /\ s[Len(s)][1].kind = "sample"
      OBVIOUS
    <3>1. Len(s) \in DOMAIN s /\ s # <<>>
      BY <1>3, <1>7
    <3>2. s[Len(s)][1].kind # "lost"
      BY <1>1, <1>11, <3>1 DEF GoesOn
    <3> QED
      BY <3>1, <3>2 DEF NoneMissed
  <2>6. Through(s, Len(s)) = IF Len(s) = 0 THEN 0 ELSE s[Len(s)][1].nr
    BY <2>5 DEF Through
  <2>7. Through(u, Len(u)) = y.nr - 1
    <3>1. PICK m : m = Through(s, Len(s))
      OBVIOUS
    <3>2. Through(u, Len(u)) = x.nr + IF Len(s) = 0 THEN 0 ELSE s[Len(s)][1].nr
      BY <1>3, <1>11
    <3>3. Through(u, Len(u)) = x.nr + m /\ m = y.nr - 1 - x.nr
      BY ONLY <2>4, <2>6, <3>1, <3>2, Zenon
    <3> QED
      BY ONLY <1>4, <2>3, <3>3, SMT
  <2>8. Upto(r, t + x.size, h, e) = y.nr - 1
    BY <2>1, <2>2 DEF Upto, Before
  <2>9. GoesOn(r, t + x.size, h, e, u)
    BY <2>1, <2>7, <2>8 DEF GoesOn
  <2> QED
    BY <1>1, <1>2, <1>9, <2>1, <2>5, <2>9
<1> QED
  BY <1>10, <1>11
-----------------------------------------------------------------------------
(* What PerfRight says depends on the slots, not on the tail.              *)
LEMMA SameRight ==
  ASSUME PerfAssumption, NEW r \in Rings, NEW q \in Rings, NEW t, NEW s, PerfRight(r, t, s),
         q.slot = r.slot, q.head = r.head, r.tail <= q.tail, q.tail <= t,
         q.out - q.lost = r.out - r.lost, q.lost <= q.out, q.out <= MaxOut
  PROVE  PerfRight(q, t, s)
<1>1. /\ r.head \in Nat /\ r.tail \in Nat /\ q.tail \in Nat
      /\ t \in Nat /\ t <= r.head /\ r.head - r.tail <= Size
      /\ Whole(r, t, r.head) /\ Numbered(r, t, r.head, r.out - r.lost)
      /\ RecordsWhole(s) /\ NoneMissed(s) /\ GoesOn(r, t, r.head, r.out - r.lost, s)
  BY DEF PerfRight, Rings
<1>2. \A p : Cell(q, p) = Cell(r, p)
  BY DEF Cell
<1>3. Whole(q, t, r.head)
  BY <1>1, <1>2 DEF Whole
<1>4. \A p : Before(q, p) = Before(r, p)
  BY <1>2 DEF Before
<1>5. \A p, h, e : Upto(q, p, h, e) = Upto(r, p, h, e)
  BY <1>4 DEF Upto
<1>6. Numbered(q, t, r.head, r.out - r.lost)
  BY <1>1, <1>2, <1>5 DEF Numbered, Follows
<1>7. GoesOn(q, t, r.head, r.out - r.lost, s)
  BY <1>1, <1>2, <1>5 DEF GoesOn
<1>8. q.head - q.tail <= Size
  BY <1>1 DEF PerfAssumption
<1> QED
  BY <1>1, <1>3, <1>6, <1>7, <1>8 DEF PerfRight

(* Records behind the ones there are.                                      *)
LEMMA MoreRight ==
  ASSUME PerfAssumption, NEW r \in Rings, NEW q \in Rings, NEW t, NEW s, PerfRight(r, t, s),
         NEW h \in Nat, h = r.head, NEW h2 \in Nat, h2 = q.head, h < h2, h2 - r.tail <= Size,
         NEW nr \in Nat, r.out + 1 = nr, nr <= MaxOut,
         q.tail = r.tail, q.lost = 0, q.out = nr, Whole(q, t, h2),
         Same(q, r, t, h),
         Before(q, h) = r.out - r.lost,
         \A p \in h..h2 - 1 : Cell(q, p).part = 1 => Follows(q, p, h2, nr)
  PROVE  PerfRight(q, t, s)
<1>1. /\ r.tail \in Nat /\ MaxOut \in Nat
      /\ t \in Nat /\ r.tail <= t /\ t <= h
      /\ Whole(r, t, h) /\ Numbered(r, t, h, r.out - r.lost)
      /\ RecordsWhole(s) /\ NoneMissed(s) /\ GoesOn(r, t, h, r.out - r.lost, s)
  BY DEF PerfRight, Rings, PerfAssumption
<1>2. PICK e : e = r.out - r.lost
  OBVIOUS
<1>3. Numbered(r, t, h, e) /\ GoesOn(r, t, h, e, s) /\ Before(q, h) = e
  BY <1>1, <1>2
<1>4. Numbered(q, t, h2, nr)
  BY <1>1, <1>3, NumberedOn
<1>5. GoesOn(q, t, h2, nr, s)
  BY <1>1, <1>3, GoesOnOn
<1>6. /\ q.out - q.lost = nr /\ q.lost <= q.out /\ q.out <= MaxOut
      /\ t <= q.head /\ q.tail <= t /\ q.head - q.tail <= Size
  BY <1>1
<1> QED
  BY <1>1, <1>4, <1>5, <1>6 DEF PerfRight

(* What a ring is after a sample was put in.                               *)
Reported(x) == [x EXCEPT !.lost = 0, !.out = @ + 1, !.wake = TRUE]

LEMMA Filled ==
  ASSUME PerfAssumption, NEW x \in Rings, NEW q, q = Reported(x)
  PROVE  /\ q \in Rings /\ q.slot = x.slot /\ q.head = x.head /\ q.tail = x.tail
         /\ q.lost = 0 /\ q.out = x.out + 1 /\ \A p : Cell(q, p) = Cell(x, p)
<1>1. PICK y : y = [x EXCEPT !.lost = 0]
  OBVIOUS
<1>2. y \in Rings /\ y.slot = x.slot /\ y.head = x.head /\ y.tail = x.tail /\ y.lost = 0 /\ y.out = x.out
  BY <1>1 DEF Rings
<1>3. PICK z : z = [y EXCEPT !.out = x.out + 1]
  OBVIOUS
<1>4. x.out + 1 \in Nat
  BY DEF Rings
<1>5. z \in Rings /\ z.slot = x.slot /\ z.head = x.head /\ z.tail = x.tail /\ z.lost = 0 /\ z.out = x.out + 1
  BY <1>2, <1>3, <1>4 DEF Rings
<1>6. q = [z EXCEPT !.wake = TRUE]
  BY <1>1, <1>3 DEF Rings, Reported
<1>7. q \in Rings
  BY <1>5, <1>6 DEF Rings
<1>8. q.slot = x.slot /\ q.head = x.head /\ q.tail = x.tail /\ q.lost = 0 /\ q.out = x.out + 1
  BY <1>5, <1>6 DEF Rings
<1> QED
  BY <1>7, <1>8 DEF Cell

(* The sample itself is what the one after it goes on from.                *)
LEMMA LastFollows ==
  ASSUME NEW q, NEW g \in Nat, NEW n \in Nat, n >= 1, NEW nr \in Nat,
         NEW h2 \in Nat, h2 = g + n, Lies(q, g, h2, "sample", nr, n)
  PROVE  /\ Cell(q, g).kind = "sample" /\ Cell(q, g).nr = nr
         /\ \A p \in g..h2 - 1 : Cell(q, p).part = 1 => Follows(q, p, h2, nr)
<1>1. \A p \in g..h2 - 1 : /\ Cell(q, p).kind = "sample" /\ Cell(q, p).nr = nr
                            /\ Cell(q, p).part = p - g + 1 /\ Cell(q, p).size = n
  <2> TAKE p \in g..h2 - 1
  <2>1. Cell(q, p) = Part("sample", nr, p - g + 1, n)
    BY DEF Lies
  <2> QED
    BY <2>1 DEF Part
<1>2. g \in g..h2 - 1
  OBVIOUS
<1>3. ASSUME NEW p \in g..h2 - 1, Cell(q, p).part = 1 PROVE Follows(q, p, h2, nr)
  <2>1. p = g /\ Cell(q, p).kind = "sample" /\ Cell(q, p).nr = nr /\ Cell(q, p).size = n
    BY <1>1, <1>3
  <2>2. Upto(q, p + Cell(q, p).size, h2, nr) = nr
    BY <2>1 DEF Upto
  <2> QED
    BY <2>1, <2>2 DEF Follows
<1> QED
  BY <1>1, <1>2, <1>3

(* The sample alone.                                                       *)
LEMMA SampleRight ==
  ASSUME PerfAssumption, NEW r \in Rings, NEW t, NEW s, PerfRight(r, t, s),
         NEW h \in Nat, r.head = h, NEW n \in Sizes, h + n - r.tail <= Size,
         NEW nr \in Nat, r.out + 1 = nr, nr <= MaxOut, r.lost = 0,
         NEW x, x = Put(r, "sample", nr, n), NEW q, q = Reported(x)
  PROVE  q \in Rings /\ PerfRight(q, t, s) /\ q.tail = r.tail /\ h <= q.head /\ Same(q, r, t, h)
<1>1. /\ r.tail \in Nat /\ r.out \in Nat /\ Size \in Nat /\ n \in Nat /\ n >= 1
      /\ t \in Nat /\ r.tail <= t /\ t <= h /\ Whole(r, t, h)
  BY DEF PerfRight, Rings, PerfAssumption
<1>2. PICK h2 \in Nat : h2 = h + n
  BY <1>1
<1>3. n \in 1..Size /\ h2 - Size <= t
  BY <1>1, <1>2
<1>4. /\ x \in Rings /\ x.head = h2 /\ x.tail = r.tail /\ x.out = r.out
      /\ Lies(x, h, h2, "sample", nr, n) /\ Same(x, r, t, h)
  BY <1>1, <1>2, <1>3, PutCells
<1>5. Whole(x, t, h2)
  BY <1>1, <1>2, <1>4, WholeOn
<1>6. /\ q \in Rings /\ q.head = h2 /\ q.tail = r.tail
      /\ q.lost = 0 /\ q.out = nr /\ \A p : Cell(q, p) = Cell(x, p)
  BY <1>4, Filled
<1>7. Whole(q, t, h2) /\ Same(q, r, t, h) /\ Lies(q, h, h2, "sample", nr, n)
  BY <1>4, <1>5, <1>6 DEF Whole, Same, Lies
<1>8. /\ Cell(q, h).kind = "sample" /\ Cell(q, h).nr = nr
      /\ \A p \in h..h2 - 1 : Cell(q, p).part = 1 => Follows(q, p, h2, nr)
  BY <1>1, <1>2, <1>7, LastFollows
<1>9. Before(q, h) = r.out - r.lost
  BY <1>1, <1>8 DEF Before
<1>10. h < h2 /\ h2 - r.tail <= Size /\ h <= q.head
  BY <1>1, <1>2, <1>6
<1>11. PerfRight(q, t, s)
  BY <1>6, <1>7, <1>8, <1>9, <1>10, MoreRight
<1> QED
  BY <1>6, <1>7, <1>10, <1>11

(* A sample behind the record of what was lost.                            *)
LEMMA LostRight ==
  ASSUME PerfAssumption, NEW r \in Rings, NEW t, NEW s, PerfRight(r, t, s),
         NEW h \in Nat, r.head = h, NEW n \in Sizes, h + (n + 1) - r.tail <= Size,
         NEW nr \in Nat, r.out + 1 = nr, nr <= MaxOut, NEW lost \in Nat, lost = r.lost,
         NEW told, told = Put(r, "lost", lost, 1),
         NEW x, x = Put(told, "sample", nr, n), NEW q, q = Reported(x)
  PROVE  q \in Rings /\ PerfRight(q, t, s) /\ q.tail = r.tail /\ h <= q.head /\ Same(q, r, t, h)
<1>1. /\ r.tail \in Nat /\ r.out \in Nat /\ Size \in Nat /\ n \in Nat /\ n >= 1 /\ 1 \in Nat
      /\ t \in Nat /\ r.tail <= t /\ t <= h /\ Whole(r, t, h)
  BY DEF PerfRight, Rings, PerfAssumption
<1>2. PICK g \in Nat : g = h + 1
  OBVIOUS
<1>3. PICK h2 \in Nat : h2 = g + n
  BY <1>1
<1>4. n \in 1..Size /\ 1 \in 1..Size /\ g - Size <= t /\ h2 - Size <= t /\ t <= g
  BY <1>1, <1>2, <1>3
<1>5. /\ told \in Rings /\ told.head = g /\ told.tail = r.tail /\ told.out = r.out
      /\ Lies(told, h, g, "lost", lost, 1) /\ Same(told, r, t, h)
  <2>1. "lost" \in {"sample", "lost"} /\ PerfAssumption
    OBVIOUS
  <2>2. PICK one \in 1..Size : one = 1
    BY <1>4
  <2>3. told = Put(r, "lost", lost, one) /\ g = h + one
    BY <1>2, <2>2
  <2>4. /\ told \in Rings /\ told.head = g /\ told.tail = r.tail /\ told.out = r.out
        /\ Lies(told, h, g, "lost", lost, one) /\ Same(told, r, t, h)
    BY ONLY <2>1, r \in Rings, h \in Nat, r.head = h, lost \in Nat, g \in Nat,
            one \in 1..Size, <2>3, <1>1, <1>4, PutCells, SMTT(30)
  <2> QED
    BY <2>2, <2>4
<1>6. Whole(told, t, g)
  BY <1>1, <1>2, <1>5, WholeOn
<1>7. /\ x \in Rings /\ x.head = h2 /\ x.tail = r.tail /\ x.out = r.out
      /\ Lies(x, g, h2, "sample", nr, n) /\ Same(x, told, t, g)
  <2>1. PICK kind \in {"sample", "lost"} : kind = "sample"
    OBVIOUS
  <2>2. /\ PerfAssumption /\ told \in Rings /\ told.head = g /\ n \in 1..Size
        /\ t \in Nat /\ h2 - Size <= t /\ x = Put(told, kind, nr, n) /\ h2 = g + n
    BY ONLY <1>1, <1>3, <1>4, <1>5, <2>1, PerfAssumption, x = Put(told, "sample", nr, n), Zenon
  <2>3. /\ x \in Rings /\ x.head = h2 /\ x.tail = told.tail /\ x.out = told.out
        /\ Lies(x, g, h2, kind, nr, n) /\ Same(x, told, t, g)
    BY ONLY <2>1, <2>2, kind \in {"sample", "lost"}, nr \in Nat, g \in Nat, h2 \in Nat, PutCells, SMTT(30)
  <2> QED
    BY ONLY <1>5, <2>1, <2>3, Zenon
<1>8. Whole(x, t, h2)
  BY <1>1, <1>3, <1>4, <1>5, <1>6, <1>7, WholeOn
<1>9. /\ q \in Rings /\ q.head = h2 /\ q.tail = r.tail
      /\ q.lost = 0 /\ q.out = nr /\ \A p : Cell(q, p) = Cell(x, p)
  BY <1>7, Filled
<1>10. Whole(q, t, h2) /\ Same(q, told, t, g) /\ Lies(q, g, h2, "sample", nr, n)
  BY <1>7, <1>8, <1>9 DEF Whole, Same, Lies
<1>11. Same(q, r, t, h)
  <2>1. \A p \in t..h - 1 : p \in t..g - 1
    BY <1>1, <1>2
  <2> QED
    BY <1>5, <1>10, <2>1 DEF Same
<1>12. /\ Cell(q, g).kind = "sample" /\ Cell(q, g).nr = nr
       /\ \A p \in g..h2 - 1 : Cell(q, p).part = 1 => Follows(q, p, h2, nr)
  BY <1>1, <1>3, <1>10, LastFollows
<1>13. Cell(q, h).kind = "lost" /\ Cell(q, h).nr = lost /\ Cell(q, h).size = 1
  <2>1. h \in t..g - 1 /\ h \in h..g - 1
    BY <1>1, <1>2
  <2>2. Cell(q, h) = Part("lost", lost, h - h + 1, 1)
    BY <1>5, <1>10, <2>1 DEF Lies, Same
  <2> QED
    BY <2>2 DEF Part
<1>14. Before(q, h) = r.out - r.lost
  BY <1>1, <1>2, <1>12, <1>13 DEF Before
<1>15. h < h2 /\ h + 1 < h2 /\ h2 - r.tail <= Size /\ h <= q.head
  BY <1>1, <1>2, <1>3, <1>9
<1>16. ASSUME NEW p \in h..h2 - 1, Cell(q, p).part = 1 PROVE Follows(q, p, h2, nr)
  <2>1. CASE p = h
    BY <1>2, <1>12, <1>13, <1>15, <2>1 DEF Follows
  <2>2. CASE p # h
    <3>1. p \in g..h2 - 1
      BY <1>2, <2>2
    <3> QED
      BY <1>12, <1>16, <3>1
  <2> QED
    BY <2>1, <2>2
<1>17. PerfRight(q, t, s)
  BY <1>9, <1>10, <1>11, <1>14, <1>15, <1>16, MoreRight
<1> QED
  BY <1>9, <1>11, <1>15, <1>17

(* The record at the reader's place is the user's next.                    *)
LEMMA NextRight ==
  ASSUME PerfAssumption, NEW r \in Rings, NEW t, NEW s \in Seq(Seq(Parts)), PerfRight(r, t, s),
         NEW h \in Nat, t < h, h <= r.head, Whole(r, t, h),
         NEW rec, rec = [k \in 1..Cell(r, t).size |-> Cell(r, t + k - 1)]
  PROVE  /\ Append(s, rec) \in Seq(Seq(Parts))
         /\ Cell(r, t).size \in 0..Size /\ t + Cell(r, t).size <= h
         /\ Whole(r, t + Cell(r, t).size, h)
         /\ PerfRight(r, t + Cell(r, t).size, Append(s, rec))
<1>1. /\ r.head \in Nat /\ r.tail \in Nat /\ Size \in Nat /\ t \in Nat /\ r.tail <= t
      /\ r.head - r.tail <= Size /\ r.lost <= r.out /\ r.out <= MaxOut /\ t < r.head
      /\ Whole(r, t, r.head) /\ Numbered(r, t, r.head, r.out - r.lost)
      /\ RecordsWhole(s) /\ NoneMissed(s) /\ GoesOn(r, t, r.head, r.out - r.lost, s)
  BY DEF PerfRight, Rings, PerfAssumption
<1>2. PICK n : n = Cell(r, t).size
  OBVIOUS
<1>3. n \in Nat /\ n >= 1 /\ t + n <= h
  <2>1. t \in t..h - 1 /\ Cell(r, t).part = 1
    BY <1>1, ReaderStarts
  <2> QED
    BY <1>1, <1>2, <2>1, RecordFrom
<1>4. n \in 0..Size /\ t + n \in Nat /\ r.tail <= t + n /\ t + n <= r.head
  BY <1>1, <1>3
<1>5. Whole(r, t + n, h) /\ Whole(r, t + n, r.head)
  BY <1>1, <1>2, RestWhole
<1>6. rec \in Seq(Parts) /\ rec[1] = Cell(r, t) /\ RecordsWhole(Append(s, rec))
  BY <1>1, OneMore
<1>7. PICK e : e = r.out - r.lost
  OBVIOUS
<1>8. /\ NoneMissed(Append(s, rec))
      /\ GoesOn(r, t + n, r.head, r.out - r.lost, Append(s, rec))
  <2>1. Numbered(r, t, r.head, e) /\ GoesOn(r, t, r.head, e, s)
    BY <1>1, <1>7
  <2> QED
    BY <1>1, <1>2, <1>6, <1>7, <2>1, ReadOn
<1>9. Numbered(r, t + n, r.head, r.out - r.lost)
  BY <1>1, <1>3 DEF Numbered
<1>10. PerfRight(r, t + n, Append(s, rec))
  BY <1>1, <1>4, <1>5, <1>6, <1>8, <1>9 DEF PerfRight
<1>11. Append(s, rec) \in Seq(Seq(Parts))
  BY ONLY <1>6, s \in Seq(Seq(Parts)), SMT
<1> QED
  BY <1>2, <1>3, <1>4, <1>5, <1>10, <1>11
-----------------------------------------------------------------------------
(* Up to where the user has read a ring: the tail, or the reader's own.    *)
Position(c) == IF cur.at = "read" /\ cur.cpu = c THEN cur.tail ELSE ring[c].tail

PerfTypes ==
  /\ pb \in [state : {"none", "new", "ready"}, i : Nat, fds : SUBSET Cpus,
             polled : SUBSET Cpus, calls : Nat]
  /\ cur \in [at : {"idle", "next", "read"}, todo : Seq(Cpus), cpu : Nat, head : Nat, tail : Nat]
  /\ ring \in [Cpus -> Rings] /\ copy \in [Cpus -> 0..Size]
  /\ had \in [Cpus -> Seq(Seq(Parts))]

Keyed ==
  /\ keys = pb.fds /\ pb.polled = pb.fds
  /\ pb.state = "none" => pb.fds = {}
  /\ pb.state # "ready" => cur = NotReading

Holding ==
  cur.at = "read" => /\ cur.cpu \in Cpus /\ cur.tail <= cur.head /\ cur.head <= ring[cur.cpu].head
                     /\ Whole(ring[cur.cpu], cur.tail, cur.head)

PerfIInv ==
  /\ PerfTypes /\ Keyed /\ Holding
  /\ \A c \in Cpus : PerfRight(ring[c], Position(c), had[c])

LEMMA EmptyRight ==
  ASSUME PerfAssumption
  PROVE  EmptyRing \in Rings /\ PerfRight(EmptyRing, 0, <<>>)
<1>1. PICK r : r = EmptyRing
  OBVIOUS
<1>2. [i \in 0..Size - 1 |-> Part("none", 0, 0, 0)] \in Slots
  BY DEF Slots, Parts, Part
<1>3. r \in Rings /\ r.head = 0 /\ r.tail = 0 /\ r.lost = 0 /\ r.out = 0
  BY <1>1, <1>2 DEF EmptyRing, Rings
<1>4. Whole(r, 0, 0) /\ Numbered(r, 0, 0, 0)
  BY DEF Whole, Numbered
<1>5. RecordsWhole(<<>>) /\ NoneMissed(<<>>)
  BY DEF RecordsWhole, NoneMissed
<1>6. GoesOn(r, 0, 0, 0, <<>>)
  BY DEF GoesOn, Through, Upto
<1>7. PerfRight(r, 0, <<>>)
  BY <1>3, <1>4, <1>5, <1>6 DEF PerfRight, PerfAssumption
<1> QED
  BY <1>1, <1>3, <1>7

LEMMA SameWhole ==
  ASSUME PerfAssumption, NEW r \in Rings, NEW q \in Rings, NEW t \in Nat, NEW h \in Nat,
         t <= h, Whole(r, t, h), NEW g \in Nat, h <= g, Same(q, r, t, g)
  PROVE  Whole(q, t, h)
<1>1. Same(q, r, t, h)
  BY DEF Same
<1>2. Lies(q, h, h, "none", 0, 0) /\ h = h + 0 /\ 0 \in Nat
  BY DEF Lies
<1> QED
  BY <1>1, <1>2, WholeOn

LEMMA PerfInitIInv ==
  ASSUME PerfAssumption, PerfInit
  PROVE  PerfIInv
<1>1. PerfTypes
  BY EmptyRight DEF PerfInit, PerfTypes, NoBuffer, NotReading, PerfAssumption
<1>2. Keyed /\ Holding
  BY DEF PerfInit, Keyed, Holding, NoBuffer, NotReading
<1>3. \A c \in Cpus : Position(c) = 0 /\ ring[c] = EmptyRing /\ had[c] = <<>>
  BY DEF PerfInit, Position, NotReading, EmptyRing
<1> QED
  BY <1>1, <1>2, <1>3, EmptyRight DEF PerfIInv

(* A new buffer, with rings that are empty.                                *)
LEMMA NewIInv ==
  ASSUME PerfAssumption, PerfIInv, perf_buffer__new
  PROVE  PerfIInv'
<1>1. /\ pb.state = "none" /\ PerfTypes /\ Keyed
      /\ pb' = [NoBuffer EXCEPT !.state = "new", !.i = 1, !.calls = pb.calls + 1]
      /\ ring' = [c \in Cpus |-> EmptyRing] /\ copy' = [c \in Cpus |-> 0]
      /\ had' = [c \in Cpus |-> <<>>] /\ UNCHANGED <<keys, cur>>
  BY DEF perf_buffer__new, PerfIInv
<1>2. keys = {} /\ cur = NotReading /\ pb.calls \in Nat
  BY <1>1 DEF Keyed, PerfTypes
<1>3. pb' = [state |-> "new", i |-> 1, fds |-> {}, polled |-> {}, calls |-> pb.calls + 1]
  BY <1>1 DEF NoBuffer
<1>4. PerfTypes'
  BY <1>1, <1>2, <1>3, EmptyRight DEF PerfTypes, NotReading, PerfAssumption
<1>5. Keyed' /\ Holding'
  <2>1. keys' = {} /\ cur' = NotReading
    BY ONLY <1>1, <1>2, Zenon
  <2>2. pb'.fds = {} /\ pb'.polled = {}
    BY <1>3
  <2> QED
    BY <2>1, <2>2 DEF Keyed, Holding, NotReading
<1>6. \A c \in Cpus : Position(c)' = 0 /\ ring'[c] = EmptyRing /\ had'[c] = <<>>
  BY <1>1, <1>2 DEF Position, NotReading, EmptyRing
<1> QED
  BY <1>4, <1>5, <1>6, EmptyRight DEF PerfIInv

(* Steps on the buffer that leave rings and reader alone.                  *)
LEMMA BufferIInv ==
  ASSUME PerfIInv, UNCHANGED <<ring, cur, copy, had>>, Keyed',
         pb' \in [state : {"none", "new", "ready"}, i : Nat, fds : SUBSET Cpus,
                  polled : SUBSET Cpus, calls : Nat]
  PROVE  PerfIInv'
<1>1. PerfTypes'
  BY DEF PerfIInv, PerfTypes
<1>2. Holding'
  BY DEF PerfIInv, Holding
<1>3. \A c \in Cpus : Position(c)' = Position(c)
  BY DEF Position
<1>4. \A c \in Cpus : PerfRight(ring[c], Position(c), had[c])'
  BY <1>3 DEF PerfIInv
<1> QED
  BY <1>1, <1>2, <1>4 DEF PerfIInv

LEMMA FreeIInv ==
  ASSUME PerfIInv, NEW stored, perf_buffer__free(stored), pb.fds \subseteq stored, cur = NotReading
  PROVE  PerfIInv'
<1>1. /\ pb' = [NoBuffer EXCEPT !.calls = pb.calls] /\ keys' = keys \ stored
      /\ UNCHANGED <<ring, cur, copy, had>> /\ pb.calls \in Nat /\ keys = pb.fds
  BY DEF perf_buffer__free, PerfIInv, PerfTypes, Keyed
<1>2. pb' = [state |-> "none", i |-> 0, fds |-> {}, polled |-> {}, calls |-> pb.calls]
  BY <1>1 DEF NoBuffer
<1>3. keys' = {} /\ cur' = NotReading /\ UNCHANGED <<ring, cur, copy, had>> /\ pb.calls \in Nat
  BY <1>1
<1>4. pb'.fds = {} /\ pb'.polled = {}
  BY <1>2
<1>5. Keyed'
  BY <1>3, <1>4 DEF Keyed, NotReading
<1> QED
  BY <1>2, <1>3, <1>5, BufferIInv

LEMMA OpenIInv ==
  ASSUME PerfAssumption, PerfIInv, perf_buffer__open_cpu_buf \/ OpenFail \/ Made \/ Free
  PROVE  PerfIInv'
<1>1. PerfTypes /\ Keyed
  BY DEF PerfIInv
<1>2. CASE perf_buffer__open_cpu_buf
  <2>1. /\ pb.state = "new" /\ pb.i \in Cpus /\ UNCHANGED <<ring, cur, copy, had>>
    BY <1>2 DEF perf_buffer__open_cpu_buf
  <2>2. CASE pb' = [pb EXCEPT !.i = @ + 1] /\ UNCHANGED keys
    <3>1. pb' = [state |-> "new", i |-> pb.i + 1, fds |-> pb.fds,
                 polled |-> pb.polled, calls |-> pb.calls]
      BY <1>1, <2>1, <2>2 DEF PerfTypes
    <3>2. Keyed'
      BY <1>1, <2>1, <2>2, <3>1 DEF Keyed, NotReading
    <3> QED
      BY <1>1, <2>1, <3>1, <3>2, BufferIInv DEF PerfTypes
  <2>3. CASE /\ pb' = [pb EXCEPT !.fds = @ \cup {pb.i}, !.polled = @ \cup {pb.i}, !.i = @ + 1]
             /\ keys' = keys \cup {pb.i}
    <3>1. pb' = [state |-> "new", i |-> pb.i + 1, fds |-> pb.fds \cup {pb.i},
                 polled |-> pb.polled \cup {pb.i}, calls |-> pb.calls]
      BY <1>1, <2>1, <2>3 DEF PerfTypes
    <3>2. Keyed'
      BY <1>1, <2>1, <2>3, <3>1 DEF Keyed, NotReading
    <3> QED
      BY <1>1, <2>1, <3>1, <3>2, BufferIInv DEF PerfTypes
  <2> QED
    BY <1>2, <2>2, <2>3 DEF perf_buffer__open_cpu_buf
<1>3. CASE OpenFail
  <2>1. cur = NotReading /\ pb.fds \subseteq pb.polled
    BY <1>1, <1>3 DEF OpenFail, Keyed
  <2> QED
    BY <1>3, <2>1, FreeIInv DEF OpenFail
<1>4. CASE Made
  <2>1. /\ pb' = [pb EXCEPT !.state = "ready"] /\ UNCHANGED <<keys, ring, cur, copy, had>>
    BY <1>4 DEF Made
  <2>2. Keyed'
    BY <1>1, <2>1 DEF Keyed, PerfTypes
  <2> QED
    BY <1>1, <2>1, <2>2, BufferIInv DEF PerfTypes
<1>5. CASE Free
  BY <1>5, FreeIInv DEF Free
<1> QED
  BY <1>2, <1>3, <1>4, <1>5
-----------------------------------------------------------------------------
(* What a ring is after an output.                                         *)
AfterOutput(r, n) ==
  LET need == n + IF r.lost > 0 THEN 1 ELSE 0
      told == IF r.lost > 0 THEN Put(r, "lost", r.lost, 1) ELSE r
  IN  IF r.head + need - r.tail > Size THEN [r EXCEPT !.lost = @ + 1, !.out = @ + 1]
      ELSE Reported(Put(told, "sample", r.out + 1, n))

LEMMA OutputRight ==
  ASSUME PerfAssumption, NEW r \in Rings, NEW t, NEW s, PerfRight(r, t, s), r.out < MaxOut,
         NEW n \in Sizes, NEW q, q = AfterOutput(r, n)
  PROVE  q \in Rings /\ PerfRight(q, t, s) /\ q.tail = r.tail /\ r.head <= q.head /\ Same(q, r, t, r.head)
<1>1. PICK h \in Nat : r.head = h
  BY DEF Rings
<1>2. PICK nr \in Nat : r.out + 1 = nr
  BY DEF Rings
<1>3. PICK lost \in Nat : lost = r.lost
  BY DEF Rings
<1>4. /\ nr <= MaxOut /\ n \in Nat /\ r.tail \in Nat /\ r.out \in Nat /\ Size \in Nat /\ MaxOut \in Nat
      /\ r.lost <= r.out /\ r.tail <= t
  BY <1>2 DEF PerfAssumption, Rings, PerfRight
<1>5. CASE q = [r EXCEPT !.lost = @ + 1, !.out = @ + 1]
  <2>1. PICK x : x = [r EXCEPT !.lost = @ + 1]
    OBVIOUS
  <2>2. /\ x \in Rings /\ x.lost = lost + 1 /\ x.out = r.out /\ x.slot = r.slot
        /\ x.head = r.head /\ x.tail = r.tail
    BY <1>3, <2>1 DEF Rings
  <2>3. q = [x EXCEPT !.out = nr]
    BY <1>2, <1>5, <2>1 DEF Rings
  <2>4. /\ q \in Rings /\ q.lost = lost + 1 /\ q.out = nr /\ q.slot = r.slot
        /\ q.head = r.head /\ q.tail = r.tail
    BY <2>2, <2>3 DEF Rings
  <2>5. q.out - q.lost = r.out - r.lost /\ q.lost <= q.out /\ r.tail <= q.tail /\ q.tail <= t
    BY <1>2, <1>3, <1>4, <2>4
  <2>6. PerfRight(q, t, s)
    BY <1>4, <2>4, <2>5, SameRight
  <2>7. Same(q, r, t, r.head)
    BY <2>4 DEF Same, Cell
  <2> QED
    BY <1>1, <2>4, <2>6, <2>7
<1>6. CASE ~(lost > 0) /\ h + n - r.tail <= Size /\ q = Reported(Put(r, "sample", nr, n))
  <2>1. r.lost = 0
    BY <1>3, <1>6
  <2> QED
    BY <1>1, <1>2, <1>4, <1>6, <2>1, SampleRight
<1>7. CASE /\ lost > 0 /\ h + (n + 1) - r.tail <= Size
           /\ q = Reported(Put(Put(r, "lost", lost, 1), "sample", nr, n))
  BY <1>1, <1>2, <1>3, <1>4, <1>7, LostRight
<1>8. CASE lost > 0
  <2>1. \/ q = [r EXCEPT !.lost = @ + 1, !.out = @ + 1]
        \/ ~(h + (n + 1) - r.tail > Size) /\ q = Reported(Put(Put(r, "lost", lost, 1), "sample", nr, n))
    BY ONLY <1>1, <1>2, <1>3, <1>8, q = AfterOutput(r, n), Zenon DEF AfterOutput
  <2> QED
    BY <1>1, <1>4, <1>5, <1>7, <1>8, <2>1
<1>9. CASE ~(lost > 0)
  <2>1. \/ q = [r EXCEPT !.lost = @ + 1, !.out = @ + 1]
        \/ ~(h + (n + 0) - r.tail > Size) /\ q = Reported(Put(r, "sample", nr, n))
    BY ONLY <1>1, <1>2, <1>3, <1>9, q = AfterOutput(r, n), Zenon DEF AfterOutput
  <2> QED
    BY <1>1, <1>4, <1>5, <1>6, <1>9, <2>1
<1> QED
  BY <1>8, <1>9

LEMMA OutputIInv ==
  ASSUME PerfAssumption, PerfIInv, NEW c \in Cpus, Output(c)
  PROVE  PerfIInv'
<1>1. PerfTypes /\ Keyed /\ Holding /\ PerfRight(ring[c], Position(c), had[c]) /\ ring[c] \in Rings
  BY DEF PerfIInv, PerfTypes
<1>2. ring[c].out < MaxOut /\ UNCHANGED <<pb, keys, cur, copy, had>>
  BY DEF Output
<1>3. PICK n \in Sizes : ring' = [ring EXCEPT ![c] = AfterOutput(ring[c], n)]
  BY DEF Output, AfterOutput, Reported
<1>4. PICK q : q = AfterOutput(ring[c], n)
  OBVIOUS
<1>5. /\ q \in Rings /\ PerfRight(q, Position(c), had[c]) /\ q.tail = ring[c].tail
      /\ ring[c].head <= q.head /\ Same(q, ring[c], Position(c), ring[c].head)
  BY <1>1, <1>2, <1>4, OutputRight
<1>6. /\ ring' = [ring EXCEPT ![c] = q] /\ ring' \in [Cpus -> Rings] /\ ring'[c] = q
      /\ \A d \in Cpus : d # c => ring'[d] = ring[d]
  BY <1>1, <1>3, <1>4, <1>5 DEF PerfTypes
<1>7. PerfTypes' /\ Keyed'
  BY <1>1, <1>2, <1>6 DEF PerfTypes, Keyed
<1>8. ASSUME cur.at = "read"
      PROVE  cur.head <= ring'[cur.cpu].head /\ Whole(ring'[cur.cpu], cur.tail, cur.head)
  <2>1. /\ cur.cpu \in Cpus /\ cur.tail <= cur.head /\ cur.head <= ring[cur.cpu].head
        /\ Whole(ring[cur.cpu], cur.tail, cur.head) /\ cur.tail \in Nat /\ cur.head \in Nat
    BY <1>1, <1>8 DEF Holding, PerfTypes
  <2>2. CASE cur.cpu = c
    <3>1. Position(c) = cur.tail /\ ring[c].head \in Nat /\ q.head \in Nat
      BY <1>1, <1>5, <1>8, <2>2 DEF Position, Rings
    <3>2. Whole(q, cur.tail, cur.head)
      BY <1>1, <1>5, <2>1, <2>2, <3>1, SameWhole
    <3> QED
      BY <1>5, <1>6, <2>1, <2>2, <3>1, <3>2
  <2>3. CASE cur.cpu # c
    BY <1>6, <2>1, <2>3
  <2> QED
    BY <2>2, <2>3
<1>9. Holding'
  BY <1>1, <1>2, <1>8 DEF Holding
<1>10. \A d \in Cpus : Position(d)' = Position(d)
  BY <1>2, <1>5, <1>6 DEF Position
<1>11. \A d \in Cpus : PerfRight(ring[d], Position(d), had[d])'
  BY <1>2, <1>5, <1>6, <1>10 DEF PerfIInv
<1> QED
  BY <1>7, <1>9, <1>11 DEF PerfIInv
-----------------------------------------------------------------------------
(* The reader turns to rings: none is read yet.                            *)
LEMMA TurnIInv ==
  ASSUME PerfAssumption, PerfIInv, pb.state = "ready", cur.at # "read",
         NEW todo \in Seq(Cpus), cur' = [NotReading EXCEPT !.at = "next", !.todo = todo],
         ring' \in [Cpus -> Rings],
         \A c \in Cpus : /\ ring'[c].slot = ring[c].slot /\ ring'[c].head = ring[c].head
                         /\ ring'[c].tail = ring[c].tail /\ ring'[c].lost = ring[c].lost
                         /\ ring'[c].out = ring[c].out,
         UNCHANGED <<pb, keys, copy, had>>
  PROVE  PerfIInv'
<1>1. PerfTypes /\ Keyed
  BY DEF PerfIInv
<1>2. cur' = [at |-> "next", todo |-> todo, cpu |-> 0, head |-> 0, tail |-> 0]
  BY DEF NotReading
<1>3. PerfTypes'
  BY <1>1, <1>2 DEF PerfTypes
<1>4. Keyed' /\ Holding'
  BY <1>1, <1>2 DEF Keyed, Holding
<1>5. \A c \in Cpus : Position(c) = ring[c].tail /\ Position(c)' = ring[c].tail
  BY <1>2 DEF Position
<1>6. ASSUME NEW c \in Cpus PROVE PerfRight(ring[c], Position(c), had[c])'
  <2>1. ring[c] \in Rings /\ ring'[c] \in Rings /\ PerfRight(ring[c], ring[c].tail, had[c])
    BY <1>1, <1>5 DEF PerfTypes, PerfIInv
  <2>2. ring[c].tail \in Nat /\ ring[c].lost <= ring[c].out /\ ring[c].out <= MaxOut
    BY <2>1 DEF PerfRight, Rings
  <2>3. PICK q \in Rings : q = ring'[c]
    BY <2>1
  <2>4. /\ q.slot = ring[c].slot /\ q.head = ring[c].head /\ q.tail = ring[c].tail
        /\ q.lost = ring[c].lost /\ q.out = ring[c].out
    BY <2>3
  <2>5. PerfRight(q, ring[c].tail, had[c])
    BY <2>1, <2>2, <2>4, SameRight
  <2> QED
    BY <1>5, <2>3, <2>5
<1> QED
  BY <1>3, <1>4, <1>6 DEF PerfIInv

LEMMA CallsIInv ==
  ASSUME PerfAssumption, PerfIInv,
         perf_buffer__poll \/ perf_buffer__consume
           \/ \E c \in Cpus : perf_buffer__consume_buffer(c)
  PROVE  PerfIInv'
<1>1. /\ PerfTypes /\ pb.fds \subseteq Cpus /\ ring \in [Cpus -> Rings]
  BY DEF PerfIInv, PerfTypes
<1>2. \A S \in SUBSET Cpus : Cardinality(S) \in Nat
  <2>1. IsFiniteSet(Cpus)
    <3>1. IsFiniteSet(1..Cardinality(Cpus))
      BY FS_Interval DEF PerfAssumption
    <3> QED
      BY <3>1 DEF PerfAssumption
  <2> QED
    BY <2>1, FS_Subset, FS_CardinalityType
<1>3. \A S \in SUBSET Cpus : [1..Cardinality(S) -> S] \subseteq Seq(Cpus)
  BY <1>2
<1>4. CASE perf_buffer__poll
  <2> DEFINE ready == {c \in pb.fds : ring[c].wake}
  <2>1. /\ pb.state = "ready" /\ cur = NotReading /\ UNCHANGED <<pb, keys, copy, had>>
        /\ ring' = [c \in Cpus |-> IF c \in ready THEN [ring[c] EXCEPT !.wake = FALSE] ELSE ring[c]]
    BY <1>4 DEF perf_buffer__poll
  <2>2. PICK todo \in [1..Cardinality(ready) -> ready] :
          cur' = [NotReading EXCEPT !.at = "next", !.todo = todo]
    BY <1>4 DEF perf_buffer__poll
  <2>3. todo \in Seq(Cpus)
    BY <1>1, <1>3
  <2>4. \A c \in Cpus : /\ ring'[c] \in Rings
                        /\ ring'[c].slot = ring[c].slot /\ ring'[c].head = ring[c].head
                        /\ ring'[c].tail = ring[c].tail /\ ring'[c].lost = ring[c].lost
                        /\ ring'[c].out = ring[c].out
    <3> TAKE c \in Cpus
    <3>1. ring[c] \in Rings /\ (ring'[c] = [ring[c] EXCEPT !.wake = FALSE] \/ ring'[c] = ring[c])
      BY <1>1, <2>1
    <3>2. CASE ring'[c] = ring[c]
      BY <3>1, <3>2
    <3>3. CASE ring'[c] = [ring[c] EXCEPT !.wake = FALSE]
      BY <3>1, <3>3 DEF Rings
    <3> QED
      BY <3>1, <3>2, <3>3
  <2>5. ring' \in [Cpus -> Rings]
    BY <2>1, <2>4
  <2>6. cur.at # "read"
    BY <2>1 DEF NotReading
  <2> HIDE DEF ready
  <2> QED
    BY <2>1, <2>2, <2>3, <2>4, <2>5, <2>6, TurnIInv
<1>5. CASE perf_buffer__consume
  <2>1. /\ pb.state = "ready" /\ cur = NotReading /\ UNCHANGED <<pb, keys, ring, copy, had>>
    BY <1>5 DEF perf_buffer__consume
  <2>2. PICK todo \in [1..Cardinality(pb.fds) -> pb.fds] :
          cur' = [NotReading EXCEPT !.at = "next", !.todo = todo]
    BY <1>5 DEF perf_buffer__consume
  <2>3. todo \in Seq(Cpus) /\ cur.at # "read"
    BY <1>1, <1>3, <2>1 DEF NotReading
  <2> QED
    BY <1>1, <2>1, <2>2, <2>3, TurnIInv
<1>6. CASE \E c \in Cpus : perf_buffer__consume_buffer(c)
  <2>1. PICK c \in Cpus : perf_buffer__consume_buffer(c)
    BY <1>6
  <2>2. /\ pb.state = "ready" /\ cur = NotReading /\ UNCHANGED <<pb, keys, ring, copy, had>>
        /\ cur' = [NotReading EXCEPT !.at = "next", !.todo = <<c>>]
    BY <2>1 DEF perf_buffer__consume_buffer
  <2>3. <<c>> \in Seq(Cpus) /\ cur.at # "read"
    BY <2>2 DEF NotReading
  <2> QED
    BY <1>1, <2>2, <2>3, TurnIInv
<1> QED
  BY <1>4, <1>5, <1>6

LEMMA ReadHeadIInv ==
  ASSUME PerfAssumption, PerfIInv, ReadHead
  PROVE  PerfIInv'
<1>1. PerfTypes /\ Keyed /\ cur.at = "next" /\ UNCHANGED <<pb, keys, ring, copy, had>>
  BY DEF PerfIInv, ReadHead
<1>2. pb.state = "ready"
  BY <1>1 DEF Keyed, NotReading
<1>3. \A c \in Cpus : PerfRight(ring[c], ring[c].tail, had[c])
  BY <1>1 DEF PerfIInv, Position
<1>4. CASE cur.todo = <<>>
  <2>1. cur' = NotReading
    BY <1>4 DEF ReadHead
  <2>2. PerfTypes' /\ Keyed' /\ Holding'
    BY <1>1, <1>2, <2>1 DEF PerfTypes, Keyed, Holding, NotReading
  <2>3. \A c \in Cpus : Position(c)' = ring[c].tail
    BY <1>1, <2>1 DEF Position, NotReading
  <2> QED
    BY <1>1, <1>3, <2>2, <2>3 DEF PerfIInv
<1>5. CASE cur.todo # <<>>
  <2>1. PICK c : c = Head(cur.todo)
    OBVIOUS
  <2>2. cur' = [at |-> "read", todo |-> Tail(cur.todo), cpu |-> c,
                head |-> ring[c].head, tail |-> ring[c].tail]
    BY <1>5, <2>1 DEF ReadHead
  <2>3. cur.todo \in Seq(Cpus)
    BY <1>1 DEF PerfTypes
  <2>4. c \in Cpus /\ Tail(cur.todo) \in Seq(Cpus)
    BY <1>5, <2>1, <2>3
  <2>5. c \in Nat /\ ring[c] \in Rings /\ ring[c].head \in Nat /\ ring[c].tail \in Nat
    <3>1. PICK n \in Nat : Cpus = 1..n
      BY DEF PerfAssumption
    <3>2. c \in Nat
      BY <2>4, <3>1
    <3>3. ring[c] \in Rings
      BY <1>1, <2>4 DEF PerfTypes
    <3> QED
      BY <3>2, <3>3 DEF Rings
  <2>6. ring[c].tail <= ring[c].head /\ Whole(ring[c], ring[c].tail, ring[c].head)
    BY <1>3, <2>4 DEF PerfRight
  <2>7. PerfTypes'
    BY <1>1, <2>2, <2>4, <2>5 DEF PerfTypes
  <2>8. Keyed' /\ Holding'
    BY <1>1, <1>2, <2>2, <2>4, <2>5, <2>6 DEF Keyed, Holding
  <2>9. \A d \in Cpus : Position(d)' = ring[d].tail
    BY <1>1, <2>2 DEF Position
  <2> QED
    BY <1>1, <1>3, <2>7, <2>8, <2>9 DEF PerfIInv
<1> QED
  BY <1>4, <1>5

(* The reader leaves a ring, having given the user what is before t.       *)
LEMMA TailIInv ==
  ASSUME PerfAssumption, PerfIInv, cur.at = "read", NEW c, c = cur.cpu, NEW t \in Nat,
         NEW error \in BOOLEAN, WriteTail(c, t, error), UNCHANGED <<pb, keys>>,
         copy' \in [Cpus -> 0..Size], had' \in [Cpus -> Seq(Seq(Parts))],
         \A d \in Cpus : d # c => had'[d] = had[d],
         ring[c].tail <= t, PerfRight(ring[c], t, had'[c])
  PROVE  PerfIInv'
<1>1. PerfTypes /\ Keyed /\ c \in Cpus /\ ring[c] \in Rings /\ pb.state = "ready"
  <2>1. PerfTypes /\ Keyed /\ Holding
    BY DEF PerfIInv
  <2>2. c \in Cpus
    BY <2>1 DEF Holding
  <2>3. pb.state = "ready"
    BY <2>1 DEF Keyed, NotReading
  <2> QED
    BY <2>1, <2>2, <2>3 DEF PerfTypes
<1>2. PICK q : q = [ring[c] EXCEPT !.tail = t]
  OBVIOUS
<1>3. /\ q \in Rings /\ q.slot = ring[c].slot /\ q.head = ring[c].head /\ q.tail = t
      /\ q.lost = ring[c].lost /\ q.out = ring[c].out
  BY <1>1, <1>2 DEF Rings
<1>4. PerfRight(q, t, had'[c])
  <2>1. t <= t /\ q.out - q.lost = ring[c].out - ring[c].lost /\ q.lost <= q.out /\ q.out <= MaxOut
    BY <1>3 DEF PerfRight
  <2> QED
    BY <1>1, <1>3, <2>1, SameRight
<1>5. ring' = [ring EXCEPT ![c] = q]
  BY <1>2 DEF WriteTail
<1>6. /\ ring' \in [Cpus -> Rings] /\ ring'[c] = q /\ \A d \in Cpus : d # c => ring'[d] = ring[d]
  BY <1>1, <1>3, <1>5 DEF PerfTypes
<1>7. \/ cur' = NotReading
      \/ cur' = [at |-> "next", todo |-> cur.todo, cpu |-> 0, head |-> 0, tail |-> 0]
  BY DEF WriteTail, NotReading
<1>8. PerfTypes'
  <2>1. cur' \in [at : {"idle", "next", "read"}, todo : Seq(Cpus), cpu : Nat, head : Nat, tail : Nat]
    <3>1. cur.todo \in Seq(Cpus)
      BY <1>1 DEF PerfTypes
    <3>2. CASE cur' = NotReading
      BY <3>2 DEF NotReading
    <3>3. CASE cur' = [at |-> "next", todo |-> cur.todo, cpu |-> 0, head |-> 0, tail |-> 0]
      BY <3>1, <3>3
    <3> QED
      BY <1>7, <3>2, <3>3
  <2>2. UNCHANGED pb
    OBVIOUS
  <2> QED
    BY <1>1, <1>6, <2>1, <2>2 DEF PerfTypes
<1>9. Keyed' /\ Holding'
  BY <1>1, <1>7 DEF Keyed, Holding, NotReading
<1>10. \A d \in Cpus : Position(d)' = ring'[d].tail
  BY <1>7 DEF Position, NotReading
<1>11. ASSUME NEW d \in Cpus PROVE PerfRight(ring[d], Position(d), had[d])'
  <2>1. CASE d = c
    BY <1>3, <1>4, <1>6, <1>10, <2>1
  <2>2. CASE d # c
    <3>1. Position(d) = ring[d].tail
      BY <2>2 DEF Position
    <3>2. PerfRight(ring[d], ring[d].tail, had[d])
      BY <3>1 DEF PerfIInv
    <3> QED
      BY <1>6, <1>10, <2>2, <3>2
  <2> QED
    BY <2>1, <2>2
<1> QED
  BY <1>8, <1>9, <1>11 DEF PerfIInv

LEMMA LeaveIInv ==
  ASSUME PerfAssumption, PerfIInv, ReadDone \/ NoMemory
  PROVE  PerfIInv'
<1>1. cur.at = "read" /\ PerfTypes
  BY DEF ReadDone, NoMemory, PerfIInv
<1>2. PICK c : c = cur.cpu
  OBVIOUS
<1>3. c \in Cpus /\ cur.tail \in Nat /\ Position(c) = cur.tail
  BY <1>1, <1>2 DEF PerfIInv, Holding, Position, PerfTypes
<1>4. ring[c].tail <= cur.tail /\ PerfRight(ring[c], cur.tail, had[c])
  BY <1>3 DEF PerfIInv, PerfRight
<1>5. /\ UNCHANGED <<pb, keys, had>> /\ copy' \in [Cpus -> 0..Size]
      /\ \E error \in BOOLEAN : WriteTail(c, cur.tail, error)
  <2>1. CASE ReadDone
    BY <1>1, <1>2, <2>1 DEF ReadDone, PerfTypes
  <2>2. CASE NoMemory
    <3>1. /\ UNCHANGED <<pb, keys, had>> /\ WriteTail(c, cur.tail, TRUE)
          /\ copy' = [copy EXCEPT ![c] = 0]
      BY <1>2, <2>2 DEF NoMemory
    <3>2. copy \in [Cpus -> 0..Size] /\ 0 \in 0..Size
      BY <1>1 DEF PerfTypes, PerfAssumption
    <3> QED
      BY <3>1, <3>2
  <2> QED
    BY <2>1, <2>2
<1>6. had' \in [Cpus -> Seq(Seq(Parts))]
  BY <1>1, <1>5 DEF PerfTypes
<1> QED
  BY <1>1, <1>2, <1>3, <1>4, <1>5, <1>6, TailIInv

LEMMA RecordIInv ==
  ASSUME PerfAssumption, PerfIInv, ReadRecord
  PROVE  PerfIInv'
<1>1. cur.at = "read" /\ cur.head # cur.tail /\ PerfTypes /\ Keyed /\ Holding /\ UNCHANGED <<pb, keys>>
  BY DEF ReadRecord, PerfIInv
<1>2. PICK c : c = cur.cpu
  OBVIOUS
<1>3. PICK t : t = cur.tail
  OBVIOUS
<1>4. PICK h : h = cur.head
  OBVIOUS
<1>5. /\ c \in Cpus /\ t \in Nat /\ h \in Nat /\ t < h /\ h <= ring[c].head
      /\ Whole(ring[c], t, h) /\ ring[c] \in Rings /\ had[c] \in Seq(Seq(Parts))
  BY <1>1, <1>2, <1>3, <1>4 DEF Holding, PerfTypes
<1>6. PerfRight(ring[c], t, had[c])
  BY <1>1, <1>2, <1>3, <1>5 DEF PerfIInv, Position
<1>7. PICK rec : rec = RecordAt(c, t)
  OBVIOUS
<1>8. PICK n : n = SizeAt(c, t)
  OBVIOUS
<1>9. n = Cell(ring[c], t).size /\ rec = [k \in 1..n |-> Cell(ring[c], t + k - 1)]
  BY <1>7, <1>8 DEF SizeAt, RecordAt, Cell
<1>10. /\ Append(had[c], rec) \in Seq(Seq(Parts)) /\ n \in 0..Size /\ t + n <= h
       /\ Whole(ring[c], t + n, h) /\ PerfRight(ring[c], t + n, Append(had[c], rec))
  BY <1>5, <1>6, <1>9, NextRight
<1>11. had' = [had EXCEPT ![c] = Append(had[c], rec)]
  BY <1>2, <1>3, <1>7 DEF ReadRecord
<1>12. /\ had' \in [Cpus -> Seq(Seq(Parts))] /\ had'[c] = Append(had[c], rec)
       /\ \A d \in Cpus : d # c => had'[d] = had[d]
  BY <1>1, <1>5, <1>10, <1>11 DEF PerfTypes
<1>13. copy' \in [Cpus -> 0..Size]
  <2>1. copy' = copy \/ copy' = [copy EXCEPT ![c] = n]
    BY <1>2, <1>3, <1>8 DEF ReadRecord
  <2> QED
    BY <1>1, <1>10, <2>1 DEF PerfTypes
<1>14. t + n \in Nat /\ ring[c].tail <= t + n /\ Size \in Nat
  BY <1>5, <1>6, <1>10 DEF PerfRight, PerfAssumption, Rings
<1>15. CASE cur' = [cur EXCEPT !.tail = t + n] /\ UNCHANGED ring
  <2>1. cur' = [at |-> "read", todo |-> cur.todo, cpu |-> c, head |-> h, tail |-> t + n]
    BY <1>1, <1>2, <1>4, <1>15 DEF PerfTypes
  <2>2. PerfTypes'
    BY <1>1, <1>5, <1>12, <1>13, <1>14, <1>15, <2>1 DEF PerfTypes, PerfAssumption
  <2>3. Keyed'
    BY <1>1, <2>1 DEF Keyed, NotReading
  <2>4. Holding'
    BY <1>5, <1>10, <1>15, <2>1 DEF Holding
  <2>5. ASSUME NEW d \in Cpus PROVE PerfRight(ring[d], Position(d), had[d])'
    <3>1. CASE d = c
      <4>1. Position(d)' = t + n
        BY <2>1, <3>1 DEF Position
      <4> QED
        BY <1>10, <1>12, <1>15, <3>1, <4>1
    <3>2. CASE d # c
      <4>1. Position(d)' = ring[d].tail /\ Position(d) = ring[d].tail
        BY <1>2, <1>15, <2>1, <3>2 DEF Position
      <4>2. PerfRight(ring[d], Position(d), had[d])
        BY DEF PerfIInv
      <4> QED
        BY <1>12, <1>15, <3>2, <4>1, <4>2
    <3> QED
      BY <3>1, <3>2
  <2> QED
    BY <2>2, <2>3, <2>4, <2>5 DEF PerfIInv
<1>16. CASE \E error \in BOOLEAN : WriteTail(c, t + n, error)
  <2>1. PICK error \in BOOLEAN : WriteTail(c, t + n, error)
    BY <1>16
  <2>2. PerfRight(ring[c], t + n, had'[c])
    BY <1>10, <1>12
  <2> QED
    BY <1>1, <1>2, <1>12, <1>13, <1>14, <2>1, <2>2, TailIInv
<1> QED
  BY <1>2, <1>3, <1>8, <1>15, <1>16 DEF ReadRecord

LEMMA PerfStutterIInv ==
  ASSUME PerfIInv, UNCHANGED perfVars
  PROVE  PerfIInv'
BY BufferIInv DEF PerfIInv, PerfTypes, Keyed, perfVars

LEMMA PerfNextIInv ==
  ASSUME PerfAssumption, PerfIInv, [PerfNext]_perfVars
  PROVE  PerfIInv'
<1>1. CASE UNCHANGED perfVars
  BY <1>1, PerfStutterIInv
<1>2. CASE perf_buffer__new \/ OpenFail \/ perf_buffer__open_cpu_buf \/ Made \/ Free
  BY <1>2, NewIInv, OpenIInv
<1>3. CASE perf_buffer__poll \/ perf_buffer__consume
  BY <1>3, CallsIInv
<1>4. CASE Read \/ NoMemory
  BY <1>4, ReadHeadIInv, RecordIInv, LeaveIInv DEF Read
<1>5. CASE \E c \in Cpus : Output(c) \/ perf_buffer__consume_buffer(c)
  BY <1>5, OutputIInv, CallsIInv
<1> QED
  BY <1>1, <1>2, <1>3, <1>4, <1>5 DEF PerfNext

LEMMA PerfIInvSound ==
  ASSUME PerfAssumption, PerfIInv
  PROVE  PerfSound
<1>1. PerfTypes /\ Keyed /\ pb.fds \subseteq Cpus
  BY DEF PerfIInv, PerfTypes
<1>2. ASSUME NEW c \in Cpus
      PROVE  /\ ring[c].head \in Nat /\ ring[c].tail \in 0..ring[c].head
             /\ ring[c].lost \in 0..MaxOut /\ copy[c] \in 0..Size
             /\ RecordsWhole(had[c]) /\ NoneMissed(had[c])
  <2>1. ring[c] \in Rings /\ copy[c] \in 0..Size /\ PerfRight(ring[c], Position(c), had[c])
    BY <1>1 DEF PerfIInv, PerfTypes
  <2> QED
    BY <2>1 DEF PerfRight, Rings, PerfAssumption
<1>3. PerfTypeOK
  BY <1>1, <1>2 DEF PerfTypeOK, PerfTypes, Keyed
<1> QED
  BY <1>1, <1>2, <1>3 DEF PerfSound, Keyed

(* The user of a perf buffer gets the records of every processor whole, in *)
(* their order, with what was dropped counted where it is missing, and the *)
(* map leads to just the rings there are: for any processors, size of the  *)
(* rings and sizes of samples.                                             *)
THEOREM SamplesAreRead == ASSUME PerfAssumption PROVE PerfSpec => []PerfSound
<1>1. PerfInit => PerfIInv
  BY PerfInitIInv
<1>2. PerfIInv /\ [PerfNext]_perfVars => PerfIInv'
  BY PerfNextIInv
<1>3. PerfIInv => PerfSound
  BY PerfIInvSound
<1> QED
  BY <1>1, <1>2, <1>3, PTL DEF PerfSpec
===============================================================================
