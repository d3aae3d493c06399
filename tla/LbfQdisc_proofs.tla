-------------------------- MODULE LbfQdisc_proofs ---------------------------
(***************************************************************************)
(* Proofs about LbfQdisc, for any packets, contracts, limits and clock.    *)
(***************************************************************************)
EXTENDS LbfQdisc, LbfLemmas, FiniteSetTheorems

(***************************************************************************)
(* The inductive invariant behind NeverEarly.  A packet in hand was due    *)
(* when it was taken; between dequeues there is none, so that an enqueue   *)
(* never moves the release time of a packet in hand; and the fifo holds no *)
(* LBF packet, so that nothing leaves through it before its time.          *)
(***************************************************************************)
Clocked == \A p \in Pkts : enqueue_time[p] <= now

HandEmpty == phase = "idle" => skb = NULL

FifoKinds == \A i \in DOMAIN fifo : header[fifo[i]].kind # "lbf"

IInv == TypeOK /\ Clocked /\ HandEmpty /\ FifoKinds /\ NeverEarly

(***************************************************************************)
(* Types of the parts a step is built from.                                *)
(***************************************************************************)
LEMMA QlenTypes ==
  ASSUME TypeOK
  PROVE  QlenInc \in 0..QlenMod-1 /\ QlenDec \in 0..QlenMod-1
<1>1. qlen + 1 \in Int /\ qlen + QlenMod - 1 \in Int
  BY QlenModAssumption DEF TypeOK
<1> QED
  BY <1>1, QlenModAssumption, ModRangeOf DEF QlenInc, QlenDec

LEMMA HeaderTypes ==
  ASSUME TypeOK, NEW p \in Pkts
  PROVE  /\ header[p] \in Header
         /\ header[p].min \in Nat /\ header[p].max \in Nat
         /\ header[p].todelay \in Nat
         /\ header[p].exp \in 0..U16-1 /\ header[p].tohops \in 0..U16-1
<1>1. header[p] \in Header
  BY DEF TypeOK
<1> QED
  BY <1>1, U16Type DEF Header

LEMMA PnodesType ==
  ASSUME NEW hs \in Seq(Hnode(Pkts))
  PROVE  Pnodes(hs) \subseteq Pkts
<1> SUFFICES ASSUME NEW i \in DOMAIN hs, NEW j \in DOMAIN hs[i].queue
             PROVE  hs[i].queue[j] \in Pkts
  BY DEF Pnodes, ToSet
<1>1. hs[i] \in Hnode(Pkts)
  OBVIOUS
<1>2. hs[i].queue \in Seq(Pkts)
  BY <1>1 DEF Hnode
<1> QED
  BY <1>2

LEMMA RepointedType ==
  ASSUME TypeOK, NEW hs, NEW new \in Seq(Hnode(Pkts))
  PROVE  Repointed(hs, new) \subseteq Pkts
<1>1. ASSUME NEW i \in DOMAIN new PROVE HeadOf(new[i].queue) \subseteq Pkts
  <2>1. new[i] \in Hnode(Pkts)
    OBVIOUS
  <2>2. new[i].queue \in Seq(Pkts)
    BY <2>1 DEF Hnode
  <2> QED
    BY <2>2, HeadTailProperties DEF HeadOf
<1>2. owned \subseteq Pkts
  BY DEF TypeOK
<1> QED
  BY <1>1, <1>2 DEF Repointed

LEMMA QueueType ==
  ASSUME TypeOK, NEW i \in DOMAIN hnodes
  PROVE  /\ hnodes[i] \in Hnode(Pkts) /\ hnodes[i].queue \in Seq(Pkts)
         /\ Rest(i) \in Seq(Pkts) /\ Left(i) \in Seq(Pkts)
<1>1. hnodes[i] \in Hnode(Pkts)
  BY DEF TypeOK
<1>2. hnodes[i].queue \in Seq(Pkts)
  BY <1>1 DEF Hnode
<1> QED
  BY <1>1, <1>2, SweepType DEF Rest, Left

LEMMA InitIInv == Init => IInv
<1> SUFFICES ASSUME Init PROVE IInv
  OBVIOUS
<1>1. 0 \in 0..QlenMod-1 /\ 0 \in 0..U16-1
  BY QlenModAssumption, U16Type
<1>2. header \in [Pkts -> Header]
  BY ContractsAssumption DEF Init
<1>3. hnodes \in Seq(Hnode(Pkts)) /\ fifo \in Seq(Pkts)
  BY DEF Init
<1>4. limit \in 0..QlenMod-1
  BY LimitsAssumption DEF Init
<1>5. TypeOK
  BY <1>1, <1>2, <1>3, <1>4 DEF Init, TypeOK, Fates
<1>6. Clocked /\ HandEmpty /\ FifoKinds
  BY DEF Init, Clocked, HandEmpty, FifoKinds
<1>7. NeverEarly
  BY PktsAssumption DEF Init, NeverEarly
<1> QED
  BY <1>5, <1>6, <1>7 DEF IInv

(***************************************************************************)
(* The enqueues that leave the release times alone: only counters, the     *)
(* fifo, the list of hnodes and the header of the packet change.           *)
(***************************************************************************)
LEMMA ArrivesKeeps ==
  ASSUME IInv, NEW p \in Pkts, Arrives(p),
         enqueue_time' \in [Pkts -> Nat],
         \A q \in Pkts : enqueue_time'[q] = enqueue_time[q]
                           \/ enqueue_time'[q] = now
  PROVE  Clocked' /\ HandEmpty' /\ now \in Nat /\ skb = NULL
<1>1. now \in Nat /\ now' = now /\ skb = NULL /\ skb' = skb
  BY DEF IInv, TypeOK, Arrives, HandEmpty
<1>2. \A q \in Pkts : enqueue_time'[q] <= now
  BY <1>1 DEF IInv, Clocked
<1> QED
  BY <1>1, <1>2 DEF Clocked, HandEmpty

LEMMA OverlimitStep ==
  ASSUME IInv, NEW p \in Pkts, EnqueueOverlimit(p)
  PROVE  IInv'
<1>1. TypeOK'
  BY DEF IInv, TypeOK, EnqueueOverlimit, Arrives, Fates, pkts
<1>2. Clocked' /\ HandEmpty'
  BY DEF IInv, TypeOK, Clocked, HandEmpty, EnqueueOverlimit, Arrives, pkts
<1>3. FifoKinds'
  BY DEF IInv, FifoKinds, EnqueueOverlimit, pkts
<1>4. NeverEarly'
  BY DEF IInv, TypeOK, NeverEarly, EnqueueOverlimit, Arrives, pkts
<1> QED
  BY <1>1, <1>2, <1>3, <1>4 DEF IInv

LEMMA TailStep ==
  ASSUME IInv, NEW p \in Pkts, EnqueueTail(p)
  PROVE  IInv'
<1>1. fifo' \in Seq(Pkts) /\ qlen' \in 0..QlenMod-1
  BY QlenTypes, AppendProperties DEF IInv, TypeOK, EnqueueTail
<1>2. TypeOK'
  BY <1>1 DEF IInv, TypeOK, EnqueueTail, Admitted, Arrives, Fates
<1>3. Clocked' /\ HandEmpty'
  BY <1>2, ArrivesKeeps DEF IInv, TypeOK, EnqueueTail, Admitted
<1>4. FifoKinds'
  <2>1. /\ Len(fifo') = Len(fifo) + 1
        /\ \A i \in 1..Len(fifo) : fifo'[i] = fifo[i]
        /\ fifo'[Len(fifo) + 1] = p
    BY AppendProperties DEF IInv, TypeOK, EnqueueTail
  <2>2. DOMAIN fifo' = 1..Len(fifo)+1 /\ DOMAIN fifo = 1..Len(fifo)
    BY <1>1, <2>1 DEF IInv, TypeOK
  <2>3. header' = header /\ header[p].kind # "lbf"
    BY DEF EnqueueTail
  <2> QED
    BY <2>1, <2>2, <2>3 DEF IInv, FifoKinds
<1>5. NeverEarly'
  BY DEF IInv, TypeOK, NeverEarly, EnqueueTail, Admitted, Arrives
<1> QED
  BY <1>2, <1>3, <1>4, <1>5 DEF IInv

LEMMA NoHopsStep ==
  ASSUME IInv, NEW p \in Pkts, EnqueueNoHops(p)
  PROVE  IInv'
<1>1. TypeOK'
  BY DEF IInv, TypeOK, EnqueueNoHops, Admitted, Arrives, Fates
<1>2. Clocked' /\ HandEmpty'
  BY <1>1, ArrivesKeeps DEF IInv, TypeOK, EnqueueNoHops, Admitted
<1>3. FifoKinds'
  BY DEF IInv, FifoKinds, EnqueueNoHops
<1>4. NeverEarly'
  BY DEF IInv, TypeOK, NeverEarly, EnqueueNoHops, Admitted, Arrives
<1> QED
  BY <1>1, <1>2, <1>3, <1>4 DEF IInv

(***************************************************************************)
(* An LBF packet with hops left: its header changes, its kind does not.    *)
(***************************************************************************)
LEMMA LbfArrivesStep ==
  ASSUME IInv, NEW p \in Pkts, LbfArrives(p)
  PROVE  /\ header' \in [Pkts -> Header]
         /\ \A q \in Pkts : header'[q].kind = header[q].kind
         /\ hops_left' \in 0..U16-1
         /\ enqueue_time' \in [Pkts -> Nat]
         /\ header[p].tohops \in 1..U16-1 /\ header[p].exp \in 0..U16-1
         /\ Clocked' /\ HandEmpty' /\ FifoKinds'
         /\ skb = NULL /\ now \in Nat
<1>1. /\ header[p] \in Header /\ header[p].tohops \in 0..U16-1
      /\ header[p].exp \in 0..U16-1
  BY HeaderTypes DEF IInv
<1>2. DecHops(header[p].tohops) \in 0..U16-1
  BY <1>1, DecHopsType
<1>3. [header[p] EXCEPT !.tohops = DecHops(header[p].tohops)] \in Header
  BY <1>1, <1>2 DEF Header
<1>4. /\ header' \in [Pkts -> Header]
      /\ \A q \in Pkts : header'[q].kind = header[q].kind
  BY <1>3 DEF IInv, TypeOK, LbfArrives, Header
<1>5. header[p].tohops \in 1..U16-1
  BY <1>1, U16Type DEF LbfArrives
<1>6. enqueue_time' \in [Pkts -> Nat]
  BY DEF IInv, TypeOK, LbfArrives, Admitted
<1>7. Clocked' /\ HandEmpty' /\ skb = NULL /\ now \in Nat
  BY <1>6, ArrivesKeeps DEF IInv, TypeOK, LbfArrives, Admitted
<1>8. FifoKinds'
  <2>1. fifo \in Seq(Pkts) /\ fifo' = fifo
    BY DEF IInv, TypeOK, LbfArrives
  <2> QED
    BY <2>1, <1>4 DEF IInv, FifoKinds
<1> QED
  BY <1>1, <1>2, <1>4, <1>5, <1>6, <1>7, <1>8 DEF LbfArrives

LEMMA NeverEarlyKept ==
  ASSUME IInv, NEW p \in Pkts, Arrives(p), skb = NULL,
         \A q \in Pkts : header'[q].kind = header[q].kind,
         \A q \in Pkts \ {p} : tmin'[q] = tmin[q] /\ fate'[q] = fate[q],
         fate'[p] # "sent"
  PROVE  NeverEarly'
<1>1. skb' = NULL /\ now' = now
  BY DEF Arrives
<1>2. \A q \in Pkts : q # skb'
  BY <1>1, PktsAssumption
<1> QED
  BY <1>1, <1>2 DEF IInv, NeverEarly

LEMMA LbfKeeps ==
  ASSUME IInv, NEW p \in Pkts, LbfArrives(p),
         qlen' \in 0..QlenMod-1, drops' \in Nat, hnode_list' \in BOOLEAN,
         hnodes' \in Seq(Hnode(Pkts)), owned' \subseteq Pkts,
         tmin' \in [Pkts -> Nat], tmax' \in [Pkts -> Nat],
         lqbudget' \in [Pkts -> 0..U16-1], fate' \in [Pkts -> Fates],
         fault' \in {"none", "null_deref", "use_after_free"},
         \A q \in Pkts \ {p} : tmin'[q] = tmin[q] /\ fate'[q] = fate[q],
         fate'[p] # "sent"
  PROVE  IInv'
<1>1. /\ header' \in [Pkts -> Header] /\ hops_left' \in 0..U16-1
      /\ enqueue_time' \in [Pkts -> Nat]
      /\ \A q \in Pkts : header'[q].kind = header[q].kind
      /\ Clocked' /\ HandEmpty' /\ FifoKinds' /\ skb = NULL
  BY LbfArrivesStep
<1>2. TypeOK'
  BY <1>1 DEF IInv, TypeOK, LbfArrives, Admitted, Arrives
<1>3. NeverEarly'
  BY <1>1, NeverEarlyKept DEF LbfArrives, Admitted
<1> QED
  BY <1>1, <1>2, <1>3 DEF IInv

LEMMA EarlyDiscardStep ==
  ASSUME IInv, NEW p \in Pkts, EnqueueEarlyDiscard(p)
  PROVE  IInv'
<1>1. /\ LbfArrives(p) /\ drops' = drops + 1
      /\ fate' = [fate EXCEPT ![p] = "leaked"]
      /\ UNCHANGED <<qlen, hnode_list, hnodes, owned, tmin, tmax, lqbudget,
                     fault>>
  BY DEF EnqueueEarlyDiscard
<1>2. /\ fate' \in [Pkts -> Fates] /\ fate'[p] = "leaked"
      /\ \A q \in Pkts \ {p} : fate'[q] = fate[q]
  BY <1>1 DEF IInv, TypeOK, Fates
<1>3. drops' \in Nat
  BY <1>1 DEF IInv, TypeOK
<1> QED
  BY <1>1, <1>2, <1>3, LbfKeeps DEF IInv, TypeOK

(***************************************************************************)
(* The enqueues that pass the early discard.                               *)
(***************************************************************************)
LEMMA BudgetFacts ==
  ASSUME IInv, NEW p \in Pkts, LbfArrives(p)
  PROVE  /\ Budget(p) \in 0..U16-1
         /\ lbf_get_hnode(hnodes, Budget(p)) \in Seq(Hnode(Pkts))
         /\ Stop(hnodes, Budget(p))
              \in 1..Len(lbf_get_hnode(hnodes, Budget(p)))
         /\ LqMin(header[p], header[p].exp, header[p].tohops) \in Nat
         /\ LqMax(header[p], header[p].exp, header[p].tohops) \in Nat
<1>1. /\ header[p].min \in Nat /\ header[p].max \in Nat
      /\ header[p].todelay \in Nat
  BY HeaderTypes DEF IInv
<1>2. header[p].tohops \in 1..U16-1 /\ header[p].exp \in 0..U16-1
  BY LbfArrivesStep
<1>3. Budget(p) \in 0..U16-1
  BY <1>1, <1>2, BudgetType DEF Budget
<1>4. Budget(p) \in Nat
  BY <1>3, U16Type
<1>5. hnodes \in Seq(Hnode(Pkts))
  BY DEF IInv, TypeOK
<1> QED
  BY <1>1, <1>2, <1>3, <1>4, <1>5, ShareType, GetHnodeType

LEMMA EnqueueLbfStep ==
  ASSUME IInv, NEW p \in Pkts, EnqueueLbf(p)
  PROVE  IInv'
<1> DEFINE hs == lbf_get_hnode(hnodes, Budget(p))
           i == Stop(hnodes, Budget(p))
           queue == pnode_queue_add(hs[i].queue, p, tmin')
           lo == now + LqMin(header[p], header[p].exp, header[p].tohops)
                         * TenthMs
           hi == now + LqMax(header[p], header[p].exp, header[p].tohops)
                         * TenthMs
<1>1. /\ LbfArrives(p) /\ drops' = drops /\ hnode_list' = TRUE
      /\ tmin' = [tmin EXCEPT ![p] = lo]
      /\ tmax' = [tmax EXCEPT ![p] = hi]
      /\ lqbudget' = [lqbudget EXCEPT ![p] = Budget(p)]
      /\ hnodes' = [hs EXCEPT ![i].queue = queue]
      /\ owned' \subseteq owned \cup {p}
      /\ qlen' = QlenInc
      /\ fate' = [fate EXCEPT ![p] = "queued"]
      /\ fault' = fault
  BY DEF EnqueueLbf, LbfAdmitted
<1>2. /\ Budget(p) \in 0..U16-1
      /\ hs \in Seq(Hnode(Pkts)) /\ i \in 1..Len(hs)
  BY <1>1, BudgetFacts
<1>3. lo \in Nat /\ hi \in Nat
  <2>1. now \in Nat /\ TenthMs \in Nat
    BY TenthMsAssumption DEF IInv, TypeOK
  <2>2. ASSUME NEW n \in Nat, NEW x \in Nat, NEW u \in Nat
        PROVE  n + x * u \in Nat
    BY SMT
  <2> QED
    BY <1>1, <2>1, <2>2, BudgetFacts
<1> HIDE DEF lo, hi, hs, i
<1>4. hnodes' \in Seq(Hnode(Pkts))
  <2>1. hs[i] \in Hnode(Pkts)
    BY <1>2
  <2>2. hs[i].queue \in Seq(Pkts)
    BY <2>1 DEF Hnode
  <2>3. queue \in Seq(Pkts)
    BY <2>2, QueueAddType
  <2> HIDE DEF queue
  <2> QED
    BY <1>1, <1>2, <2>3, SetQueueType
<1>5. qlen' \in 0..QlenMod-1
  BY <1>1, QlenTypes DEF IInv
<1>6. /\ tmin' \in [Pkts -> Nat] /\ tmax' \in [Pkts -> Nat]
      /\ lqbudget' \in [Pkts -> 0..U16-1]
  BY <1>1, <1>2, <1>3 DEF IInv, TypeOK
<1>7. fate' \in [Pkts -> Fates] /\ fate'[p] = "queued"
  BY <1>1 DEF IInv, TypeOK, Fates
<1>8. \A q \in Pkts \ {p} : tmin'[q] = tmin[q] /\ fate'[q] = fate[q]
  BY <1>1 DEF IInv, TypeOK
<1>9. /\ drops' \in Nat /\ hnode_list' \in BOOLEAN /\ owned' \subseteq Pkts
      /\ fault' \in {"none", "null_deref", "use_after_free"}
  BY <1>1 DEF IInv, TypeOK
<1> QED
  BY <1>1, <1>4, <1>5, <1>6, <1>7, <1>8, <1>9, LbfKeeps

LEMMA ListFailsStep ==
  ASSUME IInv, NEW p \in Pkts, EnqueueListFails(p)
  PROVE  IInv'
<1>1. /\ LbfArrives(p) /\ fault' = "null_deref"
      /\ UNCHANGED <<drops, qlen, hnode_list, hnodes, owned, tmin, tmax,
                     lqbudget, fate>>
  BY DEF EnqueueListFails, LbfAdmitted
<1>2. fate[p] = "fresh"
  BY <1>1 DEF LbfArrives, Admitted, Arrives
<1> QED
  BY <1>1, <1>2, LbfKeeps DEF IInv, TypeOK

LEMMA HnodeFailsStep ==
  ASSUME IInv, NEW p \in Pkts, EnqueueHnodeFails(p)
  PROVE  IInv'
<1>1. /\ LbfArrives(p) /\ hnode_list' = TRUE
      /\ fate' = [fate EXCEPT ![p] = "leaked"]
      /\ UNCHANGED <<drops, qlen, hnodes, owned, tmin, tmax, lqbudget, fault>>
  BY DEF EnqueueHnodeFails, LbfAdmitted
<1>2. /\ fate' \in [Pkts -> Fates] /\ fate'[p] = "leaked"
      /\ \A q \in Pkts \ {p} : fate'[q] = fate[q]
  BY <1>1 DEF IInv, TypeOK, Fates
<1> QED
  BY <1>1, <1>2, LbfKeeps DEF IInv, TypeOK

LEMMA PnodeFailsStep ==
  ASSUME IInv, NEW p \in Pkts, EnqueuePnodeFails(p)
  PROVE  IInv'
<1>1. /\ LbfArrives(p) /\ hnode_list' = TRUE
      /\ hnodes' = lbf_get_hnode(hnodes, Budget(p))
      /\ qlen' = QlenInc
      /\ fate' = [fate EXCEPT ![p] = "lost"]
      /\ UNCHANGED <<drops, owned, tmin, tmax, lqbudget, fault>>
  BY DEF EnqueuePnodeFails, LbfAdmitted
<1>2. /\ fate' \in [Pkts -> Fates] /\ fate'[p] = "lost"
      /\ \A q \in Pkts \ {p} : fate'[q] = fate[q]
  BY <1>1 DEF IInv, TypeOK, Fates
<1>3. hnodes' \in Seq(Hnode(Pkts)) /\ qlen' \in 0..QlenMod-1
  BY <1>1, BudgetFacts, QlenTypes DEF IInv
<1> QED
  BY <1>1, <1>2, <1>3, LbfKeeps DEF IInv, TypeOK

LEMMA EnqueueStep ==
  ASSUME IInv, NEW p \in Pkts, Enqueue(p)
  PROVE  IInv'
BY OverlimitStep, TailStep, NoHopsStep, EarlyDiscardStep, EnqueueLbfStep,
   ListFailsStep, HnodeFailsStep, PnodeFailsStep DEF Enqueue

(***************************************************************************)
(* The steps of a dequeue up to its end change the list of hnodes, the     *)
(* packet in hand and the watchdog; they send nothing.                     *)
(***************************************************************************)
LEMMA SearchKeeps ==
  ASSUME IInv,
         UNCHANGED <<limit, qlen, fifo, hnode_list, hops_left, delay,
                     overlimit, pkts, now, debt, resets, waited>>,
         drops' \in Nat, hnodes' \in Seq(Hnode(Pkts)), owned' \subseteq Pkts,
         next_pnode' \in Pkts \cup {NULL}, timer' \in Nat \cup {NULL},
         run' \in BOOLEAN, phase' \in {"idle", "now", "next", "return"},
         skb' \in Pkts \cup {NULL}, fate' \in [Pkts -> Fates],
         fault' \in {"none", "null_deref", "use_after_free"},
         \A q \in Pkts : fate'[q] = "sent" => fate[q] = "sent",
         skb' = NULL \/ skb' = skb \/ tmin[skb'] <= now,
         phase' = "idle" => skb' = NULL
  PROVE  IInv'
<1>1. TypeOK'
  BY DEF IInv, TypeOK, pkts
<1>2. Clocked' /\ HandEmpty' /\ FifoKinds'
  BY DEF IInv, Clocked, HandEmpty, FifoKinds, pkts
<1>3. NeverEarly'
  BY PktsAssumption DEF IInv, NeverEarly, pkts
<1> QED
  BY <1>1, <1>2, <1>3 DEF IInv

LEMMA LoseType ==
  ASSUME TypeOK, NEW X, Lose(X)
  PROVE  /\ fate' \in [Pkts -> Fates]
         /\ \A q \in Pkts : fate'[q] = "sent" => fate[q] = "sent"
BY DEF Lose, TypeOK, Fates

LEMMA NoNextStep ==
  ASSUME IInv, DequeueNoNext
  PROVE  IInv'
<1>1. /\ StartDequeue /\ phase' = "now"
      /\ UNCHANGED <<drops, hnodes, owned, next_pnode, skb, fault, fate>>
  BY DEF DequeueNoNext
<1> QED
  BY <1>1, SearchKeeps DEF IInv, TypeOK, StartDequeue

LEMMA NextPnodeType ==
  ASSUME TypeOK, NEW X, next_pnode \in Pnodes(hnodes) \cap X,
         hnodes' = PopHead(hnodes, next_pnode),
         owned' = Repointed(hnodes, hnodes')
  PROVE  /\ next_pnode \in Pkts
         /\ hnodes' \in Seq(Hnode(Pkts)) /\ owned' \subseteq Pkts
<1>1. next_pnode \in Pkts
  BY PnodesType DEF TypeOK
<1>2. hnodes' \in Seq(Hnode(Pkts))
  BY <1>1, PopHeadType DEF TypeOK
<1> QED
  BY <1>1, <1>2, RepointedType

LEMMA ExpiredStep ==
  ASSUME IInv, DequeueExpired
  PROVE  IInv'
<1>1. /\ StartDequeue /\ drops' = drops + 1
      /\ fate' = [fate EXCEPT ![next_pnode] = "lost"]
      /\ next_pnode' = NULL /\ phase' = "now" /\ skb' = skb /\ fault' = fault
  BY DEF DequeueExpired
<1>2. /\ next_pnode \in Pkts
      /\ hnodes' \in Seq(Hnode(Pkts)) /\ owned' \subseteq Pkts
  BY NextPnodeType DEF IInv, DequeueExpired
<1>3. /\ fate' \in [Pkts -> Fates]
      /\ \A q \in Pkts : fate'[q] = "sent" => fate[q] = "sent"
  BY <1>1 DEF IInv, TypeOK, Fates
<1>4. drops' \in Nat
  BY <1>1 DEF IInv, TypeOK
<1> QED
  BY <1>1, <1>2, <1>3, <1>4, SearchKeeps DEF IInv, TypeOK, StartDequeue

LEMMA NextStep ==
  ASSUME IInv, DequeueNext
  PROVE  IInv'
<1>1. /\ StartDequeue /\ skb' = next_pnode /\ tmin[next_pnode] <= now
      /\ next_pnode' = NULL /\ phase' = "now"
      /\ UNCHANGED <<drops, fault, fate>>
  BY DEF DequeueNext
<1>2. /\ next_pnode \in Pkts
      /\ hnodes' \in Seq(Hnode(Pkts)) /\ owned' \subseteq Pkts
  BY NextPnodeType DEF IInv, DequeueNext
<1> QED
  BY <1>1, <1>2, SearchKeeps DEF IInv, TypeOK, StartDequeue

LEMMA FaultStep ==
  ASSUME IInv, DequeueUseAfterFree \/ DequeueNullDeref
  PROVE  IInv'
<1>1. /\ StartDequeue /\ fault' \in {"null_deref", "use_after_free"}
      /\ UNCHANGED <<drops, hnodes, owned, next_pnode, skb, phase, fate>>
  BY DEF DequeueUseAfterFree, DequeueNullDeref
<1>2. skb' = NULL
  BY <1>1 DEF IInv, HandEmpty, StartDequeue
<1> QED
  BY <1>1, <1>2, SearchKeeps DEF IInv, TypeOK, StartDequeue

(***************************************************************************)
(* The searches replace the queues; what is taken is due.                  *)
(***************************************************************************)
LEMMA QueuesType ==
  ASSUME TypeOK, NEW Q \in [DOMAIN hnodes -> Seq(Pkts)],
         hnodes' = [j \in DOMAIN hnodes |-> [hnodes[j] EXCEPT !.queue = Q[j]]],
         owned' = Repointed(hnodes, hnodes')
  PROVE  hnodes' \in Seq(Hnode(Pkts)) /\ owned' \subseteq Pkts
<1>1. hnodes' \in Seq(Hnode(Pkts))
  BY MapQueueType DEF TypeOK
<1> QED
  BY <1>1, RepointedType

LEMMA SearchNowFindsStep ==
  ASSUME IInv, SearchNowFinds
  PROVE  IInv'
<1>1. SearchNow /\ owned' = Repointed(hnodes, hnodes')
  BY DEF SearchNowFinds
<1>2. PICK i \in DOMAIN hnodes :
        /\ Ready(i) /\ skb' = Head(Rest(i))
        /\ hnodes' = [j \in DOMAIN hnodes |->
             [hnodes[j] EXCEPT !.queue =
                IF j < i THEN Rest(j) ELSE IF j = i THEN Tail(Rest(i)) ELSE @]]
        /\ Lose((Pnodes(hnodes) \ (Pnodes(hnodes') \cup {skb'}))
                  \cup ({skb} \ {NULL}))
  BY DEF SearchNowFinds
<1>3. \A j \in DOMAIN hnodes :
        hnodes[j].queue \in Seq(Pkts) /\ Rest(j) \in Seq(Pkts)
  BY QueueType DEF IInv
<1>4. Rest(i) # <<>> /\ tmin[Head(Rest(i))] <= now
  BY <1>2 DEF Ready
<1>5. Tail(Rest(i)) \in Seq(Pkts) /\ Head(Rest(i)) \in Pkts
  BY <1>3, <1>4, HeadTailProperties
<1> DEFINE Q == [j \in DOMAIN hnodes |->
                   IF j < i THEN Rest(j)
                   ELSE IF j = i THEN Tail(Rest(i)) ELSE hnodes[j].queue]
<1>6. Q \in [DOMAIN hnodes -> Seq(Pkts)]
  BY <1>3, <1>5
<1>7. hnodes' = [j \in DOMAIN hnodes |-> [hnodes[j] EXCEPT !.queue = Q[j]]]
  BY <1>2
<1> HIDE DEF Q
<1>8. hnodes' \in Seq(Hnode(Pkts)) /\ owned' \subseteq Pkts
  BY <1>1, <1>6, <1>7, QueuesType DEF IInv
<1>9. /\ fate' \in [Pkts -> Fates]
      /\ \A q \in Pkts : fate'[q] = "sent" => fate[q] = "sent"
  BY <1>2, LoseType DEF IInv
<1>10. skb' \in Pkts /\ tmin[skb'] <= now
  BY <1>2, <1>4, <1>5
<1> QED
  BY <1>1, <1>8, <1>9, <1>10, SearchKeeps DEF IInv, TypeOK, SearchNow, sch

LEMMA SearchNowFindsNoneStep ==
  ASSUME IInv, SearchNowFindsNone
  PROVE  IInv'
<1>1. /\ SearchNow /\ skb' = skb /\ owned' = Repointed(hnodes, hnodes')
      /\ hnodes' = [j \in DOMAIN hnodes |->
                      [hnodes[j] EXCEPT !.queue = Rest(j)]]
      /\ Lose(Pnodes(hnodes) \ Pnodes(hnodes'))
  BY DEF SearchNowFindsNone
<1>2. \A j \in DOMAIN hnodes : Rest(j) \in Seq(Pkts)
  BY QueueType DEF IInv
<1>3. hnodes' \in Seq(Hnode(Pkts)) /\ owned' \subseteq Pkts
  <2> DEFINE Q == [j \in DOMAIN hnodes |-> Rest(j)]
  <2>1. Q \in [DOMAIN hnodes -> Seq(Pkts)]
    BY <1>2
  <2>2. hnodes' = [j \in DOMAIN hnodes |-> [hnodes[j] EXCEPT !.queue = Q[j]]]
    BY <1>1
  <2> HIDE DEF Q
  <2> QED
    BY <1>1, <2>1, <2>2, QueuesType DEF IInv
<1>4. /\ fate' \in [Pkts -> Fates]
      /\ \A q \in Pkts : fate'[q] = "sent" => fate[q] = "sent"
  BY <1>1, LoseType DEF IInv
<1> QED
  BY <1>1, <1>3, <1>4, SearchKeeps DEF IInv, TypeOK, SearchNow, sch

LEMMA SearchNextStep ==
  ASSUME IInv, SearchNext
  PROVE  IInv'
<1>1. /\ hnodes' = [j \in DOMAIN hnodes |->
                      [hnodes[j] EXCEPT !.queue = Left(j)]]
      /\ owned' = Repointed(hnodes, hnodes')
      /\ Lose(Pnodes(hnodes) \ Pnodes(hnodes'))
      /\ phase' = "return"
      /\ UNCHANGED <<sch, hnode_list, hops_left, delay, overlimit, pkts, now,
                     run, skb, fault, debt, resets, waited>>
  BY DEF SearchNext
<1>2. \A j \in DOMAIN hnodes : Left(j) \in Seq(Pkts)
  BY QueueType DEF IInv
<1>3. hnodes' \in Seq(Hnode(Pkts)) /\ owned' \subseteq Pkts
  <2> DEFINE Q == [j \in DOMAIN hnodes |-> Left(j)]
  <2>1. Q \in [DOMAIN hnodes -> Seq(Pkts)]
    BY <1>2
  <2>2. hnodes' = [j \in DOMAIN hnodes |-> [hnodes[j] EXCEPT !.queue = Q[j]]]
    BY <1>1
  <2> HIDE DEF Q
  <2> QED
    BY <1>1, <2>1, <2>2, QueuesType DEF IInv
<1>4. /\ fate' \in [Pkts -> Fates]
      /\ \A q \in Pkts : fate'[q] = "sent" => fate[q] = "sent"
  BY <1>1, LoseType DEF IInv
<1>5. next_pnode' \in Pkts \cup {NULL} /\ timer' \in Nat \cup {NULL}
  <2>1. CASE UNCHANGED <<next_pnode, timer>>
    BY <2>1 DEF IInv, TypeOK
  <2>2. ASSUME NEW i \in DOMAIN hnodes, Earliest(i),
               next_pnode' = Head(Left(i)), timer' = Rearm(next_pnode')
        PROVE  next_pnode' \in Pkts \cup {NULL} /\ timer' \in Nat \cup {NULL}
    <3>1. Left(i) # <<>> /\ Left(i) \in Seq(Pkts)
      BY <1>2, <2>2 DEF Earliest
    <3>2. next_pnode' \in Pkts
      BY <2>2, <3>1, HeadTailProperties
    <3> QED
      BY <2>2, <3>2 DEF Rearm, IInv, TypeOK
  <2> QED
    BY <2>1, <2>2 DEF SearchNext
<1> QED
  BY <1>1, <1>3, <1>4, <1>5, SearchKeeps DEF IInv, TypeOK, sch

(***************************************************************************)
(* The end of a dequeue.  The packet returned was in the qdisc for a       *)
(* natural number of instants, since it was enqueued in the past.          *)
(***************************************************************************)
LEMMA WaitedType ==
  ASSUME IInv, NEW p \in Pkts, Return(p)
  PROVE  waited' \in Nat
<1>1. now \in Nat /\ enqueue_time[p] \in Nat
  BY DEF IInv, TypeOK
<1>2. enqueue_time[p] <= now /\ waited' = now - enqueue_time[p]
  BY DEF IInv, Clocked, Return
<1> QED
  BY <1>1, <1>2

LEMMA ReturnKeeps ==
  ASSUME IInv, NEW p \in Pkts, Return(p), skb' = NULL,
         fifo' \in Seq(Pkts), FifoKinds', drops' \in Nat, delay' \in Nat,
         header' \in [Pkts -> Header],
         \A q \in Pkts : header'[q].kind = header[q].kind,
         run' \in BOOLEAN, fate' \in [Pkts -> Fates],
         \A q \in Pkts \ {p} : fate'[q] = fate[q],
         header[p].kind = "lbf" => tmin[p] <= now
  PROVE  IInv'
<1>1. waited' \in Nat
  BY WaitedType
<1>2. qlen' \in 0..QlenMod-1
  BY QlenTypes DEF IInv, Return
<1>3. TypeOK'
  BY <1>1, <1>2 DEF IInv, TypeOK, Return
<1>4. Clocked' /\ HandEmpty'
  BY DEF IInv, Clocked, HandEmpty, Return
<1>5. NeverEarly'
  <2>1. \A q \in Pkts : q # skb'
    BY PktsAssumption
  <2> QED
    BY <2>1 DEF IInv, NeverEarly, Return
<1> QED
  BY <1>3, <1>4, <1>5 DEF IInv

LEMMA ReturnLbfStep ==
  ASSUME IInv, ReturnLbf
  PROVE  IInv'
<1>1. /\ skb \in Pkts /\ Return(skb) /\ Sends(skb) /\ skb' = NULL
      /\ delay' = (waited' * 100) \div TenthMs
      /\ header' = [header EXCEPT
                      ![skb].exp = (@ + waited' \div TenthMs) % U16]
      /\ fifo' = fifo
  BY DEF ReturnLbf, IInv, TypeOK
<1>2. waited' \in Nat
  BY <1>1, WaitedType
<1>3. delay' \in Nat /\ waited' \div TenthMs \in Nat
  <2>1. ASSUME NEW w \in Nat PROVE w * 100 \in Nat
    OBVIOUS
  <2> QED
    BY <1>1, <1>2, <2>1, TenthMsAssumption, DivBounds
<1> DEFINE e == (header[skb].exp + waited' \div TenthMs) % U16
<1>4. e \in 0..U16-1
  <2>1. header[skb].exp \in 0..U16-1
    BY <1>1, HeaderTypes DEF IInv
  <2>2. header[skb].exp + waited' \div TenthMs \in Int
    BY <1>3, <2>1, U16Type
  <2> QED
    BY <2>2, U16Type, ModRangeOf
<1>5. header' = [header EXCEPT ![skb].exp = e]
  BY <1>1 DEF IInv, TypeOK
<1> HIDE DEF e
<1>6. /\ header' \in [Pkts -> Header]
      /\ \A q \in Pkts : header'[q].kind = header[q].kind
  <2>1. header[skb] \in Header
    BY <1>1 DEF IInv, TypeOK
  <2>2. [header[skb] EXCEPT !.exp = e] \in Header
    BY <1>4, <2>1 DEF Header
  <2>3. header \in [Pkts -> Header]
    BY DEF IInv, TypeOK
  <2>4. header' \in [Pkts -> Header]
    BY <1>1, <1>5, <2>2, <2>3
  <2>5. ASSUME NEW q \in Pkts PROVE header'[q].kind = header[q].kind
    BY <1>1, <1>5, <2>1, <2>3 DEF Header
  <2> QED
    BY <2>4, <2>5
<1>7. fifo \in Seq(Pkts) /\ FifoKinds'
  <2>1. fifo \in Seq(Pkts)
    BY DEF IInv, TypeOK
  <2> QED
    BY <1>1, <1>6, <2>1 DEF IInv, FifoKinds
<1>8. /\ fate' \in [Pkts -> Fates] /\ run' = TRUE /\ drops' = drops
      /\ \A q \in Pkts \ {skb} : fate'[q] = fate[q]
  BY <1>1 DEF IInv, TypeOK, Fates, Sends
<1>9. tmin[skb] <= now /\ drops \in Nat
  BY <1>1 DEF IInv, TypeOK, NeverEarly
<1> QED
  BY <1>1, <1>3, <1>6, <1>7, <1>8, <1>9, ReturnKeeps

LEMMA TicksType ==
  ASSUME NEW d \in Nat
  PROVE  Ticks(d) \in Nat
<1>1. ASSUME NEW u \in Nat \ {0}
      PROVE  d * 15625 \in Nat /\ 10 * u \in Nat \ {0}
  BY SMT
<1> DEFINE a == d * 15625
           b == 10 * TenthMs
<1>2. a \in Nat /\ b \in Nat \ {0}
  BY <1>1, TenthMsAssumption
<1>3. Ticks(d) = a \div b
  BY DEF Ticks
<1> HIDE DEF a, b
<1> QED
  BY <1>2, <1>3, DivBounds

LEMMA DequeueHeadFacts ==
  ASSUME IInv, DequeueHead
  PROVE  /\ Head(fifo) \in Pkts /\ Return(Head(fifo)) /\ skb' = NULL
         /\ fifo' \in Seq(Pkts) /\ delay' \in Nat
         /\ header[Head(fifo)].kind # "lbf"
         /\ (\A q \in Pkts : header'[q].kind = header[q].kind) => FifoKinds'
<1>1. /\ fifo \in Seq(Pkts) /\ fifo # <<>> /\ Return(Head(fifo))
      /\ fifo' = Tail(fifo) /\ delay' = Ticks(waited') /\ skb' = NULL
  BY DEF DequeueHead, IInv, TypeOK
<1>2. /\ Head(fifo) \in Pkts /\ fifo' \in Seq(Pkts)
      /\ DOMAIN fifo' = 1..Len(fifo)-1 /\ DOMAIN fifo = 1..Len(fifo)
      /\ Len(fifo) \in Nat /\ Len(fifo) >= 1
      /\ Head(fifo) = fifo[1]
      /\ \A i \in 1..Len(fifo)-1 : fifo'[i] = fifo[i+1]
  <2>1. /\ fifo' \in Seq(Pkts) /\ Len(fifo') = Len(fifo) - 1
        /\ \A i \in 1..Len(fifo') : fifo'[i] = fifo[i+1]
    BY <1>1, HeadTailProperties
  <2>2. /\ DOMAIN fifo = 1..Len(fifo) /\ Len(fifo) \in Nat /\ Len(fifo) >= 1
        /\ DOMAIN fifo' = 1..Len(fifo')
    BY <1>1, <2>1, EmptySeq
  <2>3. Head(fifo) \in Pkts /\ Head(fifo) = fifo[1]
    BY <1>1, HeadTailProperties
  <2> QED
    BY <2>1, <2>2, <2>3
<1>3. delay' \in Nat
  <2>1. waited' \in Nat
    BY <1>1, <1>2, WaitedType
  <2> QED
    BY <1>1, <2>1, TicksType
<1>4. header[Head(fifo)].kind # "lbf"
  BY <1>2 DEF IInv, FifoKinds
<1>5. ASSUME \A q \in Pkts : header'[q].kind = header[q].kind
      PROVE  FifoKinds'
  <2> SUFFICES ASSUME NEW i \in DOMAIN fifo'
               PROVE  header'[fifo'[i]].kind # "lbf"
    BY DEF FifoKinds
  <2>1. i + 1 \in DOMAIN fifo /\ fifo'[i] = fifo[i+1] /\ fifo[i+1] \in Pkts
    BY <1>1, <1>2
  <2> QED
    BY <1>5, <2>1 DEF IInv, FifoKinds
<1> QED
  BY <1>1, <1>2, <1>3, <1>4, <1>5

LEMMA ReturnHeadStep ==
  ASSUME IInv, ReturnHead
  PROVE  IInv'
<1> DEFINE p == Head(fifo)
           e == (header[p].exp + delay') % U16
<1>1. /\ DequeueHead /\ Sends(p)
      /\ header' = IF header[p].kind = "mdf"
                     THEN [header EXCEPT ![p].exp = e] ELSE header
  BY DEF ReturnHead, IInv, TypeOK
<1>2. /\ p \in Pkts /\ Return(p) /\ skb' = NULL
      /\ fifo' \in Seq(Pkts) /\ delay' \in Nat /\ header[p].kind # "lbf"
      /\ (\A q \in Pkts : header'[q].kind = header[q].kind) => FifoKinds'
  BY <1>1, DequeueHeadFacts
<1>3. e \in 0..U16-1
  <2>1. header[p].exp \in 0..U16-1
    BY <1>2, HeaderTypes DEF IInv
  <2>2. header[p].exp + delay' \in Int
    BY <1>2, <2>1, U16Type
  <2> QED
    BY <2>2, U16Type, ModRangeOf
<1> HIDE DEF p, e
<1>4. /\ header' \in [Pkts -> Header]
      /\ \A q \in Pkts : header'[q].kind = header[q].kind
  <2>1. header[p] \in Header /\ header \in [Pkts -> Header]
    BY <1>2 DEF IInv, TypeOK
  <2>2. [header[p] EXCEPT !.exp = e] \in Header
    BY <1>3, <2>1 DEF Header
  <2> QED
    BY <1>1, <1>2, <2>1, <2>2 DEF Header
<1>5. /\ fate' \in [Pkts -> Fates] /\ run' = TRUE /\ drops' = drops
      /\ drops \in Nat
      /\ \A q \in Pkts \ {p} : fate'[q] = fate[q]
  BY <1>1, <1>2 DEF IInv, TypeOK, Fates, Sends
<1> QED
  BY <1>2, <1>4, <1>5, ReturnKeeps

LEMMA DiscardHeadStep ==
  ASSUME IInv, DiscardHead
  PROVE  IInv'
<1> DEFINE p == Head(fifo)
<1>1. /\ DequeueHead /\ fate' = [fate EXCEPT ![p] = "freed"]
      /\ drops' = drops + 1 /\ run' = run /\ header' = header
  BY DEF DiscardHead
<1>2. /\ p \in Pkts /\ Return(p) /\ skb' = NULL
      /\ fifo' \in Seq(Pkts) /\ delay' \in Nat /\ header[p].kind # "lbf"
      /\ FifoKinds'
  BY <1>1, DequeueHeadFacts
<1> HIDE DEF p
<1>3. /\ fate' \in [Pkts -> Fates] /\ run' \in BOOLEAN /\ drops' \in Nat
      /\ header' \in [Pkts -> Header]
      /\ \A q \in Pkts \ {p} : fate'[q] = fate[q]
  BY <1>1, <1>2 DEF IInv, TypeOK, Fates
<1> QED
  BY <1>1, <1>2, <1>3, ReturnKeeps

LEMMA ReturnNothingStep ==
  ASSUME IInv, ReturnNothing
  PROVE  IInv'
<1>1. TypeOK'
  BY DEF IInv, TypeOK, ReturnNothing, sch, priv, pkts, history
<1>2. Clocked' /\ HandEmpty' /\ FifoKinds' /\ NeverEarly'
  BY DEF IInv, Clocked, HandEmpty, FifoKinds, NeverEarly, ReturnNothing, sch,
         priv, pkts, history
<1> QED
  BY <1>1, <1>2 DEF IInv

LEMMA DequeueStep ==
  ASSUME IInv, Dequeue
  PROVE  IInv'
BY NoNextStep, ExpiredStep, NextStep, FaultStep, SearchNowFindsStep,
   SearchNowFindsNoneStep, SearchNextStep, ReturnLbfStep, ReturnHeadStep,
   DiscardHeadStep, ReturnNothingStep DEF Dequeue

(***************************************************************************)
(* The clock, the watchdog and tc.                                         *)
(***************************************************************************)
LEMMA TickStep ==
  ASSUME IInv, Tick
  PROVE  IInv'
<1>1. TypeOK'
  BY DEF IInv, TypeOK, Tick, sch, priv, pkts, history
<1>2. Clocked' /\ HandEmpty' /\ FifoKinds'
  BY DEF IInv, TypeOK, Clocked, HandEmpty, FifoKinds, Tick, sch, priv, pkts,
         history
<1>3. NeverEarly'
  BY DEF IInv, TypeOK, NeverEarly, Tick, sch, priv, pkts, history
<1> QED
  BY <1>1, <1>2, <1>3 DEF IInv

LEMMA WatchdogStep ==
  ASSUME IInv, WatchdogFires
  PROVE  IInv'
<1>1. TypeOK'
  BY DEF IInv, TypeOK, WatchdogFires, sch, pkts, history
<1>2. Clocked' /\ HandEmpty' /\ FifoKinds' /\ NeverEarly'
  BY DEF IInv, Clocked, HandEmpty, FifoKinds, NeverEarly, WatchdogFires, sch,
         pkts, history
<1> QED
  BY <1>1, <1>2 DEF IInv

LEMMA ResetStep ==
  ASSUME IInv, Reset
  PROVE  IInv'
<1>1. 0 \in 0..QlenMod-1 /\ <<>> \in Seq(Pkts)
  BY QlenModAssumption
<1>2. fate' \in [Pkts -> Fates] /\ \A p \in Pkts : fate'[p] = "sent" =>
                                                     fate[p] = "sent"
  BY DEF Reset, IInv, TypeOK, Fates
<1>3. debt' \in Nat
  <2> DEFINE S == {p \in Pkts : fate'[p] \in {"queued", "lost"}}
  <2>1. IsFiniteSet(S)
    BY PktsAssumption, FS_Subset
  <2> QED
    BY <2>1, FS_CardinalityType DEF Reset
<1>4. /\ timer' = NULL /\ fifo' = <<>> /\ qlen' = 0 /\ run' = FALSE
      /\ resets' = resets + 1
      /\ UNCHANGED <<limit, drops, hnode_list, hnodes, owned, next_pnode,
                     hops_left, delay, overlimit, pkts, now, phase, skb,
                     fault, waited>>
  BY DEF Reset
<1>5. TypeOK'
  <2>1. fifo' \in Seq(Pkts) /\ qlen' \in 0..QlenMod-1
    BY <1>1, <1>4
  <2>2. run' \in BOOLEAN /\ timer' \in Nat \cup {NULL}
    BY <1>4
  <2>3. resets' \in Nat
    BY <1>4 DEF IInv, TypeOK
  <2> QED
    BY <1>2, <1>3, <1>4, <2>1, <2>2, <2>3 DEF IInv, TypeOK, pkts
<1>6. Clocked' /\ HandEmpty' /\ FifoKinds' /\ NeverEarly'
  BY <1>2, <1>4 DEF IInv, Clocked, HandEmpty, FifoKinds, NeverEarly, pkts
<1> QED
  BY <1>5, <1>6 DEF IInv

LEMMA ChangeStep ==
  ASSUME IInv, NEW l \in Limits, Change(l)
  PROVE  IInv'
<1>1. TypeOK'
  BY LimitsAssumption DEF Change, IInv, TypeOK, priv, pkts, kernel, history
<1>2. Clocked' /\ HandEmpty' /\ FifoKinds' /\ NeverEarly'
  BY DEF Change, IInv, Clocked, HandEmpty, FifoKinds, NeverEarly, priv, pkts,
         kernel, history
<1> QED
  BY <1>1, <1>2 DEF IInv

LEMMA StutterStep ==
  ASSUME IInv, UNCHANGED vars
  PROVE  IInv'
BY DEF IInv, TypeOK, Clocked, HandEmpty, FifoKinds, NeverEarly, vars, sch, priv,
       pkts, kernel, history

-----------------------------------------------------------------------------
(***************************************************************************)
(* Every reachable state satisfies the invariant.                          *)
(***************************************************************************)
THEOREM IInvHolds == Spec => []IInv
<1>1. Init => IInv
  BY InitIInv
<1>2. ASSUME IInv, [Next]_vars PROVE IInv'
  BY <1>2, EnqueueStep, DequeueStep, TickStep, WatchdogStep, ResetStep,
     ChangeStep, StutterStep DEF Next
<1> QED
  BY <1>1, <1>2, PTL DEF Spec

(***************************************************************************)
(* Every variable of the qdisc keeps its type: in particular the qlen, the *)
(* budgets, the remembered hops_left and the delays in the headers stay in *)
(* the widths they have in the code, and every delay the qdisc reports is  *)
(* that of a packet enqueued in the past.                                  *)
(***************************************************************************)
THEOREM TypeCorrect == Spec => []TypeOK
BY IInvHolds, PTL DEF IInv

(***************************************************************************)
(* No LBF packet leaves the qdisc before its earliest release time,        *)
(* whatever the contracts, the arrivals, the resets and the times at which *)
(* the watchdog and the four clock readings of a dequeue fall.             *)
(***************************************************************************)
THEOREM NotEarly == Spec => []NeverEarly
BY IInvHolds, PTL DEF IInv

-----------------------------------------------------------------------------
(***************************************************************************)
(* The inductive invariant behind ListSound, MostUrgentFirst and           *)
(* PacketsAccounted.  The list of hnodes is fine (LbfLemmas: sorted,       *)
(* aligned, no packet twice); its heads have their hnode pointer; and the  *)
(* queued packets are those of the fifo, of the list, and the one in hand, *)
(* three places that share none.                                           *)
(***************************************************************************)
ListFine == Fine(hnodes, tmin, lqbudget)

Places ==
  \A p \in Pkts :
    fate[p] = "queued" <=> p \in ToSet(fifo) \/ p \in Delayed \/ p = skb

FifoOnce == \A i, j \in DOMAIN fifo : fifo[i] = fifo[j] => i = j

LbfKinds == \A p \in Pkts : p \in Delayed \/ p = skb => header[p].kind = "lbf"

HandApart == skb \notin Delayed

LInv == ListFine /\ HeadsOwned /\ Places /\ FifoOnce /\ LbfKinds /\ HandApart

LEMMA InitLInv == Init => LInv
<1> SUFFICES ASSUME Init PROVE LInv
  OBVIOUS
<1>1. /\ hnodes = <<>> /\ fifo = <<>> /\ skb = NULL /\ owned = {}
      /\ \A p \in Pkts : fate[p] = "fresh"
  BY DEF Init
<1>2. DOMAIN hnodes = {} /\ DOMAIN fifo = {}
  BY <1>1
<1>3. Delayed = {} /\ Heads(hnodes) = {} /\ ToSet(fifo) = {}
  BY <1>2 DEF Delayed, Pnodes, Heads, ToSet
<1>4. ListFine
  BY <1>2 DEF ListFine, Fine, QueuesSorted, RangesSorted, OwnRanges, Aligned,
              Once
<1> QED
  BY <1>1, <1>2, <1>3, <1>4, PktsAssumption
  DEF LInv, HeadsOwned, Places, FifoOnce, LbfKinds, HandApart

(***************************************************************************)
(* Steps that leave the packets where they are: no packet is queued or     *)
(* leaves, and the list changes at most by an empty hnode.                 *)
(***************************************************************************)
LEMMA QuietKeeps ==
  ASSUME LInv, fault = "none",
         UNCHANGED <<fifo, owned, skb>>,
         Fine(hnodes', tmin', lqbudget'), Pnodes(hnodes') = Pnodes(hnodes),
         Heads(hnodes') = Heads(hnodes),
         \A p \in Pkts : header'[p].kind = header[p].kind,
         \A p \in Pkts : fate'[p] = "queued" <=> fate[p] = "queued"
  PROVE  LInv'
<1>1. owned = Heads(hnodes)
  BY DEF LInv, HeadsOwned
<1> QED
  BY <1>1 DEF LInv, ListFine, HeadsOwned, Places, FifoOnce, LbfKinds, HandApart,
              Delayed

LEMMA StillKeeps ==
  ASSUME LInv, fault = "none",
         UNCHANGED <<hnodes, tmin, lqbudget, fifo, owned, skb>>,
         \A p \in Pkts : header'[p].kind = header[p].kind,
         \A p \in Pkts : fate'[p] = "queued" <=> fate[p] = "queued"
  PROVE  LInv'
BY QuietKeeps DEF LInv, ListFine

(* A packet that has not arrived is nowhere in the qdisc.                  *)
LEMMA FreshNowhere ==
  ASSUME LInv, NEW p \in Pkts, fate[p] = "fresh"
  PROVE  p \notin ToSet(fifo) /\ p \notin Delayed /\ p # skb
BY DEF LInv, Places

LEMMA TailPlaces ==
  ASSUME IInv, LInv, NEW p \in Pkts, EnqueueTail(p)
  PROVE  LInv'
<1>1. /\ fifo' = Append(fifo, p) /\ fate' = [fate EXCEPT ![p] = "queued"]
      /\ fate[p] = "fresh" /\ fault = "none" /\ fault' = fault
      /\ UNCHANGED <<hnodes, owned, header, tmin, lqbudget, skb>>
  BY DEF EnqueueTail, Admitted, Arrives
<1>2. /\ fifo \in Seq(Pkts) /\ Len(fifo) \in Nat /\ DOMAIN fifo = 1..Len(fifo)
      /\ DOMAIN fifo' = 1..Len(fifo)+1
      /\ \A i \in 1..Len(fifo) : fifo'[i] = fifo[i]
      /\ fifo'[Len(fifo)+1] = p
  BY <1>1, AppendProperties DEF IInv, TypeOK
<1>3. p \notin ToSet(fifo)
  BY <1>1, FreshNowhere
<1>4. ToSet(fifo') = ToSet(fifo) \cup {p}
  <2>1. Len(fifo) + 1 \in DOMAIN fifo'
    BY <1>2
  <2>2. \A i \in DOMAIN fifo' : i \in DOMAIN fifo \/ i = Len(fifo) + 1
    BY <1>2
  <2>3. DOMAIN fifo \subseteq DOMAIN fifo'
    BY <1>2
  <2> QED
    BY <1>2, <2>1, <2>2, <2>3 DEF ToSet
<1>5. FifoOnce'
  <2> SUFFICES ASSUME NEW i \in DOMAIN fifo', NEW j \in DOMAIN fifo',
                      fifo'[i] = fifo'[j]
               PROVE  i = j
    BY DEF FifoOnce
  <2>1. \A k \in DOMAIN fifo : fifo[k] # p
    BY <1>3 DEF ToSet
  <2>2. \A k \in DOMAIN fifo' : k \in DOMAIN fifo \/ k = Len(fifo) + 1
    BY <1>2
  <2> QED
    BY <1>2, <2>1, <2>2 DEF LInv, FifoOnce
<1>6. Places'
  BY <1>1, <1>4 DEF LInv, Places, Delayed, IInv, TypeOK
<1> QED
  BY <1>1, <1>5, <1>6 DEF LInv, ListFine, HeadsOwned, LbfKinds, HandApart,
                          Delayed

LEMMA EnqueueLbfPlaces ==
  ASSUME IInv, LInv, NEW p \in Pkts, EnqueueLbf(p), IInv'
  PROVE  /\ LInv' /\ Delayed' = Delayed \cup {p}
         /\ \A q \in Pkts \ {p} : tmin'[q] = tmin[q]
         /\ tmin'[p] >= now
         /\ \A q \in Pkts \ {p} : tmax'[q] = tmax[q] /\ lqbudget'[q] = lqbudget[q]
<1> DEFINE hs == lbf_get_hnode(hnodes, Budget(p))
           i == Stop(hnodes, Budget(p))
           queue == pnode_queue_add(hs[i].queue, p, tmin')
           lo == LqMin(header[p], header[p].exp, header[p].tohops)
<1>1. /\ LbfArrives(p) /\ fault' = fault
      /\ tmin' = [tmin EXCEPT ![p] = now + lo * TenthMs]
      /\ \A q \in Pkts \ {p} : tmax'[q] = tmax[q]
      /\ lqbudget' = [lqbudget EXCEPT ![p] = Budget(p)]
      /\ hnodes' = [hs EXCEPT ![i].queue = queue]
      /\ owned' = IF Head(queue) = p
                    THEN (owned \ HeadOf(hs[i].queue)) \cup {p} ELSE owned
      /\ fate' = [fate EXCEPT ![p] = "queued"]
  BY DEF EnqueueLbf, LbfAdmitted, IInv, TypeOK
<1>2. /\ Budget(p) \in 0..U16-1 /\ Budget(p) \in Nat
      /\ hs \in Seq(Hnode(Pkts)) /\ i \in 1..Len(hs) /\ lo \in Nat
  BY <1>1, BudgetFacts, U16Type
<1>3. /\ fault = "none" /\ fate[p] = "fresh" /\ header[p].kind = "lbf"
      /\ fifo' = fifo /\ skb' = skb
      /\ \A q \in Pkts : header'[q].kind = header[q].kind
  BY <1>1, LbfArrivesStep DEF LbfArrives, Admitted, Arrives
<1>4. p \notin ToSet(fifo) /\ p \notin Pnodes(hnodes) /\ p # skb
  BY <1>3, FreshNowhere DEF Delayed
<1>5. /\ Fine(hs, tmin, lqbudget) /\ Pnodes(hs) = Pnodes(hnodes)
      /\ Heads(hs) = Heads(hnodes) /\ hs[i].range_start = RangeStart(Budget(p))
  BY <1>2, GetHnodeFine DEF LInv, ListFine, IInv, TypeOK
<1>6. /\ tmin \in [Pkts -> Nat] /\ tmin' \in [Pkts -> Nat]
      /\ lqbudget \in [Pkts -> 0..U16-1]
  BY DEF IInv, TypeOK
<1>7. /\ \A q \in Pkts \ {p} : tmin'[q] = tmin[q] /\ lqbudget'[q] = lqbudget[q]
      /\ lqbudget'[p] = Budget(p)
      /\ tmin'[p] = now + lo * TenthMs
  BY <1>1, <1>6
<1>8. tmin'[p] >= now
  <2>1. lo * TenthMs \in Nat
    <3>1. ASSUME NEW a \in Nat, NEW b \in Nat PROVE a * b \in Nat
      BY SMT
    <3> QED
      BY <1>2, <3>1, TenthMsAssumption
  <2> DEFINE w == lo * TenthMs
  <2>2. w \in Nat /\ now \in Nat /\ tmin'[p] = now + w
    BY <1>7, <2>1 DEF IInv, TypeOK
  <2> HIDE DEF w
  <2> QED
    BY <2>2
<1> HIDE DEF hs, i, lo
<1>9. /\ Fine(hnodes', tmin', lqbudget')
      /\ Pnodes(hnodes') = Pnodes(hs) \cup {p}
      /\ Heads(hnodes') = IF Head(queue) = p
                            THEN (Heads(hs) \ HeadOf(hs[i].queue)) \cup {p}
                            ELSE Heads(hs)
  <2>1. Joins(Pkts, hs, i, p, tmin, lqbudget, tmin', lqbudget')
    BY <1>2, <1>4, <1>5, <1>6, <1>7 DEF Joins
  <2>2. Joined(hs, i, p, queue, tmin', lqbudget')
    BY <2>1, AddPnodeFine
  <2> HIDE DEF queue
  <2> QED
    BY <1>1, <2>2 DEF Joined, Requeued
<1> HIDE DEF queue
<1>10. Heads(hnodes') = owned'
  BY <1>1, <1>3, <1>5, <1>9 DEF LInv, HeadsOwned
<1>11. Places'
  BY <1>1, <1>3, <1>5, <1>9 DEF LInv, Places, Delayed, IInv, TypeOK
<1>12. LbfKinds' /\ HandApart'
  BY <1>3, <1>4, <1>5, <1>9 DEF LInv, LbfKinds, HandApart, Delayed
<1> QED
  BY <1>1, <1>3, <1>5, <1>7, <1>8, <1>9, <1>10, <1>11, <1>12
  DEF LInv, ListFine, HeadsOwned, FifoOnce, Delayed

LEMMA LbfQuiet ==
  ASSUME IInv, LInv, NEW p \in Pkts, LbfArrives(p), owned' = owned,
         UNCHANGED <<tmin, lqbudget>>,
         hnodes' = hnodes \/ hnodes' = lbf_get_hnode(hnodes, Budget(p)),
         \A q \in Pkts : fate'[q] = "queued" <=> fate[q] = "queued"
  PROVE  LInv' /\ Delayed' = Delayed
<1>1. /\ Fine(hnodes', tmin, lqbudget) /\ Pnodes(hnodes') = Pnodes(hnodes)
      /\ Heads(hnodes') = Heads(hnodes)
  <2>1. Budget(p) \in Nat
    BY BudgetFacts, U16Type
  <2> QED
    BY <2>1, GetHnodeFine DEF LInv, ListFine, IInv, TypeOK
<1>2. /\ fault = "none" /\ UNCHANGED <<fifo, skb>>
      /\ \A q \in Pkts : header'[q].kind = header[q].kind
  BY LbfArrivesStep DEF LbfArrives, Admitted, Arrives
<1> QED
  BY <1>1, <1>2, QuietKeeps DEF Delayed

LEMMA EnqueuePlaces ==
  ASSUME IInv, LInv, NEW p \in Pkts, Enqueue(p), IInv'
  PROVE  LInv'
<1>1. CASE EnqueueOverlimit(p)
  BY <1>1, StillKeeps DEF EnqueueOverlimit, Arrives, pkts, IInv, TypeOK
<1>2. CASE EnqueueTail(p)
  BY <1>2, TailPlaces
<1>3. CASE EnqueueNoHops(p)
  BY <1>3, StillKeeps DEF EnqueueNoHops, Admitted, Arrives, IInv, TypeOK
<1>4. CASE EnqueueEarlyDiscard(p)
  <2>1. fate[p] = "fresh"
    BY <1>4 DEF EnqueueEarlyDiscard, LbfArrives, Admitted, Arrives
  <2> QED
    BY <1>4, <2>1, LbfQuiet DEF EnqueueEarlyDiscard, IInv, TypeOK
<1>5. CASE EnqueueLbf(p)
  BY <1>5, EnqueueLbfPlaces
<1>6. CASE EnqueueListFails(p)
  BY <1>6, LbfQuiet DEF EnqueueListFails, LbfAdmitted
<1>7. CASE EnqueueHnodeFails(p)
  <2>1. fate[p] = "fresh"
    BY <1>7 DEF EnqueueHnodeFails, LbfAdmitted, LbfArrives, Admitted, Arrives
  <2> QED
    BY <1>7, <2>1, LbfQuiet DEF EnqueueHnodeFails, LbfAdmitted, IInv, TypeOK
<1>8. CASE EnqueuePnodeFails(p)
  <2>1. fate[p] = "fresh"
    BY <1>8 DEF EnqueuePnodeFails, LbfAdmitted, LbfArrives, Admitted, Arrives
  <2> QED
    BY <1>8, <2>1, LbfQuiet DEF EnqueuePnodeFails, LbfAdmitted, IInv, TypeOK
<1> QED
  BY <1>1, <1>2, <1>3, <1>4, <1>5, <1>6, <1>7, <1>8 DEF Enqueue

(***************************************************************************)
(* The steps of a dequeue remove pnodes from the fronts of the queues.     *)
(***************************************************************************)
LEMMA ShrinkKeeps ==
  ASSUME IInv, LInv, fault = "none", hnodes' \in Seq(Hnode(Pkts)),
         Shrunk(hnodes', hnodes), owned' = Repointed(hnodes, hnodes'),
         UNCHANGED <<fifo, tmin, lqbudget, header>>,
         skb' \notin Pnodes(hnodes'), skb' \in Delayed \cup {skb, NULL},
         \A p \in Pkts : fate'[p] = "queued" <=>
           p \in ToSet(fifo) \/ p \in Pnodes(hnodes') \/ p = skb'
  PROVE  LInv' /\ Delayed' \subseteq Delayed
<1>1. hnodes \in Seq(Hnode(Pkts)) /\ Fine(hnodes, tmin, lqbudget)
  BY DEF LInv, ListFine, IInv, TypeOK
<1>2. Fine(hnodes', tmin, lqbudget) /\ Pnodes(hnodes') \subseteq Pnodes(hnodes)
  <2> DEFINE new == hnodes'
  <2>1. new \in Seq(Hnode(Pkts)) /\ Shrunk(new, hnodes)
    OBVIOUS
  <2> HIDE DEF new
  <2>2. Fine(new, tmin, lqbudget) /\ Pnodes(new) \subseteq Pnodes(hnodes)
    BY <1>1, <2>1, ShrunkFine
  <2> QED
    BY <2>2 DEF new
<1>3. owned' = Heads(hnodes')
  <2>1. owned = Heads(hnodes) /\ Once(hnodes)
    BY <1>1 DEF LInv, HeadsOwned, Fine
  <2> QED
    BY <1>1, <2>1, ShrunkHeads DEF Repointed
<1>4. LbfKinds' /\ HandApart'
  BY <1>2, PktsAssumption DEF LInv, LbfKinds, HandApart, Delayed
<1> QED
  BY <1>2, <1>3, <1>4 DEF LInv, ListFine, HeadsOwned, Places, FifoOnce, Delayed

(* The pnode the watchdog was armed for, when it can be removed.           *)
LEMMA TakesNext ==
  ASSUME IInv, LInv, fault = "none", next_pnode \in Pnodes(hnodes) \cap owned,
         hnodes' = PopHead(hnodes, next_pnode)
  PROVE  /\ next_pnode \in Pkts /\ next_pnode \in Delayed
         /\ hnodes' \in Seq(Hnode(Pkts)) /\ Shrunk(hnodes', hnodes)
         /\ Pnodes(hnodes') = Pnodes(hnodes) \ {next_pnode}
<1>1. /\ next_pnode \in Pkts /\ hnodes \in Seq(Hnode(Pkts))
      /\ next_pnode \in Heads(hnodes) /\ Once(hnodes)
  BY PnodesType DEF IInv, TypeOK, LInv, HeadsOwned, ListFine, Fine
<1> QED
  BY <1>1, PopHeadFacts, PopHeadType DEF Delayed

LEMMA DequeueNextPlaces ==
  ASSUME IInv, LInv, DequeueExpired \/ DequeueNext
  PROVE  /\ LInv' /\ Delayed' = Delayed \ {next_pnode}
         /\ next_pnode \in Pkts /\ next_pnode \in Delayed /\ skb = NULL
<1>1. /\ StartDequeue /\ next_pnode \in Pnodes(hnodes) \cap owned
      /\ hnodes' = PopHead(hnodes, next_pnode)
      /\ owned' = Repointed(hnodes, hnodes')
      /\ \/ /\ skb' = skb /\ fate' = [fate EXCEPT ![next_pnode] = "lost"]
         \/ skb' = next_pnode /\ fate' = fate
  BY DEF DequeueExpired, DequeueNext
<1>2. /\ fault = "none" /\ skb = NULL
      /\ UNCHANGED <<fifo, tmin, lqbudget, header>>
  BY <1>1 DEF StartDequeue, pkts, IInv, HandEmpty
<1>3. /\ next_pnode \in Pkts /\ next_pnode \in Delayed
      /\ hnodes' \in Seq(Hnode(Pkts)) /\ Shrunk(hnodes', hnodes)
      /\ Pnodes(hnodes') = Pnodes(hnodes) \ {next_pnode}
  BY <1>1, <1>2, TakesNext
<1>4. next_pnode \notin ToSet(fifo)
  BY <1>3 DEF LInv, LbfKinds, IInv, FifoKinds, ToSet
<1>5. /\ skb' \notin Pnodes(hnodes') /\ skb' \in Delayed \cup {skb, NULL}
      /\ \A p \in Pkts : fate'[p] = "queued" <=>
           p \in ToSet(fifo) \/ p \in Pnodes(hnodes') \/ p = skb'
  <2>1. NULL \notin Pnodes(hnodes)
    BY PktsAssumption, PnodesType DEF IInv, TypeOK
  <2> QED
    BY <1>1, <1>2, <1>3, <1>4, <2>1, PktsAssumption
    DEF LInv, Places, Delayed, IInv, TypeOK
<1> QED
  BY <1>1, <1>2, <1>3, <1>5, ShrinkKeeps DEF Delayed

(* What the searches leave of a queue.                                     *)
LEMMA SweptQueue ==
  ASSUME IInv, NEW i \in DOMAIN hnodes, NEW X
  PROVE  /\ Sweep(hnodes[i].queue, X) \in Seq(Pkts)
         /\ Tails(Sweep(hnodes[i].queue, X), hnodes[i].queue)
         /\ \A j \in DOMAIN hnodes[i].queue :
              \/ hnodes[i].queue[j] \in X
              \/ hnodes[i].queue[j] \in ToSet(Sweep(hnodes[i].queue, X))
         /\ Sweep(hnodes[i].queue, X) # <<>> =>
              Head(Sweep(hnodes[i].queue, X)) \notin X
<1> DEFINE q == hnodes[i].queue
           s == Sweep(q, X)
<1>1. q \in Seq(Pkts) /\ DOMAIN q = 1..Len(q)
  BY HnodeType DEF IInv, TypeOK
<1> HIDE DEF q
<1>2. s \in Seq(Pkts)
  BY <1>1, SweepType
<1>3. /\ Tails(s, q)
      /\ s # <<>> => Head(s) \notin X
      /\ \A j \in 1..Len(q) : q[j] \in X \/ \E k \in 1..Len(s) : s[k] = q[j]
  BY <1>1, SweepFacts
<1> HIDE DEF s
<1>4. DOMAIN s = 1..Len(s)
  BY <1>2
<1>5. \A j \in DOMAIN q : q[j] \in X \/ q[j] \in ToSet(s)
  BY <1>1, <1>3, <1>4 DEF ToSet
<1>6. /\ s \in Seq(Pkts) /\ Tails(s, q)
      /\ \A j \in DOMAIN q : q[j] \in X \/ q[j] \in ToSet(s)
      /\ s # <<>> => Head(s) \notin X
  BY <1>2, <1>3, <1>5
<1> QED
  BY <1>6 DEF s, q

LEMMA SweepPlaces ==
  ASSUME IInv, LInv, fault = "none", NEW X,
         hnodes' = [j \in DOMAIN hnodes |->
                      [hnodes[j] EXCEPT !.queue = Sweep(hnodes[j].queue, X)]],
         owned' = Repointed(hnodes, hnodes'),
         UNCHANGED <<fifo, tmin, lqbudget, header, skb>>,
         Lose(Pnodes(hnodes) \ Pnodes(hnodes'))
  PROVE  LInv' /\ Delayed' \subseteq Delayed /\ Delayed \ Delayed' \subseteq X
<1> DEFINE f == [j \in DOMAIN hnodes |-> Sweep(hnodes[j].queue, X)]
           new == SetQueues(hnodes, f)
<1>1. hnodes \in Seq(Hnode(Pkts))
  BY DEF IInv, TypeOK
<1>2. \A j \in DOMAIN hnodes : f[j] \in Seq(Pkts) /\ Tails(f[j], hnodes[j].queue)
  BY SweptQueue
<1>3. f \in [DOMAIN hnodes -> Seq(Pkts)]
  BY <1>2
<1>4. hnodes' = new
  BY DEF SetQueues
<1>5. \A j \in DOMAIN hnodes : f[j] = Sweep(hnodes[j].queue, X)
  OBVIOUS
<1> HIDE DEF f
<1>6. /\ new \in Seq(Hnode(Pkts)) /\ Shrunk(new, hnodes)
      /\ \A j \in DOMAIN hnodes : new[j].queue = f[j]
  BY <1>1, <1>2, <1>3, QueuesShrunk
<1>7. DOMAIN new = DOMAIN hnodes
  BY DEF SetQueues
<1> HIDE DEF new
<1>8. Pnodes(hnodes') \subseteq Pnodes(hnodes)
  BY <1>1, <1>4, <1>6, ShrunkFine DEF LInv, ListFine
<1>9. Pnodes(hnodes) \ Pnodes(hnodes') \subseteq X
  <2> SUFFICES ASSUME NEW x \in Pnodes(hnodes), x \notin X
               PROVE  x \in Pnodes(new)
    BY <1>4
  <2>1. PICK i \in DOMAIN hnodes : \E j \in DOMAIN hnodes[i].queue :
          x = hnodes[i].queue[j]
    BY InPnodes
  <2>2. x \in ToSet(new[i].queue)
    BY <1>5, <1>6, <2>1, SweptQueue
  <2> QED
    BY <1>7, <2>2 DEF Pnodes
<1>10. /\ skb' \notin Pnodes(hnodes') /\ skb' \in Delayed \cup {skb, NULL}
       /\ \A p \in Pkts : fate'[p] = "queued" <=>
            p \in ToSet(fifo) \/ p \in Pnodes(hnodes') \/ p = skb'
  <2>1. \A p \in Pkts : p \in Delayed => p \notin ToSet(fifo)
    BY DEF LInv, LbfKinds, IInv, FifoKinds, ToSet
  <2> QED
    BY <1>8, <2>1 DEF LInv, Places, HandApart, Delayed, Lose
<1> QED
  BY <1>4, <1>6, <1>8, <1>9, <1>10, ShrinkKeeps DEF Delayed

(* The first of what is left of a queue is the first of it to be released. *)
LEMMA HeadFirst ==
  ASSUME IInv, LInv, NEW i \in DOMAIN hnodes, NEW t \in Seq(Pkts),
         Tails(t, hnodes[i].queue), NEW x \in ToSet(t)
  PROVE  t # <<>> /\ tmin[Head(t)] <= tmin[x]
<1> DEFINE q == hnodes[i].queue
<1>1. /\ q \in Seq(Pkts) /\ DOMAIN q = 1..Len(q) /\ Len(q) \in Nat
      /\ DOMAIN t = 1..Len(t) /\ Len(t) \in Nat
      /\ \A j, k \in DOMAIN q : j < k => tmin[q[j]] <= tmin[q[k]]
  BY HnodeType, LenProperties
  DEF LInv, ListFine, Fine, QueuesSorted, IInv, TypeOK
<1>2. PICK d \in 0..Len(q) : /\ Len(t) = Len(q) - d
                             /\ \A j \in 1..Len(t) : t[j] = q[j+d]
  BY DEF Tails
<1> HIDE DEF q
<1>3. PICK m \in 1..Len(t) : x = t[m]
  BY <1>1 DEF ToSet
<1>4. t # <<>> /\ Head(t) = t[1] /\ 1 \in 1..Len(t)
  <2>1. Len(t) >= 1
    BY <1>1, <1>3
  <2>2. t # <<>>
    BY <2>1, EmptySeq
  <2> QED
    BY <1>1, <2>1, <2>2
<1>5. /\ 1 + d \in DOMAIN q /\ m + d \in DOMAIN q
      /\ Head(t) = q[1+d] /\ x = q[m+d]
  BY <1>1, <1>2, <1>3, <1>4
<1>6. CASE m = 1
  <2>1. x \in Pkts /\ Head(t) = x
    BY <1>1, <1>3, <1>4, <1>6
  <2>2. tmin[x] \in Nat
    BY <2>1 DEF IInv, TypeOK
  <2> QED
    BY <1>4, <2>1, <2>2
<1>7. CASE m # 1
  <2>1. 1 + d < m + d
    BY <1>1, <1>2, <1>3, <1>7
  <2> QED
    BY <1>1, <1>4, <1>5, <2>1
<1> QED
  BY <1>6, <1>7

LEMMA SearchNowFindsPlaces ==
  ASSUME IInv, LInv, SearchNowFinds
  PROVE  /\ LInv' /\ Delayed' \subseteq Delayed
         /\ skb' \in Delayed \ Delayed' /\ skb' \in Pkts /\ skb' # skb
         /\ skb' \notin Expired /\ tmin[skb'] <= now
         /\ Delayed \ (Delayed' \cup {skb'}) \subseteq Expired
         /\ Lose((Delayed \ (Delayed' \cup {skb'})) \cup ({skb} \ {NULL}))
         /\ \A p \in Delayed \ Expired : tmin[p] <= now =>
              RangeStart(lqbudget[skb']) <= RangeStart(lqbudget[p])
<1>1. /\ SearchNow /\ owned' = Repointed(hnodes, hnodes')
      /\ fault = "none" /\ UNCHANGED <<fifo, tmin, lqbudget, header>>
  BY DEF SearchNowFinds, SearchNow, sch, pkts
<1>2. PICK i \in DOMAIN hnodes :
        /\ Ready(i) /\ \A j \in 1..i-1 : ~Ready(j)
        /\ skb' = Head(Rest(i))
        /\ hnodes' = [j \in DOMAIN hnodes |->
             [hnodes[j] EXCEPT !.queue =
                IF j < i THEN Rest(j) ELSE IF j = i THEN Tail(Rest(i)) ELSE @]]
        /\ Lose((Pnodes(hnodes) \ (Pnodes(hnodes') \cup {skb'}))
                  \cup ({skb} \ {NULL}))
  BY DEF SearchNowFinds
<1>3. /\ hnodes \in Seq(Hnode(Pkts)) /\ Fine(hnodes, tmin, lqbudget)
      /\ DOMAIN hnodes = 1..Len(hnodes) /\ Len(hnodes) \in Nat
  BY LenProperties DEF LInv, ListFine, IInv, TypeOK
<1>4. \A j \in DOMAIN hnodes :
        /\ hnodes[j].queue \in Seq(Pkts) /\ Tails(hnodes[j].queue, hnodes[j].queue)
        /\ Rest(j) \in Seq(Pkts) /\ Tails(Rest(j), hnodes[j].queue)
        /\ \A k \in DOMAIN hnodes[j].queue :
             hnodes[j].queue[k] \in Overdue \/ hnodes[j].queue[k] \in ToSet(Rest(j))
        /\ Rest(j) # <<>> => Head(Rest(j)) \notin Overdue
  BY <1>3, HnodeType, SweptQueue, TailsSelf DEF Rest
<1>5. Rest(i) # <<>> /\ tmin[Head(Rest(i))] <= now
  BY <1>2 DEF Ready
<1>6. Tail(Rest(i)) \in Seq(Pkts) /\ Tails(Tail(Rest(i)), hnodes[i].queue)
  BY <1>4, <1>5, HeadTailProperties, TailsTail
<1> DEFINE f == [j \in DOMAIN hnodes |->
                   IF j < i THEN Rest(j)
                   ELSE IF j = i THEN Tail(Rest(i)) ELSE hnodes[j].queue]
           new == SetQueues(hnodes, f)
<1>7. /\ f \in [DOMAIN hnodes -> Seq(Pkts)]
      /\ \A j \in DOMAIN hnodes : Tails(f[j], hnodes[j].queue)
  BY <1>4, <1>6
<1>8. hnodes' = new /\ DOMAIN new = DOMAIN hnodes
  BY <1>2 DEF SetQueues
<1>9. /\ f[i] = Tail(Rest(i))
      /\ \A j \in DOMAIN hnodes : j # i => f[j] \in {Rest(j), hnodes[j].queue}
  BY <1>3
<1> HIDE DEF f
<1>10. /\ new \in Seq(Hnode(Pkts)) /\ Shrunk(new, hnodes)
       /\ \A j \in DOMAIN hnodes : new[j].queue = f[j]
  BY <1>3, <1>7, QueuesShrunk
<1> HIDE DEF new
<1>11. /\ skb' \in Pnodes(hnodes) /\ skb' \notin Pnodes(new) /\ skb' \in Pkts
       /\ \E j \in DOMAIN hnodes[i].queue : skb' = hnodes[i].queue[j]
  <2>1. /\ Once(hnodes) /\ new[i].queue = Tail(Rest(i))
        /\ Rest(i) \in Seq(Pkts) /\ Tails(Rest(i), hnodes[i].queue)
    BY <1>3, <1>4, <1>9, <1>10 DEF Fine
  <2>2. /\ Head(Rest(i)) \in Pnodes(hnodes) /\ Head(Rest(i)) \notin Pnodes(new)
        /\ \E j \in DOMAIN hnodes[i].queue : Head(Rest(i)) = hnodes[i].queue[j]
    <3> DEFINE t == Rest(i)
    <3>1. /\ t \in Seq(Pkts) /\ t # <<>> /\ Tails(t, hnodes[i].queue)
          /\ new[i].queue = Tail(t)
      BY <1>5, <2>1
    <3> HIDE DEF t
    <3>2. /\ hnodes \in Seq(Hnode(Pkts)) /\ new \in Seq(Hnode(Pkts))
          /\ Shrunk(new, hnodes) /\ Once(hnodes) /\ i \in DOMAIN hnodes
      BY <1>3, <1>10, <2>1
    <3>3. /\ Head(t) \in Pnodes(hnodes) /\ Head(t) \notin Pnodes(new)
          /\ \E j \in DOMAIN hnodes[i].queue : Head(t) = hnodes[i].queue[j]
      BY ONLY <3>1, <3>2, HeadGone
    <3> QED
      BY <3>3 DEF t
  <2> QED
    BY <1>2, <1>3, <2>2, PnodesType
<1>12. skb' \notin Overdue /\ skb' \notin Expired /\ tmin[skb'] <= now
  BY <1>2, <1>4, <1>5 DEF Overdue
<1>13. Pnodes(new) \subseteq Pnodes(hnodes)
  BY <1>3, <1>10, ShrunkFine
<1>14. Pnodes(hnodes) \ (Pnodes(new) \cup {skb'}) \subseteq Overdue
  <2> SUFFICES ASSUME NEW x \in Pnodes(hnodes), x \notin Overdue, x # skb'
               PROVE  x \in Pnodes(new)
    OBVIOUS
  <2>1. PICK k \in DOMAIN hnodes : \E j \in DOMAIN hnodes[k].queue :
          x = hnodes[k].queue[j]
    BY InPnodes
  <2>2. x \in ToSet(Rest(k)) /\ x \in ToSet(hnodes[k].queue)
    BY <1>4, <2>1 DEF ToSet
  <2>3. x \in ToSet(f[k])
    <3>1. CASE k # i
      BY <1>9, <2>2, <3>1
    <3>2. CASE k = i
      <4> DEFINE t == Rest(i)
      <4>1. /\ t \in Seq(Pkts) /\ t # <<>> /\ x \in ToSet(t) /\ x # Head(t)
            /\ f[k] = Tail(t)
        BY <1>2, <1>4, <1>5, <1>9, <2>2, <3>2
      <4> HIDE DEF t
      <4>2. /\ Head(t) = t[1] /\ DOMAIN t = 1..Len(t) /\ Len(t) \in Nat
            /\ Tail(t) \in Seq(Pkts) /\ Len(Tail(t)) = Len(t) - 1
            /\ DOMAIN Tail(t) = 1..Len(t)-1
            /\ \A m \in 1..Len(Tail(t)) : Tail(t)[m] = t[m+1]
        BY <4>1, HeadTailProperties, LenProperties
      <4>3. PICK m \in 1..Len(t) : x = t[m]
        BY <4>1, <4>2 DEF ToSet
      <4>4. m # 1
        BY <4>1, <4>2, <4>3
      <4>5. m - 1 \in DOMAIN Tail(t) /\ Tail(t)[m-1] = t[(m-1)+1] /\ (m-1)+1 = m
        BY <4>2, <4>3, <4>4
      <4> QED
        BY <4>1, <4>3, <4>5 DEF ToSet
    <3> QED
      BY <3>1, <3>2
  <2> QED
    BY <1>8, <1>10, <2>3 DEF Pnodes
<1>15. skb' # skb /\ skb' # NULL
  BY <1>11, PktsAssumption DEF LInv, HandApart, Delayed
<1>16. \A p \in Pkts : fate'[p] = "queued" <=>
         p \in ToSet(fifo) \/ p \in Pnodes(hnodes') \/ p = skb'
  <2>1. \A p \in Pkts : p \in Delayed \/ p = skb => p \notin ToSet(fifo)
    BY DEF LInv, LbfKinds, IInv, FifoKinds, ToSet
  <2>2. \A p \in Pkts : fate'[p] = IF \/ /\ p \in Delayed
                                         /\ p \notin Pnodes(new) /\ p # skb'
                                      \/ p = skb
                                     THEN "lost" ELSE fate[p]
    BY <1>2, <1>8, PktsAssumption DEF Lose, Delayed
  <2> QED
    BY <1>8, <1>11, <1>13, <1>15, <2>1, <2>2
    DEF LInv, Places, HandApart, Delayed
<1>17. LInv' /\ Delayed' \subseteq Delayed
  BY <1>1, <1>8, <1>10, <1>11, <1>16, ShrinkKeeps DEF Delayed
<1>18. ASSUME NEW p \in Delayed \ Expired, tmin[p] <= now
       PROVE  RangeStart(lqbudget[skb']) <= RangeStart(lqbudget[p])
  <2>1. PICK k \in DOMAIN hnodes : \E j \in DOMAIN hnodes[k].queue :
          p = hnodes[k].queue[j]
    BY InPnodes DEF Delayed
  <2>2. ~(k < i)
    <3> SUFFICES ASSUME k < i PROVE Ready(k)
      BY <1>2, <1>3
    <3>1. p \in ToSet(Rest(k))
      BY <1>4, <1>18, <2>1 DEF Overdue
    <3>2. Rest(k) # <<>> /\ tmin[Head(Rest(k))] <= tmin[p]
      BY <1>4, <3>1, HeadFirst
    <3>3. /\ tmin[Head(Rest(k))] \in Nat /\ tmin[p] \in Nat /\ now \in Nat
      <4>1. Head(Rest(k)) \in Pkts /\ p \in Pkts
        BY <1>3, <1>4, <3>2, PnodesType, HeadTailProperties DEF Delayed
      <4> QED
        BY <4>1 DEF IInv, TypeOK
    <3> QED
      BY <1>18, <3>2, <3>3 DEF Ready
  <2>3. hnodes[i].range_start <= hnodes[k].range_start
    <3>1. hnodes[i].range_start \in Nat /\ hnodes[k].range_start \in Nat
      BY <1>3, HnodeType
    <3> QED
      BY <1>3, <2>2, <3>1 DEF Fine, RangesSorted
  <2>4. /\ RangeStart(lqbudget[skb']) = hnodes[i].range_start
        /\ RangeStart(lqbudget[p]) = hnodes[k].range_start
    BY <1>3, <1>11, <2>1 DEF Fine, OwnRanges
  <2> QED
    BY <2>3, <2>4
<1> QED
  BY <1>2, <1>8, <1>11, <1>12, <1>14, <1>15, <1>17, <1>18 DEF Delayed, Overdue

LEMMA FindsNonePlaces ==
  ASSUME IInv, LInv, SearchNowFindsNone
  PROVE  /\ LInv' /\ Delayed' \subseteq Delayed
         /\ Delayed \ Delayed' \subseteq Overdue /\ Overdue \subseteq Expired
<1>1. /\ fault = "none" /\ UNCHANGED <<fifo, tmin, lqbudget, header, skb>>
      /\ hnodes' = [j \in DOMAIN hnodes |->
                      [hnodes[j] EXCEPT !.queue = Sweep(hnodes[j].queue, Overdue)]]
      /\ owned' = Repointed(hnodes, hnodes')
      /\ Lose(Pnodes(hnodes) \ Pnodes(hnodes'))
  BY DEF SearchNowFindsNone, SearchNow, sch, pkts, Rest
<1> QED
  BY <1>1, SweepPlaces DEF Overdue

LEMMA SearchNextPlaces ==
  ASSUME IInv, LInv, SearchNext
  PROVE  /\ LInv' /\ Delayed' \subseteq Delayed
         /\ Delayed \ Delayed' \subseteq Expired
<1>1. /\ fault = "none" /\ UNCHANGED <<fifo, tmin, lqbudget, header, skb>>
      /\ hnodes' = [j \in DOMAIN hnodes |->
                      [hnodes[j] EXCEPT !.queue = Sweep(hnodes[j].queue, Expired)]]
      /\ owned' = Repointed(hnodes, hnodes')
      /\ Lose(Pnodes(hnodes) \ Pnodes(hnodes'))
  BY DEF SearchNext, sch, pkts, Left
<1> QED
  BY <1>1, SweepPlaces

(***************************************************************************)
(* The end of a dequeue takes a packet from the hand or from the fifo.     *)
(***************************************************************************)
LEMMA ReturnLbfPlaces ==
  ASSUME IInv, LInv, ReturnLbf
  PROVE  /\ LInv' /\ Delayed' = Delayed
         /\ skb \in Pkts /\ header[skb].kind = "lbf"
<1>1. /\ skb \in Pkts /\ skb' = NULL /\ fault = "none" /\ fault' = fault
      /\ UNCHANGED <<fifo, hnodes, owned, tmin, lqbudget>>
      /\ fate' = [fate EXCEPT ![skb] = "sent"]
      /\ \A q \in Pkts : header'[q].kind = header[q].kind
  BY DEF ReturnLbf, Return, Sends, IInv, TypeOK, Header
<1>2. skb \notin ToSet(fifo) /\ header[skb].kind = "lbf"
  BY <1>1 DEF LInv, LbfKinds, IInv, FifoKinds, ToSet
<1>3. Delayed' = Delayed /\ NULL \notin Delayed /\ Delayed \subseteq Pkts
  BY <1>1, PnodesType, PktsAssumption DEF Delayed, IInv, TypeOK
<1>4. \A p \in Pkts : fate'[p] = IF p = skb THEN "sent" ELSE fate[p]
  BY <1>1 DEF IInv, TypeOK
<1>5. Places'
  BY <1>1, <1>2, <1>3, <1>4, PktsAssumption DEF LInv, Places, HandApart
<1> QED
  BY <1>1, <1>2, <1>3, <1>5, PktsAssumption
  DEF LInv, ListFine, HeadsOwned, FifoOnce, LbfKinds, HandApart

LEMMA HeadPlaces ==
  ASSUME IInv, LInv, DequeueHead,
         \A q \in Pkts : header'[q].kind = header[q].kind,
         fate' = [fate EXCEPT ![Head(fifo)] = "sent"]
           \/ fate' = [fate EXCEPT ![Head(fifo)] = "freed"]
  PROVE  /\ LInv' /\ Delayed' = Delayed /\ Head(fifo) \notin Delayed
         /\ skb = NULL /\ Head(fifo) \in ToSet(fifo)
<1>1. /\ fifo \in Seq(Pkts) /\ fifo # <<>> /\ Return(Head(fifo))
      /\ fifo' = Tail(fifo) /\ skb = NULL /\ skb' = NULL
  BY DEF DequeueHead, IInv, TypeOK
<1>2. /\ fault = "none" /\ fault' = fault
      /\ UNCHANGED <<hnodes, owned, tmin, lqbudget>>
  BY <1>1 DEF Return
<1>3. /\ Head(fifo) \in Pkts /\ Head(fifo) = fifo[1]
      /\ Len(fifo) \in Nat /\ Len(fifo) >= 1 /\ DOMAIN fifo = 1..Len(fifo)
      /\ DOMAIN fifo' = 1..Len(fifo)-1
      /\ \A i \in 1..Len(fifo)-1 : fifo'[i] = fifo[i+1]
  <2>1. /\ fifo' \in Seq(Pkts) /\ Len(fifo') = Len(fifo) - 1
        /\ \A i \in 1..Len(fifo') : fifo'[i] = fifo[i+1]
    BY <1>1, HeadTailProperties
  <2>2. /\ DOMAIN fifo = 1..Len(fifo) /\ Len(fifo) \in Nat /\ Len(fifo) >= 1
        /\ DOMAIN fifo' = 1..Len(fifo')
    BY <1>1, <2>1, EmptySeq
  <2>3. Head(fifo) \in Pkts /\ Head(fifo) = fifo[1]
    BY <1>1, HeadTailProperties
  <2> QED
    BY <2>1, <2>2, <2>3
<1>4. Head(fifo) \in ToSet(fifo)
  BY <1>3 DEF ToSet
<1>5. FifoOnce'
  <2> SUFFICES ASSUME NEW i \in DOMAIN fifo', NEW j \in DOMAIN fifo',
                      fifo'[i] = fifo'[j]
               PROVE  i = j
    BY DEF FifoOnce
  <2>1. i + 1 \in DOMAIN fifo /\ j + 1 \in DOMAIN fifo
    BY <1>3
  <2>2. fifo[i+1] = fifo[j+1]
    BY <1>3
  <2>3. i + 1 = j + 1
    BY <2>1, <2>2 DEF LInv, FifoOnce
  <2> QED
    BY <1>3, <2>3
<1>6. ToSet(fifo') = ToSet(fifo) \ {Head(fifo)}
  <2>1. ASSUME NEW x \in ToSet(fifo') PROVE x \in ToSet(fifo) \ {Head(fifo)}
    <3>1. PICK i \in DOMAIN fifo' : x = fifo'[i]
      BY DEF ToSet
    <3>2. i + 1 \in DOMAIN fifo /\ x = fifo[i+1] /\ i + 1 # 1 /\ 1 \in DOMAIN fifo
      BY <1>3, <3>1
    <3> QED
      BY <1>3, <3>2 DEF ToSet, LInv, FifoOnce
  <2>2. ASSUME NEW x \in ToSet(fifo), x # Head(fifo) PROVE x \in ToSet(fifo')
    <3>1. PICK i \in DOMAIN fifo : x = fifo[i]
      BY DEF ToSet
    <3>2. i # 1
      BY <1>3, <2>2, <3>1
    <3>3. i - 1 \in DOMAIN fifo' /\ fifo'[i-1] = fifo[(i-1)+1] /\ (i-1)+1 = i
      BY <1>3, <3>1, <3>2
    <3> QED
      BY <3>1, <3>3 DEF ToSet
  <2> QED
    BY <2>1, <2>2
<1>7. Head(fifo) \notin Delayed
  <2>1. header[Head(fifo)].kind # "lbf"
    BY <1>3, <1>4 DEF IInv, FifoKinds, ToSet
  <2> QED
    BY <1>3, <2>1 DEF LInv, LbfKinds
<1>8. Delayed' = Delayed
  BY <1>2 DEF Delayed
<1>9. Places'
  <2>1. \A p \in Pkts : p # Head(fifo) => fate'[p] = fate[p]
    BY <1>3 DEF IInv, TypeOK
  <2>2. fate'[Head(fifo)] # "queued"
    BY <1>3 DEF IInv, TypeOK
  <2> QED
    BY <1>1, <1>3, <1>6, <1>7, <1>8, <2>1, <2>2, PktsAssumption DEF LInv, Places
<1> QED
  BY <1>1, <1>2, <1>4, <1>5, <1>7, <1>8, <1>9
  DEF LInv, ListFine, HeadsOwned, LbfKinds, HandApart

LEMMA ResetPlaces ==
  ASSUME IInv, LInv, Reset
  PROVE  LInv' /\ Delayed' = Delayed
<1>1. /\ fifo' = <<>> /\ UNCHANGED <<hnodes, owned, header, tmin, lqbudget, skb>>
      /\ fault = "none" /\ fault' = fault
      /\ fate' = [p \in Pkts |-> IF p \in ToSet(fifo) THEN "freed" ELSE fate[p]]
  BY DEF Reset, pkts
<1>2. DOMAIN fifo' = {}
  BY <1>1
<1>3. ToSet(fifo') = {} /\ FifoOnce'
  BY <1>2 DEF ToSet, FifoOnce
<1>4. Delayed' = Delayed
  BY <1>1 DEF Delayed
<1>5. \A p \in Pkts : p \in Delayed \/ p = skb => p \notin ToSet(fifo)
  BY DEF LInv, LbfKinds, IInv, FifoKinds, ToSet
<1>6. Places'
  BY <1>1, <1>3, <1>4, <1>5 DEF LInv, Places
<1> QED
  BY <1>1, <1>3, <1>4, <1>6 DEF LInv, ListFine, HeadsOwned, LbfKinds, HandApart

LEMMA ReturnHeadPlaces ==
  ASSUME IInv, LInv, ReturnHead \/ DiscardHead
  PROVE  /\ LInv' /\ Delayed' = Delayed /\ Head(fifo) \notin Delayed
         /\ skb = NULL /\ Head(fifo) \in ToSet(fifo)
         /\ \A q \in Pkts : header'[q].kind = header[q].kind
<1>1. DequeueHead
  BY DEF ReturnHead, DiscardHead
<1>2. Head(fifo) \in Pkts
  BY <1>1, DequeueHeadFacts
<1>3. \A q \in Pkts : header'[q].kind = header[q].kind
  BY <1>2 DEF ReturnHead, DiscardHead, IInv, TypeOK, Header
<1>4. \/ fate' = [fate EXCEPT ![Head(fifo)] = "sent"]
      \/ fate' = [fate EXCEPT ![Head(fifo)] = "freed"]
  BY DEF ReturnHead, DiscardHead, Sends
<1> QED
  BY <1>1, <1>3, <1>4, HeadPlaces

(* The steps that touch neither the list nor the fates of the packets.     *)
Idles ==
  \/ DequeueNoNext \/ DequeueUseAfterFree \/ DequeueNullDeref \/ ReturnNothing
  \/ Tick \/ WatchdogFires \/ (\E l \in Limits : Change(l)) \/ UNCHANGED vars

LEMMA IdlePlaces ==
  ASSUME LInv, Idles
  PROVE  LInv' /\ UNCHANGED <<hnodes, fifo, owned, skb, fate, pkts>>
<1>1. /\ UNCHANGED <<hnodes, fifo, owned, skb, fate, pkts>>
      /\ fault' # "none" \/ fault' = fault
  BY DEF Idles, DequeueNoNext, DequeueUseAfterFree, DequeueNullDeref,
         StartDequeue, ReturnNothing, Tick, WatchdogFires, Change, vars, sch,
         priv, pkts, kernel, history
<1> QED
  BY <1>1 DEF LInv, ListFine, HeadsOwned, Places, FifoOnce, LbfKinds,
              HandApart, Delayed, pkts

LEMMA NextPlaces ==
  ASSUME IInv, LInv, [Next]_vars, IInv'
  PROVE  LInv'
<1>1. CASE \E p \in Pkts : Enqueue(p)
  BY <1>1, EnqueuePlaces
<1>2. CASE DequeueExpired \/ DequeueNext
  BY <1>2, DequeueNextPlaces
<1>3. CASE SearchNowFinds
  BY <1>3, SearchNowFindsPlaces
<1>4. CASE SearchNowFindsNone
  BY <1>4, FindsNonePlaces
<1>5. CASE SearchNext
  BY <1>5, SearchNextPlaces
<1>6. CASE ReturnLbf
  BY <1>6, ReturnLbfPlaces
<1>7. CASE ReturnHead \/ DiscardHead
  BY <1>7, ReturnHeadPlaces
<1>8. CASE Reset
  BY <1>8, ResetPlaces
<1>9. CASE Idles
  BY <1>9, IdlePlaces
<1> QED
  BY <1>1, <1>2, <1>3, <1>4, <1>5, <1>6, <1>7, <1>8, <1>9
  DEF Next, Dequeue, Idles

LEMMA ListInvariant == Spec => [](IInv /\ LInv)
<1>1. Init => IInv /\ LInv
  BY InitIInv, InitLInv
<1>2. ASSUME IInv, [Next]_vars PROVE IInv'
  BY <1>2, EnqueueStep, DequeueStep, TickStep, WatchdogStep, ResetStep,
     ChangeStep, StutterStep DEF Next
<1>3. IInv /\ LInv /\ [Next]_vars => (IInv /\ LInv)'
  BY <1>2, NextPlaces
<1> QED
  BY <1>1, <1>3, PTL DEF Spec

-----------------------------------------------------------------------------
(***************************************************************************)
(* The list of hnodes is one that the searches of a dequeue can walk,      *)
(* whatever enqueues, removals, failed allocations and resets led to it:   *)
(* its heads, and only they, have the hnode pointer a removal follows; the *)
(* queues are in order of release and the hnodes in order of budget; and   *)
(* every packet is in a range of its own budget.                           *)
(***************************************************************************)
THEOREM ListIsSound == Spec => []ListSound
<1>1. IInv /\ LInv => ListSound
  <2> SUFFICES ASSUME IInv, LInv PROVE ListSound
    OBVIOUS
  <2>1. Ordered
    <3>1. \A i \in DOMAIN hnodes : \A j, k \in DOMAIN hnodes[i].queue :
            j < k => tmin[hnodes[i].queue[j]] <= tmin[hnodes[i].queue[k]]
      BY DEF LInv, ListFine, Fine, QueuesSorted
    <3>2. \A i, j \in DOMAIN hnodes :
            i < j => hnodes[i].range_start <= hnodes[j].range_start
      BY DEF LInv, ListFine, Fine, RangesSorted
    <3> QED
      BY <3>1, <3>2 DEF Ordered
  <2>2. InOwnRange
    <3> SUFFICES ASSUME NEW i \in DOMAIN hnodes, NEW p \in ToSet(hnodes[i].queue)
                 PROVE  RangeStart(lqbudget[p]) = hnodes[i].range_start
      BY DEF InOwnRange
    <3>1. PICK j \in DOMAIN hnodes[i].queue : p = hnodes[i].queue[j]
      BY DEF ToSet
    <3> QED
      BY <3>1 DEF LInv, ListFine, Fine, OwnRanges
  <2> QED
    BY <2>1, <2>2 DEF LInv, ListSound
<1> QED
  BY <1>1, ListInvariant, PTL

(***************************************************************************)
(* search_now_pnode picks the most urgent packet: whatever the list has    *)
(* been through, no packet that is due and has not expired is in a smaller *)
(* budget range than the one the search takes.                             *)
(***************************************************************************)
THEOREM MostUrgent == Spec => MostUrgentFirst
<1> DEFINE A == phase = "now" /\ skb' # skb =>
                  \A p \in Delayed \ Expired : tmin[p] <= now =>
                    RangeStart(lqbudget[skb']) <= RangeStart(lqbudget[p])
<1>1. IInv /\ LInv /\ [Next]_vars => [A]_vars
  <2> SUFFICES ASSUME IInv, LInv, Next, phase = "now", skb' # skb
               PROVE  A
    BY DEF vars
  <2>1. SearchNowFinds
    BY DEF Next, Enqueue, EnqueueOverlimit, EnqueueTail, EnqueueNoHops,
           EnqueueEarlyDiscard, EnqueueLbf, EnqueueListFails,
           EnqueueHnodeFails, EnqueuePnodeFails, LbfAdmitted, LbfArrives,
           Admitted, Arrives, Dequeue, DequeueNoNext, DequeueExpired,
           DequeueNext, DequeueUseAfterFree, DequeueNullDeref, StartDequeue,
           SearchNowFindsNone, SearchNext, ReturnLbf, ReturnHead, DiscardHead,
           DequeueHead, ReturnNothing, Return, Tick, WatchdogFires, Reset,
           Change, kernel
  <2> QED
    BY <2>1, SearchNowFindsPlaces
<1> QED
  BY <1>1, ListInvariant, PTL DEF Spec, MostUrgentFirst

-----------------------------------------------------------------------------
(***************************************************************************)
(* Counting the packets of the three places.  A sequence without           *)
(* repetitions is as long as its set is large; and the pnodes of the list, *)
(* each with its place in its queue, are as many as the packets they hold. *)
(***************************************************************************)
LEMMA OncePerPlace ==
  ASSUME NEW P, IsFiniteSet(P), NEW s \in Seq(P),
         \A i, j \in DOMAIN s : s[i] = s[j] => i = j
  PROVE  /\ IsFiniteSet(ToSet(s)) /\ ToSet(s) \subseteq P
         /\ Cardinality(ToSet(s)) = Len(s) /\ Len(s) <= Cardinality(P)
<1>1. /\ DOMAIN s = 1..Len(s) /\ Len(s) \in Nat
      /\ \A i \in DOMAIN s : s[i] \in P
  OBVIOUS
<1>2. ToSet(s) \in SUBSET P
  BY <1>1 DEF ToSet
<1>3. IsFiniteSet(ToSet(s)) /\ Cardinality(ToSet(s)) <= Cardinality(P)
  BY <1>2, FS_Subset
<1>4. s \in Bijection(1..Len(s), ToSet(s))
  <2>1. s \in [1..Len(s) -> ToSet(s)]
    BY <1>1 DEF ToSet
  <2> QED
    BY <1>1, <2>1 DEF Bijection, Injection, Surjection, IsInjective, ToSet
<1>5. Cardinality(ToSet(s)) = Len(s)
  BY <1>1, <1>4, FS_CountingElements DEF ExistsBijection
<1> QED
  BY <1>2, <1>3, <1>5

LEMMA SlotsCounted ==
  ASSUME NEW hs \in Seq(Hnode(Pkts)), Once(hs)
  PROVE  /\ IsFiniteSet(Pnodes(hs))
         /\ Cardinality({x \in (DOMAIN hs) \X (1..Cardinality(Pkts)) :
                           x[2] \in DOMAIN hs[x[1]].queue})
              = Cardinality(Pnodes(hs))
<1> DEFINE N == Cardinality(Pkts)
           S == {x \in (DOMAIN hs) \X (1..N) : x[2] \in DOMAIN hs[x[1]].queue}
           f == [x \in S |-> hs[x[1]].queue[x[2]]]
<1>1. N \in Nat
  BY PktsAssumption, FS_CardinalityType
<1>2. \A i \in DOMAIN hs : DOMAIN hs[i].queue \subseteq 1..N
  <2> SUFFICES ASSUME NEW i \in DOMAIN hs
               PROVE  DOMAIN hs[i].queue \subseteq 1..N
    OBVIOUS
  <2> DEFINE q == hs[i].queue
  <2>1. q \in Seq(Pkts) /\ \A j, k \in DOMAIN q : q[j] = q[k] => j = k
    BY HnodeType DEF Once
  <2> HIDE DEF q
  <2>2. Len(q) <= N /\ DOMAIN q = 1..Len(q) /\ Len(q) \in Nat
    BY <2>1, PktsAssumption, OncePerPlace
  <2>3. DOMAIN q \subseteq 1..N
    BY <1>1, <2>2
  <2> QED
    BY <2>3 DEF q
<1> HIDE DEF N
<1>3. IsFiniteSet(S)
  <2>1. DOMAIN hs = 1..Len(hs) /\ Len(hs) \in Nat
    BY LenProperties
  <2>2. IsFiniteSet(DOMAIN hs) /\ IsFiniteSet(1..N)
    BY <1>1, <2>1, FS_Interval
  <2>3. IsFiniteSet((DOMAIN hs) \X (1..N))
    BY <2>2, FS_Product
  <2> QED
    BY <2>3, FS_Subset
<1>4. f \in [S -> Pnodes(hs)]
  BY DEF Pnodes, ToSet
<1>5. IsInjective(f)
  <2> SUFFICES ASSUME NEW x \in S, NEW y \in S, f[x] = f[y] PROVE x = y
    BY DEF IsInjective
  <2>1. x[1] = y[1] /\ x[2] = y[2]
    BY DEF Once
  <2> QED
    BY <2>1
<1>6. \A p \in Pnodes(hs) : \E x \in S : f[x] = p
  <2> SUFFICES ASSUME NEW p \in Pnodes(hs) PROVE \E x \in S : f[x] = p
    OBVIOUS
  <2>1. PICK i \in DOMAIN hs : \E j \in DOMAIN hs[i].queue :
          p = hs[i].queue[j]
    BY InPnodes
  <2>2. PICK j \in DOMAIN hs[i].queue : p = hs[i].queue[j]
    BY <2>1
  <2>3. <<i, j>> \in S
    BY <1>2
  <2> QED
    BY <2>2, <2>3
<1>7. f \in Bijection(S, Pnodes(hs))
  BY <1>4, <1>5, <1>6 DEF Bijection, Injection, Surjection
<1>8. ExistsBijection(S, Pnodes(hs))
  BY <1>7 DEF ExistsBijection
<1> HIDE DEF S
<1>9. IsFiniteSet(Pnodes(hs)) /\ Cardinality(Pnodes(hs)) = Cardinality(S)
  BY <1>3, <1>8, FS_Bijection
<1> QED
  BY <1>9 DEF S, N

LEMMA HoldsOnce ==
  ASSUME IInv, LInv
  PROVE  HeldOnce
<1> DEFINE F == ToSet(fifo)
           H == {skb} \ {NULL}
           D == Delayed
<1>1. /\ fifo \in Seq(Pkts) /\ hnodes \in Seq(Hnode(Pkts)) /\ Once(hnodes)
      /\ skb \in Pkts \cup {NULL}
  BY DEF IInv, TypeOK, LInv, ListFine, Fine
<1>2. /\ IsFiniteSet(F) /\ F \subseteq Pkts /\ Cardinality(F) = Len(fifo)
  BY <1>1, PktsAssumption, OncePerPlace DEF LInv, FifoOnce
<1>3. /\ IsFiniteSet(D) /\ D \subseteq Pkts
      /\ Cardinality({x \in (DOMAIN hnodes) \X (1..Cardinality(Pkts)) :
                        x[2] \in DOMAIN hnodes[x[1]].queue}) = Cardinality(D)
  BY <1>1, SlotsCounted, PnodesType DEF Delayed
<1>4. /\ IsFiniteSet(H) /\ H \subseteq Pkts
      /\ Cardinality(H) = IF skb = NULL THEN 0 ELSE 1
  <2>1. CASE skb = NULL
    BY <2>1, FS_EmptySet
  <2>2. CASE skb # NULL
    <3>1. H = {skb}
      BY <2>2
    <3> QED
      BY <1>1, <2>2, <3>1, FS_Singleton
  <2> QED
    BY <2>1, <2>2
<1>5. F \cap D = {} /\ (F \cup D) \cap H = {}
  <2>1. \A p \in Pkts : p \in Delayed \/ p = skb => p \notin ToSet(fifo)
    BY DEF LInv, LbfKinds, IInv, FifoKinds, ToSet
  <2> QED
    BY <1>2, <1>3, <1>4, <2>1 DEF LInv, HandApart
<1>6. Queued = F \cup D \cup H
  <2>1. \A p \in Pkts : p \in H <=> p = skb
    BY PktsAssumption
  <2> HIDE DEF F, D, H
  <2>2. \A p \in Pkts : p \in Queued <=> p \in F \cup D \cup H
    BY <2>1 DEF LInv, Places, Queued, F, D
  <2>3. Queued \subseteq Pkts
    BY DEF Queued
  <2> QED
    BY <1>2, <1>3, <1>4, <2>2, <2>3
<1> HIDE DEF F, D, H
<1>7. IsFiniteSet(F \cup D) /\ Cardinality(F \cup D) = Cardinality(F) + Cardinality(D)
  <2>1. Cardinality(F) \in Nat /\ Cardinality(D) \in Nat
    BY <1>2, <1>3, FS_CardinalityType
  <2>2. /\ IsFiniteSet(F \cup D)
        /\ Cardinality(F \cup D) = Cardinality(F) + Cardinality(D) - 0
    BY <1>2, <1>3, <1>5, FS_Union, FS_EmptySet
  <2> QED
    BY <2>1, <2>2
<1>8. Cardinality(F \cup D \cup H) =
        Cardinality(F) + Cardinality(D) + Cardinality(H)
  <2>1. /\ Cardinality(F) \in Nat /\ Cardinality(D) \in Nat
        /\ Cardinality(H) \in Nat
    BY <1>2, <1>3, <1>4, FS_CardinalityType
  <2>2. Cardinality((F \cup D) \cup H) =
          Cardinality(F \cup D) + Cardinality(H) - 0
    BY <1>4, <1>5, <1>7, FS_Union, FS_EmptySet
  <2> QED
    BY <1>7, <2>1, <2>2
<1>9. Held = Cardinality(Queued)
  BY <1>2, <1>3, <1>4, <1>6, <1>8 DEF Held
<1> QED
  BY <1>6, <1>9 DEF HeldOnce, F, D, H

(***************************************************************************)
(* The counter: what an increment, a decrement and a loss do to it and to  *)
(* the packets it stands for.                                              *)
(***************************************************************************)
Counted == {p \in Pkts : fate[p] \in {"queued", "lost"}}

LEMMA CountedFinite ==
  /\ IsFiniteSet(Counted) /\ Cardinality(Counted) \in Nat
  /\ IsFiniteSet(Counted') /\ Cardinality(Counted') \in Nat
BY PktsAssumption, FS_Subset, FS_CardinalityType DEF Counted

LEMMA CountsFromQlen ==
  ASSUME TypeOK
  PROVE  /\ qlen \in Int /\ debt \in Int /\ QlenMod \in Nat \ {0}
         /\ Cardinality(Counted) \in Int
         /\ QlenAccounts <=> (qlen + debt) % QlenMod
                               = Cardinality(Counted) % QlenMod
BY CountedFinite, QlenModAssumption DEF TypeOK, QlenAccounts, Counted

LEMMA CountStays ==
  ASSUME QlenAccounts, UNCHANGED <<qlen, debt>>,
         \A p \in Pkts : fate'[p] \in {"queued", "lost"} <=>
                           fate[p] \in {"queued", "lost"}
  PROVE  QlenAccounts'
<1>1. Counted' = Counted
  BY DEF Counted
<1> QED
  BY <1>1 DEF QlenAccounts, Counted

LEMMA CountGains ==
  ASSUME TypeOK, TypeOK', QlenAccounts, NEW p \in Pkts, fate[p] = "fresh",
         NEW x \in {"queued", "lost"}, fate' = [fate EXCEPT ![p] = x],
         qlen' = QlenInc, debt' = debt
  PROVE  QlenAccounts'
<1>1. Counted' = Counted \cup {p} /\ p \notin Counted
  BY DEF Counted, TypeOK
<1>2. Cardinality(Counted') = Cardinality(Counted) + 1
  BY <1>1, CountedFinite, FS_AddElement
<1> DEFINE q == qlen
           c == Cardinality(Counted)
           M == QlenMod
<1>3. q \in Int /\ debt \in Int /\ c \in Int /\ M \in Nat \ {0}
      /\ (q + debt) % M = c % M
  BY CountsFromQlen
<1>4. qlen' + debt' = ((q + 1) % M) + debt
  BY DEF QlenInc
<1> HIDE DEF q, c, M
<1>5. (((q + 1) % M) + debt) % M = (c + 1) % M
  <2>0. q + 1 \in Int /\ q + debt \in Int /\ 1 \in Int
    BY <1>3
  <2>1. (((q + 1) % M) + debt) % M = ((q + 1) + debt) % M
    BY <1>3, <2>0, ModAdd
  <2>2. (q + 1) + debt = (q + debt) + 1
    BY <1>3
  <2>3. ((q + debt) + 1) % M = (c + 1) % M
    <3> DEFINE a == q + debt
    <3>1. a \in Int /\ a % M = c % M
      BY <1>3
    <3> HIDE DEF a
    <3>2. ((a % M) + 1) % M = (a + 1) % M
      BY <1>3, <2>0, <3>1, ModAdd
    <3>3. ((c % M) + 1) % M = (c + 1) % M
      BY <1>3, <2>0, ModAdd
    <3> QED
      BY <3>1, <3>2, <3>3, Zenon DEF a
  <2> QED
    BY <2>1, <2>2, <2>3
<1> QED
  BY <1>2, <1>4, <1>5 DEF QlenAccounts, Counted, c, M

LEMMA CountLoses ==
  ASSUME TypeOK, TypeOK', QlenAccounts, NEW p \in Pkts, fate[p] = "queued",
         NEW x \in {"sent", "freed"}, fate' = [fate EXCEPT ![p] = x],
         qlen' = QlenDec, debt' = debt
  PROVE  QlenAccounts'
<1>1. Counted' = Counted \ {p} /\ p \in Counted
  BY DEF Counted, TypeOK
<1>2. Cardinality(Counted') = Cardinality(Counted) - 1
  BY <1>1, CountedFinite, FS_RemoveElement
<1> DEFINE q == qlen
           c == Cardinality(Counted)
           M == QlenMod
<1>3. q \in Int /\ debt \in Int /\ c \in Int /\ M \in Nat \ {0}
      /\ (q + debt) % M = c % M
  BY CountsFromQlen
<1>4. qlen' + debt' = ((q + M - 1) % M) + debt
  BY DEF QlenDec
<1> HIDE DEF q, c, M
<1>5. (((q + M - 1) % M) + debt) % M = (c - 1) % M
  <2>0. /\ q + M - 1 \in Int /\ q + debt \in Int /\ -1 \in Int /\ 1 \in Int
        /\ (q + debt) + (-1) \in Int
    BY <1>3
  <2>1. (((q + M - 1) % M) + debt) % M = ((q + M - 1) + debt) % M
    BY <1>3, <2>0, ModAdd
  <2>2. (q + M - 1) + debt = ((q + debt) + (-1)) + M * 1
    BY <1>3
  <2>3. (((q + debt) + (-1)) + M * 1) % M = ((q + debt) + (-1)) % M
    BY <1>3, <2>0, ModMultiple
  <2>4. ((q + debt) + (-1)) % M = (c + (-1)) % M
    <3> DEFINE a == q + debt
    <3>1. a \in Int /\ a % M = c % M
      BY <1>3
    <3> HIDE DEF a
    <3>2. ((a % M) + (-1)) % M = (a + (-1)) % M
      BY <1>3, <2>0, <3>1, ModAdd
    <3>3. ((c % M) + (-1)) % M = (c + (-1)) % M
      BY <1>3, <2>0, ModAdd
    <3> QED
      BY <3>1, <3>2, <3>3, Zenon DEF a
  <2>5. c + (-1) = c - 1
    BY <1>3
  <2> QED
    BY <2>1, <2>2, <2>3, <2>4, <2>5
<1> QED
  BY <1>2, <1>4, <1>5 DEF QlenAccounts, Counted, c, M

(* The searches turn queued packets into lost ones, which still count.     *)
LEMMA LosesCounted ==
  ASSUME LInv, NEW X, Lose(X), \A p \in X : p \in Delayed \/ p = skb
  PROVE  \A p \in Pkts : fate'[p] \in {"queued", "lost"} <=>
                           fate[p] \in {"queued", "lost"}
BY DEF LInv, Places, Lose

LEMMA EnqueueCounts ==
  ASSUME IInv, LInv, QlenAccounts, NEW p \in Pkts, Enqueue(p), IInv'
  PROVE  QlenAccounts'
<1>1. fate[p] = "fresh" /\ debt' = debt /\ TypeOK /\ TypeOK'
  BY DEF Enqueue, EnqueueOverlimit, EnqueueTail, EnqueueNoHops,
         EnqueueEarlyDiscard, EnqueueLbf, EnqueueListFails, EnqueueHnodeFails,
         EnqueuePnodeFails, LbfAdmitted, LbfArrives, Admitted, Arrives, IInv
<1>2. CASE EnqueueTail(p) \/ EnqueueLbf(p)
  BY <1>1, <1>2, CountGains DEF EnqueueTail, EnqueueLbf
<1>3. CASE EnqueuePnodeFails(p)
  BY <1>1, <1>3, CountGains DEF EnqueuePnodeFails
<1>4. CASE \/ EnqueueOverlimit(p) \/ EnqueueNoHops(p) \/ EnqueueEarlyDiscard(p)
           \/ EnqueueListFails(p) \/ EnqueueHnodeFails(p)
  BY <1>1, <1>4, CountStays
  DEF EnqueueOverlimit, EnqueueNoHops, EnqueueEarlyDiscard, EnqueueListFails,
      EnqueueHnodeFails, TypeOK
<1> QED
  BY <1>2, <1>3, <1>4 DEF Enqueue

LEMMA NextCounts ==
  ASSUME IInv, LInv, QlenAccounts, [Next]_vars, IInv'
  PROVE  QlenAccounts'
<1>1. CASE \E p \in Pkts : Enqueue(p)
  BY <1>1, EnqueueCounts
<1>2. CASE DequeueExpired \/ DequeueNext
  <2>1. next_pnode \in Pkts /\ fate[next_pnode] = "queued"
    BY <1>2, DequeueNextPlaces DEF LInv, Places
  <2>2. UNCHANGED <<qlen, debt>>
    BY <1>2 DEF DequeueExpired, DequeueNext, StartDequeue
  <2> QED
    BY <1>2, <2>1, <2>2, CountStays DEF DequeueExpired, DequeueNext, IInv, TypeOK
<1>3. CASE SearchNowFinds
  <2>1. UNCHANGED <<qlen, debt>>
    BY <1>3 DEF SearchNowFinds, SearchNow, sch
  <2>2. Lose((Pnodes(hnodes) \ (Pnodes(hnodes') \cup {skb'}))
                 \cup ({skb} \ {NULL}))
    BY <1>3 DEF SearchNowFinds
  <2>3. \A p \in Pkts : fate'[p] \in {"queued", "lost"} <=>
                          fate[p] \in {"queued", "lost"}
    BY <2>2, LosesCounted DEF Delayed
  <2> QED
    BY <2>1, <2>3, CountStays
<1>4. CASE SearchNowFindsNone \/ SearchNext
  <2>1. UNCHANGED <<qlen, debt>> /\ Lose(Pnodes(hnodes) \ Pnodes(hnodes'))
    BY <1>4 DEF SearchNowFindsNone, SearchNow, SearchNext, sch
  <2>2. \A p \in Pkts : fate'[p] \in {"queued", "lost"} <=>
                          fate[p] \in {"queued", "lost"}
    BY <2>1, LosesCounted DEF Delayed
  <2> QED
    BY <2>1, <2>2, CountStays
<1>5. CASE ReturnLbf
  <2>1. skb \in Pkts /\ fate[skb] = "queued"
    BY <1>5, ReturnLbfPlaces DEF LInv, Places
  <2> QED
    BY <1>5, <2>1, CountLoses DEF ReturnLbf, Return, Sends, IInv
<1>6. CASE ReturnHead \/ DiscardHead
  <2>1. Head(fifo) \in Pkts /\ Return(Head(fifo)) /\ fate[Head(fifo)] = "queued"
    BY <1>6, ReturnHeadPlaces, DequeueHeadFacts
    DEF ReturnHead, DiscardHead, LInv, Places
  <2>2. \/ fate' = [fate EXCEPT ![Head(fifo)] = "sent"]
        \/ fate' = [fate EXCEPT ![Head(fifo)] = "freed"]
    BY <1>6 DEF ReturnHead, DiscardHead, Sends
  <2> QED
    BY <2>1, <2>2, CountLoses DEF Return, IInv
<1>7. CASE Reset
  <2>1. qlen' = 0 /\ debt' = Cardinality(Counted')
    BY <1>7 DEF Reset, Counted
  <2>2. qlen' + debt' = Cardinality(Counted')
    BY <2>1, CountedFinite
  <2> QED
    BY <2>2 DEF QlenAccounts, Counted
<1>8. CASE Idles
  <2>1. UNCHANGED <<qlen, debt, fate>>
    BY <1>8 DEF Idles, DequeueNoNext, DequeueUseAfterFree, DequeueNullDeref,
         StartDequeue, ReturnNothing, Tick, WatchdogFires, Change, vars, sch,
         history
  <2> QED
    BY <2>1, CountStays
<1> QED
  BY <1>1, <1>2, <1>3, <1>4, <1>5, <1>6, <1>7, <1>8
  DEF Next, Dequeue, Idles

(***************************************************************************)
(* No packet is held twice and none is kept that was sent, freed or lost;  *)
(* and the counter that decides whether the qdisc is full accounts for     *)
(* every packet queued, modulo its width, but for those the searches lost  *)
(* and those a reset forgot.                                               *)
(***************************************************************************)
THEOREM PacketsAreAccounted == Spec => []PacketsAccounted
<1>1. Init => QlenAccounts
  <2> SUFFICES ASSUME Init PROVE QlenAccounts
    OBVIOUS
  <2>1. qlen + debt = 0 /\ Counted = {}
    BY DEF Init, Counted
  <2> QED
    BY <2>1, FS_EmptySet DEF QlenAccounts, Counted
<1>2. IInv /\ LInv /\ QlenAccounts /\ [Next]_vars /\ IInv' => QlenAccounts'
  BY NextCounts
<1>3. IInv /\ LInv => HeldOnce
  BY HoldsOnce
<1> QED
  BY <1>1, <1>2, <1>3, ListInvariant, PTL DEF Spec, PacketsAccounted

-----------------------------------------------------------------------------
(***************************************************************************)
(* The watchdog.  The pnode it was armed for is one that has arrived; as   *)
(* long as it is in the list the watchdog is armed at its release time, or *)
(* has fired for it and the run is due; and at the end of every dequeue    *)
(* the watchdog covers every delayed packet.                               *)
(***************************************************************************)
NextKnown == next_pnode # NULL => fate[next_pnode] # "fresh"

Armed ==
  fault = "none" /\ resets = 0 /\ next_pnode \in Delayed =>
    \/ timer = tmin[next_pnode]
    \/ timer = NULL /\ run /\ tmin[next_pnode] <= now

Covered ==
  fault = "none" /\ resets = 0 /\ phase \in {"idle", "return"} /\ ~run =>
    \A p \in Delayed : timer # NULL /\ timer <= tmin[p]

TimerInv == NextKnown /\ Armed /\ Covered

LEMMA SearchNextFacts ==
  ASSUME IInv, LInv, SearchNext
  PROVE  \/ /\ Delayed' = {} /\ UNCHANGED <<next_pnode, timer>>
         \/ /\ next_pnode' \in Delayed' /\ timer' = Rearm(next_pnode')
            /\ \A p \in Delayed' : tmin[next_pnode'] <= tmin[p]
<1>1. \A j \in DOMAIN hnodes :
        /\ Left(j) \in Seq(Pkts) /\ Tails(Left(j), hnodes[j].queue)
        /\ Left(j) # <<>> => Head(Left(j)) \in ToSet(Left(j))
  <2> SUFFICES ASSUME NEW j \in DOMAIN hnodes
               PROVE  /\ Left(j) \in Seq(Pkts) /\ Tails(Left(j), hnodes[j].queue)
                      /\ Left(j) # <<>> => Head(Left(j)) \in ToSet(Left(j))
    OBVIOUS
  <2>1. Left(j) \in Seq(Pkts) /\ Tails(Left(j), hnodes[j].queue)
    BY SweptQueue DEF Left
  <2> DEFINE t == Left(j)
  <2>2. t \in Seq(Pkts)
    BY <2>1
  <2> HIDE DEF t
  <2>3. t # <<>> => Head(t) \in ToSet(t)
    <3> SUFFICES ASSUME t # <<>> PROVE Head(t) \in ToSet(t)
      OBVIOUS
    <3>1. Head(t) = t[1] /\ DOMAIN t = 1..Len(t) /\ Len(t) \in Nat /\ Len(t) # 0
      BY <2>2, HeadTailProperties, EmptySeq
    <3> QED
      BY <3>1 DEF ToSet
  <2> QED
    BY <2>1, <2>3 DEF t
<1>2. Delayed' = UNION {ToSet(Left(j)) : j \in DOMAIN hnodes}
  BY DEF SearchNext, Delayed, Pnodes
<1>3. CASE /\ \A i \in DOMAIN hnodes : Left(i) = <<>>
           /\ UNCHANGED <<next_pnode, timer>>
  <2>1. ToSet(<<>>) = {}
    BY DEF ToSet
  <2> QED
    BY <1>2, <1>3, <2>1
<1>4. CASE \E i \in DOMAIN hnodes :
             /\ Earliest(i) /\ next_pnode' = Head(Left(i))
             /\ timer' = Rearm(next_pnode')
  <2>1. PICK i \in DOMAIN hnodes :
          /\ Earliest(i) /\ next_pnode' = Head(Left(i))
          /\ timer' = Rearm(next_pnode')
    BY <1>4
  <2>2. next_pnode' \in Delayed'
    BY <1>1, <1>2, <2>1 DEF Earliest
  <2>3. ASSUME NEW p \in Delayed' PROVE tmin[next_pnode'] <= tmin[p]
    <3>1. PICK j \in DOMAIN hnodes : p \in ToSet(Left(j))
      BY <1>2
    <3>2. Left(j) # <<>> /\ tmin[Head(Left(j))] <= tmin[p]
      BY <1>1, <3>1, HeadFirst
    <3>3. /\ Head(Left(i)) \in Pkts /\ Head(Left(j)) \in Pkts /\ p \in Pkts
      BY <1>1, <2>1, <3>1, <3>2, HeadTailProperties DEF Earliest, ToSet
    <3>4. /\ tmin[Head(Left(i))] \in Nat /\ tmin[Head(Left(j))] \in Nat
          /\ tmin[p] \in Nat
      BY <3>3 DEF IInv, TypeOK
    <3>5. \/ tmin[Head(Left(i))] < tmin[Head(Left(j))]
          \/ tmin[Head(Left(i))] = tmin[Head(Left(j))]
      BY <2>1, <3>2 DEF Earliest
    <3> QED
      BY <2>1, <3>2, <3>4, <3>5
  <2> QED
    BY <2>1, <2>2, <2>3
<1> QED
  BY <1>3, <1>4 DEF SearchNext

LEMMA EnqueueTimer ==
  ASSUME IInv, LInv, TimerInv, NEW p \in Pkts, Enqueue(p), IInv'
  PROVE  TimerInv'
<1>1. /\ fate[p] = "fresh" /\ run' = TRUE
      /\ UNCHANGED <<next_pnode, timer, now, resets>> /\ fault = "none"
      /\ \A q \in Pkts \ {p} : fate'[q] = fate[q]
  BY DEF Enqueue, EnqueueOverlimit, EnqueueTail, EnqueueNoHops,
         EnqueueEarlyDiscard, EnqueueLbf, EnqueueListFails, EnqueueHnodeFails,
         EnqueuePnodeFails, LbfAdmitted, LbfArrives, Admitted, Arrives, IInv,
         TypeOK
<1>2. next_pnode # p /\ next_pnode \in Pkts \cup {NULL}
  BY <1>1, PktsAssumption DEF TimerInv, NextKnown, IInv, TypeOK
<1>3. NextKnown'
  BY <1>1, <1>2 DEF TimerInv, NextKnown
<1>4. Delayed' \subseteq Delayed \cup {p} /\ \A q \in Pkts \ {p} : tmin'[q] = tmin[q]
  <2>1. CASE EnqueueLbf(p)
    BY <2>1, EnqueueLbfPlaces
  <2>2. CASE EnqueuePnodeFails(p)
    <3>1. /\ LbfArrives(p) /\ UNCHANGED <<owned, tmin, lqbudget>>
          /\ hnodes' = lbf_get_hnode(hnodes, Budget(p))
          /\ \A q \in Pkts : fate'[q] = "queued" <=> fate[q] = "queued"
      BY <1>1, <2>2 DEF EnqueuePnodeFails, LbfAdmitted, IInv, TypeOK
    <3> QED
      BY <3>1, LbfQuiet
  <2>3. CASE ~EnqueueLbf(p) /\ ~EnqueuePnodeFails(p)
    <3>1. UNCHANGED <<hnodes, tmin>>
      BY <2>3 DEF Enqueue, EnqueueOverlimit, EnqueueTail, EnqueueNoHops,
           EnqueueEarlyDiscard, EnqueueListFails, EnqueueHnodeFails, pkts
    <3> QED
      BY <3>1 DEF Delayed
  <2> QED
    BY <2>1, <2>2, <2>3
<1>5. Armed'
  <2> SUFFICES ASSUME resets' = 0, next_pnode' \in Delayed'
               PROVE  \/ timer' = tmin'[next_pnode']
                      \/ timer' = NULL /\ run' /\ tmin'[next_pnode'] <= now'
    BY DEF Armed
  <2>1. next_pnode \in Delayed
    BY <1>1, <1>2, <1>4
  <2>2. next_pnode \in Pkts
    BY <1>2, <2>1, PnodesType, PktsAssumption DEF Delayed, IInv, TypeOK
  <2>3. \/ timer = tmin[next_pnode]
        \/ timer = NULL /\ run /\ tmin[next_pnode] <= now
    BY <1>1, <2>1 DEF TimerInv, Armed
  <2> QED
    BY <1>1, <1>2, <1>4, <2>2, <2>3
<1> QED
  BY <1>1, <1>3, <1>5 DEF TimerInv, Covered

LEMMA SearchNextTimer ==
  ASSUME IInv, LInv, TimerInv, SearchNext, LInv'
  PROVE  TimerInv'
<1>1. /\ fault' = fault /\ fault = "none"
      /\ UNCHANGED <<resets, run, tmin, now>>
      /\ \A p \in Pkts : fate[p] # "fresh" => fate'[p] # "fresh"
  BY DEF SearchNext, pkts, Lose
<1>2. Delayed' \subseteq Delayed /\ Delayed \subseteq Pkts
  BY SearchNextPlaces, PnodesType DEF Delayed, IInv, TypeOK
<1>3. CASE Delayed' = {} /\ UNCHANGED <<next_pnode, timer>>
  <2>1. next_pnode \in Pkts \cup {NULL}
    BY DEF IInv, TypeOK
  <2> QED
    BY <1>1, <1>3, <2>1 DEF TimerInv, NextKnown, Armed, Covered
<1>4. CASE /\ next_pnode' \in Delayed' /\ timer' = Rearm(next_pnode')
           /\ \A p \in Delayed' : tmin[next_pnode'] <= tmin[p]
  <2>1. NextKnown'
    BY <1>2, <1>4 DEF NextKnown, LInv, Places
  <2>2. resets = 0 => \/ timer' = tmin[next_pnode']
                      \/ timer' = NULL /\ run /\ tmin[next_pnode'] <= now
    <3>1. CASE next_pnode' = next_pnode
      BY <1>1, <1>2, <1>4, <3>1 DEF Rearm, TimerInv, Armed
    <3>2. CASE next_pnode' # next_pnode
      BY <1>4, <3>2 DEF Rearm
    <3> QED
      BY <3>1, <3>2
  <2>3. tmin[next_pnode'] \in Nat
    BY <1>2, <1>4 DEF IInv, TypeOK
  <2> QED
    BY <1>1, <1>4, <2>1, <2>2, <2>3, BoundsAssumption
    DEF TimerInv, Armed, Covered
<1> QED
  BY <1>3, <1>4, SearchNextFacts

LEMMA NextTimer ==
  ASSUME IInv, LInv, TimerInv, [Next]_vars, IInv', LInv'
  PROVE  TimerInv'
<1>1. next_pnode \in Pkts \cup {NULL} /\ resets \in Nat
  BY DEF IInv, TypeOK
<1>2. CASE \E p \in Pkts : Enqueue(p)
  BY <1>2, EnqueueTimer
<1>3. CASE DequeueExpired \/ DequeueNext
  <2>1. NULL \notin Delayed'
    BY <1>3, DequeueNextPlaces, PnodesType, PktsAssumption
    DEF Delayed, IInv, TypeOK
  <2>2. next_pnode' = NULL /\ phase' = "now"
    BY <1>3 DEF DequeueExpired, DequeueNext
  <2> QED
    BY <2>1, <2>2 DEF TimerInv, NextKnown, Armed, Covered
<1>4. CASE SearchNowFinds \/ SearchNowFindsNone
  <2>1. /\ UNCHANGED <<next_pnode, timer, run, resets, now, fault, tmin>>
        /\ phase' = "next"
        /\ \A p \in Pkts : fate[p] # "fresh" => fate'[p] # "fresh"
    BY <1>4 DEF SearchNowFinds, SearchNowFindsNone, SearchNow, pkts, Lose
  <2>2. Delayed' \subseteq Delayed
    BY <1>4, SearchNowFindsPlaces, FindsNonePlaces
  <2> QED
    BY <1>1, <2>1, <2>2 DEF TimerInv, NextKnown, Armed, Covered
<1>5. CASE SearchNext
  BY <1>5, SearchNextTimer
<1>6. CASE ReturnLbf \/ ReturnHead \/ DiscardHead
  <2>1. /\ UNCHANGED <<next_pnode, timer, resets, now, fault, tmin, hnodes>>
        /\ run => run'
        /\ phase = "return" /\ phase' = "idle"
        /\ \A p \in Pkts : fate[p] # "fresh" => fate'[p] # "fresh"
    BY <1>6 DEF ReturnLbf, ReturnHead, DiscardHead, DequeueHead, Return, Sends,
                IInv, TypeOK
  <2> QED
    BY <1>1, <2>1 DEF TimerInv, NextKnown, Armed, Covered, Delayed
<1>7. CASE Reset
  <2>1. /\ next_pnode' = next_pnode /\ resets' = resets + 1
        /\ \A p \in Pkts : fate[p] # "fresh" => fate'[p] # "fresh"
    BY <1>7 DEF Reset
  <2>2. resets' # 0
    BY <1>1, <2>1
  <2> QED
    BY <1>1, <2>1, <2>2 DEF TimerInv, NextKnown, Armed, Covered
<1>8. CASE DequeueNoNext
  <2>1. /\ UNCHANGED <<next_pnode, timer, resets, now, fault, tmin, hnodes, fate>>
        /\ phase' = "now" /\ fault = "none"
        /\ next_pnode = NULL \/ tmin[next_pnode] > now
    BY <1>8 DEF DequeueNoNext, StartDequeue, pkts
  <2>2. NULL \notin Delayed
    BY PnodesType, PktsAssumption DEF Delayed, IInv, TypeOK
  <2>3. next_pnode \in Delayed /\ resets = 0 => timer = tmin[next_pnode]
    <3>1. next_pnode \in Pkts => tmin[next_pnode] \in Nat /\ now \in Nat
      BY DEF IInv, TypeOK
    <3> QED
      BY <1>1, <2>1, <2>2, <3>1 DEF TimerInv, Armed
  <2> QED
    BY <2>1, <2>3 DEF TimerInv, NextKnown, Armed, Covered, Delayed
<1>9. CASE DequeueUseAfterFree \/ DequeueNullDeref
  BY <1>9 DEF DequeueUseAfterFree, DequeueNullDeref, StartDequeue, TimerInv,
              NextKnown, Armed, Covered
<1>10. CASE Tick
  <2>1. /\ UNCHANGED <<next_pnode, timer, run, resets, phase, fault, tmin,
                       hnodes, fate>>
        /\ now' = now + 1 /\ now \in Nat
    BY <1>10 DEF Tick, sch, priv, pkts, history, IInv, TypeOK
  <2>2. next_pnode \in Pkts /\ tmin[next_pnode] <= now =>
          tmin[next_pnode] <= now + 1
    <3>1. next_pnode \in Pkts => tmin[next_pnode] \in Nat
      BY DEF IInv, TypeOK
    <3> QED
      BY <2>1, <3>1
  <2>3. Delayed' = Delayed /\ NULL \notin Delayed
    BY <2>1, PnodesType, PktsAssumption DEF Delayed, IInv, TypeOK
  <2> QED
    BY <1>1, <2>1, <2>2, <2>3 DEF TimerInv, NextKnown, Armed, Covered
<1>11. CASE WatchdogFires
  <2>1. /\ UNCHANGED <<next_pnode, resets, phase, fault, tmin, hnodes, fate, now>>
        /\ timer' = NULL /\ run' = TRUE /\ timer # NULL /\ timer <= now
    BY <1>11 DEF WatchdogFires, sch, pkts, history
  <2> QED
    BY <2>1 DEF TimerInv, NextKnown, Armed, Covered, Delayed
<1>12. CASE ReturnNothing \/ (\E l \in Limits : Change(l)) \/ UNCHANGED vars
  <2>1. /\ UNCHANGED <<next_pnode, timer, run, resets, now, fault, tmin, hnodes,
                       fate>>
        /\ phase' = phase \/ phase = "return"
    BY <1>12 DEF ReturnNothing, Change, vars, sch, priv, pkts, kernel, history
  <2> QED
    BY <2>1 DEF TimerInv, NextKnown, Armed, Covered, Delayed
<1> QED
  BY <1>2, <1>3, <1>4, <1>5, <1>6, <1>7, <1>8, <1>9, <1>10, <1>11, <1>12
  DEF Next, Dequeue

(***************************************************************************)
(* No delayed packet is forgotten: as long as the qdisc is not reset,      *)
(* whenever no run of it is due the watchdog is armed, no later than the   *)
(* earliest release of any packet it delays.                               *)
(***************************************************************************)
THEOREM WatchdogIsArmed == Spec => []WatchdogCovers
<1>1. Init => TimerInv
  <2> SUFFICES ASSUME Init PROVE TimerInv
    OBVIOUS
  <2>1. hnodes = <<>> /\ next_pnode = NULL
    BY DEF Init
  <2>2. Delayed = {}
    BY <2>1 DEF Delayed, Pnodes
  <2> QED
    BY <2>1, <2>2 DEF TimerInv, NextKnown, Armed, Covered
<1>2. IInv /\ LInv /\ TimerInv /\ [Next]_vars /\ IInv' /\ LInv' => TimerInv'
  BY NextTimer
<1>3. TimerInv => WatchdogCovers
  BY DEF TimerInv, Covered, WatchdogCovers
<1> QED
  BY <1>1, <1>2, <1>3, ListInvariant, PTL DEF Spec

-----------------------------------------------------------------------------
(***************************************************************************)
(* The qdisc implements LbfPromise.  The mapping gives each packet a state *)
(* of the promise; what a step does to the states decides which step of    *)
(* the promise it is.                                                      *)
(***************************************************************************)
States == [p \in Pkts |-> PromisedState(p)]

Ranks == [p \in Pkts |-> RangeStart(lqbudget[p])]

LEMMA StatesOf ==
  ASSUME IInv, LInv
  PROVE  /\ Promise!In("waiting") = Delayed
         /\ \A p \in Pkts : States[p] = "hand" <=> p = skb
         /\ \A p \in Pkts : p \in Promise!Expired <=> p \in Delayed \cap Expired
<1>1. Delayed \subseteq Pkts
  BY PnodesType DEF Delayed, IInv, TypeOK
<1>2. \A p \in Pkts : States[p] = "waiting" <=> p \in Delayed
  BY DEF States, PromisedState, LInv, HandApart
<1>3. Promise!In("waiting") = Delayed
  BY <1>1, <1>2 DEF Promise!In, States
<1>4. \A p \in Pkts : States[p] = "hand" <=> p = skb
  BY DEF States, PromisedState
<1> QED
  BY <1>1, <1>3, <1>4 DEF Promise!Expired, Expired

LEMMA InitPromise == Init => Promise!Init
<1> SUFFICES ASSUME Init PROVE Promise!Init
  OBVIOUS
<1>1. /\ skb = NULL /\ hnodes = <<>> /\ \A p \in Pkts : fate[p] = "fresh"
      /\ hops_left = 0 /\ now = 0
  BY DEF Init
<1>2. Delayed = {}
  BY <1>1 DEF Delayed, Pnodes
<1>3. \A p \in Pkts : PromisedState(p) = "new"
  BY <1>1, <1>2, PktsAssumption DEF PromisedState
<1>4. TypeOK
  BY InitIInv DEF IInv
<1>5. Ranks \in [Pkts -> Nat]
  BY <1>4, RangeStartType, U16Type DEF Ranks, TypeOK
<1> QED
  BY <1>1, <1>3, <1>4, <1>5 DEF Promise!Init, Ranks, TypeOK

LEMMA AdmitKept ==
  ASSUME IInv, LInv, NEW p \in Pkts, EnqueueLbf(p), IInv', LInv'
  PROVE  Promise!Admit(p)
<1>1. /\ skb' = skb /\ now' = now /\ fate[p] = "fresh"
      /\ \A q \in Pkts \ {p} : fate'[q] = fate[q]
      /\ \A q \in Pkts : header'[q].kind = header[q].kind
  BY LbfArrivesStep
  DEF EnqueueLbf, LbfAdmitted, LbfArrives, Admitted, Arrives, IInv, TypeOK
<1>2. /\ Delayed' = Delayed \cup {p}
      /\ \A q \in Pkts \ {p} : tmin'[q] = tmin[q]
      /\ tmin'[p] >= now
      /\ \A q \in Pkts \ {p} : tmax'[q] = tmax[q] /\ lqbudget'[q] = lqbudget[q]
  BY EnqueueLbfPlaces
<1>3. p # skb /\ p \notin Delayed
  BY <1>1, FreshNowhere
<1>4. States[p] = "new"
  BY <1>1, <1>3 DEF States, PromisedState
<1>5. States' = [States EXCEPT ![p] = "waiting"]
  <2>1. \A q \in Pkts : PromisedState(q)' =
                          IF q = p THEN "waiting" ELSE PromisedState(q)
    BY <1>1, <1>2, <1>3 DEF PromisedState
  <2> QED
    BY <2>1 DEF States
<1>6. \A q \in Pkts \ {p} : Ranks'[q] = Ranks[q]
  BY <1>2 DEF Ranks
<1> QED
  BY <1>1, <1>2, <1>4, <1>5, <1>6 DEF Promise!Admit, States, Ranks

LEMMA TurnKept ==
  ASSUME IInv, LInv, NEW p \in Pkts, Enqueue(p), ~EnqueueLbf(p), IInv', LInv'
  PROVE  \E X \in SUBSET Pkts : Promise!Turn(X)
<1>1. /\ UNCHANGED <<skb, now, tmin, tmax, lqbudget>> /\ fate[p] = "fresh"
      /\ \A q \in Pkts \ {p} : fate'[q] = fate[q]
  BY DEF Enqueue, EnqueueOverlimit, EnqueueTail, EnqueueNoHops,
         EnqueueEarlyDiscard, EnqueueListFails, EnqueueHnodeFails,
         EnqueuePnodeFails, LbfAdmitted, LbfArrives, Admitted, Arrives, pkts,
         IInv, TypeOK
<1>2. \A q \in Pkts : header'[q].kind = header[q].kind
  <2>1. CASE LbfArrives(p)
    BY <2>1, LbfArrivesStep
  <2>2. CASE ~LbfArrives(p)
    BY <2>2 DEF Enqueue, EnqueueOverlimit, EnqueueTail, EnqueueNoHops,
         EnqueueEarlyDiscard, EnqueueListFails, EnqueueHnodeFails,
         EnqueuePnodeFails, LbfAdmitted, pkts
  <2> QED
    BY <2>1, <2>2
<1>3. Delayed' = Delayed
  <2>1. CASE EnqueuePnodeFails(p)
    <3>1. /\ LbfArrives(p) /\ UNCHANGED <<owned, tmin, lqbudget>>
          /\ hnodes' = lbf_get_hnode(hnodes, Budget(p))
          /\ \A q \in Pkts : fate'[q] = "queued" <=> fate[q] = "queued"
      BY <1>1, <2>1 DEF EnqueuePnodeFails, LbfAdmitted, IInv, TypeOK
    <3> QED
      BY <3>1, LbfQuiet
  <2>2. CASE ~EnqueuePnodeFails(p)
    BY <2>2 DEF Delayed, Enqueue, EnqueueOverlimit, EnqueueTail, EnqueueNoHops,
                EnqueueEarlyDiscard, EnqueueListFails, EnqueueHnodeFails
  <2> QED
    BY <2>1, <2>2
<1>4. p # skb /\ p \notin Delayed
  BY <1>1, FreshNowhere
<1>5. States[p] = "new"
  BY <1>1, <1>4 DEF States, PromisedState
<1> DEFINE X == IF PromisedState(p)' = "lost" THEN {p} ELSE {}
<1>6. States' = [q \in Pkts |-> IF q \in X THEN "lost" ELSE States[q]]
  <2>1. PromisedState(p)' \in {"new", "lost"}
    <3>1. fate'[p] # "sent"
      BY <1>1 DEF Enqueue, EnqueueOverlimit, EnqueueTail, EnqueueNoHops,
         EnqueueEarlyDiscard, EnqueueListFails, EnqueueHnodeFails,
         EnqueuePnodeFails, IInv, TypeOK
    <3> QED
      BY <1>1, <1>3, <1>4, <3>1 DEF PromisedState
  <2>2. \A q \in Pkts \ {p} : PromisedState(q)' = PromisedState(q)
    BY <1>1, <1>2, <1>3 DEF PromisedState
  <2>3. \A q \in Pkts : PromisedState(q)' =
                          IF q \in X THEN "lost" ELSE States[q]
    BY <1>5, <2>1, <2>2 DEF States
  <2> QED
    BY <2>3 DEF States
<1>7. X \in SUBSET Pkts /\ X \subseteq Promise!In("new")
  BY <1>5 DEF Promise!In, States
<1> HIDE DEF X
<1>8. Promise!Turn(X)
  BY <1>1, <1>6, <1>7 DEF Promise!Turn, States
<1> QED
  BY <1>7, <1>8

(* Packets that leave the list without being taken are given up.           *)
LEMMA GivesUp ==
  ASSUME IInv, LInv, UNCHANGED <<tmin, tmax, lqbudget, hops_left, now, skb>>,
         \A p \in Pkts : header'[p].kind = header[p].kind,
         Delayed' \subseteq Delayed, Delayed \ Delayed' \subseteq Expired,
         \A p \in Pkts : fate'[p] = IF p \in Delayed \ Delayed' THEN "lost"
                                    ELSE fate[p]
  PROVE  \E X \in SUBSET Pkts : Promise!GiveUp(X)
<1> DEFINE X == Delayed \ Delayed'
<1>1. X \subseteq Pkts
  BY PnodesType DEF Delayed, IInv, TypeOK
<1>2. X \subseteq Promise!Expired
  BY <1>1, StatesOf
<1>3. States' = [p \in Pkts |-> IF p \in X THEN "lost" ELSE States[p]]
  <2>1. \A p \in Pkts : PromisedState(p)' =
                          IF p \in X THEN "lost" ELSE PromisedState(p)
    BY DEF PromisedState, LInv, LbfKinds, HandApart
  <2> QED
    BY <2>1 DEF States
<1> HIDE DEF X
<1>4. Promise!GiveUp(X)
  BY <1>2, <1>3 DEF Promise!GiveUp, States
<1> QED
  BY <1>1, <1>4

LEMMA TakeKept ==
  ASSUME IInv, LInv, DequeueNext
  PROVE  \E p \in Pkts : Promise!Take(p)
<1>1. /\ next_pnode \in Pkts /\ next_pnode \in Delayed /\ skb = NULL
      /\ Delayed' = Delayed \ {next_pnode}
  BY DequeueNextPlaces
<1>2. /\ tmin[next_pnode] <= now /\ next_pnode \notin Expired
      /\ skb' = next_pnode
      /\ UNCHANGED <<fate, header, tmin, tmax, lqbudget, hops_left, now>>
  BY DEF DequeueNext, StartDequeue, pkts
<1>3. Promise!In("hand") = {}
  BY <1>1, StatesOf, PktsAssumption DEF Promise!In, States
<1>4. States[next_pnode] = "waiting"
  BY <1>1, PktsAssumption DEF States, PromisedState
<1>5. next_pnode \notin Promise!Expired
  BY <1>1, <1>2, StatesOf
<1>6. States' = [States EXCEPT ![next_pnode] = "hand"]
  <2>1. \A p \in Pkts : PromisedState(p)' =
                          IF p = next_pnode THEN "hand" ELSE PromisedState(p)
    BY <1>1, <1>2, PktsAssumption DEF PromisedState
  <2> QED
    BY <2>1 DEF States
<1>7. Promise!Take(next_pnode)
  BY <1>2, <1>3, <1>4, <1>5, <1>6 DEF Promise!Take, States
<1> QED
  BY <1>1, <1>7

LEMMA TakeMostUrgentKept ==
  ASSUME IInv, LInv, SearchNowFinds
  PROVE  \E p \in Pkts, X \in SUBSET Pkts : Promise!TakeMostUrgent(p, X)
<1> DEFINE X == Delayed \ (Delayed' \cup {skb'})
<1>1. /\ LInv' /\ Delayed' \subseteq Delayed
      /\ skb' \in Delayed \ Delayed' /\ skb' \in Pkts /\ skb' # skb
      /\ skb' \notin Expired /\ tmin[skb'] <= now
      /\ X \subseteq Expired /\ Lose(X \cup ({skb} \ {NULL}))
      /\ \A p \in Delayed \ Expired : tmin[p] <= now =>
           RangeStart(lqbudget[skb']) <= RangeStart(lqbudget[p])
  BY SearchNowFindsPlaces
<1>2. UNCHANGED <<header, tmin, tmax, lqbudget, hops_left, now>>
  BY DEF SearchNowFinds, SearchNow, pkts
<1>3. Delayed \subseteq Pkts
  BY PnodesType DEF Delayed, IInv, TypeOK
<1>4. X \subseteq Pkts /\ X \subseteq Promise!Expired
  BY <1>1, <1>3, StatesOf
<1>5. States[skb'] = "waiting" /\ skb' \notin Promise!Expired
  BY <1>1, StatesOf DEF States, PromisedState
<1>6. \A q \in Promise!In("waiting") \ Promise!Expired :
        tmin[q] <= now => Ranks[skb'] <= Ranks[q]
  BY <1>1, <1>3, StatesOf DEF Ranks
<1>7. States' = [q \in Pkts |-> IF q = skb' THEN "hand"
                                ELSE IF q \in X \cup Promise!In("hand") THEN "lost"
                                ELSE States[q]]
  <2>1. \A q \in Pkts : q \in Promise!In("hand") <=> q = skb
    BY StatesOf DEF Promise!In, States
  <2>2. \A q \in Pkts : PromisedState(q)' =
          IF q = skb' THEN "hand" ELSE IF q \in X \/ q = skb THEN "lost"
          ELSE PromisedState(q)
    BY <1>1, <1>2, PktsAssumption
    DEF PromisedState, Lose, LInv, LbfKinds, HandApart
  <2> HIDE DEF X
  <2> QED
    BY <2>1, <2>2 DEF States
<1> HIDE DEF X
<1>8. Promise!TakeMostUrgent(skb', X)
  BY <1>1, <1>2, <1>4, <1>5, <1>6, <1>7 DEF Promise!TakeMostUrgent, States, Ranks
<1> QED
  BY <1>1, <1>4, <1>8

LEMMA SendKept ==
  ASSUME IInv, LInv, ReturnLbf
  PROVE  \E p \in Pkts : Promise!Send(p)
<1>1. /\ skb \in Pkts /\ header[skb].kind = "lbf" /\ Delayed' = Delayed
  BY ReturnLbfPlaces
<1>2. /\ skb' = NULL /\ UNCHANGED <<tmin, tmax, lqbudget, hops_left, now>>
      /\ \A p \in Pkts : fate'[p] = IF p = skb THEN "sent" ELSE fate[p]
      /\ \A p \in Pkts : header'[p].kind = header[p].kind
  BY <1>1 DEF ReturnLbf, Return, Sends, IInv, TypeOK, Header
<1>3. States[skb] = "hand"
  BY <1>1 DEF States, PromisedState
<1>4. States' = [States EXCEPT ![skb] = "sent"]
  <2>1. \A p \in Pkts : PromisedState(p)' =
                          IF p = skb THEN "sent" ELSE PromisedState(p)
    BY <1>1, <1>2, PktsAssumption DEF PromisedState, LInv, HandApart
  <2> QED
    BY <2>1 DEF States
<1>5. Promise!Send(skb)
  BY <1>2, <1>3, <1>4 DEF Promise!Send, States
<1> QED
  BY <1>1, <1>5

(* Steps that leave every packet in its state.                             *)
LEMMA PromiseStutters ==
  ASSUME UNCHANGED <<tmin, tmax, lqbudget, hops_left, skb>>,
         Delayed' = Delayed,
         \A p \in Pkts : header'[p].kind = header[p].kind,
         \A p \in Pkts : header[p].kind = "lbf" => fate'[p] = fate[p]
  PROVE  /\ States' = States /\ Ranks' = Ranks
         /\ now' = now => UNCHANGED Promise!vars
         /\ now' > now => Promise!Pass
<1>1. \A p \in Pkts : PromisedState(p)' = PromisedState(p)
  BY DEF PromisedState
<1>2. States' = States /\ Ranks' = Ranks
  BY <1>1 DEF States, Ranks
<1> QED
  BY <1>2 DEF Promise!vars, Promise!Pass, States, Ranks

LEMMA NextKept ==
  ASSUME IInv, LInv, [Next]_vars, IInv', LInv'
  PROVE  [Promise!Next]_(Promise!vars)
<1>1. ASSUME NEW p \in Pkts, Enqueue(p) PROVE Promise!Next
  <2>1. CASE EnqueueLbf(p)
    BY <2>1, AdmitKept DEF Promise!Next
  <2>2. CASE ~EnqueueLbf(p)
    BY <1>1, <2>2, TurnKept DEF Promise!Next
  <2> QED
    BY <2>1, <2>2
<1>2. CASE DequeueExpired
  <2>1. /\ UNCHANGED <<tmin, tmax, lqbudget, hops_left, now, skb, header>>
        /\ fate' = [fate EXCEPT ![next_pnode] = "lost"] /\ next_pnode \in Expired
    BY <1>2 DEF DequeueExpired, StartDequeue, pkts
  <2>2. /\ next_pnode \in Pkts /\ next_pnode \in Delayed
        /\ Delayed' = Delayed \ {next_pnode}
    BY <1>2, DequeueNextPlaces
  <2>3. \A p \in Pkts : fate'[p] = IF p \in Delayed \ Delayed' THEN "lost"
                                   ELSE fate[p]
    BY <2>1, <2>2 DEF IInv, TypeOK
  <2> QED
    BY <2>1, <2>2, <2>3, GivesUp DEF Promise!Next
<1>3. CASE DequeueNext
  BY <1>3, TakeKept DEF Promise!Next
<1>4. CASE SearchNowFinds
  BY <1>4, TakeMostUrgentKept DEF Promise!Next
<1>5. CASE SearchNowFindsNone \/ SearchNext
  <2>1. /\ UNCHANGED <<tmin, tmax, lqbudget, hops_left, now, skb, header>>
        /\ Lose(Delayed \ Delayed')
    BY <1>5 DEF SearchNowFindsNone, SearchNow, SearchNext, pkts, Delayed
  <2>2. Delayed' \subseteq Delayed /\ Delayed \ Delayed' \subseteq Expired
    BY <1>5, FindsNonePlaces, SearchNextPlaces
  <2>3. \A p \in Pkts : fate'[p] = IF p \in Delayed \ Delayed' THEN "lost"
                                   ELSE fate[p]
    BY <2>1 DEF Lose
  <2> QED
    BY <2>1, <2>2, <2>3, GivesUp DEF Promise!Next
<1>6. CASE ReturnLbf
  BY <1>6, SendKept DEF Promise!Next
<1>7. CASE ReturnHead \/ DiscardHead
  <2>1. /\ Head(fifo) \in Pkts /\ Return(Head(fifo)) /\ skb' = NULL
        /\ header[Head(fifo)].kind # "lbf"
    BY <1>7, DequeueHeadFacts DEF ReturnHead, DiscardHead
  <2>2. skb = NULL /\ Delayed' = Delayed
    BY <1>7, ReturnHeadPlaces
  <2>3. \A p \in Pkts : header'[p].kind = header[p].kind
    BY <1>7, ReturnHeadPlaces
  <2>4. \A p \in Pkts : header[p].kind = "lbf" => fate'[p] = fate[p]
    BY <1>7, <2>1 DEF ReturnHead, DiscardHead, Sends, IInv, TypeOK
  <2> QED
    BY <2>1, <2>2, <2>3, <2>4, PromiseStutters DEF Return
<1>8. CASE Reset
  <2>1. /\ UNCHANGED <<tmin, tmax, lqbudget, hops_left, skb, header, now, hnodes>>
        /\ \A p \in Pkts : p \notin ToSet(fifo) => fate'[p] = fate[p]
    BY <1>8 DEF Reset, pkts
  <2>2. \A p \in Pkts : header[p].kind = "lbf" => p \notin ToSet(fifo)
    BY DEF IInv, FifoKinds, ToSet
  <2> QED
    BY <2>1, <2>2, PromiseStutters DEF Delayed
<1>9. CASE Idles
  <2>1. /\ UNCHANGED <<hnodes, skb, fate, header, tmin, tmax, lqbudget, hops_left>>
        /\ now' = now \/ now' = now + 1
    BY <1>9 DEF Idles, DequeueNoNext, DequeueUseAfterFree, DequeueNullDeref,
         StartDequeue, ReturnNothing, Tick, WatchdogFires, Change, vars, sch,
         priv, pkts, kernel, history
  <2>2. now \in Nat
    BY DEF IInv, TypeOK
  <2>3. now' = now \/ now' > now
    BY <2>1, <2>2
  <2> QED
    BY <2>1, <2>3, PromiseStutters DEF Delayed, Promise!Next
<1> QED
  BY <1>1, <1>2, <1>3, <1>4, <1>5, <1>6, <1>7, <1>8, <1>9
  DEF Next, Dequeue, Idles

(***************************************************************************)
(* The two-level list, swept in three passes at three instants, keeps the  *)
(* promise of LbfPromise: one packet at a time is taken, when it is due,   *)
(* the most urgent first among those the search sees, and only expired or  *)
(* displaced ones are lost.                                                *)
(***************************************************************************)
THEOREM PromiseIsKept == Spec => PromiseKept
<1>1. Init => Promise!Init
  BY InitPromise
<1>2. IInv /\ LInv /\ [Next]_vars /\ IInv' /\ LInv' => [Promise!Next]_(Promise!vars)
  BY NextKept
<1> QED
  BY <1>1, <1>2, ListInvariant, PTL DEF Spec, PromiseKept, Promise!Spec
=============================================================================
