------------------------------ MODULE LbfQdisc ------------------------------
(***************************************************************************)
(* The LBF queueing discipline (sch_lbf.c) on one egress device, with the  *)
(* parts of the kernel that drive it.                                      *)
(*                                                                         *)
(* Steps.  The qdisc root lock makes an enqueue one step with respect to   *)
(* dequeues.  A dequeue also holds that lock, but it reads the clock four  *)
(* times - in lbf_dequeue, search_now_pnode, search_next_pnode and when    *)
(* the delay is measured - and time passes in between, so it is four       *)
(* steps, and only the clock and the watchdog move between them.           *)
(*                                                                         *)
(* Time.  The clock counts instants, TenthMs of them in 10^-4 s.           *)
(*                                                                         *)
(* Faults.  The code can follow a NULL pnode->hnode and a next_pnode that  *)
(* has been freed.  Both halt the model (fault); nothing is claimed about  *)
(* what the kernel does afterwards.                                        *)
(***************************************************************************)
EXTENDS LbfDelay, FiniteSets

CONSTANTS
  Pkts,         \* packets that may arrive
  Contracts,    \* contracts they may carry
  Limits,       \* values tc may give the limit
  TenthMs,      \* clock instants in 10^-4 s
  QlenMod,      \* values of the __u32 sch->q.qlen
  AllocMayFail, \* whether kcalloc may fail
  MaxTime,      \* bound of the clock
  MaxArrival,   \* bound: the last instant at which a packet arrives
  MaxResets,    \* bound on resets of the qdisc
  NULL          \* no packet, no pnode, no timer

(* The contract a packet carries.  For "lbf" the fields are those of       *)
(* struct latency_based_forwarding; for "mdf" max is max_allowed_delay and *)
(* exp is delay_exp; "none" is any packet without one of these contracts.  *)
Header == [kind : {"none", "mdf", "lbf"}, min : 0..U16-1, max : 0..U16-1,
           todelay : 0..U16-1, exp : 0..U16-1, tohops : 0..U16-1]

ASSUME PktsAssumption == IsFiniteSet(Pkts) /\ NULL \notin Pkts

ASSUME ContractsAssumption == Contracts \subseteq Header

ASSUME TenthMsAssumption == TenthMs \in Nat \ {0}

ASSUME QlenModAssumption == QlenMod \in Nat \ {0}

ASSUME LimitsAssumption == Limits \subseteq 0..QlenMod-1

ASSUME BoundsAssumption ==
  MaxTime \in Nat /\ MaxArrival \in Nat /\ MaxResets \in Nat /\ NULL \notin Nat

ASSUME AllocMayFailAssumption == AllocMayFail \in BOOLEAN

VARIABLES
  \* struct Qdisc
  limit, qlen, drops,
  fifo,           \* sch->q, the packets without an LBF contract
  \* struct lbf_sched_data
  hnode_list,     \* whether q->hnode_list has been allocated
  hnodes,         \* the list of hnodes, each with its queue of pnodes
  owned,          \* the pnodes whose hnode pointer is set
  next_pnode, hops_left, delay, overlimit,
  timer,          \* expiry of the watchdog, NULL when it is not armed
  \* the packets and their pnodes
  header, enqueue_time, tmin, tmax, lqbudget,
  \* the kernel around the qdisc
  now, run,       \* run: a call of lbf_dequeue is due
  phase, skb,     \* progress and result of the dequeue in flight
  fault,          \* how the kernel has crashed, if it has
  \* history, for the properties
  fate,           \* what became of each packet
  debt,           \* packets a reset took out of qlen but left in the qdisc
  resets,
  waited          \* clock instants the packet last dequeued was in the qdisc

sch == <<limit, qlen, drops, fifo>>
priv == <<hnode_list, hnodes, owned, next_pnode, hops_left, delay, overlimit,
          timer>>
pkts == <<header, enqueue_time, tmin, tmax, lqbudget>>
kernel == <<now, run, phase, skb, fault>>
history == <<fate, debt, resets, waited>>
vars == <<sch, priv, pkts, kernel, history>>

(* "fresh" has not arrived; "queued" is in the fifo or has a pnode;        *)
(* "sent" was handed to the driver; "freed" was freed; "leaked" was        *)
(* refused by an enqueue that did not free it; "lost" is neither queued    *)
(* nor freed, but qlen still counts it.                                    *)
Fates == {"fresh", "queued", "sent", "freed", "leaked", "lost"}

TypeOK ==
  /\ limit \in 0..QlenMod-1 /\ qlen \in 0..QlenMod-1 /\ drops \in Nat
  /\ fifo \in Seq(Pkts)
  /\ hnode_list \in BOOLEAN
  /\ hnodes \in Seq(Hnode(Pkts))
  /\ owned \subseteq Pkts
  /\ next_pnode \in Pkts \cup {NULL}
  /\ hops_left \in 0..U16-1
  /\ delay \in Nat /\ overlimit \in Nat
  /\ timer \in Nat \cup {NULL}
  /\ header \in [Pkts -> Header]
  /\ enqueue_time \in [Pkts -> Nat]
  /\ tmin \in [Pkts -> Nat] /\ tmax \in [Pkts -> Nat]
  /\ lqbudget \in [Pkts -> 0..U16-1]
  /\ now \in Nat /\ run \in BOOLEAN
  /\ phase \in {"idle", "now", "next", "return"}
  /\ skb \in Pkts \cup {NULL}
  /\ fault \in {"none", "null_deref", "use_after_free"}
  /\ fate \in [Pkts -> Fates]
  /\ debt \in Nat /\ resets \in Nat /\ waited \in Nat

(***************************************************************************)
(* lbf_init, with the default or a configured limit.                       *)
(***************************************************************************)
Init ==
  /\ limit \in Limits /\ qlen = 0 /\ drops = 0 /\ fifo = <<>>
  /\ hnode_list = FALSE /\ hnodes = <<>> /\ owned = {}
  /\ next_pnode = NULL /\ hops_left = 0 /\ delay = 0 /\ overlimit = 0
  /\ timer = NULL
  /\ header \in [Pkts -> Contracts]
  /\ enqueue_time = [p \in Pkts |-> 0]
  /\ tmin = [p \in Pkts |-> 0] /\ tmax = [p \in Pkts |-> 0]
  /\ lqbudget = [p \in Pkts |-> 0]
  /\ now = 0 /\ run = FALSE /\ phase = "idle" /\ skb = NULL /\ fault = "none"
  /\ fate = [p \in Pkts |-> "fresh"]
  /\ debt = 0 /\ resets = 0 /\ waited = 0

-----------------------------------------------------------------------------
(***************************************************************************)
(* lbf_enqueue.  The kernel runs the qdisc after every enqueue, whatever   *)
(* the enqueue returned.                                                   *)
(***************************************************************************)
Arrives(p) ==
  /\ fault = "none" /\ phase = "idle" /\ fate[p] = "fresh"
  /\ now <= MaxArrival
  /\ run' = TRUE
  /\ UNCHANGED <<limit, now, phase, skb, timer, next_pnode, delay,
                 debt, resets, waited>>

(* sch->q.qlen++ and sch->q.qlen--, in its 32 bits. *)
QlenInc == (qlen + 1) % QlenMod

(* Mutant: the decrement is forgotten. *)
QlenKept == qlen

QlenDec == (qlen + QlenMod - 1) % QlenMod

EnqueueOverlimit(p) ==
  /\ Arrives(p) /\ qlen >= limit
  /\ overlimit' = overlimit + 1
  /\ drops' = drops + 1
  /\ fate' = [fate EXCEPT ![p] = "freed"]
  /\ UNCHANGED <<qlen, fifo, hnode_list, hnodes, owned, hops_left, pkts, fault>>

Admitted(p) ==
  /\ Arrives(p) /\ qlen < limit
  /\ enqueue_time' = [enqueue_time EXCEPT ![p] = now]
  /\ UNCHANGED overlimit

(* qdisc_enqueue_tail: everything but LBF goes to the fifo. *)
EnqueueTail(p) ==
  /\ Admitted(p) /\ header[p].kind # "lbf"
  /\ fifo' = Append(fifo, p)
  /\ qlen' = QlenInc
  /\ fate' = [fate EXCEPT ![p] = "queued"]
  /\ UNCHANGED <<drops, hnode_list, hnodes, owned, hops_left, header, tmin,
                 tmax, lqbudget, fault>>

EnqueueNoHops(p) ==
  /\ Admitted(p) /\ header[p].kind = "lbf" /\ header[p].tohops = 0
  /\ drops' = drops + 1
  /\ fate' = [fate EXCEPT ![p] = "freed"]
  /\ UNCHANGED <<qlen, fifo, hnode_list, hnodes, owned, hops_left, header, tmin,
                 tmax, lqbudget, fault>>

(* An LBF packet with hops left: fib_tohops is decremented in the packet,  *)
(* and the qdisc remembers that value for every packet it holds.           *)
LbfArrives(p) ==
  /\ Admitted(p) /\ header[p].kind = "lbf" /\ header[p].tohops # 0
  /\ header' = [header EXCEPT ![p].tohops = DecHops(@)]
  /\ hops_left' = DecHops(header[p].tohops)
  /\ UNCHANGED fifo

EnqueueEarlyDiscard(p) ==
  /\ LbfArrives(p) /\ EarlyDiscard(header[p], header[p].exp)
  /\ drops' = drops + 1
  /\ fate' = [fate EXCEPT ![p] = "leaked"]
  /\ UNCHANGED <<qlen, hnode_list, hnodes, owned, tmin, tmax, lqbudget, fault>>

LbfAdmitted(p) ==
  /\ LbfArrives(p) /\ ~EarlyDiscard(header[p], header[p].exp)
  /\ UNCHANGED drops

Budget(p) == LqBudget(header[p], header[p].exp, header[p].tohops)

(* The pnode enters the queue of its hnode; if it becomes the head it      *)
(* takes the hnode pointer from the head before it.                        *)
EnqueueLbf(p) ==
  LET hs == lbf_get_hnode(hnodes, Budget(p))
      i == Stop(hnodes, Budget(p))
      queue == pnode_queue_add(hs[i].queue, p, tmin')
  IN  /\ LbfAdmitted(p)
      /\ tmin' = [tmin EXCEPT ![p] =
           now + LqMin(header[p], header[p].exp, header[p].tohops) * TenthMs]
      /\ tmax' = [tmax EXCEPT ![p] =
           now + LqMax(header[p], header[p].exp, header[p].tohops) * TenthMs]
      /\ lqbudget' = [lqbudget EXCEPT ![p] = Budget(p)]
      /\ hnode_list' = TRUE
      /\ hnodes' = [hs EXCEPT ![i].queue = queue]
      /\ owned' =
           IF Head(queue) = p
             THEN (owned \ HeadOf(hs[i].queue)) \cup {p}
             ELSE owned
      /\ qlen' = QlenInc
      /\ fate' = [fate EXCEPT ![p] = "queued"]
      /\ UNCHANGED fault

(***************************************************************************)
(* The three allocations of an LBF enqueue.  The list head is used without *)
(* a test; without an hnode the enqueue gives up, keeping the packet; the  *)
(* failure to get a pnode is not reported, and the packet is counted.      *)
(***************************************************************************)
EnqueueListFails(p) ==
  /\ AllocMayFail /\ LbfAdmitted(p) /\ ~hnode_list
  /\ fault' = "null_deref"
  /\ UNCHANGED <<qlen, hnode_list, hnodes, owned, tmin, tmax, lqbudget, fate>>

EnqueueHnodeFails(p) ==
  /\ AllocMayFail /\ LbfAdmitted(p) /\ ~HasHnode(hnodes, Budget(p))
  /\ hnode_list' = TRUE
  /\ fate' = [fate EXCEPT ![p] = "leaked"]
  /\ UNCHANGED <<qlen, hnodes, owned, tmin, tmax, lqbudget, fault>>

EnqueuePnodeFails(p) ==
  /\ AllocMayFail /\ LbfAdmitted(p)
  /\ hnode_list' = TRUE
  /\ hnodes' = lbf_get_hnode(hnodes, Budget(p))
  /\ qlen' = QlenInc
  /\ fate' = [fate EXCEPT ![p] = "lost"]
  /\ UNCHANGED <<owned, tmin, tmax, lqbudget, fault>>

Enqueue(p) ==
  \/ EnqueueOverlimit(p) \/ EnqueueTail(p) \/ EnqueueNoHops(p)
  \/ EnqueueEarlyDiscard(p) \/ EnqueueLbf(p)
  \/ EnqueueListFails(p) \/ EnqueueHnodeFails(p) \/ EnqueuePnodeFails(p)

-----------------------------------------------------------------------------
(***************************************************************************)
(* lbf_dequeue, first step: the pnode the watchdog was armed for.          *)
(***************************************************************************)

Expired == IF hops_left = 0 THEN {p \in Pkts : tmax[p] < now} ELSE {}

(* remove_pnode hands the hnode pointer of a removed head to its successor. *)
(* Mutant: the successor of a removed head gets no hnode pointer. *)
NotRepointed(hs, new) == owned \cap Pnodes(new)

Repointed(hs, new) ==
  (owned \cap Pnodes(new)) \cup
    UNION {HeadOf(new[i].queue) :
             i \in {j \in DOMAIN new : new[j].queue # hs[j].queue}}

StartDequeue ==
  /\ fault = "none" /\ phase = "idle" /\ run
  /\ run' = FALSE
  /\ UNCHANGED <<limit, qlen, fifo, hnode_list, hops_left, delay, overlimit,
                 timer, pkts, now, debt, resets, waited>>

DequeueNoNext ==
  /\ StartDequeue
  /\ \/ next_pnode = NULL
     \/ /\ next_pnode \in Pnodes(hnodes)
        /\ next_pnode \notin Expired /\ tmin[next_pnode] > now
  /\ phase' = "now"
  /\ UNCHANGED <<drops, hnodes, owned, next_pnode, skb, fault, fate>>

DequeueExpired ==
  /\ StartDequeue
  /\ next_pnode \in Pnodes(hnodes) \cap owned \cap Expired
  /\ drops' = drops + 1
  /\ fate' = [fate EXCEPT ![next_pnode] = "lost"]
  /\ hnodes' = PopHead(hnodes, next_pnode)
  /\ owned' = Repointed(hnodes, hnodes')
  /\ next_pnode' = NULL
  /\ phase' = "now"
  /\ UNCHANGED <<skb, fault>>

DequeueNext ==
  /\ StartDequeue
  /\ next_pnode \in (Pnodes(hnodes) \cap owned) \ Expired
  /\ tmin[next_pnode] <= now
  /\ skb' = next_pnode
  /\ hnodes' = PopHead(hnodes, next_pnode)
  /\ owned' = Repointed(hnodes, hnodes')
  /\ next_pnode' = NULL
  /\ phase' = "now"
  /\ UNCHANGED <<drops, fault, fate>>

(* next_pnode has been freed by a search that found nothing to replace it. *)
DequeueUseAfterFree ==
  /\ StartDequeue
  /\ next_pnode # NULL /\ next_pnode \notin Pnodes(hnodes)
  /\ fault' = "use_after_free"
  /\ UNCHANGED <<drops, hnodes, owned, next_pnode, skb, phase, fate>>

(* next_pnode is due or expired, but a pnode with a smaller tmin has taken *)
(* its place at the head of the queue, and its hnode pointer.              *)
DequeueNullDeref ==
  /\ StartDequeue
  /\ next_pnode \in Pnodes(hnodes) \ owned
  /\ next_pnode \in Expired \/ tmin[next_pnode] <= now
  /\ fault' = "null_deref"
  /\ UNCHANGED <<drops, hnodes, owned, next_pnode, skb, phase, fate>>

(***************************************************************************)
(* search_now_pnode: hnode by hnode, drop the pnodes at the head that are  *)
(* due and expired, and stop at the first head that is due and not         *)
(* expired; lbf_dequeue takes its packet in place of any it already has.   *)
(* (The pnodes removed here are heads: their hnode pointer is set.)        *)
(***************************************************************************)
(* Mutant: whatever is due is dropped, expired or not. *)
OverdueWhenDue == {p \in Pkts : tmin[p] <= now}

Overdue == {p \in Expired : tmin[p] <= now}

Rest(i) == Sweep(hnodes[i].queue, Overdue)

(* Mutant: the earliest release time is not looked at. *)
ReadyAnyTime(i) == Rest(i) # <<>>

Ready(i) == Rest(i) # <<>> /\ tmin[Head(Rest(i))] <= now

Lose(X) == fate' = [p \in Pkts |-> IF p \in X THEN "lost" ELSE fate[p]]

SearchNow ==
  /\ fault = "none" /\ phase = "now"
  /\ phase' = "next"
  /\ UNCHANGED <<sch, hnode_list, next_pnode, hops_left, delay, overlimit,
                 timer, pkts, now, run, fault, debt, resets, waited>>

SearchNowFinds ==
  /\ SearchNow
  /\ \E i \in DOMAIN hnodes :
       /\ Ready(i) /\ \A j \in 1..i-1 : ~Ready(j)
       /\ skb' = Head(Rest(i))
       /\ hnodes' = [j \in DOMAIN hnodes |->
            [hnodes[j] EXCEPT !.queue =
               IF j < i THEN Rest(j) ELSE IF j = i THEN Tail(Rest(i)) ELSE @]]
       /\ Lose((Pnodes(hnodes) \ (Pnodes(hnodes') \cup {skb'}))
                 \cup ({skb} \ {NULL}))
  /\ owned' = Repointed(hnodes, hnodes')

SearchNowFindsNone ==
  /\ SearchNow
  /\ \A i \in DOMAIN hnodes : ~Ready(i)
  /\ hnodes' = [j \in DOMAIN hnodes |-> [hnodes[j] EXCEPT !.queue = Rest(j)]]
  /\ Lose(Pnodes(hnodes) \ Pnodes(hnodes'))
  /\ owned' = Repointed(hnodes, hnodes')
  /\ UNCHANGED skb

(***************************************************************************)
(* search_next_pnode: drop the expired pnodes at every head, and pick the  *)
(* head with the smallest tmin, the first of them in list order.  When it  *)
(* is not the one the watchdog was armed for, the watchdog is rearmed;     *)
(* when there is none, next_pnode stays what it was.                       *)
(***************************************************************************)
Left(i) == Sweep(hnodes[i].queue, Expired)

Earliest(i) ==
  /\ i \in DOMAIN hnodes /\ Left(i) # <<>>
  /\ \A j \in DOMAIN hnodes : Left(j) # <<>> =>
       \/ tmin[Head(Left(i))] < tmin[Head(Left(j))]
       \/ tmin[Head(Left(i))] = tmin[Head(Left(j))] /\ i <= j

(* Mutants: a watchdog that is armed is left alone; it is never armed. *)
RearmIfIdle(p) == IF timer # NULL THEN timer ELSE tmin[p]
RearmNever(p) == timer

Rearm(p) == IF p = next_pnode THEN timer ELSE tmin[p]

SearchNext ==
  /\ fault = "none" /\ phase = "next"
  /\ hnodes' = [j \in DOMAIN hnodes |-> [hnodes[j] EXCEPT !.queue = Left(j)]]
  /\ owned' = Repointed(hnodes, hnodes')
  /\ Lose(Pnodes(hnodes) \ Pnodes(hnodes'))
  /\ \/ /\ \A i \in DOMAIN hnodes : Left(i) = <<>>
        /\ UNCHANGED <<next_pnode, timer>>
     \/ \E i \in DOMAIN hnodes :
          /\ Earliest(i)
          /\ next_pnode' = Head(Left(i))
          /\ timer' = Rearm(next_pnode')
  /\ phase' = "return"
  /\ UNCHANGED <<sch, hnode_list, hops_left, delay, overlimit, pkts, now, run,
                 skb, fault, debt, resets, waited>>

(***************************************************************************)
(* The end of lbf_dequeue.  A packet found by the searches is returned     *)
(* with its experienced_delay updated; its delay is kept in microseconds.  *)
(***************************************************************************)
Return(p) ==
  /\ fault = "none" /\ phase = "return"
  /\ phase' = "idle"
  /\ waited' = now - enqueue_time[p]
  /\ qlen' = QlenDec
  /\ UNCHANGED <<limit, hnode_list, hnodes, owned, next_pnode, hops_left,
                 overlimit, timer, enqueue_time, tmin, tmax, lqbudget, now,
                 fault, debt, resets>>

(* A packet goes to the driver, which asks for the next one. *)
Sends(p) ==
  /\ fate' = [fate EXCEPT ![p] = "sent"]
  /\ run' = TRUE
  /\ UNCHANGED drops

ReturnLbf ==
  /\ skb # NULL /\ Return(skb) /\ Sends(skb)
  /\ delay' = (waited' * 100) \div TenthMs
  /\ header' = [header EXCEPT
                  ![skb].exp = (@ + waited' \div TenthMs) % U16]
  /\ skb' = NULL
  /\ UNCHANGED fifo

(* Without one, the head of the fifo is returned; its delay is kept in the *)
(* 64 ns ticks of the packet scheduler, and added to delay_exp as such.    *)
Ticks(d) == (d * 15625) \div (10 * TenthMs)

DequeueHead ==
  /\ skb = NULL /\ fifo # <<>> /\ Return(Head(fifo))
  /\ fifo' = Tail(fifo)
  /\ delay' = Ticks(waited')
  /\ UNCHANGED skb

TooLate(p) == header[p].kind = "mdf" /\ header[p].exp + delay' > header[p].max

ReturnHead ==
  /\ DequeueHead /\ ~TooLate(Head(fifo)) /\ Sends(Head(fifo))
  /\ header' = IF header[Head(fifo)].kind = "mdf"
                 THEN [header EXCEPT ![Head(fifo)].exp = (@ + delay') % U16]
                 ELSE header

(* A packet over its maximum delay is freed and the dequeue returns NULL,  *)
(* which ends the run of the qdisc.                                        *)
DiscardHead ==
  /\ DequeueHead /\ TooLate(Head(fifo))
  /\ fate' = [fate EXCEPT ![Head(fifo)] = "freed"]
  /\ drops' = drops + 1
  /\ UNCHANGED <<run, header>>

ReturnNothing ==
  /\ fault = "none" /\ phase = "return" /\ skb = NULL /\ fifo = <<>>
  /\ phase' = "idle"
  /\ UNCHANGED <<sch, priv, pkts, now, run, skb, fault, history>>

Dequeue ==
  \/ DequeueNoNext \/ DequeueExpired \/ DequeueNext
  \/ DequeueUseAfterFree \/ DequeueNullDeref
  \/ SearchNowFinds \/ SearchNowFindsNone \/ SearchNext
  \/ ReturnLbf \/ ReturnHead \/ DiscardHead \/ ReturnNothing

-----------------------------------------------------------------------------
(***************************************************************************)
(* Time, the watchdog, and tc.  The watchdog runs the qdisc at or after    *)
(* its expiry.  When the link goes down the kernel resets the qdisc, and   *)
(* drops the run that may be pending; lbf_reset cancels the watchdog and   *)
(* frees the fifo, but leaves the hnodes and next_pnode alone.             *)
(***************************************************************************)
Tick ==
  /\ fault = "none" /\ now < MaxTime
  /\ now' = now + 1
  /\ UNCHANGED <<sch, priv, pkts, run, phase, skb, fault, history>>

WatchdogFires ==
  /\ fault = "none" /\ timer # NULL /\ timer <= now
  /\ timer' = NULL
  /\ run' = TRUE
  /\ UNCHANGED <<sch, hnode_list, hnodes, owned, next_pnode, hops_left, delay,
                 overlimit, pkts, now, phase, skb, fault, history>>

Reset ==
  /\ fault = "none" /\ phase = "idle" /\ resets < MaxResets
  /\ resets' = resets + 1
  /\ timer' = NULL
  /\ fifo' = <<>> /\ qlen' = 0
  /\ run' = FALSE
  /\ fate' = [p \in Pkts |-> IF p \in ToSet(fifo) THEN "freed" ELSE fate[p]]
  /\ debt' = Cardinality({p \in Pkts : fate'[p] \in {"queued", "lost"}})
  /\ UNCHANGED <<limit, drops, hnode_list, hnodes, owned, next_pnode,
                 hops_left, delay, overlimit, pkts, now, phase, skb, fault,
                 waited>>

Change(l) ==
  /\ fault = "none" /\ phase = "idle" /\ l # limit
  /\ limit' = l
  /\ UNCHANGED <<qlen, drops, fifo, priv, pkts, kernel, history>>

Next ==
  \/ \E p \in Pkts : Enqueue(p)
  \/ Dequeue
  \/ Tick
  \/ WatchdogFires
  \/ Reset
  \/ \E l \in Limits : Change(l)

Spec == Init /\ [][Next]_vars

(***************************************************************************)
(* The clock advances, a timer that has expired fires, and a run of the    *)
(* qdisc that is due takes place and completes: the kernel's softirqs see  *)
(* to it.  Nothing obliges a packet to arrive or tc to act.                *)
(***************************************************************************)
Fairness == WF_vars(Tick) /\ WF_vars(WatchdogFires) /\ WF_vars(Dequeue)

FairSpec == Spec /\ Fairness

-----------------------------------------------------------------------------
(***************************************************************************)
(* Properties.                                                             *)
(***************************************************************************)
Queued == {p \in Pkts : fate[p] = "queued"}

Delayed == Pnodes(hnodes)

(***************************************************************************)
(* sch_lbf.c:56: only pnodes directly associated with hnodes - the heads - *)
(* have their hnode pointer set, however pnodes are inserted before the    *)
(* head and removed from it; and every head has it, so that a search can   *)
(* remove it.                                                              *)
(***************************************************************************)
HeadsOwned == fault = "none" => owned = Heads(hnodes)

(***************************************************************************)
(* The order lbf_dequeue's searches rely on: they look no further than the *)
(* first pnode of an hnode that is not due, and they serve the hnodes in   *)
(* list order, smallest budget first.                                      *)
(***************************************************************************)
Ordered ==
  /\ \A i \in DOMAIN hnodes : \A j, k \in DOMAIN hnodes[i].queue :
       j < k => tmin[hnodes[i].queue[j]] <= tmin[hnodes[i].queue[k]]
  /\ \A i, j \in DOMAIN hnodes :
       i < j => hnodes[i].range_start <= hnodes[j].range_start

(***************************************************************************)
(* A packet waits in an hnode of its own budget range, although the lookup *)
(* does not accept the last budget of a range and may create several       *)
(* hnodes for the same range.                                              *)
(***************************************************************************)
InOwnRange ==
  \A i \in DOMAIN hnodes : \A p \in ToSet(hnodes[i].queue) :
    RangeStart(lqbudget[p]) = hnodes[i].range_start

(***************************************************************************)
(* The list of hnodes is one the searches of a dequeue can walk, whatever  *)
(* enqueues and removals led to it: heads can be removed, both orders hold *)
(* and every packet is in a range of its own budget.                       *)
(***************************************************************************)
ListSound == HeadsOwned /\ Ordered /\ InOwnRange

(***************************************************************************)
(* The qdisc never holds a packet twice, and never keeps one it has sent,  *)
(* freed or lost track of: the pnodes, the fifo and the packet a dequeue   *)
(* is about to return are the queued packets, each exactly once.           *)
(***************************************************************************)
Held ==
  Len(fifo)
    + Cardinality({x \in (DOMAIN hnodes) \X (1..Cardinality(Pkts)) :
                     x[2] \in DOMAIN hnodes[x[1]].queue})
    + (IF skb = NULL THEN 0 ELSE 1)

HeldOnce ==
  /\ Queued = ToSet(fifo) \cup Delayed \cup ({skb} \ {NULL})
  /\ Held = Cardinality(Queued)

(***************************************************************************)
(* sch->q.qlen is, modulo its width, the number of packets queued, plus    *)
(* those lbf_enqueue and the searches counted and then lost, less those a  *)
(* reset forgot: every increment and decrement of the counter is accounted *)
(* for, and nothing else makes it drift.                                   *)
(***************************************************************************)
QlenAccounts ==
  (qlen + debt) % QlenMod
    = Cardinality({p \in Pkts : fate[p] \in {"queued", "lost"}}) % QlenMod

(***************************************************************************)
(* Every packet is in one place, and every increment and decrement of the  *)
(* counter that decides whether the qdisc is full has its packet.          *)
(***************************************************************************)
PacketsAccounted == HeldOnce /\ QlenAccounts

(***************************************************************************)
(* No delayed packet is forgotten: when no run of the qdisc is due, the    *)
(* watchdog is armed, and no later than any packet's earliest release.     *)
(* (lbf_reset breaks this: it cancels the watchdog and keeps next_pnode.)  *)
(***************************************************************************)
WatchdogCovers ==
  fault = "none" /\ phase = "idle" /\ ~run /\ resets = 0 =>
    \A p \in Delayed : timer # NULL /\ timer <= tmin[p]

(***************************************************************************)
(* No LBF packet leaves, or is picked to leave, before its tmin, whichever *)
(* of the three clock readings picked it.                                  *)
(***************************************************************************)
NeverEarly ==
  \A p \in Pkts :
    /\ p = skb \/ (header[p].kind = "lbf" /\ fate[p] = "sent")
    => tmin[p] <= now

(***************************************************************************)
(* search_now_pnode picks the most urgent packet: of all the packets that  *)
(* are due and have not expired, none has a smaller budget range than the  *)
(* one it takes.                                                           *)
(***************************************************************************)
MostUrgentFirst ==
  [][phase = "now" /\ skb' # skb =>
       \A p \in Delayed \ Expired : tmin[p] <= now =>
         RangeStart(lqbudget[skb']) <= RangeStart(lqbudget[p])]_vars

(***************************************************************************)
(* Every delayed packet eventually leaves the qdisc, sent or lost, as long *)
(* as the kernel does not crash.                                           *)
(***************************************************************************)
DelayedLeaves ==
  \A p \in Pkts : p \in Delayed ~> p \notin Delayed \/ fault # "none"

(***************************************************************************)
(* The qdisc keeps the promise of LbfPromise to the packets it delays: the *)
(* two-level list, swept in three passes at three instants, is a set from  *)
(* which one packet at a time is taken, when it is due, the most urgent    *)
(* first among those the search sees, and only expired or displaced ones   *)
(* are lost.                                                               *)
(***************************************************************************)
PromisedState(p) ==
  IF p = skb THEN "hand"
  ELSE IF p \in Delayed THEN "waiting"
  ELSE IF header[p].kind = "lbf" /\ fate[p] \in {"sent", "lost"} THEN fate[p]
  ELSE "new"

Promise == INSTANCE LbfPromise WITH
  state <- [p \in Pkts |-> PromisedState(p)],
  due <- tmin,
  deadline <- tmax,
  rank <- [p \in Pkts |-> RangeStart(lqbudget[p])],
  last_hop <- hops_left = 0

PromiseKept == Promise!Spec

-----------------------------------------------------------------------------
(***************************************************************************)
(* Statements of the source that the code does not live up to.             *)
(***************************************************************************)

(***************************************************************************)
(* sch_lbf.c:415: a pnode that is removed and has no successor is the only *)
(* one of its hnode.  (When it is not, remove_pnode follows a NULL hnode   *)
(* pointer.)                                                               *)
(***************************************************************************)
LastPnodeIsOnly ==
  /\ phase = "idle" /\ run /\ next_pnode # NULL
  /\ next_pnode \in Expired \/ tmin[next_pnode] <= now
  => \A i \in DOMAIN hnodes :
       hnodes[i].queue # <<>> /\ Last(hnodes[i].queue) = next_pnode =>
         Len(hnodes[i].queue) = 1
=============================================================================
