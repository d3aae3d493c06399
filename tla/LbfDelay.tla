------------------------------ MODULE LbfDelay ------------------------------
(***************************************************************************)
(* The arithmetic of the LBF queueing discipline (sch_lbf.c): how an       *)
(* enqueue turns the fields of a latency-based-forwarding contract into    *)
(* the window in which this hop may release the packet, and into the       *)
(* budget that ranks it.                                                   *)
(*                                                                         *)
(* Units.  min_delay, max_delay and fib_todelay travel in milliseconds,    *)
(* experienced_delay in 10^-4 s; all of them are 16 bits wide, and so is   *)
(* every intermediate result the code stores in a __u16.  Sums that C      *)
(* computes in int are not wrapped.  Header fields are given in host       *)
(* order.                                                                  *)
(***************************************************************************)
EXTENDS Integers, Sequences, SequencesExt

U16 == 65536                 \* values of a __u16
DMAX_BESTEFFORT == 10000     \* release window of a packet without max_delay
LQB_BESTEFFORT == 64000      \* budget of a packet without max_delay
LQB_RANGE == 10              \* width of the budget range of an hnode

(***************************************************************************)
(* Milliseconds to 10^-4 s, stored in a __u16.                             *)
(***************************************************************************)
Tenths(ms) == (ms * 10) % U16

(***************************************************************************)
(* fib_tohops - htons(1), computed on the field as it lies on the wire (a  *)
(* little-endian build): the low byte is decremented and its borrow does   *)
(* not reach the high byte.                                                *)
(***************************************************************************)
(* Mutant: the field is decremented twice. *)
DecHopsTwice(hops) == hops - 2

DecHops(hops) == 256 * (hops \div 256) + (((hops % 256) + 255) % 256)

(***************************************************************************)
(* The share of the remaining minimum (maximum) delay that this hop must   *)
(* (may) spend, all arguments in 10^-4 s; hops # 0 at every call.          *)
(***************************************************************************)
(* Mutant: this hop takes the whole of the remaining minimum. *)
MinAllHere(exp, min, todelay, hops) ==
  IF min > exp + todelay THEN min - (exp + todelay) ELSE 0

lbf_get_min_delay(exp, min, todelay, hops) ==
  IF min > exp + todelay THEN (min - (exp + todelay)) \div hops ELSE 0

(* Mutant: the delay spent at earlier hops is forgotten. *)
MaxForgetsSpent(exp, max, todelay, hops) ==
  IF max = 0 THEN DMAX_BESTEFFORT ELSE ((max - todelay) % U16) \div hops

lbf_get_max_delay(exp, max, todelay, hops) ==
  IF max = 0 THEN DMAX_BESTEFFORT
             ELSE ((max - (exp + todelay)) % U16) \div hops

(***************************************************************************)
(* The same for a contract c, with fields min, max and todelay in ms, when *)
(* it arrives with experienced_delay exp and fib_tohops hops.              *)
(***************************************************************************)
LqMin(c, exp, hops) ==
  lbf_get_min_delay(exp, Tenths(c.min), Tenths(c.todelay), hops)

LqMax(c, exp, hops) ==
  lbf_get_max_delay(exp, Tenths(c.max), Tenths(c.todelay), hops)

LqBudget(c, exp, hops) ==
  IF Tenths(c.max) > 0 THEN (LqMax(c, exp, hops) - LqMin(c, exp, hops)) % U16
                       ELSE LQB_BESTEFFORT

(***************************************************************************)
(* The early discard: the contract has a maximum, and the delay so far     *)
(* plus the delay still ahead exceeds it.                                  *)
(***************************************************************************)

EarlyDiscard(c, exp) ==
  /\ Tenths(c.max) > 0
  /\ exp + Tenths(c.todelay) > Tenths(c.max)

(***************************************************************************)
(* The budget range of an hnode: where it starts for a budget, and which   *)
(* budgets a lookup accepts (range_end itself is not one of them).         *)
(***************************************************************************)
RangeStart(budget) == budget - (budget % LQB_RANGE)

InRange(start, budget) == start <= budget /\ budget < start + LQB_RANGE - 1

-----------------------------------------------------------------------------
(***************************************************************************)
(* The two-level list in which the LBF qdisc keeps its delayed packets     *)
(* (sch_lbf.c): a list of hnodes ordered by the budget range they stand    *)
(* for, and in each hnode a queue of pnodes, one per packet, ordered by    *)
(* the earliest release time tmin.  An hnode is a record with fields       *)
(* range_start and queue; a pnode is named by the packet it holds.         *)
(*                                                                         *)
(* range_end is range_start + 9 from create_hnode on.  prev_hnode is only  *)
(* ever assigned NULL and hnode_num is never read: both are left out, and  *)
(* with them the branches of remove_pnode, search_now_pnode and            *)
(* search_next_pnode that need a prev_hnode.                               *)
(***************************************************************************)
Hnode(P) == [range_start : Nat, queue : Seq(P)]

create_hnode(budget) == [range_start |-> RangeStart(budget), queue |-> <<>>]

(***************************************************************************)
(* lbf_get_hnode walks the list and stops at the first hnode that takes    *)
(* the budget or starts beyond it; off the end when there is none.         *)
(***************************************************************************)
(* Mutant: a new hnode always goes to the end of the list. *)
StopAtMatch(hs, budget) ==
  LET i == SelectInSeq(hs, LAMBDA h : InRange(h.range_start, budget))
  IN  IF i = 0 THEN Len(hs) + 1 ELSE i

Stop(hs, budget) ==
  LET i == SelectInSeq(hs, LAMBDA h : \/ InRange(h.range_start, budget)
                                      \/ budget < h.range_start)
  IN  IF i = 0 THEN Len(hs) + 1 ELSE i

HasHnode(hs, budget) ==
  /\ Stop(hs, budget) <= Len(hs)
  /\ InRange(hs[Stop(hs, budget)].range_start, budget)

lbf_get_hnode(hs, budget) ==
  IF HasHnode(hs, budget)
    THEN hs
    ELSE InsertAt(hs, Stop(hs, budget), create_hnode(budget))

(***************************************************************************)
(* pnode_queue_add puts packet p in front of the first pnode whose tmin is *)
(* larger, at the end when there is none.                                  *)
(***************************************************************************)

pnode_queue_add(queue, p, tmin) ==
  LET i == SelectInSeq(queue, LAMBDA r : tmin[p] < tmin[r])
  IN  IF i = 0 THEN Append(queue, p) ELSE InsertAt(queue, i, p)

(***************************************************************************)
(* What is left of a queue when the pnodes of a set are dropped from its   *)
(* front, up to the first that is not in the set.                          *)
(***************************************************************************)
Sweep(queue, X) ==
  LET i == SelectInSeq(queue, LAMBDA r : r \notin X)
  IN  IF i = 0 THEN <<>> ELSE SubSeq(queue, i, Len(queue))

(***************************************************************************)
(* The packets that hold a pnode, and the pnodes at the heads of queues.   *)
(***************************************************************************)
Pnodes(hs) == UNION {ToSet(hs[i].queue) : i \in DOMAIN hs}

HeadOf(queue) == IF queue = <<>> THEN {} ELSE {Head(queue)}

Heads(hs) == UNION {HeadOf(hs[i].queue) : i \in DOMAIN hs}

(***************************************************************************)
(* remove_pnode on a pnode at the head of its queue.                       *)
(***************************************************************************)

PopHead(hs, p) ==
  [i \in DOMAIN hs |->
     IF hs[i].queue # <<>> /\ Head(hs[i].queue) = p
       THEN [hs[i] EXCEPT !.queue = Tail(@)]
       ELSE hs[i]]
=============================================================================
