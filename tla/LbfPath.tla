------------------------------- MODULE LbfPath -------------------------------
(***************************************************************************)
(* One LBF packet on its way through a chain of routers whose egress       *)
(* queues run the LBF qdisc.  A hop computes its release window from the   *)
(* contract (LbfDelay), holds the packet, adds the time it held it to      *)
(* experienced_delay, and passes it on; what one hop promises locally is   *)
(* meant to add up to the contract end to end.                             *)
(*                                                                         *)
(* Time.  TenthMs clock instants make 10^-4 s, the unit of                 *)
(* experienced_delay; a hop measures its delay on the clock and rounds it  *)
(* down to that unit.  A hop that keeps its promise (LbfPromise) releases  *)
(* the packet within [LqMin, LqMax]; LateHop is one that does not.         *)
(***************************************************************************)
EXTENDS LbfDelay

CONSTANTS
  Contracts,   \* contracts a sender may put on the packet
  Paths,       \* lengths of the chains of LBF routers considered
  ToHops,      \* fib_tohops values a sender may write
  TenthMs,     \* clock instants in 10^-4 s
  MaxDwell,    \* bound: how far into its window a hop is followed
  MaxLate      \* bound: how far past its window a late hop may run

(* A contract the code's 16-bit conversions do not distort, with a minimum *)
(* no larger than its maximum.                                             *)
Sane(c) == /\ 10 * c.min < U16 /\ 10 * c.max < U16 /\ 10 * c.todelay < U16
           /\ c.max = 0 \/ c.min <= c.max

ASSUME ContractsAssumption ==
  \A c \in Contracts : /\ c \in [min : Nat, max : Nat, todelay : Nat]
                       /\ c.min < U16 /\ c.max < U16 /\ c.todelay < U16

ASSUME PathsAssumption == Paths \subseteq Nat \ {0}

ASSUME ToHopsAssumption == ToHops \subseteq 0..U16-1

ASSUME TenthMsAssumption == TenthMs \in Nat \ {0}

ASSUME BoundsAssumption == MaxDwell \in Nat /\ MaxLate \in Nat

VARIABLES
  contract,    \* the contract of the packet; no hop changes these fields
  exp,         \* experienced_delay, in 10^-4 s
  tohops,      \* fib_tohops
  status,      \* "transit", "delivered", "discarded" or "nohops"
  path,        \* length of the chain
  hop,         \* LBF routers passed so far
  dwelt,       \* clock instants spent in queues so far
  late,        \* some hop released the packet after its window
  sent_tohops  \* fib_tohops as the sender wrote it

vars == <<contract, exp, tohops, status, path, hop, dwelt, late, sent_tohops>>

TypeOK ==
  /\ contract \in Contracts
  /\ exp \in 0..U16-1
  /\ tohops \in 0..U16-1
  /\ status \in {"transit", "delivered", "discarded", "nohops"}
  /\ path \in Paths
  /\ hop \in 0..path
  /\ dwelt \in Nat
  /\ late \in BOOLEAN
  /\ sent_tohops \in ToHops

Init ==
  /\ contract \in Contracts
  /\ exp = 0
  /\ path \in Paths
  /\ sent_tohops \in ToHops
  /\ tohops = sent_tohops
  /\ status = "transit"
  /\ hop = 0
  /\ dwelt = 0
  /\ late = FALSE

(***************************************************************************)
(* A hop refuses a packet whose fib_tohops has run out.                    *)
(***************************************************************************)
NoHops ==
  /\ status = "transit" /\ tohops = 0
  /\ status' = "nohops"
  /\ UNCHANGED <<contract, exp, tohops, path, hop, dwelt, late, sent_tohops>>

(***************************************************************************)
(* A hop discards a packet that can no longer be on time; fib_tohops has   *)
(* been decremented by then.                                               *)
(***************************************************************************)
DiscardEarly ==
  /\ status = "transit" /\ tohops # 0 /\ EarlyDiscard(contract, exp)
  /\ tohops' = DecHops(tohops)
  /\ status' = "discarded"
  /\ UNCHANGED <<contract, exp, path, hop, dwelt, late, sent_tohops>>

(***************************************************************************)
(* A hop accepts the packet, holds it for d clock instants and passes it   *)
(* on with the updated header.  Opens and Closes bound the release times   *)
(* that keep the promise of this hop.                                      *)
(***************************************************************************)
Accepts == status = "transit" /\ tohops # 0 /\ ~EarlyDiscard(contract, exp)

Pass(d) ==
  /\ exp' = (exp + d \div TenthMs) % U16
  /\ tohops' = DecHops(tohops)
  /\ dwelt' = dwelt + d
  /\ hop' = hop + 1
  /\ status' = IF hop + 1 = path THEN "delivered" ELSE "transit"
  /\ UNCHANGED <<contract, path, sent_tohops>>

Opens == LqMin(contract, exp, tohops) * TenthMs

Closes == LqMax(contract, exp, tohops) * TenthMs

Hop ==
  /\ Accepts
  /\ \E d \in Opens .. Opens + MaxDwell :
       d <= Closes /\ Pass(d) /\ UNCHANGED late

LateHop ==
  /\ Accepts
  /\ \E d \in Closes + 1 .. Closes + MaxLate :
       Opens <= d /\ Pass(d) /\ late' = TRUE

Next == NoHops \/ DiscardEarly \/ Hop \/ LateHop

Spec == Init /\ [][Next]_vars

-----------------------------------------------------------------------------

(***************************************************************************)
(* When the sender counted the routers right and no hop ran late, a        *)
(* delivered packet was held at least min_delay and, up to one rounded     *)
(* instant per hop, at most max_delay, the link delay fib_todelay          *)
(* included: the per-hop shares of lbf_get_min_delay and lbf_get_max_delay *)
(* add up to the contract.                                                 *)
(***************************************************************************)
Counted == sent_tohops = path /\ path < 256

DeliveredInWindow ==
  status = "delivered" /\ ~late /\ Counted /\ Sane(contract) =>
    /\ contract.min * 10 * TenthMs
         <= dwelt + contract.todelay * 10 * TenthMs
    /\ contract.max > 0 =>
         dwelt + contract.todelay * 10 * TenthMs
           <= contract.max * 10 * TenthMs + path * (TenthMs - 1)

(***************************************************************************)
(* The early discard of lbf_enqueue hits only packets that some hop        *)
(* released late, or whose links alone take longer than max_delay allows.  *)
(***************************************************************************)
DiscardedOnlyWhenLate ==
  status = "discarded" /\ Sane(contract) =>
    late \/ contract.todelay > contract.max

(***************************************************************************)
(* End to end the contract is kept, and no packet is discarded that could  *)
(* have kept it.                                                           *)
(***************************************************************************)
ContractKept == DeliveredInWindow /\ DiscardedOnlyWhenLate

(***************************************************************************)
(* A hop that accepts the packet never sees a window that closes before it *)
(* opens, so lqmax - lqmin does not wrap into a huge budget.               *)
(***************************************************************************)
WindowOpens ==
  Accepts /\ Sane(contract) /\ contract.max > 0 =>
    LqMin(contract, exp, tohops) <= LqMax(contract, exp, tohops)

(***************************************************************************)
(* The header stays in its 16 bits and no window closes before it opens.   *)
(***************************************************************************)
PathSound == TypeOK /\ WindowOpens

(***************************************************************************)
(* A packet whose sender counted the routers right never runs out of hops  *)
(* on the way.                                                             *)
(***************************************************************************)
HopsSuffice == Counted => status # "nohops"
=============================================================================
