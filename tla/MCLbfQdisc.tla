----------------------------- MODULE MCLbfQdisc -----------------------------
(***************************************************************************)
(* A small LBF qdisc for TLC.                                              *)
(***************************************************************************)
EXTENDS LbfQdisc

CONSTANTS p1, p2, p3

Lbf(min, max, exp, tohops) ==
  [kind |-> "lbf", min |-> min, max |-> max, todelay |-> 0, exp |-> exp,
   tohops |-> tohops]

Mdf(max, exp) ==
  [kind |-> "mdf", min |-> 0, max |-> max, todelay |-> 0, exp |-> exp,
   tohops |-> 0]

Plain == [kind |-> "none", min |-> 0, max |-> 0, todelay |-> 0, exp |-> 0,
          tohops |-> 0]

(* Windows and budgets, in 10^-4 s: [2, 2] with budget 0, [0, 1] with      *)
(* budget 1 and [1, 11] with budget 10, all at their last hop; [0, 9] with *)
(* budget 9, the one its own hnode does not accept, a hop before it.       *)
DelayContracts ==
  { Lbf(1, 1, 8, 1), Lbf(0, 1, 9, 1), Lbf(1, 2, 9, 1), Lbf(0, 2, 2, 2) }

(* Traffic of every kind: MDF packets that may wait no instant and one     *)
(* (1562 ticks), plain ones, LBF packets discarded early, out of hops, and *)
(* with window [2, 2].                                                     *)
MixedContracts ==
  { Mdf(500, 0), Mdf(1600, 0), Plain, Lbf(0, 1, 11, 1), Lbf(0, 1, 0, 0),
    Lbf(1, 1, 8, 1) }

(* Packets are interchangeable: Init, Next and the properties treat them   *)
(* alike.                                                                  *)
Symmetry == Permutations(Pkts)
=============================================================================
