----------------------------- MODULE LbfPromise -----------------------------
(***************************************************************************)
(* What the LBF qdisc promises about the packets it delays, without the    *)
(* lists, the watchdog and the several clock readings it does it with:     *)
(* a set of waiting packets, of which one at a time is taken in hand, at   *)
(* the earliest when it is due, and then sent.                             *)
(***************************************************************************)
EXTENDS Naturals

CONSTANT Pkts, NULL

VARIABLES
  state,     \* of each packet: "new", "waiting", "hand", "sent" or "lost"
  due,       \* earliest instant at which it may be sent
  deadline,  \* instant after which it may be given up
  rank,      \* its urgency, the smaller the more urgent
  last_hop,  \* whether expired packets are given up
  now

vars == <<state, due, deadline, rank, last_hop, now>>

In(s) == {p \in Pkts : state[p] = s}

Expired == {p \in In("waiting") : last_hop /\ deadline[p] < now}

Init ==
  /\ state = [p \in Pkts |-> "new"]
  /\ due \in [Pkts -> Nat] /\ deadline \in [Pkts -> Nat]
  /\ rank \in [Pkts -> Nat]
  /\ last_hop \in BOOLEAN /\ now \in Nat

(* The window and the rank of a packet are settled when it is admitted.    *)
Admit(p) ==
  /\ state[p] = "new"
  /\ state' = [state EXCEPT ![p] = "waiting"]
  /\ \A q \in Pkts \ {p} : /\ due'[q] = due[q] /\ deadline'[q] = deadline[q]
                           /\ rank'[q] = rank[q]
  /\ due'[p] >= now
  /\ last_hop' \in BOOLEAN
  /\ UNCHANGED now

(* A packet that is not admitted may still change what is done with the    *)
(* expired ones, and may be lost.                                          *)
Turn(X) ==
  /\ X \subseteq In("new")
  /\ state' = [p \in Pkts |-> IF p \in X THEN "lost" ELSE state[p]]
  /\ last_hop' \in BOOLEAN
  /\ UNCHANGED <<due, deadline, rank, now>>

Take(p) ==
  /\ In("hand") = {}
  /\ state[p] = "waiting" /\ due[p] <= now /\ p \notin Expired
  /\ state' = [state EXCEPT ![p] = "hand"]
  /\ UNCHANGED <<due, deadline, rank, last_hop, now>>

(* The most urgent packet that is due replaces the one in hand, if any;    *)
(* some of the expired packets are given up on the way.                    *)
TakeMostUrgent(p, X) ==
  /\ state[p] = "waiting" /\ due[p] <= now /\ p \notin Expired
  /\ \A q \in In("waiting") \ Expired : due[q] <= now => rank[p] <= rank[q]
  /\ X \subseteq Expired
  /\ state' = [q \in Pkts |-> IF q = p THEN "hand"
                              ELSE IF q \in X \cup In("hand") THEN "lost"
                              ELSE state[q]]
  /\ UNCHANGED <<due, deadline, rank, last_hop, now>>

GiveUp(X) ==
  /\ X \subseteq Expired
  /\ state' = [p \in Pkts |-> IF p \in X THEN "lost" ELSE state[p]]
  /\ UNCHANGED <<due, deadline, rank, last_hop, now>>

Send(p) ==
  /\ state[p] = "hand"
  /\ state' = [state EXCEPT ![p] = "sent"]
  /\ UNCHANGED <<due, deadline, rank, last_hop, now>>

Pass == now' > now /\ UNCHANGED <<state, due, deadline, rank, last_hop>>

Next ==
  \/ \E p \in Pkts : Admit(p) \/ Take(p) \/ Send(p)
  \/ \E p \in Pkts, X \in SUBSET Pkts : TakeMostUrgent(p, X)
  \/ \E X \in SUBSET Pkts : Turn(X) \/ GiveUp(X)
  \/ Pass

Spec == Init /\ [][Next]_vars
=============================================================================
