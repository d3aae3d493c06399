------------------------------- MODULE XskRings -------------------------------
(***************************************************************************)
(* xsk.h: the transmit and the completion ring of an AF_XDP socket, shared *)
(* with the kernel.  Each side moves one index of a ring; the program      *)
(* keeps a copy of both, its own ahead of the shared one by what it has    *)
(* reserved or peeked, the other behind by what it has not looked at.      *)
(* Indices are unsigned and wrap at Wrap (2^32).                           *)
(*                                                                         *)
(* The barriers of submit, peek and release order the accesses to cells    *)
(* and indices, so that each index moves in one step.                      *)
(***************************************************************************)
EXTENDS Integers, Sequences, FiniteSets, SequencesExt

CONSTANTS
  Frames,  \* frames of the UMEM the program uses
  Size,    \* entries of a ring, a power of two
  Wrap     \* number of values of an index

RingAssumption ==
  /\ Size \in Nat \ {0} /\ Wrap \in Nat
  /\ Wrap % Size = 0 /\ Wrap > Size

VARIABLES
  tx, comp,    \* [ring, producer, consumer, cached_prod, cached_cons]
  held,        \* frames the program may use
  written,     \* descriptors written behind tx.producer
  kernel,      \* frames the kernel is sending
  seen         \* history: the frames behind comp.consumer when peeked

ringsVars == <<tx, comp, held, written, kernel, seen>>

Plus(i, n)  == (i + n) % Wrap
Minus(i, j) == (i - j) % Wrap
Cell(r, i)  == r.ring[i % Size]

(* Frames between two indices, oldest first.                               *)
Between(r, i, n) == [k \in 1..n |-> Cell(r, i + k - 1)]

EmptyRing(f, ahead) ==
  [ ring |-> [i \in 0..Size - 1 |-> f], producer |-> 0, consumer |-> 0,
    cached_prod |-> 0, cached_cons |-> ahead ]

(* The copy of the consumer of a ring the program fills is Size ahead.     *)
RingsInit ==
  /\ \E f \in Frames : tx = EmptyRing(f, Size) /\ comp = EmptyRing(f, 0)
  /\ held = Frames
  /\ written = 0
  /\ kernel = {}
  /\ seen = <<>>

-----------------------------------------------------------------------------
(* The ring as it is after the program asked for nb free entries.          *)
xsk_prod_nb_free(r, nb) ==
  IF Minus(r.cached_cons, r.cached_prod) >= nb THEN r
  ELSE [r EXCEPT !.cached_cons = Plus(r.consumer, Size)]

xsk_ring_prod__reserve(nb) ==
  LET r == xsk_prod_nb_free(tx, nb)
  IN  /\ tx' = IF Minus(r.cached_cons, r.cached_prod) < nb THEN r
               ELSE [r EXCEPT !.cached_prod = Plus(@, nb)]
      /\ UNCHANGED <<comp, held, written, kernel, seen>>

Reserved == Minus(tx.cached_prod, tx.producer)
Written  == ToSet(Between(tx, tx.producer, written))

(* The program writes a descriptor it has reserved.                        *)
WriteDesc ==
  /\ written < Reserved
  /\ \E f \in held \ Written :
       tx' = [tx EXCEPT !.ring[(tx.producer + written) % Size] = f]
  /\ written' = written + 1
  /\ UNCHANGED <<comp, held, kernel, seen>>

(* Mutant: the index moves by one more. *)
xsk_ring_prod__submitMore(nb) ==
  /\ nb \in 1..written
  /\ tx' = [tx EXCEPT !.producer = Plus(@, nb + 1)]
  /\ held' = held \ ToSet(Between(tx, tx.producer, nb))
  /\ written' = written - nb
  /\ UNCHANGED <<comp, kernel, seen>>

xsk_ring_prod__submit(nb) ==
  /\ nb \in 1..written
  /\ tx' = [tx EXCEPT !.producer = Plus(@, nb)]
  /\ held' = held \ ToSet(Between(tx, tx.producer, nb))
  /\ written' = written - nb
  /\ UNCHANGED <<comp, kernel, seen>>

-----------------------------------------------------------------------------
(* Mutant: as many entries as were asked for. *)
xsk_cons_nb_availAll(r, nb) ==
  LET q == IF r.cached_prod = r.cached_cons
           THEN [r EXCEPT !.cached_prod = r.producer] ELSE r
  IN  [q EXCEPT !.cached_cons = Plus(@, nb)]

(* The ring as it is after the program asked for up to nb entries: the     *)
(* shared index is read only when the copy shows none.                     *)
xsk_cons_nb_avail(r, nb) ==
  LET q == IF r.cached_prod = r.cached_cons
           THEN [r EXCEPT !.cached_prod = r.producer] ELSE r
      entries == Minus(q.cached_prod, q.cached_cons)
  IN  [q EXCEPT !.cached_cons = Plus(@, IF entries > nb THEN nb ELSE entries)]

Peeked == Minus(comp.cached_cons, comp.consumer)

xsk_ring_cons__peek(nb) ==
  /\ comp' = xsk_cons_nb_avail(comp, nb)
  /\ seen' = seen \o Between(comp, comp.cached_cons,
                             Minus(comp'.cached_cons, comp.cached_cons))
  /\ UNCHANGED <<tx, held, written, kernel>>

xsk_ring_cons__cancel(nb) ==
  /\ nb \in 1..Peeked
  /\ comp' = [comp EXCEPT !.cached_cons = Minus(@, nb)]
  /\ seen' = SubSeq(seen, 1, Len(seen) - nb)
  /\ UNCHANGED <<tx, held, written, kernel>>

(* The program uses the frames it saw.                                     *)
xsk_ring_cons__release(nb) ==
  /\ nb \in 1..Peeked
  /\ comp' = [comp EXCEPT !.consumer = Plus(@, nb)]
  /\ held' = held \cup ToSet(SubSeq(seen, 1, nb))
  /\ seen' = SubSeq(seen, nb + 1, Len(seen))
  /\ UNCHANGED <<tx, written, kernel>>

-----------------------------------------------------------------------------
(* The kernel's side of the rings.                                         *)
KernelTake ==
  /\ tx.consumer # tx.producer
  /\ kernel' = kernel \cup {Cell(tx, tx.consumer)}
  /\ tx' = [tx EXCEPT !.consumer = Plus(@, 1)]
  /\ UNCHANGED <<comp, held, written, seen>>

KernelComplete(f) ==
  /\ Minus(comp.producer, comp.consumer) < Size
  /\ f \in kernel
  /\ kernel' = kernel \ {f}
  /\ comp' = [comp EXCEPT !.ring[comp.producer % Size] = f, !.producer = Plus(@, 1)]
  /\ UNCHANGED <<tx, held, written, seen>>

Counts == 1..Size

Sending    == WriteDesc \/ \E nb \in Counts : xsk_ring_prod__reserve(nb)
Submitting == \E nb \in Counts : xsk_ring_prod__submit(nb)
Peeking    == \E nb \in Counts : xsk_ring_cons__peek(nb)
Releasing  == \E nb \in Counts : xsk_ring_cons__release(nb)
KernelSends == KernelTake \/ \E f \in Frames : KernelComplete(f)

RingsNext == \/ Sending \/ Submitting \/ Peeking \/ Releasing \/ KernelSends
             \/ \E nb \in Counts : xsk_ring_cons__cancel(nb)

(* The kernel takes what is sent and completes every frame as soon as      *)
(* there is room; the program keeps peeking, and releases what it saw.     *)
(* Strong fairness, since the room may be taken by another frame and what  *)
(* is peeked may be cancelled.                                             *)
RingsSpec == RingsInit /\ [][RingsNext]_ringsVars
RingsFairSpec == /\ RingsSpec /\ WF_ringsVars(KernelTake)
                 /\ \A f \in Frames : SF_ringsVars(KernelComplete(f))
                 /\ WF_ringsVars(Peeking) /\ SF_ringsVars(Releasing)
-----------------------------------------------------------------------------
InTx   == Between(tx, tx.consumer, Minus(tx.producer, tx.consumer))
InComp == Between(comp, comp.consumer, Minus(comp.producer, comp.consumer))

RingsTypeOK ==
  /\ \A r \in {tx, comp} :
       /\ r.ring \in [0..Size - 1 -> Frames]
       /\ {r.producer, r.consumer, r.cached_prod, r.cached_cons} \subseteq 0..Wrap - 1
  /\ held \subseteq Frames /\ kernel \subseteq Frames
  /\ written \in 0..Reserved

(* Every frame is with the program, with the kernel or at one place of one *)
(* of the rings, and in no two of them.                                    *)
FramesOnce ==
  \A f \in Frames :
    Cardinality({k \in DOMAIN InTx : InTx[k] = f}) + Cardinality({k \in DOMAIN InComp : InComp[k] = f})
      + (IF f \in held THEN 1 ELSE 0) + (IF f \in kernel THEN 1 ELSE 0) = 1

(* The copies never promise more than there is: what is reserved fits in   *)
(* the ring, and what is peeked has been produced.                         *)
CopiesAreSafe ==
  /\ Minus(tx.cached_prod, tx.consumer) <= Size
  /\ Minus(comp.cached_cons, comp.consumer) <= Minus(comp.producer, comp.consumer)

(* What was peeked is still there until it is released.                    *)
PeekedStays == seen = Between(comp, comp.consumer, Peeked)

(* Every frame is with the program, with the kernel or at one place of one *)
(* ring; the copies of the indices never promise more room or entries than *)
(* there are; and what was peeked stays until it is released.              *)
RingsSound == RingsTypeOK /\ FramesOnce /\ CopiesAreSafe /\ PeekedStays

Promise == INSTANCE XskQueue WITH sent <- InTx, done <- InComp

(* The rings are two queues, whatever the copies show and wherever the     *)
(* indices wrap.                                                           *)
ImplementsQueues == Promise!Spec

(* A frame that is submitted is given back.                                *)
FramesReturn == \A f \in Frames : (f \in ToSet(InTx)) ~> (f \in held)
=============================================================================
