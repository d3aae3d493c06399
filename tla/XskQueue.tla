------------------------------- MODULE XskQueue -------------------------------
(***************************************************************************)
(* What the two rings of an AF_XDP socket promise a program that sends     *)
(* frames and gets them back: two queues, no frame lost, repeated or       *)
(* overtaken, none changed while the other side may look at it.            *)
(***************************************************************************)
EXTENDS Sequences, SequencesExt

CONSTANT Frames

VARIABLES
  held,   \* frames of the program
  sent,   \* the queue to the kernel
  kernel, \* frames the kernel is sending
  done    \* the queue back

vars == <<held, sent, kernel, done>>

Init == held = Frames /\ sent = <<>> /\ kernel = {} /\ done = <<>>

(* Any number of frames in one go, in an order the program chooses.        *)
Send ==
  \E S \in SUBSET held : \E s \in SetToSeqs(S) :
    /\ held' = held \ S
    /\ sent' = sent \o s
    /\ UNCHANGED <<kernel, done>>

Take ==
  /\ sent # <<>>
  /\ kernel' = kernel \cup {Head(sent)}
  /\ sent' = Tail(sent)
  /\ UNCHANGED <<held, done>>

Complete ==
  \E f \in kernel :
    /\ kernel' = kernel \ {f}
    /\ done' = Append(done, f)
    /\ UNCHANGED <<held, sent>>

Collect ==
  \E n \in 1..Len(done) :
    /\ held' = held \cup ToSet(SubSeq(done, 1, n))
    /\ done' = SubSeq(done, n + 1, Len(done))
    /\ UNCHANGED <<sent, kernel>>

Next == Send \/ Take \/ Complete \/ Collect
Spec == Init /\ [][Next]_vars
=============================================================================
