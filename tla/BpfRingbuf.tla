------------------------------ MODULE BpfRingbuf ------------------------------
(***************************************************************************)
(* ringbuf.c: a program that reads the records BPF programs leave in ring  *)
(* buffers.  The kernel reserves room for a record, marked busy, and       *)
(* commits or discards it later, on any CPU and in any order; the reader   *)
(* takes records in the order they were reserved and stops at a busy one.  *)
(*                                                                         *)
(* Positions count eight bytes and do not wrap; header and data of a       *)
(* record are roundup_len(len) of them.  A step of the reader is one       *)
(* access to the shared pages.                                             *)
(***************************************************************************)
EXTENDS Integers, Sequences

CONSTANTS
  Maps,      \* ring buffer maps
  Room,      \* positions in a ring
  Lens,      \* lengths of records, in bytes
  Results,   \* what the callback may return
  MaxRecords \* bound: records reserved in a ring

ASSUME RingbufAssumption ==
  Room \in Nat /\ Lens \subseteq Nat /\ Results \subseteq Int /\ MaxRecords \in Nat

VARIABLES
  log,       \* records of each ring as reserved: [pos, len, state]
  consumer,  \* consumer_pos of each ring
  rings,     \* the rings of the manager, in the order they were added
  rd,        \* the reader: [pc, todo, cons, prod, rec, cnt, res, new, read]
  got,       \* history: records of each ring given to the callback
  answer     \* history: [res, read] of the last call, read the callbacks it made

ringbufVars == <<log, consumer, rings, rd, got, answer>>

HdrSz == 8
roundup_len(len) == (len + HdrSz + 7) \div 8

Idle == [pc |-> "idle", todo |-> <<>>, cons |-> 0, prod |-> 0, rec |-> 0,
         cnt |-> 0, res |-> 0, new |-> FALSE, read |-> 0]

RingbufInit ==
  /\ log = [m \in Maps |-> <<>>]
  /\ consumer = [m \in Maps |-> 0]
  /\ rings = <<>>
  /\ rd = Idle
  /\ got = [m \in Maps |-> <<>>]
  /\ answer = [res |-> 0, read |-> 0]

producer(m) == IF log[m] = <<>> THEN 0
               ELSE LET r == log[m][Len(log[m])] IN r.pos + roundup_len(r.len)
-----------------------------------------------------------------------------
(* bpf_ringbuf_reserve and bpf_ringbuf_submit or _discard in the kernel.   *)
Reserve(m) ==
  /\ Len(log[m]) < MaxRecords
  /\ \E l \in Lens :
       /\ producer(m) + roundup_len(l) - consumer[m] <= Room
       /\ log' = [log EXCEPT ![m] = Append(@, [pos |-> producer(m), len |-> l, state |-> "busy"])]
  /\ UNCHANGED <<consumer, rings, rd, got, answer>>

Finish(m, i) ==
  /\ log[m][i].state = "busy"
  /\ \E how \in {"commit", "discard"} : log' = [log EXCEPT ![m][i].state = how]
  /\ UNCHANGED <<consumer, rings, rd, got, answer>>

-----------------------------------------------------------------------------
(* ring_buffer__add; one that fails leaves the manager as it was.          *)
ring_buffer__add(m) ==
  /\ rd.pc = "idle" /\ \A i \in DOMAIN rings : rings[i] # m
  /\ rings' = Append(rings, m)
  /\ UNCHANGED <<log, consumer, rd, got, answer>>

Ring == Head(rd.todo)
Begin(todo) == [Idle EXCEPT !.pc = "next", !.todo = todo]

(* All rings, in their order.                                              *)
ring_buffer__consume ==
  /\ rd.pc = "idle" /\ rings # <<>>
  /\ rd' = Begin(rings)
  /\ UNCHANGED <<log, consumer, rings, got, answer>>

(* Those with something in them, which may still be busy, each once and in *)
(* the order epoll_wait reports them.                                      *)
Ready == {m \in {rings[i] : i \in DOMAIN rings} : consumer[m] # producer(m)}

ring_buffer__poll ==
  /\ rd.pc = "idle"
  /\ \E n \in 1..Len(rings) : \E todo \in [1..n -> Ready] :
       /\ {todo[i] : i \in 1..n} = Ready
       /\ \A i, j \in 1..n : todo[i] = todo[j] => i = j
       /\ rd' = Begin(todo)
  /\ UNCHANGED <<log, consumer, rings, got, answer>>

Return(res, read) == rd' = Idle /\ answer' = [res |-> res, read |-> read]

NextRing ==
  /\ rd.pc = "next"
  /\ IF rd.todo = <<>>
     THEN Return(rd.res, rd.read)
     ELSE rd' = [rd EXCEPT !.pc = "producer", !.cons = consumer[Ring], !.cnt = 0]
          /\ UNCHANGED answer
  /\ UNCHANGED <<log, consumer, rings, got>>

(* ringbuf_process_ring returns cnt, or what the callback returned.        *)
Done(n) == [rd EXCEPT !.pc = "next", !.todo = Tail(@), !.res = @ + n]

LoadProducer ==
  /\ rd.pc = "producer"
  /\ rd' = [rd EXCEPT !.prod = producer(Ring), !.new = FALSE, !.pc = "header"]
  /\ UNCHANGED <<log, consumer, rings, got, answer>>

Behind == rd.cons >= rd.prod
Here   == CHOOSE i \in DOMAIN log[Ring] : log[Ring][i].pos = rd.cons
State  == log[Ring][Here].state

AllSeen == rd' = IF rd.new THEN [rd EXCEPT !.pc = "producer"] ELSE Done(rd.cnt)

Pass(pc) == rd' = [rd EXCEPT !.pc = pc, !.rec = Here, !.new = TRUE,
                             !.cons = @ + roundup_len(log[Ring][Here].len)]

(* Mutant: the busy bit is not looked at. *)
LoadHeaderBusy ==
  /\ rd.pc = "header"
  /\ \/ Behind /\ AllSeen
     \/ ~Behind /\ State # "discard" /\ Pass("callback")
     \/ ~Behind /\ State = "discard" /\ Pass("release")
  /\ UNCHANGED <<log, consumer, rings, got, answer>>

LoadHeader ==
  /\ rd.pc = "header"
  /\ \/ Behind /\ AllSeen
     \/ ~Behind /\ State = "busy" /\ rd' = Done(rd.cnt)
     \/ ~Behind /\ State = "commit" /\ Pass("callback")
     \/ ~Behind /\ State = "discard" /\ Pass("release")
  /\ UNCHANGED <<log, consumer, rings, got, answer>>

(* The position is stored whatever the callback says, but an error ends    *)
(* the ring, and a negative one the call.                                  *)
Callback ==
  /\ rd.pc = "callback"
  /\ got' = [got EXCEPT ![Ring] = Append(@, rd.rec)]
  /\ \E err \in Results :
       /\ consumer' = IF err = 0 THEN consumer ELSE [consumer EXCEPT ![Ring] = rd.cons]
       /\ \/ err = 0 /\ rd' = [rd EXCEPT !.cnt = @ + 1, !.read = @ + 1, !.pc = "release"]
                    /\ UNCHANGED answer
          \/ err > 0 /\ rd' = [Done(err) EXCEPT !.read = @ + 1] /\ UNCHANGED answer
          \/ err < 0 /\ Return(err, rd.read + 1)
  /\ UNCHANGED <<log, rings>>

Release ==
  /\ rd.pc = "release"
  /\ consumer' = [consumer EXCEPT ![Ring] = rd.cons]
  /\ rd' = [rd EXCEPT !.pc = "header"]
  /\ UNCHANGED <<log, rings, got, answer>>

Reading == NextRing \/ LoadProducer \/ LoadHeader \/ Callback \/ Release
KernelWrites == \E m \in Maps : Reserve(m) \/ \E i \in DOMAIN log[m] : Finish(m, i)
Calling == ring_buffer__consume \/ ring_buffer__poll

RingbufNext == KernelWrites \/ Reading \/ Calling \/ \E m \in Maps : ring_buffer__add(m)

(* BPF programs end and with them their records; the program adds its      *)
(* rings and polls as long as there is something to read.                  *)
RingbufSpec == RingbufInit /\ [][RingbufNext]_ringbufVars
RingbufFairSpec ==
  /\ RingbufSpec /\ WF_ringbufVars(Reading) /\ WF_ringbufVars(ring_buffer__poll)
  /\ \A m \in Maps : WF_ringbufVars(ring_buffer__add(m))
  /\ \A m \in Maps : \A i \in 1..MaxRecords : WF_ringbufVars(i \in DOMAIN log[m] /\ Finish(m, i))
-----------------------------------------------------------------------------
RingbufTypeOK ==
  /\ \A m \in Maps : /\ Len(log[m]) <= MaxRecords /\ consumer[m] \in 0..producer(m)
                     /\ producer(m) - consumer[m] <= Room
  /\ rd.pc \in {"idle", "next", "producer", "header", "callback", "release"}
  /\ rd.pc \notin {"idle", "next"} => rd.todo # <<>> /\ rd.cons <= producer(Ring)

(* The callback sees the committed records, every one once, in the order   *)
(* they were reserved, and none before those ahead of it are finished.     *)
InOrderOnce ==
  \A m \in Maps :
    LET n == Len(got[m])
    IN  /\ \A k \in 1..n : log[m][got[m][k]].state = "commit"
        /\ \A k \in 1..n : \A i \in 1..got[m][k] :
             /\ log[m][i].state # "busy"
             /\ log[m][i].state = "commit" => \E j \in 1..k : got[m][j] = i
        /\ \A k \in 1..n - 1 : got[m][k] < got[m][k + 1]

(* What the kernel may overwrite has been read.                            *)
FreedWasRead ==
  \A m \in Maps : \A i \in DOMAIN log[m] :
    log[m][i].pos < consumer[m] =>
      /\ log[m][i].state # "busy"
      /\ log[m][i].state = "commit" => \E k \in DOMAIN got[m] : got[m][k] = i

(* The callback sees the committed records, every one once, in the order   *)
(* they were reserved, none before those ahead of it are finished; and     *)
(* what the kernel may overwrite has been read.                            *)
RingbufSound == RingbufTypeOK /\ InOrderOnce /\ FreedWasRead

(* Every record that is committed is read.                                 *)
CommittedIsRead ==
  \A m \in Maps : \A i \in 1..MaxRecords :
    (i \in DOMAIN log[m] /\ log[m][i].state = "commit")
      ~> (\E k \in DOMAIN got[m] : got[m][k] = i)
=============================================================================
