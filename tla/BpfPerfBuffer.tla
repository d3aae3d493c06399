----------------------------- MODULE BpfPerfBuffer -----------------------------
(***************************************************************************)
(* The perf buffer of libbpf.c: one ring for each processor, made one by   *)
(* one and entered in a map the BPF programs find them by, and the loop    *)
(* that takes the records out while the kernel puts more in.  Positions    *)
(* count slots; a record takes one slot or more and may wrap around the    *)
(* end.  A ring without room makes the kernel count what it drops, and say *)
(* so in a record of its own before the next one that fits.                *)
(***************************************************************************)
EXTENDS Integers, Sequences, FiniteSets

CONSTANTS
  Cpus,      \* processors 1..n; also the keys of the map
  Online,    \* those there are
  Asked,     \* perf_buffer__new_raw with all of Cpus, or those online
  EventCb,   \* whether the user reads the records himself, and may stop
  Size,      \* slots of a ring
  Sizes,     \* how many slots a sample may take
  MayFail,   \* whether system calls and malloc may fail
  MaxOut,    \* bound: outputs of each processor
  MaxNew     \* bound: calls of perf_buffer__new

PerfAssumption ==
  /\ Cardinality(Cpus) \in Nat /\ Cpus = 1..Cardinality(Cpus) /\ Online \subseteq Cpus
  /\ Size \in Nat \ {0} /\ Sizes \subseteq Nat \ {0} /\ MaxOut \in Nat

VARIABLES
  pb,      \* the buffer: [state, i, fds, polled, calls]
  keys,    \* which keys of the map are set
  ring,    \* of each processor: [slot, head, tail, lost, out, wake]
  cur,     \* the reader: [at, todo, cpu, head, tail]
  copy,    \* copy_size: slots that fit in the copy of a wrapped record
  had      \* history: the records the user has had, of each processor

perfVars == <<pb, keys, ring, cur, copy, had>>

NoBuffer   == [state |-> "none", i |-> 0, fds |-> {}, polled |-> {}, calls |-> 0]
NotReading == [at |-> "idle", todo |-> <<>>, cpu |-> 0, head |-> 0, tail |-> 0]

(* A slot of a ring has one part of a record: of a sample, with the number *)
(* of the output it comes from, or of a loss, with how many were lost.     *)
Part(kind, nr, k, size) == [kind |-> kind, nr |-> nr, part |-> k, size |-> size]
EmptyRing == [slot |-> [i \in 0..Size-1 |-> Part("none", 0, 0, 0)],
              head |-> 0, tail |-> 0, lost |-> 0, out |-> 0, wake |-> FALSE]

PerfInit ==
  /\ pb = NoBuffer /\ keys = {} /\ cur = NotReading
  /\ ring = [c \in Cpus |-> EmptyRing]
  /\ copy = [c \in Cpus |-> 0] /\ had = [c \in Cpus |-> <<>>]

-----------------------------------------------------------------------------
(* __perf_buffer__new, to the loop                                         *)
perf_buffer__new ==
  /\ pb.state = "none" /\ pb.calls < MaxNew
  /\ pb' = [NoBuffer EXCEPT !.state = "new", !.i = 1, !.calls = pb.calls + 1]
  /\ ring' = [c \in Cpus |-> EmptyRing] /\ copy' = [c \in Cpus |-> 0] /\ had' = [c \in Cpus |-> <<>>]
  /\ UNCHANGED <<keys, cur>>

(* perf_buffer__free: only the buffers whose places in the array are       *)
(* filled have keys to be removed.                                         *)
perf_buffer__free(stored) ==
  /\ pb' = [NoBuffer EXCEPT !.calls = pb.calls]
  /\ keys' = keys \ stored
  /\ UNCHANGED <<ring, cur, copy, had>>

(* perf_buffer__open_cpu_buf fails, or the map cannot be updated, or epoll *)
(* will not take the descriptor: in the last two cases the buffer is in    *)
(* its place already.                                                      *)
OpenFail ==
  /\ pb.state = "new" /\ MayFail /\ pb.i \in (IF Asked THEN Cpus ELSE Online)
  /\ \/ perf_buffer__free(pb.polled)
     \/ perf_buffer__free(pb.polled \cup {pb.i})

(* One turn of the loop, with the part that does not fail.                 *)
perf_buffer__open_cpu_buf ==
  /\ pb.state = "new" /\ pb.i \in Cpus
  /\ IF ~Asked /\ pb.i \notin Online
     THEN pb' = [pb EXCEPT !.i = @ + 1] /\ UNCHANGED keys
     ELSE /\ pb.i \in Online
          /\ pb' = [pb EXCEPT !.fds = @ \cup {pb.i}, !.polled = @ \cup {pb.i}, !.i = @ + 1]
          /\ keys' = keys \cup {pb.i}
  /\ UNCHANGED <<ring, cur, copy, had>>

Made == /\ pb.state = "new" /\ pb.i \notin Cpus
        /\ pb' = [pb EXCEPT !.state = "ready"]
        /\ UNCHANGED <<keys, ring, cur, copy, had>>

Free == pb.state = "ready" /\ cur = NotReading /\ perf_buffer__free(pb.fds)

-----------------------------------------------------------------------------
(* The kernel's side: bpf_perf_event_output on a processor.                *)
Put(r, kind, nr, size) ==
  [r EXCEPT !.slot = [i \in 0..Size-1 |->
                        LET k == (i - r.head) % Size
                        IN  IF k < size THEN Part(kind, nr, k + 1, size) ELSE r.slot[i]],
            !.head = @ + size]

Output(c) ==
  LET r == ring[c] IN
  /\ c \in keys /\ r.out < MaxOut
  /\ \E size \in Sizes :
       LET need == size + IF r.lost > 0 THEN 1 ELSE 0
           told == IF r.lost > 0 THEN Put(r, "lost", r.lost, 1) ELSE r
       IN  ring' = [ring EXCEPT ![c] =
             IF r.head + need - r.tail > Size THEN [r EXCEPT !.lost = @ + 1, !.out = @ + 1]
             ELSE [Put(told, "sample", r.out + 1, size) EXCEPT
                     !.lost = 0, !.out = @ + 1, !.wake = TRUE]]
  /\ UNCHANGED <<pb, keys, cur, copy, had>>

-----------------------------------------------------------------------------
(* Mutant: only the first of the rings that are ready is read. *)
pollFirst ==
  LET ready == {c \in pb.fds : ring[c].wake} IN
  /\ pb.state = "ready" /\ cur = NotReading /\ ready # {}
  /\ \E c \in ready : cur' = [NotReading EXCEPT !.at = "next", !.todo = <<c>>]
  /\ ring' = [c \in Cpus |-> IF c \in ready THEN [ring[c] EXCEPT !.wake = FALSE] ELSE ring[c]]
  /\ UNCHANGED <<pb, keys, copy, had>>

(* epoll_wait tells of a ring once for all that was put in since; which    *)
(* ring comes first is the kernel's choice.                                *)
perf_buffer__poll ==
  LET ready == {c \in pb.fds : ring[c].wake} IN
  /\ pb.state = "ready" /\ cur = NotReading /\ ready # {}
  /\ \E order \in {s \in [1..Cardinality(ready) -> ready] : {s[k] : k \in DOMAIN s} = ready} :
       cur' = [NotReading EXCEPT !.at = "next", !.todo = order]
  /\ ring' = [c \in Cpus |-> IF c \in ready THEN [ring[c] EXCEPT !.wake = FALSE] ELSE ring[c]]
  /\ UNCHANGED <<pb, keys, copy, had>>

perf_buffer__consume ==
  /\ pb.state = "ready" /\ cur = NotReading
  /\ \E order \in [1..Cardinality(pb.fds) -> pb.fds] :
       /\ \A j, k \in DOMAIN order : j < k => order[j] < order[k]
       /\ cur' = [NotReading EXCEPT !.at = "next", !.todo = order]
  /\ UNCHANGED <<pb, keys, ring, copy, had>>

perf_buffer__consume_buffer(c) ==
  /\ pb.state = "ready" /\ cur = NotReading /\ c \in pb.fds
  /\ cur' = [NotReading EXCEPT !.at = "next", !.todo = <<c>>]
  /\ UNCHANGED <<pb, keys, ring, copy, had>>

(* bpf_perf_event_read_simple reads how far the kernel is, once.           *)
ReadHead ==
  /\ cur.at = "next"
  /\ cur' = IF cur.todo = <<>> THEN NotReading
           ELSE LET c == Head(cur.todo)
                IN  [at |-> "read", todo |-> Tail(cur.todo), cpu |-> c,
                     head |-> ring[c].head, tail |-> ring[c].tail]
  /\ UNCHANGED <<pb, keys, ring, copy, had>>

(* What the record at the tail says of itself, and what is in its slots.   *)
SizeAt(c, t)   == ring[c].slot[t % Size].size
RecordAt(c, t) == [k \in 1..SizeAt(c, t) |-> ring[c].slot[(t + k - 1) % Size]]
Wraps(c, t)    == (t % Size) + SizeAt(c, t) > Size

(* The tail is written when the loop is left, and then, after an error,    *)
(* the rest of the rings is left too.                                      *)
WriteTail(c, t, error) ==
  /\ ring' = [ring EXCEPT ![c].tail = t]
  /\ cur' = IF error THEN NotReading ELSE [NotReading EXCEPT !.at = "next", !.todo = cur.todo]

ReadDone == /\ cur.at = "read" /\ cur.head = cur.tail
            /\ WriteTail(cur.cpu, cur.tail, FALSE)
            /\ UNCHANGED <<pb, keys, copy, had>>

(* A record that wraps is put together first; without memory for it the    *)
(* record stays where it is, and the old memory is gone.                   *)
NoMemory ==
  /\ cur.at = "read" /\ cur.head # cur.tail /\ MayFail
  /\ Wraps(cur.cpu, cur.tail) /\ copy[cur.cpu] < SizeAt(cur.cpu, cur.tail)
  /\ copy' = [copy EXCEPT ![cur.cpu] = 0]
  /\ WriteTail(cur.cpu, cur.tail, TRUE)
  /\ UNCHANGED <<pb, keys, had>>

(* Mutant: the tail is written before the user has had the record. *)
ReadRecordEarly ==
  LET c == cur.cpu  t == cur.tail IN
  /\ cur.at = "read" /\ cur.head # t
  /\ IF ring[c].tail # cur.head
     THEN /\ ring' = [ring EXCEPT ![c].tail = cur.head]
          /\ UNCHANGED <<cur, copy, had>>
     ELSE /\ copy' = copy
          /\ had' = [had EXCEPT ![c] = Append(@, RecordAt(c, t))]
          /\ cur' = [cur EXCEPT !.tail = t + SizeAt(c, t)] /\ UNCHANGED ring
  /\ UNCHANGED <<pb, keys>>

(* perf_buffer__process_record.  A user who reads the records himself may  *)
(* stop after one, with an error or without: it counts as read.            *)
ReadRecord ==
  LET c == cur.cpu  t == cur.tail  size == SizeAt(c, t) IN
  /\ cur.at = "read" /\ cur.head # t
  /\ copy' = IF Wraps(c, t) /\ copy[c] < size THEN [copy EXCEPT ![c] = size] ELSE copy
  /\ had' = [had EXCEPT ![c] = Append(@, RecordAt(c, t))]
  /\ \/ cur' = [cur EXCEPT !.tail = t + size] /\ UNCHANGED ring
     \/ EventCb /\ \E error \in BOOLEAN : WriteTail(c, t + size, error)
  /\ UNCHANGED <<pb, keys>>

Read == ReadHead \/ ReadRecord \/ ReadDone
PerfNext ==
  \/ perf_buffer__new \/ OpenFail \/ perf_buffer__open_cpu_buf \/ Made \/ Free
  \/ perf_buffer__poll \/ perf_buffer__consume \/ Read \/ NoMemory
  \/ \E c \in Cpus : Output(c) \/ perf_buffer__consume_buffer(c)

PerfSpec == PerfInit /\ [][PerfNext]_perfVars
PerfFairSpec == PerfSpec /\ SF_perfVars(perf_buffer__poll) /\ WF_perfVars(Read)
-----------------------------------------------------------------------------
PerfTypeOK ==
  /\ pb.state \in {"none", "new", "ready"} /\ pb.fds \subseteq Cpus /\ pb.polled \subseteq Cpus
  /\ keys \subseteq Cpus
  /\ \A c \in Cpus : /\ ring[c].head \in Nat /\ ring[c].tail \in 0..ring[c].head
                     /\ ring[c].lost \in 0..MaxOut /\ copy[c] \in 0..Size

(* The records of s reach the user whole, however the kernel goes on       *)
(* writing and wherever in the ring they lie.                              *)
RecordsWhole(s) ==
  \A k \in DOMAIN s : \A i \in DOMAIN s[k] :
    s[k][i] = Part(s[k][1].kind, s[k][1].nr, i, Len(s[k]))

(* How many outputs the first k records of s account for.                  *)
Through(s, k) ==
  IF k = 0 THEN 0 ELSE IF s[k][1].kind = "sample" THEN s[k][1].nr
  ELSE s[k][1].nr + IF k = 1 THEN 0 ELSE s[k - 1][1].nr

(* The records of s are all that was put out, in its order, what was       *)
(* dropped counted where it is missing, right before the sample that had   *)
(* room again: across wrapped records, users who stop, errors and malloc   *)
(* that fails.                                                             *)
NoneMissed(s) ==
  \A k \in DOMAIN s :
    \/ s[k][1].kind = "sample" /\ s[k][1].nr = Through(s, k - 1) + 1
    \/ s[k][1].kind = "lost" /\ (k > 1 => s[k - 1][1].kind = "sample")

(* A record reaches the user whole, wherever in the ring it lies; what the *)
(* user gets of a processor is all it put out, in its order, what was      *)
(* dropped counted where it is missing; and the map leads the programs to  *)
(* the rings there are, and to none of a buffer that is gone or could not  *)
(* be made.                                                                *)
PerfSound ==
  /\ PerfTypeOK /\ keys = pb.fds
  /\ \A c \in Cpus : RecordsWhole(had[c]) /\ NoneMissed(had[c])

(* Who goes on polling gets everything that was put out, as long as        *)
(* nothing fails: no ring is forgotten after it was reported.              *)
PollingSuffices ==
  \A c \in Cpus, n \in 1..MaxOut :
    (ring[c].out >= n /\ c \in pb.fds) ~>
      (pb.state # "ready" \/ Through(had[c], Len(had[c])) + ring[c].lost >= n)
=============================================================================
