----------------------------- MODULE MCLibbpfLive -----------------------------
(***************************************************************************)
(* What libbpf comes to in the end, and the abstractions it implements:    *)
(* the rings of an AF_XDP socket as two queues, the ring buffer, the perf  *)
(* buffer, the calls that load a program, and the hash map as a multimap.  *)
(* The parts share no state and are checked side by side: what is not of   *)
(* the part stays as it starts.                                            *)
(***************************************************************************)
EXTENDS XskRings, BpfProgLoad, TLC
CONSTANTS f1, f2, m1
VARIABLES part,
  log, consumer, rings, reader, given, answer,                    \* BpfRingbuf
  pb, keys, ring, cur, copy, had,                                 \* BpfPerfBuffer
  buckets, cap_bits, sz, call                                     \* BpfHashmap

-----------------------------------------------------------------------------
(* One ring with room for five words; callbacks that fail.                 *)
Ringbuf == INSTANCE BpfRingbuf WITH
  Maps <- {m1}, Room <- 5, Lens <- {8, 9}, Results <- {0, -1}, MaxRecords <- 3,
  rd <- reader, got <- given

(* Three processors of which two are online, records of two of the three   *)
(* slots; nothing fails.                                                   *)
Perf == INSTANCE BpfPerfBuffer WITH
  Cpus <- {1, 2, 3}, Online <- {1, 3}, Asked <- FALSE, EventCb <- FALSE, Size <- 3,
  Sizes <- {2}, MayFail <- FALSE, MaxOut <- 3, MaxNew <- 1

(* Two keys, of one chain until the table grows.                           *)
Hashmap == INSTANCE BpfHashmap WITH
  Keys <- {1, 2}, Values <- {4, 5}, Hash <- (1 :> 0 @@ 2 :> 1), HashBits <- 3,
  MaxSize <- 4

ASSUME PartsAssumption ==
  /\ RingAssumption /\ LogAssumption /\ Perf!PerfAssumption /\ Ringbuf!RingbufAssumption
  /\ Hashmap!HashAssumption

-----------------------------------------------------------------------------
ringbufVars == <<log, consumer, rings, reader, given, answer>>
perfVars == <<pb, keys, ring, cur, copy, had>>
hashmapVars == <<buckets, cap_bits, sz, call>>
all == <<part, ringsVars, ringbufVars, perfVars, loadVars, hashmapVars>>

(* A behaviour is of one part. *)
AllInit ==
  /\ part \in {"rings", "ringbuf", "perf", "load", "hashmap"}
  /\ RingsInit /\ (part # "rings" => tx.ring[0] = f1)
  /\ Ringbuf!RingbufInit /\ Perf!PerfInit
  /\ LoadInit
  /\ part # "load" => /\ log_level = 0 /\ errno = "0" /\ kern.need = 1
                      /\ \A x \in DOMAIN kern \ {"need"} : kern[x]
  /\ Hashmap!Init

AllNext ==
  \/ part = "rings" /\ RingsNext /\ UNCHANGED <<part, ringbufVars, perfVars, loadVars, hashmapVars>>
  \/ part = "ringbuf" /\ Ringbuf!RingbufNext /\ UNCHANGED <<part, ringsVars, perfVars, loadVars, hashmapVars>>
  \/ part = "perf" /\ Perf!PerfNext /\ UNCHANGED <<part, ringsVars, ringbufVars, loadVars, hashmapVars>>
  \/ part = "load" /\ LoadNext /\ UNCHANGED <<part, ringsVars, ringbufVars, perfVars, hashmapVars>>
  \/ part = "hashmap" /\ Hashmap!Next /\ UNCHANGED <<part, ringsVars, ringbufVars, perfVars, loadVars>>

(* The fairness the modules state, of the part that runs.                  *)
AllFair ==
  /\ WF_ringsVars(part = "rings" /\ KernelTake)
  /\ \A f \in {f1, f2} : SF_ringsVars(part = "rings" /\ KernelComplete(f))
  /\ WF_ringsVars(part = "rings" /\ Peeking) /\ SF_ringsVars(part = "rings" /\ Releasing)
  /\ WF_ringbufVars(part = "ringbuf" /\ Ringbuf!Reading)
  /\ WF_ringbufVars(part = "ringbuf" /\ Ringbuf!ring_buffer__poll)
  /\ WF_ringbufVars(part = "ringbuf" /\ Ringbuf!ring_buffer__add(m1))
  /\ \A i \in 1..3 : WF_ringbufVars(part = "ringbuf" /\ i \in DOMAIN log[m1] /\ Ringbuf!Finish(m1, i))
  /\ SF_perfVars(part = "perf" /\ Perf!perf_buffer__poll) /\ WF_perfVars(part = "perf" /\ Perf!Read)
  /\ WF_loadVars(part = "load" /\ LoadNext)

AllSpec == AllInit /\ [][AllNext]_all /\ AllFair
-----------------------------------------------------------------------------
(* Sharing of chains changes nothing of what a key has, growing the table  *)
(* nothing but the order; every call does to the value that would be found *)
(* what its strategy says; and every entry stays in the chain its key is   *)
(* looked for in.                                                          *)
ImplementsMultimap == []Hashmap!TableOK /\ Hashmap!ImplementsMultimap

(* What hashmap.h promises of HASHMAP_APPEND: the value found for a key is *)
(* the last one inserted for it.                                           *)
FindsLastInserted == Hashmap!FindsLastInserted

(* What is handed over arrives: a frame that is submitted is given back, a *)
(* record that is committed is read, and who goes on polling gets          *)
(* everything the processors put out, no ring forgotten after it was       *)
(* reported; and the calls that load a program end.                        *)
NothingIsStuck ==
  /\ FramesReturn /\ Ringbuf!CommittedIsRead /\ Perf!PollingSuffices
  /\ part = "load" => <>(pc = "done")
=============================================================================
