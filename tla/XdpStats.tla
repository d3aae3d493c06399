------------------------------- MODULE XdpStats -------------------------------
(***************************************************************************)
(* xdp_stats beside the programs that count: xdp_stats_record_action on    *)
(* every CPU, xdp_loader replacing program and maps, and a reader that     *)
(* prints how much the counters grew between two readings.                 *)
(*                                                                         *)
(* A record has two counters, incremented one after the other; a reading   *)
(* copies one counter of one CPU after the other and adds them up.  Every  *)
(* packet has PktBytes bytes.  The reader asks the kernel for the map, its *)
(* id and its values; each call may fail.                                  *)
(***************************************************************************)
EXTENDS XdpLoader, FiniteSetsExt

CONSTANTS
  Cpus,       \* 1..n
  PktBytes,   \* bytes of a packet
  Leftovers,  \* what an uninitialised counter on the stack may hold
  MaxPackets  \* bound: packets counted

StatsAssumption ==
  IsFiniteSet(Cpus) /\ Cpus = 1..Cardinality(Cpus) /\ PktBytes \in Nat
  /\ Leftovers \subseteq Nat

VARIABLES
  count,   \* xdp_stats_map of each run, per CPU: [pkts, bytes]
  half,    \* the map whose bytes a CPU has still to add, or NoMap
  rd,      \* the reader: [pc, map, fd, seen, prev, rec, sum, next]
  printed  \* history: the readings subtracted for the last line

tvars == <<count, half, rd, printed>>
allvars == <<lvars, tvars>>

Zero == [pkts |-> 0, bytes |-> 0]
(* A reading remembers the map it comes from, NoMap when the lookup failed *)
(* and it holds what was on the stack; the first record is blank.          *)
Blank == [map |-> NoMap, pkts |-> 0, bytes |-> 0]

(* Between two runs of stats_poll nothing is left but main's info.         *)
NotReading(pc, m) ==
  [pc |-> pc, map |-> m, fd |-> NoMap, seen |-> FALSE, prev |-> Blank, rec |-> Blank,
   sum |-> Blank, next |-> 1]

StatsInit ==
  /\ LoaderInit
  /\ count = [r \in Runs |-> [c \in Cpus |-> Zero]]
  /\ half = [c \in Cpus |-> NoMap]
  /\ rd = NotReading("open", NoMap)
  /\ printed = <<Blank, Blank>>
-----------------------------------------------------------------------------
Counted == MapThenSumSet(LAMBDA r : MapThenSumSet(LAMBDA c : count[r][c].pkts, Cpus), Runs)

(* xdp_stats_record_action on one CPU; programs that were replaced may     *)
(* still be running.                                                       *)
RecordPacket(c) ==
  /\ half[c] = NoMap /\ link.prog # NoProg /\ Counted < MaxPackets
  /\ LET r == progMaps[link.prog][STATS][1]
     IN  /\ count' = [count EXCEPT ![r][c].pkts = @ + 1]
         /\ half' = [half EXCEPT ![c] = Map(r, STATS)]
  /\ UNCHANGED <<lvars, rd, printed>>

RecordBytes(c) ==
  /\ half[c] # NoMap
  /\ count' = [count EXCEPT ![half[c][1]][c].bytes = @ + PktBytes]
  /\ half' = [half EXCEPT ![c] = NoMap]
  /\ UNCHANGED <<lvars, rd, printed>>

-----------------------------------------------------------------------------
(* map_get_value_percpu_array: word 2c-1 is the packets of CPU c, word 2c  *)
(* its bytes.                                                              *)
Words == 2 * Cardinality(Cpus)

ReadWord ==
  /\ rd.pc \in {"first", "collect"} /\ rd.fd # NoMap /\ rd.next <= Words
  /\ LET c == (rd.next + 1) \div 2
         v == count[rd.fd[1]][c]
     IN  rd' = IF rd.next % 2 = 1
               THEN [rd EXCEPT !.next = @ + 1, !.sum.pkts = @ + v.pkts]
               ELSE [rd EXCEPT !.next = @ + 1, !.sum.bytes = @ + v.bytes]
  /\ UNCHANGED <<lvars, count, half, printed>>

(* The lookup fails: map_collect takes over a datarec nobody initialised.  *)
LookupFails ==
  /\ rd.pc \in {"first", "collect"} /\ rd.next = 1
  /\ \E p, b \in Leftovers :
       rd' = [rd EXCEPT !.next = Words + 1, !.sum = [map |-> NoMap, pkts |-> p, bytes |-> b]]
  /\ UNCHANGED <<lvars, count, half, printed>>

Begin(r, pc) == [r EXCEPT !.pc = pc, !.next = 1,
                          !.sum = [map |-> r.map, pkts |-> 0, bytes |-> 0]]
Finish(r) == [r EXCEPT !.pc = "reopen", !.prev = Blank, !.rec = r.sum, !.sum = Blank,
                       !.fd = NoMap, !.next = 1]

(***************************************************************************)
(* The pinned file is gone or cannot be opened.  main ends; stats_poll     *)
(* returns 40, which main does not take for an error, and opens once more. *)
(***************************************************************************)
OpenFails ==
  /\ rd.pc \in {"open", "reopen"}
  /\ rd' = NotReading(IF rd.pc = "open" THEN "failed" ELSE "open", rd.map)
  /\ UNCHANGED <<lvars, count, half, printed>>

(* main: the pinned map is opened and its id kept.                         *)
OpenStats ==
  /\ rd.pc = "open" /\ pins[STATS] # NoMap
  /\ rd' = Begin([rd EXCEPT !.map = pins[STATS], !.fd = pins[STATS], !.seen = FALSE], "first")
  /\ UNCHANGED <<lvars, count, half, printed>>

(***************************************************************************)
(* Opened, but the kernel does not tell what it is: open_bpf_map_file      *)
(* returns 40, which nobody takes for an error.  No map has that           *)
(* descriptor.  main goes by the id it has from the turn before; in its    *)
(* first turn the sizes are zero, and it ends.                             *)
(***************************************************************************)
OpenNoInfo ==
  /\ rd.pc = "open" /\ pins[STATS] # NoMap
  /\ rd' = IF rd.map = NoMap THEN NotReading("failed", NoMap)
           ELSE Begin([rd EXCEPT !.fd = NoMap, !.seen = FALSE], "first")
  /\ UNCHANGED <<lvars, count, half, printed>>

(* stats_poll begins with a record of its own and a quick reading.         *)
FirstReading ==
  /\ rd.pc = "first" /\ rd.next > Words
  /\ rd' = Finish(rd)
  /\ UNCHANGED <<lvars, count, half, printed>>

(* Mutant: the id is not compared. *)
ReopenAny ==
  /\ rd.pc = "reopen" /\ pins[STATS] # NoMap
  /\ rd' = Begin([rd EXCEPT !.prev = rd.rec, !.map = pins[STATS], !.fd = pins[STATS],
                            !.seen = TRUE], "collect")
  /\ UNCHANGED <<lvars, count, half, printed>>

(* Every turn opens the pinned file again; main starts over on another map. *)
Reopen ==
  /\ rd.pc = "reopen" /\ pins[STATS] # NoMap
  /\ rd' = IF pins[STATS] # rd.map
           THEN NotReading("open", rd.map)
           ELSE Begin([rd EXCEPT !.prev = rd.rec, !.fd = pins[STATS], !.seen = TRUE], "collect")
  /\ UNCHANGED <<lvars, count, half, printed>>

(* Without information the id is that of the turn before, or zero if this  *)
(* is the first.                                                           *)
ReopenNoInfo ==
  /\ rd.pc = "reopen" /\ pins[STATS] # NoMap
  /\ rd' = IF ~rd.seen THEN NotReading("open", rd.map)
           ELSE Begin([rd EXCEPT !.prev = rd.rec, !.fd = NoMap], "collect")
  /\ UNCHANGED <<lvars, count, half, printed>>

Collect ==
  /\ rd.pc = "collect" /\ rd.next > Words
  /\ rd' = Finish(rd)
  /\ printed' = <<rd.prev, rd'.rec>>
  /\ UNCHANGED <<lvars, count, half>>

StatsNext ==
  \/ LoaderNext /\ UNCHANGED tvars
  \/ \E c \in Cpus : RecordPacket(c) \/ RecordBytes(c)
  \/ OpenFails \/ OpenStats \/ OpenNoInfo \/ ReadWord \/ LookupFails
  \/ FirstReading \/ Reopen \/ ReopenNoInfo \/ Collect

StatsSpec == StatsInit /\ [][StatsNext]_allvars
-----------------------------------------------------------------------------
(***************************************************************************)
(* The readings a line compares that come from a map come from the same    *)
(* one, and the later is no smaller, so that no rate is negative however   *)
(* often program and maps are replaced meanwhile, whichever calls failed   *)
(* before, and however the copies of the CPUs interleave with packets.     *)
(* (A line with a reading that failed is printed all the same.)            *)
(***************************************************************************)
RatesOfOneMap ==
  LET a == printed[1] b == printed[2]
  IN  a.map # NoMap /\ b.map # NoMap =>
        a.map = b.map /\ a.pkts <= b.pkts /\ a.bytes <= b.bytes
=============================================================================
