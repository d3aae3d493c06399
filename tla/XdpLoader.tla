------------------------------- MODULE XdpLoader -------------------------------
(***************************************************************************)
(* xdp_loader on one interface: runs of the program that load an object,   *)
(* attach its program and pin its maps, or detach what is attached; and    *)
(* xdp_prog_user, which opens a pinned map and fills it.                   *)
(*                                                                         *)
(* A step is a system call.  The kernel keeps one program per interface,   *)
(* in generic ("skb") or native ("drv") mode, and a file for every pinned  *)
(* map.  A run may be killed between any two calls; nothing it did is      *)
(* undone then.  setup.py runs one program after the other.                *)
(***************************************************************************)
EXTENDS Integers, Sequences, FiniteSets

CONSTANTS
  Loaders,    \* processes that run xdp_loader
  MapSeq,     \* names of the maps in the object, in its order
  Options,    \* command lines: [mode, force, reuse, unload]
  NoMap, NoProg,
  DrvSupported,  \* the driver can run a program in native mode
  Crashes,    \* runs may be killed
  WriterRoutes, \* what xdp_prog_user writes
  MaxRuns     \* bound: runs of xdp_loader

STATS    == "xdp_stats_map"
REDIRECT == "static_redirect_8b"
PinNames == { MapSeq[i] : i \in DOMAIN MapSeq }
Runs     == 1..MaxRuns

LoaderAssumption ==
  /\ MapSeq \in Seq(STRING) /\ {STATS, REDIRECT} \subseteq PinNames
  /\ \A i, j \in DOMAIN MapSeq : MapSeq[i] = MapSeq[j] => i = j
  /\ Options \subseteq [mode : {"auto", "skb", "drv"}, force : BOOLEAN, reuse : BOOLEAN,
                        unload : BOOLEAN]
  /\ MaxRuns \in Nat /\ NoProg \notin Runs /\ NoMap \notin Runs \X PinNames

(* setup.py waits for a program before it runs the next. *)
OneAtATime == \A l, k \in Loaders : l = k

VARIABLES
  link,     \* what the kernel has attached: [mode, prog], prog NoProg for none
  pins,     \* the map behind each file of the pin directory
  progMaps, \* the maps of every program loaded
  entries,  \* what has been written into a redirect map
  runs,     \* number of runs begun
  ld,       \* the loaders: [pc, opt, prog, i]
  last,     \* how the last run to end did: "ok", "fail" or "crash"
  wr        \* xdp_prog_user: [pc, map]

kvars == <<link, pins, progMaps, entries>>
lvars == <<kvars, runs, ld, last, wr>>

(* A map is named by the run that created it.                              *)
Map(run, name) == <<run, name>>
Bare == [mode |-> "none", prog |-> NoProg]
Idle == [pc |-> "idle", opt |-> NoMap, prog |-> NoProg, i |-> 0]

LoaderInit ==
  /\ link = Bare
  /\ pins = [m \in PinNames |-> NoMap]
  /\ progMaps = [r \in Runs |-> [m \in PinNames |-> NoMap]]
  /\ entries = [r \in Runs |-> {}]
  /\ runs = 0
  /\ ld = [l \in Loaders |-> Idle]
  /\ last = "ok"
  /\ wr = [pc |-> "idle", map |-> NoMap]

Goto(l, pc, i) == ld' = [ld EXCEPT ![l].pc = pc, ![l].i = i]
Exit(l, how)   == ld' = [ld EXCEPT ![l] = Idle] /\ last' = how
-----------------------------------------------------------------------------
(* What the kernel says to an attach: "ok", or an error of its checks, or  *)
(* a refusal of the driver.                                                *)
EffMode(mode) == IF mode # "auto" THEN mode
                 ELSE IF DrvSupported THEN "drv" ELSE "skb"

Answers(mode, noexist) ==
  IF EffMode(mode) = "drv" /\ ~DrvSupported THEN {"EOPNOTSUPP"}
  ELSE IF link.prog # NoProg /\ link.mode # EffMode(mode) THEN {"EEXIST"}
  ELSE IF link.prog # NoProg /\ noexist THEN {"EBUSY"}
  ELSE {"ok", "ENOMEM"}

Start(l) ==
  /\ ld[l].pc = "idle" /\ runs < MaxRuns
  /\ wr.pc # "open"
  /\ runs' = runs + 1
  /\ wr' = [pc |-> "idle", map |-> NoMap]
  /\ \E o \in Options :
       ld' = [ld EXCEPT ![l] =
         [ pc |-> IF o.unload THEN "unload" ELSE IF o.reuse THEN "reuse" ELSE "load",
           opt |-> o, prog |-> runs + 1, i |-> 1 ]]
  /\ UNCHANGED <<kvars, last>>

(* reuse_maps: the maps of the object are opened where they are pinned.    *)
ReuseMap(l) ==
  /\ ld[l].pc = "reuse"
  /\ LET m == MapSeq[ld[l].i]
     IN  IF pins[m] = NoMap
         THEN Exit(l, "fail") /\ UNCHANGED progMaps
         ELSE /\ progMaps' = [progMaps EXCEPT ![ld[l].prog][m] = pins[m]]
              /\ IF ld[l].i = Len(MapSeq) THEN Goto(l, "load", 1)
                                          ELSE Goto(l, "reuse", ld[l].i + 1)
              /\ UNCHANGED last
  /\ UNCHANGED <<link, pins, entries, runs, wr>>

(* bpf_object__load creates the maps that are not reused.                  *)
LoadObject(l) ==
  /\ ld[l].pc = "load"
  /\ \/ /\ progMaps' = [progMaps EXCEPT ![ld[l].prog] =
              [m \in PinNames |-> IF ld[l].opt.reuse THEN @[m] ELSE Map(ld[l].prog, m)]]
        /\ Goto(l, "attach", 1) /\ UNCHANGED last
     \/ Exit(l, "fail") /\ UNCHANGED progMaps
  /\ UNCHANGED <<link, pins, entries, runs, wr>>

(* Mutant: maps that are reused are pinned again. *)
AttachedPins(l) ==
  /\ link' = [mode |-> EffMode(ld[l].opt.mode), prog |-> ld[l].prog]
  /\ Goto(l, "access", 1) /\ UNCHANGED last

Attached(l) ==
  /\ link' = [mode |-> EffMode(ld[l].opt.mode), prog |-> ld[l].prog]
  /\ IF ld[l].opt.reuse THEN Exit(l, "ok") ELSE Goto(l, "access", 1) /\ UNCHANGED last

(* The first attach.  With --force a program of the other mode is detached *)
(* and the attach repeated.                                                *)
xdp_link_attach(l) ==
  /\ ld[l].pc = "attach"
  /\ \E a \in Answers(ld[l].opt.mode, ~ld[l].opt.force) :
       \/ a = "ok" /\ Attached(l)
       \/ a = "EEXIST" /\ ld[l].opt.force
            /\ Goto(l, "detach", 1) /\ UNCHANGED <<link, last>>
       \/ a # "ok" /\ ~(a = "EEXIST" /\ ld[l].opt.force)
            /\ Exit(l, "fail") /\ UNCHANGED link
  /\ UNCHANGED <<pins, progMaps, entries, runs, wr>>

DetachOther(l) ==
  /\ ld[l].pc = "detach"
  /\ LET other == IF ld[l].opt.mode = "skb" THEN "drv" ELSE "skb"
     IN  link' = IF link.mode = other THEN Bare ELSE link
  /\ Goto(l, "again", 1)
  /\ UNCHANGED <<pins, progMaps, entries, runs, wr, last>>

AttachAgain(l) ==
  /\ ld[l].pc = "again"
  /\ \E a \in Answers(ld[l].opt.mode, FALSE) :
       IF a = "ok" THEN Attached(l) ELSE Exit(l, "fail") /\ UNCHANGED link
  /\ UNCHANGED <<pins, progMaps, entries, runs, wr>>

-----------------------------------------------------------------------------
(* pin_maps_in_bpf_object looks for one of the files only.                 *)
Access(l) ==
  /\ ld[l].pc = "access"
  /\ Goto(l, IF pins[STATS] # NoMap THEN "unpin" ELSE "pin", 1)
  /\ UNCHANGED <<kvars, runs, wr, last>>

(* bpf_object__unpin_maps stops at the first file that is not there.       *)
UnpinMap(l) ==
  /\ ld[l].pc = "unpin"
  /\ LET m == MapSeq[ld[l].i]
     IN  IF pins[m] = NoMap
         THEN Exit(l, "fail") /\ UNCHANGED pins
         ELSE /\ pins' = [pins EXCEPT ![m] = NoMap]
              /\ IF ld[l].i = Len(MapSeq) THEN Goto(l, "pin", 1)
                                          ELSE Goto(l, "unpin", ld[l].i + 1)
              /\ UNCHANGED last
  /\ UNCHANGED <<link, progMaps, entries, runs, wr>>

(* bpf_object__pin_maps undoes its own pins when one of them fails.        *)
PinMap(l) ==
  /\ ld[l].pc = "pin"
  /\ LET m == MapSeq[ld[l].i]
     IN  IF pins[m] # NoMap
         THEN Goto(l, "rollback", ld[l].i - 1) /\ UNCHANGED <<pins, last>>
         ELSE /\ pins' = [pins EXCEPT ![m] = progMaps[ld[l].prog][m]]
              /\ IF ld[l].i = Len(MapSeq) THEN Exit(l, "ok")
                 ELSE Goto(l, "pin", ld[l].i + 1) /\ UNCHANGED last
  /\ UNCHANGED <<link, progMaps, entries, runs, wr>>

Rollback(l) ==
  /\ ld[l].pc = "rollback"
  /\ IF ld[l].i = 0
     THEN Exit(l, "fail") /\ UNCHANGED pins
     ELSE /\ pins' = [pins EXCEPT ![MapSeq[ld[l].i]] = NoMap]
          /\ Goto(l, "rollback", ld[l].i - 1) /\ UNCHANGED last
  /\ UNCHANGED <<link, progMaps, entries, runs, wr>>

(* xdp_link_detach asks for the program of the mode on the command line,   *)
(* and is content when there is none.                                      *)
xdp_link_detach(l) ==
  /\ ld[l].pc = "unload"
  /\ link' = IF ld[l].opt.mode \in {"auto", link.mode} THEN Bare ELSE link
  /\ Exit(l, "ok")
  /\ UNCHANGED <<pins, progMaps, entries, runs, wr>>

Crash(l) ==
  /\ Crashes /\ ld[l].pc # "idle"
  /\ Exit(l, "crash")
  /\ UNCHANGED <<kvars, runs, wr>>

-----------------------------------------------------------------------------
(* xdp_prog_user, started when no loader runs.                             *)
NoLoader == \A l \in Loaders : ld[l].pc = "idle"

OpenPinned ==
  /\ NoLoader /\ wr.pc = "idle" /\ pins[REDIRECT] # NoMap
  /\ wr' = [pc |-> "open", map |-> pins[REDIRECT]]
  /\ UNCHANGED <<kvars, runs, ld, last>>

WriteEntry ==
  /\ wr.pc = "open"
  /\ \E r \in WriterRoutes \ entries[wr.map[1]] :
       entries' = [entries EXCEPT ![wr.map[1]] = @ \cup {r}]
  /\ UNCHANGED <<link, pins, progMaps, runs, ld, last, wr>>

WriterEnds ==
  /\ wr.pc = "open" /\ WriterRoutes \subseteq entries[wr.map[1]]
  /\ wr' = [wr EXCEPT !.pc = "done"]
  /\ UNCHANGED <<kvars, runs, ld, last>>

Proceed(l) ==
  \/ Start(l) \/ ReuseMap(l) \/ LoadObject(l)
  \/ xdp_link_attach(l) \/ DetachOther(l) \/ AttachAgain(l)
  \/ Access(l) \/ UnpinMap(l) \/ PinMap(l) \/ Rollback(l)
  \/ xdp_link_detach(l) \/ Crash(l)

LoaderNext == \/ \E l \in Loaders : Proceed(l)
              \/ OpenPinned \/ WriteEntry \/ WriterEnds

LoaderSpec == LoaderInit /\ [][LoaderNext]_lvars
-----------------------------------------------------------------------------
PCs == {"idle", "reuse", "load", "attach", "detach", "again", "access", "unpin",
        "pin", "rollback", "unload"}
MapIds == (Runs \X PinNames) \cup {NoMap}

LoaderTypeOK ==
  /\ link \in [mode : {"none", "skb", "drv"}, prog : Runs \cup {NoProg}]
  /\ link.mode = "none" <=> link.prog = NoProg
  /\ pins \in [PinNames -> MapIds]
  /\ progMaps \in [Runs -> [PinNames -> MapIds]]
  /\ entries \in [Runs -> SUBSET WriterRoutes]
  /\ \A l \in Loaders : ld[l].pc \in PCs /\ ld[l].i \in 0..Len(MapSeq)
  /\ wr.map \in MapIds /\ (wr.pc = "open" => wr.map # NoMap)

(***************************************************************************)
(* A loader that reports success leaves the maps of the attached program   *)
(* where the other tools look for them, whatever runs before it left.      *)
(***************************************************************************)
SuccessReachable ==
  NoLoader /\ runs > 0 /\ last = "ok" /\ link.prog = runs =>
    \A m \in PinNames : pins[m] = progMaps[link.prog][m]

(* The writer that follows a successful loader fills the map the attached  *)
(* program reads.                                                          *)
RoutesReachProgram ==
  wr.pc = "done" /\ last = "ok" /\ link.prog = runs =>
    entries[progMaps[link.prog][REDIRECT][1]] = WriterRoutes

(* Without --force and --unload no run takes away or replaces a program.   *)
NotForcedNotTouchedStep ==
  link.prog # NoProg /\ link' # link =>
    \E l \in Loaders : ld[l].pc # "idle" /\ (ld[l].opt.force \/ ld[l].opt.unload)

(* A loader touches nothing of the pin directory before its program is     *)
(* attached, and nothing at all when it reuses the maps.                   *)
PinsOnlyAfterAttachStep ==
  pins' # pins =>
    \E l \in Loaders : link.prog = ld[l].prog /\ ~ld[l].opt.reuse

(* What holds of the loader and the writer after it, run after run.        *)
LoaderSafe == LoaderTypeOK /\ SuccessReachable /\ RoutesReachProgram
LoaderStep == NotForcedNotTouchedStep /\ PinsOnlyAfterAttachStep
LoaderRight == []LoaderSafe /\ [][LoaderStep]_lvars
=============================================================================
