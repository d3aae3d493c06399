-------------------------------- MODULE BpfPin --------------------------------
(***************************************************************************)
(* Pinning of maps and programs in libbpf.c: single maps, all maps, all    *)
(* programs with their instances, and everything.  A call works file by    *)
(* file, and takes back what it has done when a file cannot be made;       *)
(* meanwhile another process makes files of its own.                       *)
(***************************************************************************)
EXTENDS Integers, Sequences, FiniteSets

CONSTANTS
  Dirs,       \* directories of the BPF file system, as sequences of names
  MapName,    \* sequence: the names of the maps, as sanitize_pin_path leaves them
  ProgName,   \* sequence: the names the programs are pinned under
  Instances,  \* sequence: how many instances each has, -1 if it is not loaded
  MaxOthers   \* bound: files of other processes

NoPath == <<>>
MapIds   == DOMAIN MapName
ProgIds  == DOMAIN ProgName

MapFile(d, m)     == d \o <<MapName[m]>>
ProgFile(d, p, j) == d \o IF Instances[p] = 1 THEN <<ProgName[p]>> ELSE <<ProgName[p], j>>
PinFiles == {MapFile(d, m) : d \in Dirs, m \in MapIds}
         \cup UNION {{ProgFile(d, p, j) : j \in 1..Instances[p]} : d \in Dirs, p \in ProgIds}

(* Maps and programs are pinned at files of their own. *)
NamesAssumption ==
  /\ MapIds = 1..Len(MapName) /\ ProgIds = 1..Len(ProgName)
  /\ Len(MapName) \in Nat /\ Len(ProgName) \in Nat
  /\ DOMAIN Instances = ProgIds /\ \A p \in ProgIds : Instances[p] \in Int
  /\ NoPath \notin Dirs \cup PinFiles
  /\ \A d, e \in Dirs, m \in MapIds :
       /\ \A n \in MapIds : MapFile(d, m) = MapFile(e, n) => m = n
       /\ \A p \in ProgIds : \A j \in 1..Instances[p] : MapFile(d, m) # ProgFile(e, p, j)

VARIABLES
  fs,     \* what each file is a pin of
  maps,   \* of each map: [pin_path, pinned]
  op,     \* the call being made: [call, path, at, i, j]
  made    \* history: the files the call has made

pinVars == <<fs, maps, op, made>>

NoPin == <<"free">>
NotCalled == [call |-> "none", path |-> NoPath, at |-> "none", i |-> 0, j |-> 0]

PinsInit ==
  /\ fs = [f \in PinFiles |-> NoPin]
  /\ maps = [m \in MapIds |-> [pin_path |-> NoPath, pinned |-> FALSE]]
  /\ op = NotCalled /\ made = {}

PathOf(m) == IF op.path = NoPath THEN NoPath ELSE MapFile(op.path, m)
Go(at, i, j) == op' = [op EXCEPT !.at = at, !.i = i, !.j = j]
Return == op' = NotCalled

-----------------------------------------------------------------------------
(* make_parent_dir, check_path and bpf_obj_pin: any of them may fail, and  *)
(* the last does if there is a file.                                       *)
MakePin(f, thing) == fs[f] = NoPin /\ fs' = [fs EXCEPT ![f] = thing] /\ made' = made \cup {f}
UnlinkPin(f)      == fs' = [fs EXCEPT ![f] = NoPin] /\ UNCHANGED made

(* bpf_map__pin: what it may do, and whether it succeeded.  The path stays *)
(* with the map even if it could not be pinned there.                      *)
bpf_map__pin(m, path, ok) ==
  LET old == maps[m].pin_path
      new == IF old # NoPath THEN old ELSE path
  IN  \/ /\ \/ (old # NoPath /\ path \notin {NoPath, old})
            \/ (old = NoPath /\ (path = NoPath \/ maps[m].pinned))
         /\ ~ok /\ UNCHANGED <<fs, maps, made>>
      \/ /\ old # NoPath /\ path \in {NoPath, old} /\ maps[m].pinned
         /\ ok /\ UNCHANGED <<fs, maps, made>>
      \/ /\ IF old = NoPath THEN path # NoPath ELSE path \in {NoPath, old}
         /\ ~maps[m].pinned
         /\ IF ok THEN MakePin(new, <<"map", m>>) ELSE UNCHANGED <<fs, made>>
         /\ maps' = [maps EXCEPT ![m] = [pin_path |-> new, pinned |-> ok]]

bpf_map__unpin(m, path, ok) ==
  LET old == maps[m].pin_path
      at  == IF old # NoPath THEN old ELSE path
      can == at # NoPath /\ path \in {NoPath, at} /\ fs[at] # NoPin
  IN  IF can THEN /\ ok /\ UnlinkPin(at)
                  /\ maps' = [maps EXCEPT ![m].pinned = FALSE]
             ELSE ~ok /\ UNCHANGED <<fs, maps, made>>

(* Only of a map that is not pinned: the path of a pinned one is what it   *)
(* is unpinned by.                                                         *)
bpf_map__set_pin_path(m, path) ==
  /\ op = NotCalled /\ ~maps[m].pinned
  /\ maps' = [maps EXCEPT ![m].pin_path = path]
  /\ UNCHANGED <<fs, op, made>>

CallPins(c, d) ==
  /\ op = NotCalled
  /\ op' = [call |-> c, path |-> d, i |-> 1, j |-> 1,
            at |-> CASE c \in {"pin", "pin_maps"} -> "maps" [] c = "pin_programs" -> "progs"
                     [] c = "unpin_maps" -> "unmaps" [] OTHER -> "unprogs"]
  /\ made' = {} /\ UNCHANGED <<fs, maps>>

-----------------------------------------------------------------------------

(* bpf_object__pin_maps.  Without a path the maps that have none are left. *)
bpf_object__pin_maps ==
  /\ op.at = "maps"
  /\ \/ /\ op.i \notin MapIds
        /\ IF op.call = "pin" THEN Go("progs", 1, 1) ELSE Return
        /\ UNCHANGED <<fs, maps, made>>
     \/ /\ op.i \in MapIds /\ PathOf(op.i) = NoPath /\ maps[op.i].pin_path = NoPath
        /\ Go("maps", op.i + 1, 1) /\ UNCHANGED <<fs, maps, made>>
     \/ /\ op.i \in MapIds /\ (PathOf(op.i) # NoPath \/ maps[op.i].pin_path # NoPath)
        /\ \E ok \in BOOLEAN :
             /\ bpf_map__pin(op.i, PathOf(op.i), ok)
             /\ IF ok THEN Go("maps", op.i + 1, 1) ELSE Go("undo_maps", op.i - 1, 1)

(* err_unpin_maps                                                          *)
UndoMaps ==
  /\ op.at = "undo_maps"
  /\ IF op.i = 0 THEN Return /\ UNCHANGED <<fs, maps, made>>
     ELSE /\ \E ok \in BOOLEAN : bpf_map__unpin(op.i, NoPath, ok)
          /\ Go("undo_maps", op.i - 1, 1)

(* bpf_object__unpin_maps stops at the first map that cannot be unpinned.  *)
bpf_object__unpin_maps ==
  /\ op.at = "unmaps"
  /\ \/ op.i \notin MapIds /\ Return /\ UNCHANGED <<fs, maps, made>>
     \/ /\ op.i \in MapIds /\ PathOf(op.i) = NoPath /\ maps[op.i].pin_path = NoPath
        /\ Go("unmaps", op.i + 1, 1) /\ UNCHANGED <<fs, maps, made>>
     \/ /\ op.i \in MapIds /\ (PathOf(op.i) # NoPath \/ maps[op.i].pin_path # NoPath)
        /\ \E ok \in BOOLEAN :
             /\ bpf_map__unpin(op.i, PathOf(op.i), ok)
             /\ IF ok THEN Go("unmaps", op.i + 1, 1) ELSE Return

-----------------------------------------------------------------------------
NextInstance == IF op.j < Instances[op.i] THEN <<op.i, op.j + 1>> ELSE <<op.i + 1, 1>>

(* bpf_object__pin_programs and bpf_program__pin.  A program that was not  *)
(* loaded has no instance and makes the call fail.                         *)
bpf_object__pin_programs ==
  /\ op.at = "progs" /\ UNCHANGED maps
  /\ \/ op.i \notin ProgIds /\ Return /\ UNCHANGED <<fs, made>>
     \/ /\ op.i \in ProgIds
        /\ Go("undo_inst", op.i, op.j - 1) /\ UNCHANGED <<fs, made>>
     \/ /\ op.i \in ProgIds /\ Instances[op.i] > 0
        /\ MakePin(ProgFile(op.path, op.i, op.j), <<"prog", op.i, op.j>>)
        /\ Go("progs", NextInstance[1], NextInstance[2])

(* err_unpin of bpf_program__pin: the instances of this program.           *)
UndoInstances ==
  /\ op.at = "undo_inst" /\ UNCHANGED maps
  /\ IF op.j = 0 THEN Go("undo_progs", op.i - 1, 1) /\ UNCHANGED <<fs, made>>
     ELSE UnlinkPin(ProgFile(op.path, op.i, op.j)) /\ Go("undo_inst", op.i, op.j - 1)

(* bpf_program__unpin: its instances up to the first that is not there.    *)
bpf_program__unpin(p) ==
  LET gone == {j \in 1..Instances[p] : \A k \in 1..j : fs[ProgFile(op.path, p, k)] # NoPin}
      all  == gone = 1..Instances[p] /\ gone # {}
  IN  /\ fs' = [f \in PinFiles |-> IF \E j \in gone : f = ProgFile(op.path, p, j) THEN NoPin ELSE fs[f]]
      /\ UNCHANGED <<maps, made>>
      /\ op' \in IF all THEN {[op EXCEPT !.i = @ + 1]} ELSE {NotCalled}

(* Mutant: after the programs, the maps stay pinned. *)
UndoProgramsOnly ==
  /\ op.at = "undo_progs"
  /\ IF op.i = 0
     THEN Return /\ UNCHANGED <<fs, maps, made>>
     ELSE /\ fs' = [f \in PinFiles |-> IF \E j \in 1..Instances[op.i] : f = ProgFile(op.path, op.i, j)
                                    THEN NoPin ELSE fs[f]]
          /\ Go("undo_progs", op.i - 1, 1) /\ UNCHANGED <<maps, made>>

(* err_unpin_programs: the programs before; then bpf_object__pin unpins    *)
(* the maps.                                                               *)
UndoPrograms ==
  /\ op.at = "undo_progs"
  /\ IF op.i = 0
     THEN /\ IF op.call = "pin" THEN Go("unmaps", 1, 1) ELSE Return
          /\ UNCHANGED <<fs, maps, made>>
     ELSE /\ fs' = [f \in PinFiles |-> IF \E j \in 1..Instances[op.i] : f = ProgFile(op.path, op.i, j)
                                    THEN NoPin ELSE fs[f]]
          /\ Go("undo_progs", op.i - 1, 1) /\ UNCHANGED <<maps, made>>

bpf_object__unpin_programs ==
  /\ op.at = "unprogs"
  /\ IF op.i \in ProgIds THEN bpf_program__unpin(op.i)
     ELSE Return /\ UNCHANGED <<fs, maps, made>>

OneMap(m) ==
  /\ op = NotCalled
  /\ \E ok \in BOOLEAN, path \in {NoPath} \cup {MapFile(d, m) : d \in Dirs} :
       bpf_map__unpin(m, path, ok) \/ bpf_map__pin(m, path, ok)
  /\ UNCHANGED op

OtherPin(f) ==
  /\ Cardinality({g \in PinFiles : fs[g] = <<"other">>}) < MaxOthers
  /\ fs[f] = NoPin /\ fs' = [fs EXCEPT ![f] = <<"other">>] /\ UNCHANGED <<maps, op, made>>

PinsNext ==
  \/ \E m \in MapIds :
       \/ OneMap(m) \/ bpf_map__set_pin_path(m, NoPath)
       \/ \E d \in Dirs : bpf_map__set_pin_path(m, MapFile(d, m))
  \/ \E d \in Dirs, c \in {"pin", "pin_maps", "unpin_maps", "pin_programs", "unpin_programs"} : CallPins(c, d)
  \/ CallPins("pin_maps", NoPath) \/ CallPins("unpin_maps", NoPath)
  \/ bpf_object__pin_maps \/ UndoMaps \/ bpf_object__unpin_maps
  \/ bpf_object__pin_programs \/ UndoInstances \/ UndoPrograms \/ bpf_object__unpin_programs
  \/ \E f \in PinFiles : OtherPin(f)

PinsSpec == PinsInit /\ [][PinsNext]_pinVars
-----------------------------------------------------------------------------
Pinning == op.call \in {"pin", "pin_maps", "pin_programs"}

(* What a map says of itself is so: where it is pinned there is a pin of   *)
(* it, through calls that fail half way and are taken back.                *)
PinnedIsThere == \A m \in MapIds : maps[m].pinned => fs[maps[m].pin_path] = <<"map", m>>

(* When a call to pin fails, nothing it made is left of it.                *)
FailedPinLeavesNothingStep ==
  Pinning /\ op' = NotCalled /\ op.at \notin {"maps", "progs"} =>
    \A f \in made : fs[f] \in {NoPin, <<"other">>}

(* A call that takes back what it did leaves the files of others alone,    *)
(* even the one it failed for.                                             *)
RollbackSparesOthersStep ==
  Pinning => \A f \in PinFiles : fs[f] = <<"other">> => fs'[f] = <<"other">>

(* Where a map says it is pinned there is a pin of it, through calls that  *)
(* fail half way; when a call to pin fails nothing it made is left; and    *)
(* what it takes back leaves the files of others alone, even the one it    *)
(* failed for.                                                             *)
PinsRight ==
  []PinnedIsThere /\ [][FailedPinLeavesNothingStep /\ RollbackSparesOthersStep]_pinVars
=============================================================================
