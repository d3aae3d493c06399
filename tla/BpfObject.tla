------------------------------ MODULE BpfObject ------------------------------
(***************************************************************************)
(* libbpf.c, the life of a bpf_object: opened, loaded step by step, with   *)
(* everything undone when a step fails, unloaded and closed.  Several      *)
(* objects, each in a process of its own, are loaded at the same time and  *)
(* share maps through the files that auto-pinning leaves in the BPF file   *)
(* system.                                                                 *)
(***************************************************************************)
EXTENDS Integers, Sequences, FiniteSets, Bags, SequencesExt

CONSTANTS
  Objects,
  Paths,    \* of pins
  Maps,     \* the maps of an object: [pin, kind, inner, slots]
  Programs, \* its programs: [load, sub, prep, instances]
  MaxMaps,  \* bound: maps the kernel ever makes
  MaxKept   \* bound: an object is opened again while fewer are kept

NoPath == "none"

MapsAssumption ==
  \A i \in DOMAIN Maps :
    /\ Maps[i].pin \in Paths \cup {NoPath}
    /\ Maps[i].kind \in {"user", "data", "rodata"}
    /\ Maps[i].inner \in BOOLEAN /\ Maps[i].slots \subseteq DOMAIN Maps

VARIABLES
  kmaps,  \* the kernel's maps: what has been done to each of them
  pins,   \* the map at each path, or 0
  obj,    \* the objects
  open,   \* the bag of descriptors of each process
  kept,   \* history: the pinned maps looked up, whose descriptor stays open
  undone  \* history: paths a failed load has removed the pin of

vars == <<kmaps, pins, obj, open, kept, undone>>

None(n) == [i \in 1..n |-> 0]
No(n)   == [i \in 1..n |-> FALSE]

Closed == [st |-> "closed", at |-> "none", i |-> 0, fd |-> <<>>, inner |-> <<>>,
           pinned |-> <<>>, reused |-> <<>>, progs |-> <<>>, btf |-> FALSE]

Init ==
  /\ kmaps = <<>>
  /\ pins = [p \in Paths |-> 0]
  /\ obj = [o \in Objects |-> Closed]
  /\ open = [o \in Objects |-> EmptyBag]
  /\ kept = [o \in Objects |-> EmptyBag]
  /\ undone = {}

BTF  == -1   \* descriptors of BTF and of a program
PROG == -2

One(d) == SetToBag({d})
Zclose(bag, d) == IF d = 0 THEN bag ELSE bag (-) One(d)
CloseAll(bag, ds) == FoldLeft(Zclose, bag, ds)
FdsOf(progs) == FlattenSeq(progs)

(* What bpf_obj_get finds. *)
PinAt(p) == IF p = NoPath THEN 0 ELSE pins[p]

At(o, at)   == obj[o].st = "loading" /\ obj[o].at = at
Goto(o, at, i) == obj' = [obj EXCEPT ![o].at = at, ![o].i = i]

-----------------------------------------------------------------------------
bpf_object__open(o) ==
  /\ obj[o].st = "closed" /\ BagCardinality(kept[o]) < MaxKept
  /\ obj' = [obj EXCEPT ![o] = [Closed EXCEPT
       !.st = "opened", !.fd = None(Len(Maps)), !.inner = None(Len(Maps)),
       !.pinned = No(Len(Maps)), !.reused = No(Len(Maps)),
       !.progs = [p \in DOMAIN Programs |-> None(Programs[p].instances)]]]
  /\ UNCHANGED <<kmaps, pins, open, kept, undone>>

(* bpf_map__reuse_fd: a duplicate of the descriptor replaces the map's.    *)
bpf_map__reuse_fd(o, m, id) ==
  /\ obj' = [obj EXCEPT ![o].fd[m] = id, ![o].reused[m] = TRUE]
  /\ open' = [open EXCEPT ![o] = Zclose(@ (+) One(id), obj[o].fd[m])]

(* The program hands a map of its own to the object before loading it.     *)
Preset(o, m) ==
  /\ obj[o].st = "opened" /\ ~obj[o].reused[m]
  /\ Len(kmaps) < MaxMaps /\ kmaps' = Append(kmaps, {"filled", "frozen", "slots"})
  /\ bpf_map__reuse_fd(o, m, Len(kmaps'))
  /\ UNCHANGED <<pins, kept, undone>>

(* Everything before the maps, which leaves at most a descriptor for BTF.  *)
bpf_object__load_xattr(o) ==
  /\ obj[o].st = "opened"
  /\ \E btf \in BOOLEAN, ok \in BOOLEAN :
       /\ obj' = [obj EXCEPT ![o].st = "loading", ![o].btf = btf,
                             ![o].at = IF ok THEN "reuse" ELSE "undo", ![o].i = 1]
       /\ open' = [open EXCEPT ![o] = IF btf THEN @ (+) One(BTF) ELSE @]
  /\ UNCHANGED <<kmaps, pins, kept, undone>>

-----------------------------------------------------------------------------
(* bpf_object__create_maps, one map after the other.                       *)
Map(o) == obj[o].i
NextMap(i) == IF i < Len(Maps) THEN <<"reuse", i + 1>> ELSE <<"relocate", 1>>

(* bpf_object__reuse_map: the pinned map replaces whatever the map had.    *)
(* The descriptor of the lookup is closed only if it cannot be used.       *)
bpf_object__reuse_map(o) ==
  LET m == Map(o)
      p == Maps[m].pin
  IN  /\ At(o, "reuse")
      /\ \/ PinAt(p) = 0 /\ Goto(o, "create", m) /\ UNCHANGED <<open, kept>>
         \/ /\ PinAt(p) # 0
            /\ \/ Goto(o, "fail", m) /\ UNCHANGED <<open, kept>>
               \/ /\ obj' = [obj EXCEPT ![o].fd[m] = pins[p], ![o].reused[m] = TRUE,
                                        ![o].pinned[m] = TRUE, ![o].at = "create"]
                  /\ open' = [open EXCEPT ![o] =
                       Zclose(@ (+) One(pins[p]) (+) One(pins[p]), obj[o].fd[m])]
                  /\ kept' = [kept EXCEPT ![o] = @ (+) One(pins[p])]
      /\ UNCHANGED <<kmaps, pins, undone>>

(* bpf_object__populate_internal_map and init_map_slots.  A slot is filled *)
(* with the descriptor its map has at this moment.                         *)
Ready(o, m) == \A s \in Maps[m].slots : obj[o].fd[s] # 0
Marks(m) == (IF Maps[m].kind # "user" THEN {"filled"} ELSE {})
            \cup (IF Maps[m].kind = "rodata" THEN {"frozen"} ELSE {})
            \cup (IF Maps[m].slots # {} THEN {"slots"} ELSE {})

(* bpf_object__create_map: the inner map, if there is one, is made before  *)
(* the map and closed after it, or when the object is if the map cannot be *)
(* made.  A map that cannot be filled is closed again.                     *)
bpf_object__create_map(o) ==
  LET m   == Map(o)
      new == Len(kmaps) + 1
  IN  /\ At(o, "create")
      /\ \/ /\ obj[o].fd[m] # 0
            /\ Goto(o, "pin", m) /\ UNCHANGED <<kmaps, open>>
         \/ /\ obj[o].fd[m] = 0
            /\ Goto(o, "fail", m) /\ UNCHANGED <<kmaps, open>>
         \/ /\ obj[o].fd[m] = 0 /\ Maps[m].inner /\ Len(kmaps) < MaxMaps
            /\ obj' = [obj EXCEPT ![o].inner[m] = new, ![o].at = "fail"]
            /\ kmaps' = Append(kmaps, {}) /\ open' = [open EXCEPT ![o] = @ (+) One(new)]
         \/ /\ obj[o].fd[m] = 0 /\ Len(kmaps) < MaxMaps
            /\ \E ok \in BOOLEAN :
                 /\ kmaps' = Append(kmaps, IF ok THEN Marks(m) ELSE {})
                 /\ IF ok /\ Ready(o, m)
                    THEN /\ obj' = [obj EXCEPT ![o].fd[m] = new, ![o].at = "pin"]
                         /\ open' = [open EXCEPT ![o] = @ (+) One(new)]
                    ELSE Goto(o, "fail", m) /\ UNCHANGED open
      /\ UNCHANGED <<pins, kept, undone>>

(* bpf_map__pin of a map that is to be pinned and is not: it fails when    *)
(* another process was faster.                                             *)
AutoPin(o) ==
  LET m == Map(o)
      p == Maps[m].pin
  IN  /\ At(o, "pin")
      /\ \/ /\ p = NoPath \/ obj[o].pinned[m]
            /\ Goto(o, NextMap(m)[1], NextMap(m)[2])
            /\ UNCHANGED <<pins, open>>
         \/ /\ p # NoPath /\ ~obj[o].pinned[m] /\ PinAt(p) = 0
            /\ pins' = [pins EXCEPT ![p] = obj[o].fd[m]]
            /\ obj' = [obj EXCEPT ![o].pinned[m] = TRUE, ![o].at = NextMap(m)[1],
                                  ![o].i = NextMap(m)[2]]
            /\ UNCHANGED open
         \/ /\ p # NoPath /\ ~obj[o].pinned[m]
            /\ obj' = [obj EXCEPT ![o].fd[m] = 0, ![o].at = "fail"]
            /\ open' = [open EXCEPT ![o] = Zclose(@, obj[o].fd[m])]
            /\ UNCHANGED pins
      /\ UNCHANGED <<kmaps, kept, undone>>

(* err_out: the maps before this one are closed.                           *)
CreateMapsFails(o) ==
  /\ At(o, "fail")
  /\ LET before == SubSeq(obj[o].fd, 1, Map(o) - 1)
     IN  /\ open' = [open EXCEPT ![o] = CloseAll(@, before)]
         /\ obj' = [obj EXCEPT ![o].at = "undo",
                      ![o].fd = [m \in DOMAIN Maps |-> IF m < Map(o) THEN 0 ELSE @[m]]]
  /\ UNCHANGED <<kmaps, pins, kept, undone>>

bpf_object__relocate(o) ==
  /\ At(o, "relocate")
  /\ \E ok \in BOOLEAN : Goto(o, IF ok THEN "progs" ELSE "undo", 1)
  /\ UNCHANGED <<kmaps, pins, open, kept, undone>>

-----------------------------------------------------------------------------
Wanted(p) == Programs[p].load /\ ~Programs[p].sub

(* bpf_program__load: the instances are loaded until one fails; those the  *)
(* preprocessor does not want are skipped.                                 *)
bpf_program__load(o, p) ==
  \E got \in SUBSET (1..Programs[p].instances), ok \in BOOLEAN :
    /\ IF ok THEN ~Programs[p].prep => got = {1} ELSE Programs[p].instances \notin got
    /\ obj' = [obj EXCEPT
         ![o].progs[p] = [n \in DOMAIN @ |-> IF n \in got THEN PROG ELSE 0],
         ![o].at = IF ~ok THEN "undo" ELSE "progs",
         ![o].i = IF ok THEN p + 1 ELSE p]
    /\ open' = [open EXCEPT ![o] = FoldLeft(LAMBDA b, n : b (+) One(PROG), @, SetToSeq(got))]

bpf_object__load_progs(o) ==
  LET p == obj[o].i
  IN  /\ At(o, "progs")
      /\ \/ p \in DOMAIN Programs /\ Wanted(p) /\ bpf_program__load(o, p)
         \/ /\ p \in DOMAIN Programs /\ ~Wanted(p)
            /\ Goto(o, "progs", p + 1) /\ UNCHANGED open
         \/ /\ p \notin DOMAIN Programs
            /\ obj' = [obj EXCEPT ![o].st = "loaded"] /\ UNCHANGED open
      /\ UNCHANGED <<kmaps, pins, kept, undone>>

-----------------------------------------------------------------------------
(* bpf_object__unload: the descriptors of the maps and of the programs.    *)
Unloaded(o) == [obj[o] EXCEPT !.fd = None(Len(Maps)),
                 !.progs = [p \in DOMAIN Programs |-> <<>>]]
UnloadFds(o) == CloseAll(open[o], obj[o].fd \o FdsOf(obj[o].progs))

(* Mutant: the pins are removed and everything stays open. *)
LoadFailsOpen(o) ==
  /\ At(o, "undo")
  /\ LET own  == {m \in DOMAIN Maps : obj[o].pinned[m] /\ ~obj[o].reused[m]}
         mine == {Maps[m].pin : m \in own}
     IN  /\ pins' = [p \in Paths |-> IF p \in mine THEN 0 ELSE pins[p]]
         /\ undone' = undone \cup mine
         /\ obj' = [obj EXCEPT ![o].st = "failed"]
  /\ UNCHANGED <<kmaps, kept, open>>

(* The end of a load that failed: the pins it made are removed, those it   *)
(* found are left.                                                         *)
LoadFails(o) ==
  /\ At(o, "undo")
  /\ LET own  == {m \in DOMAIN Maps : obj[o].pinned[m] /\ ~obj[o].reused[m]}
         mine == {Maps[m].pin : m \in own}
     IN  /\ pins' = [p \in Paths |-> IF p \in mine THEN 0 ELSE pins[p]]
         /\ undone' = undone \cup mine
         /\ obj' = [obj EXCEPT ![o] = [Unloaded(o) EXCEPT !.st = "failed",
                      !.pinned = [m \in DOMAIN Maps |-> @[m] /\ m \notin own]]]
  /\ open' = [open EXCEPT ![o] = UnloadFds(o)]
  /\ UNCHANGED <<kmaps, kept>>

bpf_object__unload(o) ==
  /\ obj[o].st = "loaded"
  /\ obj' = [obj EXCEPT ![o] = [Unloaded(o) EXCEPT !.st = "unloaded"]]
  /\ open' = [open EXCEPT ![o] = UnloadFds(o)]
  /\ UNCHANGED <<kmaps, pins, kept, undone>>

(* bpf_object__close: unloads, frees BTF and destroys maps with their      *)
(* inner maps.                                                             *)
bpf_object__close(o) ==
  /\ obj[o].st \in {"opened", "loaded", "failed", "unloaded"}
  /\ LET maps == CloseAll(UnloadFds(o), obj[o].inner)
     IN  open' = [open EXCEPT ![o] = IF obj[o].btf THEN Zclose(maps, BTF) ELSE maps]
  /\ obj' = [obj EXCEPT ![o] = Closed]
  /\ UNCHANGED <<kmaps, pins, kept, undone>>

Next ==
  \E o \in Objects :
    \/ bpf_object__open(o) \/ bpf_object__load_xattr(o)
    \/ \E m \in DOMAIN Maps : Preset(o, m)
    \/ bpf_object__reuse_map(o) \/ bpf_object__create_map(o)
    \/ AutoPin(o) \/ CreateMapsFails(o)
    \/ bpf_object__relocate(o) \/ bpf_object__load_progs(o) \/ LoadFails(o)
    \/ bpf_object__unload(o) \/ bpf_object__close(o)

Spec == Init /\ [][Next]_vars
-----------------------------------------------------------------------------
Held(o) ==
  LET all == SelectSeq(obj[o].fd \o obj[o].inner \o FdsOf(obj[o].progs), LAMBDA d : d # 0)
  IN  FoldLeft(LAMBDA b, d : b (+) One(d),
               IF obj[o].btf THEN One(BTF) ELSE EmptyBag, all)

(* A process has no descriptor open that its object does not know of,      *)
(* whatever step of a load failed, other than those bpf_object__reuse_map  *)
(* leaves open: when the object is closed nothing else is left.            *)
DescriptorsAccounted == \A o \in Objects : open[o] = Held(o) (+) kept[o]

(* An object whose load returned success has every map and every program   *)
(* it wanted; one whose load failed has none.                              *)
AllOrNothing ==
  \A o \in Objects :
    /\ obj[o].st = "loaded" =>
         /\ \A m \in DOMAIN Maps : obj[o].fd[m] # 0
         /\ \A p \in DOMAIN Programs :
              Wanted(p) /\ ~Programs[p].prep => obj[o].progs[p] = <<PROG>>
    /\ obj[o].st \in {"failed", "unloaded"} =>
         /\ \A m \in DOMAIN Maps : obj[o].fd[m] = 0
         /\ FdsOf(obj[o].progs) = <<>>

(* Another process finds a map at a path only when it is filled, frozen    *)
(* and its slots are set.                                                  *)
PinnedIsReady ==
  \A m \in DOMAIN Maps : LET p == Maps[m].pin
                         IN  p # NoPath /\ pins[p] # 0 => Marks(m) \subseteq kmaps[pins[p]]

(* Objects loaded with one path share the map of that path, unless a       *)
(* failed load has taken the pin away that they had reused.                *)
LoadedShare ==
  \A o, q \in Objects, m \in DOMAIN Maps :
    /\ obj[o].st = "loaded" /\ obj[q].st = "loaded"
    /\ Maps[m].pin # NoPath /\ Maps[m].pin \notin undone
    => obj[o].fd[m] = obj[q].fd[m]
=============================================================================
