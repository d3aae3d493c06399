------------------------------ MODULE MapsPinned ------------------------------
(***************************************************************************)
(* bpf_prog_load_xattr_maps of common_libbpf.c: an object is opened, its   *)
(* maps are replaced by those pinned under the file names asked for, it is *)
(* loaded, and the maps that were not found are pinned. Several processes  *)
(* do so at a time, and each may end at any point.                         *)
(***************************************************************************)
EXTENDS Integers, Sequences, TLAPS

CONSTANTS
  Procs,       \* processes, each with one call
  MapNames,    \* sequence: the maps of the object
  pinned_maps  \* sequence of [name, filename]: the maps asked for

ASSUME MapsAssumption ==
  /\ MapNames \in Seq(STRING)
  /\ pinned_maps \in Seq([name : STRING, filename : STRING]) /\ pinned_maps # <<>>
  /\ \A i \in DOMAIN pinned_maps : pinned_maps[i].filename # ""

VARIABLES
  file,  \* external: the map pinned under each file name, or None
  pc,    \* of each process: "get", "pin", "done", "failed", "gone"
  k,     \* of each process: the map of the object and the map asked for it is at
  uses,  \* of each process: the maps its object has, None for one to be made
  pin_path, \* of each process: the file each map was last to be pinned under, and whether it is
  map_fd \* of each process: what it reports for each map asked for, or None

vars == <<file, pc, k, uses, pin_path, map_fd>>

None == <<>>
NoPath == ""
Names == {MapNames[i] : i \in DOMAIN MapNames}
Entries == DOMAIN pinned_maps
Files == {pinned_maps[i].filename : i \in Entries}

First == [map |-> 1, entry |-> 1]

Init ==
  /\ file = [f \in Files |-> None]
  /\ pc = [p \in Procs |-> "get"] /\ k = [p \in Procs |-> First]
  /\ uses = [p \in Procs |-> [m \in Names |-> None]]
  /\ pin_path = [p \in Procs |-> [m \in Names |-> [file |-> NoPath, pinned |-> FALSE]]]
  /\ map_fd = [p \in Procs |-> [i \in Entries |-> None]]

(* The two loops: for each map of the object, each entry of its name. *)
Step(p) ==
  k' = [k EXCEPT ![p] = IF @.entry < Len(pinned_maps) THEN [map |-> @.map, entry |-> @.entry + 1]
                        ELSE [map |-> @.map + 1, entry |-> 1]]
AtPair(p) == k[p].map <= Len(MapNames)
MapOf(p) == MapNames[k[p].map]
EntryOf(p) == pinned_maps[k[p].entry]
Matches(p) == EntryOf(p).name = MapOf(p)
FileOf(p) == EntryOf(p).filename

(* bpf_obj_get of the file. What bpf_map__reuse_fd answers is not looked   *)
(* at: it may leave the map as it was.                                     *)
Get(p) ==
  /\ pc[p] = "get" /\ AtPair(p) /\ Step(p)
  /\ \/ UNCHANGED <<uses, map_fd>>
     \/ /\ Matches(p) /\ file[FileOf(p)] # None
        /\ map_fd' = [map_fd EXCEPT ![p][k[p].entry] = file[FileOf(p)]]
        /\ \/ uses' = [uses EXCEPT ![p][MapOf(p)] = file[FileOf(p)]]
           \/ UNCHANGED uses
  /\ UNCHANGED <<file, pc, pin_path>>

(* bpf_object__load: the maps not replaced are made. *)
Load(p) ==
  /\ pc[p] = "get" /\ ~AtPair(p)
  /\ \/ /\ pc' = [pc EXCEPT ![p] = "pin"] /\ k' = [k EXCEPT ![p] = First]
        /\ uses' = [uses EXCEPT ![p] = [m \in Names |-> IF @[m] = None THEN <<p, m>> ELSE @[m]]]
     \/ pc' = [pc EXCEPT ![p] = "failed"] /\ UNCHANGED <<uses, k>>
  /\ UNCHANGED <<file, pin_path, map_fd>>

(* bpf_map__pin, with the path and the mark that the map keeps; other      *)
(* failures than of a name that exists are possible too.                   *)
Refused(p, m, f) == pin_path[p][m].file \notin {NoPath, f}
Done(p, m, f) == pin_path[p][m] = [file |-> f, pinned |-> TRUE]
bpf_map__pin(p, m, f, ok) ==
  IF Refused(p, m, f) THEN ~ok /\ UNCHANGED <<file, pin_path>>
  ELSE IF Done(p, m, f) THEN ok /\ UNCHANGED <<file, pin_path>>
  ELSE /\ pin_path' = [pin_path EXCEPT ![p][m] = [file |-> f, pinned |-> ok]]
       /\ ok => file[f] = None
       /\ file' = IF ok THEN [file EXCEPT ![f] = uses[p][m]] ELSE file

(* Mutant: that a map could not be pinned is not looked at. *)
PinNextAnyway(p) ==
  /\ pc[p] = "pin" /\ AtPair(p) /\ Step(p)
  /\ LET e == k[p].entry
         m == MapOf(p)
     IN  IF ~Matches(p) \/ map_fd[p][e] # None THEN UNCHANGED <<file, pin_path, map_fd>>
         ELSE \E ok \in BOOLEAN :
                bpf_map__pin(p, m, FileOf(p), ok) /\ map_fd' = [map_fd EXCEPT ![p][e] = uses[p][m]]
  /\ UNCHANGED <<pc, uses>>
(* Pins what was not found; a map that cannot be pinned is passed over. *)
PinNext(p) ==
  /\ pc[p] = "pin" /\ AtPair(p) /\ Step(p)
  /\ LET e == k[p].entry
         m == MapOf(p)
     IN  IF ~Matches(p) \/ map_fd[p][e] # None THEN UNCHANGED <<file, pin_path, map_fd>>
         ELSE \E ok \in BOOLEAN :
                /\ bpf_map__pin(p, m, FileOf(p), ok)
                /\ map_fd' = IF ok THEN [map_fd EXCEPT ![p][e] = uses[p][m]] ELSE map_fd
  /\ UNCHANGED <<pc, uses>>

Return(p) ==
  /\ pc[p] = "pin" /\ ~AtPair(p)
  /\ pc' = [pc EXCEPT ![p] = "done"]
  /\ UNCHANGED <<file, k, uses, pin_path, map_fd>>

(* The process ends; what it pinned stays. *)
Ends(p) ==
  /\ pc[p] # "gone" /\ pc' = [pc EXCEPT ![p] = "gone"]
  /\ UNCHANGED <<file, k, uses, pin_path, map_fd>>

Next == \E p \in Procs : Get(p) \/ Load(p) \/ PinNext(p) \/ Return(p) \/ Ends(p)

Spec == Init /\ [][Next]_vars

-----------------------------------------------------------------------------
(* Properties *)

Maps == {None} \cup (Procs \X Names)
TypeOK ==
  /\ file \in [Files -> Maps]
  /\ pc \in [Procs -> {"get", "pin", "done", "failed", "gone"}]
  /\ k \in [Procs -> [map : Nat \ {0}, entry : Entries]]
  /\ uses \in [Procs -> [Names -> Maps]]
  /\ pin_path \in [Procs -> [Names -> [file : Files \cup {NoPath}, pinned : BOOLEAN]]]
  /\ map_fd \in [Procs -> [Entries -> Maps]]

Entered(p) == {i \in Entries : pinned_maps[i].name \in Names /\ pc[p] = "done"}

(* Whoever reports a map for a file reports the one that is pinned there,  *)
(* so that all who do share it, whoever came first.                        *)
ReportedIsPinned ==
  \A p \in Procs : \A i \in Entered(p) :
    map_fd[p][i] # None => map_fd[p][i] = file[pinned_maps[i].filename]

(* "Use FD from pinned map as replacement": the object uses the map that   *)
(* is reported.                                                            *)
ReportedIsUsed ==
  \A p \in Procs : \A i \in Entered(p) :
    map_fd[p][i] # None => map_fd[p][i] = uses[p][pinned_maps[i].name]

(* An inductive invariant for ReportedIsPinned: it holds before the end too, a   *)
(* map once pinned stays so, and no map changes once the object is loaded. *)
Reported ==
  \A p \in Procs : \A i \in Entries :
    map_fd[p][i] # None => map_fd[p][i] = file[pinned_maps[i].filename]
Loaded == \A p \in Procs : pc[p] \in {"pin", "done"} => \A m \in Names : uses[p][m] # None
PinsHold ==
  \A p \in Procs : \A m \in Names : pin_path[p][m].pinned =>
    /\ pc[p] # "get" /\ pin_path[p][m].file \in Files
    /\ file[pin_path[p][m].file] = uses[p][m] /\ uses[p][m] # None
IInv == TypeOK /\ Reported /\ Loaded /\ PinsHold

-----------------------------------------------------------------------------
(***************************************************************************)
(* Every process that reports a map for a file reports the one pinned      *)
(* there, whatever the number of processes, maps and files.                *)
(***************************************************************************)
LEMMA SeqFacts ==
  ASSUME NEW S, NEW s \in Seq(S)
  PROVE  Len(s) \in Nat /\ DOMAIN s = 1..Len(s) /\ (s # <<>> => Len(s) # 0)
  OBVIOUS

LEMMA ListFacts ==
  /\ Len(MapNames) \in Nat /\ DOMAIN MapNames = 1..Len(MapNames)
  /\ Len(pinned_maps) \in Nat \ {0} /\ Entries = 1..Len(pinned_maps)
<1>1. Len(MapNames) \in Nat /\ DOMAIN MapNames = 1..Len(MapNames)
  BY SeqFacts, MapsAssumption
<1>2. Len(pinned_maps) \in Nat /\ DOMAIN pinned_maps = 1..Len(pinned_maps) /\ Len(pinned_maps) # 0
  BY SeqFacts, MapsAssumption
<1> QED
  BY <1>1, <1>2 DEF Entries

(* One entry of one process changes. *)
LEMMA Update ==
  ASSUME NEW P, NEW E, NEW V, NEW F \in [P -> [E -> V]], NEW p \in P, NEW e, NEW v \in V
  PROVE  [F EXCEPT ![p][e] = v] \in [P -> [E -> V]]
<1>1. F[p] \in [E -> V]
  OBVIOUS
<1>2. [F[p] EXCEPT ![e] = v] \in [E -> V]
  BY <1>1
<1>3. [F EXCEPT ![p] = [F[p] EXCEPT ![e] = v]] \in [P -> [E -> V]]
  BY <1>2
<1> QED
  BY <1>3

(* What a process finds in its two lists. *)
LEMMA EntryFacts ==
  ASSUME NEW i \in Entries
  PROVE  pinned_maps[i].filename \in Files
  BY DEF Files

LEMMA FirstType == 1 \in Entries /\ First \in [map : Nat \ {0}, entry : Entries]
<1>1. Entries = 1..Len(pinned_maps) /\ Len(pinned_maps) \in Nat \ {0}
  BY ListFacts
<1>2. 1 \in Entries
  BY <1>1
<1> QED
  BY <1>2 DEF First

LEMMA AtPairFacts ==
  ASSUME TypeOK, NEW p \in Procs
  PROVE  /\ k[p].entry \in Entries
         /\ FileOf(p) \in Files
         /\ AtPair(p) => MapOf(p) \in Names
<1>1. k[p] \in [map : Nat \ {0}, entry : Entries]
  BY DEF TypeOK
<1>2. k[p].entry \in Entries /\ k[p].map \in Nat \ {0}
  BY <1>1
<1>3. FileOf(p) \in Files
  BY <1>2, EntryFacts DEF FileOf, EntryOf
<1>5. ASSUME AtPair(p) PROVE MapOf(p) \in Names
  <2>1. k[p].map \in 1..Len(MapNames)
    BY <1>2, <1>5, ListFacts DEF AtPair
  <2>2. k[p].map \in DOMAIN MapNames
    BY <2>1, ListFacts
  <2> QED
    BY <2>2 DEF MapOf, Names
<1> QED
  BY <1>2, <1>3, <1>5

(* Going on in the loops keeps the place a place. *)
LEMMA StepType ==
  ASSUME TypeOK, NEW p \in Procs, Step(p)
  PROVE  k' \in [Procs -> [map : Nat \ {0}, entry : Entries]]
<1>1. k \in [Procs -> [map : Nat \ {0}, entry : Entries]] /\ k[p].entry \in Entries /\ k[p].map \in Nat \ {0}
  BY DEF TypeOK
<1>2. Entries = 1..Len(pinned_maps) /\ Len(pinned_maps) \in Nat \ {0}
  BY ListFacts
<1>3. CASE k[p].entry < Len(pinned_maps)
  <2>1. k[p].entry + 1 \in Entries
    BY <1>1, <1>2, <1>3
  <2> QED
    BY <1>1, <1>3, <2>1 DEF Step
<1>4. CASE ~(k[p].entry < Len(pinned_maps))
  <2>1. 1 \in Entries /\ k[p].map + 1 \in Nat \ {0}
    BY <1>1, <1>2
  <2> QED
    BY <1>1, <1>4, <2>1 DEF Step
<1> QED
  BY <1>3, <1>4

LEMMA InitIInv == Init => IInv
<1> SUFFICES ASSUME Init PROVE IInv
  OBVIOUS
<1>2. TypeOK
  BY FirstType DEF Init, TypeOK, Maps
<1> QED
  BY <1>2 DEF Init, IInv, Reported, Loaded, PinsHold

(***************************************************************************)
(* The steps of one process, one after the other.                          *)
(***************************************************************************)
LEMMA GetIInv ==
  ASSUME IInv, NEW p \in Procs, Get(p)
  PROVE  IInv'
<1> DEFINE e == k[p].entry
           f == FileOf(p)
           m == MapOf(p)
<1>1. TypeOK /\ Reported /\ Loaded /\ PinsHold
  BY DEF IInv
<1>2. pc[p] = "get" /\ AtPair(p) /\ Step(p) /\ file' = file /\ pc' = pc /\ pin_path' = pin_path
  BY DEF Get
<1>3. e \in Entries /\ f \in Files /\ m \in Names /\ f = pinned_maps[e].filename
  BY <1>1, <1>2, AtPairFacts DEF FileOf, EntryOf
<1>4. /\ map_fd' = map_fd \/ map_fd' = [map_fd EXCEPT ![p][e] = file[f]]
      /\ uses' = uses \/ uses' = [uses EXCEPT ![p][m] = file[f]]
  BY DEF Get
<1>5. file[f] \in Maps
  BY <1>1, <1>3 DEF TypeOK
<1> HIDE DEF e, f, m
<1>6. map_fd' \in [Procs -> [Entries -> Maps]] /\ uses' \in [Procs -> [Names -> Maps]]
  <2>1. map_fd \in [Procs -> [Entries -> Maps]] /\ uses \in [Procs -> [Names -> Maps]]
    BY <1>1 DEF TypeOK
  <2>2. map_fd' \in [Procs -> [Entries -> Maps]]
    <3>1. [map_fd EXCEPT ![p][e] = file[f]] \in [Procs -> [Entries -> Maps]]
      BY <1>5, <2>1, Update
    <3> QED
      BY <1>4, <2>1, <3>1
  <2>3. uses' \in [Procs -> [Names -> Maps]]
    <3>1. [uses EXCEPT ![p][m] = file[f]] \in [Procs -> [Names -> Maps]]
      BY <1>5, <2>1, Update
    <3> QED
      BY <1>4, <2>1, <3>1
  <2> QED
    BY <2>2, <2>3
<1>7. TypeOK'
  BY <1>1, <1>2, <1>6, StepType DEF TypeOK
<1>8. Reported'
  <2> SUFFICES ASSUME NEW q \in Procs, NEW i \in Entries, map_fd'[q][i] # None
               PROVE  map_fd'[q][i] = file[pinned_maps[i].filename]
    BY <1>2 DEF Reported
  <2>1. CASE map_fd'[q][i] = map_fd[q][i]
    BY <1>1, <2>1 DEF Reported
  <2>2. CASE map_fd'[q][i] # map_fd[q][i]
    <3>1. map_fd' = [map_fd EXCEPT ![p][e] = file[f]]
      BY <1>4, <2>2
    <3>2. q = p /\ i = e /\ map_fd'[q][i] = file[f]
      BY <1>1, <2>2, <3>1 DEF TypeOK
    <3> QED
      BY <1>3, <3>2
  <2> QED
    BY <2>1, <2>2
<1>9. \A q \in Procs : q # p => uses'[q] = uses[q]
  BY <1>1, <1>4 DEF TypeOK
<1>10. Loaded'
  BY <1>1, <1>2, <1>9 DEF Loaded
<1>11. PinsHold'
  BY <1>1, <1>2, <1>9 DEF PinsHold
<1> QED
  BY <1>7, <1>8, <1>10, <1>11 DEF IInv

LEMMA LoadIInv ==
  ASSUME IInv, NEW p \in Procs, Load(p)
  PROVE  IInv'
<1>1. TypeOK /\ Reported /\ Loaded /\ PinsHold
  BY DEF IInv
<1>2. pc[p] = "get" /\ file' = file /\ pin_path' = pin_path /\ map_fd' = map_fd
  BY DEF Load
<1>4. CASE /\ pc' = [pc EXCEPT ![p] = "pin"] /\ k' = [k EXCEPT ![p] = First]
           /\ uses' = [uses EXCEPT ![p] = [m \in Names |-> IF @[m] = None THEN <<p, m>> ELSE @[m]]]
  <2>1. \A m \in Names : uses'[p][m] = IF uses[p][m] = None THEN <<p, m>> ELSE uses[p][m]
    BY <1>1, <1>4 DEF TypeOK
  <2>2. \A m \in Names : <<p, m>> \in Maps /\ <<p, m>> # None
    BY DEF Maps, None
  <2>3. [m \in Names |-> IF uses[p][m] = None THEN <<p, m>> ELSE uses[p][m]] \in [Names -> Maps]
    BY <1>1, <2>2 DEF TypeOK
  <2>4. uses' \in [Procs -> [Names -> Maps]]
    BY <1>1, <1>4, <2>3 DEF TypeOK
  <2>5. TypeOK'
    BY <1>1, <1>2, <1>4, <2>4, FirstType DEF TypeOK
  <2>6. \A q \in Procs : q # p => uses'[q] = uses[q] /\ pc'[q] = pc[q]
    BY <1>1, <1>4 DEF TypeOK
  <2>7. Loaded'
    BY <1>1, <2>1, <2>2, <2>6 DEF Loaded
  <2>8. PinsHold'
    BY <1>1, <1>2, <2>6 DEF PinsHold
  <2>9. Reported'
    BY <1>1, <1>2 DEF Reported
  <2> QED
    BY <2>5, <2>7, <2>8, <2>9 DEF IInv
<1>5. CASE pc' = [pc EXCEPT ![p] = "failed"] /\ UNCHANGED <<uses, k>>
  <2>1. TypeOK'
    BY <1>1, <1>2, <1>5 DEF TypeOK
  <2>2. Loaded'
    BY <1>1, <1>5 DEF Loaded, TypeOK
  <2>3. PinsHold'
    BY <1>1, <1>2, <1>5 DEF PinsHold, TypeOK
  <2> QED
    BY <1>1, <1>2, <2>1, <2>2, <2>3 DEF IInv, Reported
<1> QED
  BY <1>4, <1>5 DEF Load

LEMMA PinNextIInv ==
  ASSUME IInv, NEW p \in Procs, PinNext(p)
  PROVE  IInv'
<1> DEFINE e == k[p].entry
           f == FileOf(p)
           m == MapOf(p)
<1>1. TypeOK /\ Reported /\ Loaded /\ PinsHold
  BY DEF IInv
<1>2. pc[p] = "pin" /\ AtPair(p) /\ Step(p) /\ pc' = pc /\ uses' = uses
  BY DEF PinNext
<1>3. e \in Entries /\ f \in Files /\ m \in Names /\ f = pinned_maps[e].filename
  BY <1>1, <1>2, AtPairFacts DEF FileOf, EntryOf
<1>4. uses[p][m] \in Maps /\ uses[p][m] # None
  BY <1>1, <1>2, <1>3 DEF TypeOK, Loaded
<1>5. Loaded'
  BY <1>1, <1>2 DEF Loaded
<1>6. ASSUME UNCHANGED <<file, pin_path, map_fd>>
      PROVE  IInv'
  BY <1>1, <1>2, <1>5, <1>6, StepType DEF IInv, TypeOK, Reported, PinsHold
<1>7. ASSUME UNCHANGED <<file, pin_path>>, Done(p, m, f), map_fd' = [map_fd EXCEPT ![p][e] = uses[p][m]]
      PROVE  IInv'
  <2>1. file[f] = uses[p][m]
    BY <1>1, <1>3, <1>7 DEF PinsHold, Done
  <2>2. map_fd' \in [Procs -> [Entries -> Maps]]
    BY <1>1, <1>4, <1>7, Update DEF TypeOK
  <2>3. TypeOK'
    BY <1>1, <1>2, <1>7, <2>2, StepType DEF TypeOK
  <2>4. \A q \in Procs, i \in Entries : map_fd'[q][i] # map_fd[q][i] => q = p /\ i = e /\ map_fd'[q][i] = uses[p][m]
    BY <1>1, <1>7 DEF TypeOK
  <2>5. Reported'
    BY <1>1, <1>3, <1>7, <2>1, <2>4 DEF Reported
  <2>6. PinsHold'
    BY <1>1, <1>2, <1>7 DEF PinsHold
  <2> QED
    BY <1>5, <2>3, <2>5, <2>6 DEF IInv
<1>8. ASSUME NEW ok \in BOOLEAN, ok => file[f] = None,
             pin_path' = [pin_path EXCEPT ![p][m] = [file |-> f, pinned |-> ok]],
             file' = IF ok THEN [file EXCEPT ![f] = uses[p][m]] ELSE file,
             map_fd' = IF ok THEN [map_fd EXCEPT ![p][e] = uses[p][m]] ELSE map_fd
      PROVE  IInv'
  <2> HIDE DEF e, f, m
  <2>1. file' \in [Files -> Maps]
    BY <1>1, <1>3, <1>4, <1>8 DEF TypeOK
  <2>2. [file |-> f, pinned |-> ok] \in [file : Files \cup {NoPath}, pinned : BOOLEAN]
    BY <1>3
  <2>3. pin_path' \in [Procs -> [Names -> [file : Files \cup {NoPath}, pinned : BOOLEAN]]]
    BY <1>1, <1>8, <2>2, Update DEF TypeOK
  <2>4. [map_fd EXCEPT ![p][e] = uses[p][m]] \in [Procs -> [Entries -> Maps]]
    BY <1>1, <1>4, Update DEF TypeOK
  <2>5. map_fd' \in [Procs -> [Entries -> Maps]]
    BY <1>1, <1>8, <2>4 DEF TypeOK
  <2>6. TypeOK'
    BY <1>1, <1>2, <2>1, <2>3, <2>5, StepType DEF TypeOK
  <2>7. \A g \in Files : file[g] # None => file'[g] = file[g]
    BY <1>1, <1>3, <1>8 DEF TypeOK
  <2>8. ok => file'[f] = uses[p][m]
    BY <1>1, <1>3, <1>8 DEF TypeOK
  <2>9. \A q \in Procs, i \in Entries :
          map_fd'[q][i] = map_fd[q][i] \/ (ok /\ q = p /\ i = e /\ map_fd'[q][i] = uses[p][m])
    BY <1>1, <1>8 DEF TypeOK
  <2>10. Reported'
    BY <1>1, <1>3, <2>7, <2>8, <2>9, EntryFacts DEF Reported
  <2>11. \A q \in Procs, n \in Names :
           pin_path'[q][n] = pin_path[q][n] \/ (q = p /\ n = m /\ pin_path'[q][n] = [file |-> f, pinned |-> ok])
    BY <1>1, <1>8 DEF TypeOK
  <2>12. PinsHold'
    BY <1>1, <1>2, <1>3, <1>4, <2>7, <2>8, <2>11 DEF PinsHold
  <2> QED
    BY <1>5, <2>6, <2>10, <2>12 DEF IInv
<1>9. ASSUME NEW ok \in BOOLEAN, bpf_map__pin(p, m, f, ok),
             map_fd' = IF ok THEN [map_fd EXCEPT ![p][e] = uses[p][m]] ELSE map_fd
      PROVE  IInv'
  <2>1. CASE Refused(p, m, f)
    BY <1>6, <1>9, <2>1 DEF bpf_map__pin
  <2>2. CASE ~Refused(p, m, f) /\ Done(p, m, f)
    BY <1>7, <1>9, <2>2 DEF bpf_map__pin
  <2>3. CASE ~Refused(p, m, f) /\ ~Done(p, m, f)
    BY <1>8, <1>9, <2>3 DEF bpf_map__pin
  <2> QED
    BY <2>1, <2>2, <2>3
<1> QED
  BY <1>6, <1>9 DEF PinNext

LEMMA EndIInv ==
  ASSUME IInv, NEW p \in Procs, Return(p) \/ Ends(p)
  PROVE  IInv'
<1>1. TypeOK /\ Reported /\ Loaded /\ PinsHold
  BY DEF IInv
<1>2. UNCHANGED <<file, k, uses, pin_path, map_fd>>
  BY DEF Return, Ends
<1>3. (pc[p] = "pin" /\ pc' = [pc EXCEPT ![p] = "done"]) \/ pc' = [pc EXCEPT ![p] = "gone"]
  BY DEF Return, Ends
<1>4. TypeOK'
  BY <1>1, <1>2, <1>3 DEF TypeOK
<1>5. Loaded'
  BY <1>1, <1>2, <1>3 DEF Loaded, TypeOK
<1>6. PinsHold'
  BY <1>1, <1>2, <1>3 DEF PinsHold, TypeOK
<1> QED
  BY <1>1, <1>2, <1>4, <1>5, <1>6 DEF IInv, Reported

(***************************************************************************)
(* The theorems.                                                           *)
(***************************************************************************)

(* The state keeps its types, and what makes the rest inductive holds.     *)
THEOREM Invariant == Spec => []IInv
<1>1. IInv /\ [Next]_vars => IInv'
  <2> SUFFICES ASSUME IInv, [Next]_vars PROVE IInv'
    OBVIOUS
  <2>1. CASE UNCHANGED vars
    BY <2>1 DEF vars, IInv, TypeOK, Reported, Loaded, PinsHold
  <2>2. CASE Next
    BY <2>2, GetIInv, LoadIInv, PinNextIInv, EndIInv DEF Next
  <2> QED
    BY <2>1, <2>2
<1> QED
  BY InitIInv, <1>1, PTL DEF Spec

(* Whoever reports a map for a file reports the one that is pinned there   *)
(* (bpf_prog_load_xattr_maps), for any number of processes.                *)
THEOREM Shared == Spec => []ReportedIsPinned
<1>1. IInv => ReportedIsPinned
  BY DEF IInv, Reported, ReportedIsPinned, Entered
<1> QED
  BY Invariant, <1>1, PTL
=============================================================================
