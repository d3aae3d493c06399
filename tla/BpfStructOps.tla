------------------------------ MODULE BpfStructOps ------------------------------
(***************************************************************************)
(* Maps of struct_ops in libbpf.c: variables of the section .struct_ops    *)
(* become maps, relocations put programs on their members, loading turns   *)
(* them into the layout the running kernel has, and attaching hands them   *)
(* over.                                                                   *)
(*                                                                         *)
(* Structs are sequences of members [name, kind, size, off, bits] with     *)
(* kinds "func" (pointer to a function), "ptr" (to something else) and     *)
(* "data"; memory is counted in cells.                                     *)
(***************************************************************************)
EXTENDS Integers, Sequences, SequencesExt, FiniteSetsExt

CONSTANTS
  Types,    \* structs of the object: [name of a type -> its members]
  Size,     \* cells each of them has
  Vars,     \* sequence of the variables: [offset, type]
  SecSizes, \* cells the section may have
  Kernels,  \* kernels: [name of a type -> [members, data_off, size]]
  Progs,    \* programs: [prog -> what the name of its section says]
  RelosSets \* sequences of relocations an object may have: [offset, prog]

VARIABLES
  d_size, \* cells the section has
  stage, \* "init", "maps", "relos", "load", "ready", "failed"
  relos, \* the relocations not yet collected
  maps,  \* sequence of struct bpf_map with its st_ops
  prog,  \* of each program: [type, attach_btf_id, expected_attach_type]
  kernel, \* external: the kernel it is loaded into
  inuse  \* external: what the kernel took for each map, or Unset

vars == <<d_size, stage, relos, maps, prog, kernel, inuse>>

None == "none"
Unset == <<>>
Zero == <<"zero">>
Section(c) == <<"data", c>>    \* what cell c of the section holds
Members(t) == Types[t]

Init ==
  /\ stage = "init" /\ maps = <<>> /\ d_size \in SecSizes
  /\ relos \in RelosSets /\ kernel \in Kernels
  /\ prog = [p \in DOMAIN Progs |-> [type |-> "unspec", attach_btf_id |-> Unset, expected_attach_type |-> 0]]
  /\ inuse = [v \in DOMAIN Vars |-> Unset]

Fail == stage' = "failed"

-----------------------------------------------------------------------------
(* bpf_object__init_struct_ops_maps: one map per variable; it fails for    *)
(* one beyond the end of the section.                                      *)
init_struct_ops_maps ==
  /\ stage = "init" /\ Len(maps) < Len(Vars)
  /\ LET v == Vars[Len(maps) + 1]
         map == [sec_offset |-> v.offset, value_size |-> Size[v.type], type |-> v.type,
                 data |-> [c \in 0..Size[v.type] - 1 |-> Section(v.offset + c)],
                 progs |-> [i \in DOMAIN Members(v.type) |-> None],
                 kern_func_off |-> [i \in DOMAIN Members(v.type) |-> 0], kern_vdata |-> <<>>]
     IN  IF v.offset + Size[v.type] > d_size THEN Fail /\ UNCHANGED maps
         ELSE maps' = Append(maps, map) /\ UNCHANGED stage
  /\ UNCHANGED <<d_size, relos, prog, kernel, inuse>>

MapsDone ==
  /\ stage = "init" /\ Len(maps) = Len(Vars) /\ stage' = "relos"
  /\ UNCHANGED <<d_size, relos, maps, prog, kernel, inuse>>

(* find_struct_ops_map_by_offset, and the member that begins there *)
Found(off) == {m \in DOMAIN maps : maps[m].sec_offset <= off /\ off - maps[m].sec_offset < maps[m].value_size}
MemberAt(type, off) == {i \in DOMAIN Members(type) : Members(type)[i].off = off}

(* Whether a relocation may give program p to member i of a type: it is    *)
(* free, or was given to the same member of the same type.                 *)
Usable(p, type, i) ==
  IF prog[p].type = "unspec" THEN Progs[p] \in {"struct_ops", None}
  ELSE prog[p] = [type |-> "struct_ops", attach_btf_id |-> <<"local", type>>, expected_attach_type |-> i]

(* bpf_object__collect_st_ops_relos *)
collect_st_ops_relos ==
  /\ stage = "relos" /\ relos # <<>>
  /\ relos' = Tail(relos)
  /\ LET r == Head(relos)
         m == Min(Found(r.offset))
         type == maps[m].type
         at == MemberAt(type, r.offset - maps[m].sec_offset)
         i == Min(at)
     IN  IF \/ Found(r.offset) = {} \/ at = {} \/ Members(type)[i].kind # "func"
            \/ r.prog \notin DOMAIN Progs \/ ~Usable(r.prog, type, i)
         THEN Fail /\ UNCHANGED <<maps, prog>>
         ELSE /\ maps' = [maps EXCEPT ![m].progs[i] = r.prog]
              /\ prog' = [prog EXCEPT ![r.prog] = [type |-> "struct_ops", attach_btf_id |-> <<"local", type>>,
                                                   expected_attach_type |-> i]]
              /\ UNCHANGED stage
  /\ UNCHANGED <<d_size, kernel, inuse>>

RelosDone ==
  /\ stage = "relos" /\ relos = <<>> /\ stage' = "load"
  /\ UNCHANGED <<d_size, relos, maps, prog, kernel, inuse>>

-----------------------------------------------------------------------------
(* bpf_map__init_kern_struct_ops, member by member. *)

KernIndex(type, i) ==
  LET ms == kernel[type].members
      same == {j \in DOMAIN ms : ms[j].name = Members(type)[i].name}
  IN  IF same = {} THEN 0 ELSE Min(same)
Fits(type, i) ==
  LET m == Members(type)[i]
      k == kernel[type].members[KernIndex(type, i)]
  IN  /\ KernIndex(type, i) > 0
      /\ ~m.bits /\ ~k.bits /\ m.kind = k.kind /\ m.kind # "ptr"
      /\ m.kind = "data" => m.size = k.size
(* Where member i is in the value the kernel takes. *)
KernOff(type, i) == kernel[type].data_off + kernel[type].members[KernIndex(type, i)].off

Zeroed(type) == [c \in 0..kernel[type].size - 1 |-> Zero]
(* Mutant: to where the object's struct has it. *)
CopiedHere(map) ==
  LET Put(vdata, i) ==
        LET m == Members(map.type)[i]
            k == kernel[map.type].data_off + m.off
        IN  IF m.kind = "func" THEN vdata
            ELSE [c \in DOMAIN vdata |-> IF c \in k..k + m.size - 1 THEN map.data[m.off + c - k] ELSE vdata[c]]
  IN  FoldLeft(Put, Zeroed(map.type), [i \in DOMAIN Members(map.type) |-> i])
(* Data is copied cell by cell, and of a function only its place is kept. *)
Copied(map) ==
  LET Put(vdata, i) ==
        LET m == Members(map.type)[i]
            k == KernOff(map.type, i)
        IN  IF m.kind = "func" THEN vdata
            ELSE [c \in DOMAIN vdata |-> IF c \in k..k + m.size - 1 THEN map.data[m.off + c - k] ELSE vdata[c]]
  IN  FoldLeft(Put, Zeroed(map.type), [i \in DOMAIN Members(map.type) |-> i])

FuncOff(map) == [i \in DOMAIN map.progs |-> IF map.progs[i] = None THEN 0 ELSE KernOff(map.type, i)]

Initialized == {m \in DOMAIN maps : maps[m].kern_vdata # <<>>}
init_kern_struct_ops ==
  /\ stage = "load" /\ Initialized # DOMAIN maps
  /\ LET m == Min(DOMAIN maps \ Initialized)
         map == maps[m]
         mine(p) == {i \in DOMAIN map.progs : map.progs[i] = p}
     IN  IF map.type \notin DOMAIN kernel \/ ~(\A i \in DOMAIN map.progs : Fits(map.type, i))
         THEN Fail /\ UNCHANGED <<maps, prog>>
         ELSE /\ maps' = [maps EXCEPT ![m].kern_vdata = Copied(map), ![m].kern_func_off = FuncOff(map)]
              /\ prog' = [p \in DOMAIN prog |-> IF mine(p) = {} THEN prog[p]
                             ELSE [prog[p] EXCEPT !.attach_btf_id = <<"kern", map.type>>,
                                                  !.expected_attach_type = KernIndex(map.type, Max(mine(p)))]]
              /\ UNCHANGED stage
  /\ UNCHANGED <<d_size, relos, kernel, inuse>>

LoadDone ==
  /\ stage = "load" /\ Initialized = DOMAIN maps /\ stage' = "ready"
  /\ UNCHANGED <<d_size, relos, maps, prog, kernel, inuse>>

-----------------------------------------------------------------------------
(* External: what the kernel checks of a value. *)
Accepts(type, vdata) ==
  \A j \in DOMAIN kernel[type].members :
    LET k == kernel[type].members[j]
        slot == vdata[kernel[type].data_off + k.off]
    IN  k.kind = "func" /\ slot # Zero =>
          /\ slot[1] = "fd" /\ prog[slot[2]].attach_btf_id = <<"kern", type>> /\ prog[slot[2]].expected_attach_type = j

(* bpf_map__attach_struct_ops: the descriptors are put into the value,     *)
(* which keeps them, and the kernel may take it.                           *)
attach_struct_ops(m) ==
  /\ stage = "ready"
  /\ LET map == maps[m]
         used == {i \in DOMAIN map.progs : map.progs[i] # None}
         filled == [c \in DOMAIN map.kern_vdata |->
                      IF \E i \in used : map.kern_func_off[i] = c
                      THEN <<"fd", map.progs[CHOOSE i \in used : map.kern_func_off[i] = c]>> ELSE map.kern_vdata[c]]
     IN  /\ maps' = [maps EXCEPT ![m].kern_vdata = filled]
         /\ \/ UNCHANGED inuse
            \/ /\ inuse[m] = Unset /\ Accepts(map.type, filled)
               /\ inuse' = [inuse EXCEPT ![m] = filled]
  /\ UNCHANGED <<d_size, stage, relos, prog, kernel>>

(* bpf_link__detach_struct_ops *)
detach_struct_ops(m) ==
  /\ stage = "ready" /\ inuse[m] # Unset
  /\ inuse' = [inuse EXCEPT ![m] = Unset]
  /\ UNCHANGED <<d_size, stage, relos, maps, prog, kernel>>

Next ==
  \/ init_struct_ops_maps \/ MapsDone \/ collect_st_ops_relos \/ RelosDone \/ init_kern_struct_ops \/ LoadDone
  \/ \E m \in DOMAIN maps : attach_struct_ops(m) \/ detach_struct_ops(m)

Spec == Init /\ [][Next]_vars

-----------------------------------------------------------------------------
(* Properties *)

(* What the kernel runs under a name is what the object had under that     *)
(* name, data and programs, wherever its own struct has the member; and    *)
(* nothing under names the object does not have.                           *)
Cells(type, j) == LET k == kernel[type].members[j] IN kernel[type].data_off + k.off..kernel[type].data_off + k.off + k.size - 1
Meant(map, j, c) ==
  LET k == kernel[map.type].members[j]
      same == {i \in DOMAIN map.progs : Members(map.type)[i].name = k.name}
      i == Min(same)
  IN  IF same = {} THEN Zero
      ELSE IF k.kind = "func" THEN IF map.progs[i] = None THEN Zero ELSE <<"fd", map.progs[i]>>
      ELSE Section(map.sec_offset + Members(map.type)[i].off + c - kernel[map.type].data_off - k.off)
RunsWhatWasNamed ==
  \A m \in DOMAIN maps : inuse[m] # Unset =>
    \A j \in DOMAIN kernel[maps[m].type].members : \A c \in Cells(maps[m].type, j) :
      (kernel[maps[m].type].members[j].kind = "func" => c = Min(Cells(maps[m].type, j)))
        => inuse[m][c] = Meant(maps[m], j, c)

(* A program that maps share is loaded for the one member of the kernel's  *)
(* struct that all of them have it on.                                     *)
LoadedForItsMember ==
  stage = "ready" =>
    \A m \in DOMAIN maps : \A i \in DOMAIN maps[m].progs :
      LET p == maps[m].progs[i]
      IN  p # None => prog[p] = [type |-> "struct_ops", attach_btf_id |-> <<"kern", maps[m].type>>,
                                 expected_attach_type |-> KernIndex(maps[m].type, i)]
=============================================================================
