------------------------------- MODULE BpfMapDefs -------------------------------
(***************************************************************************)
(* The maps an object file defines, as libbpf.c reads them when the object *)
(* is opened: definitions of the old kind from the section "maps", those   *)
(* in type information from ".maps", one map for each section of global    *)
(* data and one for kcfg externs, and last the relocations that put maps   *)
(* into the slots of maps of maps.                                         *)
(*                                                                         *)
(* A type is a record with its kind; the maps are an array that moves when *)
(* it grows, so a pointer to a map is <<array, index>>.                    *)
(***************************************************************************)
EXTENDS Integers, Sequences, FiniteSets, SequencesExt, FiniteSetsExt

CONSTANTS
  Elfs,     \* [syms, words, vars, data, relos, strict, others, means]
  DefWords, \* words of struct bpf_map_def
  MapsSec, BtfSec \* the sections "maps" and ".maps"

VARIABLES
  elf,   \* the file
  at,    \* the phase, and how far it is
  maps,  \* obj->maps: [name, sec, off, def, key, value, inner, pin, slots]
  array, \* which array holds them, and how many it has room for
  todo   \* the phases that are left

vars == <<elf, at, maps, array, todo>>

(* Mutant: the relocations are collected before all maps are there. *)
PhasesEarly == <<"legacy", "btf", "relos", "data", "others">>
(* __bpf_object__open and bpf_object__init_maps. *)
Phases == <<"legacy", "btf", "data", "others", "relos">>

Init ==
  /\ elf \in Elfs /\ maps = <<>> /\ array = [gen |-> 0, cap |-> 0]
  /\ at = [pc |-> Head(Phases), i |-> 1] /\ todo = Tail(Phases)

Fail == at' = [pc |-> "failed", i |-> 0] /\ UNCHANGED <<maps, array, todo>>
Done == /\ at' = [pc |-> IF todo = <<>> THEN "open" ELSE Head(todo), i |-> 1]
        /\ todo' = IF todo = <<>> THEN <<>> ELSE Tail(todo)
        /\ UNCHANGED <<maps, array>>

NoDef == [type |-> 0, key_size |-> 0, value_size |-> 0, max_entries |-> 0, map_flags |-> 0]
NewMap(name, sec, off) ==
  [name |-> name, sec |-> sec, off |-> off, def |-> NoDef, key |-> {}, value |-> {}, inner |-> {},
   pin |-> FALSE, slots |-> <<>>]

(* bpf_object__add_map: the array for one more map.                        *)
Reallocated(a, n) == IF n < a.cap THEN a ELSE [gen |-> a.gen + 1, cap |-> Max({4, (a.cap * 3) \div 2})]
bpf_object__add_map(map) == maps' = Append(maps, map) /\ array' = Reallocated(array, Len(maps))

-----------------------------------------------------------------------------

(* A definition of as many words as there are: what is missing is zero,    *)
(* what is too much has to be, unless the caller is relaxed.               *)
Fitted(words) ==
  IF elf.strict /\ \E k \in DefWords + 1..Len(words) : words[k] # 0 THEN {}
  ELSE {SubSeq(words \o <<0, 0, 0, 0, 0>>, 1, DefWords)}

(* bpf_object__init_user_maps: the definitions are as long as the section  *)
(* divided by its symbols.                                                 *)
bpf_object__init_user_maps ==
  LET syms == SelectSeq(elf.syms, LAMBDA y : y.sec = MapsSec)
      size == Len(elf.words)
      sz   == size \div Len(syms)
      sym  == syms[at.i]
      def(w) == [type |-> w[1], key_size |-> w[2], value_size |-> w[3], max_entries |-> w[4], map_flags |-> w[5]]
  IN  /\ at.pc = "legacy" /\ UNCHANGED elf
      /\ IF elf.words = <<>> /\ syms = <<>> THEN Done    \* no such section
         ELSE IF size = 0 \/ Len(syms) = 0 THEN Fail
         ELSE IF size % Len(syms) # 0 THEN Fail
         ELSE IF at.i > Len(syms) THEN Done
         ELSE IF sym.value + sz > size THEN Fail
         ELSE LET ws == Fitted(SubSeq(elf.words, sym.value + 1, sym.value + sz)) IN
              IF ws = {} THEN Fail
              ELSE /\ at' = [at EXCEPT !.i = @ + 1] /\ UNCHANGED todo
                   /\ \E w \in ws : bpf_object__add_map([NewMap(sym.name, MapsSec, sym.value) EXCEPT !.def = def(w)])

-----------------------------------------------------------------------------
RECURSIVE skip_mods_and_typedefs(_)
skip_mods_and_typedefs(t) == IF t.kind \in {"mod", "typedef"} THEN skip_mods_and_typedefs(t.to) ELSE t
Pointed(t) == IF t.kind = "ptr" THEN {t.to} ELSE {}

(* A number is the length of the array a member of a definition points to. *)
get_map_field_int(f) == {a.n : a \in {x \in Pointed(skip_mods_and_typedefs(f.type)) : x.kind = "array"}}

bpf_map_type__is_map_in_map(type) == type \in {12, 13}

(* A size may be given as a number and by a type.                          *)
Agreed(before, sizes) == {s \in sizes : s >= 0 /\ before \in {0, s}}

(* One member of parse_btf_map_def: the map with it, or nothing.           *)
RECURSIVE parse_btf_map_def(_, _, _), Field(_, _, _, _)
Field(map, f, last, is_inner) ==
  LET ints == get_map_field_int(f)
      size(t) == t.size IN
  CASE f.name = "type" -> {[map EXCEPT !.def.type = n] : n \in ints}
    [] f.name = "max_entries" -> {[map EXCEPT !.def.max_entries = n] : n \in ints}
    [] f.name = "map_flags" -> {[map EXCEPT !.def.map_flags = n] : n \in ints}
    [] f.name = "key_size" -> {[map EXCEPT !.def.key_size = n] : n \in Agreed(map.def.key_size, ints)}
    [] f.name = "value_size" -> {[map EXCEPT !.def.value_size = n] : n \in Agreed(map.def.value_size, ints)}
    [] f.name = "key" -> {[map EXCEPT !.def.key_size = n, !.key = Pointed(f.type)] :
                            n \in Agreed(map.def.key_size, {size(t) : t \in Pointed(f.type)})}
    [] f.name = "value" -> {[map EXCEPT !.def.value_size = n, !.value = Pointed(f.type)] :
                              n \in Agreed(map.def.value_size, {size(t) : t \in Pointed(f.type)})}
    [] f.name = "values" ->
         IF is_inner \/ ~last \/ ~bpf_map_type__is_map_in_map(map.def.type) \/ map.def.value_size \notin {0, 4}
            \/ f.type.kind # "array" THEN {}
         ELSE IF f.type.n # 0 THEN {}
         ELSE LET defs == {skip_mods_and_typedefs(t) : t \in Pointed(skip_mods_and_typedefs(f.type.to))}
                  inner(d) == parse_btf_map_def(NewMap("inner", BtfSec, 0), d.members, TRUE)
              IN  {[map EXCEPT !.def.value_size = 4, !.inner = {m}] :
                     m \in UNION {inner(d) : d \in {x \in defs : x.kind = "struct"}}}
    [] f.name = "pinning" ->
         IF is_inner THEN {} ELSE {[map EXCEPT !.pin = @ \/ n = 1] : n \in ints \cap {0, 1}}
    [] OTHER -> IF elf.strict THEN {} ELSE {map}

(* All members in their order; a map needs a type.                         *)
parse_btf_map_def(map, members, is_inner) ==
  {m \in FoldLeft(LAMBDA ms, i : UNION {Field(x, members[i], i = Len(members), is_inner) : x \in ms},
                  {map}, [i \in DOMAIN members |-> i]) : m.def.type # 0}

bpf_object__init_user_btf_map ==
  LET v   == elf.vars[at.i]
      def == skip_mods_and_typedefs(v.type)
      ms  == IF def.kind # "struct" \/ v.linkage \notin {"global", "static"} THEN {}
             ELSE IF def.size > v.size THEN {}
             ELSE parse_btf_map_def(NewMap(v.name, BtfSec, v.off), def.members, FALSE)
  IN  /\ at.pc = "btf" /\ UNCHANGED elf
      /\ IF at.i > Len(elf.vars) THEN Done
         ELSE IF ms = {} THEN Fail
         ELSE /\ at' = [at EXCEPT !.i = @ + 1] /\ UNCHANGED todo
              /\ \E m \in ms : bpf_object__add_map(m)

-----------------------------------------------------------------------------
(* bpf_object__init_global_data_maps: .data, .rodata and .bss, those the   *)
(* file has.                                                               *)
bpf_object__init_internal_map ==
  LET d == elf.data[at.i]
      map == [NewMap(d.name, d.sec, 0) EXCEPT
                !.def = [type |-> 2, key_size |-> 4, value_size |-> d.size, max_entries |-> 1,
                         map_flags |-> IF d.name = "rodata" THEN 1152 ELSE 1024]]
  IN  /\ at.pc = "data" /\ UNCHANGED elf
      /\ IF at.i > Len(elf.data) THEN Done
         ELSE IF d.size = 0 THEN Fail     \* nothing to mmap
         ELSE at' = [at EXCEPT !.i = @ + 1] /\ UNCHANGED todo /\ bpf_object__add_map(map)

(* The map of kcfg externs, and those of struct_ops variables.             *)
InitOthers ==
  /\ at.pc = "others" /\ UNCHANGED elf
  /\ IF at.i > elf.others THEN Done
     ELSE at' = [at EXCEPT !.i = @ + 1] /\ UNCHANGED todo /\ bpf_object__add_map(NewMap("other", 9, at.i))

-----------------------------------------------------------------------------
Var(map) == CHOOSE v \in ToSet(elf.vars) : v.off = map.off

(* The slots with one more filled, zeros before it if there were none.     *)
WithSlot(slots, k, p) ==
  [j \in 1..Max({Len(slots), k + 1}) |-> IF j = k + 1 THEN p ELSE IF j <= Len(slots) THEN slots[j] ELSE <<>>]

(* bpf_object__collect_map_relos: a slot of a map of maps gets a pointer.  *)
bpf_object__collect_map_relos ==
  LET r == elf.relos[at.i]
      owners == {j \in DOMAIN maps : /\ maps[j].sec = BtfSec
                                     /\ Var(maps[j]).off <= r.off /\ r.off + 8 <= Var(maps[j]).off + Var(maps[j]).size}
      o == Min(owners)
      targets == {j \in DOMAIN maps : maps[j].name = r.name}
      members == skip_mods_and_typedefs(Var(maps[o]).type).members
      moff == r.off - Var(maps[o]).off - 8 * (Len(members) - 1)
  IN  /\ at.pc = "relos" /\ UNCHANGED elf
      /\ IF at.i > Len(elf.relos) THEN Done
         ELSE IF r.sec # BtfSec \/ owners = {} \/ targets = {} THEN Fail
         ELSE IF ~bpf_map_type__is_map_in_map(maps[o].def.type) \/ (maps[o].def.type = 13 /\ maps[o].def.key_size # 4) THEN Fail
         ELSE IF Last(members).name # "values" \/ moff < 0 \/ moff % 8 # 0 THEN Fail
         ELSE /\ at' = [at EXCEPT !.i = @ + 1] /\ UNCHANGED <<array, todo>>
              /\ maps' = [maps EXCEPT ![o].slots = WithSlot(@, moff \div 8, <<array.gen, Min(targets)>>)]

Next ==
  \/ bpf_object__init_user_maps \/ bpf_object__init_user_btf_map \/ bpf_object__init_internal_map
  \/ InitOthers \/ bpf_object__collect_map_relos

Spec == Init /\ [][Next]_vars
-----------------------------------------------------------------------------
Open == at.pc = "open"

(* A pointer in a slot is into the array the maps are in, and no other.    *)
PointersLive ==
  \A m \in DOMAIN maps : \A k \in DOMAIN maps[m].slots :
    maps[m].slots[k] # <<>> => maps[m].slots[k][1] = array.gen

(* The slots of a map of maps are what the source wrote into its values,   *)
(* wherever the relocations are in the file.                               *)
SlotsAsWritten ==
  Open => \A m \in DOMAIN maps :
    /\ maps[m].inner # {} => \A k \in DOMAIN maps[m].slots :
         maps[m].slots[k] = <<>> <=> ~\E w \in elf.means : w.map = maps[m].name /\ w.slot = k
    /\ \A w \in elf.means : w.map = maps[m].name =>
         w.slot \in DOMAIN maps[m].slots /\ maps[maps[m].slots[w.slot][2]].name = w.to

(* A map whose key or value type is known has the sizes of these types,    *)
(* in whatever order the definition gives sizes and types.                 *)
SizesAgree ==
  Open => \A m \in DOMAIN maps :
    /\ \A t \in maps[m].key : t.size = maps[m].def.key_size
    /\ \A t \in maps[m].value : t.size = maps[m].def.value_size

(* A definition of the old kind gets no words of its neighbour: what the   *)
(* source did not write is zero, or the object is not opened.              *)
OwnWords ==
  Open /\ elf.strict => \A m \in DOMAIN maps : maps[m].sec = MapsSec =>
    LET d == maps[m].def IN <<d.type, d.key_size, d.value_size, d.max_entries, d.map_flags>> = elf.legacy[maps[m].name]
=============================================================================
