------------------------------- MODULE BpfCoreRelo ------------------------------
(***************************************************************************)
(* CO-RE relocations of libbpf.c: an instruction that was compiled for the *)
(* local description of a kernel type is changed to fit the types the      *)
(* running kernel has under that name.  There may be several of them; the  *)
(* list of a type gets shorter with every relocation it explains.          *)
(*                                                                         *)
(* A type is a record with its kind that holds the types it is made of;    *)
(* {} stands for NULL, {x} for a pointer to x; a name is a sequence of     *)
(* letters, <<>> the name of what has none.                                *)
(***************************************************************************)
EXTENDS Integers, Sequences, FiniteSets, SequencesExt, FiniteSetsExt

CONSTANTS
  Objects,  \* [relos, local, vmlinux, modules]
  ShrtMax   \* greatest offset of an instruction

VARIABLES
  obj,    \* the object and the kernel: types are [id, t]
  i,      \* relocation the loop is at
  cache,  \* cand_cache: of each local name, no list or {list}
  loaded, \* the types of modules: {} before they were loaded, then {list}
  insns,  \* the instruction of each relocation
  err     \* what bpf_object__relocate_core returns

vars == <<obj, i, cache, loaded, insns, err>>

Init ==
  /\ obj \in Objects /\ i = 1 /\ cache = [n \in DOMAIN obj.local |-> {}] /\ loaded = {} /\ err = "none"
  /\ insns = [k \in DOMAIN obj.relos |-> obj.relos[k].insn]

-----------------------------------------------------------------------------
Composite(t) == t.kind \in {"struct", "union"}
RECURSIVE skip_mods_and_typedefs(_), btf__resolve_size(_)
skip_mods_and_typedefs(t) == IF t.kind \in {"mod", "typedef"} THEN skip_mods_and_typedefs(t.to) ELSE t
btf__resolve_size(t) ==
  CASE t.kind = "array" -> t.n * btf__resolve_size(t.to)
    [] t.kind \in {"mod", "typedef"} -> btf__resolve_size(t.to)
    [] OTHER -> t.size

(* bpf_core_essential_name_len: a name without its flavour, X of X___Y.    *)
Essential(name) ==
  LET seps == {k \in 1..Len(name) - 4 : /\ name[k] # "_" /\ name[k + 4] # "_"
                                        /\ \A j \in 1..3 : name[k + j] = "_"}
  IN  IF seps = {} THEN name ELSE SubSeq(name, 1, Max(seps))

FieldKinds == {"byte_off", "byte_sz", "field_exists", "signed", "lshift", "rshift"}
TypeKinds  == {"type_exists", "type_size", "type_target"}
EnumKinds  == {"enumval", "enumval_exists"}

is_flex_arr(acc, arr) ==
  /\ acc.name # <<>> /\ arr.n = 0
  /\ acc.idx = Len(acc.t.members) - 1

(* bpf_core_parse_spec: the fields and elements a sequence of indexes      *)
(* leads through, and where it ends.                                       *)
Access(s, idx) ==
  LET t == skip_mods_and_typedefs(s.t)
      m == t.members[idx + 1]
      e == skip_mods_and_typedefs(t.to)
  IN  CASE Composite(t) -> IF idx >= Len(t.members) THEN {}
             ELSE {[t |-> m.type, off |-> s.off + m.off,
                    acc |-> IF m.name = <<>> THEN s.acc ELSE Append(s.acc, [t |-> t, idx |-> idx, name |-> m.name])]}
        [] t.kind = "array" -> IF idx >= t.n /\ ~is_flex_arr(Last(s.acc), t) THEN {}
             ELSE {[t |-> e, off |-> s.off + idx * btf__resolve_size(e) * 8,
                    acc |-> Append(s.acc, [t |-> e, idx |-> idx, name |-> <<>>])]}
        [] OTHER -> {}

Root(t, idx) == [t |-> t, off |-> idx * btf__resolve_size(t) * 8, acc |-> <<[t |-> t, idx |-> idx, name |-> <<>>]>>]
bpf_core_parse_spec(root, raw, kind) ==
  LET t == skip_mods_and_typedefs(root) IN
  CASE kind \in TypeKinds -> {[t |-> root, off |-> 0, acc |-> <<>>]}
    [] kind \in EnumKinds -> IF t.kind # "enum" \/ Len(raw) > 1 \/ raw[1] >= Len(t.vals) THEN {}
                             ELSE {[t |-> t, off |-> 0, acc |-> <<[t |-> t, idx |-> raw[1], name |-> t.vals[raw[1] + 1].name]>>]}
    [] OTHER -> FoldLeft(LAMBDA ss, idx : UNION {Access(s, idx) : s \in ss}, {Root(t, raw[1])}, Tail(raw))

-----------------------------------------------------------------------------
RECURSIVE bpf_core_fields_are_compat(_, _)
bpf_core_fields_are_compat(local, targ) ==
  LET l == skip_mods_and_typedefs(local)  t == skip_mods_and_typedefs(targ) IN
  \/ Composite(l) /\ Composite(t)
  \/ l.kind = t.kind /\ CASE l.kind = "ptr" -> TRUE
       [] l.kind \in {"fwd", "enum"} -> \/ <<>> \in {Essential(l.name), Essential(t.name)}
                                        \/ Essential(l.name) = Essential(t.name)
       [] l.kind = "int" -> l.off = 0 /\ t.off = 0
       [] l.kind = "array" -> bpf_core_fields_are_compat(l.to, t.to)
       [] OTHER -> FALSE

RECURSIVE bpf_core_types_are_compat(_, _)
bpf_core_types_are_compat(local, targ) ==
  LET l == skip_mods_and_typedefs(local)  t == skip_mods_and_typedefs(targ) IN
  l.kind = t.kind /\ CASE l.kind \in {"void", "struct", "union", "enum", "fwd"} -> TRUE
    [] l.kind = "int" -> l.off = 0 /\ t.off = 0
    [] l.kind \in {"ptr", "array"} -> bpf_core_types_are_compat(l.to, t.to)
    [] l.kind = "func_proto" -> /\ Len(l.params) = Len(t.params) /\ bpf_core_types_are_compat(l.to, t.to)
                                /\ \A k \in DOMAIN l.params : bpf_core_types_are_compat(l.params[k], t.params[k])
    [] OTHER -> FALSE

(* bpf_core_match_member: the member of the name of an accessor, in the    *)
(* type or in what is embedded in it without a name.                       *)
RECURSIVE bpf_core_match_member(_, _)
bpf_core_match_member(acc, targ) ==
  LET t  == skip_mods_and_typedefs(targ)
      ms == t.members
      local == acc.t.members[acc.idx + 1]
      found(k) ==
        IF ms[k].name = <<>> THEN {[r EXCEPT !.off = @ + ms[k].off] : r \in bpf_core_match_member(acc, ms[k].type)}
        ELSE IF ms[k].name = acc.name /\ bpf_core_fields_are_compat(local.type, ms[k].type)
        THEN {[t |-> ms[k].type, off |-> ms[k].off, acc |-> [t |-> t, idx |-> k - 1, name |-> acc.name]]}
        ELSE {}
      ends == {k \in DOMAIN ms : ms[k].name = acc.name \/ found(k) # {}}
  IN  IF ~Composite(t) THEN {} ELSE IF ends = {} THEN {} ELSE found(Min(ends))

(* One accessor of bpf_core_spec_match in the type of the kernel.          *)
Matched(s, acc, first) ==
  LET t == skip_mods_and_typedefs(s.t)
      e == IF first THEN t ELSE skip_mods_and_typedefs(t.to)
  IN  IF acc.name # <<>>
      THEN {[t |-> m.t, off |-> s.off + m.off, acc |-> Append(s.acc, m.acc)] : m \in bpf_core_match_member(acc, t)}
      ELSE IF ~first /\ t.kind # "array" THEN {}
      ELSE IF ~first /\ acc.idx >= t.n /\ ~is_flex_arr(Last(s.acc), t) THEN {}
      ELSE {[t |-> e, off |-> s.off + acc.idx * btf__resolve_size(e) * 8,
             acc |-> Append(s.acc, [t |-> e, idx |-> acc.idx, name |-> <<>>])]}

bpf_core_spec_match(local, targ, kind) ==
  LET t == skip_mods_and_typedefs(targ)
      start == [t |-> targ, off |-> 0, acc |-> <<>>]
      vals == {k \in DOMAIN t.vals : Essential(t.vals[k].name) = Essential(local.acc[1].name)}
  IN  CASE kind \in TypeKinds -> IF local.t.kind = targ.kind /\ bpf_core_types_are_compat(local.t, targ) THEN {start} ELSE {}
        [] kind \in EnumKinds -> IF t.kind # "enum" THEN {} ELSE IF vals = {} THEN {}
             ELSE {[t |-> t, off |-> 0, acc |-> <<[t |-> t, idx |-> Min(vals) - 1, name |-> t.vals[Min(vals)].name]>>]}
        [] OTHER -> FoldLeft(LAMBDA ss, k : UNION {Matched(s, local.acc[k], k = 1) : s \in ss}, {start},
                             [k \in DOMAIN local.acc |-> k])

-----------------------------------------------------------------------------

(* The place and the size of the smallest word that holds a bit field.     *)
RECURSIVE Word(_, _, _)
Word(bit_off, bit_sz, byte_sz) ==
  LET byte_off == ((bit_off \div 8) \div byte_sz) * byte_sz IN
  IF bit_off + bit_sz - byte_off * 8 <= byte_sz * 8 THEN {[off |-> byte_off, sz |-> byte_sz]}
  ELSE IF byte_sz >= 8 THEN {} ELSE Word(bit_off, bit_sz, byte_sz * 2)

Res(e, val, sz, type, validate) == [err |-> e, val |-> val, sz |-> sz, type |-> type, validate |-> validate]
Error(e) == Res(e, 0, 0, {}, TRUE)

(* bpf_core_calc_field_relo, for the local or the kernel's field.          *)
bpf_core_calc_field_relo(kind, spec) ==
  LET s   == CHOOSE x \in spec : TRUE
      acc == Last(s.acc)
      m   == acc.t.members[acc.idx + 1]
      mt  == skip_mods_and_typedefs(m.type)
      bitfield == m.bits > 0
      size == btf__resolve_size(mt)
      ws  == IF bitfield THEN Word(s.off, m.bits, mt.size) ELSE {[off |-> s.off \div 8, sz |-> size]}
      w   == CHOOSE x \in ws : TRUE
      bit_sz == IF bitfield THEN m.bits ELSE w.sz * 8
      plain  == btf__resolve_size(acc.t)
  IN  CASE kind = "field_exists" -> Res("", Cardinality(spec), 0, {}, TRUE)
        [] kind # "field_exists" /\ spec = {} -> Error("EUCLEAN")
        [] kind # "field_exists" /\ spec # {} /\ acc.name = <<>> ->
             IF plain < 0 \/ kind \notin {"byte_off", "byte_sz"} THEN Error("EINVAL")
             ELSE IF kind = "byte_off" THEN Res("", s.off \div 8, plain, {acc.t}, TRUE) ELSE Res("", plain, 0, {}, TRUE)
        [] OTHER ->
             IF ws = {} THEN Error("E2BIG") ELSE IF w.sz < 0 THEN Error("EINVAL")
             ELSE CASE kind = "byte_off" -> IF bitfield THEN Res("", w.off, 0, {}, FALSE) ELSE Res("", w.off, w.sz, {mt}, TRUE)
                    [] kind = "byte_sz"  -> Res("", w.sz, 0, {}, ~bitfield)
                    [] kind = "signed"   -> Res("", IF mt.kind = "enum" \/ mt.signed THEN 1 ELSE 0, 0, {}, TRUE)
                    [] kind = "lshift"   -> Res("", 64 - (s.off + bit_sz - w.off * 8), 0, {}, ~bitfield)
                    [] kind = "rshift"   -> Res("", 64 - bit_sz, 0, {}, TRUE)

(* bpf_core_calc_type_relo and bpf_core_calc_enumval_relo.                 *)
bpf_core_calc_type_relo(kind, spec, id) ==
  LET s == CHOOSE x \in spec : TRUE IN
  CASE spec = {} -> Res("", 0, 0, {}, TRUE)
    [] spec # {} /\ kind = "type_exists" -> Res("", 1, 0, {}, TRUE)
    [] spec # {} /\ kind = "type_target" -> Res("", id, 0, {}, TRUE)
    [] OTHER -> IF btf__resolve_size(s.t) < 0 THEN Error("EINVAL") ELSE Res("", btf__resolve_size(s.t), 0, {}, TRUE)
bpf_core_calc_enumval_relo(kind, spec) ==
  LET s == CHOOSE x \in spec : TRUE IN
  CASE kind = "enumval_exists" -> Res("", Cardinality(spec), 0, {}, TRUE)
    [] kind = "enumval" /\ spec = {} -> Error("EUCLEAN")
    [] OTHER -> Res("", s.t.vals[s.acc[1].idx + 1].val, 0, {}, TRUE)
Calc(kind, spec, id) ==
  CASE kind \in FieldKinds -> bpf_core_calc_field_relo(kind, spec)
    [] kind \in TypeKinds  -> bpf_core_calc_type_relo(kind, spec, id)
    [] OTHER -> bpf_core_calc_enumval_relo(kind, spec)

(* bpf_core_calc_relo: a size may only change where zeros fill it up.  o   *)
(* and n are what the local type and the kernel's give.                    *)
Relo(o, n) ==
  LET e == IF o.err # "" THEN o.err ELSE n.err
      widens(a, b) == \/ a.kind = "ptr" /\ b.kind = "ptr"
                      \/ a.kind = "int" /\ b.kind = "int" /\ ~a.signed /\ ~b.signed
  IN  [err |-> IF e = "EUCLEAN" THEN "" ELSE e, poison |-> e = "EUCLEAN", orig_val |-> o.val, new_val |-> n.val,
       orig_sz |-> o.sz, new_sz |-> n.sz, validate |-> o.validate,
       fail_memsz_adjust |-> e = "" /\ o.sz # n.sz /\ ~\E a \in o.type, b \in n.type : widens(a, b)]
bpf_core_calc_relo(kind, local, targ, lid, tid) == Relo(Calc(kind, {local}, lid), Calc(kind, targ, tid))

-----------------------------------------------------------------------------
Poison == [class |-> "call", imm |-> 195896080, off |-> 0, sz |-> 0, wide |-> FALSE]

(* bpf_core_patch_insn: nothing, or the instruction as it has to be.  An   *)
(* ldimm64 is one instruction here; both of its halves are poisoned.       *)
bpf_core_patch_insn(insn, res) ==
  LET unexpected(v) == res.validate /\ v # res.orig_val IN
  IF res.poison THEN {[Poison EXCEPT !.wide = insn.wide]}
  ELSE IF insn.class \in {"alu", "ldimm64"}
  THEN IF unexpected(insn.imm) THEN {} ELSE {[insn EXCEPT !.imm = res.new_val]}
  ELSE IF insn.class # "mem" \/ unexpected(insn.off) \/ res.new_val > ShrtMax THEN {}
  ELSE IF res.fail_memsz_adjust THEN {Poison}
  ELSE IF res.new_sz = res.orig_sz THEN {[insn EXCEPT !.off = res.new_val]}
  ELSE IF insn.sz # res.orig_sz \/ res.new_sz \notin {1, 2, 4, 8} THEN {}
  ELSE {[insn EXCEPT !.off = res.new_val, !.sz = res.new_sz]}

-----------------------------------------------------------------------------
(* bpf_core_add_cands: the types of a list that have the kind and, but for *)
(* the flavour, the name.                                                  *)
bpf_core_add_cands(list, local) ==
  SelectSeq(list, LAMBDA c : c.t.kind = local.kind /\ c.t.name # <<>> /\ Essential(c.t.name) = Essential(local.name))

(* bpf_core_find_cands: modules are only looked at when the kernel itself  *)
(* has no such type.  They are loaded once, those that are still there     *)
(* when they are asked for.                                                *)
bpf_core_find_cands(name) ==
  LET local == obj.local[name].t
      main  == bpf_core_add_cands(obj.vmlinux, local)
      cands(mods) == FlattenSeq([k \in DOMAIN mods |-> bpf_core_add_cands(mods[k], local)])
  IN  IF main # <<>> THEN {[list |-> main, mods |-> loaded]}
      ELSE IF loaded # {} THEN {[list |-> cands(mods), mods |-> loaded] : mods \in loaded}
      ELSE {[list |-> cands(mods), mods |-> {mods}] : mods \in
              {SelectSeq(obj.modules, LAMBDA m : m \in there) : there \in SUBSET ToSet(obj.modules)}}

(* One candidate in the loop of bpf_core_apply_relo.                       *)
NoMatch == [res |-> {}, off |-> 0, kept |-> <<>>, err |-> ""]
Considered(st, c, off, res) ==
  LET same(x) == x.poison = res.poison /\ x.new_val = res.new_val /\ st.off = off
  IN  IF res.err # "" THEN [st EXCEPT !.err = res.err]
      ELSE IF st.res = {} THEN [res |-> {res}, off |-> off, kept |-> <<c>>, err |-> ""]
      ELSE IF \E x \in st.res : ~same(x) THEN [st EXCEPT !.err = "EINVAL"]
      ELSE [st EXCEPT !.kept = Append(@, c)]
Candidate(st, c, r, local) ==
  LET m == bpf_core_spec_match(local, c.t, r.kind)
  IN  IF st.err # "" \/ m = {} THEN st
      ELSE Considered(st, c, (CHOOSE x \in m : TRUE).off,
                      bpf_core_calc_relo(r.kind, local, m, obj.local[r.type].id, c.id))

(* Mutant: the list stays as long as it was. *)
KeptAll(list, kept) == list
(* What stays in the list: those that match, or all if none does.          *)
Kept(list, kept) == IF kept = <<>> THEN list ELSE kept

Next_(e, insn) == /\ err' = e /\ insns' = [insns EXCEPT ![i] = insn] /\ i' = i + 1 /\ UNCHANGED obj
Stop(e) == err' = e /\ UNCHANGED <<obj, i, insns>>

(* bpf_core_apply_relo, for one relocation with one list of candidates.    *)
Result(r, local, st) ==
  IF st.kept = <<>> THEN bpf_core_calc_relo(r.kind, local, {}, obj.local[r.type].id, 0) ELSE CHOOSE x \in st.res : TRUE
Patch(res) ==
  LET new == bpf_core_patch_insn(insns[i], res)
  IN  IF res.err # "" THEN Stop(res.err) ELSE IF new = {} THEN Stop("EINVAL") ELSE \E x \in new : Next_(err, x)
Apply(r, local, list) ==
  \E st \in {FoldLeft(LAMBDA s, c : Candidate(s, c, r, local), NoMatch, list)} :
    IF st.err # "" THEN Stop(st.err) /\ UNCHANGED cache
    ELSE cache' = [cache EXCEPT ![r.type] = {Kept(list, st.kept)}] /\ Patch(Result(r, local, st))

TypeLocal(id) == [err |-> "", poison |-> FALSE, orig_val |-> id, new_val |-> id, orig_sz |-> 0, new_sz |-> 0,
                  validate |-> TRUE, fail_memsz_adjust |-> FALSE]

bpf_core_apply_relo ==
  LET r == obj.relos[i]
      root  == obj.local[r.type].t
      specs == bpf_core_parse_spec(root, r.raw, IF r.kind = "type_local" THEN "type_exists" ELSE r.kind)
      new   == bpf_core_patch_insn(insns[i], TypeLocal(obj.local[r.type].id))
  IN  /\ err = "none" /\ i <= Len(obj.relos) /\ r.load
      /\ \/ specs = {} /\ Stop("EINVAL") /\ UNCHANGED <<cache, loaded>>
         \/ /\ r.kind = "type_local" /\ specs # {} /\ UNCHANGED <<cache, loaded>>
            /\ IF new = {} THEN Stop("EINVAL") ELSE \E x \in new : Next_(err, x)
         \/ r.kind # "type_local" /\ specs # {} /\ cache[r.type] = {} /\ root.name = <<>> /\ Stop("EINVAL") /\ UNCHANGED <<cache, loaded>>
         \/ /\ r.kind # "type_local" /\ cache[r.type] = {} /\ root.name # <<>>
            /\ \E s \in specs, f \in bpf_core_find_cands(r.type) : loaded' = f.mods /\ Apply(r, s, f.list)
         \/ /\ r.kind # "type_local" /\ UNCHANGED loaded
            /\ \E s \in specs, list \in cache[r.type] : Apply(r, s, list)

(* A program that will not be loaded is left as it is.                     *)
SkipRelo == /\ err = "none" /\ i <= Len(obj.relos) /\ ~obj.relos[i].load /\ i' = i + 1
            /\ UNCHANGED <<obj, cache, loaded, insns, err>>
bpf_object__relocate_core_out == err = "none" /\ i > Len(obj.relos) /\ err' = "" /\ UNCHANGED <<obj, i, cache, loaded, insns>>

Next == bpf_core_apply_relo \/ SkipRelo \/ bpf_object__relocate_core_out

Spec == Init /\ [][Next]_vars
-----------------------------------------------------------------------------
SpecOf(r)  == bpf_core_parse_spec(obj.local[r.type].t, r.raw, r.kind)
Applied    == {k \in 1..i - 1 : obj.relos[k].load /\ obj.relos[k].kind # "type_local"}
(* The types that are still candidates for the type of relocation k. *)
Left(k) == UNION {ToSet(list) : list \in cache[obj.relos[k].type]}
(* What relocation k gives for candidate c, if c is what the kernel has. *)
With(k, c) ==
  LET r == obj.relos[k]  local == CHOOSE s \in SpecOf(r) : TRUE
  IN  bpf_core_calc_relo(r.kind, local, bpf_core_spec_match(local, c.t, r.kind), obj.local[r.type].id, c.id)
Value(insn) == IF insn.class = "mem" THEN insn.off ELSE insn.imm

(* A type that is still a candidate agrees with every relocation that was  *)
(* applied: no two instructions were made for kernels that cannot be one.  *)
CandidatesExplainAll ==
  \A k \in Applied : \A c, d \in Left(k) :
    /\ With(k, c).poison = With(k, d).poison /\ With(k, c).new_val = With(k, d).new_val
    /\ insns[k].class # "call" => ~With(k, c).poison /\ With(k, c).new_val = Value(insns[k])

(* Where the field of a path is, found without the code: every way through *)
(* members without a name.                                                 *)
RECURSIVE Places(_, _)
Places(t0, path) ==
  LET t == skip_mods_and_typedefs(t0)
      after(m) == IF m.name = <<>> THEN {[p EXCEPT !.off = @ + m.off] : p \in Places(m.type, path)}
                  ELSE IF m.name # Head(path) THEN {}
                  ELSE IF Len(path) = 1 THEN {[off |-> m.off, type |-> skip_mods_and_typedefs(m.type), bits |-> m.bits]}
                  ELSE {[p EXCEPT !.off = @ + m.off] : p \in Places(m.type, Tail(path))}
  IN  CASE Composite(t) -> UNION {after(t.members[k]) : k \in DOMAIN t.members}
        [] t.kind = "array" ->
             LET e == skip_mods_and_typedefs(t.to)  here == Head(path) * btf__resolve_size(e) * 8 IN
             IF Len(path) = 1 THEN {[off |-> here, type |-> e, bits |-> 0]}
             ELSE {[p EXCEPT !.off = @ + here] : p \in Places(e, Tail(path))}
        [] OTHER -> {}

(* An instruction that reads a field reads all of it and nothing else, in  *)
(* a type the kernel may have; what cannot be read that way is poisoned.   *)
ReadsTheField ==
  \A k \in Applied : LET r == obj.relos[k] IN
    r.kind = "byte_off" /\ insns[k].class = "mem" =>
      \E c \in Left(k) : \E p \in Places(c.t, r.path) :
        p.bits = 0 => p.off = 8 * insns[k].off /\ btf__resolve_size(p.type) = insns[k].sz

(* Loading byte_sz bytes at byte_off, shifting left and then right, leaves *)
(* exactly the bits of the field, and the word is where it can be loaded.  *)
BitsExtracted ==
  \A k \in Applied : LET r == obj.relos[k]  local == CHOOSE s \in SpecOf(r) : TRUE IN
    r.kind \in FieldKinds => \A c \in Left(k) : \A s \in bpf_core_spec_match(local, c.t, r.kind) :
      LET v(kind) == bpf_core_calc_field_relo(kind, {s})
          bits == 64 - v("rshift").val
      IN  v("lshift").err = "" =>
            /\ v("byte_off").val % v("byte_sz").val = 0
            /\ v("lshift").val >= 0 /\ 8 * v("byte_off").val <= s.off
            /\ s.off + bits = 8 * v("byte_off").val + 64 - v("lshift").val
            /\ s.off + bits <= 8 * (v("byte_off").val + v("byte_sz").val)
=============================================================================
