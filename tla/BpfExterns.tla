------------------------------ MODULE BpfExterns ------------------------------
(***************************************************************************)
(* External variables of a BPF object in libbpf.c: they are collected,     *)
(* sorted and laid out, and at load time given values from the version of  *)
(* the kernel, from Kconfig text of the caller, from that of the system,   *)
(* from /proc/kallsyms and from the type information of the kernel and its *)
(* modules.                                                                *)
(***************************************************************************)
EXTENDS Integers, Sequences, FiniteSets

CONSTANTS
  Objects,    \* sequences of externs, in the order of their symbols
  Extras,     \* Kconfig text of the caller: sequences of lines, or NoText
  Systems,    \* that of the system
  Kallsyms,   \* /proc/kallsyms: sequences of <<name, address>>
  Vmlinux,    \* the kernel's variables: functions from names to "same" or "other" types
  Modules,    \* sequences of such functions
  Version,    \* the name LINUX_KERNEL_VERSION
  Configs,    \* names that start with CONFIG_
  Kver,       \* bits of the version, as a number
  ByteBits,   \* bits of a byte (8 in the code)
  NoText      \* there is no text

Pow2[n \in Nat] == IF n = 0 THEN 1 ELSE 2 * Pow2[n - 1]
U64 == Pow2[8 * ByteBits]
ExternsAssumption == ByteBits \in Nat \ {0} /\ Version \notin Configs

VARIABLES
  obj,      \* the externs: collected, then sorted
  given,    \* what the system and the caller have: [extra, system, kallsyms, vmlinux, modules]
  at,       \* where the work is: [pc, i]
  offset,   \* data_off of each kcfg extern
  set,      \* is_set: the externs that have a value
  val       \* the values

vars == <<obj, given, at, offset, set, val>>

Init ==
  /\ obj \in Objects
  /\ given \in [extra : Extras, system : Systems, kallsyms : Kallsyms, vmlinux : Vmlinux, modules : Modules]
  /\ at = [pc |-> "collect", i |-> 0]
  /\ offset = <<>> /\ set = {} /\ val = [e \in {} |-> 0]

Names == {obj[k].name : k \in DOMAIN obj}
find_extern_by_name(n) == CHOOSE k \in DOMAIN obj : obj[k].name = n
Go(pc)  == at' = [pc |-> pc, i |-> 1]
Fail(e) == at' = [pc |-> e, i |-> 0]

-----------------------------------------------------------------------------
(* find_kcfg_type                                                          *)
find_kcfg_type(e) ==
  CASE e.kind = "bool"     -> IF e.sz = 1 THEN "bool" ELSE "unknown"
    [] e.kind = "int"      -> IF e.sz = 1 THEN "char" ELSE IF e.sz \in {2, 4, 8} THEN "int" ELSE "unknown"
    [] e.kind = "tristate" -> IF e.sz = 4 THEN "tristate" ELSE "unknown"
    [] e.kind = "chars"    -> IF e.sz > 0 THEN "char_arr" ELSE "unknown"
    [] OTHER               -> "unknown"

(* cmp_externs: kcfg before ksyms, then those to be aligned most, then the *)
(* shorter, then by name.                                                  *)
Before(a, b) ==
  IF a.sec # b.sec THEN a.sec = "kcfg"
  ELSE IF a.sec = "kcfg" /\ a.align # b.align THEN a.align > b.align
  ELSE IF a.sec = "kcfg" /\ a.sz # b.sz THEN a.sz < b.sz
  ELSE a.name < b.name
Sorted(s) == CHOOSE t \in [DOMAIN s -> {s[k] : k \in DOMAIN s}] :
               \A j, k \in DOMAIN s : j < k => Before(t[j], t[k])

roundup(x, y) == ((x + y - 1) \div y) * y

(* The places of the kcfg externs in the map, one behind the other.        *)
Layout(s) ==
  LET off[k \in 0..Len(s)] == IF k = 0 THEN <<0, 0>>
        ELSE IF s[k].sec # "kcfg" THEN off[k - 1]
        ELSE LET o == roundup(off[k - 1][2], s[k].align) IN <<o, o + s[k].sz>>
  IN  [k \in {j \in DOMAIN s : s[j].sec = "kcfg"} |-> off[k][1]]

(* bpf_object__init_kconfig_map: it ends with the last kcfg extern.        *)
MapSize == LET kcfg == {k \in DOMAIN obj : obj[k].sec = "kcfg"}
           IN  IF kcfg = {} THEN 0
               ELSE LET last == CHOOSE k \in kcfg : \A j \in kcfg : j <= k IN offset[last] + obj[last].sz

bpf_object__collect_externs ==
  /\ at.pc = "collect" /\ UNCHANGED <<given, set, val>>
  /\ IF \E k \in DOMAIN obj : obj[k].sec = "kcfg" /\ find_kcfg_type(obj[k]) = "unknown"
     THEN Fail("ENOTSUP") /\ UNCHANGED <<obj, offset>>
     ELSE obj' = Sorted(obj) /\ offset' = Layout(Sorted(obj)) /\ Go("resolve")

-----------------------------------------------------------------------------
(* Values are written in their own ways: what a type takes, and what it    *)
(* then holds.                                                             *)
Bits(e) == e.sz * ByteBits

is_kcfg_value_in_range(e, v) ==
  \/ e.sz = 8
  \/ IF e.signed THEN (v + Pow2[Bits(e) - 1]) % U64 < Pow2[Bits(e)] ELSE v \div Pow2[Bits(e)] = 0

set_kcfg_value_tri(e, v) ==
  CASE find_kcfg_type(e) = "bool" /\ v # "m" -> {v = "y"}
    [] find_kcfg_type(e) \in {"tristate", "char"} -> {v}
    [] OTHER -> {}

(* A string of length len between quotes, cut to what there is room for;   *)
(* -1 for a lone quote, whose length wraps.                                *)
set_kcfg_value_str(e, v) ==
  IF find_kcfg_type(e) # "char_arr" \/ ~v.closed THEN {}
  ELSE IF v.len < 0 \/ v.len >= e.sz THEN {<<"chars", e.sz - 1>>} ELSE {<<"chars", v.len>>}

set_kcfg_value_num(e, v) ==
  IF find_kcfg_type(e) \in {"int", "char"} /\ is_kcfg_value_in_range(e, v) THEN {v % Pow2[Bits(e)]} ELSE {}

Values(e, v) ==
  CASE v.k = "tri" -> set_kcfg_value_tri(e, v.tri)
    [] v.k = "str" -> set_kcfg_value_str(e, v)
    [] v.k = "num" -> set_kcfg_value_num(e, v.v)
    [] OTHER       -> {}

Give(k, x) == set' = set \cup {k} /\ val' = [e \in set \cup {k} |-> IF e = k THEN x ELSE val[e]]

(* Mutant: a later line counts. *)
process_kconfig_lineLater(line, next) ==
  IF line.name \notin Configs \cap Names
  THEN next /\ UNCHANGED <<set, val>>
  ELSE LET k == find_extern_by_name(line.name) IN
       IF Values(obj[k], line.value) = {} THEN Fail("EINVAL") /\ UNCHANGED <<set, val>>
       ELSE next /\ \E x \in Values(obj[k], line.value) : Give(k, x)

(* bpf_object__process_kconfig_line: the first line for an extern counts.  *)
bpf_object__process_kconfig_line(line, next) ==
  IF line.name \notin Configs \cap Names \/ find_extern_by_name(line.name) \in set
  THEN next /\ UNCHANGED <<set, val>>
  ELSE LET k == find_extern_by_name(line.name) IN
       IF Values(obj[k], line.value) = {} THEN Fail("EINVAL") /\ UNCHANGED <<set, val>>
       ELSE next /\ \E x \in Values(obj[k], line.value) : Give(k, x)

-----------------------------------------------------------------------------
Kcfg == {k \in DOMAIN obj : obj[k].sec = "kcfg"}
Ksym == {k \in DOMAIN obj : obj[k].sec = "ksym"}
need_kallsyms    == \E k \in Ksym : ~obj[k].typed
need_vmlinux_btf == \E k \in Ksym : obj[k].typed
NeedConfig       == \E k \in Kcfg : obj[k].name \in Configs
Rest(pc) == CASE pc = "config" /\ need_kallsyms -> "kallsyms"
              [] pc \in {"config", "kallsyms"} /\ need_vmlinux_btf -> "btf"
              [] OTHER -> "check"

(* The first loop of bpf_object__resolve_externs.                          *)
Resolve ==
  /\ at.pc = "resolve" /\ UNCHANGED <<obj, given, offset>>
  /\ LET odd == {k \in Kcfg : obj[k].name \notin Configs \cup {Version}}
         ver == {k \in Kcfg : obj[k].name = Version}
     IN  IF odd # {} \/ \E k \in ver : set_kcfg_value_num(obj[k], Kver) = {}
         THEN Fail("EINVAL") /\ UNCHANGED <<set, val>>
         ELSE /\ Go(IF NeedConfig THEN (IF given.extra # NoText THEN "extra" ELSE "system") ELSE Rest("config"))
              /\ IF ver = {} THEN UNCHANGED <<set, val>>
                 ELSE \E k \in ver, x \in set_kcfg_value_num(obj[CHOOSE j \in ver : TRUE], Kver) : Give(k, x)

(* Kconfig text: the caller's first; the system's only for what is left.   *)
ReadKconfig ==
  LET text == IF at.pc = "extra" THEN given.extra ELSE given.system IN
  /\ at.pc \in {"extra", "system"} /\ UNCHANGED <<obj, given, offset>>
  /\ IF text = NoText THEN Fail("EINVAL") /\ UNCHANGED <<set, val>>
     ELSE IF at.i <= Len(text)
     THEN bpf_object__process_kconfig_line(text[at.i], at' = [at EXCEPT !.i = @ + 1])
     ELSE /\ Go(IF at.pc = "extra" /\ \E k \in Kcfg : k \notin set THEN "system" ELSE Rest("config"))
          /\ UNCHANGED <<set, val>>

(* bpf_object__read_kallsyms_file: a symbol with two addresses is refused. *)
bpf_object__read_kallsyms_file ==
  /\ at.pc = "kallsyms" /\ UNCHANGED <<obj, given, offset>>
  /\ IF at.i > Len(given.kallsyms) THEN Go(Rest("kallsyms")) /\ UNCHANGED <<set, val>>
     ELSE LET sym == given.kallsyms[at.i]
              ext == {k \in Ksym : obj[k].name = sym[1]}
          IN  IF \E k \in ext \cap set : val[k] # <<"addr", sym[2]>>
              THEN Fail("EINVAL") /\ UNCHANGED <<set, val>>
              ELSE /\ at' = [at EXCEPT !.i = @ + 1]
                   /\ IF ext \ set = {} THEN UNCHANGED <<set, val>>
                      ELSE \E k \in ext \ set : Give(k, <<"addr", sym[2]>>)

(* bpf_object__resolve_ksyms_btf_id, one extern at a time: the kernel, and *)
(* if it does not have the variable the modules in their order.            *)
Variable(n) ==
  LET mods == {j \in DOMAIN given.modules : n \in DOMAIN given.modules[j]}
  IN  IF n \in DOMAIN given.vmlinux THEN {<<0, given.vmlinux[n]>>}
      ELSE {<<j, given.modules[j][n]>> : j \in {i \in mods : \A k \in mods : i <= k}}

bpf_object__resolve_ksyms_btf_id ==
  /\ at.pc = "btf" /\ UNCHANGED <<obj, given, offset>>
  /\ IF at.i > Len(obj) THEN Go("check") /\ UNCHANGED <<set, val>>
     ELSE IF at.i \notin Ksym \/ ~obj[at.i].typed
     THEN at' = [at EXCEPT !.i = @ + 1] /\ UNCHANGED <<set, val>>
     ELSE LET found == Variable(obj[at.i].name)
          IN  IF \E v \in found : v[2] = "same"
              THEN at' = [at EXCEPT !.i = @ + 1] /\ \E v \in found : Give(at.i, <<"btf", v[1]>>)
              ELSE Fail("EINVAL") /\ UNCHANGED <<set, val>>

Check ==
  /\ at.pc = "check" /\ UNCHANGED <<obj, given, offset, set, val>>
  /\ Fail(IF \E k \in DOMAIN obj : k \notin set /\ ~obj[k].weak THEN "ESRCH" ELSE "loaded")

Next ==
  \/ bpf_object__collect_externs \/ Resolve \/ ReadKconfig
  \/ bpf_object__read_kallsyms_file \/ bpf_object__resolve_ksyms_btf_id \/ Check

Spec == Init /\ [][Next]_vars
-----------------------------------------------------------------------------
Loaded == at.pc = "loaded"

(* No two externs share a byte of the map, each is aligned as its type     *)
(* wants, and the map holds them all.                                      *)
LaidOut ==
  at.pc \notin {"collect", "ENOTSUP"} =>
    \A k \in Kcfg : /\ offset[k] % obj[k].align = 0 /\ offset[k] + obj[k].sz <= MapSize
                    /\ \A j \in Kcfg \ {k} : offset[k] + obj[k].sz <= offset[j] \/ offset[j] + obj[j].sz <= offset[k]

(* The text of the caller overrides that of the system, and the first line *)
(* of a text the later ones.                                               *)
Lines(text, n) == IF text = NoText THEN <<>> ELSE SelectSeq(text, LAMBDA l : l.name = n)
Written(k) == Lines(given.extra, obj[k].name) \o Lines(given.system, obj[k].name)
CallerOverrides ==
  \A k \in Kcfg : obj[k].name \in Configs =>
    /\ k \in set => Written(k) # <<>> /\ val[k] \in Values(obj[k], Written(k)[1].value)
    /\ Loaded /\ k \notin set => Written(k) = <<>>

(* A number is held as it was written: read back with the sign of its type *)
(* it is the same 64-bit number.                                           *)
NumbersFit ==
  \A k \in set \cap Kcfg : find_kcfg_type(obj[k]) = "int" =>
    LET top == Pow2[Bits(obj[k])]
    IN  (IF obj[k].signed /\ 2 * val[k] >= top THEN (val[k] - top) % U64 ELSE val[k])
          = IF obj[k].name = Version THEN Kver ELSE Written(k)[1].value.v

(* A loaded object has every extern it cannot do without, at the only      *)
(* address the kernel gives for it, or in the first place that has it.     *)
StrongResolved ==
  Loaded => /\ \A k \in DOMAIN obj : obj[k].weak \/ k \in set
            /\ \A k \in set \cap Ksym : ~obj[k].typed =>
                 \A i \in DOMAIN given.kallsyms :
                   given.kallsyms[i][1] = obj[k].name => val[k] = <<"addr", given.kallsyms[i][2]>>
=============================================================================
