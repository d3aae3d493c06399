------------------------------ MODULE BpfRelocate ------------------------------
(***************************************************************************)
(* From the sections of an ELF file to programs the kernel can load:       *)
(* libbpf.c cuts the sections into programs, records the relocations of    *)
(* each, puts maps and externs into its instructions, and appends to every *)
(* main program the subprograms it calls, with all calls, function infos   *)
(* and line infos led to where they end up.                                *)
(*                                                                         *)
(* An instruction is [code, imm, imm2, org]; org, which the code does not  *)
(* have, says where it was in the ELF file: <<function, position>>.        *)
(***************************************************************************)
EXTENDS Integers, Sequences, FiniteSets, SequencesExt

CONSTANTS
  Elfs,    \* ELF files: [size, syms, text, relocs, maps, externs, info, means]
  Text,    \* index of .text
  Kconfig  \* descriptor of the map of kcfg externs

VARIABLES
  elf,     \* the file
  at,      \* where the work is: [pc, i]
  progs,   \* the programs: [name, sec, off, cnt, insns, relo, sub, info]
  stack    \* the calls of bpf_object__reloc_code: [main, prog, insn]

vars == <<elf, at, progs, stack>>

Init == elf \in Elfs /\ at = [pc |-> "add", i |-> 1] /\ progs = <<>> /\ stack = <<>>

Fail(e) == at' = [pc |-> e, i |-> 0]
Go(pc)  == at' = [pc |-> pc, i |-> 1]

-----------------------------------------------------------------------------
(* bpf_object__elf_collect goes through the sections in their order, and   *)
(* bpf_object__add_programs through one: where a program ends the next one *)
(* has to start, with a function symbol of its own.                        *)
ProgOf(sym) ==
  [name |-> sym.name, sec |-> sym.sec, off |-> sym.off, cnt |-> sym.size, insns |-> sym.insns,
   relo |-> {}, sub |-> 0, info |-> [k \in DOMAIN elf.info |-> <<>>]]

bpf_object__add_programs ==
  LET s    == at.i
      here == SelectSeq(progs, LAMBDA p : p.sec = s)
      off  == IF here = <<>> THEN 0 ELSE Last(here).off + Last(here).cnt
      syms == {y \in elf.syms : y.sec = s /\ y.off = off}
  IN  /\ at.pc = "add" /\ UNCHANGED <<elf, stack>>
      /\ IF s > Len(elf.size) THEN Go("collect") /\ UNCHANGED progs
         ELSE IF off = elf.size[s] THEN at' = [at EXCEPT !.i = s + 1] /\ UNCHANGED progs
         ELSE IF syms = {} \/ \E y \in syms : off + y.size > elf.size[s] \/ y.size = 0
         THEN Fail("FORMAT") /\ UNCHANGED progs
         ELSE \E y \in syms : progs' = Append(progs, ProgOf(y)) /\ UNCHANGED at

prog_contains_insn(p, i) == i >= progs[p].off /\ i < progs[p].off + progs[p].cnt

(* The program an instruction of a section belongs to, by halving.         *)
find_prog_by_sec_insn(sec, i) ==
  LET left(p) == progs[p].sec < sec \/ (progs[p].sec = sec /\ progs[p].off <= i)
      find[l \in DOMAIN progs, r \in DOMAIN progs] ==
        IF l >= r THEN l
        ELSE LET m == l + (r - l + 1) \div 2 IN IF left(m) THEN find[m, r] ELSE find[l, m - 1]
      p == find[1, Len(progs)]
  IN  {q \in {p} : progs[p].sec = sec /\ prog_contains_insn(p, i)}

(* bpf_program__record_reloc: what the relocation of an instruction is,    *)
(* if it is any.  sym_off is an offset, or the number of a map or extern.  *)
record_reloc(insn, idx, sym) ==
  LET r(type, to, sym_off) == {[type |-> type, insn_idx |-> idx, to |-> to, sym_off |-> sym_off]}
  IN  CASE insn.code = "call" /\ sym.kind = "func" /\ sym.sec = Text -> r("call", 0, sym.value)
        [] insn.code = "ld" /\ sym.kind = "extern" /\ sym.value \in DOMAIN elf.externs -> r("extern", sym.value, 0)
        [] insn.code = "ld" /\ sym.kind = "map" ->
             UNION {r("ld64", m, 0) : m \in {k \in DOMAIN elf.maps : elf.maps[k].kind = "map" /\ elf.maps[k].off = sym.value}}
        [] insn.code = "ld" /\ sym.kind = "data" ->
             UNION {r("data", m, sym.value) : m \in {k \in DOMAIN elf.maps : elf.maps[k].kind = "data"}}
        [] OTHER -> {}

(* bpf_object__collect_prog_relos: one relocation of the file.             *)
bpf_object__collect_relos ==
  /\ at.pc = "collect" /\ UNCHANGED <<elf, stack>>
  /\ IF at.i > Len(elf.relocs) THEN Go("data") /\ UNCHANGED progs
     ELSE LET rel == elf.relocs[at.i]
              ps  == find_prog_by_sec_insn(rel.sec, rel.insn)
              rs(p) == record_reloc(progs[p].insns[rel.insn - progs[p].off + 1], rel.insn - progs[p].off, rel.sym)
          IN  IF \A p \in ps : rs(p) = {} THEN Fail("RELOC") /\ UNCHANGED progs
              ELSE /\ at' = [at EXCEPT !.i = @ + 1]
                   /\ \E p \in ps : progs' = [progs EXCEPT ![p].relo = @ \cup rs(p)]

-----------------------------------------------------------------------------

(* What bpf_object__relocate_data makes of an instruction.                 *)
Patched(insn, r) ==
  CASE r.type = "ld64" -> [insn EXCEPT !.imm = elf.maps[r.to].fd]
    [] r.type = "data" -> [insn EXCEPT !.imm2 = insn.imm + r.sym_off, !.imm = elf.maps[r.to].fd]
    [] r.type = "extern" /\ elf.externs[r.to].kind = "kcfg" ->
         [insn EXCEPT !.imm = Kconfig, !.imm2 = elf.externs[r.to].off]
    [] r.type = "extern" -> [insn EXCEPT !.imm = elf.externs[r.to].id, !.imm2 = elf.externs[r.to].fd]
    [] OTHER -> insn

(* The instructions of one program.                                        *)
bpf_object__relocate_data ==
  /\ at.pc = "data" /\ UNCHANGED <<elf, stack>>
  /\ IF at.i > Len(progs) THEN Go("calls") /\ UNCHANGED progs
     ELSE LET p == progs[at.i]
              of(k) == {r \in p.relo : r.insn_idx = k - 1}
          IN  /\ at' = [at EXCEPT !.i = @ + 1]
              /\ progs' = [progs EXCEPT ![at.i].insns =
                   [k \in DOMAIN p.insns |->
                      IF of(k) = {} THEN p.insns[k] ELSE Patched(p.insns[k], CHOOSE r \in of(k) : TRUE)]]

-----------------------------------------------------------------------------
prog_is_subprog(p) == progs[p].sec = Text /\ Len(progs) > 1

(* adjust_prog_btf_ext_info: the records of a program, moved to where the  *)
(* program is in the main program; nothing if there are none.              *)
Moved(ps, kind, p) ==
  LET recs == SelectSeq(elf.info[kind][ps[p].sec],
                        LAMBDA r : r >= ps[p].off /\ r < ps[p].off + ps[p].cnt)
  IN  [k \in DOMAIN recs |-> [at |-> recs[k] + ps[p].sub - ps[p].off,
                              org |-> <<ps[p].name, recs[k] - ps[p].off>>]]

(* reloc_prog_func_and_line_info: a main program without records has none  *)
(* for its subprograms either; one with records needs them for all.        *)
InfoFails(ps, m, p) ==
  \E k \in DOMAIN elf.info : m # p /\ ps[m].info[k] # <<>> /\ Moved(ps, k, p) = <<>>
WithInfo(ps, m, p) ==
  [ps EXCEPT ![m].info = [k \in DOMAIN elf.info |->
     IF m # p /\ ps[m].info[k] = <<>> THEN <<>> ELSE ps[m].info[k] \o Moved(ps, k, p)]]

(* A call of bpf_object__reloc_code starts with its program's infos.       *)
Enter(ps, m, p, above) ==
  IF InfoFails(ps, m, p) THEN Fail("ENOENT") /\ progs' = ps /\ UNCHANGED stack
  ELSE /\ progs' = WithInfo(ps, m, p)
       /\ stack' = Append(above, [main |-> m, prog |-> p, insn |-> 0])
       /\ UNCHANGED at

(* bpf_object__relocate_calls for each program that is not a subprogram.   *)
bpf_object__relocate_calls ==
  /\ at.pc = "calls" /\ stack = <<>> /\ UNCHANGED elf
  /\ IF at.i > Len(progs) THEN Fail("linked") /\ UNCHANGED <<progs, stack>>
     ELSE IF prog_is_subprog(at.i) THEN at' = [at EXCEPT !.i = @ + 1] /\ UNCHANGED <<progs, stack>>
     ELSE Enter([p \in DOMAIN progs |-> IF prog_is_subprog(p) THEN [progs[p] EXCEPT !.sub = 0] ELSE progs[p]],
                at.i, at.i, <<>>)

Frame == Last(stack)
Skip  == stack' = [stack EXCEPT ![Len(stack)].insn = @ + 1] /\ UNCHANGED <<at, progs>>

(* The instruction a call leads to: with a relocation from its symbol,     *)
(* without one from where it is in the section.                            *)
sub_insn_idx ==
  LET p == progs[Frame.prog]
      imm == progs[Frame.main].insns[p.sub + Frame.insn + 1].imm
      rs == {r \in p.relo : r.insn_idx = Frame.insn}
  IN  IF rs # {} THEN (CHOOSE r \in rs : TRUE).sym_off + imm + 1 ELSE p.off + Frame.insn + imm + 1

(* Mutant: led from where the caller is in its own program. *)
LedOwn(p, i, s) == progs[s].sub - i - 1
(* What a call in a program that is already placed has to jump by.         *)
Led(p, i, s) == progs[s].sub - (progs[p].sub + i) - 1

(* One turn of the loop of bpf_object__reloc_code.  A subprogram not yet   *)
(* in the main program is appended to it and gone through first; then the  *)
(* call, found again, is led to it.                                        *)
bpf_object__reloc_code ==
  LET m == Frame.main  p == Frame.prog  i == Frame.insn
      here == progs[p].sub + i + 1
      subs == find_prog_by_sec_insn(Text, sub_insn_idx)
  IN  /\ at.pc = "calls" /\ stack # <<>> /\ UNCHANGED elf
      /\ IF i >= progs[p].cnt
         THEN /\ stack' = Front(stack) /\ UNCHANGED progs
              /\ IF Len(stack) = 1 THEN at' = [at EXCEPT !.i = @ + 1] ELSE UNCHANGED at
         ELSE IF progs[m].insns[here].code # "call" THEN Skip
         ELSE IF subs = {} THEN Fail("RELOC") /\ UNCHANGED <<progs, stack>>
         ELSE \E s \in subs :
           IF progs[s].sub = 0
           THEN Enter([progs EXCEPT ![s].sub = Len(progs[m].insns), ![m].insns = @ \o progs[s].insns], m, s, stack)
           ELSE /\ progs' = [progs EXCEPT ![m].insns[here].imm = Led(p, i, s)]
                /\ stack' = [stack EXCEPT ![Len(stack)].insn = @ + 1]
                /\ UNCHANGED at

Next ==
  \/ bpf_object__add_programs \/ bpf_object__collect_relos \/ bpf_object__relocate_data
  \/ bpf_object__relocate_calls \/ bpf_object__reloc_code

Spec == Init /\ [][Next]_vars
-----------------------------------------------------------------------------
Linked == at.pc = "linked"
Mains  == {p \in DOMAIN progs : ~prog_is_subprog(p)}
(* What the source means: elf.means of <<function, position>>. *)
Callees(f) == {elf.means[o][2] : o \in {x \in DOMAIN elf.means : x[1] = f /\ elf.means[x][1] = "call"}}
RECURSIVE Reached(_)
Reached(fs) == LET more == fs \cup UNION {Callees(f) : f \in fs} IN IF more = fs THEN fs ELSE Reached(more)

(* Every call of a linked program leads to the first instruction of the    *)
(* function the source calls, within the same program.                     *)
CallsReach ==
  Linked => \A m \in Mains : \A k \in DOMAIN progs[m].insns :
    LET x == progs[m].insns[k] IN
    x.code = "call" => /\ k + x.imm + 1 \in DOMAIN progs[m].insns
                       /\ progs[m].insns[k + x.imm + 1].org = <<elf.means[x.org][2], 0>>

(* A linked program is itself and, once each, the functions it calls,      *)
(* directly or not.                                                        *)
OnlyWhatIsCalled ==
  Linked => \A m \in Mains :
    LET org == [k \in DOMAIN progs[m].insns |-> progs[m].insns[k].org]
    IN  /\ {org[k][1] : k \in DOMAIN org} = Reached({progs[m].name})
        /\ \A j, k \in DOMAIN org : j # k => org[j] # org[k]

(* What a program loads is what its source names, in the main program and  *)
(* in every copy of a subprogram.                                          *)
DataRight ==
  Linked => \A m \in Mains : \A k \in DOMAIN progs[m].insns :
    LET x == progs[m].insns[k] IN x.code = "ld" => <<"ld", x.imm, x.imm2>> = elf.means[x.org]

(* The records of the debug information are about the instructions they    *)
(* were written for, in the order of the linked program.                   *)
InfosMove ==
  Linked => \A m \in Mains, kind \in DOMAIN elf.info :
    LET info == progs[m].info[kind] IN
    \A k \in DOMAIN info :
      /\ info[k].at + 1 \in DOMAIN progs[m].insns /\ progs[m].insns[info[k].at + 1].org = info[k].org
      /\ \A j \in DOMAIN info : j < k => info[j].at < info[k].at
==============================================================================
