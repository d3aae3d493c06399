----------------------------- MODULE BpfProgLinfo -----------------------------
(***************************************************************************)
(* bpf_prog_linfo.c: what the kernel says of a program, one address of     *)
(* machine code for every line of source, the start and the length of      *)
(* every function, is cut into functions, and then lines are looked up by  *)
(* an address or by an instruction of BPF.                                 *)
(***************************************************************************)
EXTENDS Integers, Sequences, FiniteSets

CONSTANTS
  Addrs,     \* addresses of machine code
  MaxLines,  \* bound: line infos
  MaxFuncs,  \* bound: functions
  MaxLen     \* bound: length of a function

VARIABLES
  info,  \* struct bpf_prog_info: [jited, insn, ksyms, lens, lines]
  at,    \* the loop of dissect_jited_func: [pc, i, prev_i, f]
  idx,   \* jited_linfo_func_idx
  nr     \* nr_jited_linfo_per_func

vars == <<info, at, idx, nr>>

Seqs(S, n) == UNION {[1..k -> S] : k \in 1..n}

(* Instructions of BPF come in order; the rest is whatever the kernel says.*)
Init ==
  /\ \E jited \in Seqs(Addrs, MaxLines), ksyms \in Seqs(Addrs, MaxFuncs) :
       \E lens \in [DOMAIN ksyms -> 1..MaxLen] :
         info = [jited |-> jited, ksyms |-> ksyms, lens |-> lens]
  /\ at = [pc |-> "start", i |-> 0, prev |-> 0, f |-> 0]
  /\ idx = <<>> /\ nr = <<>>

Lines == Len(info.jited)
Funcs == Len(info.ksyms)
Jited(i) == info.jited[i + 1]   \* indices from 0, as in the code
Ksym(f)  == info.ksyms[f + 1]
KLen(f)  == info.lens[f + 1]

-----------------------------------------------------------------------------
Start ==
  /\ at.pc = "start" /\ UNCHANGED <<info, nr>>
  /\ IF Ksym(0) # Jited(0) THEN at' = [at EXCEPT !.pc = "refused"] /\ UNCHANGED idx
     ELSE at' = [pc |-> "loop", i |-> 1, prev |-> 0, f |-> 1] /\ idx' = <<0>>

(* Mutant: the size of a function counts from the start of the loop. *)
LoopKeepsPrev ==
  LET i == at.i  f == at.f IN
  /\ at.pc = "loop" /\ i < Lines /\ f < Funcs /\ UNCHANGED info
  /\ IF Ksym(f) = Jited(i)
     THEN IF Jited(i - 1) - Ksym(f - 1) + 1 > KLen(f - 1)
          THEN at' = [at EXCEPT !.pc = "refused"] /\ idx' = Append(idx, i) /\ UNCHANGED nr
          ELSE /\ idx' = Append(idx, i) /\ nr' = Append(nr, i - at.prev)
               /\ at' = [at EXCEPT !.i = i + 1, !.f = f + 1]
     ELSE IF Jited(i) <= Jited(i - 1) THEN at' = [at EXCEPT !.pc = "refused"] /\ UNCHANGED <<idx, nr>>
     ELSE at' = [at EXCEPT !.i = i + 1] /\ UNCHANGED <<idx, nr>>

Loop ==
  LET i == at.i  f == at.f IN
  /\ at.pc = "loop" /\ i < Lines /\ f < Funcs /\ UNCHANGED info
  /\ IF Ksym(f) = Jited(i)
     THEN IF Jited(i - 1) - Ksym(f - 1) + 1 > KLen(f - 1)
          THEN at' = [at EXCEPT !.pc = "refused"] /\ idx' = Append(idx, i) /\ UNCHANGED nr
          ELSE /\ idx' = Append(idx, i) /\ nr' = Append(nr, i - at.prev)
               /\ at' = [at EXCEPT !.i = i + 1, !.prev = i, !.f = f + 1]
     ELSE IF Jited(i) <= Jited(i - 1) THEN at' = [at EXCEPT !.pc = "refused"] /\ UNCHANGED <<idx, nr>>
     ELSE at' = [at EXCEPT !.i = i + 1] /\ UNCHANGED <<idx, nr>>

End ==
  /\ at.pc = "loop" /\ (at.i >= Lines \/ at.f >= Funcs) /\ UNCHANGED <<info, idx>>
  /\ IF at.f # Funcs THEN at' = [at EXCEPT !.pc = "refused"] /\ UNCHANGED nr
     ELSE nr' = Append(nr, Lines - at.prev) /\ at' = [at EXCEPT !.pc = "ready"]

dissect_jited_func == Start \/ Loop \/ End
Next == dissect_jited_func
Spec == Init /\ [][Next]_vars

-----------------------------------------------------------------------------
(* Both searches stop at the first line behind what is looked for, and go  *)
(* one back; -1 if there is none.                                          *)
NoLine == -1

Find(keys, start, end, x) ==
  LET behind == {i \in start..end-1 : x < keys[i + 1]}
  IN  IF x < keys[start + 1] THEN NoLine
      ELSE (IF behind = {} THEN end ELSE CHOOSE i \in behind : \A j \in behind : i <= j) - 1

bpf_prog_linfo__lfind_addr_func(addr, f, skip) ==
  IF f >= Funcs \/ skip >= nr[f + 1] THEN NoLine
  ELSE Find(info.jited, idx[f + 1] + skip, idx[f + 1] + nr[f + 1], addr)

(* The instruction a line starts at: lines of two instructions each.       *)
Insn(i) == 2 * i
bpf_prog_linfo__lfind(insn_off, skip) ==
  IF skip >= Lines THEN NoLine ELSE Find([k \in 1..Lines |-> Insn(k - 1)], skip, Lines, insn_off)

-----------------------------------------------------------------------------
Ready == at.pc = "ready"
LinesOf(f) == {idx[f] + k : k \in 0..nr[f] - 1}

GoesUp(f) == \A i, j \in LinesOf(f) : i < j => Jited(i) < Jited(j)

(* The lines are cut into as many runs as there are functions: each starts *)
(* at its function and ends where the next begins, and all but the last go *)
(* up.  (The loop ends at the first line of the last function, whose lines *)
(* may be anything, whatever "Ensure the addr is increasing" says.)        *)
CutIntoFunctions ==
  Ready =>
    /\ Len(idx) = Funcs /\ Len(nr) = Funcs
    /\ UNION {LinesOf(f) : f \in 1..Funcs} = 0..Lines - 1
    /\ \A f \in 1..Funcs : Jited(idx[f]) = info.ksyms[f] /\ (f < Funcs => idx[f] + nr[f] = idx[f + 1])
    /\ \A f \in 1..Funcs - 1 : GoesUp(f)

(* What the kernel really has is not refused: functions anywhere in        *)
(* memory, each with lines that go up within it.                           *)
Cuts == {c \in [1..Funcs -> 0..Lines - 1] : c[1] = 0 /\ \A f \in 1..Funcs - 1 : c[f] < c[f + 1]}
Stop(c, f) == IF f = Funcs THEN Lines ELSE c[f + 1]
Real ==
  /\ \A f, g \in 1..Funcs : f # g => (info.ksyms[f] + info.lens[f] <= info.ksyms[g]
                                      \/ info.ksyms[g] + info.lens[g] <= info.ksyms[f])
  /\ \E c \in Cuts : \A f \in 1..Funcs :
       /\ Jited(c[f]) = info.ksyms[f]
       /\ \A i \in c[f]..Stop(c, f) - 1 :
            /\ Jited(i) < info.ksyms[f] + info.lens[f]
            /\ (i > c[f] => Jited(i - 1) < Jited(i))
RealIsAccepted == at.pc = "refused" => ~Real

(* The line found for an address of a real program is the last one at or   *)
(* before it in the function, or for an instruction in the program;        *)
(* skipped lines are not found.                                            *)
FindsItsLine ==
  Ready /\ Real =>
    \A addr \in Addrs, f \in 0..Funcs, skip \in 0..MaxLines :
      LET line == bpf_prog_linfo__lfind_addr_func(addr, f, skip)
          can  == IF f = Funcs THEN {}
                  ELSE {i \in LinesOf(f + 1) : i >= idx[f + 1] + skip /\ Jited(i) <= addr}
          all  == {i \in skip..Lines - 1 : Insn(i) <= addr}
          last == bpf_prog_linfo__lfind(addr, skip)
      IN  /\ IF can = {} THEN line = NoLine ELSE line \in can /\ \A i \in can : i <= line
          /\ IF all = {} THEN last = NoLine ELSE last \in all /\ \A i \in all : i <= last
=============================================================================
