----------------------------- MODULE BpfProgLoad -----------------------------
(***************************************************************************)
(* load_program of libbpf.c and libbpf__bpf_prog_load of bpf.c: one        *)
(* program is given to the kernel again and again, with shorter debugging  *)
(* records, with a log, with a larger log and as a kprobe, until the       *)
(* kernel takes it or the reason is known.                                 *)
(***************************************************************************)
EXTENDS Integers

CONSTANTS
  LogLevels,  \* the log levels a program asks for
  MaxNeed,    \* bound: the longest log of the verifier
  MaxLog      \* bound: the largest log memory can be had for

(* Memory can be had for the log whatever it is the verifier says.         *)
ASSUME LogAssumption ==
  /\ LogLevels \subseteq Nat /\ MaxNeed \in Nat
  /\ MaxLog \in Nat \ {0} /\ 2 * (MaxNeed - 1) <= MaxLog

Kernels ==    \* what the kernel thinks of the program
  [accept : BOOLEAN,  \* it is correct
   kprobe : BOOLEAN,  \* it is correct as a kprobe
   need   : 0..MaxNeed,  \* the size of its log, 0 when it is refused without one
   func   : BOOLEAN,  \* its func_info records are longer than the kernel's
   line   : BOOLEAN,  \* its line_info records are
   large  : BOOLEAN,  \* it has as many instructions as are allowed, or is a kprobe
   busy   : BOOLEAN,  \* the call may be interrupted six times in a row
   short  : BOOLEAN]  \* memory may run out when records are copied

VARIABLES
  pc, kern,
  log_level, prog_type,  \* prog->log_level, load_attr.prog_type
  log_buf_size, log_buf, \* the log, and what is in it: "empty", the complaint
                         \* about "records", a "whole" log or one that is "cut"
  attr,                  \* the call: [level, size, func, line]
  errno, ret,
  fds                    \* history: programs the kernel has loaded and that are open

loadVars == <<pc, kern, log_level, prog_type, log_buf_size, attr, errno, ret, log_buf, fds>>

Start(lvl, sz) == [level |-> lvl, size |-> sz, func |-> FALSE, line |-> FALSE]

LoadInit ==
  /\ pc = "try" /\ kern \in Kernels /\ (kern.accept => kern.need > 0)
  /\ log_level \in LogLevels /\ prog_type = "own"
  /\ log_buf_size = 0 /\ attr = Start(0, 0)
  /\ errno \in {"0", "EPERM", "ENOSPC"} /\ ret = "none"
  /\ log_buf = "empty" /\ fds = 0

Unshorten == (kern.func /\ ~attr.func) \/ (kern.line /\ ~attr.line)

(* The kernel's answer to a call, and what is then in the log.             *)
Answer(a) ==
  IF (kern.func /\ ~a.func) \/ (kern.line /\ ~a.line)
  THEN <<"E2BIG", IF a.level > 0 THEN "records" ELSE log_buf>>
  ELSE IF a.level > 0 /\ a.size < kern.need THEN <<"ENOSPC", "cut">>
  ELSE <<IF (prog_type = "own" /\ kern.accept) \/ (prog_type = "kprobe" /\ kern.kprobe) THEN "OK" ELSE "EINVAL",
         IF a.level > 0 /\ kern.need > 0 THEN "whole" ELSE log_buf>>

(* Interrupted, it may have written a part of its log.                     *)
Interruptions(a) ==
  IF ~kern.busy THEN {}
  ELSE {<<"EAGAIN", l>> : l \in {log_buf} \cup (IF a.level > 0 THEN {"cut"} ELSE {})}

(* sys_bpf_prog_load: the call is repeated while it is interrupted, five   *)
(* times at most.                                                          *)
sys_bpf_prog_load(a) ==
  \E r \in {Answer(a)} \cup Interruptions(a) :
    /\ log_buf' = r[2]
    /\ IF r[1] = "OK" THEN fds' = fds + 1 /\ ret' = "OK" /\ UNCHANGED errno
       ELSE errno' = r[1] /\ ret' = "-1" /\ UNCHANGED fds

-----------------------------------------------------------------------------
(* libbpf__bpf_prog_load refuses some arguments, without setting errno.    *)
Rejected == log_level > 7 \/ (log_level > 0 /\ (log_buf_size = 0 \/ prog_type = "kprobe"))

FirstCall ==
  /\ pc = "try"
  /\ LET a == Start(log_level, IF prog_type = "kprobe" THEN 0 ELSE log_buf_size)
     IN  IF Rejected
         THEN /\ ret' = "EINVAL" /\ pc' = "judge"
              /\ UNCHANGED <<attr, errno, log_buf, fds>>
         ELSE attr' = a /\ sys_bpf_prog_load(a) /\ pc' = "shorten"
  /\ UNCHANGED <<kern, log_level, prog_type, log_buf_size>>

(* The kernel says with E2BIG which records it knows only a part of: their *)
(* rest is zeroed in a copy, and the call repeated.  Without memory for    *)
(* the copy that is the end of the call.                                   *)
Shorten ==
  /\ pc = "shorten" /\ ret # "OK" /\ errno = "E2BIG" /\ Unshorten
  /\ \/ /\ attr' = IF kern.func /\ ~attr.func THEN [attr EXCEPT !.func = TRUE]
                                               ELSE [attr EXCEPT !.line = TRUE]
        /\ sys_bpf_prog_load(attr') /\ UNCHANGED pc
     \/ /\ kern.short /\ errno' = "ENOMEM" /\ pc' = "judge"
        /\ UNCHANGED <<attr, ret, log_buf, fds>>
  /\ UNCHANGED <<kern, log_level, prog_type, log_buf_size>>

Shortened ==
  /\ pc = "shorten" /\ ~(ret # "OK" /\ errno = "E2BIG" /\ Unshorten)
  /\ pc' = IF ret # "OK" /\ log_level = 0 /\ attr.size > 0 THEN "log" ELSE "judge"
  /\ UNCHANGED <<attr, errno, ret, log_buf, fds, kern, log_level, prog_type, log_buf_size>>

(* Nobody asked for a log, but there is a buffer: once more, with level 1. *)
WithLog ==
  /\ pc = "log"
  /\ attr' = [attr EXCEPT !.level = 1]
  /\ sys_bpf_prog_load(attr')
  /\ pc' = "judge"
  /\ UNCHANGED <<kern, log_level, prog_type, log_buf_size>>

-----------------------------------------------------------------------------
Returns(r) == ret' = r /\ pc' = "done"

(* Mutant: the program loaded on trial is forgotten. *)
JudgeKprobeForgets ==
  /\ pc = "judge" /\ prog_type = "kprobe"
  /\ Returns(IF ret = "OK" THEN "PROGTYPE" ELSE "error")
  /\ UNCHANGED <<kern, log_level, prog_type, log_buf_size, attr, errno, log_buf, fds>>

(* The trial as a kprobe: the program of the wrong type is closed again.   *)
JudgeKprobe ==
  /\ pc = "judge" /\ prog_type = "kprobe"
  /\ IF ret = "OK" THEN Returns("PROGTYPE") /\ fds' = fds - 1
                   ELSE Returns("error") /\ UNCHANGED fds
  /\ UNCHANGED <<kern, log_level, prog_type, log_buf_size, attr, errno, log_buf>>

(* load_program after a call: without a log, or with one that was too      *)
(* small, it tries again with a buffer of twice the size; errno is what    *)
(* the last system call left in it.                                        *)
Judge ==
  /\ pc = "judge" /\ prog_type = "own"
  /\ \/ ret = "OK" /\ Returns("OK") /\ UNCHANGED <<prog_type, log_buf_size, log_buf>>
     \/ /\ ret # "OK" /\ (log_buf_size = 0 \/ errno = "ENOSPC")
        /\ log_buf_size' = IF log_buf_size = 0 THEN 1 ELSE 2 * log_buf_size
        /\ log_buf' = "empty"
        /\ IF log_buf_size' > MaxLog THEN Returns("ENOMEM") ELSE pc' = "try" /\ UNCHANGED ret
        /\ UNCHANGED prog_type
     \/ /\ ret # "OK" /\ log_buf_size # 0 /\ errno # "ENOSPC" /\ log_buf # "empty"
        /\ Returns("VERIFY") /\ UNCHANGED <<prog_type, log_buf_size, log_buf>>
     \/ /\ ret # "OK" /\ log_buf_size # 0 /\ errno # "ENOSPC" /\ log_buf = "empty" /\ kern.large
        /\ Returns("error") /\ UNCHANGED <<prog_type, log_buf_size, log_buf>>
     \/ /\ ret # "OK" /\ log_buf_size # 0 /\ errno # "ENOSPC" /\ log_buf = "empty" /\ ~kern.large
        /\ prog_type' = "kprobe" /\ pc' = "try" /\ UNCHANGED <<log_buf_size, ret, log_buf>>
  /\ UNCHANGED <<kern, log_level, attr, errno, fds>>

Terminated == pc = "done" /\ UNCHANGED loadVars

LoadNext == FirstCall \/ Shorten \/ Shortened \/ WithLog \/ JudgeKprobe \/ Judge \/ Terminated
LoadSpec == LoadInit /\ [][LoadNext]_loadVars
-----------------------------------------------------------------------------
(* Of all the programs the kernel loaded on the way, exactly the one that  *)
(* is returned stays open.                                                 *)
OneStaysOpen == pc = "done" => fds = IF ret = "OK" THEN 1 ELSE 0

(* A program the kernel accepts is loaded, however long its records are    *)
(* and whatever errno was before, if memory can be had and the call is not *)
(* interrupted for ever.                                                   *)
AcceptedIsLoaded ==
  pc = "done" /\ kern.accept /\ ~kern.busy /\ ~kern.short /\ log_level <= 7 => ret = "OK"

(* A verifier log that did not fit is asked for again: one that is shown   *)
(* ends too early only if the last call was interrupted.                   *)
LogIsWhole == pc = "done" /\ ret = "VERIFY" /\ log_buf = "cut" => errno = "EAGAIN"

(* Of all the programs the kernel loaded on the way exactly the one that   *)
(* is returned stays open, whatever fails; with memory and a call that is  *)
(* not interrupted for ever a program the kernel accepts is loaded; and no *)
(* verifier log is shown that did not fit.                                 *)
LoadsRight == OneStaysOpen /\ AcceptedIsLoaded /\ LogIsWhole
=============================================================================
