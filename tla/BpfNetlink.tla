------------------------------ MODULE BpfNetlink ------------------------------
(***************************************************************************)
(* netlink.c and nlattr.c of libbpf: attaching XDP programs to interfaces  *)
(* and asking which are attached, by several processes at once.  Every     *)
(* call opens a socket, sends a request and reads answers until the last;  *)
(* an answer about all interfaces comes in several parts, and the          *)
(* interfaces change between them.                                         *)
(***************************************************************************)
EXTENDS Integers, Sequences, FiniteSets

CONSTANTS
  Setters, Getters,  \* processes that attach, and that ask
  XdpProgs,
  Ifs,       \* interfaces 1..n, in the order the kernel tells of them
  Native,    \* those whose driver runs XDP itself
  MaxCalls   \* bound: MaxCalls[p] calls of process p

Procs == Setters \cup Getters
Modes == {"drv", "skb", "hw"}
NoProg == "none"
ASSUME NetlinkAssumption ==
  /\ Setters \cap Getters = {}
  /\ NoProg \notin XdpProgs
  /\ Cardinality(Ifs) \in Nat /\ Ifs = 1..Cardinality(Ifs)
  /\ Native \subseteq Ifs /\ MaxCalls \in [Procs -> Nat]

VARIABLES
  xdp,    \* the kernel: the program of each interface and mode
  proc,   \* of each process: [at, call, calls]
  sock,   \* of each process: the messages for it, and the next interface to tell of (0: none)
  tb,     \* what the call has made of the answers: the struct xdp_link_info
  last,   \* history: what the last call returned
  during  \* history: what the interface asked for was at some moment of the call

netlinkVars == <<xdp, proc, sock, tb, last, during>>

NoInfo == [mode |-> "none", id |-> NoProg, ids |-> [m \in Modes |-> NoProg]]
NoSocket == [queue |-> <<>>, next |-> 0]
NoCall == [op |-> "none"]
NoAnswer == [ret |-> "none", op |-> "none"]

NetlinkInit ==
  /\ xdp = [i \in Ifs |-> [m \in Modes |-> NoProg]]
  /\ proc = [p \in Procs |-> [at |-> "idle", call |-> NoCall, calls |-> 0]]
  /\ sock = [p \in Procs |-> NoSocket]
  /\ tb = [p \in Procs |-> NoInfo]
  /\ last = [p \in Procs |-> NoAnswer] /\ during = [p \in Procs |-> {}]

-----------------------------------------------------------------------------
(* The kernel: which mode a request is about, and whether it is granted.   *)
ModeOf(i, mode) == IF mode # "any" THEN mode ELSE IF i \in Native THEN "drv" ELSE "skb"
Refused(c) ==
  LET m == ModeOf(c.ifindex, c.mode)  cur == xdp[c.ifindex][m] IN
  \/ c.replace /\ (c.noexist \/ cur # c.old)
  \/ c.noexist /\ cur # NoProg
  \/ m = "drv" /\ c.ifindex \notin Native
  \/ c.prog # NoProg /\ \E o \in {"drv", "skb"} \ {m} : m # "hw" /\ xdp[c.ifindex][o] # NoProg

(* What the kernel says of an interface: IFLA_XDP_ATTACHED, _PROG_ID and   *)
(* one attribute for each mode with a program.                             *)
Told(i) ==
  LET on == {m \in Modes : xdp[i][m] # NoProg}
  IN  [ifindex |-> i, ids |-> xdp[i],
       mode |-> IF on = {} THEN "none" ELSE IF Cardinality(on) > 1 THEN "multi" ELSE CHOOSE m \in on : TRUE,
       id   |-> IF Cardinality(on) = 1 THEN xdp[i][CHOOSE m \in on : TRUE] ELSE NoProg]
Info(t) == [mode |-> t.mode, id |-> t.id, ids |-> t.ids]

-----------------------------------------------------------------------------
(* libbpf_netlink_open and send.                                           *)
Calls(p, c) ==
  /\ proc[p].at = "idle" /\ proc[p].calls < MaxCalls[p]
  /\ proc' = [proc EXCEPT ![p] = [at |-> "recv", call |-> c, calls |-> @.calls + 1]]
  /\ tb' = [tb EXCEPT ![p] = NoInfo]
  /\ last' = [last EXCEPT ![p] = NoAnswer]

(* RTM_SETLINK is done, or not, while it is sent; the answer is an error   *)
(* message, with error zero when it was done.                              *)
__bpf_set_link_xdp_fd_replace(p, c) ==
  /\ Calls(p, [c EXCEPT !.done = ~Refused(c)])
  /\ xdp' = IF Refused(c) THEN xdp
            ELSE [xdp EXCEPT ![c.ifindex][ModeOf(c.ifindex, c.mode)] = c.prog]
  /\ sock' = [sock EXCEPT ![p] =
       [queue |-> <<[type |-> "error", err |-> Refused(c)]>>, next |-> 0]]
  /\ during' = [q \in Procs |-> during[q] \cup
                  IF q # p /\ proc[q].at # "idle" /\ proc[q].call.op = "get" /\ ~Refused(c)
                     /\ c.ifindex = proc[q].call.ifindex
                  THEN {Info(Told(c.ifindex))'} ELSE {}]

bpf_set_link_xdp_fd(p, i, prog, mode, noexist) ==
  __bpf_set_link_xdp_fd_replace(p,
    [op |-> "set", ifindex |-> i, prog |-> prog, mode |-> mode, noexist |-> noexist, replace |-> FALSE, old |-> NoProg, want |-> "any", done |-> FALSE])

(* Mutant: the old program is sent and the flag is not. *)
set_link_optsNoFlag(p, i, prog, mode, old) ==
  __bpf_set_link_xdp_fd_replace(p,
    [op |-> "set", ifindex |-> i, prog |-> prog, mode |-> mode, noexist |-> FALSE, replace |-> FALSE, old |-> old, want |-> old, done |-> FALSE])

(* Having an old_fd means to replace it, even if it is -1.                 *)
bpf_set_link_xdp_fd_opts(p, i, prog, mode, old) ==
  __bpf_set_link_xdp_fd_replace(p,
    [op |-> "set", ifindex |-> i, prog |-> prog, mode |-> mode, noexist |-> FALSE, replace |-> TRUE, old |-> old, want |-> old, done |-> FALSE])

(* bpf_get_link_xdp_info: a request for all interfaces, whatever the one   *)
(* asked for.                                                              *)
bpf_get_link_xdp_info(p, i, flags) ==
  /\ Calls(p, [op |-> "get", ifindex |-> i, flags |-> flags])
  /\ sock' = [sock EXCEPT ![p] = [queue |-> <<>>, next |-> 1]]
  /\ during' = [during EXCEPT ![p] = {Info(Told(i))}]
  /\ UNCHANGED xdp

(* The kernel goes on with an answer in parts when the socket is empty: it *)
(* tells of some interfaces, and at last that it is done.                  *)
Dump(p) ==
  LET from == sock[p].next IN
  /\ from # 0 /\ sock[p].queue = <<>>
  /\ IF from \in Ifs
     THEN \E upto \in {i \in Ifs : from <= i} :
            sock' = [sock EXCEPT ![p] =
              [queue |-> [k \in 1..(upto - from + 1) |-> [type |-> "link", link |-> Told(from + k - 1)]],
               next |-> upto + 1]]
     ELSE sock' = [sock EXCEPT ![p] = [queue |-> <<[type |-> "done"]>>, next |-> 0]]
  /\ UNCHANGED <<xdp, proc, tb, last, during>>

-----------------------------------------------------------------------------

(* libbpf_nla_parse: there is an attribute for every mode with a program.  *)
Attribute(id, before) == IF id # NoProg THEN id ELSE before

(* The identifiers are taken where there are attributes for them; with     *)
(* interface 0 every link is.                                              *)
get_xdp_info(info, wanted, t) ==
  IF wanted # 0 /\ wanted # t.ifindex THEN info
  ELSE IF t.mode = "none" THEN [info EXCEPT !.mode = "none"]
  ELSE [mode |-> t.mode, id |-> Attribute(t.id, info.id),
        ids |-> [m \in Modes |-> Attribute(t.ids[m], info.ids[m])]]

get_xdp_id(info, flags) ==
  IF flags # "any" THEN info.ids[flags]
  ELSE IF info.mode # "multi" THEN info.id ELSE NoProg

(* close, in every case. *)
Answers(p, answer) ==
  /\ last' = [last EXCEPT ![p] = answer]
  /\ proc' = [proc EXCEPT ![p].at = "idle", ![p].call = NoCall]
  /\ sock' = [sock EXCEPT ![p] = NoSocket]
  /\ tb' = [tb EXCEPT ![p] = NoInfo]
  /\ during' = [during EXCEPT ![p] = {}]

Succeeds(p) ==
  LET c == proc[p].call
  IN  Answers(p, IF c.op = "set" THEN [ret |-> "ok", op |-> "set", done |-> c.done]
                 ELSE [ret |-> "ok", op |-> "get", flags |-> c.flags, info |-> tb[p],
                       prog_id |-> get_xdp_id(tb[p], c.flags), held |-> during[p]])

(* bpf_netlink_recv, message by message.  The messages about links say     *)
(* that there are more; the loop ends with an acknowledgement, which says  *)
(* nothing of the kind, and with the end of the answer.                    *)
bpf_netlink_recv(p) ==
  LET m == Head(sock[p].queue) IN
  /\ proc[p].at = "recv" /\ sock[p].queue # <<>>
  /\ \/ /\ m.type = "error" /\ m.err
        /\ Answers(p, [ret |-> "refused", op |-> "set", done |-> proc[p].call.done])
     \/ /\ m.type = "error" => ~m.err
        /\ m.type \in {"error", "done"} /\ Succeeds(p)
     \/ /\ m.type = "link"
        /\ tb' = [tb EXCEPT ![p] = get_xdp_info(@, proc[p].call.ifindex, m.link)]
        /\ sock' = [sock EXCEPT ![p].queue = Tail(@)]
        /\ UNCHANGED <<proc, last, during>>
  /\ UNCHANGED xdp

(* recv fails: the call says so, whatever the kernel has done.             *)
RecvFails(p) ==
  /\ proc[p].at = "recv" /\ Answers(p, [ret |-> "failed", op |-> proc[p].call.op]) /\ UNCHANGED xdp

NetlinkNext ==
  \E p \in Procs :
    \/ /\ p \in Setters
       /\ \E i \in Ifs, prog \in XdpProgs \cup {NoProg}, mode \in Modes \cup {"any"} :
            \/ \E noexist \in BOOLEAN : bpf_set_link_xdp_fd(p, i, prog, mode, noexist)
            \/ \E old \in XdpProgs \cup {NoProg} : bpf_set_link_xdp_fd_opts(p, i, prog, mode, old)
    \/ p \in Getters /\ \E i \in Ifs, flags \in Modes \cup {"any"} : bpf_get_link_xdp_info(p, i, flags)
    \/ Dump(p) \/ bpf_netlink_recv(p) \/ RecvFails(p)

NetlinkSpec == NetlinkInit /\ [][NetlinkNext]_netlinkVars
-----------------------------------------------------------------------------
(* What a call says of an interface was so at some moment of the call,     *)
(* however the answer was cut into parts and whatever others attached.     *)
InfoIsTrue ==
  \A p \in Procs : last[p].ret = "ok" /\ last[p].op = "get" => last[p].info \in last[p].held

(* The identifier returned is that of a program that was attached in the   *)
(* mode asked for.                                                         *)
IdOfTheMode ==
  \A p \in Procs : LET l == last[p] IN
    l.ret = "ok" /\ l.op = "get" /\ l.prog_id # NoProg =>
      \E h \in l.held, m \in Modes : h.ids[m] = l.prog_id /\ l.flags \in {m, "any"}

(* A call to attach returns success when the kernel has done it, and is    *)
(* refused when it has not: no answer is mistaken for another.             *)
AnswerIsKernels ==
  \A p \in Procs : last[p].op = "set" /\ last[p].ret # "failed" => (last[p].ret = "ok") = last[p].done

(* A call that names the program it replaces never takes away another's.   *)
ReplacesWhatItNamedStep ==
  \A p \in Procs :
    LET c == proc'[p].call IN
    proc[p].at = "idle" /\ proc'[p].at # "idle" /\ c.op = "set" /\ c.want # "any" /\ xdp' # xdp =>
      xdp[c.ifindex][ModeOf(c.ifindex, c.mode)] = c.want

(* What a call says of an interface was so at some moment of the call, and *)
(* in the mode asked for, however the answer was cut into parts; a call    *)
(* that names the program it replaces never takes away another's; and no   *)
(* answer of the kernel is mistaken for another.                           *)
NetlinkRight ==
  /\ [](InfoIsTrue /\ IdOfTheMode /\ AnswerIsKernels)
  /\ [][ReplacesWhatItNamedStep]_netlinkVars
=============================================================================
