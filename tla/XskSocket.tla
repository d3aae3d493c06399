------------------------------- MODULE XskSocket -------------------------------
(***************************************************************************)
(* xsk.c: a UMEM, the AF_XDP sockets made on it, and what they share: the  *)
(* file descriptor of the UMEM, which the first socket takes for its own,  *)
(* and one context per queue, with the descriptors of the program and of   *)
(* its map.  One thread calls, one interface; an action is a whole call    *)
(* and names the step at which it fails.                                   *)
(*                                                                         *)
(* Descriptors are numbers, the lowest free one is given out next, and a   *)
(* closed number may be anybody's.                                         *)
(***************************************************************************)
EXTENDS Integers, FiniteSets, FiniteSetsExt

CONSTANTS
  Sockets,   \* what the caller calls its sockets
  Queues,    \* queues of the interface
  Shared,    \* several sockets may be made for one queue
  Fds,       \* numbers of descriptors
  MaxProgs   \* bound: programs loaded

XskAssumption ==
  /\ MaxProgs \in Nat /\ Fds \subseteq Nat /\ IsFiniteSet(Fds) /\ IsFiniteSet(Sockets)
  /\ 0 \notin Fds \cup Sockets \cup Queues

Nothing == 0   \* no descriptor, program or socket (-1 in the code)

VARIABLES
  fd,       \* what each number stands for: <<kind, which>>
  umem,     \* [open, fd, refcount, saved]: saved if fill_save is not NULL
  ctx,      \* the context of each queue: [refcount, prog, map, rings]
  xsk,      \* [queue, fd], queue Nothing if there is no such socket
  progs,    \* programs loaded so far; each has a map of its own
  attached, \* the program of the interface
  xskmap,   \* of every map: the socket behind each queue
  deleted   \* history: how the last xsk_umem__delete ended

socketVars == <<fd, umem, ctx, xsk, progs, attached, xskmap, deleted>>

FreeFd   == <<"free", Nothing>>
OtherUmem == <<"umem", 1>>
NoCtx    == [refcount |-> 0, prog |-> Nothing, map |-> Nothing]
NoXsk    == [queue |-> Nothing, fd |-> Nothing]
NoUmem   == [open |-> FALSE, fd |-> Nothing, refcount |-> 0, saved |-> FALSE]

SocketsInit ==
  /\ fd = [n \in Fds |-> FreeFd]
  /\ umem = NoUmem
  /\ ctx = [q \in Queues |-> NoCtx]
  /\ xsk = [s \in Sockets |-> NoXsk]
  /\ progs = 0 /\ attached = Nothing
  /\ xskmap = [p \in 1..MaxProgs |-> [q \in Queues |-> Nothing]]
  /\ deleted = 0

Lowest(table)         == Min({n \in Fds : table[n] = FreeFd})
OpenFd(table, what)   == [table EXCEPT ![Lowest(table)] = what]
CloseFds(table, nums) == [n \in Fds |-> IF n \in nums THEN FreeFd ELSE table[n]]
CanOpen(table, n)     == Cardinality({k \in Fds : table[k] = FreeFd}) >= n

LiveXsk == {s \in Sockets : xsk[s].queue # Nothing}
-----------------------------------------------------------------------------
(* xsk_umem__create; a call that fails leaves nothing behind that a later  *)
(* call could see.                                                         *)
UmemCreate ==
  /\ ~umem.open /\ LiveXsk = {} /\ CanOpen(fd, 1)
  /\ umem' = [open |-> TRUE, fd |-> Lowest(fd), refcount |-> 0, saved |-> TRUE]
  /\ fd' = OpenFd(fd, <<"umem", Nothing>>)
  /\ UNCHANGED <<ctx, xsk, progs, attached, xskmap, deleted>>

UmemDelete ==
  /\ umem.open
  /\ IF umem.refcount # 0
     THEN deleted' = -16 /\ UNCHANGED <<umem, fd>>
     ELSE deleted' = 0 /\ umem' = NoUmem /\ fd' = CloseFds(fd, {umem.fd})
  /\ UNCHANGED <<ctx, xsk, progs, attached, xskmap>>

-----------------------------------------------------------------------------
(***************************************************************************)
(* __xsk_setup_xdp_prog, for a context c of queue q and a socket s: where  *)
(* it may end, as [ok, c, fd, progs, attached, xskmap].  A failure closes  *)
(* what it opened, but for the descriptor of a map that was looked up, and *)
(* leaves the numbers in the context.  A socket without receive ring is    *)
(* not put into the map.                                                   *)
(***************************************************************************)
Outcome(ok, c, table, n, at, map) ==
  [ok |-> ok, c |-> c, fd |-> table, progs |-> n, attached |-> at, xskmap |-> map]

InMap(p, q, s) == {xskmap, [xskmap EXCEPT ![p][q] = s]}

SetUpNew(table, c, q, s) ==
  LET p  == progs + 1
      c1 == [c EXCEPT !.map = Lowest(table)]
      t1 == OpenFd(table, <<"map", p>>)
      c2 == [c1 EXCEPT !.prog = Lowest(t1)]
      t2 == OpenFd(t1, <<"prog", p>>)
  IN  IF progs = MaxProgs THEN {}
      ELSE {Outcome(TRUE, c2, t2, p, p, m) : m \in InMap(p, q, s)}
           \cup { Outcome(FALSE, c1, table, progs, Nothing, xskmap),
                  Outcome(FALSE, c2, table, p, Nothing, xskmap) }

SetUpAttached(table, c, q, s) ==
  LET c1 == [c EXCEPT !.prog = Lowest(table)]
      t1 == OpenFd(table, <<"prog", attached>>)
      c2 == [c1 EXCEPT !.map = Lowest(t1)]
      t2 == OpenFd(t1, <<"map", attached>>)
  IN  {Outcome(TRUE, c2, t2, progs, attached, m) : m \in InMap(attached, q, s)}
      \cup { Outcome(FALSE, [c1 EXCEPT !.map = Nothing], table, progs, attached, xskmap),
             Outcome(FALSE, c2, CloseFds(t2, {c1.prog}), progs, attached, xskmap) }

setup_xdp_prog(table, c, q, s) ==
  {Outcome(FALSE, c, table, progs, attached, xskmap)} \cup
  IF attached = Nothing THEN SetUpNew(table, c, q, s) ELSE SetUpAttached(table, c, q, s)

(* The descriptor of a new socket, and the table with it in.               *)
SocketFd == IF umem.refcount > 0 THEN Lowest(fd) ELSE umem.fd
WithSocket(s) == IF umem.refcount > 0 THEN OpenFd(fd, <<"sock", s>>) ELSE fd

(* xsk_get_ctx or xsk_create_ctx: the context as it is while the call goes *)
(* on.  The first context takes the rings of the UMEM, later ones need the *)
(* caller to give it new ones.                                             *)
GotCtx(q)   == IF ctx[q].refcount > 0 THEN [ctx[q] EXCEPT !.refcount = @ + 1]
               ELSE [NoCtx EXCEPT !.refcount = 1]
PutCtx(c)   == IF c.refcount = 1 THEN NoCtx ELSE [c EXCEPT !.refcount = @ - 1]
TakesSaved(q) == ctx[q].refcount = 0

(* Mutant: the socket is closed whatever the count says. *)
AbandonAlways(table, f) == CloseFds(table, {f})

(* What the failing paths do to the socket: the descriptor is closed       *)
(* unless the count says that it is the UMEM's.                            *)
Abandon(table, f) == IF umem.refcount = 0 THEN table ELSE CloseFds(table, {f})

CanCreate(s, q) ==
  /\ umem.open /\ xsk[s] = NoXsk /\ CanOpen(fd, 3)
  /\ Shared \/ \A t \in LiveXsk : xsk[t].queue # q

(* socket() fails: the count of the UMEM has already been raised.          *)
NoSocketFd(s, q) ==
  /\ CanCreate(s, q)
  /\ umem.refcount > 0 /\ umem.refcount < Cardinality(Sockets) + 1
  /\ umem' = [umem EXCEPT !.refcount = @ + 1]
  /\ UNCHANGED <<fd, ctx, xsk, progs, attached, xskmap, deleted>>

(* No rings for a new context, or setsockopt, mmap or bind fail.           *)
CreateFailsEarly(s, q) ==
  /\ CanCreate(s, q)
  /\ \/ UNCHANGED <<umem, ctx>>
     \/ /\ ctx' = [ctx EXCEPT ![q] = PutCtx(GotCtx(q))]
        /\ umem' = [umem EXCEPT !.saved = @ /\ ~TakesSaved(q)]
  /\ fd' = Abandon(WithSocket(s), SocketFd)
  /\ UNCHANGED <<xsk, progs, attached, xskmap, deleted>>

(* After bind the context forgets the program it had.                      *)
Bound(q) == [GotCtx(q) EXCEPT !.prog = Nothing]

CreateFailsLate(s, q) ==
  /\ CanCreate(s, q)
  /\ \E o \in setup_xdp_prog(WithSocket(s), Bound(q), q, s) :
       /\ ~o.ok
       /\ fd' = Abandon(o.fd, SocketFd)
       /\ ctx' = [ctx EXCEPT ![q] = PutCtx(o.c)]
       /\ umem' = [umem EXCEPT !.saved = @ /\ ~TakesSaved(q)]
       /\ progs' = o.progs /\ attached' = o.attached /\ xskmap' = o.xskmap
  /\ UNCHANGED <<xsk, deleted>>

(* With XSK_LIBBPF_FLAGS__INHIBIT_PROG_LOAD the call ends after bind.      *)
Create(s, q) ==
  /\ CanCreate(s, q)
  /\ \E o \in setup_xdp_prog(WithSocket(s), Bound(q), q, s)
              \cup {Outcome(TRUE, Bound(q), WithSocket(s), progs, attached, xskmap)} :
       /\ o.ok
       /\ fd' = o.fd
       /\ ctx' = [ctx EXCEPT ![q] = o.c]
       /\ progs' = o.progs /\ attached' = o.attached /\ xskmap' = o.xskmap
  /\ umem' = [umem EXCEPT !.refcount = @ + 1, !.saved = @ /\ ~TakesSaved(q)]
  /\ xsk' = [xsk EXCEPT ![s] = [queue |-> q, fd |-> SocketFd]]
  /\ UNCHANGED deleted

-----------------------------------------------------------------------------
(* The descriptors xsk_socket__delete closes.                              *)
Closes(s) ==
  LET c == ctx[xsk[s].queue]
  IN  (IF c.prog = Nothing THEN {} ELSE {c.prog, c.map} \ {Nothing})
      \cup (IF xsk[s].fd = umem.fd THEN {} ELSE {xsk[s].fd})

(* The entry of the queue leaves the map of the context; the kernel takes  *)
(* out a socket that is closed, which the descriptor of the UMEM is not.   *)
SocketDelete(s) ==
  /\ s \in LiveXsk
  /\ LET q == xsk[s].queue
         c == ctx[q]
     IN  /\ fd' = CloseFds(fd, Closes(s))
         /\ xskmap' = [p \in 1..MaxProgs |-> [k \in Queues |->
              IF \/ c.prog # Nothing /\ c.map # Nothing /\ fd[c.map] = <<"map", p>> /\ k = q
                 \/ xsk[s].fd # umem.fd /\ xskmap[p][k] = s
              THEN Nothing ELSE xskmap[p][k]]]
         /\ ctx' = [ctx EXCEPT ![q] = PutCtx(c)]
  /\ umem' = [umem EXCEPT !.refcount = @ - 1]
  /\ xsk' = [xsk EXCEPT ![s] = NoXsk]
  /\ UNCHANGED <<progs, attached, deleted>>

(* Another UMEM is created, or the program taken off the interface.        *)
OtherUmemCreate ==
  /\ CanOpen(fd, 1) /\ \A n \in Fds : fd[n] # OtherUmem
  /\ fd' = OpenFd(fd, OtherUmem)
  /\ UNCHANGED <<umem, ctx, xsk, progs, attached, xskmap, deleted>>

Detached ==
  /\ attached # Nothing /\ attached' = Nothing
  /\ UNCHANGED <<fd, umem, ctx, xsk, progs, xskmap, deleted>>

SocketsNext ==
  \/ UmemCreate \/ UmemDelete \/ OtherUmemCreate \/ Detached
  \/ \E s \in Sockets, q \in Queues :
       NoSocketFd(s, q) \/ CreateFailsEarly(s, q) \/ CreateFailsLate(s, q) \/ Create(s, q)
  \/ \E s \in Sockets : SocketDelete(s)

SocketsSpec == SocketsInit /\ [][SocketsNext]_socketVars
-----------------------------------------------------------------------------
SocketTypes ==
  /\ DOMAIN fd = Fds
  /\ umem.fd \in Fds \cup {Nothing} /\ umem.refcount \in Nat
  /\ \A q \in Queues : ctx[q].refcount \in 0..Cardinality(Sockets)
  /\ \A s \in Sockets : xsk[s].queue \in Queues \cup {Nothing}
  /\ progs \in 0..MaxProgs /\ attached \in 0..progs

(* A context lives as long as sockets use it, and the UMEM counts at least *)
(* the sockets there are, so that it outlives them all.                    *)
CountsCover ==
  /\ \A q \in Queues : ctx[q].refcount = Cardinality({s \in LiveXsk : xsk[s].queue = q})
  /\ umem.refcount >= Cardinality(LiveXsk)
  /\ LiveXsk # {} => umem.open

(* Every number a live socket or context relies on stands for what it was  *)
(* opened for, and no two of them rely on the same number, but for the     *)
(* UMEM and the first socket.                                              *)
NumbersMeanWhatTheyDid ==
  /\ umem.open => fd[umem.fd] = <<"umem", Nothing>>
  /\ \A s \in LiveXsk : xsk[s].fd # umem.fd => fd[xsk[s].fd] = <<"sock", s>>
  /\ \A q \in Queues :
       ctx[q].refcount > 0 /\ ctx[q].prog # Nothing =>
         /\ fd[ctx[q].prog][1] = "prog" /\ fd[ctx[q].map][1] = "map"
         /\ fd[ctx[q].prog][2] = fd[ctx[q].map][2]

(* A socket that was deleted gets no more packets from the program of the  *)
(* interface.                                                              *)
NoPacketsToDeleted ==
  \A q \in Queues : attached # Nothing => xskmap[attached][q] \in LiveXsk \cup {Nothing}

(* Contexts and the UMEM outlive the sockets that use them; every number a *)
(* live socket or context relies on stands for what it was opened for; and *)
(* a deleted socket gets no more packets.                                  *)
SocketsSound ==
  SocketTypes /\ CountsCover /\ NumbersMeanWhatTheyDid /\ NoPacketsToDeleted
=============================================================================
