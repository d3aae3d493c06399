------------------------------- MODULE BpfLink -------------------------------
(***************************************************************************)
(* Links of libbpf.c: a program is attached through a descriptor that the  *)
(* link owns (a perf event, a link of the kernel) or borrows from a map    *)
(* (struct_ops), and stays attached until the link is destroyed, unless it *)
(* is pinned or disconnected.  Links are made one by one or all together   *)
(* by the skeleton of an object, whose programs and maps they use.         *)
(***************************************************************************)
EXTENDS Integers, FiniteSets, FiniteSetsExt

CONSTANTS
  Progs,  \* the programs of the skeleton
  Kinds,  \* of each, the ways it may be attached
  Autoload, \* those whose loading is not turned off
  MaxFd   \* bound: descriptors of the process

StOps == "st_ops"   \* the struct_ops map, and the link to it
Again == "again"    \* a link that is opened at its path

ProgsAssumption ==
  /\ Kinds \in [Progs -> SUBSET {"kprobe", "tracepoint", "raw_tp", "fd", "none"}] /\ Autoload \subseteq Progs
  /\ StOps \notin Progs /\ Again \notin Progs

VARIABLES
  kind,      \* how each program is attached, by the section it is in
  skel,      \* where the skeleton is in its life
  fdtab,     \* what each descriptor is open for, or Free
  links,     \* the struct bpf_link of each program, StOps and Again
  pin,       \* the program whose kernel link is pinned at the path, or Free
  enabled,   \* programs and StOps that run when their event happens
  given      \* history: links that were disconnected

vars == <<kind, skel, fdtab, links, pin, enabled, given>>

Free   == <<"free">>
NoLink == [fd |-> -1, of |-> "none", how |-> "none", disconnected |-> FALSE, path |-> FALSE]
ErrLink == [NoLink EXCEPT !.how = "error"]
Names  == Progs \cup {StOps, Again}

Init ==
  /\ kind \in {f \in [Progs -> UNION {Kinds[p] : p \in Progs}] : \A p \in Progs : f[p] \in Kinds[p]}
  /\ skel = "open" /\ fdtab = [n \in 0..MaxFd - 1 |-> Free]
  /\ links = [l \in Names |-> NoLink]
  /\ pin = Free /\ enabled = {} /\ given = {}

Live(l) == links[l].how \notin {"none", "error"}
Unused  == {n \in DOMAIN fdtab : fdtab[n] = Free}
FdOf(t) == CHOOSE n \in DOMAIN fdtab : fdtab[n] = t

(* A kernel link or an event that no descriptor and no pin refers to any   *)
(* longer is detached by the kernel; struct_ops stay registered.           *)
Refs(tab, at) == {tab[n] : n \in DOMAIN tab} \cup {at}
Kernel(tab, at, on) ==
  /\ fdtab' = tab /\ pin' = at
  /\ enabled' = {p \in on : p = StOps \/ {<<"link", p>>, <<"perf", p>>} \cap Refs(tab, at) # {}}

-----------------------------------------------------------------------------
(* bpf_object__load_skeleton: descriptors for the programs and the map.    *)
bpf_object__load_skeleton ==
  /\ skel = "open"
  /\ \E f \in [Autoload \cup {StOps} -> Unused] :
       /\ IsInjective(f)
       /\ \A t \in DOMAIN f : f[t] = Cardinality({u \in DOMAIN f : f[u] < f[t]})
       /\ fdtab' = [n \in DOMAIN fdtab |->
            IF \E t \in DOMAIN f : f[t] = n THEN <<"obj", CHOOSE t \in DOMAIN f : f[t] = n>>
                                            ELSE fdtab[n]]
  /\ skel' = "loaded"
  /\ UNCHANGED <<kind, links, pin, enabled, given>>

New(n, of, how) == [NoLink EXCEPT !.fd = n, !.of = of, !.how = how]

Attach(p, what, how) ==
  /\ Unused # {}
  /\ LET n == Min(Unused)
     IN  /\ fdtab' = [fdtab EXCEPT ![n] = <<what, p>>]
         /\ links' = [links EXCEPT ![p] = New(n, p, how)]
  /\ enabled' = enabled \cup {p}

(* A perf event is opened for the probe or the tracepoint, the program put *)
(* on it and the event enabled; it is closed if one of that fails.         *)
bpf_program__attach_kprobe(p)     == kind[p] = "kprobe" /\ Attach(p, "perf", "perf")
bpf_program__attach_tracepoint(p) == kind[p] = "tracepoint" /\ Attach(p, "perf", "perf")

(* The kernel makes a link and a descriptor for it.                        *)
bpf_program__attach_raw_tracepoint(p) == kind[p] = "raw_tp" /\ Attach(p, "link", "fd")
bpf_program__attach_fd(p)             == kind[p] = "fd" /\ Attach(p, "link", "fd")

(* bpf_object__attach_skeleton goes from program to program and stops at   *)
(* the first that cannot be attached.                                      *)
ToAttach == {p \in Autoload : kind[p] # "none" /\ links[p] = NoLink}
bpf_object__attach_skeleton ==
  /\ skel = "loaded" /\ ToAttach # {}
  /\ \E p \in ToAttach :
       \/ /\ \/ bpf_program__attach_kprobe(p) \/ bpf_program__attach_tracepoint(p)
             \/ bpf_program__attach_raw_tracepoint(p) \/ bpf_program__attach_fd(p)
          /\ UNCHANGED skel
       \/ links' = [links EXCEPT ![p] = ErrLink] /\ skel' = "attached" /\ UNCHANGED <<fdtab, enabled>>
  /\ UNCHANGED <<kind, pin, given>>

AllAttached ==
  /\ skel = "loaded" /\ ToAttach = {} /\ skel' = "attached"
  /\ UNCHANGED <<kind, fdtab, links, pin, enabled, given>>

bpf_map__attach_struct_ops ==
  /\ skel \in {"loaded", "attached"} /\ links[StOps] = NoLink
  /\ links' = [links EXCEPT ![StOps] = New(FdOf(<<"obj", StOps>>), StOps, "struct_ops")]
  /\ enabled' = enabled \cup {StOps}
  /\ UNCHANGED <<kind, skel, fdtab, pin, given>>

-----------------------------------------------------------------------------

(* bpf_link__detach_fd and _perf_event close the descriptor, _struct_ops   *)
(* deletes the element of the map the descriptor is open for by now.       *)
detach(l) ==
  LET n == links[l].fd
  IN  IF links[l].how = "struct_ops"
      THEN Kernel(fdtab, pin, IF fdtab[n] = <<"obj", StOps>> THEN enabled \ {StOps} ELSE enabled)
      ELSE Kernel([fdtab EXCEPT ![n] = Free], pin, enabled)

bpf_link__destroy(l) ==
  /\ IF Live(l) /\ ~links[l].disconnected THEN detach(l) ELSE UNCHANGED <<fdtab, pin, enabled>>
  /\ links' = [links EXCEPT ![l] = NoLink]

(* The user destroys a link that is not the skeleton's.                    *)
DestroyOwn(l) ==
  /\ l \in {StOps, Again} /\ Live(l)
  /\ bpf_link__destroy(l)
  /\ UNCHANGED <<kind, skel, given>>

bpf_link__disconnect(l) ==
  /\ Live(l) /\ ~links[l].disconnected
  /\ links' = [links EXCEPT ![l].disconnected = TRUE]
  /\ given' = given \cup {links[l].of}
  /\ UNCHANGED <<kind, skel, fdtab, pin, enabled>>

bpf_link__pin(l) ==
  /\ links[l].how = "fd" /\ ~links[l].path /\ pin = Free
  /\ links' = [links EXCEPT ![l].path = TRUE]
  /\ pin' = fdtab[links[l].fd]
  /\ UNCHANGED <<kind, skel, fdtab, enabled, given>>

(* Whatever is at the path goes.                                           *)
bpf_link__unpin(l) ==
  /\ Live(l) /\ links[l].path /\ pin # Free
  /\ links' = [links EXCEPT ![l].path = FALSE]
  /\ Kernel(fdtab, Free, enabled)
  /\ UNCHANGED <<kind, skel, given>>

bpf_link__open ==
  /\ pin # Free /\ Unused # {} /\ links[Again] = NoLink
  /\ fdtab' = [fdtab EXCEPT ![Min(Unused)] = pin]
  /\ links' = [links EXCEPT ![Again] = [New(Min(Unused), pin[2], "fd") EXCEPT !.path = TRUE]]
  /\ UNCHANGED <<kind, skel, pin, enabled, given>>

(* bpf_link__detach: the kernel link stays, attached to nothing.           *)
bpf_link__detach(l) ==
  /\ links[l].how = "fd"
  /\ enabled' = enabled \ {links[l].of}
  /\ UNCHANGED <<kind, skel, fdtab, links, pin, given>>

-----------------------------------------------------------------------------
(* bpf_object__detach_skeleton, one program after the other.               *)
bpf_object__detach_skeleton ==
  /\ skel = "destroying"
  /\ \E p \in Progs : links[p] # NoLink /\ bpf_link__destroy(p)
  /\ UNCHANGED <<kind, skel, given>>

Destroy ==
  /\ skel \in {"open", "loaded", "attached"} /\ skel' = "destroying"
  /\ UNCHANGED <<kind, fdtab, links, pin, enabled, given>>

(* Mutant: the object is closed while there is a link to its map. *)
CloseFirst ==
  /\ skel = "destroying"
  /\ fdtab' = [n \in DOMAIN fdtab |-> IF fdtab[n][1] = "obj" THEN Free ELSE fdtab[n]]
  /\ skel' = "gone"
  /\ UNCHANGED <<kind, links, pin, enabled, given>>

(* bpf_object__destroy_skeleton closes the object when its links are gone; *)
(* a struct_ops link is the user's to destroy before.                      *)
Close ==
  /\ skel = "destroying" /\ \A p \in Progs : links[p] = NoLink
  /\ links[StOps] = NoLink
  /\ fdtab' = [n \in DOMAIN fdtab |-> IF fdtab[n][1] = "obj" THEN Free ELSE fdtab[n]]
  /\ skel' = "gone"
  /\ UNCHANGED <<kind, links, pin, enabled, given>>

Other ==   \* other descriptors of the process
  /\ UNCHANGED <<kind, skel, links, pin, enabled, given>>
  /\ \/ Unused # {} /\ fdtab' = [fdtab EXCEPT ![Min(Unused)] = <<"other">>]
     \/ \E n \in DOMAIN fdtab : fdtab[n] = <<"other">> /\ fdtab' = [fdtab EXCEPT ![n] = Free]

Next ==
  \/ bpf_object__load_skeleton \/ bpf_object__attach_skeleton \/ AllAttached
  \/ bpf_map__attach_struct_ops \/ bpf_link__open
  \/ \E l \in Names : \/ DestroyOwn(l) \/ bpf_link__disconnect(l) \/ bpf_link__detach(l)
                      \/ bpf_link__pin(l) \/ bpf_link__unpin(l)
  \/ bpf_object__detach_skeleton \/ Destroy \/ Close \/ Other

Spec == Init /\ [][Next]_vars
-----------------------------------------------------------------------------
Refers(l) == CASE links[l].how = "perf"       -> {<<"perf", links[l].of>>}
               [] links[l].how = "struct_ops" -> {<<"obj", StOps>>}
               [] OTHER                       -> {<<"link", links[l].of>>}

(* The descriptor of a link is open for what the link was made of, so that *)
(* destroying it cannot hit what the descriptor is open for in the         *)
(* meantime, other users of descriptors notwithstanding.                   *)
DescriptorIsLinks == \A l \in Names : Live(l) => fdtab[links[l].fd] \in Refers(l)

(* No descriptor of an event or a link is open that no link knows of.      *)
NoneLost ==
  \A n \in DOMAIN fdtab : fdtab[n][1] \in {"perf", "link"} =>
    fdtab[n][2] \in given \/ \E l \in Names : Live(l) /\ links[l].fd = n

(* A program runs on only while a link, a pin or somebody who took it over *)
(* by disconnecting it keeps it attached.                                  *)
RunsByRight ==
  \A p \in enabled :
    \/ p \in given \/ pin = <<"link", p>>
    \/ \E l \in Names : Live(l) /\ links[l].of = p

(* What attaches a program survives what others do to theirs: a descriptor *)
(* stays its link's, none is lost, and no program runs on unasked.         *)
LinkSound == DescriptorIsLinks /\ NoneLost /\ RunsByRight
=============================================================================
