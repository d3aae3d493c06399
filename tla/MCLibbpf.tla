------------------------------ MODULE MCLibbpf ------------------------------
(***************************************************************************)
(* What libbpf does with the kernel, part by part: objects, their pins and *)
(* their struct_ops; links, netlink and the rings it shares with the       *)
(* kernel. The parts share no state; a run looks at those in Parts, side   *)
(* by side.                                                                *)
(***************************************************************************)
EXTENDS XskRings, BpfLink, BpfNetlink, XskSocket, BpfPin, SequencesExt, FiniteSetsExt, TLC
(* The parts a run looks at, and model values of theirs. *)
CONSTANTS Parts, o1, o2, setter, getter, g1, g2, f1, f2, f3, s1, s2, q1, q2
VARIABLES part, v1, v2, v3, v4, v5, v6, v7
otherVars == <<v1, v2, v3, v4, v5, v6, v7>>
all == <<part, ringsVars, vars, netlinkVars, socketVars, pinVars, otherVars>>

(* Objects and sockets are alike. *)
KernelSymmetry == Permutations({o1, o2}) \cup Permutations({s1, s2})

-----------------------------------------------------------------------------
(* Two objects with a pinned map of data and a map of maps, and three programs. *)
ObjectMaps == <<[pin |-> "p", kind |-> "rodata", inner |-> FALSE, slots |-> {}],
            [pin |-> "none", kind |-> "user", inner |-> TRUE, slots |-> {1}]>>
ObjectPrograms == <<[load |-> TRUE, sub |-> FALSE, prep |-> FALSE, instances |-> 1],
                [load |-> TRUE, sub |-> FALSE, prep |-> TRUE, instances |-> 1],
                [load |-> FALSE, sub |-> FALSE, prep |-> FALSE, instances |-> 1]>>

Object == INSTANCE BpfObject WITH
  kmaps <- v1, pins <- v2, obj <- v3, open <- v4, kept <- v5, undone <- v6,
  Objects <- {o1, o2}, Paths <- {"p"}, Maps <- ObjectMaps, Programs <- ObjectPrograms,
  MaxMaps <- 3, MaxKept <- 1

-----------------------------------------------------------------------------
(* An object with two maps and two programs, one of two instances. *)
PinDirs      == {<<"d">>, <<"e">>}
PinMapName   == <<"a", "b">>
PinProgName  == <<"x", "y">>
PinInstances == <<1, 2>>

-----------------------------------------------------------------------------
(* Three variables of two types, the first two of one; kernels that have    *)
(* the members in another order, with another beside them, of other sizes   *)
(* or kinds, or not at all; up to three relocations.                        *)
OpsF(n, o) == [name |-> n, kind |-> "func", size |-> 1, off |-> o, bits |-> FALSE]
OpsD(n, s, o) == [name |-> n, kind |-> "data", size |-> s, off |-> o, bits |-> FALSE]
OpsTypes == [ops |-> <<OpsF("init", 0), OpsD("flags", 2, 1), OpsF("ack", 3)>>, other |-> <<OpsF("init", 0)>>]
OpsSize == [ops |-> 4, other |-> 1]
OpsVars == <<[offset |-> 0, type |-> "ops"], [offset |-> 4, type |-> "ops"], [offset |-> 9, type |-> "other"]>>

OpsK(ms, o) == [members |-> ms, data_off |-> o, size |-> 8]
OpsOther == OpsK(<<OpsD("pad", 1, 0), OpsF("init", 1)>>, 1)
OpsKernels ==
  {[ops |-> k, other |-> OpsOther] :
     k \in {OpsK(<<OpsF("init", 0), OpsD("flags", 2, 1), OpsF("ack", 3)>>, 0),
            OpsK(<<OpsD("flags", 2, 0), OpsF("ack", 2), OpsF("new", 3), OpsF("init", 4)>>, 2),
            OpsK(<<OpsF("ack", 0), OpsF("init", 1)>>, 1),
            OpsK(<<OpsD("flags", 1, 0), OpsF("ack", 2), OpsF("init", 4)>>, 2),
            OpsK(<<[OpsD("flags", 2, 0) EXCEPT !.bits = TRUE], OpsF("ack", 2), OpsF("init", 4)>>, 2),
            OpsK(<<OpsD("flags", 2, 0), [OpsF("ack", 2) EXCEPT !.kind = "ptr"], OpsF("init", 4)>>, 2)}}
  \cup {[other |-> OpsOther]}

OpsProgs == [a |-> "struct_ops", b |-> "none", c |-> "xdp"]
OpsR(o, p) == [offset |-> o, prog |-> p]
OpsRelos == {OpsR(o, p) : o \in {0, 1, 3, 4, 7, 8, 9}, p \in {"a", "b", "c"}} \cup {OpsR(0, "gone")}
OpsRelosSets == {<<>>} \cup {<<r>> : r \in OpsRelos} \cup {<<r, q>> : r, q \in OpsRelos}
               \cup {<<OpsR(0, "a"), r, q>> : r, q \in {x \in OpsRelos : x.offset \in {3, 4, 7, 9}}}

Ops == INSTANCE BpfStructOps WITH
  d_size <- v1, stage <- v2, relos <- v3, maps <- v4, prog <- v5, kernel <- v6, inuse <- v7,
  Types <- OpsTypes, Size <- OpsSize, Vars <- OpsVars, SecSizes <- {9, 10},
  Kernels <- OpsKernels, Progs <- OpsProgs, RelosSets <- OpsRelosSets

-----------------------------------------------------------------------------
(* Programs with two kinds of links, with other two, and with none. *)
LinkKinds == ("k" :> {"kprobe", "tracepoint"} @@ "x" :> {"raw_tp", "fd"} @@ "n" :> {"none"})

-----------------------------------------------------------------------------
(* One process that attaches twice and one that asks once.                 *)
NetlinkCalls == (setter :> 2) @@ (getter :> 1)

-----------------------------------------------------------------------------
ASSUME PartsAssumption ==
  /\ Object!MapsAssumption
  /\ NamesAssumption
  /\ ProgsAssumption
  /\ NetlinkAssumption
  /\ RingAssumption
  /\ XskAssumption

Unused6 == v7 = 0
Unused0 == v1 = 0 /\ v2 = 0 /\ v3 = 0 /\ v4 = 0 /\ v5 = 0 /\ v6 = 0 /\ v7 = 0

(* A behaviour is of one part: what is not of the part stays as it starts. *)
AllInit ==
  /\ part \in Parts
  /\ RingsInit /\ (part # "rings" => tx.ring[0] = f1)
  /\ Init /\ (part # "link" => kind = [p \in Progs |-> CHOOSE way \in LinkKinds[p] : TRUE])
  /\ NetlinkInit /\ SocketsInit /\ PinsInit
  /\ \/ part \in {"rings", "link", "netlink", "sockets", "pin"} /\ Unused0
     \/ part = "object" /\ Object!Init /\ Unused6
     \/ part = "structops" /\ Ops!Init

(* Parts that may end. *)
Stops == part \in {"object", "structops", "link", "netlink", "sockets"} /\ UNCHANGED all

OtherNext ==
  \/ part = "object" /\ Object!Next /\ UNCHANGED v7
  \/ part = "structops" /\ Ops!Next

AllNext ==
  /\ UNCHANGED part
  /\ \/ part = "rings" /\ RingsNext /\ UNCHANGED <<vars, netlinkVars, socketVars, pinVars, otherVars>>
     \/ part = "link" /\ Next /\ UNCHANGED <<ringsVars, netlinkVars, socketVars, pinVars, otherVars>>
     \/ part = "netlink" /\ NetlinkNext /\ UNCHANGED <<ringsVars, vars, socketVars, pinVars, otherVars>>
     \/ part = "sockets" /\ SocketsNext /\ UNCHANGED <<ringsVars, vars, netlinkVars, pinVars, otherVars>>
     \/ part = "pin" /\ PinsNext /\ UNCHANGED <<ringsVars, vars, netlinkVars, socketVars, otherVars>>
     \/ OtherNext /\ UNCHANGED <<ringsVars, vars, netlinkVars, socketVars, pinVars>>
     \/ Stops

AllSpec == AllInit /\ [][AllNext]_all
-----------------------------------------------------------------------------
(* Whatever step of a load fails: no descriptor is open that the object    *)
(* does not know of, other than those bpf_object__reuse_map leaves; an     *)
(* object has every map and program it wanted or none; what others find at *)
(* a path is filled, frozen and has its slots set; and objects loaded with *)
(* one path share its map, unless a failed load has taken the pin away     *)
(* that they had reused.                                                   *)
ObjectSound == part = "object" =>
  /\ Object!DescriptorsAccounted /\ Object!AllOrNothing
  /\ Object!PinnedIsReady /\ Object!LoadedShare

(* A struct the kernel runs has, at every member of its own, the program   *)
(* the source named for that member, or none; and a program that maps      *)
(* share is loaded for the one member all of them have it on.              *)
StructOpsSound == part = "structops" => Ops!RunsWhatWasNamed /\ Ops!LoadedForItsMember
=============================================================================
