------------------------------- MODULE MCNewIP -------------------------------
(***************************************************************************)
(* New IP on its way: a packet through a chain of LBF routers (LbfPath     *)
(* itself), pings through the network of setup.py, one Sender object, and  *)
(* the processes of lbf_forwarder.py. The parts share no state and are     *)
(* checked side by side: what is not of the part stays as it starts.       *)
(***************************************************************************)
EXTENDS LbfPath, NewIPNetwork, NewIPSenders, FiniteSetsExt, TLC
CONSTANTS f1, f2, none
VARIABLE part

-----------------------------------------------------------------------------
Contract(min, max, todelay) == [min |-> min, max |-> max, todelay |-> todelay]

(* Both bounds, a single instant, link delay eaten out of both bounds, link *)
(* delay equal to and beyond the maximum, a minimum without a maximum.      *)
SmallContracts ==
  { Contract(1, 2, 0), Contract(1, 1, 0), Contract(2, 3, 1), Contract(0, 1, 1),
    Contract(0, 1, 2), Contract(1, 0, 0) }

-----------------------------------------------------------------------------
(***************************************************************************)
(* The network New_IP/setup.py builds: three hosts and three routers, the  *)
(* links between them, the tables of 8-bit addresses and the hop counts    *)
(* that senders put into their contracts.  An interface <<n, m>> is the    *)
(* one of node n that faces node m (setup.py names it "n_m").  Hosts are   *)
(* identified with their addresses 1, 2 and 3.                             *)
(***************************************************************************)
HostNodes   == 1..3
r1 == 11
r2 == 12
r3 == 13
RouterNodes == {r1, r2, r3}

Links == { <<r1, 1>>, <<r2, 2>>, <<r3, 3>>, <<r1, r2>>, <<r1, r3>> }

Interfaces == Links \cup { <<l[2], l[1]>> : l \in Links }

PeerIf(i) == <<i[2], i[1]>>
Node(i)   == i[1]

(* The entries of routers.  Those of hosts are written nowhere: setup_host *)
(* loads xdp_pass.                                                         *)
static_redirect_8b ==
  (r1 :> << <<r1, 1>>, <<r1, r2>>, <<r1, r3>> >>) @@
  (r2 :> << <<r2, r1>>, <<r2, 2>>, <<r2, r1>> >>) @@
  (r3 :> << <<r3, r1>>, <<r3, r1>>, <<r3, 3>> >>)

(* setup_router gives every interface of a router all of its entries.      *)
AllRoutes ==
  { <<i, d, static_redirect_8b[Node(i)][d]>> :
      i \in {j \in Interfaces : Node(j) \in RouterNodes}, d \in HostNodes }

info_hops == << <<0, 3, 3>>, <<3, 0, 4>>, <<3, 4, 0>> >>

(***************************************************************************)
(* The routes RIP finds: the neighbour nearest to the destination.  What   *)
(* is within so many links is found by rounds of exchange with neighbours. *)
(***************************************************************************)
Neighbours(n) == { Node(PeerIf(i)) : i \in {j \in Interfaces : Node(j) = n} }

Within[k \in 0..4] ==
  IF k = 0 THEN { <<d, d>> : d \in HostNodes }
  ELSE LET near == Within[k - 1]
       IN  near \cup UNION { {<<m, x[2]>> : m \in Neighbours(x[1])} : x \in near }

Distance ==
  (1 :> <<0, 3, 3>>) @@ (2 :> <<3, 0, 4>>) @@ (3 :> <<3, 4, 0>>) @@
  (r1 :> <<1, 2, 2>>) @@ (r2 :> <<2, 1, 3>>) @@ (r3 :> <<2, 3, 1>>)

(* The table is what the rounds find.                                      *)
DistanceFound ==
  \A n \in DOMAIN Distance, d \in HostNodes :
    Distance[n][d] = Min({k \in 0..4 : <<n, d>> \in Within[k]})

RipRoute(n, d) ==
  CHOOSE i \in Interfaces : Node(i) = n /\ Distance[Node(PeerIf(i))][d] < Distance[n][d]

-----------------------------------------------------------------------------
(* The network of setup.py: all of its interfaces, tables and hop counts,  *)
(* and the routes RIP finds for IPv4 and IPv6; a receiver on every host,   *)
(* one ping.                                                               *)
RipAnswers(i, h) == {[rc |-> "success", ifindex |-> RipRoute(Node(i), h.dst)]}
ReceiverHosts == [r \in 1..3 |-> r]
HostInterfaces == [h \in HostNodes |-> CHOOSE i \in Interfaces : Node(i) = h]
PeerInterfaces == [i \in Interfaces |-> PeerIf(i)]
InterfaceNodes == [i \in Interfaces |-> Node(i)]

(* Lists of contracts given to a Sender that is filled and reused.         *)
SenderLists == << <<>>, <<Ping(0, 7), Lbf>> >>

(* Lists of address types given to lbf_forwarder.       *)
ForwarderTypes == { {"ipv4", "8bit"}, {"8bit"} }

ASSUME PartsAssumption ==
  /\ RouterAssumption /\ NetAssumption /\ TablesAgree /\ DistanceFound
  /\ SenderAssumption /\ ForwarderAssumption

-----------------------------------------------------------------------------
all == <<part, vars, nvars, svars, fvars>>

(* A behaviour is of one part. *)
AllInit ==
  /\ part \in {"path", "network", "sender", "forwarder"}
  /\ Init /\ (part # "path" => contract = Contract(1, 2, 0) /\ path = 1 /\ sent_tohops = 0)
  /\ NetInit /\ SenderInit
  /\ ForwarderInit /\ (part # "forwarder" => given = {"8bit"})

AllNext ==
  \/ part = "path" /\ Next /\ UNCHANGED <<part, nvars, svars, fvars>>
  \/ part = "network" /\ NetNext /\ UNCHANGED <<part, vars, svars, fvars>>
  \/ part = "sender" /\ SenderNext /\ UNCHANGED <<part, vars, nvars, fvars>>
  \/ part = "forwarder" /\ ForwarderNext /\ UNCHANGED <<part, vars, nvars, svars>>

(* The fairness of NewIPNetwork and of the forwarder, of the part that runs. *)
AllFair ==
  /\ \A f \in {f1, f2} :
       /\ WF_nvars(part = "network" /\ Cross(f))
       /\ WF_nvars(part = "network" /\ NetRouter(f))
       /\ \A r \in 1..3 : WF_nvars(part = "network" /\ Receiving(r, f))
  /\ \A s \in Src : WF_fvars(part = "forwarder" /\ Sends(s))

AllSpec == AllInit /\ [][AllNext]_all /\ AllFair
-----------------------------------------------------------------------------
(* A request that is not lost reaches a receiver, and so does its answer,  *)
(* unless the receivers stop first; and every source of lbf_forwarder      *)
(* sends its share, or dies for want of an address type.                   *)
NothingStarves ==
  PingAnswered /\ (part = "forwarder" => EverySourceEnds)
=============================================================================
