----------------------------- MODULE NewIPNetwork -----------------------------
(***************************************************************************)
(* Hosts that ping one another through routers: the senders and receivers  *)
(* of New_IP on the hosts, XdpRouter on every router, and links that may   *)
(* lose, delay and reorder frames (an lbf qdisc does all of that).         *)
(*                                                                         *)
(* A frame is used once.  What a host sends and what a router redirects is *)
(* on the wire until it crosses.                                           *)
(***************************************************************************)
EXTENDS XdpRouter, FiniteSets

(* What all know of the network: its hosts, and the table info_dict of     *)
(* New_IP/setup.py, which says how many queues are between two of them.    *)
CONSTANTS
  Hosts,       \* hosts, named by their 8-bit addresses
  Rank,        \* Rank[n][d]: the links from node n to host d
  InfoHops     \* info_dict: the queues between two hosts

(* The table counts one queue for every link. *)
HopsAgree == \A s, d \in Hosts : s # d => InfoHops[s][d] = Rank[s][d]

CONSTANTS
  Receivers,   \* receiver processes
  HostOf,      \* the host a receiver runs on
  HostIf,      \* the interface of a host
  Peer,        \* the interface at the other end of a link
  NodeOf,      \* the node an interface belongs to
  MaxPings     \* bound: pings the hosts send

NetAssumption ==
  /\ Peer \in [Ifaces -> Ifaces]
  /\ HostIf \in [Hosts -> Ifaces]
  /\ \A h \in Hosts : NodeOf[HostIf[h]] = h
  /\ HostOf \in [Receivers -> Hosts]
  /\ MaxPings \in Nat

VARIABLES
  on,       \* receivers that still sniff
  handled,  \* the receivers that have seen a frame
  pings,    \* history: <<source, destination, timestamp>> of the pings sent
  answers,  \* history: <<receiver, source of the pong, timestamp>>
  crossed   \* history: the routers a frame has been through

hvars == <<on, handled, pings, answers, crossed>>
nvars == <<rvars, hvars>>

AtHost(i) == NodeOf[i] \in Hosts
IsPing(f) == hdr[f].eth = "newip" /\ hdr[f].contracts # <<>>
             /\ hdr[f].contracts[1].type = PING
-----------------------------------------------------------------------------
NoFrame == [eth |-> "other", len |-> 0, contracts |-> <<>>]

NetInit ==
  /\ stage = [f \in Frames |-> "away"]
  /\ at = [f \in Frames |-> CHOOSE i \in Ifaces : TRUE]
  /\ hdr = [f \in Frames |-> NoFrame]
  /\ meta = [f \in Frames |-> NoIf]
  /\ verdict = [f \in Frames |-> "pass"]
  /\ row = [f \in Frames |-> "none"]
  /\ egress = [f \in Frames |-> NoIf]
  /\ looked = [f \in Frames |-> NoIf]
  /\ table = [i \in Ifaces |-> { <<r[2], r[3]>> : r \in {s \in Routes : s[1] = i} }]
  /\ on = Receivers
  /\ handled = [f \in Frames |-> {}]
  /\ pings = {}
  /\ answers = {}
  /\ crossed = [f \in Frames |-> 0]

(* Sender.send_packet: the frame leaves through the host's interface.      *)
Send(f, h, header) ==
  /\ stage[f] = "away"
  /\ hdr' = [hdr EXCEPT ![f] = header]
  /\ egress' = [egress EXCEPT ![f] = HostIf[h]]
  /\ stage' = [stage EXCEPT ![f] = "egress"]
  /\ UNCHANGED <<at, meta, verdict, row, looked, table, on, crossed>>

(* A ping carries the time at which it is sent.                            *)
SendPing(f, src_type, src, dst_type, dst) ==
  LET ts == Cardinality(pings)
  IN  /\ ts < MaxPings
      /\ Send(f, src, Frame(src_type, src, dst_type, dst, <<Ping(0, ts)>>, 4))
      /\ pings' = pings \cup {<<src, dst, ts>>}
      /\ UNCHANGED <<handled, answers>>

(* A frame crosses its link.  At a host xdp_pass leaves it to the stack.   *)
Cross(f) ==
  /\ stage[f] = "egress"
  /\ LET i == Peer[egress[f]]
     IN  /\ at' = [at EXCEPT ![f] = i]
         /\ stage' = [stage EXCEPT ![f] = IF AtHost(i) THEN "stack" ELSE "xdp"]
         /\ crossed' = [crossed EXCEPT ![f] = IF AtHost(i) THEN @ ELSE @ + 1]
  /\ egress' = [egress EXCEPT ![f] = NoIf]
  /\ UNCHANGED <<hdr, meta, verdict, row, looked, table, on, handled, pings, answers>>

(* The qdisc or the link loses it.                                         *)
Lose(f) ==
  /\ stage[f] = "egress"
  /\ stage' = [stage EXCEPT ![f] = "dropped"]
  /\ egress' = [egress EXCEPT ![f] = NoIf]
  /\ UNCHANGED <<at, hdr, meta, verdict, row, looked, table, hvars>>

(***************************************************************************)
(* Receiver.process_pkt, once for each receiver that sniffs on the host.   *)
(* A request is answered with the addresses exchanged and its timestamp.   *)
(***************************************************************************)
Sniffs(r, f) ==
  /\ r \in on \ handled[f]
  /\ stage[f] = "stack" /\ NodeOf[at[f]] = HostOf[r]

(* Mutant: the answer keeps the addresses of the request. *)
AnswerUnturned(p) ==
  Frame(p.src_type, p.src, p.dst_type, p.dst, <<Ping(1, p.contracts[1].timestamp)>>, 4)

Answer(p) ==
  Frame(p.dst_type, p.dst, p.src_type, p.src, <<Ping(1, p.contracts[1].timestamp)>>, 4)

AnswerPing(r, f, g) ==
  /\ Sniffs(r, f)
  /\ IsPing(f) /\ hdr[f].contracts[1].code = 0
  /\ Send(g, HostOf[r], Answer(hdr[f]))
  /\ handled' = [handled EXCEPT ![f] = @ \cup {r}]
  /\ UNCHANGED <<pings, answers>>

ReportReply(r, f) ==
  /\ Sniffs(r, f)
  /\ IsPing(f) /\ hdr[f].contracts[1].code # 0
  /\ answers' = answers \cup {<<r, hdr[f].src, hdr[f].contracts[1].timestamp>>}
  /\ handled' = [handled EXCEPT ![f] = @ \cup {r}]
  /\ UNCHANGED <<rvars, on, pings, crossed>>

(* sniff(timeout = ...) returns.                                           *)
StopReceiver(r) ==
  /\ r \in on
  /\ on' = on \ {r}
  /\ UNCHANGED <<rvars, handled, pings, answers, crossed>>

NetRouter(f) == ~AtHost(at[f]) /\ Router(f) /\ UNCHANGED hvars

Sending == \E f \in Frames, s, d \in Hosts, st, dt \in AddrTypes :
             s # d /\ SendPing(f, st, s, dt, d)

Receiving(r, f) == ReportReply(r, f) \/ \E g \in Frames : AnswerPing(r, f, g)

NetNext ==
  \/ Sending
  \/ \E f \in Frames : Cross(f) \/ Lose(f) \/ NetRouter(f)
  \/ \E r \in Receivers : StopReceiver(r) \/ \E f \in Frames : Receiving(r, f)

NetSpec == NetInit /\ [][NetNext]_nvars

(***************************************************************************)
(* The tables of all routers lead every frame to its destination on a      *)
(* shortest way: leaving interface i's router through j brings it one      *)
(* router nearer to d, or to d itself, and never to another host; the      *)
(* kernel's routes do so for every ping that is on its way, and info_dict  *)
(* counts the links of that way, fewer than a ping has hops.               *)
(***************************************************************************)
PingHeader(st, s, dt, d, code, ts, hops) ==
  Frame(st, s, dt, d, <<[Ping(code, ts) EXCEPT !.hops = hops]>>, 4)

PingHeaders ==
  { PingHeader(st, s, dt, d, code, ts, hops) :
      st, dt \in AddrTypes, s, d \in Hosts, code \in {0, 1}, ts \in 0..MaxPings - 1,
      hops \in 0..255 }

Toward(i, d, j) ==
  /\ j \in Ifaces
  /\ LET n == NodeOf[i]
         m == NodeOf[Peer[j]]
     IN  IF m \in Hosts THEN m = d /\ Rank[n][d] = 1 ELSE Rank[n][d] = Rank[m][d] + 1

TablesAgree ==
  /\ Ifaces # {}
  /\ \A r, q \in Routes : r[1] = q[1] /\ r[2] = q[2] => r[3] = q[3]
  /\ \A r \in Routes : ~AtHost(r[1]) => Toward(r[1], r[2], r[3])
  /\ \A i \in {j \in Ifaces : ~AtHost(j)}, h \in {g \in PingHeaders : g.dst_type \in {V4, V6}} :
       \A a \in FibAnswers(i, h) :
         \/ a.rc = "success" /\ Toward(i, h.dst, a.ifindex)
         \/ a.rc \in {"blackhole", "unreachable", "prohibit"}
  /\ \A s, d \in Hosts : s # d => Toward(HostIf[s], d, HostIf[s])
  /\ \A n \in {NodeOf[i] : i \in Ifaces}, d \in Hosts : Rank[n][d] \in Nat
  /\ HopsAgree /\ \A s, d \in Hosts : s # d => Rank[s][d] < 256

(* Hooks run, links deliver or lose, and a process that sniffs gets to run. *)
NetFair ==
  /\ \A f \in Frames : WF_nvars(Cross(f)) /\ WF_nvars(NetRouter(f))
  /\ \A r \in Receivers, f \in Frames : WF_nvars(Receiving(r, f))

NetFairSpec == NetSpec /\ NetFair
-----------------------------------------------------------------------------
(* Frames, interfaces and the sets the receivers keep have their types.    *)
NetTypeOK ==
  /\ RouterTypeOK
  /\ on \subseteq Receivers
  /\ handled \in [Frames -> SUBSET Receivers]
  /\ crossed \in [Frames -> Nat]

(* The routes of the two tables agree: a host gets only what is for it.    *)
DeliveredToAddressee ==
  \A f \in Frames :
    stage[f] = "stack" /\ AtHost(at[f]) => hdr[f].dst = NodeOf[at[f]]

(***************************************************************************)
(* info_dict counts the queues between two hosts by hand: a ping arrives   *)
(* with one hop less for every router, and there is one queue more than    *)
(* routers.                                                                *)
(***************************************************************************)
HopsAreQueues ==
  \A f \in Frames :
    stage[f] = "stack" /\ AtHost(at[f]) /\ IsPing(f) =>
      hdr[f].contracts[1].hops = 255 - (InfoHops[hdr[f].src][hdr[f].dst] - 1)

(* A reply answers a ping that was sent: the round trip a receiver reports *)
(* is measured from the right moment.                                      *)
RepliesMatch ==
  \A a \in answers : <<HostOf[a[1]], a[2], a[3]>> \in pings

(* A frame never meets more routers than the rank of where it started, so  *)
(* it cannot circle.                                                       *)
NoCircling ==
  \A f \in Frames : stage[f] \in {"xdp", "ingress"} =>
    crossed[f] + Rank[NodeOf[at[f]]][hdr[f].dst] <= Rank[hdr[f].src][hdr[f].dst]

(***************************************************************************)
(* info_dict, the 8-bit tables and the kernel's routes agree: the four     *)
(* statements above together, of frames that keep their types.             *)
(***************************************************************************)
NetworkSound ==
  NetTypeOK /\ DeliveredToAddressee /\ HopsAreQueues /\ NoCircling /\ RepliesMatch

(***************************************************************************)
(* A request that is not lost reaches a receiver, and so does its answer,  *)
(* unless the receivers stop first.                                        *)
(***************************************************************************)
PingAnswered ==
  \A s, d \in Hosts, ts \in 0..MaxPings - 1 :
    <<s, d, ts>> \in pings ~>
      \/ \E r \in Receivers : <<r, d, ts>> \in answers
      \/ \E f \in Frames : stage[f] = "dropped"
      \/ on # Receivers
=============================================================================
