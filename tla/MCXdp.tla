------------------------------ MODULE MCXdp ------------------------------
(***************************************************************************)
(* The XDP programs of a router and what loads, feeds and reads them: the  *)
(* programs on the frames of a router, the loader and the writer of the    *)
(* redirect table, the reader of the counters, the options of the command  *)
(* line, the parsers of packets, and the object loader that shares pinned  *)
(* maps (MapsPinned itself). The parts are checked side by side.           *)
(***************************************************************************)
EXTENDS MapsPinned, XdpStats, XdpRouter, XdpHelpers
CONSTANTS i1, i2, none, l1
VARIABLE part

(* Two maps; the first is asked for under two names of files, and a map is   *)
(* asked for that the object does not have.                                  *)
TwoMaps == <<"counters", "redirects">>
FourPins == <<[name |-> "counters", filename |-> "f1"], [name |-> "redirects", filename |-> "f2"],
              [name |-> "counters", filename |-> "f3"], [name |-> "other", filename |-> "f4"]>>

-----------------------------------------------------------------------------
(***************************************************************************)
(* One router with two interfaces, and the frames its neighbours send.     *)
(***************************************************************************)
RouterRoutes == {<<i1, 1, i2>>, <<i1, 2, i1>>, <<i2, 2, i1>>}

RouterAnswer(rc) == [rc |-> rc, ifindex |-> none]
RouterFib(i, h) ==
  {[rc |-> "success", ifindex |-> i2], RouterAnswer("unreachable"), RouterAnswer("not_fwded")}

RouterOther == [eth |-> "other", len |-> 40, contracts |-> <<>>]
RouterCut(h) == [h EXCEPT !.len = 9]

RouterHeaders ==
  { Frame(V4, 1, V4, 2, <<>>, 4), Frame(V4, 1, V6, 2, <<Ping(0, 7)>>, 4),
    Frame(V4, 1, B8, 2, <<>>, 0), Frame(B8, 1, B8, 1, <<Ping(0, 7)>>, 2),
    Frame(V6, 1, B8, 3, <<Mdf>>, 1), Frame(V4, 1, V4, 2, <<Lbf, Mdf>>, 0),
    RouterCut(Frame(V4, 1, B8, 2, <<>>, 4)), RouterOther }

-----------------------------------------------------------------------------
(* One loader, and the writer of the redirect table. *)
LoaderLine(m, f, r, u) == [mode |-> m, force |-> f, reuse |-> r, unload |-> u]
LoaderMaps == <<"xdp_stats_map", "static_redirect_8b">>
LoaderOptions == { LoaderLine("drv", FALSE, FALSE, FALSE), LoaderLine("drv", TRUE, FALSE, FALSE),
               LoaderLine("skb", TRUE, FALSE, FALSE),  LoaderLine("auto", FALSE, TRUE, FALSE),
               LoaderLine("auto", TRUE, TRUE, FALSE),  LoaderLine("skb", FALSE, FALSE, FALSE),
               LoaderLine("drv", FALSE, FALSE, TRUE) }

(* While the counters are read, two runs of loaders replace the maps or     *)
(* keep them; nothing kills them, and the redirect table is left alone.     *)
WhileRead ==
  /\ runs' <= 2 /\ last' # "crash" /\ wr'.pc = "idle"
  /\ \A l \in Loaders :
       ld'[l].pc # "idle" =>
         ld'[l].opt.force /\ ~ld'[l].opt.unload /\ ld'[l].opt.mode # "skb"

-----------------------------------------------------------------------------
(* Packets with up to two VLAN tags, cut at and between the headers. *)
PacketsPacket(tags, proto, words, len) ==
  [tags |-> tags, proto |-> proto, words |-> words, len |-> len, macs |-> <<"a", "b">>]
PacketsPackets ==
  { PacketsPacket(<<>>, "ip", w, n) : w \in {1, 2, 5, 6}, n \in {10, 14, 34, 40, 54, 60} } \cup
  { PacketsPacket(<<7>>, "ip", 5, n) : n \in {16, 18, 58} } \cup
  { PacketsPacket(<<7, 8200>>, p, 5, n) : p \in {"ip6", "udp", "icmp"}, n \in {20, 30, 62} }

-----------------------------------------------------------------------------
ASSUME PartsAssumption ==
  /\ RouterAssumption /\ HeadersAssumption
  /\ LoaderAssumption /\ OneAtATime /\ StatsAssumption
  /\ PacketsAssumption

OtherFrames == at = [f \in Frames |-> i1] /\ hdr = [f \in Frames |-> RouterOther]

(* A behaviour is of one part: what is not of the part stays as it starts. *)
AllInit ==
  /\ part \in {"maps", "loader", "stats", "router", "params", "packets"}
  /\ Init /\ StatsInit /\ RouterInit /\ (part # "router" => OtherFrames)
  /\ ParamsInit /\ PacketsInit /\ (part # "packets" => pkt = PacketsPacket(<<>>, "ip", 5, 34))

AllNext ==
  /\ UNCHANGED part
  /\ \/ part = "maps" /\ Next /\ UNCHANGED <<allvars, rvars, pvars, xvars>>
     \/ part = "router" /\ RouterNext /\ UNCHANGED <<vars, allvars, pvars, xvars>>
     \/ part = "loader" /\ LoaderNext /\ UNCHANGED <<vars, tvars, rvars, pvars, xvars>>
     \/ part = "stats" /\ StatsNext /\ WhileRead /\ UNCHANGED <<vars, rvars, pvars, xvars>>
     \/ part = "params" /\ ParamsNext /\ UNCHANGED <<vars, allvars, rvars, xvars>>
     \/ part = "packets" /\ PacketsNext /\ UNCHANGED <<vars, allvars, rvars, pvars>>

AllSpec == AllInit /\ [][AllNext]_<<part, vars, allvars, rvars, pvars, xvars>>
=============================================================================
