------------------------------ MODULE XdpHelpers ------------------------------
(***************************************************************************)
(* What the XDP programs and their loaders have in common, which share     *)
(* nothing: the options of a command line, and the helpers that parse and  *)
(* rewrite packets.                                                        *)
(***************************************************************************)
EXTENDS Integers, Sequences, SequencesExt, FiniteSets

(***************************************************************************)
(* common_params.c: the configuration the options of a command line leave, *)
(* one option after the other.  Flags are sets of their names.             *)
(***************************************************************************)
CONSTANTS
  Modes0,   \* xdp_flags a program starts from
  MaxArgs   \* bound: options on a line

MODES == {"SKB", "DRV", "HW"}
Opts  == {"d", "r", "A", "S", "N", "3", "F", "M", "U", "p", "q", "Q", "L", "R", "c", "z"}

VARIABLES line, xdp_flags, bind_flags, fields
pvars == <<line, xdp_flags, bind_flags, fields>>

ParamsInit ==
  /\ line = <<>>
  /\ xdp_flags = Modes0
  /\ bind_flags = {}
  /\ fields = {}

SetMode(m) == xdp_flags' = (xdp_flags \ MODES) \cup m
Copy       == bind_flags' = (bind_flags \cap {"ZEROCOPY"}) \cup {"COPY"}

(* 'R' has no break and goes on with 'c'.                                  *)
Option(o) ==
  /\ Len(line) < MaxArgs
  /\ line' = Append(line, o)
  /\ CASE o = "A" -> SetMode({}) /\ UNCHANGED <<bind_flags, fields>>
       [] o = "S" -> SetMode({"SKB"}) /\ Copy /\ UNCHANGED fields
       [] o = "N" -> SetMode({"DRV"}) /\ UNCHANGED <<bind_flags, fields>>
       [] o = "3" -> SetMode({"HW"}) /\ UNCHANGED <<bind_flags, fields>>
       [] o = "F" -> xdp_flags' = xdp_flags \ {"NOEXIST"} /\ UNCHANGED <<bind_flags, fields>>
       [] o = "c" -> Copy /\ UNCHANGED <<xdp_flags, fields>>
       [] o = "R" -> Copy /\ fields' = fields \cup {"dest_mac"} /\ UNCHANGED xdp_flags
       [] o = "z" -> /\ bind_flags' = (bind_flags \cap {"COPY"}) \cup {"ZEROCOPY"}
                     /\ UNCHANGED <<xdp_flags, fields>>
       [] OTHER   -> fields' = fields \cup {o} /\ UNCHANGED <<xdp_flags, bind_flags>>

ParamsNext == \E o \in Opts : Option(o)
ParamsSpec == ParamsInit /\ [][ParamsNext]_pvars
-----------------------------------------------------------------------------
Chooses == {"A", "S", "N", "3"}
Chosen(o) == CASE o = "A" -> {} [] o = "S" -> {"SKB"} [] o = "N" -> {"DRV"} [] o = "3" -> {"HW"}

(* The last of the options that choose a mode decides, and --force stands  *)
(* wherever on the line it is.                                             *)
LastModeWins ==
  /\ (\A i \in DOMAIN line : line[i] \notin Chooses) => xdp_flags \cap MODES = Modes0 \cap MODES
  /\ \A i \in DOMAIN line :
       line[i] \in Chooses /\ (\A j \in DOMAIN line : j > i => line[j] \notin Chooses) =>
         xdp_flags \cap MODES = Chosen(line[i])
  /\ "NOEXIST" \in xdp_flags <=>
       "NOEXIST" \in Modes0 /\ \A i \in DOMAIN line : line[i] # "F"

-----------------------------------------------------------------------------
(***************************************************************************)
(* parsing_helpers.h and rewrite_helpers.h: a program that tags a packet,  *)
(* takes tags off again, and parses it with a cursor that goes from one    *)
(* header to the next.                                                     *)
(*                                                                         *)
(* A packet is its stack of tags, the protocol behind them, the header     *)
(* length that is written in the next header, and its number of bytes.     *)
(***************************************************************************)
CONSTANTS
  Packets,   \* packets that arrive: [tags, proto, words, len, macs]
  Tcis,      \* values given to vlan_tag_push
  HeaderWords,     \* what four bits found in place of a header length may be
  MaxTags    \* bound: tags on a packet

Layout == [tags : Seq(Nat), proto : STRING, words : Nat, len : Nat, macs : Seq(STRING)]
PacketsAssumption ==
  /\ \A p \in Packets : p \in Layout
  /\ Tcis \subseteq Nat /\ HeaderWords \subseteq Nat

EthLen == 14
TagLen == 4
VlanMaxDepth == 2

VARIABLES
  pkt,     \* the packet
  cursor,  \* [pos, at]: the next byte to parse, and the protocol there
  result,  \* what the last helper returned
  arrived, \* history: the packet as it arrived
  pushed   \* history: what was pushed and not popped, outermost first

xvars == <<pkt, cursor, result, arrived, pushed>>

Unparsed == [pos |-> 0, at |-> "eth"]

PacketsInit ==
  /\ pkt \in Packets
  /\ arrived = pkt
  /\ cursor = Unparsed
  /\ result = 0
  /\ pushed = <<>>

Fits(n) == cursor.pos + n <= pkt.len
-----------------------------------------------------------------------------
(* parse_ethhdr_vlan skips at most VLAN_MAX_DEPTH tags, and stops before   *)
(* one that is cut off.                                                    *)
TagsSkipped ==
  LET whole == (pkt.len - EthLen) \div TagLen
      most  == IF Len(pkt.tags) < VlanMaxDepth THEN Len(pkt.tags) ELSE VlanMaxDepth
  IN  IF whole < most THEN whole ELSE most

parse_ethhdr ==
  /\ cursor = Unparsed
  /\ IF ~Fits(EthLen)
     THEN result' = -1 /\ UNCHANGED cursor
     ELSE /\ cursor' = [ pos |-> EthLen + TagLen * TagsSkipped,
                         at  |-> IF TagsSkipped = Len(pkt.tags) THEN pkt.proto ELSE "vlan" ]
          /\ result' = 0
  /\ UNCHANGED <<pkt, arrived, pushed>>

(* Headers of a fixed size: IPv6, ICMP and UDP.                            *)
FixedSize(at) == CASE at = "ip6" -> 40 [] at = "icmp" -> 8 [] at = "udp" -> 8

ParseFixed ==
  /\ cursor.at \in {"ip6", "icmp", "udp"}
  /\ IF ~Fits(FixedSize(cursor.at))
     THEN result' = -1 /\ UNCHANGED cursor
     ELSE /\ cursor' = [pos |-> cursor.pos + FixedSize(cursor.at), at |-> "payload"]
          /\ result' = 0
  /\ UNCHANGED <<pkt, arrived, pushed>>

(***************************************************************************)
(* parse_iphdr and parse_tcphdr: twenty bytes have to be there, and the    *)
(* length the header claims is compared with the size of a pointer.        *)
(***************************************************************************)

ParseSized(at, claimed) ==
  /\ cursor.at = at
  /\ IF ~Fits(20) \/ 4 * claimed < 8 \/ ~Fits(4 * claimed)
     THEN result' = -1 /\ UNCHANGED cursor
     ELSE /\ cursor' = [ pos |-> cursor.pos + 4 * claimed,
                         at  |-> IF at = "ip" THEN "tcp" ELSE "payload" ]
          /\ result' = 4 * claimed
  /\ UNCHANGED <<pkt, arrived, pushed>>

parse_iphdr  == ParseSized("ip", pkt.words)
parse_tcphdr == \E w \in HeaderWords : ParseSized("tcp", w)
-----------------------------------------------------------------------------
(* The head of the packet moves by one tag, the Ethernet header is copied  *)
(* to where it begins now, and the cursor has to start again.              *)
vlan_tag_push(tci) ==
  /\ Len(pkt.tags) < MaxTags /\ pkt.len >= EthLen
  /\ pkt' = [pkt EXCEPT !.tags = <<tci>> \o @, !.len = @ + TagLen]
  /\ pushed' = <<tci>> \o pushed
  /\ result' = 0
  /\ cursor' = Unparsed
  /\ UNCHANGED arrived

(* Mutant: the copy of the Ethernet header keeps the protocol of the tag,  *)
(* so that the next tag is not taken for one.                              *)
vlan_tag_popKeep ==
  /\ pkt.tags # <<>>
  /\ IF pkt.len < EthLen + TagLen
     THEN result' = -1 /\ UNCHANGED <<pkt, cursor, pushed>>
     ELSE /\ pkt' = [pkt EXCEPT !.tags = Tail(@), !.len = @ - TagLen, !.proto = "vlan"]
          /\ pushed' = IF pushed = <<>> THEN <<>> ELSE Tail(pushed)
          /\ result' = Head(pkt.tags)
          /\ cursor' = Unparsed
  /\ UNCHANGED arrived

vlan_tag_pop ==
  /\ pkt.tags # <<>>
  /\ IF pkt.len < EthLen + TagLen
     THEN result' = -1 /\ UNCHANGED <<pkt, cursor, pushed>>
     ELSE /\ pkt' = [pkt EXCEPT !.tags = Tail(@), !.len = @ - TagLen]
          /\ pushed' = IF pushed = <<>> THEN <<>> ELSE Tail(pushed)
          /\ result' = Head(pkt.tags)
          /\ cursor' = Unparsed
  /\ UNCHANGED arrived

SwapMacs ==
  /\ pkt.len >= EthLen
  /\ pkt' = [pkt EXCEPT !.macs = Reverse(@)]
  /\ UNCHANGED <<cursor, result, arrived, pushed>>

PacketsNext ==
  \/ parse_ethhdr \/ ParseFixed \/ parse_iphdr \/ parse_tcphdr
  \/ vlan_tag_pop \/ (\E t \in Tcis : vlan_tag_push(t)) \/ SwapMacs

PacketsSpec == PacketsInit /\ [][PacketsNext]_xvars
-----------------------------------------------------------------------------
(* No parser leaves the cursor behind the end of the packet.               *)
CursorInside == cursor.pos <= pkt.len

(***************************************************************************)
(* Tags come off in the reverse of the order they went on, and when all    *)
(* that was pushed is popped the packet is the one that arrived, or that   *)
(* packet with its own outer tags off.                                     *)
(***************************************************************************)
PushPopNested ==
  \E own \in 0..Len(arrived.tags) :
    /\ pkt.tags = pushed \o SubSeq(arrived.tags, own + 1, Len(arrived.tags))
    /\ pkt.len = arrived.len + TagLen * (Len(pushed) - own)
    /\ pkt.proto = arrived.proto

(* The helpers together: options that mean what their help says, parsers   *)
(* that stay inside the packet, tags that nest.                            *)
HelpersSound == LastModeWins /\ CursorInside /\ PushPopNested
=============================================================================
