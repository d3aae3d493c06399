----------------------------- MODULE NewIPSenders -----------------------------
(***************************************************************************)
(* The programs that make New IP packets, which share what they know of    *)
(* the network and nothing else: one that fills and reuses a Sender object *)
(* of New_IP/sender.py, and examples/lbf_forwarder.py.                     *)
(***************************************************************************)
EXTENDS NewIPNetwork, FiniteSetsExt, SequencesExt

(***************************************************************************)
(* One Sender object, and the lists of contracts its program keeps and     *)
(* gives to it, any number of times.  A call that raises leaves the object *)
(* as it was and ends its caller.                                          *)
(***************************************************************************)
CONSTANTS
  Lists,       \* the program's own lists of contracts, as they are made
  MaxSends,    \* bound: packets sent
  MaxContracts \* bound: contracts collected for one packet, and calls that do it

SenderContracts == {Mdf, Lbf, Ping(0, 7)}
SenderAssumption == Lists \in Seq(Seq(SenderContracts))

VARIABLES
  ship,       \* make_packet was called
  contracts,  \* self.contracts, <<>> for None
  lists,      \* the program's lists, as set_contract leaves them
  error,      \* what the last call raised
  calls,      \* history: the calls that added contracts since the last packet
  shown       \* history: the contracts of every packet sent, and its calls

svars == <<ship, contracts, lists, error, calls, shown>>

NoError == "none"

SenderInit ==
  /\ ship = FALSE /\ contracts = <<>> /\ lists = Lists /\ error = NoError
  /\ calls = <<>> /\ shown = <<>>

make_packet ==
  /\ error = NoError
  /\ ship' = TRUE
  /\ UNCHANGED <<contracts, lists, error, calls, shown>>

(* Only a ping has no default parameters: it needs a timestamp.            *)
insert_contract(c, params) ==
  /\ error = NoError /\ Len(calls) < MaxContracts /\ Len(contracts) < MaxContracts
  /\ IF c.type = PING /\ ~params
     THEN error' = "IndexError" /\ UNCHANGED <<contracts, calls>>
     ELSE /\ contracts' = Append(contracts, c)
          /\ calls' = Append(calls, [list |-> 0, given |-> <<c>>])
          /\ UNCHANGED error
  /\ UNCHANGED <<ship, lists, shown>>

(***************************************************************************)
(* A list is never the empty list by identity, so the warning is not       *)
(* reached.  With no contract yet the first of the list is taken out of    *)
(* it, for good; the rest of it is stacked behind.                         *)
(***************************************************************************)
set_contract(l) ==
  /\ error = NoError
  /\ Len(calls) < MaxContracts /\ Len(contracts) + Len(lists[l]) <= MaxContracts
  /\ IF contracts = <<>> /\ lists[l] = <<>>
     THEN error' = "IndexError" /\ UNCHANGED <<contracts, lists, calls>>
     ELSE /\ contracts' = contracts \o lists[l]
          /\ lists' = IF contracts = <<>> THEN [lists EXCEPT ![l] = Tail(@)] ELSE lists
          /\ calls' = Append(calls, [list |-> l, given |-> Lists[l]])
          /\ UNCHANGED error
  /\ UNCHANGED <<ship, shown>>

(* Mutant: the contracts stay for the next packet. *)
send_packetKeep ==
  /\ error = NoError /\ Len(shown) < MaxSends
  /\ IF ship
     THEN /\ shown' = Append(shown, [sent |-> contracts, calls |-> calls])
          /\ calls' = <<>>
          /\ UNCHANGED <<error, contracts>>
     ELSE error' = "AttributeError" /\ UNCHANGED <<shown, contracts, calls>>
  /\ UNCHANGED <<ship, lists>>

send_packet ==
  /\ error = NoError /\ Len(shown) < MaxSends
  /\ IF ship
     THEN /\ shown' = Append(shown, [sent |-> contracts, calls |-> calls])
          /\ contracts' = <<>>
          /\ calls' = <<>>
          /\ UNCHANGED error
     ELSE error' = "AttributeError" /\ UNCHANGED <<shown, contracts, calls>>
  /\ UNCHANGED <<ship, lists>>

SenderNext ==
  \/ make_packet \/ send_packet
  \/ \E l \in DOMAIN Lists : set_contract(l)
  \/ \E c \in SenderContracts, p \in BOOLEAN : insert_contract(c, p)

SenderSpec == SenderInit /\ [][SenderNext]_svars
-----------------------------------------------------------------------------
(* How many of the first n packets began with list l.                      *)
Begun(l, n) ==
  Cardinality({i \in 1..n : shown[i].calls # <<>> /\ shown[i].calls[1].list = l})

(* What the k-th call of packet i was given and its program expects sent:  *)
(* the list it made, without the contracts that packets before took out.   *)
Due(i, k) ==
  LET call == shown[i].calls[k]
      gone == IF call.list = 0 THEN 0 ELSE Begun(call.list, IF k = 1 THEN i - 1 ELSE i)
  IN  SubSeq(call.given, gone + 1, Len(call.given))

(***************************************************************************)
(* Whatever the order in which a program fills and reuses a Sender, every  *)
(* packet carries all contracts given for it and none of an earlier one,   *)
(* in order.  A list given again is short of one contract, its first, for  *)
(* each packet it began, this one included, and of no other.               *)
(***************************************************************************)
SendersSound ==
  \A i \in DOMAIN shown :
    shown[i].sent = FlattenSeq([k \in DOMAIN shown[i].calls |-> Due(i, k)])

-----------------------------------------------------------------------------
(***************************************************************************)
(* lbf_forwarder: one process for each source host, forked                 *)
(* from the same object, so that each has the lists of destinations and    *)
(* of address types for itself.  Every process sends its share of the      *)
(* packets, each of a kind, to a destination and between address types     *)
(* drawn at random; of these only the kind and the list it is to draw from *)
(* decide what the process does next.                                      *)
(***************************************************************************)
CONSTANTS
  Src, Dst,      \* --src and --dst
  SrcTypes,      \* the lists tried for --src-type
  DstTypes,      \* --dst-type
  PacketTypes,   \* of "ping", "li", "lbf", "nolbf"
  PktCount       \* --pkt-count

ForwarderAssumption ==
  /\ Src \subseteq Hosts /\ Src # {} /\ Dst \subseteq Hosts
  /\ PacketTypes # {} /\ {} \notin SrcTypes /\ DstTypes # {}

VARIABLES
  given,  \* --src-type as it was given
  left,   \* packets a source has still to send; it starts when its process does
  types,  \* its src_addr_type list
  dead,   \* its process ended with an exception
  pkts    \* history: the packets it sent

fvars == <<given, left, types, dead, pkts>>

(* A source without another host to send to sends nothing.                 *)
DstOf(s) == Dst \ {s}

Share == Max({PktCount \div Cardinality(Src), 1})

ForwarderInit ==
  /\ left = [s \in Src |-> IF DstOf(s) = {} THEN 0 ELSE Share]
  /\ given \in SrcTypes
  /\ types = [s \in Src |-> given]
  /\ dead = [s \in Src |-> FALSE]
  /\ pkts = [s \in Src |-> 0]

(* Mutant: the loop skips every second index. *)
SendPacketSkip(s) ==
  /\ pkts' = [pkts EXCEPT ![s] = @ + 1]
  /\ left' = [left EXCEPT ![s] = Max({@ - 2, 0})]

SendPacket(s) ==
  /\ pkts' = [pkts EXCEPT ![s] = @ + 1]
  /\ left' = [left EXCEPT ![s] = @ - 1]

(* create_ping_pkt, and create_lbf_pkt with or without its contract.       *)
CreateNewIP(s) ==
  /\ left[s] > 0 /\ ~dead[s]
  /\ types[s] # {} /\ PacketTypes \ {"li"} # {}
  /\ SendPacket(s)
  /\ UNCHANGED <<given, types, dead>>

(* random.choice of an empty list raises.                                  *)
CreateNoType(s) ==
  /\ left[s] > 0 /\ ~dead[s]
  /\ types[s] \subseteq {"8bit"} /\ "li" \in PacketTypes
  /\ dead' = [dead EXCEPT ![s] = TRUE]
  /\ types' = [types EXCEPT ![s] = {}]
  /\ UNCHANGED <<given, left, pkts>>

(* create_legacyip_pkt takes "8bit" out of the list for good.              *)
create_legacyip_pkt(s) ==
  /\ left[s] > 0 /\ ~dead[s]
  /\ "li" \in PacketTypes
  /\ types' = [types EXCEPT ![s] = @ \ {"8bit"}]
  /\ types'[s] # {}
  /\ SendPacket(s)
  /\ UNCHANGED <<given, dead>>

Sends(s) == CreateNewIP(s) \/ CreateNoType(s) \/ create_legacyip_pkt(s)
ForwarderNext == \E s \in Src : Sends(s)

ForwarderSpec == ForwarderInit /\ [][ForwarderNext]_fvars

ForwarderFairSpec == ForwarderSpec /\ \A s \in Src : WF_fvars(Sends(s))
-----------------------------------------------------------------------------
(***************************************************************************)
(* Every source with somebody to send to ends having sent its share, or    *)
(* dies at a legacy packet because it was given no type but "8bit".        *)
(***************************************************************************)
EverySourceEnds ==
  <>[](\A s \in Src : DstOf(s) # {} =>
          \/ pkts[s] = Share
          \/ dead[s] /\ given \subseteq {"8bit"} /\ "li" \in PacketTypes)
=============================================================================
