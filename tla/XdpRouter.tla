------------------------------ MODULE XdpRouter ------------------------------
(***************************************************************************)
(* The router programs of one or more interfaces: xdp_router_func at the   *)
(* XDP hook, tc_router_func at the TC ingress hook, and xdp_prog_user,     *)
(* which fills the table of 8-bit addresses of an interface while frames   *)
(* already arrive.                                                         *)
(*                                                                         *)
(* Each hook runs to completion on one frame.  Between the two hooks of a  *)
(* frame other frames pass and tables change; what the first tells the     *)
(* second lies in the metadata before the frame.                           *)
(***************************************************************************)
EXTENDS Integers, Sequences, SequencesExt

CONSTANTS
  Frames,   \* frames on their way
  Ifaces,   \* interfaces of the routers, i.e. their indices
  NoIf,     \* index 0, or one no interface has
  Routes,   \* <<interface, 8-bit address, interface>>: xdp_prog_user's argument
  NoMeta,   \* interfaces whose driver may refuse room in front of a frame
  FibAnswers(_, _)  \* what bpf_fib_lookup may answer at an interface for a frame

RouterAssumption ==
  /\ NoIf \notin Ifaces
  /\ \A r \in Routes : r[1] \in Ifaces /\ r[3] \in Ifaces

VARIABLES
  stage,    \* where each frame is
  at,       \* the interface it arrived on
  hdr,      \* its headers
  meta,     \* meta_info.ifindex in front of it
  verdict,  \* what the XDP program returned
  row,      \* the row of xdp_stats_map it was counted in
  egress,   \* the interface it was redirected to
  table,    \* static_redirect_8b of every interface, a set of pairs
  looked    \* history: the interface the XDP program looked up for it

frameVars == <<stage, at, hdr, meta, verdict, row, egress, looked>>
rvars == <<frameVars, table>>

Verdicts == {"aborted", "drop", "pass"}

(***************************************************************************)
(* New IP packets as New_IP/newip_hdr.py lays them out and                 *)
(* New_IP/sender.py fills them in.                                         *)
(*                                                                         *)
(* A frame keeps the fields somebody reads: the three offsets, the types   *)
(* of the two addresses, the destination, the list of contracts, and `len`,*)
(* the number of bytes behind the Ethernet header.  A contract is a record *)
(* with its type; a ping has its code, hops and timestamp as well.         *)
(***************************************************************************)
V4 == 0
V6 == 1
B8 == 2

AddrTypes == {V4, V6, B8}

MDF  == 1
LBF  == 2
PING == 3

OffsetLen == 3

(* Bytes of an address; a type nobody knows has none (xdp_prog_kern.c:166). *)
AddrLen(type) == CASE type = V4 -> 4
                   [] type = V6 -> 16
                   [] type = B8 -> 1
                   [] OTHER -> 0

ShipLen(src_type, dst_type) == 3 + AddrLen(src_type) + AddrLen(dst_type)

ContractLen(c) == CASE c.type = MDF  -> 6
                    [] c.type = LBF  -> 12
                    [] c.type = PING -> 14

Mdf        == [type |-> MDF]
Lbf        == [type |-> LBF]
Ping(code, ts) == [type |-> PING, code |-> code, hops |-> 255, timestamp |-> ts]

ContractsLen(cs) == FoldLeft(LAMBDA n, c : n + ContractLen(c), 0, cs)

Frame(src_type, src, dst_type, dst, cs, content) ==
  LET ship == OffsetLen + ShipLen(src_type, dst_type)
  IN  [ eth |-> "newip", so |-> OffsetLen, co |-> IF cs = <<>> THEN 0 ELSE ship,
        po |-> ship + ContractsLen(cs), src_type |-> src_type, src |-> src,
        dst_type |-> dst_type, dst |-> dst, contracts |-> cs,
        len |-> ship + ContractsLen(cs) + content ]

(***************************************************************************)
(* Parsing.  Every access is preceded by a comparison with data_end; the   *)
(* shipping spec is found through shipping_offset, the addresses are       *)
(* expected right behind a header of fixed size.                           *)
(***************************************************************************)
Has(f, upto) == upto <= hdr[f].len

DstAt(f) == 3 + OffsetLen + AddrLen(hdr[f].src_type)

ShippingOk(f) ==
  /\ Has(f, 3)
  /\ Has(f, hdr[f].so + 3)
  /\ hdr[f].dst_type \in AddrTypes
  /\ Has(f, DstAt(f) + AddrLen(hdr[f].dst_type))

(***************************************************************************)
(* A contract is expected whenever contract_offset < payload_offset, and   *)
(* its type is the first 16 bits there in network order.  Without one the  *)
(* offset is 0 and those bits are the two offsets themselves.              *)
(***************************************************************************)
HasContract(f) == hdr[f].co < hdr[f].po

(* Mutant: the bytes are taken in the order of the host. *)
ContractTypeSwapped(f) ==
  IF hdr[f].co = 0 THEN hdr[f].so + 256 * hdr[f].co ELSE hdr[f].contracts[1].type

ContractType(f) ==
  IF hdr[f].co = 0 THEN 256 * hdr[f].so + hdr[f].co ELSE hdr[f].contracts[1].type

(* sizeof(struct ping_contract) counts two bytes of padding. *)
SizeofContract(type) == CASE type = PING -> 16 [] type = MDF -> 6 [] OTHER -> 2

ContractFits(f) ==
  HasContract(f) =>
    /\ Has(f, hdr[f].co + 2)
    /\ Has(f, hdr[f].co + SizeofContract(ContractType(f)))

(***************************************************************************)
(* The header after the contract was processed: a ping loses one hop.  The *)
(* hops of a ping taken for one at offset 0 would be the two bytes of the  *)
(* destination type and the cast, which is always 0.                       *)
(***************************************************************************)
Processed(f) ==
  IF HasContract(f) /\ ContractType(f) = PING
  THEN IF hdr[f].contracts = <<>>
       THEN [hdr[f] EXCEPT !.dst_type = (@ - 1) % 256]
       ELSE [hdr[f] EXCEPT !.contracts[1].hops = (@ - 1) % 65536]
  ELSE hdr[f]

-----------------------------------------------------------------------------
(***************************************************************************)
(* How xdp_router_func returns: its verdict, and the row it is counted in. *)
(* Only a return by way of `out` asks xdp_stats_record_action; those that   *)
(* return XDP_ABORTED by themselves leave no trace in the map.             *)
(***************************************************************************)
Returns(f, v, r) ==
  /\ verdict' = [verdict EXCEPT ![f] = v]
  /\ row' = [row EXCEPT ![f] = r]
  /\ stage' = [stage EXCEPT ![f] = IF v = "pass" THEN "ingress" ELSE "dropped"]
  /\ UNCHANGED <<at, egress, table>>

(* bpf_xdp_adjust_meta makes room in front of the frame and leaves there   *)
(* whatever the headroom held; only a lookup writes the index.             *)
Unwritten(f) == /\ \E m \in Ifaces \cup {NoIf} : meta' = [meta EXCEPT ![f] = m]
                /\ looked' = [looked EXCEPT ![f] = NoIf]

Written(f, i) == /\ meta' = [meta EXCEPT ![f] = i]
                 /\ looked' = [looked EXCEPT ![f] = i]

(* Without that room the program returns at once, whatever the frame is.   *)
XdpNoMeta(f) ==
  /\ stage[f] = "xdp" /\ at[f] \in NoMeta
  /\ Returns(f, "aborted", "none")
  /\ UNCHANGED <<hdr, meta, looked>>

XdpOther(f) ==
  /\ stage[f] = "xdp"
  /\ hdr[f].eth = "other"
  /\ Returns(f, "pass", "pass")
  /\ Unwritten(f)
  /\ UNCHANGED hdr

XdpMalformed(f) ==
  /\ stage[f] = "xdp"
  /\ hdr[f].eth = "newip"
  /\ \/ ~ShippingOk(f)
     \/ /\ ~ContractFits(f)
        /\ hdr[f].dst_type = B8 => \E p \in table[at[f]] : p[1] = hdr[f].dst
  /\ Returns(f, "drop", "drop")
  /\ UNCHANGED <<hdr, meta, looked>>

Xdp8bNoEntry(f) ==
  /\ stage[f] = "xdp"
  /\ hdr[f].eth = "newip" /\ ShippingOk(f)
  /\ hdr[f].dst_type = B8
  /\ \A p \in table[at[f]] : p[1] # hdr[f].dst
  /\ Returns(f, "aborted", "none")
  /\ UNCHANGED <<hdr, meta, looked>>

Xdp8b(f) ==
  /\ stage[f] = "xdp"
  /\ hdr[f].eth = "newip" /\ ShippingOk(f) /\ ContractFits(f)
  /\ hdr[f].dst_type = B8
  /\ \E p \in table[at[f]] : p[1] = hdr[f].dst /\ Written(f, p[2])
  /\ hdr' = [hdr EXCEPT ![f] = Processed(f)]
  /\ Returns(f, "pass", "pass")

(***************************************************************************)
(* The kernel's answer: a success with an interface, one of the three      *)
(* answers that drop, or one of those that pass, an error included.        *)
(***************************************************************************)
XdpFib(f) ==
  /\ stage[f] = "xdp"
  /\ hdr[f].eth = "newip" /\ ShippingOk(f) /\ ContractFits(f)
  /\ hdr[f].dst_type \in {V4, V6}
  /\ hdr' = [hdr EXCEPT ![f] = Processed(f)]
  /\ \E a \in FibAnswers(at[f], hdr[f]) :
       \/ a.rc = "success" /\ Returns(f, "pass", "pass") /\ Written(f, a.ifindex)
       \/ a.rc \in {"blackhole", "unreachable", "prohibit"}
            /\ Returns(f, "drop", "drop") /\ UNCHANGED <<meta, looked>>
       \/ a.rc \in {"not_fwded", "fwd_disabled", "unsupp_lwt", "no_neigh",
                    "frag_needed", "error"}
            /\ Returns(f, "pass", "pass") /\ Unwritten(f)

(***************************************************************************)
(* tc_router_func redirects every New IP frame to the index it finds, and  *)
(* leaves other frames to the kernel.  The metadata is always there: the   *)
(* XDP program made room for it on the same frame.                         *)
(***************************************************************************)
TcOther(f) ==
  /\ stage[f] = "ingress"
  /\ hdr[f].eth # "newip"
  /\ stage' = [stage EXCEPT ![f] = "stack"]
  /\ UNCHANGED <<at, hdr, meta, verdict, row, egress, table, looked>>

TcRedirect(f) ==
  /\ stage[f] = "ingress"
  /\ hdr[f].eth = "newip"
  /\ egress' = [egress EXCEPT ![f] = meta[f]]
  /\ stage' = [stage EXCEPT ![f] = IF meta[f] = NoIf THEN "dropped" ELSE "egress"]
  /\ UNCHANGED <<at, hdr, meta, verdict, row, table, looked>>

(***************************************************************************)
(* xdp_prog_user writes one route after the other.  The five characters it *)
(* copies are not terminated, so that the name it looks up may have more   *)
(* on the stack behind them; an unknown name is index 0, which is written  *)
(* like any other.                                                         *)
(***************************************************************************)

WriteRoute(i) ==
  /\ \E r \in Routes, to \in Ifaces \cup {NoIf} :
       /\ r[1] = i /\ to \in {r[3], NoIf}
       /\ table' = [table EXCEPT ![i] =
                      {p \in @ : p[1] # r[2]} \cup {<<r[2], to>>}]
  /\ UNCHANGED frameVars

Router(f) == \/ XdpNoMeta(f) \/ XdpOther(f) \/ XdpMalformed(f) \/ Xdp8bNoEntry(f)
             \/ Xdp8b(f) \/ XdpFib(f) \/ TcOther(f) \/ TcRedirect(f)

-----------------------------------------------------------------------------
(* The programs by themselves: every frame arrives once, at any interface. *)
CONSTANT Headers  \* headers of the frames that arrive

RouterInit ==
  /\ stage = [f \in Frames |-> "away"]
  /\ at \in [Frames -> Ifaces]
  /\ hdr \in [Frames -> Headers]
  /\ meta = [f \in Frames |-> NoIf]
  /\ verdict = [f \in Frames |-> "pass"]
  /\ row = [f \in Frames |-> "none"]
  /\ egress = [f \in Frames |-> NoIf]
  /\ looked = [f \in Frames |-> NoIf]
  /\ table = [i \in Ifaces |-> {}]

Arrive(f) ==
  /\ stage[f] = "away"
  /\ stage' = [stage EXCEPT ![f] = "xdp"]
  /\ UNCHANGED <<at, hdr, meta, verdict, row, egress, table, looked>>

RouterNext == \/ \E f \in Frames : Arrive(f) \/ Router(f)
              \/ \E i \in Ifaces : WriteRoute(i)

RouterSpec == RouterInit /\ [][RouterNext]_rvars

(* What newip_hdr.py and sender.py make of a New IP packet: no contract    *)
(* offset without a contract, with one the offset behind the shipping      *)
(* spec, and the payload behind the contracts.  Frames may be cut.  A      *)
(* lookup that succeeds gives an interface.                                *)
Built(h) ==
  /\ "eth" \in DOMAIN h
  /\ h.so = OffsetLen
  /\ h.src_type \in AddrTypes /\ h.dst_type \in AddrTypes
  /\ h.po \in Nat /\ h.len \in Nat
  /\ IF h.contracts = <<>>
     THEN h.co = 0 /\ h.po = OffsetLen + ShipLen(h.src_type, h.dst_type)
     ELSE /\ h.co = OffsetLen + ShipLen(h.src_type, h.dst_type)
          /\ h.contracts[1].type \in {MDF, LBF, PING}
          /\ h.po >= h.co + ContractLen(h.contracts[1])

HeadersAssumption ==
  /\ \A h \in Headers : h.eth = "other" \/ (h.eth = "newip" /\ Built(h))
  /\ \A i \in Ifaces, h \in {g \in Headers : g.eth = "newip"} :
       \A a \in FibAnswers(i, h) : a.rc = "success" => a.ifindex \in Ifaces
-----------------------------------------------------------------------------
Stages == {"away", "xdp", "ingress", "egress", "stack", "dropped"}

(* Frames stay frames: every field of a frame keeps its type, whatever the *)
(* two programs write into it.                                             *)
RouterTypeOK ==
  /\ stage \in [Frames -> Stages]
  /\ at \in [Frames -> Ifaces]
  /\ meta \in [Frames -> Ifaces \cup {NoIf}]
  /\ egress \in [Frames -> Ifaces \cup {NoIf}]
  /\ looked \in [Frames -> Ifaces \cup {NoIf}]
  /\ verdict \in [Frames -> Verdicts]
  /\ row \in [Frames -> Verdicts \cup {"none"}]
  /\ \A f \in Frames : egress[f] = NoIf <=> stage[f] # "egress"
  /\ \A i \in Ifaces : \A p, q \in table[i] : p[1] = q[1] => p = q

(***************************************************************************)
(* A frame a lookup found an interface for leaves through that interface:  *)
(* neither the frames that pass between its two hooks nor a table that is  *)
(* being rewritten can divert it.                                          *)
(***************************************************************************)
LeavesWhereLookedUp ==
  \A f \in Frames : stage[f] = "egress" /\ looked[f] # NoIf => egress[f] = looked[f]

(***************************************************************************)
(* A frame without a contract leaves as it came: the offsets the programs  *)
(* read in place of a contract never pass for a ping.                      *)
(***************************************************************************)
NoContractUntouchedStep ==
  \A f \in Frames : hdr[f].contracts = <<>> => hdr'[f] = hdr[f]

(***************************************************************************)
(* A frame a New IP sender built, with something in it, is dropped only    *)
(* for want of a route: no bounds check fails on it.                       *)
(***************************************************************************)
Complete(f) ==
  /\ hdr[f].eth = "newip"
  /\ hdr[f].len >= hdr[f].po + 2
  /\ hdr[f].dst_type \in AddrTypes

CompleteNeverMalformedStep ==
  \A f \in Frames :
    Complete(f) /\ stage[f] = "xdp" /\ verdict'[f] = "drop" /\ stage'[f] = "dropped"
      => hdr[f].dst_type \in {V4, V6} /\ ContractFits(f)

(* No New IP frame reaches the kernel's own stack on a router.             *)
NewIPStaysOut == \A f \in Frames : stage[f] = "stack" => hdr[f].eth = "other"

(* What the two programs promise of every frame: the three state           *)
(* predicates and the two steps above.                                     *)
RouterSafe == RouterTypeOK /\ LeavesWhereLookedUp /\ NewIPStaysOut
RouterStep == NoContractUntouchedStep /\ CompleteNeverMalformedStep
RouterRight == []RouterSafe /\ [][RouterStep]_rvars
=============================================================================
