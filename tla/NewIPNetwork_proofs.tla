------------------------- MODULE NewIPNetwork_proofs -------------------------
(***************************************************************************)
(* The router programs and the network they make up, for any number of     *)
(* frames, interfaces, hosts and receivers; and that the delay windows of  *)
(* LbfPath keep a contract end to end, for every contract, every chain and *)
(* every clock resolution.                                                 *)
(***************************************************************************)
EXTENDS LbfPath, LbfLemmas, NewIPNetwork, FiniteSetTheorems, TLAPS

(* One contract takes its own bytes. *)
LEMMA MaxOne == ASSUME NEW n \in Int PROVE Max({n}) = n
  BY DEF Max

LEMMA LenOfOne == ASSUME NEW c PROVE ContractsLen(<<c>>) = 0 + ContractLen(c)
<1> DEFINE Folds(g) == g = [s \in SUBSET {1} |-> IF s = {} THEN 0
                              ELSE g[s \ {Max(s)}] + ContractLen(<<c>>[Max(s)])]
<1> DEFINE f == [s \in SUBSET {1} |-> IF s = {} THEN 0 ELSE 0 + ContractLen(c)]
<1>1. DOMAIN <<c>> = {1}
  OBVIOUS
<1>2. Max({1}) = 1
  BY MaxOne
<1>3. Folds(f)
  <2> SUFFICES ASSUME NEW s \in SUBSET {1}, s # {}
               PROVE  f[s \ {Max(s)}] + ContractLen(<<c>>[Max(s)]) = 0 + ContractLen(c)
    OBVIOUS
  <2>1. s = {1} /\ Max(s) = 1
    BY <1>2
  <2>2. s \ {Max(s)} = {} /\ <<c>>[Max(s)] = c
    BY <2>1
  <2> QED
    BY <2>2
<1>4. ASSUME NEW g, Folds(g) PROVE g[{1}] = 0 + ContractLen(c)
  <2>1. {1} \in SUBSET {1} /\ {} \in SUBSET {1} /\ {1} # {} /\ {1} \ {1} = {} /\ <<c>>[1] = c
    OBVIOUS
  <2>2. g[{}] = 0
    BY <1>4, <2>1
  <2>3. g[{1}] = g[{1} \ {Max({1})}] + ContractLen(<<c>>[Max({1})])
    BY <1>4, <2>1
  <2> QED
    BY <2>1, <2>2, <2>3, <1>2
<1>5. ContractsLen(<<c>>) = (CHOOSE g : Folds(g))[{1}]
  BY <1>1, Zenon DEF ContractsLen, FoldLeft, MapThenFoldSet
<1>6. Folds(CHOOSE g : Folds(g))
  BY <1>3, Zenon
<1> HIDE DEF Folds
<1> QED
  BY <1>4, <1>5, <1>6

-----------------------------------------------------------------------------
(***************************************************************************)
(* The programs of a router by themselves.  Between its two hooks a frame  *)
(* keeps what the lookup wrote in front of it, and until its first hook    *)
(* the header it arrived with.                                             *)
(***************************************************************************)
TableTyped ==
  /\ table = [i \in Ifaces |-> table[i]]
  /\ \A i \in Ifaces : \A p \in table[i] : p[2] \in Ifaces \cup {NoIf}

MetaKept ==
  \A f \in Frames : stage[f] = "ingress" /\ looked[f] # NoIf => meta[f] = looked[f]

Fresh ==
  /\ hdr = [f \in Frames |-> hdr[f]]
  /\ \A f \in Frames : stage[f] \in {"away", "xdp"} => hdr[f] \in Headers

Kinds == \A f \in Frames : hdr[f].eth \in {"newip", "other"}

RInv == RouterTypeOK /\ TableTyped /\ MetaKept /\ Fresh /\ Kinds /\ LeavesWhereLookedUp /\ NewIPStaysOut

(* A lookup at f's interface succeeds with an interface only.              *)
FibGivesIface(f) == \A a \in FibAnswers(at[f], hdr[f]) : a.rc = "success" => a.ifindex \in Ifaces

(* What no hook changes. *)
LEMMA RouterFrame ==
  ASSUME NEW f \in Frames, Router(f)
  PROVE  table' = table /\ at' = at
  BY DEF Router, XdpNoMeta, XdpOther, XdpMalformed, Xdp8bNoEntry, Xdp8b, XdpFib,
         TcOther, TcRedirect, Returns

(* What a hook at XDP does to the frame it runs on, and to no other. *)
XdpSteps(f) == XdpNoMeta(f) \/ XdpOther(f) \/ XdpMalformed(f) \/ Xdp8bNoEntry(f) \/ Xdp8b(f) \/ XdpFib(f)

Answered(f, v, r) ==
  /\ v \in Verdicts /\ r \in Verdicts \cup {"none"}
  /\ Returns(f, v, r)
  /\ \E m, l \in Ifaces \cup {NoIf} :
       /\ meta' = [meta EXCEPT ![f] = m] /\ looked' = [looked EXCEPT ![f] = l]
       /\ v = "pass" /\ l # NoIf => m = l

LEMMA XdpAnswers ==
  ASSUME NEW f \in Frames, RouterAssumption, RouterTypeOK, TableTyped, XdpSteps(f),
         stage[f] = "xdp" /\ hdr[f].eth # "other" /\ hdr[f].dst_type # B8 => FibGivesIface(f)
  PROVE  \E v, r : Answered(f, v, r)
<1>1. meta[f] \in Ifaces \cup {NoIf} /\ looked[f] \in Ifaces \cup {NoIf} /\ at[f] \in Ifaces
  BY DEF RouterTypeOK
<1>2. meta = [meta EXCEPT ![f] = meta[f]] /\ looked = [looked EXCEPT ![f] = looked[f]]
  BY DEF RouterTypeOK
<1>3. ASSUME UNCHANGED <<meta, looked>>
      PROVE  \E m, l \in Ifaces \cup {NoIf} :
               meta' = [meta EXCEPT ![f] = m] /\ looked' = [looked EXCEPT ![f] = l]
  BY <1>1, <1>2, <1>3
<1>4. ASSUME Unwritten(f)
      PROVE  \E m, l \in Ifaces \cup {NoIf} :
               /\ meta' = [meta EXCEPT ![f] = m] /\ looked' = [looked EXCEPT ![f] = l]
               /\ l # NoIf => m = l
  BY <1>4 DEF Unwritten
<1>5. ASSUME NEW i \in Ifaces \cup {NoIf}, Written(f, i)
      PROVE  \E m, l \in Ifaces \cup {NoIf} :
               /\ meta' = [meta EXCEPT ![f] = m] /\ looked' = [looked EXCEPT ![f] = l]
               /\ l # NoIf => m = l
  BY <1>5 DEF Written
<1>6. CASE XdpOther(f)
  <2>1. Returns(f, "pass", "pass") /\ Unwritten(f)
    BY <1>6 DEF XdpOther
  <2> QED
    BY <2>1, <1>4 DEF Answered, Verdicts
<1>7. CASE XdpMalformed(f)
  <2>1. Returns(f, "drop", "drop") /\ UNCHANGED <<meta, looked>>
    BY <1>7 DEF XdpMalformed
  <2> QED
    BY <2>1, <1>3 DEF Answered, Verdicts
<1>8. CASE Xdp8bNoEntry(f)
  <2>1. Returns(f, "aborted", "none") /\ UNCHANGED <<meta, looked>>
    BY <1>8 DEF Xdp8bNoEntry
  <2> QED
    BY <2>1, <1>3 DEF Answered, Verdicts
<1>9. CASE Xdp8b(f)
  <2>1. PICK p \in table[at[f]] : Written(f, p[2])
    BY <1>9 DEF Xdp8b
  <2>2. Returns(f, "pass", "pass")
    BY <1>9 DEF Xdp8b
  <2>3. p[2] \in Ifaces \cup {NoIf}
    BY <1>1 DEF TableTyped
  <2> QED
    BY <2>1, <2>2, <2>3, <1>5 DEF Answered, Verdicts
<1>10. CASE XdpFib(f)
  <2>1. PICK a \in FibAnswers(at[f], hdr[f]) :
          \/ a.rc = "success" /\ Returns(f, "pass", "pass") /\ Written(f, a.ifindex)
          \/ Returns(f, "drop", "drop") /\ UNCHANGED <<meta, looked>>
          \/ Returns(f, "pass", "pass") /\ Unwritten(f)
    BY <1>10 DEF XdpFib
  <2>2. a.rc = "success" => a.ifindex \in Ifaces
    BY <1>10 DEF XdpFib, FibGivesIface, V4, V6, B8
  <2>3. CASE Returns(f, "pass", "pass") /\ Written(f, a.ifindex) /\ a.rc = "success"
    BY <2>2, <2>3, <1>5 DEF Answered, Verdicts
  <2>4. CASE Returns(f, "drop", "drop") /\ UNCHANGED <<meta, looked>>
    BY <2>4, <1>3 DEF Answered, Verdicts
  <2>5. CASE Returns(f, "pass", "pass") /\ Unwritten(f)
    BY <2>5, <1>4 DEF Answered, Verdicts
  <2> QED
    BY <2>1, <2>3, <2>4, <2>5
<1>11. CASE XdpNoMeta(f)
  <2>1. Returns(f, "aborted", "none") /\ UNCHANGED <<meta, looked>>
    BY <1>11 DEF XdpNoMeta
  <2> QED
    BY <2>1, <1>3 DEF Answered, Verdicts
<1> QED
  BY <1>6, <1>7, <1>8, <1>9, <1>10, <1>11 DEF XdpSteps

(* A frame is redirected to the index in front of it. *)
LEMMA TypesKept ==
  ASSUME NEW f \in Frames, RouterAssumption, RouterTypeOK, TableTyped, Router(f),
         stage[f] = "xdp" /\ hdr[f].eth # "other" /\ hdr[f].dst_type # B8 => FibGivesIface(f)
  PROVE  RouterTypeOK' /\ TableTyped'
<1>1. table' = table /\ at' = at
  BY RouterFrame
<1>2. TableTyped'
  BY <1>1 DEF TableTyped
<1>3. CASE XdpSteps(f)
  <2>1. stage[f] = "xdp"
    BY <1>3 DEF XdpSteps, XdpNoMeta, XdpOther, XdpMalformed, Xdp8bNoEntry, Xdp8b, XdpFib
  <2>2. PICK v, r : Answered(f, v, r)
    BY <1>3, XdpAnswers
  <2>3. /\ v \in Verdicts /\ r \in Verdicts \cup {"none"}
        /\ verdict' = [verdict EXCEPT ![f] = v] /\ row' = [row EXCEPT ![f] = r]
        /\ stage' = [stage EXCEPT ![f] = IF v = "pass" THEN "ingress" ELSE "dropped"]
        /\ egress' = egress
    BY <2>2 DEF Answered, Returns
  <2>4. PICK m \in Ifaces \cup {NoIf} : \E l \in Ifaces \cup {NoIf} :
          meta' = [meta EXCEPT ![f] = m] /\ looked' = [looked EXCEPT ![f] = l]
    BY <2>2 DEF Answered
  <2>5. PICK l \in Ifaces \cup {NoIf} :
          meta' = [meta EXCEPT ![f] = m] /\ looked' = [looked EXCEPT ![f] = l]
    BY <2>4
  <2>6. stage' \in [Frames -> Stages]
    BY <2>3 DEF RouterTypeOK, Stages
  <2>7. /\ meta' \in [Frames -> Ifaces \cup {NoIf}] /\ looked' \in [Frames -> Ifaces \cup {NoIf}]
        /\ egress' \in [Frames -> Ifaces \cup {NoIf}]
    BY <2>3, <2>5 DEF RouterTypeOK
  <2>8. verdict' \in [Frames -> Verdicts] /\ row' \in [Frames -> Verdicts \cup {"none"}]
    BY <2>3 DEF RouterTypeOK
  <2>9. \A g \in Frames : egress'[g] = NoIf <=> stage'[g] # "egress"
    BY <2>1, <2>3 DEF RouterTypeOK
  <2> QED
    BY <1>1, <1>2, <2>6, <2>7, <2>8, <2>9 DEF RouterTypeOK
<1>4. CASE TcOther(f) \/ TcRedirect(f)
  <2>1. stage[f] = "ingress" /\ meta[f] \in Ifaces \cup {NoIf}
    BY <1>4 DEF TcOther, TcRedirect, RouterTypeOK
  <2>2. UNCHANGED <<meta, looked, verdict, row>>
    BY <1>4 DEF TcOther, TcRedirect
  <2>3. stage' \in [Frames -> Stages]
    BY <1>4 DEF TcOther, TcRedirect, RouterTypeOK, Stages
  <2>4. egress' \in [Frames -> Ifaces \cup {NoIf}]
    BY <1>4, <2>1 DEF TcOther, TcRedirect, RouterTypeOK
  <2>5. \A g \in Frames : egress'[g] = NoIf <=> stage'[g] # "egress"
    BY <1>4, <2>1 DEF TcOther, TcRedirect, RouterTypeOK
  <2> QED
    BY <1>1, <1>2, <2>2, <2>3, <2>4, <2>5 DEF RouterTypeOK
<1> QED
  BY <1>3, <1>4 DEF Router, XdpSteps

LEMMA RInvInit ==
  ASSUME RouterAssumption, HeadersAssumption, RouterInit
  PROVE  RInv
<1>1. RouterTypeOK
  BY DEF RouterInit, RouterTypeOK, Stages, Verdicts
<1>2. TableTyped
  BY DEF RouterInit, TableTyped
<1>3. Fresh
  BY DEF RouterInit, Fresh
<1>4. Kinds
  BY DEF RouterInit, Kinds, HeadersAssumption
<1> QED
  BY <1>1, <1>2, <1>3, <1>4 DEF RouterInit, RInv, MetaKept, LeavesWhereLookedUp, NewIPStaysOut

(* Neither program changes what kind of frame it is. *)
LEMMA KindKept ==
  ASSUME NEW f \in Frames, HeadersAssumption, Fresh, Kinds, Router(f)
  PROVE  Kinds'
<1>1. CASE hdr' = [hdr EXCEPT ![f] = Processed(f)] /\ stage[f] = "xdp" /\ hdr[f].eth = "newip"
  <2>1. hdr[f] \in Headers /\ Built(hdr[f])
    BY <1>1 DEF Fresh, HeadersAssumption
  <2>2. "eth" \in DOMAIN hdr[f]
    BY <2>1 DEF Built
  <2>3. Processed(f).eth = hdr[f].eth
    BY <2>2 DEF Processed
  <2> QED
    BY <1>1, <2>3 DEF Kinds, Fresh
<1>2. CASE hdr' = hdr
  BY <1>2 DEF Kinds
<1> QED
  BY <1>1, <1>2 DEF Router, XdpNoMeta, XdpOther, XdpMalformed, Xdp8bNoEntry, Xdp8b, XdpFib, TcOther, TcRedirect

LEMMA RInvRouter ==
  ASSUME NEW f \in Frames, RouterAssumption, HeadersAssumption, RInv, Router(f)
  PROVE  RInv'
<1> USE DEF RInv
<1>1. stage[f] = "xdp" /\ hdr[f].eth # "other" /\ hdr[f].dst_type # B8 => FibGivesIface(f)
  BY DEF HeadersAssumption, FibGivesIface, Fresh, RouterTypeOK
<1>2. RouterTypeOK' /\ TableTyped'
  BY <1>1, TypesKept
<1>K. Kinds'
  BY KindKept
<1>3. CASE XdpSteps(f)
  <2>1. stage[f] = "xdp"
    BY <1>3 DEF XdpSteps, XdpNoMeta, XdpOther, XdpMalformed, Xdp8bNoEntry, Xdp8b, XdpFib
  <2>2. PICK v, r : Answered(f, v, r)
    BY <1>1, <1>3, XdpAnswers
  <2>3. PICK m \in Ifaces \cup {NoIf} : \E l \in Ifaces \cup {NoIf} :
          /\ meta' = [meta EXCEPT ![f] = m] /\ looked' = [looked EXCEPT ![f] = l]
          /\ v = "pass" /\ l # NoIf => m = l
    BY <2>2 DEF Answered
  <2>4. PICK l \in Ifaces \cup {NoIf} :
          /\ meta' = [meta EXCEPT ![f] = m] /\ looked' = [looked EXCEPT ![f] = l]
          /\ v = "pass" /\ l # NoIf => m = l
    BY <2>3
  <2>5. /\ stage' = [stage EXCEPT ![f] = IF v = "pass" THEN "ingress" ELSE "dropped"]
        /\ egress' = egress
    BY <2>2 DEF Answered, Returns
  <2>6. \A g \in Frames : g # f => hdr'[g] = hdr[g] /\ stage'[g] = stage[g]
    BY <1>3, <2>5 DEF XdpSteps, XdpNoMeta, XdpOther, XdpMalformed, Xdp8bNoEntry, Xdp8b, XdpFib, RouterTypeOK, Fresh
  <2>7. hdr' = [g \in Frames |-> hdr'[g]]
    BY <1>3 DEF XdpSteps, XdpNoMeta, XdpOther, XdpMalformed, Xdp8bNoEntry, Xdp8b, XdpFib, Fresh
  <2>8. Fresh'
    BY <2>5, <2>6, <2>7 DEF Fresh, RouterTypeOK
  <2>9. MetaKept'
    BY <2>4, <2>5 DEF MetaKept, RouterTypeOK
  <2>10. LeavesWhereLookedUp'
    BY <2>4, <2>5 DEF LeavesWhereLookedUp, RouterTypeOK
  <2>11. NewIPStaysOut'
    BY <2>5, <2>6 DEF NewIPStaysOut, RouterTypeOK
  <2> QED
    BY <1>2, <1>K, <2>8, <2>9, <2>10, <2>11
<1>4. CASE TcOther(f)
  <2>1. stage[f] = "ingress" /\ hdr[f].eth # "newip" /\ stage' = [stage EXCEPT ![f] = "stack"]
        /\ UNCHANGED <<hdr, meta, looked, egress>>
    BY <1>4 DEF TcOther
  <2>2. Fresh' /\ MetaKept' /\ LeavesWhereLookedUp'
    BY <2>1 DEF Fresh, MetaKept, LeavesWhereLookedUp, RouterTypeOK
  <2>3. NewIPStaysOut'
    BY <2>1 DEF NewIPStaysOut, Kinds, RouterTypeOK
  <2> QED
    BY <1>2, <1>K, <2>2, <2>3
<1>5. CASE TcRedirect(f)
  <2>1. /\ stage[f] = "ingress" /\ UNCHANGED <<hdr, meta, looked>>
        /\ egress' = [egress EXCEPT ![f] = meta[f]]
        /\ stage' = [stage EXCEPT ![f] = IF meta[f] = NoIf THEN "dropped" ELSE "egress"]
    BY <1>5 DEF TcRedirect
  <2>2. Fresh' /\ MetaKept' /\ NewIPStaysOut'
    BY <2>1 DEF Fresh, MetaKept, NewIPStaysOut, RouterTypeOK
  <2>3. LeavesWhereLookedUp'
    BY <2>1 DEF LeavesWhereLookedUp, MetaKept, RouterTypeOK
  <2> QED
    BY <1>2, <1>K, <2>2, <2>3
<1> QED
  BY <1>3, <1>4, <1>5 DEF Router, XdpSteps

LEMMA RInvArrive ==
  ASSUME NEW f \in Frames, RInv, Arrive(f)
  PROVE  RInv'
<1>1. /\ stage[f] = "away" /\ stage' = [stage EXCEPT ![f] = "xdp"]
      /\ UNCHANGED <<at, hdr, meta, verdict, row, egress, table, looked>>
  BY DEF Arrive
<1>2. RouterTypeOK'
  BY <1>1 DEF RInv, RouterTypeOK, Stages
<1>3. TableTyped' /\ Fresh' /\ Kinds' /\ MetaKept'
  BY <1>1 DEF RInv, RouterTypeOK, TableTyped, Fresh, Kinds, MetaKept
<1>4. LeavesWhereLookedUp' /\ NewIPStaysOut'
  BY <1>1 DEF RInv, RouterTypeOK, LeavesWhereLookedUp, NewIPStaysOut
<1> QED
  BY <1>2, <1>3, <1>4 DEF RInv

LEMMA RInvWriteRoute ==
  ASSUME NEW i \in Ifaces, RouterAssumption, RInv, WriteRoute(i)
  PROVE  RInv'
<1>1. PICK r \in Routes, to \in Ifaces \cup {NoIf} :
        table' = [table EXCEPT ![i] = {p \in @ : p[1] # r[2]} \cup {<<r[2], to>>}]
  BY DEF WriteRoute
<1>2. UNCHANGED <<stage, at, hdr, meta, verdict, row, egress, looked>>
  BY DEF WriteRoute, frameVars
<1> DEFINE new == {p \in table[i] : p[1] # r[2]} \cup {<<r[2], to>>}
<1>3. table = [j \in Ifaces |-> table[j]]
  BY DEF RInv, TableTyped
<1>4. table' = [j \in Ifaces |-> IF j = i THEN new ELSE table[j]]
  BY <1>1, <1>3
<1>5. \A p \in new : p[2] \in Ifaces \cup {NoIf}
  BY DEF RInv, TableTyped
<1>6. \A p, q \in new : p[1] = q[1] => p = q
  BY DEF RInv, RouterTypeOK
<1> HIDE DEF new
<1>7. TableTyped'
  BY <1>4, <1>5 DEF RInv, TableTyped
<1>8. RouterTypeOK'
  BY <1>2, <1>4, <1>6 DEF RInv, RouterTypeOK
<1> QED
  BY <1>2, <1>7, <1>8 DEF RInv, MetaKept, Fresh, Kinds, LeavesWhereLookedUp, NewIPStaysOut

LEMMA RInvNext ==
  ASSUME RouterAssumption, HeadersAssumption, RInv, [RouterNext]_rvars
  PROVE  RInv'
<1>1. CASE UNCHANGED rvars
  BY <1>1 DEF rvars, frameVars, RInv, RouterTypeOK, TableTyped, MetaKept, Fresh, Kinds,
              LeavesWhereLookedUp, NewIPStaysOut
<1>2. CASE \E f \in Frames : Arrive(f) \/ Router(f)
  BY <1>2, RInvArrive, RInvRouter
<1>3. CASE \E i \in Ifaces : WriteRoute(i)
  BY <1>3, RInvWriteRoute
<1> QED
  BY <1>1, <1>2, <1>3 DEF RouterNext

(* A frame without a contract: what is read in its place is 768, no type. *)
LEMMA NoContractUntouched ==
  ASSUME HeadersAssumption, RInv, [RouterNext]_rvars
  PROVE  NoContractUntouchedStep
<1> SUFFICES ASSUME NEW f \in Frames, hdr[f].contracts = <<>>
             PROVE  hdr'[f] = hdr[f]
  BY DEF NoContractUntouchedStep
<1>1. CASE hdr' = [hdr EXCEPT ![f] = Processed(f)] /\ stage[f] = "xdp" /\ hdr[f].eth = "newip"
  <2>1. Built(hdr[f])
    BY <1>1 DEF RInv, Fresh, HeadersAssumption
  <2>2. ContractType(f) # PING
    BY <2>1 DEF Built, ContractType, OffsetLen, PING
  <2>3. Processed(f) = hdr[f]
    BY <2>2 DEF Processed
  <2> QED
    BY <1>1, <2>3 DEF RInv, Fresh
<1>2. ASSUME NEW g \in Frames, g # f, hdr' = [hdr EXCEPT ![g] = Processed(g)]
      PROVE  hdr'[f] = hdr[f]
  BY <1>2 DEF RInv, Fresh
<1>3. CASE hdr' = hdr
  BY <1>3
<1>4. CASE \E g \in Frames : Router(g)
  <2>1. PICK g \in Frames : Router(g)
    BY <1>4
  <2>2. \/ hdr' = hdr
        \/ hdr' = [hdr EXCEPT ![g] = Processed(g)] /\ stage[g] = "xdp" /\ hdr[g].eth = "newip"
    BY <2>1 DEF Router, XdpNoMeta, XdpOther, XdpMalformed, Xdp8bNoEntry, Xdp8b, XdpFib, TcOther, TcRedirect
  <2> QED
    BY <2>2, <1>1, <1>2, <1>3
<1>5. CASE ~ \E g \in Frames : Router(g)
  <2>1. hdr' = hdr
    BY <1>5 DEF RouterNext, Arrive, WriteRoute, frameVars, rvars
  <2> QED
    BY <2>1
<1> QED
  BY <1>4, <1>5

(* The bounds a complete frame passes. *)
LEMMA CompleteFits ==
  ASSUME NEW f \in Frames, Built(hdr[f]), Complete(f)
  PROVE  ShippingOk(f) /\ ContractFits(f)
<1> DEFINE s == AddrLen(hdr[f].src_type)
           d == AddrLen(hdr[f].dst_type)
           c == hdr[f].contracts[1]
<1>1. s \in Nat /\ d \in Nat
  BY DEF Built, AddrLen, V4, V6, B8
<1>2. ShipLen(hdr[f].src_type, hdr[f].dst_type) = 3 + s + d
  BY DEF ShipLen
<1>3. hdr[f].po \in Nat /\ hdr[f].len \in Nat /\ hdr[f].so = 3 /\ OffsetLen = 3
  BY DEF Built, OffsetLen
<1>4. hdr[f].len >= hdr[f].po + 2
  BY DEF Complete
<1>5. hdr[f].dst_type \in AddrTypes
  BY DEF Complete
<1> HIDE DEF s, d
<1>6. CASE hdr[f].contracts = <<>>
  <2>1. hdr[f].co = 0 /\ hdr[f].po = OffsetLen + ShipLen(hdr[f].src_type, hdr[f].dst_type)
    BY <1>6 DEF Built
  <2>2. ShippingOk(f)
    BY <2>1, <1>1, <1>2, <1>3, <1>4, <1>5 DEF ShippingOk, Has, DstAt, s, d
  <2>3. SizeofContract(ContractType(f)) = 2
    BY <2>1, <1>3 DEF ContractType, SizeofContract, PING, MDF
  <2> QED
    BY <2>1, <2>2, <2>3, <1>1, <1>2, <1>3, <1>4 DEF ContractFits, Has
<1>7. CASE hdr[f].contracts # <<>>
  <2>1. /\ hdr[f].co = OffsetLen + ShipLen(hdr[f].src_type, hdr[f].dst_type)
        /\ c.type \in {MDF, LBF, PING}
        /\ hdr[f].po >= hdr[f].co + ContractLen(c)
    BY <1>7 DEF Built
  <2>2. hdr[f].co = 6 + s + d
    BY <2>1, <1>1, <1>2, <1>3
  <2>3. ContractType(f) = c.type
    BY <2>2, <1>1 DEF ContractType
  <2>4. /\ ContractLen(c) \in Nat /\ SizeofContract(c.type) \in Nat
        /\ ContractLen(c) >= 2 /\ ContractLen(c) + 2 >= SizeofContract(c.type)
    BY <2>1 DEF ContractLen, SizeofContract, MDF, LBF, PING
  <2> HIDE DEF c
  <2>5. ShippingOk(f)
    BY <2>1, <2>2, <2>4, <1>1, <1>3, <1>4, <1>5 DEF ShippingOk, Has, DstAt, s, d
  <2>6. Has(f, hdr[f].co + 2)
    BY <2>1, <2>2, <2>4, <1>1, <1>3, <1>4 DEF Has
  <2>7. Has(f, hdr[f].co + SizeofContract(ContractType(f)))
    BY <2>1, <2>2, <2>3, <2>4, <1>1, <1>3, <1>4 DEF Has
  <2> QED
    BY <2>5, <2>6, <2>7 DEF ContractFits
<1> QED
  BY <1>6, <1>7

LEMMA CompleteNeverMalformed ==
  ASSUME HeadersAssumption, RInv, [RouterNext]_rvars
  PROVE  CompleteNeverMalformedStep
<1> SUFFICES ASSUME NEW f \in Frames, Complete(f), stage[f] = "xdp", stage'[f] = "dropped",
                    verdict'[f] = "drop"
             PROVE  hdr[f].dst_type \in {V4, V6} /\ ContractFits(f)
  BY DEF CompleteNeverMalformedStep
<1>1. Built(hdr[f])
  BY DEF RInv, Fresh, HeadersAssumption, Complete
<1>2. ShippingOk(f) /\ ContractFits(f)
  BY <1>1, CompleteFits
<1>3. \A g \in Frames : g # f => ~Router(g)
  BY DEF Router, XdpNoMeta, XdpOther, XdpMalformed, Xdp8bNoEntry, Xdp8b, XdpFib, TcOther, TcRedirect, Returns,
         RInv, RouterTypeOK
<1>4. \A g \in Frames : ~Arrive(g)
  BY DEF Arrive, RInv, RouterTypeOK
<1>5. Router(f)
  BY <1>3, <1>4 DEF RouterNext, WriteRoute, frameVars, rvars
<1>6. ~XdpMalformed(f)
  BY <1>2 DEF XdpMalformed
<1>7. ~XdpNoMeta(f) /\ ~XdpOther(f) /\ ~Xdp8bNoEntry(f) /\ ~Xdp8b(f)
  BY DEF XdpNoMeta, XdpOther, Xdp8bNoEntry, Xdp8b, Returns, RInv, RouterTypeOK, Complete
<1>8. XdpFib(f)
  BY <1>5, <1>6, <1>7 DEF Router, TcOther, TcRedirect
<1> QED
  BY <1>2, <1>8 DEF XdpFib

(***************************************************************************)
(* What the two programs promise of every frame holds for any frames whose *)
(* headers New IP senders build, cut anywhere, whatever other frames pass  *)
(* and whatever is written into the tables between the two hooks.          *)
(***************************************************************************)
THEOREM RouterIsRight == ASSUME RouterAssumption, HeadersAssumption PROVE RouterSpec => RouterRight
<1>1. RouterInit => RInv
  BY RInvInit
<1>2. RInv /\ [RouterNext]_rvars => RInv'
  BY RInvNext
<1>3. RInv => RouterSafe
  BY DEF RInv, RouterSafe
<1>4. RInv /\ [RouterNext]_rvars => [RouterStep]_rvars
  BY NoContractUntouched, CompleteNeverMalformed DEF RouterStep
<1> QED
  BY <1>1, <1>2, <1>3, <1>4, PTL DEF RouterSpec, RouterRight

-----------------------------------------------------------------------------
(***************************************************************************)
(* The network.  What a ping's header says, and what a router makes of it. *)
(***************************************************************************)
Says(h, st, s, dt, d, code, ts, hops) ==
  /\ h.eth = "newip" /\ h.src = s /\ h.dst = d /\ h.src_type = st /\ h.dst_type = dt
  /\ h.contracts = <<[type |-> PING, code |-> code, hops |-> hops, timestamp |-> ts]>>

LEMMA PingFields ==
  ASSUME NEW st, NEW s, NEW dt, NEW d, NEW code, NEW ts, NEW hops
  PROVE  Says(PingHeader(st, s, dt, d, code, ts, hops), st, s, dt, d, code, ts, hops)
<1> DEFINE c == [Ping(code, ts) EXCEPT !.hops = hops]
<1>1. c = [type |-> PING, code |-> code, hops |-> hops, timestamp |-> ts]
  BY DEF Ping
<1> HIDE DEF c
<1>2. PingHeader(st, s, dt, d, code, ts, hops) = Frame(st, s, dt, d, <<c>>, 4)
  BY DEF PingHeader, c
<1> QED
  BY <1>1, <1>2 DEF Frame, Says

(* A ping as it is sent has all its hops. *)
LEMMA SentPing ==
  ASSUME NEW st, NEW s, NEW dt, NEW d, NEW code, NEW ts
  PROVE  Frame(st, s, dt, d, <<Ping(code, ts)>>, 4) = PingHeader(st, s, dt, d, code, ts, 255)
<1>1. [Ping(code, ts) EXCEPT !.hops = 255] = Ping(code, ts)
  BY DEF Ping
<1> QED
  BY <1>1 DEF PingHeader

-----------------------------------------------------------------------------
(***************************************************************************)
(* Every frame that is under way is a ping between two hosts, one that was *)
(* asked for or the answer to one; the routers it has been through and the *)
(* rank of where it is add up to the rank of where it started, and its     *)
(* hops count the routers.                                                 *)
(***************************************************************************)
Assumptions == RouterAssumption /\ NetAssumption /\ TablesAgree

NetTyped ==
  /\ NetTypeOK /\ TableTyped /\ IsFiniteSet(pings)
  /\ hdr = [f \in Frames |-> hdr[f]]
  /\ \A i \in Ifaces : \A p \in table[i] : \E r \in Routes : r[1] = i /\ r[2] = p[1] /\ r[3] = p[2]

Hops(h) == h.contracts[1].hops
Code(h) == h.contracts[1].code
Time(h) == h.contracts[1].timestamp

Asked(h) == IF Code(h) = 0 THEN <<h.src, h.dst, Time(h)>> \in pings
                           ELSE <<h.dst, h.src, Time(h)>> \in pings

Far(h)  == Rank[h.src][h.dst]

OnWire(f) ==
  LET h == hdr[f]
      m == NodeOf[Peer[egress[f]]]
  IN  /\ egress[f] \in Ifaces /\ Hops(h) = 255 - crossed[f]
      /\ IF m \in Hosts THEN m = h.dst /\ crossed[f] + 1 = Far(h)
                        ELSE crossed[f] + 1 + Rank[m][h.dst] = Far(h)

InRouter(f) ==
  LET h == hdr[f]
  IN  /\ ~AtHost(at[f]) /\ crossed[f] >= 1
      /\ crossed[f] + Rank[NodeOf[at[f]]][h.dst] = Far(h)

OnItsWay(f) ==
  LET h == hdr[f]
  IN  /\ stage[f] = "xdp" => InRouter(f) /\ Hops(h) = 256 - crossed[f]
      /\ stage[f] = "ingress" =>
           InRouter(f) /\ Hops(h) = 255 - crossed[f] /\ Toward(at[f], h.dst, meta[f])
      /\ stage[f] = "egress" => OnWire(f)
      /\ stage[f] = "stack" => /\ AtHost(at[f]) /\ h.dst = NodeOf[at[f]]
                               /\ crossed[f] + 1 = Far(h) /\ Hops(h) = 255 - crossed[f]

FrameInv(f) ==
  IF stage[f] = "away" THEN crossed[f] = 0
  ELSE /\ hdr[f] \in PingHeaders /\ hdr[f].src # hdr[f].dst /\ Asked(hdr[f])
       /\ OnItsWay(f)

NInv == NetTyped /\ (\A f \in Frames : FrameInv(f)) /\ RepliesMatch

(* What the ping a frame carries says. *)
Same(h) == PingHeader(h.src_type, h.src, h.dst_type, h.dst, Code(h), Time(h), Hops(h))
PingTyped(h) ==
  /\ h.eth = "newip" /\ h.src \in Hosts /\ h.dst \in Hosts
  /\ h.src_type \in AddrTypes /\ h.dst_type \in AddrTypes
  /\ h.contracts # <<>> /\ h.contracts[1].type = PING
  /\ Code(h) \in {0, 1} /\ Time(h) \in 0..MaxPings - 1 /\ Hops(h) \in 0..255

LEMMA PingOf ==
  ASSUME NEW h \in PingHeaders
  PROVE  PingTyped(h) /\ h = Same(h)
<1>1. PICK st, dt \in AddrTypes, s, d \in Hosts, code \in {0, 1}, ts \in 0..MaxPings - 1,
           hops \in 0..255 : h = PingHeader(st, s, dt, d, code, ts, hops)
  BY DEF PingHeaders
<1>2. Says(h, st, s, dt, d, code, ts, hops)
  BY <1>1, PingFields
<1>3. Code(h) = code /\ Time(h) = ts /\ Hops(h) = hops
  BY <1>2 DEF Says, Code, Time, Hops
<1>4. h = Same(h)
  BY <1>1, <1>2, <1>3, Zenon DEF Same, Says
<1> QED
  BY <1>2, <1>3, <1>4 DEF Says, PingTyped

(* The router takes one hop and leaves the rest. *)
OneHopLess(h) ==
  PingHeader(h.src_type, h.src, h.dst_type, h.dst, Code(h), Time(h), Hops(h) - 1)

LEMMA PingProcessed ==
  ASSUME NEW f, PingTyped(hdr[f]), hdr[f] = Same(hdr[f]), Hops(hdr[f]) \in 1..255
  PROVE  Processed(f) = OneHopLess(hdr[f])
<1> DEFINE st == hdr[f].src_type
           dt == hdr[f].dst_type
           s == hdr[f].src
           d == hdr[f].dst
           code == Code(hdr[f])
           ts == Time(hdr[f])
           hops == Hops(hdr[f])
<1>A. st \in AddrTypes /\ dt \in AddrTypes /\ hops \in 1..255
  BY DEF PingTyped
<1>B. hdr[f] = PingHeader(st, s, dt, d, code, ts, hops)
  BY DEF Same
<1>C. OneHopLess(hdr[f]) = PingHeader(st, s, dt, d, code, ts, hops - 1)
  BY DEF OneHopLess
<1> HIDE DEF st, dt, s, d, code, ts, hops
<1> DEFINE C(n) == [type |-> PING, code |-> code, hops |-> n, timestamp |-> ts]
           k == OffsetLen + ShipLen(st, dt)
           H(n) == [ eth |-> "newip", so |-> OffsetLen, co |-> k, po |-> k + 14, src_type |-> st,
                     src |-> s, dst_type |-> dt, dst |-> d, contracts |-> <<C(n)>>,
                     len |-> k + 14 + 4 ]
<1>1. ASSUME NEW n \in 0..255 PROVE PingHeader(st, s, dt, d, code, ts, n) = H(n)
  <2>1. [Ping(code, ts) EXCEPT !.hops = n] = C(n)
    BY DEF Ping
  <2>2. ContractsLen(<<C(n)>>) = 14
    BY LenOfOne DEF ContractLen, PING, MDF, LBF
  <2>3. <<C(n)>> # <<>>
    OBVIOUS
  <2> QED
    BY <2>1, <2>2, <2>3 DEF PingHeader, Frame
<1>0. hops \in 0..255 /\ hops - 1 \in 0..255
  BY <1>A
<1> HIDE DEF H
<1>2. hdr[f] = H(hops) /\ PingHeader(st, s, dt, d, code, ts, hops - 1) = H(hops - 1)
  BY <1>0, <1>1, <1>B
<1> USE DEF H
<1>3. k \in Nat \ {0}
  BY <1>A DEF AddrTypes, OffsetLen, ShipLen, AddrLen, V4, V6, B8
<1> HIDE DEF k
<1>4. HasContract(f) /\ ContractType(f) = PING /\ hdr[f].contracts # <<>>
  BY <1>2, <1>3 DEF HasContract, ContractType
<1>5. Processed(f) = [hdr[f] EXCEPT !.contracts[1].hops = (@ - 1) % 65536]
  BY <1>4 DEF Processed
<1>6. (hops - 1) % 65536 = hops - 1
  BY <1>A
<1> DEFINE X == [<<C(hops)>> EXCEPT ![1].hops = (@ - 1) % 65536]
<1>7. X = <<C(hops - 1)>>
  BY <1>6
<1>8. [hdr[f] EXCEPT !.contracts[1].hops = (@ - 1) % 65536] = [H(hops) EXCEPT !.contracts = X]
  BY <1>2
<1> HIDE DEF X
<1>9. [H(hops) EXCEPT !.contracts = X] = H(hops - 1)
  BY <1>7
<1> QED
  BY <1>2, <1>5, <1>8, <1>9, <1>C

LEMMA PingIn ==
  ASSUME NEW st \in AddrTypes, NEW s \in Hosts, NEW dt \in AddrTypes, NEW d \in Hosts,
         NEW code \in {0, 1}, NEW ts \in 0..MaxPings - 1, NEW hops \in 0..255
  PROVE  PingHeader(st, s, dt, d, code, ts, hops) \in PingHeaders
  BY DEF PingHeaders

LEMMA AnswerIn ==
  ASSUME NEW p, PingTyped(p)
  PROVE  PingHeader(p.dst_type, p.dst, p.src_type, p.src, 1, Time(p), 255) \in PingHeaders
<1>1. /\ p.src \in Hosts /\ p.dst \in Hosts /\ p.src_type \in AddrTypes /\ p.dst_type \in AddrTypes
      /\ Time(p) \in 0..MaxPings - 1
  BY DEF PingTyped
<1>2. 1 \in {0, 1} /\ 255 \in 0..255
  OBVIOUS
<1> HIDE DEF PingTyped
<1> QED
  BY ZenonT(40), <1>1, <1>2, PingIn

LEMMA PingTaken ==
  ASSUME NEW f, hdr[f] \in PingHeaders, Hops(hdr[f]) >= 1
  PROVE  /\ Processed(f) \in PingHeaders
         /\ Hops(Processed(f)) = Hops(hdr[f]) - 1
         /\ Processed(f).src = hdr[f].src /\ Processed(f).dst = hdr[f].dst
         /\ Code(Processed(f)) = Code(hdr[f]) /\ Time(Processed(f)) = Time(hdr[f])
<1> DEFINE h == hdr[f]
           P == OneHopLess(h)
<1>1. PingTyped(h) /\ h = Same(h)
  BY PingOf
<1>2. /\ h.src_type \in AddrTypes /\ h.dst_type \in AddrTypes
      /\ h.src \in Hosts /\ h.dst \in Hosts /\ Code(h) \in {0, 1} /\ Time(h) \in 0..MaxPings - 1
  BY <1>1 DEF PingTyped
<1>3. Hops(h) \in 1..255 /\ Hops(h) - 1 \in 0..255
  BY <1>1 DEF PingTyped
<1>5. Processed(f) = P
  BY <1>1, <1>3, PingProcessed
<1>6. P \in PingHeaders
  BY <1>2, <1>3, PingIn DEF OneHopLess
<1>7. Says(P, h.src_type, h.src, h.dst_type, h.dst, Code(h), Time(h), Hops(h) - 1)
  BY PingFields DEF OneHopLess
<1> HIDE DEF P
<1>8. Hops(P) = Hops(h) - 1 /\ Code(P) = Code(h) /\ Time(P) = Time(h)
  BY <1>7 DEF Says, Hops, Code, Time
<1>9. P.src = h.src /\ P.dst = h.dst
  BY <1>7 DEF Says
<1> QED
  BY <1>5, <1>6, <1>8, <1>9

(* Hosts and interfaces have ranks. *)
LEMMA Ranks ==
  ASSUME Assumptions, NEW d \in Hosts
  PROVE  /\ \A i \in Ifaces : Rank[NodeOf[i]][d] \in Nat
         /\ \A s \in Hosts : Rank[s][d] \in Nat
         /\ \A s \in Hosts : s # d => Rank[s][d] < 256
<1>1. \A i \in Ifaces : Rank[NodeOf[i]][d] \in Nat
  BY DEF Assumptions, TablesAgree
<1>2. ASSUME NEW s \in Hosts PROVE Rank[s][d] \in Nat
  <2>1. HostIf[s] \in Ifaces /\ NodeOf[HostIf[s]] = s
    BY DEF Assumptions, NetAssumption
  <2> QED
    BY <1>1, <2>1
<1> QED
  BY <1>1, <1>2 DEF Assumptions, TablesAgree

(* A frame nothing happens to stays as good as it was. *)
LEMMA Untouched ==
  ASSUME NEW g, FrameInv(g), pings \subseteq pings',
         stage'[g] = stage[g], at'[g] = at[g], hdr'[g] = hdr[g], meta'[g] = meta[g],
         egress'[g] = egress[g], crossed'[g] = crossed[g]
  PROVE  FrameInv(g)'
<1>1. Far(hdr[g])' = Far(hdr[g]) /\ Hops(hdr[g])' = Hops(hdr[g])
  BY DEF Far, Hops
<1>2. OnWire(g) => OnWire(g)'
  BY <1>1 DEF OnWire
<1>3. InRouter(g) => InRouter(g)'
  BY <1>1 DEF InRouter, AtHost
<1>4. Asked(hdr[g]) => Asked(hdr[g])'
  BY DEF Asked, Code, Time
<1>5. OnItsWay(g) => OnItsWay(g)'
  BY <1>1, <1>2, <1>3 DEF OnItsWay, AtHost, Toward
<1> QED
  BY <1>4, <1>5 DEF FrameInv

(* A host sends a ping or an answer. *)
LEMMA SendKeeps ==
  ASSUME Assumptions, NetTyped, \A g \in Frames : FrameInv(g),
         NEW f \in Frames, NEW s \in Hosts, NEW header \in PingHeaders,
         header.src = s, header.dst # s, Hops(header) = 255,
         Send(f, s, header), pings \subseteq pings', Asked(header)'
  PROVE  /\ RouterTypeOK' /\ TableTyped' /\ crossed' = crossed /\ on' = on
         /\ hdr' = [g \in Frames |-> hdr'[g]] /\ table' = table
         /\ \A g \in Frames : FrameInv(g)'
<1>1. /\ stage[f] = "away"
      /\ hdr' = [hdr EXCEPT ![f] = header]
      /\ egress' = [egress EXCEPT ![f] = HostIf[s]]
      /\ stage' = [stage EXCEPT ![f] = "egress"]
      /\ UNCHANGED <<at, meta, verdict, row, looked, table, on, crossed>>
  BY DEF Send
<1>2. HostIf[s] \in Ifaces /\ NodeOf[HostIf[s]] = s /\ NoIf \notin Ifaces
  BY DEF Assumptions, NetAssumption, RouterAssumption
<1>3. RouterTypeOK'
  BY <1>1, <1>2 DEF NetTyped, NetTypeOK, RouterTypeOK, Stages
<1>4. TableTyped' /\ hdr' = [g \in Frames |-> hdr'[g]]
  <2>1. TableTyped'
    BY <1>1 DEF NetTyped, TableTyped
  <2>2. hdr' = [g \in Frames |-> hdr'[g]]
    BY <1>1 DEF NetTyped
  <2> QED
    BY <2>1, <2>2
<1>5. ASSUME NEW g \in Frames, g # f PROVE FrameInv(g)'
  <2>1. FrameInv(g)
    OBVIOUS
  <2>2. /\ stage'[g] = stage[g] /\ at'[g] = at[g] /\ hdr'[g] = hdr[g] /\ meta'[g] = meta[g]
        /\ egress'[g] = egress[g] /\ crossed'[g] = crossed[g]
    BY <1>1, <1>5 DEF NetTyped, NetTypeOK, RouterTypeOK
  <2> QED
    BY <2>1, <2>2, Untouched
<1>6. FrameInv(f)'
  <2>1. /\ hdr'[f] = header /\ stage'[f] = "egress" /\ egress'[f] = HostIf[s]
        /\ crossed'[f] = crossed[f]
    BY <1>1 DEF NetTyped, NetTypeOK, RouterTypeOK
  <2>2. crossed[f] = 0
    BY <1>1 DEF FrameInv
  <2>3. header.dst \in Hosts
    BY PingOf DEF PingTyped
  <2>4. Toward(HostIf[s], header.dst, HostIf[s])
    BY <2>3 DEF Assumptions, TablesAgree
  <2>5. Peer[HostIf[s]] \in Ifaces
    BY <1>2 DEF Assumptions, NetAssumption
  <2>6. Rank[NodeOf[Peer[HostIf[s]]]][header.dst] \in Nat /\ Rank[s][header.dst] \in Nat
    BY <2>3, <2>5, Ranks
  <2>7. OnWire(f)'
    BY <1>2, <2>1, <2>2, <2>4, <2>6 DEF OnWire, Toward, Far, Hops
  <2>8. OnItsWay(f)'
    BY <2>1, <2>7 DEF OnItsWay
  <2>9. Asked(hdr[f])'
    BY <2>1 DEF Asked, Code, Time
  <2> QED
    BY <2>1, <2>8, <2>9 DEF FrameInv
<1> QED
  BY <1>1, <1>3, <1>4, <1>5, <1>6

LEMMA SendPingKeeps ==
  ASSUME Assumptions, NInv, NEW f \in Frames, NEW st \in AddrTypes, NEW s \in Hosts,
         NEW dt \in AddrTypes, NEW d \in Hosts, s # d, SendPing(f, st, s, dt, d)
  PROVE  NInv'
<1> PICK ts : ts = Cardinality(pings)
  OBVIOUS
<1> DEFINE header == PingHeader(st, s, dt, d, 0, ts, 255)
<1>1. ts \in Nat /\ ts < MaxPings /\ MaxPings \in Nat
  BY FS_CardinalityType DEF NInv, NetTyped, SendPing, Assumptions, NetAssumption
<1>2. Frame(st, s, dt, d, <<Ping(0, ts)>>, 4) = header
  BY SentPing
<1>3. /\ Send(f, s, header) /\ pings' = pings \cup {<<s, d, ts>>}
      /\ UNCHANGED <<handled, answers>>
  BY <1>2, Zenon DEF SendPing
<1>4. ts \in 0..MaxPings - 1 /\ 255 \in 0..255
  BY <1>1
<1>5. header \in PingHeaders
  BY <1>4, PingIn
<1>6. Says(header, st, s, dt, d, 0, ts, 255)
  BY PingFields
<1> HIDE DEF header
<1>7. header.src = s /\ header.dst = d /\ Hops(header) = 255 /\ Code(header) = 0 /\ Time(header) = ts
  BY <1>6 DEF Says, Hops, Code, Time
<1>8. Asked(header)'
  BY <1>3, <1>7 DEF Asked, Code, Time
<1>9. /\ RouterTypeOK' /\ TableTyped' /\ crossed' = crossed /\ on' = on
      /\ hdr' = [g \in Frames |-> hdr'[g]] /\ table' = table
      /\ \A g \in Frames : FrameInv(g)'
  BY <1>3, <1>5, <1>7, <1>8, SendKeeps DEF NInv
<1>10. IsFiniteSet(pings')
  BY <1>3, FS_AddElement DEF NInv, NetTyped
<1>11. NetTyped'
  BY <1>3, <1>9, <1>10 DEF NInv, NetTyped, NetTypeOK
<1>12. RepliesMatch'
  BY <1>3 DEF NInv, RepliesMatch
<1> QED
  BY <1>9, <1>11, <1>12 DEF NInv

(* A receiver answers the request it was sent. *)
LEMMA AnswerKeeps ==
  ASSUME Assumptions, NInv, NEW r \in Receivers, NEW f \in Frames, NEW g \in Frames,
         AnswerPing(r, f, g)
  PROVE  NInv'
<1> PICK p : p = hdr[f]
  OBVIOUS
<1> DEFINE header == PingHeader(p.dst_type, p.dst, p.src_type, p.src, 1, Time(p), 255)
<1>1. stage[f] = "stack" /\ NodeOf[at[f]] = HostOf[r] /\ Code(p) = 0
  BY DEF AnswerPing, Answer, Sniffs, Code
<1>2. /\ p \in PingHeaders /\ p.src # p.dst /\ Asked(p)
      /\ p.dst = NodeOf[at[f]]
  BY <1>1 DEF NInv, FrameInv, OnItsWay
<1>3. PingTyped(p)
  BY <1>2, PingOf
<1>4. /\ p.src \in Hosts /\ p.dst \in Hosts /\ p.src_type \in AddrTypes /\ p.dst_type \in AddrTypes
      /\ Time(p) \in 0..MaxPings - 1
  BY <1>3 DEF PingTyped
<1>5. header \in PingHeaders
  BY <1>3, AnswerIn
<1>6. Says(header, p.dst_type, p.dst, p.src_type, p.src, 1, Time(p), 255)
  BY PingFields
<1>7. Frame(p.dst_type, p.dst, p.src_type, p.src, <<Ping(1, Time(p))>>, 4) = header
  BY SentPing
<1>8. Send(g, p.dst, header)
  BY <1>1, <1>2, <1>7 DEF AnswerPing, Answer, Time
<1>9. UNCHANGED <<pings, answers>> /\ handled' = [handled EXCEPT ![f] = @ \cup {r}]
  BY DEF AnswerPing, Answer
<1> HIDE DEF header
<1>10. /\ header.src = p.dst /\ header.dst = p.src /\ Hops(header) = 255
       /\ Code(header) = 1 /\ Time(header) = Time(p)
  BY <1>6 DEF Says, Hops, Code, Time
<1>11. Asked(header)'
  BY <1>1, <1>2, <1>9, <1>10 DEF Asked, Code, Time
<1>12. /\ RouterTypeOK' /\ TableTyped' /\ crossed' = crossed /\ on' = on
       /\ hdr' = [h \in Frames |-> hdr'[h]] /\ table' = table
       /\ \A h \in Frames : FrameInv(h)'
  BY <1>2, <1>4, <1>5, <1>8, <1>9, <1>10, <1>11, SendKeeps DEF NInv
<1>13. handled' \in [Frames -> SUBSET Receivers]
  BY <1>9 DEF NInv, NetTyped, NetTypeOK
<1>14. NetTyped'
  BY <1>9, <1>12, <1>13 DEF NInv, NetTyped, NetTypeOK
<1> QED
  BY <1>9, <1>12, <1>14 DEF NInv, RepliesMatch

(* A receiver reports the answer to a ping of its host. *)
LEMMA ReportKeeps ==
  ASSUME Assumptions, NInv, NEW r \in Receivers, NEW f \in Frames, ReportReply(r, f)
  PROVE  NInv'
<1> DEFINE h == hdr[f]
<1>1. /\ stage[f] = "stack" /\ NodeOf[at[f]] = HostOf[r] /\ Code(h) # 0
      /\ answers' = answers \cup {<<r, h.src, Time(h)>>}
      /\ handled' = [handled EXCEPT ![f] = @ \cup {r}]
      /\ UNCHANGED <<rvars, on, pings, crossed>>
  BY DEF ReportReply, Sniffs, Code, Time
<1>2. h.dst = NodeOf[at[f]] /\ Asked(h)
  BY <1>1 DEF NInv, FrameInv, OnItsWay
<1>3. <<HostOf[r], h.src, Time(h)>> \in pings
  BY <1>1, <1>2 DEF Asked
<1> HIDE DEF h
<1>4. RepliesMatch'
  BY <1>1, <1>3 DEF NInv, RepliesMatch
<1>5. handled' \in [Frames -> SUBSET Receivers]
  BY <1>1 DEF NInv, NetTyped, NetTypeOK
<1>6. NetTyped'
  BY <1>1, <1>5 DEF NInv, NetTyped, NetTypeOK, RouterTypeOK, TableTyped, rvars, frameVars
<1>7. \A g \in Frames : FrameInv(g)'
  <2> SUFFICES ASSUME NEW g \in Frames PROVE FrameInv(g)'
    OBVIOUS
  <2>1. FrameInv(g)
    BY DEF NInv
  <2> QED
    BY <1>1, <2>1, Untouched DEF rvars, frameVars
<1> QED
  BY <1>4, <1>6, <1>7 DEF NInv

(* A frame crosses a link, or is lost on it. *)
LEMMA CrossKeeps ==
  ASSUME Assumptions, NInv, NEW f \in Frames, Cross(f)
  PROVE  NInv'
<1> DEFINE i == Peer[egress[f]]
           to == IF AtHost(i) THEN "stack" ELSE "xdp"
           n == IF AtHost(i) THEN crossed[f] ELSE crossed[f] + 1
<1>1. /\ stage[f] = "egress"
      /\ at' = [at EXCEPT ![f] = i] /\ stage' = [stage EXCEPT ![f] = to]
      /\ crossed' = [crossed EXCEPT ![f] = n] /\ egress' = [egress EXCEPT ![f] = NoIf]
      /\ UNCHANGED <<hdr, meta, verdict, row, looked, table, on, handled, pings, answers>>
  BY DEF Cross
<1>2. hdr[f] \in PingHeaders /\ hdr[f].src # hdr[f].dst /\ Asked(hdr[f]) /\ OnWire(f)
  BY <1>1 DEF NInv, FrameInv, OnItsWay
<1>3. i \in Ifaces /\ egress[f] \in Ifaces
  BY <1>2 DEF OnWire, Assumptions, NetAssumption
<1>4. crossed[f] \in Nat /\ n \in Nat
  BY DEF NInv, NetTyped, NetTypeOK
<1>5. RouterTypeOK'
  BY <1>1, <1>3 DEF NInv, NetTyped, NetTypeOK, RouterTypeOK, Stages
<1>6. crossed' \in [Frames -> Nat]
  BY <1>1, <1>4 DEF NInv, NetTyped, NetTypeOK
<1>7. TableTyped'
  BY <1>1 DEF NInv, NetTyped, TableTyped
<1>8. NetTyped'
  BY <1>1, <1>5, <1>6, <1>7 DEF NInv, NetTyped, NetTypeOK
<1>9. RepliesMatch'
  BY <1>1 DEF NInv, RepliesMatch
<1>10. ASSUME NEW g \in Frames, g # f PROVE FrameInv(g)'
  <2>1. FrameInv(g)
    BY DEF NInv
  <2>2. /\ stage'[g] = stage[g] /\ at'[g] = at[g] /\ hdr'[g] = hdr[g] /\ meta'[g] = meta[g]
        /\ egress'[g] = egress[g] /\ crossed'[g] = crossed[g]
    BY <1>1, <1>10 DEF NInv, NetTyped, NetTypeOK, RouterTypeOK
  <2> QED
    BY <1>1, <2>1, <2>2, Untouched
<1>11. FrameInv(f)'
  <2>1. /\ at'[f] = i /\ stage'[f] = to /\ crossed'[f] = n /\ hdr'[f] = hdr[f]
    BY <1>1 DEF NInv, NetTyped, NetTypeOK, RouterTypeOK
  <2>2. hdr[f].dst \in Hosts /\ hdr[f].src \in Hosts
    BY <1>2, PingOf DEF PingTyped
  <2>3. Rank[NodeOf[i]][hdr[f].dst] \in Nat /\ Far(hdr[f]) \in Nat
    BY <1>3, <2>2, Ranks DEF Far
  <2>4. Hops(hdr[f]) = 255 - crossed[f]
    BY <1>2 DEF OnWire
  <2>5. CASE AtHost(i)
    <3>1. NodeOf[i] = hdr[f].dst /\ crossed[f] + 1 = Far(hdr[f])
      BY <1>2, <2>5 DEF OnWire, AtHost
    <3>2. OnItsWay(f)'
      BY <2>1, <2>4, <2>5, <3>1 DEF OnItsWay, AtHost, Far, Hops
    <3> QED
      BY <1>1, <1>2, <2>1, <2>5, <3>2 DEF FrameInv, Asked, Code, Time
  <2>6. CASE ~AtHost(i)
    <3>1. crossed[f] + 1 + Rank[NodeOf[i]][hdr[f].dst] = Far(hdr[f])
      BY <1>2, <2>6 DEF OnWire, AtHost
    <3>2. InRouter(f)'
      BY <1>4, <2>1, <2>6, <3>1 DEF InRouter, AtHost, Far
    <3>3. Hops(hdr[f]) = 256 - n
      BY <1>4, <2>4, <2>6
    <3>4. OnItsWay(f)'
      BY <2>1, <2>6, <3>2, <3>3 DEF OnItsWay, Hops
    <3> QED
      BY <1>1, <1>2, <2>1, <2>6, <3>4 DEF FrameInv, Asked, Code, Time
  <2> QED
    BY <2>5, <2>6
<1> QED
  BY <1>8, <1>9, <1>10, <1>11 DEF NInv

LEMMA LoseKeeps ==
  ASSUME Assumptions, NInv, NEW f \in Frames, Lose(f)
  PROVE  NInv'
<1>1. /\ stage[f] = "egress" /\ stage' = [stage EXCEPT ![f] = "dropped"]
      /\ egress' = [egress EXCEPT ![f] = NoIf]
      /\ UNCHANGED <<at, hdr, meta, verdict, row, looked, table, on, handled, pings, answers, crossed>>
  BY DEF Lose, hvars
<1>2. RouterTypeOK'
  BY <1>1 DEF NInv, NetTyped, NetTypeOK, RouterTypeOK, Stages
<1>3. NetTyped'
  BY <1>1, <1>2 DEF NInv, NetTyped, NetTypeOK, TableTyped
<1>4. ASSUME NEW g \in Frames, g # f PROVE FrameInv(g)'
  <2>1. FrameInv(g)
    BY DEF NInv
  <2>2. /\ stage'[g] = stage[g] /\ at'[g] = at[g] /\ hdr'[g] = hdr[g] /\ meta'[g] = meta[g]
        /\ egress'[g] = egress[g] /\ crossed'[g] = crossed[g]
    BY <1>1, <1>4 DEF NInv, NetTyped, NetTypeOK, RouterTypeOK
  <2> QED
    BY <1>1, <2>1, <2>2, Untouched
<1>5. FrameInv(f)'
  <2>1. stage'[f] = "dropped"
    BY <1>1 DEF NInv, NetTyped, NetTypeOK, RouterTypeOK
  <2>2. FrameInv(f)
    BY DEF NInv
  <2> QED
    BY <1>1, <2>1, <2>2 DEF FrameInv, OnItsWay, Asked, Code, Time
<1> QED
  BY <1>1, <1>3, <1>4, <1>5 DEF NInv, RepliesMatch

LEMMA StopKeeps ==
  ASSUME NInv, NEW r \in Receivers, StopReceiver(r)
  PROVE  NInv'
<1>1. on' = on \ {r} /\ UNCHANGED <<rvars, handled, pings, answers, crossed>>
  BY DEF StopReceiver
<1>2. NetTyped'
  BY <1>1 DEF NInv, NetTyped, NetTypeOK, RouterTypeOK, TableTyped, rvars, frameVars
<1>3. \A g \in Frames : FrameInv(g)'
  BY <1>1, Untouched DEF NInv, rvars, frameVars
<1> QED
  BY <1>1, <1>2, <1>3 DEF NInv, RepliesMatch

(* What a hook at XDP does to a ping: it takes one hop and looks up the    *)
(* way, or drops it.                                                       *)
LEMMA PingAtXdp ==
  ASSUME Assumptions, NInv, NEW f \in Frames, ~AtHost(at[f]), stage[f] = "xdp", Router(f)
  PROVE  \/ /\ stage'[f] = "ingress" /\ hdr'[f] = Processed(f)
            /\ Toward(at[f], hdr[f].dst, meta'[f])
         \/ stage'[f] = "dropped" /\ hdr'[f] \in {hdr[f], Processed(f)}
<1>1. hdr[f] \in PingHeaders /\ at[f] \in Ifaces
  BY DEF NInv, FrameInv, NetTyped, NetTypeOK, RouterTypeOK
<1>2. hdr[f].eth = "newip" /\ hdr[f].dst \in Hosts
  BY <1>1, PingOf DEF PingTyped
<1>3. stage \in [Frames -> Stages] /\ meta \in [Frames -> Ifaces \cup {NoIf}]
      /\ hdr = [g \in Frames |-> hdr[g]]
  BY DEF NInv, NetTyped, NetTypeOK, RouterTypeOK
<1>4. CASE XdpNoMeta(f) \/ XdpMalformed(f) \/ Xdp8bNoEntry(f)
  BY <1>3, <1>4 DEF XdpNoMeta, XdpMalformed, Xdp8bNoEntry, Returns
<1>5. CASE Xdp8b(f)
  <2>1. PICK p \in table[at[f]] : p[1] = hdr[f].dst /\ Written(f, p[2])
    BY <1>5 DEF Xdp8b
  <2>2. hdr' = [hdr EXCEPT ![f] = Processed(f)] /\ Returns(f, "pass", "pass")
    BY <1>5 DEF Xdp8b
  <2>3. PICK r \in Routes : r[1] = at[f] /\ r[2] = p[1] /\ r[3] = p[2]
    BY <1>1 DEF NInv, NetTyped
  <2>4. Toward(at[f], hdr[f].dst, p[2])
    BY <2>1, <2>3 DEF Assumptions, TablesAgree
  <2>5. meta'[f] = p[2] /\ hdr'[f] = Processed(f) /\ stage'[f] = "ingress"
    BY <1>3, <2>1, <2>2 DEF Written, Returns
  <2> QED
    BY <2>4, <2>5
<1>6. CASE XdpFib(f)
  <2>1. hdr[f].dst_type \in {V4, V6} /\ hdr' = [hdr EXCEPT ![f] = Processed(f)]
    BY <1>6 DEF XdpFib
  <2>2. PICK a \in FibAnswers(at[f], hdr[f]) :
          \/ a.rc = "success" /\ Returns(f, "pass", "pass") /\ Written(f, a.ifindex)
          \/ a.rc \in {"blackhole", "unreachable", "prohibit"} /\ Returns(f, "drop", "drop")
          \/ a.rc \in {"not_fwded", "fwd_disabled", "unsupp_lwt", "no_neigh", "frag_needed", "error"}
    BY <1>6 DEF XdpFib
  <2>3. \/ a.rc = "success" /\ Toward(at[f], hdr[f].dst, a.ifindex)
        \/ a.rc \in {"blackhole", "unreachable", "prohibit"}
    BY <1>1, <2>1 DEF Assumptions, TablesAgree
  <2>4. hdr'[f] = Processed(f)
    BY <1>3, <2>1
  <2>5. CASE a.rc = "success" /\ Returns(f, "pass", "pass") /\ Written(f, a.ifindex)
    <3>1. meta'[f] = a.ifindex /\ stage'[f] = "ingress"
      BY <1>3, <2>5 DEF Written, Returns
    <3> QED
      BY <2>3, <2>4, <2>5, <3>1
  <2>6. CASE Returns(f, "drop", "drop")
    BY <1>3, <2>4, <2>6 DEF Returns
  <2> QED
    BY <2>2, <2>3, <2>5, <2>6
<1> QED
  BY <1>2, <1>4, <1>5, <1>6 DEF Router, XdpOther, TcOther, TcRedirect

(* One step of a router. *)
LEMMA RouterKeeps ==
  ASSUME Assumptions, NInv, NEW f \in Frames, NetRouter(f)
  PROVE  NInv'
<1>1. ~AtHost(at[f]) /\ Router(f) /\ UNCHANGED hvars
  BY DEF NetRouter
<1>2. UNCHANGED <<on, handled, pings, answers, crossed>>
  BY <1>1 DEF hvars
<1>3. table' = table /\ at' = at
  BY <1>1, RouterFrame
<1>4. hdr[f] \in PingHeaders /\ hdr[f].src # hdr[f].dst /\ Asked(hdr[f]) /\ OnItsWay(f)
  BY <1>1 DEF NInv, FrameInv, Router, XdpNoMeta, XdpOther, XdpMalformed, Xdp8bNoEntry, Xdp8b, XdpFib,
              TcOther, TcRedirect
<1>5. hdr[f].eth = "newip" /\ hdr[f].dst \in Hosts /\ hdr[f].src \in Hosts /\ hdr[f].dst_type \in AddrTypes
  BY <1>4, PingOf DEF PingTyped
<1>6. at[f] \in Ifaces
  BY DEF NInv, NetTyped, NetTypeOK, RouterTypeOK
<1>7. stage[f] = "xdp" /\ hdr[f].eth # "other" /\ hdr[f].dst_type # B8 => FibGivesIface(f)
  BY <1>1, <1>4, <1>5, <1>6 DEF FibGivesIface, Assumptions, TablesAgree, AddrTypes, Toward
<1>8. RouterTypeOK' /\ TableTyped'
  BY <1>1, <1>7, TypesKept DEF NInv, NetTyped, NetTypeOK, Assumptions
<1>9. hdr' = [g \in Frames |-> hdr'[g]] /\ \A g \in Frames : g # f => hdr'[g] = hdr[g]
  BY <1>1 DEF Router, XdpNoMeta, XdpOther, XdpMalformed, Xdp8bNoEntry, Xdp8b, XdpFib, TcOther, TcRedirect,
              NInv, NetTyped
<1>10. \A g \in Frames : g # f => stage'[g] = stage[g] /\ meta'[g] = meta[g] /\ egress'[g] = egress[g]
  BY <1>1 DEF Router, XdpNoMeta, XdpOther, XdpMalformed, Xdp8bNoEntry, Xdp8b, XdpFib, TcOther, TcRedirect,
              Returns, Written, Unwritten, NInv, NetTyped, NetTypeOK, RouterTypeOK
<1>11. NetTyped'
  BY <1>2, <1>3, <1>8, <1>9 DEF NInv, NetTyped, NetTypeOK
<1>12. RepliesMatch'
  BY <1>2 DEF NInv, RepliesMatch
<1>13. ASSUME NEW g \in Frames, g # f PROVE FrameInv(g)'
  <2>1. FrameInv(g)
    BY DEF NInv
  <2> QED
    BY <1>2, <1>3, <1>9, <1>10, <1>13, <2>1, Untouched
<1>14. crossed[f] \in Nat
  BY DEF NInv, NetTyped, NetTypeOK
<1>15. Rank[NodeOf[at[f]]][hdr[f].dst] \in Nat /\ Far(hdr[f]) \in Nat /\ Far(hdr[f]) < 256
  BY <1>4, <1>5, <1>6, Ranks DEF Far
<1>16. FrameInv(f)'
  <2>1. CASE stage[f] = "xdp"
    <3>1. InRouter(f) /\ Hops(hdr[f]) = 256 - crossed[f]
      BY <1>4, <2>1 DEF OnItsWay
    <3>2. Hops(hdr[f]) >= 1
      BY <1>14, <1>15, <3>1 DEF InRouter
    <3>3. /\ Processed(f) \in PingHeaders
          /\ Hops(Processed(f)) = Hops(hdr[f]) - 1
          /\ Processed(f).src = hdr[f].src /\ Processed(f).dst = hdr[f].dst
          /\ Code(Processed(f)) = Code(hdr[f]) /\ Time(Processed(f)) = Time(hdr[f])
      BY <1>4, <3>2, PingTaken
    <3>4. CASE /\ stage'[f] = "ingress" /\ hdr'[f] = Processed(f)
               /\ Toward(at[f], hdr[f].dst, meta'[f])
      <4>1. Hops(hdr'[f]) = 255 - crossed[f]
        BY <1>14, <3>1, <3>3, <3>4
      <4>2. InRouter(f)'
        BY <1>2, <1>3, <3>1, <3>3, <3>4 DEF InRouter, AtHost, Far
      <4>3. Toward(at[f], hdr'[f].dst, meta'[f])
        BY <3>3, <3>4
      <4>4. OnItsWay(f)'
        BY <1>2, <1>3, <3>4, <4>1, <4>2, <4>3 DEF OnItsWay, Hops, Toward
      <4>5. Asked(hdr[f])'
        BY <1>2, <1>4, <3>3, <3>4 DEF Asked, Code, Time
      <4> QED
        BY <1>4, <3>3, <3>4, <4>4, <4>5 DEF FrameInv
    <3>5. CASE stage'[f] = "dropped" /\ hdr'[f] \in {hdr[f], Processed(f)}
      <4>1. hdr'[f] \in PingHeaders /\ hdr'[f].src = hdr[f].src /\ hdr'[f].dst = hdr[f].dst
            /\ Code(hdr'[f]) = Code(hdr[f]) /\ Time(hdr'[f]) = Time(hdr[f])
        BY <1>4, <3>3, <3>5
      <4>2. Asked(hdr[f])'
        BY <1>2, <1>4, <4>1 DEF Asked, Code, Time
      <4>3. OnItsWay(f)'
        BY <3>5 DEF OnItsWay
      <4> QED
        BY <1>4, <3>5, <4>1, <4>2, <4>3 DEF FrameInv
    <3> QED
      BY <1>1, <2>1, <3>4, <3>5, PingAtXdp
  <2>2. CASE stage[f] = "ingress"
    <3>1. /\ InRouter(f) /\ Hops(hdr[f]) = 255 - crossed[f] /\ Toward(at[f], hdr[f].dst, meta[f])
      BY <1>4, <2>2 DEF OnItsWay
    <3>2. TcRedirect(f)
      BY <1>1, <1>5, <2>2 DEF Router, XdpNoMeta, XdpOther, XdpMalformed, Xdp8bNoEntry, Xdp8b, XdpFib, TcOther
    <3>3. meta[f] \in Ifaces /\ meta[f] # NoIf
      BY <3>1 DEF Toward, Assumptions, RouterAssumption
    <3>4. /\ stage'[f] = "egress" /\ egress'[f] = meta[f] /\ hdr'[f] = hdr[f]
      BY <3>2, <3>3 DEF TcRedirect, NInv, NetTyped, NetTypeOK, RouterTypeOK
    <3>5. Peer[meta[f]] \in Ifaces
      BY <3>3 DEF Assumptions, NetAssumption
    <3>6. Rank[NodeOf[Peer[meta[f]]]][hdr[f].dst] \in Nat
      BY <1>5, <3>5, Ranks
    <3>7. OnWire(f)'
      BY <1>2, <1>14, <1>15, <3>1, <3>3, <3>4, <3>6 DEF OnWire, InRouter, Toward, Far, Hops
    <3>8. OnItsWay(f)'
      BY <3>4, <3>7 DEF OnItsWay
    <3>9. Asked(hdr[f])'
      BY <1>2, <1>4, <3>4 DEF Asked, Code, Time
    <3> QED
      BY <1>4, <3>4, <3>8, <3>9 DEF FrameInv
  <2> QED
    BY <1>1, <2>1, <2>2 DEF Router, XdpNoMeta, XdpOther, XdpMalformed, Xdp8bNoEntry, Xdp8b, XdpFib,
                            TcOther, TcRedirect
<1> QED
  BY <1>11, <1>12, <1>13, <1>16 DEF NInv

LEMMA NInvInit ==
  ASSUME Assumptions, NetInit
  PROVE  NInv
<1>1. Ifaces # {} /\ (CHOOSE i \in Ifaces : TRUE) \in Ifaces
  BY DEF Assumptions, TablesAgree
<1>2. /\ \A i \in Ifaces : \A p \in table[i] : \E r \in Routes : r[1] = i /\ r[2] = p[1] /\ r[3] = p[2]
      /\ table = [i \in Ifaces |-> table[i]]
  BY DEF NetInit
<1>3. TableTyped
  BY <1>2 DEF TableTyped, Assumptions, RouterAssumption
<1>4. ASSUME NEW i \in Ifaces, NEW p \in table[i], NEW q \in table[i], p[1] = q[1]
      PROVE  p = q
  <2>1. table[i] = { <<r[2], r[3]>> : r \in {s \in Routes : s[1] = i} }
    BY DEF NetInit
  <2>2. PICK r \in Routes : r[1] = i /\ p = <<r[2], r[3]>>
    BY <2>1
  <2>3. PICK s \in Routes : s[1] = i /\ q = <<s[2], s[3]>>
    BY <2>1
  <2>4. r[3] = s[3]
    BY <1>4, <2>2, <2>3 DEF Assumptions, TablesAgree
  <2> QED
    BY <1>4, <2>2, <2>3, <2>4
<1>5. RouterTypeOK
  BY <1>1, <1>4 DEF NetInit, RouterTypeOK, Stages, Verdicts
<1>6. NetTyped
  BY <1>2, <1>3, <1>5, FS_EmptySet DEF NetInit, NetTyped, NetTypeOK
<1> QED
  BY <1>6 DEF NetInit, NInv, FrameInv, RepliesMatch

LEMMA NInvNext ==
  ASSUME Assumptions, NInv, [NetNext]_nvars
  PROVE  NInv'
<1>1. CASE UNCHANGED nvars
  <2>1. /\ UNCHANGED <<stage, at, hdr, meta, verdict, row, egress, looked, table>>
        /\ UNCHANGED <<on, handled, pings, answers, crossed>>
    BY <1>1 DEF nvars, rvars, frameVars, hvars
  <2>2. NetTyped'
    BY <2>1 DEF NInv, NetTyped, NetTypeOK, RouterTypeOK, TableTyped
  <2>3. \A f \in Frames : FrameInv(f)'
    BY <2>1, Untouched DEF NInv
  <2>4. RepliesMatch'
    BY <2>1 DEF NInv, RepliesMatch
  <2> QED
    BY <2>2, <2>3, <2>4 DEF NInv
<1>2. CASE Sending
  BY <1>2, SendPingKeeps DEF Sending
<1>3. ASSUME NEW f \in Frames, Cross(f) \/ Lose(f) \/ NetRouter(f) PROVE NInv'
  BY <1>3, CrossKeeps, LoseKeeps, RouterKeeps
<1>4. ASSUME NEW r \in Receivers, StopReceiver(r) PROVE NInv'
  BY <1>4, StopKeeps
<1>5. ASSUME NEW r \in Receivers, NEW f \in Frames, Receiving(r, f) PROVE NInv'
  BY <1>5, AnswerKeeps, ReportKeeps DEF Receiving
<1> QED
  BY <1>1, <1>2, <1>3, <1>4, <1>5 DEF NetNext

(* What the invariant says of the frames that arrive. *)
LEMMA NInvSound ==
  ASSUME Assumptions, NInv
  PROVE  NetworkSound
<1>1. ASSUME NEW f \in Frames, stage[f] # "away"
      PROVE  hdr[f] \in PingHeaders /\ hdr[f].src # hdr[f].dst /\ OnItsWay(f)
             /\ hdr[f].src \in Hosts /\ hdr[f].dst \in Hosts
  BY <1>1, PingOf DEF NInv, FrameInv, PingTyped
<1>2. DeliveredToAddressee
  BY <1>1 DEF DeliveredToAddressee, OnItsWay
<1>3. HopsAreQueues
  <2> SUFFICES ASSUME NEW f \in Frames, stage[f] = "stack"
               PROVE  Hops(hdr[f]) = 255 - (InfoHops[hdr[f].src][hdr[f].dst] - 1)
    BY DEF HopsAreQueues, Hops
  <2>1. Hops(hdr[f]) = 255 - crossed[f] /\ crossed[f] + 1 = Far(hdr[f])
    BY <1>1 DEF OnItsWay
  <2>2. InfoHops[hdr[f].src][hdr[f].dst] = Far(hdr[f])
    BY <1>1 DEF Assumptions, TablesAgree, HopsAgree, Far
  <2>3. crossed[f] \in Nat
    BY DEF NInv, NetTyped, NetTypeOK
  <2> QED
    BY <2>1, <2>2, <2>3
<1>4. NoCircling
  <2> SUFFICES ASSUME NEW f \in Frames, stage[f] \in {"xdp", "ingress"}
               PROVE  crossed[f] + Rank[NodeOf[at[f]]][hdr[f].dst] <= Rank[hdr[f].src][hdr[f].dst]
    BY DEF NoCircling
  <2>1. crossed[f] + Rank[NodeOf[at[f]]][hdr[f].dst] = Rank[hdr[f].src][hdr[f].dst]
    BY <1>1 DEF OnItsWay, InRouter, Far
  <2>2. Rank[hdr[f].src][hdr[f].dst] \in Nat
    BY <1>1, Ranks
  <2> QED
    BY <2>1, <2>2
<1> QED
  BY <1>2, <1>3, <1>4 DEF NInv, NetTyped, NetworkSound

(***************************************************************************)
(* In any network whose tables agree, with any number of frames that the   *)
(* links lose, delay and reorder: every ping and every answer reaches the  *)
(* host it is for, with one hop less for each router on its way, no frame  *)
(* circles, and an answer that is reported is the answer to a ping that    *)
(* was sent.                                                               *)
(***************************************************************************)
THEOREM NetworkIsSound ==
  ASSUME RouterAssumption, NetAssumption, TablesAgree
  PROVE  NetSpec => []NetworkSound
<1>1. Assumptions
  BY DEF Assumptions
<1>2. NetInit => NInv
  BY <1>1, NInvInit
<1>3. NInv /\ [NetNext]_nvars => NInv'
  BY <1>1, NInvNext
<1>4. NInv => NetworkSound
  BY <1>1, NInvSound
<1> QED
  BY <1>2, <1>3, <1>4, PTL DEF NetSpec

-----------------------------------------------------------------------------
(***************************************************************************)
(* A sane contract reaches the arithmetic undistorted.                     *)
(***************************************************************************)
LEMMA SaneTenths ==
  ASSUME NEW c \in Contracts, Sane(c)
  PROVE  /\ Tenths(c.min) = 10 * c.min
         /\ Tenths(c.max) = 10 * c.max
         /\ Tenths(c.todelay) = 10 * c.todelay
<1>1. c.min \in Nat /\ c.max \in Nat /\ c.todelay \in Nat
  BY ContractsAssumption
<1>2. 10 * c.min \in 0..U16-1 /\ 10 * c.max \in 0..U16-1
        /\ 10 * c.todelay \in 0..U16-1
  <2>1. 10 * c.min < U16 /\ 10 * c.max < U16 /\ 10 * c.todelay < U16
    BY DEF Sane
  <2>2. 10 * c.min \in Nat /\ 10 * c.max \in Nat /\ 10 * c.todelay \in Nat
    BY <1>1
  <2> QED
    BY <2>1, <2>2, U16Type
<1>3. c.min * 10 = 10 * c.min /\ c.max * 10 = 10 * c.max
        /\ c.todelay * 10 = 10 * c.todelay
  BY <1>1
<1> QED
  BY <1>2, <1>3, U16Type, ModSmallOf DEF Tenths

(***************************************************************************)
(* Every field of the contract, and so every share computed from it, is a  *)
(* natural number.                                                         *)
(***************************************************************************)
LEMMA HopShareType ==
  ASSUME NEW c \in Contracts, NEW e \in 0..U16-1, NEW h \in 1..U16-1
  PROVE  LqMin(c, e, h) \in Nat /\ LqMax(c, e, h) \in Nat
  BY ContractsAssumption, ShareType

(***************************************************************************)
(* The inductive invariant.  Progress ties fib_tohops to the routers still *)
(* ahead; OnTime ties experienced_delay to the time really spent and keeps *)
(* what is left of max_delay from going negative as long as no hop ran     *)
(* late; Reached says what a delivered packet has been through.            *)
(***************************************************************************)
Progress ==
  /\ hop = 0 => exp = 0
  /\ status = "transit" => hop < path
  /\ status = "delivered" => hop = path
  /\ status = "nohops" => tohops = 0 /\ hop < path
  /\ Counted /\ status # "discarded" => tohops = path - hop

OnTime ==
  Sane(contract) /\ ~late /\ contract.max > 0 =>
    /\ hop > 0 => exp + 10 * contract.todelay <= 10 * contract.max
    /\ dwelt <= TenthMs * exp + hop * (TenthMs - 1)

Reached ==
  status = "delivered" /\ ~late /\ Counted /\ Sane(contract) =>
    TenthMs * (10 * contract.min)
      <= dwelt + TenthMs * (10 * contract.todelay)

Spent == TenthMs * exp <= dwelt

Discarded ==
  status = "discarded" /\ Sane(contract) /\ ~late =>
    contract.todelay > contract.max

IInv == TypeOK /\ Progress /\ OnTime /\ Reached /\ Spent /\ Discarded

LEMMA InitIInv == Init => IInv
<1> SUFFICES ASSUME Init PROVE IInv
  OBVIOUS
<1>1. 0 \in 0..U16-1
  BY U16Type
<1>2. path \in Nat /\ path > 0
  BY PathsAssumption DEF Init
<1>3. TypeOK
  <2>1. tohops \in 0..U16-1
    BY ToHopsAssumption DEF Init
  <2>2. 0 \in 0..path
    BY <1>2
  <2> QED
    BY <1>1, <2>1, <2>2 DEF Init, TypeOK
<1>4. Progress
  BY <1>2 DEF Init, Progress, Counted
<1>5. OnTime /\ Spent
  BY TenthMsAssumption, <1>3 DEF Init, OnTime, Spent, TypeOK
<1>6. Reached /\ Discarded
  BY DEF Init, Reached, Discarded
<1> QED
  BY <1>3, <1>4, <1>5, <1>6 DEF IInv

(***************************************************************************)
(* Passing the packet on within the window, or late.                       *)
(***************************************************************************)
LEMMA PassStep ==
  ASSUME IInv, Accepts, NEW d \in Nat, Pass(d), Opens <= d,
         late' \in BOOLEAN, ~late' => ~late /\ d <= Closes
  PROVE  IInv'
<1> DEFINE q == d \div TenthMs
<1>1. TenthMs \in Nat \ {0} /\ q \in Nat
        /\ TenthMs * q <= d /\ d <= TenthMs * q + TenthMs - 1
  BY TenthMsAssumption, DivBounds
<1>2. /\ contract \in Contracts /\ contract.min \in Nat
      /\ contract.max \in Nat /\ contract.todelay \in Nat
  BY ContractsAssumption DEF IInv, TypeOK
<1>3. /\ path \in Nat \ {0} /\ hop \in Nat /\ dwelt \in Nat /\ exp \in Nat
      /\ hop < path
  BY PathsAssumption, U16Type DEF IInv, TypeOK, Accepts, Progress
<1>4. tohops \in 1..U16-1 /\ exp \in 0..U16-1
  BY U16Type DEF IInv, TypeOK, Accepts
<1>5. LqMin(contract, exp, tohops) \in Nat
        /\ LqMax(contract, exp, tohops) \in Nat
  BY <1>2, <1>4, HopShareType
<1>6. exp' \in 0..U16-1 /\ exp' \in Nat
  <2>1. ASSUME NEW x \in Nat PROVE x % U16 \in 0..U16-1 /\ x % U16 \in Nat
    BY U16Type, ModRangeOf
  <2>2. exp' = (exp + q) % U16 /\ exp + q \in Nat
    BY <1>1, <1>3 DEF Pass
  <2> QED
    BY <2>1, <2>2
<1>7. TypeOK'
  <2>1. tohops' \in 0..U16-1
    BY <1>4, DecHopsType DEF Pass, IInv, TypeOK
  <2>2. hop' \in 0..path'
    BY <1>3 DEF Pass
  <2>3. dwelt' \in Nat
    BY <1>3 DEF Pass
  <2>4. status' \in {"transit", "delivered", "discarded", "nohops"}
    BY DEF Pass
  <2> QED
    BY <1>6, <2>1, <2>2, <2>3, <2>4 DEF Pass, IInv, TypeOK
<1>8. Progress'
  <2>1. hop' = path \/ status' = "transit"
    BY DEF Pass
  <2>2. Counted' => tohops' = path - hop'
    <3> SUFFICES ASSUME Counted PROVE tohops' = path - hop'
      BY DEF Pass, Counted
    <3>1. tohops = path - hop /\ path < 256
      BY DEF IInv, Progress, Accepts, Counted
    <3>2. tohops \in 1..255
      BY <3>1, <1>3
    <3> QED
      BY <3>1, <3>2, <1>3, DecHopsCounts DEF Pass
  <2> QED
    BY <2>1, <2>2, <1>3 DEF Progress, Pass
<1>9. Spent'
  <2>1. exp' <= exp + q
    <3>1. ASSUME NEW x \in Nat PROVE x % U16 <= x
      BY U16Type, SMT
    <3> QED
      BY <3>1, <1>1, <1>3 DEF Pass
  <2>2. TenthMs * exp' <= TenthMs * (exp + q)
    BY <2>1, <1>1, <1>3, <1>6, SMT
  <2>3. TenthMs * (exp + q) = TenthMs * exp + TenthMs * q
    BY <1>1, <1>3, SMT
  <2>4. TenthMs * exp <= dwelt
    BY DEF IInv, Spent
  <2>5. ASSUME NEW a \in Nat PROVE TenthMs * a \in Nat
    BY <1>1, SMT
  <2>6. TenthMs * exp' <= dwelt + d
    <3> DEFINE e == TenthMs * exp  e1 == TenthMs * exp'  f == TenthMs * q
    <3>1. e \in Nat /\ e1 \in Nat /\ f \in Nat
      BY <2>5, <1>1, <1>3, <1>6
    <3>2. e1 <= e + f /\ e <= dwelt /\ f <= d
      BY <2>2, <2>3, <2>4, <1>1
    <3> HIDE DEF e, e1, f
    <3>3. e1 <= dwelt + d
      BY <3>1, <3>2, <1>3
    <3> QED
      BY <3>3 DEF e1
  <2> QED
    BY <2>6 DEF Spent, Pass
<1>10. Discarded'
  BY DEF Discarded, Pass
<1>11. ASSUME NEW a \in Nat PROVE TenthMs * a \in Nat
  BY <1>1, SMT
<1>12. OnTime'
  <2> SUFFICES ASSUME Sane(contract), ~late', contract.max > 0
               PROVE  /\ exp' + 10 * contract.todelay <= 10 * contract.max
                      /\ dwelt' <= TenthMs * exp' + hop' * (TenthMs - 1)
    BY DEF OnTime, Pass
  <2> DEFINE m == 10 * contract.max
             t == 10 * contract.todelay
             rem == m - (exp + t)
  <2>1. m \in Nat /\ t \in Nat /\ m > 0 /\ m < U16
          /\ Tenths(contract.max) = m /\ Tenths(contract.todelay) = t
    BY <1>2, SaneTenths DEF Sane
  <2>2. rem \in 0..U16-1 /\ rem \in Nat
    <3>1. exp + t <= m
      BY <2>1, <1>3 DEF Accepts, EarlyDiscard
    <3> QED
      BY <3>1, <2>1, <1>3, U16Type
  <2>3. LqMax(contract, exp, tohops) <= rem
    <3>1. LqMax(contract, exp, tohops) = (rem % U16) \div tohops
      BY <2>1 DEF LqMax, lbf_get_max_delay
    <3>2. rem % U16 = rem
      BY <2>2, U16Type, ModSmallOf
    <3>3. tohops \in Nat \ {0}
      BY <1>4, U16Type
    <3> HIDE DEF rem
    <3>4. rem \div tohops \in 0..rem
      BY <3>3, <2>2, DivShrinks
    <3> QED
      BY <3>1, <3>2, <3>4, <2>2
  <2>4. q <= rem
    <3>1. d <= LqMax(contract, exp, tohops) * TenthMs
      BY DEF Closes
    <3>2. q <= LqMax(contract, exp, tohops)
      BY <3>1, <1>1, <1>5, DivMonotone
    <3> QED
      BY <3>2, <2>3, <2>2, <1>1, <1>5
  <2>5. exp' = exp + q
    <3>1. exp + q \in 0..U16-1
      BY <2>4, <2>2, <2>1, <1>1, <1>3, U16Type
    <3> QED
      BY <3>1, U16Type, ModSmallOf DEF Pass
  <2>6. exp' + t <= m
    BY <2>4, <2>5, <2>1, <1>1, <1>3
  <2>7. dwelt' <= TenthMs * exp' + hop' * (TenthMs - 1)
    <3> DEFINE r == TenthMs - 1
    <3>1. dwelt <= TenthMs * exp + hop * r
      BY DEF IInv, OnTime
    <3>2. TenthMs * exp' = TenthMs * exp + TenthMs * q
      BY <2>5, <1>1, <1>3, SMT
    <3>3. hop' * r = hop * r + r
      BY <1>1, <1>3, SMT DEF Pass
    <3>4. TenthMs * exp \in Nat /\ TenthMs * q \in Nat
      BY <1>11, <1>1, <1>3
    <3>5. hop * r \in Nat /\ r \in Nat
      BY <1>1, <1>3, SMT
    <3>6. dwelt' = dwelt + d /\ d <= TenthMs * q + r
      BY <1>1 DEF Pass
    <3> QED
      BY <3>1, <3>2, <3>3, <3>4, <3>5, <3>6, <1>3
  <2> QED
    BY <2>6, <2>7
<1>13. Reached'
  <2> SUFFICES ASSUME hop + 1 = path, Counted, Sane(contract)
               PROVE  TenthMs * (10 * contract.min)
                        <= dwelt' + TenthMs * (10 * contract.todelay)
    BY DEF Reached, Pass, Counted
  <2> DEFINE n == 10 * contract.min
             t == 10 * contract.todelay
  <2>1. n \in Nat /\ t \in Nat
          /\ Tenths(contract.min) = n /\ Tenths(contract.todelay) = t
    BY <1>2, SaneTenths
  <2>2. tohops = 1
    BY <1>3 DEF IInv, Progress, Accepts
  <2>3. n <= exp + t + LqMin(contract, exp, tohops)
    <3>1. LqMin(contract, exp, tohops)
            = IF n > exp + t THEN (n - (exp + t)) \div 1 ELSE 0
      BY <2>1, <2>2 DEF LqMin, lbf_get_min_delay
    <3>2. ASSUME NEW x \in Nat PROVE x \div 1 = x
      BY SMT
    <3> QED
      BY <3>1, <3>2, <2>1, <1>3
  <2>4. LqMin(contract, exp, tohops) <= q
    <3>1. LqMin(contract, exp, tohops) * TenthMs <= d
      BY DEF Opens
    <3> QED
      BY <3>1, <1>1, <1>5, DivMonotone
  <2>5. n <= exp + t + q
    BY <2>3, <2>4, <2>1, <1>1, <1>3, <1>5
  <2>6. TenthMs * n <= TenthMs * (exp + t + q)
    BY <2>5, <2>1, <1>1, <1>3, SMT
  <2>7. TenthMs * (exp + t + q)
          = TenthMs * exp + TenthMs * t + TenthMs * q
    <3> HIDE DEF t, q
    <3> QED
      BY <2>1, <1>1, <1>3, Distributes
  <2>8. TenthMs * exp \in Nat /\ TenthMs * q \in Nat /\ TenthMs * t \in Nat
          /\ TenthMs * n \in Nat
    BY <1>11, <1>1, <1>3, <2>1
  <2>9. TenthMs * exp <= dwelt /\ dwelt' = dwelt + d
    BY DEF IInv, Spent, Pass
  <2> QED
    BY <2>6, <2>7, <2>8, <2>9, <1>1, <1>3
<1> QED
  BY <1>7, <1>8, <1>9, <1>10, <1>12, <1>13 DEF IInv

LEMMA StepIInv == IInv /\ [Next]_vars => IInv'
<1> SUFFICES ASSUME IInv, [Next]_vars PROVE IInv'
  OBVIOUS
<1>0. /\ TypeOK /\ tohops \in 0..U16-1 /\ path \in Nat /\ hop \in Nat
      /\ U16 \in Nat \ {0}
  BY PathsAssumption, U16Type DEF IInv, TypeOK
<1>1. CASE NoHops
  <2>1. TypeOK'
    BY <1>0, <1>1 DEF NoHops, TypeOK
  <2>2. Progress'
    <3>1. /\ status = "transit" /\ tohops = 0 /\ status' = "nohops"
          /\ UNCHANGED <<exp, tohops, path, hop, sent_tohops>>
      BY <1>1 DEF NoHops
    <3>2. /\ hop = 0 => exp = 0
          /\ hop < path
          /\ Counted => tohops = path - hop
      BY <3>1 DEF IInv, Progress
    <3>3. Counted' => Counted
      BY <3>1 DEF Counted
    <3> QED
      BY <3>1, <3>2, <3>3 DEF Progress
  <2>3. OnTime' /\ Spent'
    BY <1>1 DEF IInv, NoHops, OnTime, Spent
  <2>4. Reached' /\ Discarded'
    BY <1>1 DEF NoHops, Reached, Discarded
  <2> QED
    BY <2>1, <2>2, <2>3, <2>4 DEF IInv
<1>2. CASE DiscardEarly
  <2>1. TypeOK'
    BY <1>0, <1>2, DecHopsType DEF DiscardEarly, TypeOK
  <2>2. Progress'
    BY <1>2 DEF IInv, DiscardEarly, Progress
  <2>3. OnTime' /\ Spent'
    BY <1>2 DEF IInv, DiscardEarly, OnTime, Spent
  <2>4. Reached'
    BY <1>2 DEF DiscardEarly, Reached
  <2>5. Discarded'
    <3> SUFFICES ASSUME Sane(contract), ~late
                 PROVE  contract.todelay > contract.max
      BY <1>2 DEF Discarded, DiscardEarly
    <3>1. /\ contract.max \in Nat /\ contract.todelay \in Nat
          /\ contract \in Contracts
      BY <1>0, ContractsAssumption DEF TypeOK
    <3>2. /\ Tenths(contract.max) = 10 * contract.max
          /\ Tenths(contract.todelay) = 10 * contract.todelay
      BY <3>1, SaneTenths
    <3>3. /\ contract.max > 0
          /\ exp + 10 * contract.todelay > 10 * contract.max
      BY <1>2, <3>1, <3>2 DEF DiscardEarly, EarlyDiscard
    <3>4. ~(hop > 0)
      BY <3>1, <3>3, <1>0 DEF IInv, OnTime, TypeOK
    <3>5. exp = 0
      BY <3>4, <1>0 DEF IInv, Progress
    <3> QED
      BY <3>1, <3>3, <3>5
  <2> QED
    BY <2>1, <2>2, <2>3, <2>4, <2>5 DEF IInv
<1>3. ASSUME Accepts PROVE Opens \in Nat /\ Closes \in Nat
  <2>1. tohops \in 1..U16-1
    BY <1>0, <1>3 DEF Accepts
  <2>2. /\ LqMin(contract, exp, tohops) \in Nat
        /\ LqMax(contract, exp, tohops) \in Nat
    BY <1>0, <2>1, HopShareType DEF TypeOK
  <2>3. ASSUME NEW a \in Nat PROVE a * TenthMs \in Nat
    BY TenthMsAssumption, SMT
  <2> QED
    BY <2>2, <2>3 DEF Opens, Closes
<1>4. CASE Hop
  <2>1. PICK d \in Opens .. Opens + MaxDwell :
               d <= Closes /\ Pass(d) /\ UNCHANGED late
    BY <1>4 DEF Hop
  <2>2. Accepts /\ d \in Nat /\ Opens <= d
    BY <1>3, <1>4, <2>1, BoundsAssumption DEF Hop
  <2>3. late' \in BOOLEAN /\ (~late' => ~late /\ d <= Closes)
    BY <1>0, <2>1 DEF TypeOK
  <2> QED
    BY <2>1, <2>2, <2>3, PassStep
<1>6. CASE LateHop
  <2>1. PICK d \in Closes + 1 .. Closes + MaxLate :
               Opens <= d /\ Pass(d) /\ late' = TRUE
    BY <1>6 DEF LateHop
  <2>2. Accepts /\ d \in Nat
    BY <1>3, <1>6, <2>1, BoundsAssumption DEF LateHop
  <2> QED
    BY <2>1, <2>2, PassStep
<1>5. CASE UNCHANGED vars
  BY <1>5 DEF vars, IInv, TypeOK, Progress, OnTime, Reached, Spent,
              Discarded, Counted
<1> QED
  BY <1>1, <1>2, <1>4, <1>5, <1>6 DEF Next

LEMMA IInvHolds == Spec => []IInv
<1>1. Init => IInv
  BY InitIInv
<1>2. IInv /\ [Next]_vars => IInv'
  BY StepIInv
<1> QED
  BY <1>1, <1>2, PTL DEF Spec

(***************************************************************************)
(* The state of the packet keeps its types: every field sch_lbf.c stores   *)
(* fits the 16 bits of its header.                                         *)
(***************************************************************************)
THEOREM TypeCorrect == Spec => []TypeOK
<1>1. IInv => TypeOK
  BY DEF IInv
<1> QED
  BY <1>1, IInvHolds, PTL

(***************************************************************************)
(* End to end, for every sane contract and every chain of fewer than 256   *)
(* routers: no hop late and the routers counted right, a delivered packet  *)
(* has spent between min_delay and max_delay, rounding aside.              *)
(***************************************************************************)
THEOREM EndToEnd == Spec => []DeliveredInWindow
<1>1. IInv => DeliveredInWindow
  <2> SUFFICES ASSUME IInv, status = "delivered", ~late, Counted,
                      Sane(contract)
               PROVE  /\ contract.min * 10 * TenthMs
                           <= dwelt + contract.todelay * 10 * TenthMs
                      /\ contract.max > 0 =>
                           dwelt + contract.todelay * 10 * TenthMs
                             <= contract.max * 10 * TenthMs
                                  + path * (TenthMs - 1)
    BY DEF DeliveredInWindow
  <2>1. /\ contract.min \in Nat /\ contract.max \in Nat
        /\ contract.todelay \in Nat /\ TenthMs \in Nat \ {0}
        /\ exp \in Nat /\ dwelt \in Nat /\ path \in Nat \ {0}
    BY ContractsAssumption, TenthMsAssumption, PathsAssumption, U16Type
       DEF IInv, TypeOK
  <2>2. /\ contract.min * 10 * TenthMs = TenthMs * (10 * contract.min)
        /\ contract.max * 10 * TenthMs = TenthMs * (10 * contract.max)
        /\ contract.todelay * 10 * TenthMs = TenthMs * (10 * contract.todelay)
    BY <2>1, Rearranges
  <2>3. TenthMs * (10 * contract.min)
          <= dwelt + TenthMs * (10 * contract.todelay)
    BY DEF IInv, Reached
  <2>4. ASSUME contract.max > 0
        PROVE  dwelt + TenthMs * (10 * contract.todelay)
                 <= TenthMs * (10 * contract.max) + path * (TenthMs - 1)
    <3> DEFINE m == 10 * contract.max
               t == 10 * contract.todelay
               r == path * (TenthMs - 1)
    <3>1. exp + t <= m /\ m \in Nat /\ t \in Nat /\ r \in Nat
      BY <2>1, <2>4 DEF IInv, OnTime, Progress
    <3>2. dwelt <= TenthMs * exp + r
      BY <2>4 DEF IInv, OnTime, Progress
    <3> HIDE DEF m, t, r
    <3>3. TenthMs * (exp + t) <= TenthMs * m
      BY <3>1, <2>1, SMT
    <3>4. TenthMs * (exp + t) = TenthMs * exp + TenthMs * t
      BY <3>1, <2>1, SMT
    <3>5. TenthMs * exp \in Nat /\ TenthMs * t \in Nat /\ TenthMs * m \in Nat
      BY <3>1, <2>1, SMT
    <3>6. dwelt + TenthMs * t <= TenthMs * m + r
      BY <3>1, <3>2, <3>3, <3>4, <3>5, <2>1
    <3> QED
      BY <3>6 DEF m, t, r
  <2> QED
    BY <2>2, <2>3, <2>4
<1> QED
  BY <1>1, IInvHolds, PTL

(***************************************************************************)
(* The early discard never hits a packet that was on time at every hop     *)
(* before, unless its links alone exceed the maximum.                      *)
(***************************************************************************)
THEOREM DiscardJustified == Spec => []DiscardedOnlyWhenLate
<1>1. IInv => DiscardedOnlyWhenLate
  BY DEF IInv, Discarded, DiscardedOnlyWhenLate
<1> QED
  BY <1>1, IInvHolds, PTL

(***************************************************************************)
(* A packet whose routers were counted right never runs out of hops.       *)
(***************************************************************************)
THEOREM HopsAreEnough == Spec => []HopsSuffice
<1>1. IInv => HopsSuffice
  <2> SUFFICES ASSUME IInv, Counted, status = "nohops" PROVE FALSE
    BY DEF HopsSuffice
  <2>1. path \in Nat /\ hop \in Nat
    BY PathsAssumption DEF IInv, TypeOK
  <2> QED
    BY <2>1 DEF IInv, Progress
<1> QED
  BY <1>1, IInvHolds, PTL

(***************************************************************************)
(* The window of a hop that accepts the packet does not close before it    *)
(* opens: both shares divide what is left of a bound by the same hops.     *)
(***************************************************************************)
THEOREM WindowsOpen == Spec => []PathSound
<1>1. IInv => WindowOpens
  <2> SUFFICES ASSUME IInv, Accepts, Sane(contract), contract.max > 0
               PROVE  LqMin(contract, exp, tohops) <= LqMax(contract, exp, tohops)
    BY DEF WindowOpens
  <2>1. /\ contract.min \in Nat /\ contract.max \in Nat /\ contract.todelay \in Nat
        /\ contract.min <= contract.max /\ 10 * contract.max < U16
        /\ exp \in Nat /\ tohops \in Nat \ {0}
    BY ContractsAssumption, U16Type DEF IInv, TypeOK, Accepts, Sane
  <2> DEFINE m == 10 * contract.min
             M == 10 * contract.max
             e == exp + 10 * contract.todelay
  <2>2. /\ Tenths(contract.min) = m /\ Tenths(contract.max) = M
        /\ exp + Tenths(contract.todelay) = e
    BY SaneTenths DEF IInv, TypeOK
  <2>3. m \in Nat /\ M \in Nat /\ e \in Nat /\ m <= M /\ M > 0 /\ M < U16
    BY <2>1
  <2>4. e <= M
    BY <2>2, <2>3 DEF Accepts, EarlyDiscard
  <2>5. LqMin(contract, exp, tohops) = IF m > e THEN (m - e) \div tohops ELSE 0
    BY <2>2 DEF LqMin, lbf_get_min_delay
  <2>6. LqMax(contract, exp, tohops) = ((M - e) % U16) \div tohops
    BY <2>2, <2>3 DEF LqMax, lbf_get_max_delay
  <2> HIDE DEF m, M, e
  <2>7. M - e \in 0..U16-1 /\ M - e \in Nat
    BY <2>3, <2>4, U16Type
  <2>8. (M - e) % U16 = M - e
    BY <2>7, U16Type, ModSmallOf
  <2>9. (M - e) \div tohops \in Nat
    BY <2>7, <2>1, DivBounds
  <2>10. CASE m > e
    <3>1. m - e \in Nat /\ m - e <= M - e
      BY <2>3, <2>10
    <3>2. (m - e) \div tohops <= (M - e) \div tohops
      BY <3>1, <2>7, <2>1, DivGrows
    <3> QED
      BY <3>2, <2>5, <2>6, <2>8, <2>10
  <2>11. CASE ~(m > e)
    BY <2>5, <2>6, <2>8, <2>9, <2>11
  <2> QED
    BY <2>10, <2>11
<1>2. IInv => PathSound
  BY <1>1 DEF IInv, PathSound
<1> QED
  BY <1>2, IInvHolds, PTL

(***************************************************************************)
(* Both together: the contract is kept, and no packet is given up that     *)
(* could have kept it.                                                     *)
(***************************************************************************)
THEOREM ContractIsKept == Spec => []ContractKept
<1>1. DeliveredInWindow /\ DiscardedOnlyWhenLate => ContractKept
  BY DEF ContractKept
<1> QED
  BY <1>1, EndToEnd, DiscardJustified, PTL
=============================================================================
