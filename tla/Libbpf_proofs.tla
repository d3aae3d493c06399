---------------------------- MODULE Libbpf_proofs ----------------------------
(***************************************************************************)
(* What libbpf asks of the kernel: links and skeletons, netlink, the       *)
(* loading of a program, and pins.                                         *)
(***************************************************************************)
EXTENDS BpfLink, BpfNetlink, BpfProgLoad, BpfPin, SequenceTheorems, FiniteSetTheorems, WellFoundedInduction, TLAPS

(***************************************************************************)
(* Links, for any programs, ways to attach them and number of descriptors. *)
(***************************************************************************)
LinkAssumption == ProgsAssumption /\ MaxFd \in Nat

Attached == Progs \cup {StOps}
Tags == {Free, <<"other">>} \cup ({"obj"} \X Attached) \cup ({"perf", "link"} \X Progs)
Links == [fd : Int, of : Attached \cup {"none"},
          how : {"none", "error", "perf", "fd", "struct_ops"},
          disconnected : BOOLEAN, path : BOOLEAN]

LinkTypes ==
  /\ fdtab \in [0..MaxFd - 1 -> Tags]
  /\ links \in [Names -> Links]
  /\ pin \in {Free} \cup ({"link"} \X Progs)
  /\ enabled \subseteq Attached

(* A live link of a program or a path has a descriptor, a struct_ops link  *)
(* is StOps's; and what is disconnected was given away.                    *)
LinkFine(l) ==
  Live(l) =>
    /\ links[l].fd \in 0..MaxFd - 1
    /\ fdtab[links[l].fd] \in Refers(l)
    /\ IF links[l].how = "struct_ops" THEN l = StOps /\ links[l].of = StOps
       ELSE l # StOps /\ links[l].of \in Progs
    /\ links[l].disconnected => links[l].of \in given

(* No two links have one descriptor: destroying one spares the other.      *)
Distinct ==
  \A l, m \in Names : Live(l) /\ Live(m) /\ l # m => links[l].fd # links[m].fd

(* The map of struct_ops is open while the object is loaded.               *)
MapIsOpen ==
  skel \in {"loaded", "attached"} => \E n \in 0..MaxFd - 1 : fdtab[n] = <<"obj", StOps>>

LinkInv ==
  /\ LinkTypes /\ (\A l \in Names : LinkFine(l)) /\ Distinct /\ MapIsOpen
  /\ NoneLost /\ RunsByRight

(* A descriptor that is not used can be chosen, the lowest.                *)
LEMMA LowestUnused ==
  ASSUME LinkAssumption, LinkTypes, Unused # {}
  PROVE  /\ Min(Unused) \in 0..MaxFd - 1
         /\ fdtab[Min(Unused)] = Free
<1>1. Unused \subseteq 0..MaxFd - 1 /\ \A n \in Unused : fdtab[n] = Free
  BY DEF Unused, LinkTypes
<1>2. Unused \in SUBSET Nat
  BY <1>1
<1> DEFINE R == OpToRel(<, Nat)
<1>3. PICK x \in Unused : \A y \in Unused : ~(<<y, x>> \in R)
  BY <1>2, NatLessThanWellFounded, WFMin
<1>4. \A a \in Nat, b \in Nat : <<b, a>> \in R <=> b < a
  BY DEF OpToRel
<1>5. \A y \in Unused : ~(y < x)
  BY <1>2, <1>3, <1>4
<1>6. \A y \in Unused : x <= y
  BY <1>2, <1>5
<1>7. Min(Unused) \in Unused
  BY <1>6 DEF Min
<1> QED
  BY <1>1, <1>7

LEMMA LinkInit ==
  ASSUME LinkAssumption, Init
  PROVE  LinkInv
<1>1. /\ fdtab = [n \in 0..MaxFd - 1 |-> Free]
      /\ links = [l \in Names |-> NoLink]
      /\ pin = Free /\ enabled = {} /\ given = {} /\ skel = "open"
  BY DEF Init
<1>2. NoLink \in Links /\ NoLink.how = "none"
  BY DEF NoLink, Links
<1>3. LinkTypes
  BY <1>1, <1>2 DEF LinkTypes, Tags
<1>4. \A l \in Names : ~Live(l)
  BY <1>1, <1>2 DEF Live
<1>5. \A n \in DOMAIN fdtab : fdtab[n][1] = "free"
  BY <1>1 DEF Free
<1> QED
  BY <1>1, <1>3, <1>4, <1>5 DEF LinkInv, LinkFine, Distinct, MapIsOpen, NoneLost, RunsByRight

(* What the tags of descriptors tell.                                      *)
LEMMA TagsTell ==
  ASSUME NEW t \in Tags
  PROVE  /\ t[1] = "perf" \/ t[1] = "link" => t[2] \in Progs /\ t = <<t[1], t[2]>>
         /\ t # Free \/ t[1] = "free"
         /\ t = Free => t[1] = "free"
BY DEF Tags, Free

(* A live link's descriptor is not free, and tells its kind.               *)
LEMMA RefersTell ==
  ASSUME NEW l \in Names, LinkTypes, LinkFine(l), Live(l)
  PROVE  /\ links[l].how = "perf" => fdtab[links[l].fd] = <<"perf", links[l].of>>
         /\ links[l].how = "fd" => fdtab[links[l].fd] = <<"link", links[l].of>>
         /\ links[l].how = "struct_ops" => fdtab[links[l].fd] = <<"obj", StOps>>
         /\ links[l].how \in {"perf", "fd", "struct_ops"}
         /\ fdtab[links[l].fd][1] \in {"perf", "link", "obj"}
<1>1. links[l] \in Links
  BY DEF LinkTypes
<1>2. links[l].how \in {"perf", "fd", "struct_ops"}
  BY <1>1 DEF Live, Links
<1> QED
  BY <1>2 DEF LinkFine, Refers

(* Descriptors change that no link has.                                    *)
LEMMA OtherFds ==
  ASSUME LinkInv, UNCHANGED <<links, pin, enabled, given>>,
         fdtab' \in [0..MaxFd - 1 -> Tags],
         \A l \in Names : Live(l) => fdtab'[links[l].fd] = fdtab[links[l].fd],
         \A n \in 0..MaxFd - 1 : fdtab'[n] = fdtab[n] \/ fdtab'[n][1] \notin {"perf", "link"},
         MapIsOpen'
  PROVE  LinkInv'
<1>1. LinkTypes' /\ Distinct'
  BY DEF LinkInv, LinkTypes, Distinct, Live
<1>2. \A l \in Names : Refers(l)' = Refers(l) /\ Live(l)' = Live(l)
  BY DEF Refers, Live
<1>3. ASSUME NEW l \in Names PROVE LinkFine(l)'
  <2>1. LinkFine(l)
    BY DEF LinkInv
  <2> QED
    BY <1>2, <2>1 DEF LinkFine
<1>4. NoneLost'
  <2>1. DOMAIN fdtab = 0..MaxFd - 1 /\ DOMAIN fdtab' = 0..MaxFd - 1
    BY DEF LinkInv, LinkTypes
  <2>2. NoneLost
    BY DEF LinkInv
  <2> QED
    BY <1>2, <2>1, <2>2 DEF NoneLost
<1>5. RunsByRight'
  <2>1. RunsByRight
    BY DEF LinkInv
  <2> QED
    BY <1>2, <2>1 DEF RunsByRight
<1> QED
  BY <1>1, <1>3, <1>4, <1>5 DEF LinkInv

LEMMA SkeletonLoad ==
  ASSUME LinkAssumption, LinkInv, bpf_object__load_skeleton
  PROVE  LinkInv'
<1>1. PICK f \in [Autoload \cup {StOps} -> Unused] :
        /\ IsInjective(f)
        /\ fdtab' = [n \in DOMAIN fdtab |->
             IF \E t \in DOMAIN f : f[t] = n THEN <<"obj", CHOOSE t \in DOMAIN f : f[t] = n>>
                                             ELSE fdtab[n]]
  BY DEF bpf_object__load_skeleton
<1>2. /\ skel' = "loaded" /\ UNCHANGED <<links, pin, enabled, given>>
  BY DEF bpf_object__load_skeleton
<1>3. /\ LinkTypes /\ fdtab \in [0..MaxFd - 1 -> Tags] /\ DOMAIN f \subseteq Attached
      /\ StOps \in DOMAIN f
  BY DEF LinkInv, LinkTypes, LinkAssumption, ProgsAssumption, Attached
<1>4. \A t \in DOMAIN f : f[t] \in 0..MaxFd - 1 /\ fdtab[f[t]] = Free
  BY <1>3 DEF Unused
<1>5. \A n \in 0..MaxFd - 1 :
        IF \E t \in DOMAIN f : f[t] = n THEN \E t \in DOMAIN f : f[t] = n /\ fdtab'[n] = <<"obj", t>>
                                        ELSE fdtab'[n] = fdtab[n]
  BY <1>1, <1>3
<1>6. \A n \in 0..MaxFd - 1 : fdtab'[n] \in Tags /\ (fdtab'[n] = fdtab[n] \/ fdtab'[n][1] = "obj")
  <2> TAKE n \in 0..MaxFd - 1
  <2>1. CASE \E t \in DOMAIN f : f[t] = n
    <3>1. PICK t \in DOMAIN f : fdtab'[n] = <<"obj", t>>
      BY <1>5, <2>1
    <3> QED
      BY <1>3, <3>1 DEF Tags
  <2>2. CASE ~(\E t \in DOMAIN f : f[t] = n)
    BY <1>3, <1>5, <2>2
  <2> QED
    BY <2>1, <2>2
<1>7. fdtab' \in [0..MaxFd - 1 -> Tags]
  BY <1>1, <1>3, <1>6
<1>8. ASSUME NEW l \in Names, Live(l) PROVE fdtab'[links[l].fd] = fdtab[links[l].fd]
  <2>1. LinkFine(l)
    BY DEF LinkInv
  <2>2. links[l].fd \in 0..MaxFd - 1 /\ fdtab[links[l].fd] # Free
    BY <1>3, <1>8, <2>1, RefersTell, TagsTell DEF LinkFine
  <2> QED
    BY <1>4, <1>5, <2>2
<1>9. MapIsOpen'
  <2>1. PICK n \in 0..MaxFd - 1 : n = f[StOps]
    BY <1>3, <1>4
  <2>2. PICK t \in DOMAIN f : f[t] = n /\ fdtab'[n] = <<"obj", t>>
    BY <1>3, <1>5, <2>1
  <2>3. t = StOps
    BY <1>1, <1>3, <2>1, <2>2 DEF IsInjective
  <2> QED
    BY <2>2, <2>3 DEF MapIsOpen
<1> QED
  BY <1>2, <1>6, <1>7, <1>8, <1>9, OtherFds

LEMMA SkeletonClose ==
  ASSUME LinkAssumption, LinkInv, Close
  PROVE  LinkInv'
<1>1. /\ fdtab' = [n \in DOMAIN fdtab |-> IF fdtab[n][1] = "obj" THEN Free ELSE fdtab[n]]
      /\ skel' = "gone" /\ links[StOps] = NoLink
      /\ UNCHANGED <<links, pin, enabled, given>>
  BY DEF Close
<1>2. LinkTypes /\ fdtab \in [0..MaxFd - 1 -> Tags] /\ Free \in Tags /\ Free[1] = "free"
  BY DEF LinkInv, LinkTypes, Tags, Free
<1>3. fdtab' \in [0..MaxFd - 1 -> Tags]
  BY <1>1, <1>2
<1>4. \A n \in 0..MaxFd - 1 : fdtab'[n] = IF fdtab[n][1] = "obj" THEN Free ELSE fdtab[n]
  BY <1>1, <1>2
<1>5. ASSUME NEW l \in Names, Live(l) PROVE fdtab'[links[l].fd] = fdtab[links[l].fd]
  <2>1. LinkFine(l) /\ links[l].fd \in 0..MaxFd - 1
    BY <1>5 DEF LinkInv, LinkFine
  <2>2. l # StOps
    BY <1>1, <1>5 DEF Live, NoLink
  <2>3. links[l].how # "struct_ops"
    BY <1>5, <2>1, <2>2 DEF LinkFine
  <2>4. fdtab[links[l].fd][1] # "obj"
    BY <1>2, <1>5, <2>1, <2>3, RefersTell
  <2> QED
    BY <1>4, <2>1, <2>4
<1>6. MapIsOpen'
  BY <1>1 DEF MapIsOpen
<1> QED
  BY <1>1, <1>2, <1>3, <1>4, <1>5, <1>6, OtherFds

LEMMA OtherOpen ==
  ASSUME LinkAssumption, LinkInv, Other
  PROVE  LinkInv'
<1>1. UNCHANGED <<skel, links, pin, enabled, given>>
  BY DEF Other
<1>2. LinkTypes /\ fdtab \in [0..MaxFd - 1 -> Tags]
  BY DEF LinkInv, LinkTypes
<1>3. PICK n \in 0..MaxFd - 1, t \in {Free, <<"other">>} :
        fdtab[n] \in {Free, <<"other">>} /\ fdtab' = [fdtab EXCEPT ![n] = t]
  <2>1. CASE Unused # {} /\ fdtab' = [fdtab EXCEPT ![Min(Unused)] = <<"other">>]
    BY <1>2, <2>1, LowestUnused
  <2>2. CASE \E n \in DOMAIN fdtab : fdtab[n] = <<"other">> /\ fdtab' = [fdtab EXCEPT ![n] = Free]
    BY <1>2, <2>2
  <2> QED
    BY <2>1, <2>2 DEF Other
<1>4. t \in Tags /\ t[1] \in {"free", "other"} /\ fdtab[n][1] \in {"free", "other"}
  BY <1>3 DEF Tags, Free
<1>5. fdtab' \in [0..MaxFd - 1 -> Tags] /\ fdtab'[n] = t /\ \A k \in 0..MaxFd - 1 : k # n => fdtab'[k] = fdtab[k]
  BY <1>2, <1>3, <1>4
<1>6. ASSUME NEW l \in Names, Live(l) PROVE fdtab'[links[l].fd] = fdtab[links[l].fd]
  <2>1. LinkFine(l) /\ links[l].fd \in 0..MaxFd - 1
    BY <1>6 DEF LinkInv, LinkFine
  <2>2. links[l].fd # n
    BY <1>2, <1>4, <1>6, <2>1, RefersTell
  <2> QED
    BY <1>5, <2>1, <2>2
<1>7. MapIsOpen'
  <2> SUFFICES ASSUME skel \in {"loaded", "attached"}
               PROVE  \E k \in 0..MaxFd - 1 : fdtab'[k] = <<"obj", StOps>>
    BY <1>1 DEF MapIsOpen
  <2>1. PICK k \in 0..MaxFd - 1 : fdtab[k] = <<"obj", StOps>>
    BY DEF LinkInv, MapIsOpen
  <2>2. k # n
    BY <1>4, <2>1
  <2> QED
    BY <1>5, <2>1, <2>2
<1> QED
  BY <1>1, <1>4, <1>5, <1>6, <1>7, OtherFds

(* A link is made with a descriptor of its own.                            *)
LEMMA NewLink ==
  ASSUME LinkAssumption, LinkInv, NEW n \in 0..MaxFd - 1, fdtab[n] = Free,
         NEW l \in Names \ {StOps}, ~Live(l),
         NEW r \in Links, r.fd = n, r.of \in Progs, ~r.disconnected,
         NEW t, \/ r.how = "perf" /\ t = <<"perf", r.of>>
                \/ r.how = "fd" /\ t = <<"link", r.of>>,
         fdtab' = [fdtab EXCEPT ![n] = t], links' = [links EXCEPT ![l] = r],
         enabled' \subseteq enabled \cup {r.of}, UNCHANGED <<skel, pin, given>>
  PROVE  LinkInv'
<1>1. LinkTypes /\ fdtab \in [0..MaxFd - 1 -> Tags] /\ links \in [Names -> Links]
  BY DEF LinkInv, LinkTypes
<1>2. t \in Tags /\ t[2] = r.of /\ t[1] \in {"perf", "link"}
  BY DEF Tags
<1>3. fdtab' \in [0..MaxFd - 1 -> Tags] /\ fdtab'[n] = t /\ \A k \in 0..MaxFd - 1 : k # n => fdtab'[k] = fdtab[k]
  BY <1>1, <1>2
<1>4. links' \in [Names -> Links] /\ links'[l] = r /\ \A k \in Names : k # l => links'[k] = links[k]
  BY <1>1
<1>5. LinkTypes'
  BY <1>1, <1>3, <1>4 DEF LinkTypes, Attached
<1>6. \A k \in Names : k # l => Live(k)' = Live(k) /\ Refers(k)' = Refers(k)
  BY <1>4 DEF Live, Refers
<1>7. Live(l)' /\ t \in Refers(l)'
  BY <1>4 DEF Live, Refers
<1>8. ASSUME NEW k \in Names, k # l, Live(k)
      PROVE  LinkFine(k) /\ links[k].fd \in 0..MaxFd - 1 /\ links[k].fd # n
  <2>1. LinkFine(k) /\ links[k].fd \in 0..MaxFd - 1
    BY <1>8 DEF LinkInv, LinkFine
  <2>2. fdtab[links[k].fd][1] # "free"
    BY <1>1, <1>8, <2>1, RefersTell
  <2> QED
    BY <2>1, <2>2 DEF Free
<1>9. ASSUME NEW k \in Names PROVE LinkFine(k)'
  <2>1. CASE k = l
    BY <1>3, <1>4, <1>7, <2>1 DEF LinkFine
  <2>2. CASE k # l
    BY <1>3, <1>4, <1>6, <1>8, <2>2 DEF LinkFine
  <2> QED
    BY <2>1, <2>2
<1>10. Distinct'
  <2> SUFFICES ASSUME NEW k \in Names, NEW m \in Names, Live(k)', Live(m)', k # m
               PROVE  links'[k].fd # links'[m].fd
    BY DEF Distinct
  <2>1. CASE k # l /\ m # l
    BY <1>4, <1>6, <2>1 DEF LinkInv, Distinct
  <2>2. CASE k = l \/ m = l
    BY <1>4, <1>6, <1>8, <2>2
  <2> QED
    BY <2>1, <2>2
<1>11. MapIsOpen'
  <2> SUFFICES ASSUME skel \in {"loaded", "attached"}
               PROVE  \E k \in 0..MaxFd - 1 : fdtab'[k] = <<"obj", StOps>>
    BY DEF MapIsOpen
  <2>1. PICK k \in 0..MaxFd - 1 : fdtab[k] = <<"obj", StOps>>
    BY DEF LinkInv, MapIsOpen
  <2>2. k # n
    BY <2>1 DEF Free
  <2> QED
    BY <1>3, <2>1, <2>2
<1>12. NoneLost'
  <2> SUFFICES ASSUME NEW k \in 0..MaxFd - 1, fdtab'[k][1] \in {"perf", "link"}
               PROVE  fdtab'[k][2] \in given \/ \E m \in Names : Live(m)' /\ links'[m].fd = k
    BY <1>3 DEF NoneLost
  <2>1. CASE k = n
    BY <1>4, <1>7, <2>1
  <2>2. CASE k # n
    <3>1. fdtab[k] = fdtab'[k] /\ k \in DOMAIN fdtab
      BY <1>1, <1>3, <2>2
    <3>2. CASE fdtab[k][2] \in given
      BY <3>1, <3>2
    <3>3. CASE \E m \in Names : Live(m) /\ links[m].fd = k
      BY <1>4, <1>6, <3>3
    <3> QED
      BY <3>1, <3>2, <3>3 DEF LinkInv, NoneLost
  <2> QED
    BY <2>1, <2>2
<1>13. RunsByRight'
  <2> SUFFICES ASSUME NEW p \in enabled'
               PROVE  \/ p \in given \/ pin = <<"link", p>>
                      \/ \E k \in Names : Live(k)' /\ links'[k].of = p
    BY DEF RunsByRight
  <2>1. CASE p = r.of
    BY <1>4, <1>7, <2>1
  <2>2. CASE p # r.of
    <3>1. CASE p \in given \/ pin = <<"link", p>>
      BY <3>1
    <3>2. CASE \E k \in Names : Live(k) /\ links[k].of = p
      BY <1>4, <1>6, <3>2
    <3> QED
      BY <2>2, <3>1, <3>2 DEF LinkInv, RunsByRight
  <2> QED
    BY <2>1, <2>2
<1> QED
  BY <1>5, <1>9, <1>10, <1>11, <1>12, <1>13 DEF LinkInv

(* The links stay what they are but for what is said about their future.   *)
LEMMA SameLinks ==
  ASSUME LinkInv, UNCHANGED fdtab, LinkTypes', MapIsOpen', given \subseteq given',
         \A l \in Names :
           /\ Live(l)' = Live(l)
           /\ Live(l) => /\ links'[l].fd = links[l].fd /\ links'[l].of = links[l].of
                         /\ links'[l].how = links[l].how
                         /\ links'[l].disconnected => links[l].disconnected \/ links[l].of \in given'
  PROVE  /\ \A l \in Names : LinkFine(l)'
         /\ NoneLost'
         /\ RunsByRight' => LinkInv'
<1>1. \A l \in Names : Live(l) => Refers(l)' = Refers(l)
  BY DEF Refers
<1>2. ASSUME NEW l \in Names PROVE LinkFine(l)'
  <2>1. LinkFine(l)
    BY DEF LinkInv
  <2> QED
    BY <1>1, <2>1 DEF LinkFine
<1>3. Distinct'
  BY DEF LinkInv, Distinct
<1>4. NoneLost'
  BY DEF LinkInv, NoneLost
<1> QED
  BY <1>2, <1>3, <1>4 DEF LinkInv

(* A program whose event or link is open still runs by right.              *)
LEMMA StillRuns ==
  ASSUME LinkTypes', \A l \in Names : LinkFine(l)', NoneLost',
         NEW p \in Progs, {<<"link", p>>, <<"perf", p>>} \cap Refs(fdtab, pin)' # {}
  PROVE  \/ p \in given' \/ pin' = <<"link", p>>
         \/ \E l \in Names : Live(l)' /\ links'[l].of = p
<1>1. PICK t \in {<<"link", p>>, <<"perf", p>>} : t = pin' \/ \E n \in DOMAIN fdtab' : t = fdtab'[n]
  BY DEF Refs
<1>2. CASE t = pin'
  <2>1. pin' # <<"perf", p>>
    BY DEF LinkTypes, Free
  <2> QED
    BY <1>1, <1>2, <2>1
<1>3. CASE \E n \in DOMAIN fdtab' : t = fdtab'[n]
  <2>1. PICK n \in DOMAIN fdtab' : t = fdtab'[n]
    BY <1>3
  <2>2. fdtab'[n][1] \in {"perf", "link"} /\ fdtab'[n][2] = p
    BY <1>1, <2>1
  <2>3. CASE p \in given'
    BY <2>3
  <2>4. CASE \E l \in Names : Live(l)' /\ links'[l].fd = n
    <3>1. PICK l \in Names : Live(l)' /\ links'[l].fd = n
      BY <2>4
    <3>2. fdtab'[n] \in Refers(l)'
      BY <3>1 DEF LinkFine
    <3>3. fdtab'[n][2] = links'[l].of
      BY <2>2, <3>2 DEF Refers, LinkFine
    <3>4. links'[l].of = p
      BY <2>2, <3>3
    <3> QED
      BY <3>1, <3>4
  <2> QED
    BY <2>2, <2>3, <2>4 DEF NoneLost
<1> QED
  BY <1>1, <1>2, <1>3

LEMMA NewRecord ==
  ASSUME NEW n \in Int, NEW p \in Attached, NEW how \in {"perf", "fd", "struct_ops"}
  PROVE  /\ New(n, p, how) \in Links
         /\ New(n, p, how).fd = n /\ New(n, p, how).of = p
         /\ New(n, p, how).how = how /\ New(n, p, how).disconnected = FALSE
<1>1. NoLink \in Links /\ NoLink.disconnected = FALSE
  BY DEF NoLink, Links
<1>2. New(n, p, how) = [NoLink EXCEPT !.fd = n, !.of = p, !.how = how]
  BY DEF New
<1> QED
  BY <1>1, <1>2 DEF Links

LEMMA ErrRecord == ErrLink \in Links /\ ErrLink.how = "error"
<1>1. NoLink \in Links
  BY DEF NoLink, Links
<1>2. ErrLink = [NoLink EXCEPT !.how = "error"]
  BY DEF ErrLink
<1> QED
  BY <1>1, <1>2 DEF Links

LEMMA AttachKeepsLinks ==
  ASSUME LinkAssumption, LinkInv, NEW p \in Progs, NEW what, NEW how,
         \/ what = "perf" /\ how = "perf"
         \/ what = "link" /\ how = "fd",
         links[p] = NoLink, Attach(p, what, how), UNCHANGED <<skel, pin, given>>
  PROVE  LinkInv'
<1>1. PICK n : n = Min(Unused)
  OBVIOUS
<1>2. PICK r : r = New(n, p, how)
  OBVIOUS
<1>3. /\ Unused # {} /\ fdtab' = [fdtab EXCEPT ![n] = <<what, p>>]
      /\ links' = [links EXCEPT ![p] = r] /\ enabled' = enabled \cup {p}
  BY <1>1, <1>2 DEF Attach
<1>4. n \in 0..MaxFd - 1 /\ fdtab[n] = Free
  BY <1>1, <1>3, LowestUnused DEF LinkInv
<1>5. n \in Int /\ p \in Attached /\ how \in {"perf", "fd", "struct_ops"}
  BY <1>4 DEF Attached
<1>6. r \in Links /\ r.fd = n /\ r.of = p /\ r.how = how /\ r.disconnected = FALSE
  <2>1. r = [NoLink EXCEPT !.fd = n, !.of = p, !.how = how]
    BY <1>2 DEF New
  <2>2. NoLink \in Links /\ NoLink.disconnected = FALSE
    BY DEF NoLink, Links
  <2>3. r.fd = n /\ r.how = how /\ r.disconnected = FALSE
    BY <2>1, <2>2 DEF Links
  <2>4. r.of = p
    BY <2>1, <2>2 DEF Links
  <2>5. r \in Links
    BY <1>5, <2>1, <2>2 DEF Links
  <2> QED
    BY <2>3, <2>4, <2>5
<1>7. p \in Names \ {StOps} /\ ~Live(p)
  BY DEF Names, LinkAssumption, ProgsAssumption, Live, NoLink
<1> QED
  BY <1>3, <1>4, <1>6, <1>7, NewLink

LEMMA SkeletonAttach ==
  ASSUME LinkAssumption, LinkInv, bpf_object__attach_skeleton
  PROVE  LinkInv'
<1>1. UNCHANGED <<kind, pin, given>> /\ LinkTypes
  BY DEF bpf_object__attach_skeleton, LinkInv
<1>2. PICK p \in ToAttach :
        \/ /\ \/ bpf_program__attach_kprobe(p) \/ bpf_program__attach_tracepoint(p)
              \/ bpf_program__attach_raw_tracepoint(p) \/ bpf_program__attach_fd(p)
           /\ UNCHANGED skel
        \/ links' = [links EXCEPT ![p] = ErrLink] /\ skel' = "attached" /\ UNCHANGED <<fdtab, enabled>>
  BY DEF bpf_object__attach_skeleton
<1>3. p \in Progs /\ links[p] = NoLink /\ p \in Names
  BY DEF ToAttach, LinkAssumption, ProgsAssumption, Names
<1>4. CASE UNCHANGED skel /\ (Attach(p, "perf", "perf") \/ Attach(p, "link", "fd"))
  BY <1>1, <1>3, <1>4, AttachKeepsLinks
<1>5. CASE links' = [links EXCEPT ![p] = ErrLink] /\ skel' = "attached" /\ UNCHANGED <<fdtab, enabled>>
  <2>1. ErrLink \in Links /\ ErrLink.how = "error"
    BY ErrRecord
  <2>2. /\ links' \in [Names -> Links] /\ links'[p] = ErrLink
        /\ \A l \in Names : l # p => links'[l] = links[l]
    BY <1>1, <1>3, <1>5, <2>1 DEF LinkTypes
  <2>3. LinkTypes'
    BY <1>1, <1>5, <2>2 DEF LinkTypes
  <2>4. \A l \in Names : Live(l)' = Live(l) /\ (Live(l) => links'[l] = links[l])
    BY <1>3, <2>1, <2>2 DEF Live, NoLink
  <2>5. MapIsOpen'
    BY <1>5 DEF LinkInv, MapIsOpen, bpf_object__attach_skeleton
  <2>6. RunsByRight'
    BY <1>1, <1>5, <2>4 DEF LinkInv, RunsByRight
  <2> QED
    BY <1>1, <1>5, <2>3, <2>4, <2>5, <2>6, SameLinks
<1> QED
  BY <1>2, <1>4, <1>5
     DEF bpf_program__attach_kprobe, bpf_program__attach_tracepoint,
         bpf_program__attach_raw_tracepoint, bpf_program__attach_fd

(* The skeleton goes on, its links are what they were.                     *)
LEMMA SkeletonGoesOn ==
  ASSUME LinkAssumption, LinkInv, AllAttached \/ Destroy
  PROVE  LinkInv'
<1>1. UNCHANGED <<fdtab, links, pin, enabled, given>>
  BY DEF AllAttached, Destroy
<1>2. skel' \in {"loaded", "attached"} => skel \in {"loaded", "attached"}
  BY DEF AllAttached, Destroy
<1>3. LinkTypes' /\ MapIsOpen'
  BY <1>1, <1>2 DEF LinkInv, LinkTypes, MapIsOpen
<1>4. \A l \in Names : Live(l)' = Live(l) /\ links'[l] = links[l]
  BY <1>1 DEF Live
<1>5. RunsByRight'
  BY <1>1, <1>4 DEF LinkInv, RunsByRight
<1> QED
  BY <1>1, <1>3, <1>4, <1>5, SameLinks

LEMMA StructOpsAttach ==
  ASSUME LinkAssumption, LinkInv, bpf_map__attach_struct_ops
  PROVE  LinkInv'
<1> DEFINE s == StOps
           n == FdOf(<<"obj", s>>)
           r == New(n, s, "struct_ops")
<1>1. /\ links[s] = NoLink /\ links' = [links EXCEPT ![s] = r] /\ enabled' = enabled \cup {s}
      /\ skel \in {"loaded", "attached"} /\ UNCHANGED <<kind, skel, fdtab, pin, given>>
  BY DEF bpf_map__attach_struct_ops
<1>2. LinkTypes /\ fdtab \in [0..MaxFd - 1 -> Tags] /\ links \in [Names -> Links] /\ s \in Names
  BY DEF LinkInv, LinkTypes, Names
<1>3. n \in 0..MaxFd - 1 /\ fdtab[n] = <<"obj", s>>
  <2>1. \E k \in DOMAIN fdtab : fdtab[k] = <<"obj", s>>
    BY <1>1, <1>2 DEF LinkInv, MapIsOpen
  <2>2. n \in DOMAIN fdtab /\ fdtab[n] = <<"obj", s>>
    BY <2>1 DEF FdOf
  <2> QED
    BY <1>2, <2>2
<1> HIDE DEF n
<1>4. /\ r \in Links /\ r.fd = n /\ r.of = s /\ r.how = "struct_ops" /\ r.disconnected = FALSE
  <2>1. n \in Int /\ s \in Attached
    BY <1>3 DEF Attached
  <2> QED
    BY ZenonT(40), <2>1, NewRecord
<1> HIDE DEF r
<1>5. links' \in [Names -> Links] /\ links'[s] = r /\ \A k \in Names : k # s => links'[k] = links[k]
  BY <1>1, <1>2, <1>4
<1>6. LinkTypes' /\ MapIsOpen'
  BY <1>1, <1>2, <1>5 DEF LinkTypes, LinkInv, MapIsOpen, Attached
<1>7. \A k \in Names : k # s => Live(k)' = Live(k) /\ Refers(k)' = Refers(k)
  BY <1>5 DEF Live, Refers
<1>8. Live(s)' /\ <<"obj", s>> \in Refers(s)' /\ ~Live(s)
  BY <1>1, <1>4, <1>5 DEF Live, Refers, NoLink
<1>9. ASSUME NEW k \in Names, k # s, Live(k) PROVE LinkFine(k) /\ links[k].fd # n
  <2>1. LinkFine(k)
    BY DEF LinkInv
  <2>2. links[k].how # "struct_ops"
    BY <1>9, <2>1 DEF LinkFine
  <2> QED
    BY <1>2, <1>3, <1>9, <2>1, <2>2, RefersTell
<1>10. ASSUME NEW k \in Names PROVE LinkFine(k)'
  <2>1. CASE k = s
    BY <1>1, <1>3, <1>4, <1>5, <1>8, <2>1 DEF LinkFine
  <2>2. CASE k # s
    BY <1>1, <1>5, <1>7, <1>9, <2>2 DEF LinkFine
  <2> QED
    BY <2>1, <2>2
<1>11. Distinct'
  <2> SUFFICES ASSUME NEW k \in Names, NEW m \in Names, Live(k)', Live(m)', k # m
               PROVE  links'[k].fd # links'[m].fd
    BY DEF Distinct
  <2>1. CASE k # s /\ m # s
    BY <1>5, <1>7, <2>1 DEF LinkInv, Distinct
  <2>2. CASE k = s \/ m = s
    BY <1>4, <1>5, <1>7, <1>9, <2>2
  <2> QED
    BY <2>1, <2>2
<1>12. \A k \in Names : Live(k) => Live(k)' /\ links'[k] = links[k]
  BY <1>5, <1>7, <1>8
<1>13. NoneLost'
  BY <1>1, <1>12 DEF LinkInv, NoneLost
<1>14. RunsByRight'
  <2> SUFFICES ASSUME NEW p \in enabled'
               PROVE  \/ p \in given \/ pin = <<"link", p>>
                      \/ \E k \in Names : Live(k)' /\ links'[k].of = p
    BY <1>1 DEF RunsByRight
  <2>1. CASE p = s
    BY <1>2, <1>4, <1>5, <1>8, <2>1
  <2>2. CASE p \in enabled
    BY <1>12, <2>2 DEF LinkInv, RunsByRight
  <2> QED
    BY <1>1, <2>1, <2>2
<1> QED
  BY <1>6, <1>10, <1>11, <1>13, <1>14 DEF LinkInv

(* What the kernel is told of descriptors and the pin.                     *)
LEMMA KernelKeeps ==
  ASSUME NEW tab, NEW at, NEW on, Kernel(tab, at, on)
  PROVE  /\ fdtab' = tab /\ pin' = at /\ enabled' \subseteq on
         /\ \A p \in enabled' : p = StOps \/ {<<"link", p>>, <<"perf", p>>} \cap Refs(fdtab, pin)' # {}
BY DEF Kernel, Refs

(* A link is gone, and with it the descriptor if it was the link's own.    *)
LEMMA Destroyed ==
  ASSUME LinkAssumption, LinkInv, NEW l \in Names, bpf_link__destroy(l), UNCHANGED <<skel, given>>
  PROVE  LinkInv'
<1>1. LinkTypes /\ fdtab \in [0..MaxFd - 1 -> Tags] /\ links \in [Names -> Links]
  BY DEF LinkInv, LinkTypes
<1>2. links' = [links EXCEPT ![l] = NoLink]
  BY DEF bpf_link__destroy
<1>3. NoLink \in Links /\ NoLink.how = "none"
  BY DEF NoLink, Links
<1>4. /\ links' \in [Names -> Links] /\ ~Live(l)'
      /\ \A k \in Names : k # l => links'[k] = links[k]
  BY <1>1, <1>2, <1>3 DEF Live
<1>5. \A k \in Names : k # l => Live(k)' = Live(k) /\ Refers(k)' = Refers(k)
  BY <1>4 DEF Live, Refers
<1>6. Distinct'
  BY <1>4, <1>5 DEF LinkInv, Distinct
<1>7. \A k \in Names : LinkFine(k)
  BY DEF LinkInv
<1>8. CASE UNCHANGED <<fdtab, pin, enabled>> /\ (Live(l) => links[l].disconnected)
  <2>1. LinkTypes' /\ MapIsOpen'
    BY <1>1, <1>4, <1>8 DEF LinkTypes, LinkInv, MapIsOpen
  <2>2. \A k \in Names : LinkFine(k)'
    BY <1>4, <1>5, <1>7, <1>8 DEF LinkFine
  <2>3. Live(l) => links[l].of \in given
    BY <1>7, <1>8 DEF LinkFine
  <2>4. NoneLost'
    <3> SUFFICES ASSUME NEW n \in DOMAIN fdtab, fdtab[n][1] \in {"perf", "link"}
                 PROVE  fdtab[n][2] \in given \/ \E m \in Names : Live(m)' /\ links'[m].fd = n
      BY <1>8 DEF NoneLost
    <3>1. CASE fdtab[n][2] \in given
      BY <3>1
    <3>2. CASE \E m \in Names : Live(m) /\ links[m].fd = n
      <4>1. PICK m \in Names : Live(m) /\ links[m].fd = n
        BY <3>2
      <4>2. CASE m # l
        BY <1>4, <1>5, <4>1, <4>2
      <4>3. CASE m = l
        <5>1. fdtab[n][2] = links[l].of
          BY <1>1, <1>7, <4>1, <4>3, RefersTell
        <5> QED
          BY <2>3, <4>1, <4>3, <5>1
      <4> QED
        BY <4>2, <4>3
    <3> QED
      BY <3>1, <3>2 DEF LinkInv, NoneLost
  <2>5. RunsByRight'
    <3> SUFFICES ASSUME NEW p \in enabled
                 PROVE  \/ p \in given \/ pin = <<"link", p>>
                        \/ \E m \in Names : Live(m)' /\ links'[m].of = p
      BY <1>8 DEF RunsByRight
    <3>1. CASE \E m \in Names : Live(m) /\ links[m].of = p
      BY <1>4, <1>5, <2>3, <3>1
    <3> QED
      BY <3>1 DEF LinkInv, RunsByRight
  <2> QED
    BY <1>6, <2>1, <2>2, <2>4, <2>5 DEF LinkInv
<1>9. CASE Live(l) /\ links[l].how = "struct_ops" /\ detach(l)
  <2>1. fdtab[links[l].fd] = <<"obj", StOps>> /\ l = StOps /\ links[l].of = StOps
    BY <1>1, <1>7, <1>9, RefersTell DEF LinkFine
  <2>2. Kernel(fdtab, pin, enabled \ {StOps})
    BY <1>9, <2>1 DEF detach
  <2>3. fdtab' = fdtab /\ pin' = pin /\ enabled' \subseteq enabled \ {StOps}
    BY <2>2, KernelKeeps
  <2>4. LinkTypes' /\ MapIsOpen'
    BY <1>1, <1>4, <2>3 DEF LinkTypes, LinkInv, MapIsOpen
  <2>5. \A k \in Names : LinkFine(k)'
    BY <1>4, <1>5, <1>7, <2>3 DEF LinkFine
  <2>6. NoneLost'
    <3> SUFFICES ASSUME NEW n \in DOMAIN fdtab, fdtab[n][1] \in {"perf", "link"}
                 PROVE  fdtab[n][2] \in given \/ \E m \in Names : Live(m)' /\ links'[m].fd = n
      BY <2>3 DEF NoneLost
    <3>1. links[l].fd # n
      BY <2>1
    <3> QED
      BY <1>4, <1>5, <3>1 DEF LinkInv, NoneLost
  <2>7. RunsByRight'
    <3> SUFFICES ASSUME NEW p \in enabled, p # StOps
                 PROVE  \/ p \in given \/ pin = <<"link", p>>
                        \/ \E m \in Names : Live(m)' /\ links'[m].of = p
      BY <2>3 DEF RunsByRight
    <3> QED
      BY <1>4, <1>5, <2>1 DEF LinkInv, RunsByRight
  <2> QED
    BY <1>6, <2>4, <2>5, <2>6, <2>7 DEF LinkInv
<1>10. CASE Live(l) /\ links[l].how # "struct_ops" /\ detach(l)
  <2>1. PICK n \in 0..MaxFd - 1 : n = links[l].fd
    BY <1>7, <1>10 DEF LinkFine
  <2>2. fdtab[n][1] \in {"perf", "link"} /\ links[l].of # StOps
    BY <1>1, <1>7, <1>10, <2>1, RefersTell DEF LinkFine, LinkAssumption, ProgsAssumption
  <2>3. Kernel([fdtab EXCEPT ![n] = Free], pin, enabled)
    BY <1>10, <2>1 DEF detach
  <2>4. /\ fdtab' = [fdtab EXCEPT ![n] = Free] /\ pin' = pin /\ enabled' \subseteq enabled
        /\ \A p \in enabled' : p = StOps \/ {<<"link", p>>, <<"perf", p>>} \cap Refs(fdtab, pin)' # {}
    BY <2>3, KernelKeeps
  <2>5. Free \in Tags /\ Free[1] = "free"
    BY DEF Tags, Free
  <2>6. /\ fdtab' \in [0..MaxFd - 1 -> Tags] /\ fdtab'[n] = Free
        /\ \A k \in 0..MaxFd - 1 : k # n => fdtab'[k] = fdtab[k]
    BY <1>1, <2>4, <2>5
  <2>7. LinkTypes'
    BY <1>1, <1>4, <2>4, <2>6 DEF LinkTypes
  <2>8. MapIsOpen'
    <3> SUFFICES ASSUME skel \in {"loaded", "attached"}
                 PROVE  \E k \in 0..MaxFd - 1 : fdtab'[k] = <<"obj", StOps>>
      BY DEF MapIsOpen
    <3>1. PICK k \in 0..MaxFd - 1 : fdtab[k] = <<"obj", StOps>>
      BY DEF LinkInv, MapIsOpen
    <3>2. k # n
      BY <2>2, <3>1
    <3> QED
      BY <2>6, <3>1, <3>2
  <2>9. ASSUME NEW k \in Names PROVE LinkFine(k)'
    <3>1. CASE k = l
      BY <1>4, <3>1 DEF LinkFine
    <3>2. CASE k # l /\ Live(k)
      <4>1. links[k].fd # n /\ links[k].fd \in 0..MaxFd - 1
        BY <1>7, <1>10, <2>1, <3>2 DEF LinkInv, Distinct, LinkFine
      <4> QED
        BY <1>4, <1>5, <1>7, <2>6, <3>2, <4>1 DEF LinkFine
    <3>3. CASE k # l /\ ~Live(k)
      BY <1>5, <3>3 DEF LinkFine
    <3> QED
      BY <3>1, <3>2, <3>3
  <2>10. NoneLost'
    <3> SUFFICES ASSUME NEW k \in 0..MaxFd - 1, fdtab'[k][1] \in {"perf", "link"}
                 PROVE  fdtab'[k][2] \in given \/ \E m \in Names : Live(m)' /\ links'[m].fd = k
      BY <2>6 DEF NoneLost
    <3>1. k # n /\ fdtab'[k] = fdtab[k] /\ k \in DOMAIN fdtab
      BY <1>1, <2>5, <2>6
    <3>2. CASE fdtab[k][2] \in given
      BY <3>1, <3>2
    <3>3. CASE \E m \in Names : Live(m) /\ links[m].fd = k
      BY <1>4, <1>5, <2>1, <3>1, <3>3
    <3> QED
      BY <3>1, <3>2, <3>3 DEF LinkInv, NoneLost
  <2>11. RunsByRight'
    <3> SUFFICES ASSUME NEW p \in enabled'
                 PROVE  \/ p \in given' \/ pin' = <<"link", p>>
                        \/ \E m \in Names : Live(m)' /\ links'[m].of = p
      BY DEF RunsByRight
    <3>1. CASE p = StOps
      <4>1. CASE p \in given \/ pin = <<"link", p>>
        BY <2>4, <4>1
      <4>2. CASE \E m \in Names : Live(m) /\ links[m].of = p
        BY <1>4, <1>5, <2>2, <3>1, <4>2
      <4> QED
        BY <2>4, <4>1, <4>2 DEF LinkInv, RunsByRight
    <3>2. CASE p # StOps
      <4>1. p \in Progs /\ {<<"link", p>>, <<"perf", p>>} \cap Refs(fdtab, pin)' # {}
        BY <2>4, <2>7, <3>2 DEF LinkTypes, Attached
      <4> QED
        BY <2>7, <2>9, <2>10, <4>1, StillRuns
    <3> QED
      BY <3>1, <3>2
  <2> QED
    BY <1>6, <2>7, <2>8, <2>9, <2>10, <2>11 DEF LinkInv
<1> QED
  BY <1>8, <1>9, <1>10 DEF bpf_link__destroy

LEMMA DisconnectKeepsLinks ==
  ASSUME LinkAssumption, LinkInv, NEW l \in Names, bpf_link__disconnect(l)
  PROVE  LinkInv'
<1>1. /\ Live(l) /\ links' = [links EXCEPT ![l].disconnected = TRUE]
      /\ given' = given \cup {links[l].of} /\ UNCHANGED <<skel, fdtab, pin, enabled>>
  BY DEF bpf_link__disconnect
<1>2. LinkTypes /\ links \in [Names -> Links] /\ links[l] \in Links
  BY DEF LinkInv, LinkTypes
<1>3. PICK r : r = [links[l] EXCEPT !.disconnected = TRUE]
  OBVIOUS
<1>4. r \in Links /\ r.fd = links[l].fd /\ r.of = links[l].of /\ r.how = links[l].how
  BY <1>2, <1>3 DEF Links
<1>5. links' = [links EXCEPT ![l] = r]
  BY <1>1, <1>2, <1>3
<1>6. links' \in [Names -> Links] /\ links'[l] = r /\ \A k \in Names : k # l => links'[k] = links[k]
  BY <1>2, <1>4, <1>5
<1>7. LinkTypes' /\ MapIsOpen'
  BY <1>1, <1>2, <1>6 DEF LinkTypes, LinkInv, MapIsOpen
<1>8. ASSUME NEW k \in Names
      PROVE  /\ Live(k)' = Live(k)
             /\ Live(k) => /\ links'[k].fd = links[k].fd /\ links'[k].of = links[k].of
                           /\ links'[k].how = links[k].how
                           /\ links'[k].disconnected => links[k].disconnected \/ links[k].of \in given'
  <2>1. CASE k = l
    BY <1>1, <1>4, <1>6, <2>1 DEF Live
  <2>2. CASE k # l
    BY <1>6, <2>2 DEF Live
  <2> QED
    BY <2>1, <2>2
<1>9. RunsByRight'
  BY <1>1, <1>8 DEF LinkInv, RunsByRight
<1> QED
  BY <1>1, <1>7, <1>8, <1>9, SameLinks

(* Only whether the link is at the path is written.                        *)
LEMMA PathOnly ==
  ASSUME LinkInv, NEW l \in Names, NEW b \in BOOLEAN, links' = [links EXCEPT ![l].path = b]
  PROVE  /\ links' \in [Names -> Links]
         /\ \A k \in Names :
              /\ Live(k)' = Live(k)
              /\ links'[k].fd = links[k].fd /\ links'[k].of = links[k].of
              /\ links'[k].how = links[k].how /\ links'[k].disconnected = links[k].disconnected
<1>1. links \in [Names -> Links] /\ links[l] \in Links
  BY DEF LinkInv, LinkTypes
<1>2. PICK r : r = [links[l] EXCEPT !.path = b]
  OBVIOUS
<1>3. /\ r \in Links /\ r.fd = links[l].fd /\ r.of = links[l].of /\ r.how = links[l].how
      /\ r.disconnected = links[l].disconnected
  BY <1>1, <1>2 DEF Links
<1>4. links' = [links EXCEPT ![l] = r]
  BY <1>1, <1>2
<1>5. links' \in [Names -> Links] /\ links'[l] = r /\ \A k \in Names : k # l => links'[k] = links[k]
  BY <1>1, <1>3, <1>4
<1>6. ASSUME NEW k \in Names
      PROVE  /\ Live(k)' = Live(k)
             /\ links'[k].fd = links[k].fd /\ links'[k].of = links[k].of
             /\ links'[k].how = links[k].how /\ links'[k].disconnected = links[k].disconnected
  <2>1. CASE k = l
    BY <1>3, <1>5, <2>1 DEF Live
  <2>2. CASE k # l
    BY <1>5, <2>2 DEF Live
  <2> QED
    BY <2>1, <2>2
<1> QED
  BY <1>5, <1>6

LEMMA PinKeepsLinks ==
  ASSUME LinkAssumption, LinkInv, NEW l \in Names, bpf_link__pin(l)
  PROVE  LinkInv'
<1>1. /\ links[l].how = "fd" /\ pin = Free /\ links' = [links EXCEPT ![l].path = TRUE]
      /\ pin' = fdtab[links[l].fd] /\ UNCHANGED <<skel, fdtab, enabled, given>>
  BY DEF bpf_link__pin
<1>2. LinkTypes /\ LinkFine(l) /\ Live(l)
  BY <1>1 DEF LinkInv, Live
<1>3. pin' = <<"link", links[l].of>> /\ links[l].of \in Progs
  BY <1>1, <1>2, RefersTell DEF LinkFine
<1>4. links' \in [Names -> Links] /\ \A k \in Names :
        /\ Live(k)' = Live(k)
        /\ links'[k].fd = links[k].fd /\ links'[k].of = links[k].of
        /\ links'[k].how = links[k].how /\ links'[k].disconnected = links[k].disconnected
  BY <1>1, PathOnly
<1>5. LinkTypes' /\ MapIsOpen'
  BY <1>1, <1>2, <1>3, <1>4 DEF LinkTypes, LinkInv, MapIsOpen
<1>6. \A p : pin # <<"link", p>>
  BY <1>1 DEF Free
<1>7. RunsByRight'
  BY <1>1, <1>4, <1>6 DEF LinkInv, RunsByRight
<1> QED
  BY <1>1, <1>4, <1>5, <1>7, SameLinks

LEMMA UnpinKeepsLinks ==
  ASSUME LinkAssumption, LinkInv, NEW l \in Names, bpf_link__unpin(l)
  PROVE  LinkInv'
<1>1. /\ links' = [links EXCEPT ![l].path = FALSE] /\ Kernel(fdtab, Free, enabled)
      /\ UNCHANGED <<skel, given>>
  BY DEF bpf_link__unpin
<1>2. /\ fdtab' = fdtab /\ pin' = Free /\ enabled' \subseteq enabled
      /\ \A p \in enabled' : p = StOps \/ {<<"link", p>>, <<"perf", p>>} \cap Refs(fdtab, pin)' # {}
  BY <1>1, KernelKeeps
<1>3. links' \in [Names -> Links] /\ \A k \in Names :
        /\ Live(k)' = Live(k)
        /\ links'[k].fd = links[k].fd /\ links'[k].of = links[k].of
        /\ links'[k].how = links[k].how /\ links'[k].disconnected = links[k].disconnected
  BY <1>1, PathOnly
<1>4. LinkTypes' /\ MapIsOpen'
  BY <1>1, <1>2, <1>3 DEF LinkTypes, LinkInv, MapIsOpen
<1>5. /\ \A k \in Names : LinkFine(k)'
      /\ NoneLost'
      /\ RunsByRight' => LinkInv'
  BY <1>1, <1>2, <1>3, <1>4, SameLinks
<1>6. RunsByRight'
  <2> SUFFICES ASSUME NEW p \in enabled'
               PROVE  \/ p \in given' \/ pin' = <<"link", p>>
                      \/ \E m \in Names : Live(m)' /\ links'[m].of = p
    BY DEF RunsByRight
  <2>1. CASE p = StOps
    <3>1. pin # <<"link", p>>
      BY <2>1 DEF LinkInv, LinkTypes, LinkAssumption, ProgsAssumption, Free
    <3> QED
      BY <1>1, <1>2, <1>3, <3>1 DEF LinkInv, RunsByRight
  <2>2. CASE p # StOps
    <3>1. p \in Progs /\ {<<"link", p>>, <<"perf", p>>} \cap Refs(fdtab, pin)' # {}
      BY <1>2, <1>4, <2>2 DEF LinkTypes, Attached
    <3> QED
      BY <1>4, <1>5, <3>1, StillRuns
  <2> QED
    BY <2>1, <2>2
<1> QED
  BY <1>5, <1>6

LEMMA DetachKeepsLinks ==
  ASSUME LinkAssumption, LinkInv, NEW l \in Names, bpf_link__detach(l)
  PROVE  LinkInv'
<1>1. enabled' \subseteq enabled /\ UNCHANGED <<skel, fdtab, links, pin, given>>
  BY DEF bpf_link__detach
<1>2. \A k \in Names : Live(k)' = Live(k) /\ links'[k] = links[k]
  BY <1>1 DEF Live
<1>3. LinkTypes' /\ MapIsOpen' /\ RunsByRight'
  BY <1>1, <1>2 DEF LinkInv, LinkTypes, MapIsOpen, RunsByRight
<1> QED
  BY <1>1, <1>2, <1>3, SameLinks

LEMMA OpenKeepsLinks ==
  ASSUME LinkAssumption, LinkInv, bpf_link__open
  PROVE  LinkInv'
<1>1. PICK n : n = Min(Unused)
  OBVIOUS
<1>2. PICK r : r = [New(n, pin[2], "fd") EXCEPT !.path = TRUE]
  OBVIOUS
<1>3. /\ pin # Free /\ Unused # {} /\ links[Again] = NoLink
      /\ fdtab' = [fdtab EXCEPT ![n] = pin] /\ links' = [links EXCEPT ![Again] = r]
      /\ UNCHANGED <<skel, pin, enabled, given>>
  BY <1>1, <1>2 DEF bpf_link__open
<1>4. n \in 0..MaxFd - 1 /\ fdtab[n] = Free
  BY <1>1, <1>3, LowestUnused DEF LinkInv
<1>5. PICK p \in Progs : pin = <<"link", p>>
  BY <1>3 DEF LinkInv, LinkTypes
<1>6. r \in Links /\ r.fd = n /\ r.of = p /\ r.how = "fd" /\ r.disconnected = FALSE
  <2>1. PICK q : q = [NoLink EXCEPT !.fd = n, !.of = p, !.how = "fd"]
    OBVIOUS
  <2>2. r = [q EXCEPT !.path = TRUE]
    BY <1>2, <1>5, <2>1 DEF New
  <2>3. NoLink \in Links /\ NoLink.disconnected = FALSE
    BY DEF NoLink, Links
  <2>4. q.fd = n /\ q.how = "fd" /\ q.disconnected = FALSE
    BY <2>1, <2>3 DEF Links
  <2>5. q.of = p
    BY <2>1, <2>3 DEF Links
  <2>6. q \in Links
    <3>1. n \in Int /\ p \in Attached
      BY <1>4 DEF Attached
    <3> QED
      BY <2>1, <2>3, <3>1 DEF Links
  <2> QED
    BY <2>2, <2>4, <2>5, <2>6 DEF Links
<1>7. Again \in Names \ {StOps} /\ ~Live(Again)
  BY <1>3 DEF Names, Again, StOps, Live, NoLink
<1> QED
  BY <1>3, <1>4, <1>5, <1>6, <1>7, NewLink

(* What no step of the library or of other users of descriptors breaks.    *)
LEMMA LinkStep ==
  ASSUME LinkAssumption, LinkInv, [Next]_vars
  PROVE  LinkInv'
<1>1. CASE UNCHANGED vars
  BY ZenonT(40), <1>1 DEF vars, LinkInv, LinkTypes, LinkFine, Distinct, MapIsOpen, NoneLost,
              RunsByRight, Live, Refers
<1>2. CASE \E l \in Names : DestroyOwn(l)
  BY <1>2, Destroyed DEF DestroyOwn
<1>3. CASE bpf_object__detach_skeleton
  BY <1>3, Destroyed DEF bpf_object__detach_skeleton, Names
<1>4. CASE \E l \in Names : \/ bpf_link__disconnect(l) \/ bpf_link__detach(l)
                            \/ bpf_link__pin(l) \/ bpf_link__unpin(l)
  BY <1>4, DisconnectKeepsLinks, DetachKeepsLinks, PinKeepsLinks, UnpinKeepsLinks
<1> QED
  BY <1>1, <1>2, <1>3, <1>4, SkeletonLoad, SkeletonAttach, SkeletonGoesOn, StructOpsAttach, OpenKeepsLinks,
     SkeletonClose, OtherOpen DEF Next

(* Destroying a link spares what others have: the descriptor of every live *)
(* link is open for what the link was made of, no descriptor of an event   *)
(* or a link is lost, and what runs is kept attached by a link, a pin or   *)
(* somebody who took it over, whatever the programs and how many           *)
(* descriptors there are.                                                  *)
THEOREM LinksAreSound == ASSUME LinkAssumption PROVE Spec => []LinkSound
<1>1. LinkInv => LinkSound
  BY DEF LinkInv, LinkFine, LinkSound, DescriptorIsLinks
<1> QED
  BY <1>1, LinkInit, LinkStep, PTL DEF Spec
-----------------------------------------------------------------------------
(***************************************************************************)
(* Netlink: what a getter has read and what it may still read.             *)
(***************************************************************************)
LastIf == Cardinality(Ifs)
Ids    == XdpProgs \cup {NoProg}
Infos  == [mode : Modes \cup {"none", "multi"}, id : Ids, ids : [Modes -> Ids]]
(* What the kernel may say of an interface. *)
Answered == {h \in Infos : /\ h.mode = "none" => h = NoInfo
                           /\ h.id # NoProg => \E m \in Modes : h.ids[m] = h.id}
Told0 == [ifindex : Ifs, ids : [Modes -> Ids], mode : Modes \cup {"none", "multi"}, id : Ids]
ToldLinks == {t \in Told0 : Info(t) \in Answered}
Msgs  == [type : {"link"}, link : ToldLinks] \cup {[type |-> "done"]}

NetlinkDomains ==
  /\ xdp \in [Ifs -> [Modes -> Ids]]
  /\ DOMAIN proc = Procs /\ DOMAIN sock = Procs /\ DOMAIN tb = Procs
  /\ DOMAIN last = Procs /\ DOMAIN during = Procs

(* ToldLinks come one after the other; the one asked for is still in the       *)
(* kernel, in the queue, or in the answer.                                 *)
Telling(q, n, i, info, states) ==
  /\ n \in 1..(LastIf + 1) /\ Len(q) < n
  /\ \A k \in 1..Len(q) :
       /\ q[k].type = "link" /\ q[k].link \in ToldLinks
       /\ q[k].link.ifindex = n - Len(q) + k - 1
       /\ q[k].link.ifindex = i => Info(q[k].link) \in states
  /\ i >= n - Len(q) => info = NoInfo
  /\ i < n - Len(q) => info \in states

IsTold(q, n, info, states) == q = <<[type |-> "done"]>> /\ n = 0 /\ info \in states

GetterRight(p) ==
  /\ proc[p].call.ifindex \in Ifs /\ proc[p].call.flags \in Modes \cup {"any"}
  /\ Info(Told(proc[p].call.ifindex)) \in during[p]
  /\ during[p] \subseteq Answered
  /\ DOMAIN sock[p] = {"queue", "next"} /\ sock[p].queue \in Seq(Msgs)
  /\ \/ Telling(sock[p].queue, sock[p].next, proc[p].call.ifindex, tb[p], during[p])
     \/ IsTold(sock[p].queue, sock[p].next, tb[p], during[p])

SetterRight(p) ==
  \E r \in BOOLEAN :
    /\ proc[p].call.done = ~r
    /\ sock[p] = [queue |-> <<[type |-> "error", err |-> r]>>, next |-> 0]

ProcRight(p) ==
  /\ DOMAIN proc[p] = {"at", "call", "calls"}
  /\ \/ proc[p].at = "idle" /\ sock[p] = NoSocket
     \/ proc[p].at = "recv" /\ proc[p].call.op = "get" /\ GetterRight(p)
     \/ proc[p].at = "recv" /\ proc[p].call.op = "set" /\ SetterRight(p)

AnswersRight == InfoIsTrue /\ IdOfTheMode /\ AnswerIsKernels

NetlinkInv == NetlinkDomains /\ (\A p \in Procs : ProcRight(p)) /\ AnswersRight

LEMMA NetlinkInitHolds == NetlinkInit => NetlinkInv
<1> SUFFICES ASSUME NetlinkInit PROVE NetlinkInv
  OBVIOUS
<1>1. NetlinkDomains
  BY DEF NetlinkInit, NetlinkDomains, Ids
<1>2. \A p \in Procs : ProcRight(p)
  BY DEF NetlinkInit, ProcRight
<1>3. AnswersRight
  BY DEF NetlinkInit, AnswersRight, InfoIsTrue, IdOfTheMode, AnswerIsKernels, NoAnswer
<1> QED
  BY <1>1, <1>2, <1>3 DEF NetlinkInv

Says(i, row) ==
  LET on == {m \in Modes : row[m] # NoProg}
  IN  [ifindex |-> i, ids |-> row,
       mode |-> IF on = {} THEN "none" ELSE IF Cardinality(on) > 1 THEN "multi" ELSE CHOOSE m \in on : TRUE,
       id   |-> IF Cardinality(on) = 1 THEN row[CHOOSE m \in on : TRUE] ELSE NoProg]

LEMMA SaysLink ==
  ASSUME NEW i \in Ifs, NEW row \in [Modes -> Ids]
  PROVE  Says(i, row) \in ToldLinks /\ Says(i, row).ifindex = i /\ Info(Says(i, row)) \in Answered
<1> DEFINE on == {m \in Modes : row[m] # NoProg}
<1> DEFINE the == CHOOSE m \in on : TRUE
<1> DEFINE mode == IF on = {} THEN "none" ELSE IF Cardinality(on) > 1 THEN "multi" ELSE the
<1> DEFINE id == IF Cardinality(on) = 1 THEN row[the] ELSE NoProg
<1>1. Says(i, row) = [ifindex |-> i, ids |-> row, mode |-> mode, id |-> id]
  BY DEF Says
<1>2. NoProg \in Ids
  BY DEF Ids
<1>3. on # {} => the \in Modes /\ row[the] # NoProg
  OBVIOUS
<1>4. on = {} => Cardinality(on) = 0
  BY FS_EmptySet
<1>5. on = {} => row = [m \in Modes |-> NoProg]
  OBVIOUS
<1>6. mode \in Modes \cup {"none", "multi"} /\ (mode = "none" => on = {})
  BY <1>3 DEF Modes
<1>7. id \in Ids /\ (id # NoProg => on # {} /\ id = row[the])
  BY <1>2, <1>3, <1>4
<1>8. id # NoProg => \E m \in Modes : row[m] = id
  BY <1>3, <1>7
<1>9. mode = "none" => id = NoProg /\ row = [m \in Modes |-> NoProg]
  BY <1>5, <1>6, <1>7
<1> HIDE DEF mode, id, on, the
<1>10. Info(Says(i, row)) = [mode |-> mode, id |-> id, ids |-> row]
  BY <1>1 DEF Info
<1>11. Info(Says(i, row)) \in Infos
  BY <1>6, <1>7, <1>10 DEF Infos
<1>12. mode = "none" => Info(Says(i, row)) = NoInfo
  BY <1>9, <1>10 DEF NoInfo
<1>13. Info(Says(i, row)) \in Answered
  BY <1>8, <1>10, <1>11, <1>12 DEF Answered
<1>14. Says(i, row) \in Told0 /\ Says(i, row).ifindex = i
  BY <1>1, <1>6, <1>7 DEF Told0
<1> QED
  BY <1>13, <1>14 DEF ToldLinks

LEMMA ToldIsLink ==
  ASSUME NEW i \in Ifs, xdp \in [Ifs -> [Modes -> Ids]]
  PROVE  Told(i) \in ToldLinks /\ Told(i).ifindex = i /\ Info(Told(i)) \in Answered
<1>1. Told(i) = Says(i, xdp[i]) /\ xdp[i] \in [Modes -> Ids]
  BY DEF Told, Says
<1> QED
  BY <1>1, SaysLink

LEMMA ToldNextIsLink ==
  ASSUME NEW i \in Ifs, xdp' \in [Ifs -> [Modes -> Ids]]
  PROVE  Info(Told(i))' \in Answered
<1>1. Told(i)' = Says(i, xdp'[i]) /\ xdp'[i] \in [Modes -> Ids]
  BY DEF Told, Says
<1>2. Info(Told(i))' = Info(Says(i, xdp'[i]))
  BY <1>1 DEF Info
<1> QED
  BY <1>1, <1>2, SaysLink

(* The first message about a link is what is known of it. *)
LEMMA TakenAsTold ==
  ASSUME NEW t \in ToldLinks, NEW i \in Ifs
  PROVE  /\ t.ifindex = i => get_xdp_info(NoInfo, i, t) = Info(t)
         /\ t.ifindex # i => \A info : get_xdp_info(info, i, t) = info
<1>1. t \in Told0 /\ Info(t) \in Answered /\ i # 0
  BY NetlinkAssumption DEF ToldLinks
<1>2. Info(t) = [mode |-> t.mode, id |-> t.id, ids |-> t.ids] /\ t.ids \in [Modes -> Ids]
  BY <1>1 DEF Info, Told0
<1>3. Info(t).mode = t.mode
  BY <1>2
<1>4. t.mode = "none" => Info(t) = NoInfo
  BY <1>1, <1>3 DEF Answered
<1>5. [NoInfo EXCEPT !.mode = "none"] = NoInfo
  BY DEF NoInfo
<1>6. Attribute(t.id, NoInfo.id) = t.id
  BY DEF Attribute, NoInfo
<1>7. \A m \in Modes : Attribute(t.ids[m], NoInfo.ids[m]) = t.ids[m]
  BY DEF Attribute, NoInfo
<1>8. [m \in Modes |-> Attribute(t.ids[m], NoInfo.ids[m])] = t.ids
  BY <1>2, <1>7
<1>9. ASSUME t.ifindex = i PROVE get_xdp_info(NoInfo, i, t) = Info(t)
  <2>1. CASE t.mode = "none"
    BY <1>4, <1>5, <1>9, <2>1 DEF get_xdp_info
  <2>2. CASE t.mode # "none"
    BY <1>2, <1>6, <1>8, <1>9, <2>2 DEF get_xdp_info
  <2> QED
    BY <2>1, <2>2
<1>10. t.ifindex # i => \A info : get_xdp_info(info, i, t) = info
  BY <1>1 DEF get_xdp_info
<1> QED
  BY <1>9, <1>10

(* A process is not disturbed by what others do. *)
LEMMA UndisturbedKeeps ==
  ASSUME NEW q \in Procs, ProcRight(q),
         proc'[q] = proc[q], sock'[q] = sock[q], tb'[q] = tb[q], during[q] \subseteq during'[q],
         proc[q].call.op = "get" /\ proc[q].at = "recv" =>
           Info(Told(proc[q].call.ifindex))' \in during'[q] /\ during'[q] \subseteq Answered
  PROVE  ProcRight(q)'
<1>1. CASE proc[q].at = "idle" /\ sock[q] = NoSocket
  BY <1>1 DEF ProcRight
<1>2. CASE proc[q].at = "recv" /\ proc[q].call.op = "set" /\ SetterRight(q)
  BY <1>2 DEF ProcRight, SetterRight
<1>3. CASE proc[q].at = "recv" /\ proc[q].call.op = "get" /\ GetterRight(q)
  <2>1. GetterRight(q)'
    <3>1. Telling(sock[q].queue, sock[q].next, proc[q].call.ifindex, tb[q], during[q]) =>
          Telling(sock[q].queue, sock[q].next, proc[q].call.ifindex, tb[q], during'[q])
      BY DEF Telling
    <3>2. IsTold(sock[q].queue, sock[q].next, tb[q], during[q]) => IsTold(sock[q].queue, sock[q].next, tb[q], during'[q])
      BY DEF IsTold
    <3>3. Telling(sock[q].queue, sock[q].next, proc[q].call.ifindex, tb[q], during[q])' =
          Telling(sock'[q].queue, sock'[q].next, proc'[q].call.ifindex, tb'[q], during'[q])
      BY DEF Telling
    <3>4. IsTold(sock[q].queue, sock[q].next, tb[q], during[q])' =
          IsTold(sock'[q].queue, sock'[q].next, tb'[q], during'[q])
      BY DEF IsTold
    <3> QED
      BY <1>3, <3>1, <3>2, <3>3, <3>4 DEF GetterRight
  <2> QED
    BY <1>3, <2>1 DEF ProcRight
<1> QED
  BY <1>1, <1>2, <1>3 DEF ProcRight

LEMMA CallDomains ==
  ASSUME NetlinkDomains, NEW p \in Procs, NEW call, Calls(p, call)
  PROVE  /\ DOMAIN proc' = Procs /\ DOMAIN tb' = Procs /\ DOMAIN last' = Procs
         /\ tb'[p] = NoInfo /\ last'[p] = NoAnswer
         /\ \A q \in Procs \ {p} : proc'[q] = proc[q] /\ tb'[q] = tb[q] /\ last'[q] = last[q]
  BY DEF NetlinkDomains, Calls

LEMMA CallStarts ==
  ASSUME NetlinkDomains, NEW p \in Procs, NEW call, Calls(p, call)
  PROVE  /\ proc[p].at = "idle" /\ DOMAIN proc'[p] = {"at", "call", "calls"}
         /\ proc'[p].at = "recv" /\ proc'[p].call = call
<1>1. proc' = [proc EXCEPT ![p] = [at |-> "recv", call |-> call, calls |-> proc[p].calls + 1]] /\ proc[p].at = "idle"
  BY DEF Calls
<1>2. proc'[p] = [at |-> "recv", call |-> call, calls |-> proc[p].calls + 1]
  BY <1>1 DEF NetlinkDomains
<1> QED
  BY <1>1, <1>2

(* A call that starts has answered nothing yet. *)
LEMMA CallAnswersRight ==
  ASSUME NetlinkDomains, AnswersRight, NEW p \in Procs, NEW call, Calls(p, call)
  PROVE  AnswersRight'
<1>1. last'[p] = NoAnswer /\ \A q \in Procs \ {p} : last'[q] = last[q]
  BY CallDomains
<1>2. last'[p].ret = "none" /\ last'[p].op = "none"
  BY <1>1 DEF NoAnswer
<1>3. InfoIsTrue'
  BY <1>1, <1>2 DEF AnswersRight, InfoIsTrue
<1>4. IdOfTheMode'
  BY <1>1, <1>2 DEF AnswersRight, IdOfTheMode
<1>5. AnswerIsKernels'
  BY <1>1, <1>2 DEF AnswersRight, AnswerIsKernels
<1> QED
  BY <1>3, <1>4, <1>5 DEF AnswersRight

LEMMA SameXdpSameTold ==
  ASSUME NEW i, xdp'[i] = xdp[i]
  PROVE  Info(Told(i))' = Info(Told(i))
  BY DEF Info, Told

LEMMA SetKeeps ==
  ASSUME NetlinkInv, NEW p \in Setters, NEW i \in Ifs, NEW prog \in Ids, NEW mode \in Modes \cup {"any"},
         NEW noexist, NEW replace, NEW old, NEW want,
         __bpf_set_link_xdp_fd_replace(p, [op |-> "set", ifindex |-> i, prog |-> prog, mode |-> mode,
           noexist |-> noexist, replace |-> replace, old |-> old, want |-> want, done |-> FALSE])
  PROVE  NetlinkInv'
<1> DEFINE c == [op |-> "set", ifindex |-> i, prog |-> prog, mode |-> mode,
                 noexist |-> noexist, replace |-> replace, old |-> old, want |-> want, done |-> FALSE]
<1> DEFINE r == Refused(c)
<1> DEFINE d == [c EXCEPT !.done = ~r]
<1>1. p \in Procs /\ NetlinkDomains /\ AnswersRight /\ \A q \in Procs : ProcRight(q)
  BY DEF NetlinkInv, Procs
<1>2. r \in BOOLEAN
  BY DEF Refused
<1>3. c.op = "set" /\ c.ifindex = i /\ c.prog = prog /\ c.mode = mode
  OBVIOUS
<1>4. d.op = "set" /\ d.done = ~r
  OBVIOUS
<1>5. /\ Calls(p, d)
      /\ xdp' = IF r THEN xdp ELSE [xdp EXCEPT ![c.ifindex][ModeOf(c.ifindex, c.mode)] = c.prog]
      /\ sock' = [sock EXCEPT ![p] = [queue |-> <<[type |-> "error", err |-> r]>>, next |-> 0]]
      /\ during' = [q \in Procs |-> during[q] \cup
                  IF q # p /\ proc[q].at # "idle" /\ proc[q].call.op = "get" /\ ~r
                     /\ c.ifindex = proc[q].call.ifindex
                  THEN {Info(Told(c.ifindex))'} ELSE {}]
  BY DEF __bpf_set_link_xdp_fd_replace
<1> HIDE DEF c, r, d
<1>6. ModeOf(i, mode) \in Modes
  BY DEF ModeOf, Modes
<1>7. xdp' \in [Ifs -> [Modes -> Ids]] /\ \A k \in Ifs \ {i} : xdp'[k] = xdp[k]
  BY <1>1, <1>3, <1>5, <1>6 DEF NetlinkDomains
<1>8. r => xdp' = xdp
  BY <1>5
<1>9. NetlinkDomains'
  BY <1>1, <1>5, <1>7, CallDomains DEF NetlinkDomains
<1>10. AnswersRight'
  BY <1>1, <1>5, CallAnswersRight
<1>11. ProcRight(p)'
  <2>1. DOMAIN proc'[p] = {"at", "call", "calls"} /\ proc'[p].at = "recv" /\ proc'[p].call = d
    BY <1>1, <1>5, CallStarts
  <2>2. sock'[p] = [queue |-> <<[type |-> "error", err |-> r]>>, next |-> 0]
    BY <1>1, <1>5 DEF NetlinkDomains
  <2>4. SetterRight(p)'
    BY <1>2, <1>4, <2>1, <2>2 DEF SetterRight
  <2> QED
    BY <1>4, <2>1, <2>4 DEF ProcRight
<1>12. ASSUME NEW q \in Procs, q # p PROVE ProcRight(q)'
  <2>1. proc'[q] = proc[q] /\ tb'[q] = tb[q]
    BY <1>1, <1>5, <1>12, CallDomains
  <2>2. sock'[q] = sock[q]
    BY <1>5, <1>12
  <2>3. during'[q] = during[q] \cup
                  IF proc[q].at # "idle" /\ proc[q].call.op = "get" /\ ~r /\ i = proc[q].call.ifindex
                  THEN {Info(Told(i))'} ELSE {}
    BY <1>3, <1>5, <1>12
  <2>4. ASSUME proc[q].call.op = "get", proc[q].at = "recv"
        PROVE  Info(Told(proc[q].call.ifindex))' \in during'[q] /\ during'[q] \subseteq Answered
    <3>1. GetterRight(q)
      BY <1>1, <2>4 DEF ProcRight
    <3>2. Info(Told(i))' \in Answered
      BY <1>7, ToldNextIsLink
    <3>3. during'[q] \subseteq Answered
      BY <2>3, <3>1, <3>2 DEF GetterRight
    <3>4. CASE i = proc[q].call.ifindex /\ ~r
      <4>1. Info(Told(i))' \in during'[q]
        BY <2>3, <2>4, <3>4
      <4>2. Info(Told(proc[q].call.ifindex))' = Info(Told(i))'
        BY <2>1, <3>4 DEF Info, Told
      <4> QED
        BY <3>3, <4>1, <4>2
    <3>5. CASE ~(i = proc[q].call.ifindex /\ ~r)
      <4>1. Info(Told(proc[q].call.ifindex)) \in during[q] /\ proc[q].call.ifindex \in Ifs
        BY <3>1 DEF GetterRight
      <4>2. xdp'[proc[q].call.ifindex] = xdp[proc[q].call.ifindex]
        BY <1>2, <1>7, <1>8, <3>5, <4>1
      <4>3. Info(Told(proc[q].call.ifindex))' = Info(Told(proc[q].call.ifindex))
        BY <2>1, <4>2 DEF Info, Told
      <4> QED
        BY <2>3, <3>3, <4>1, <4>3
    <3> QED
      BY <3>4, <3>5
  <2> QED
    BY <1>1, <1>12, <2>1, <2>2, <2>3, <2>4, UndisturbedKeeps
<1> QED
  BY <1>1, <1>9, <1>10, <1>11, <1>12 DEF NetlinkInv

(* A step of one process on its socket leaves the others alone. *)
LEMMA OnOwnSocket ==
  ASSUME NetlinkInv, NEW p \in Procs, xdp' = xdp, ProcRight(p)', AnswersRight',
         DOMAIN proc' = Procs, DOMAIN sock' = Procs, DOMAIN tb' = Procs, DOMAIN last' = Procs, DOMAIN during' = Procs,
         \A q \in Procs \ {p} : proc'[q] = proc[q] /\ tb'[q] = tb[q] /\ sock'[q] = sock[q] /\ during'[q] = during[q]
  PROVE  NetlinkInv'
<1>1. NetlinkDomains /\ \A q \in Procs : ProcRight(q)
  BY DEF NetlinkInv
<1>2. ASSUME NEW q \in Procs, q # p PROVE ProcRight(q)'
  <2>1. proc'[q] = proc[q] /\ tb'[q] = tb[q] /\ sock'[q] = sock[q] /\ during'[q] = during[q]
    BY <1>2
  <2>2. Info(Told(proc[q].call.ifindex))' = Info(Told(proc[q].call.ifindex))
    BY <2>1 DEF Info, Told
  <2>3. proc[q].call.op = "get" /\ proc[q].at = "recv" => GetterRight(q)
    BY <1>1 DEF ProcRight
  <2> QED
    BY <1>1, <2>1, <2>2, <2>3, UndisturbedKeeps DEF GetterRight
<1>3. NetlinkDomains'
  BY <1>1 DEF NetlinkDomains
<1> QED
  BY <1>2, <1>3 DEF NetlinkInv

LEMMA GetKeeps ==
  ASSUME NetlinkInv, NEW p \in Getters, NEW i \in Ifs, NEW flags \in Modes \cup {"any"},
         bpf_get_link_xdp_info(p, i, flags)
  PROVE  NetlinkInv'
<1> DEFINE d == [op |-> "get", ifindex |-> i, flags |-> flags]
<1>1. p \in Procs /\ NetlinkDomains /\ AnswersRight /\ \A q \in Procs : ProcRight(q)
  BY DEF NetlinkInv, Procs
<1>2. /\ Calls(p, d) /\ sock' = [sock EXCEPT ![p] = [queue |-> <<>>, next |-> 1]]
      /\ during' = [during EXCEPT ![p] = {Info(Told(i))}] /\ xdp' = xdp
  BY DEF bpf_get_link_xdp_info
<1>3. NetlinkDomains'
  BY <1>1, <1>2, CallDomains DEF NetlinkDomains
<1>4. AnswersRight'
  BY <1>1, <1>2, CallAnswersRight
<1>6. ProcRight(p)'
  <2>1. /\ DOMAIN proc'[p] = {"at", "call", "calls"} /\ proc'[p].at = "recv" /\ proc'[p].call = d
        /\ tb'[p] = NoInfo
    BY <1>1, <1>2, CallStarts, CallDomains
  <2>2. d.op = "get" /\ d.ifindex = i /\ d.flags = flags
    OBVIOUS
  <2>3. sock'[p] = [queue |-> <<>>, next |-> 1] /\ during'[p] = {Info(Told(i))}
    BY <1>1, <1>2 DEF NetlinkDomains
  <2> HIDE DEF d
  <2>4. Info(Told(i)) \in Answered
    BY <1>1, ToldIsLink DEF NetlinkDomains
  <2>5. Info(Told(proc[p].call.ifindex))' = Info(Told(i))
    BY <1>2, <2>1, <2>2 DEF Info, Told
  <2>6. LastIf \in Nat /\ i \in 1..LastIf
    BY NetlinkAssumption DEF LastIf
  <2>7. sock'[p].queue = <<>> /\ sock'[p].next = 1 /\ DOMAIN sock'[p] = {"queue", "next"}
    BY <2>3
  <2>8. Telling(sock[p].queue, sock[p].next, proc[p].call.ifindex, tb[p], during[p])'
    BY <2>1, <2>2, <2>6, <2>7 DEF Telling
  <2>9. GetterRight(p)'
    BY <2>1, <2>2, <2>3, <2>4, <2>5, <2>7, <2>8 DEF GetterRight
  <2> QED
    BY <2>1, <2>2, <2>9 DEF ProcRight
<1>7. \A q \in Procs \ {p} : proc'[q] = proc[q] /\ tb'[q] = tb[q] /\ sock'[q] = sock[q] /\ during'[q] = during[q]
  BY <1>1, <1>2, CallDomains
<1> QED
  BY <1>1, <1>2, <1>3, <1>4, <1>6, <1>7, OnOwnSocket DEF NetlinkDomains

LEMMA IsSequence ==
  ASSUME NEW S, NEW m \in Nat, NEW q \in [1..m -> S]
  PROVE  q \in Seq(S) /\ Len(q) = m
  OBVIOUS

(* Only a getter that has heard of no interface after some has more to hear. *)
LEMMA DumpKeeps ==
  ASSUME NetlinkInv, NEW p \in Procs, Dump(p)
  PROVE  NetlinkInv'
<1> DEFINE from == sock[p].next
<1> DEFINE i == proc[p].call.ifindex
<1>1. NetlinkDomains /\ AnswersRight /\ ProcRight(p)
  BY DEF NetlinkInv
<1>2. from # 0 /\ sock[p].queue = <<>> /\ UNCHANGED <<xdp, proc, tb, last, during>>
  BY DEF Dump
<1>3. NoSocket.next = 0 /\ \A r : [queue |-> <<[type |-> "error", err |-> r]>>, next |-> 0].next = 0
  BY DEF NoSocket
<1>4. proc[p].at = "recv" /\ proc[p].call.op = "get" /\ GetterRight(p) /\ DOMAIN proc[p] = {"at", "call", "calls"}
  BY <1>1, <1>2, <1>3 DEF ProcRight, SetterRight
<1>5. Telling(sock[p].queue, from, i, tb[p], during[p])
  BY <1>2, <1>4 DEF GetterRight, IsTold
<1>6. LastIf \in Nat /\ Ifs = 1..LastIf
  BY NetlinkAssumption DEF LastIf
<1>7. /\ from \in 1..(LastIf + 1)
      /\ i >= from => tb[p] = NoInfo
      /\ i < from => tb[p] \in during[p]
  <2>1. Len(sock[p].queue) = 0
    BY <1>2
  <2>2. from - 0 = from
    BY <1>5, <1>6 DEF Telling
  <2> QED
    BY <1>5, <2>1, <2>2 DEF Telling
<1>8. i \in Ifs /\ Info(Told(i)) \in during[p] /\ during[p] \subseteq Answered /\ proc[p].call.flags \in Modes \cup {"any"}
  BY <1>4 DEF GetterRight
<1>9. Info(Told(i))' = Info(Told(i))
  BY <1>2 DEF Info, Told
<1> SUFFICES ASSUME NEW q \in Seq(Msgs), NEW n,
                    sock' = [sock EXCEPT ![p] = [queue |-> q, next |-> n]],
                    Telling(q, n, i, tb[p], during[p]) \/ IsTold(q, n, tb[p], during[p])
             PROVE  ProcRight(p)'
  <2>1. \E q \in Seq(Msgs) : \E n :
          /\ sock' = [sock EXCEPT ![p] = [queue |-> q, next |-> n]]
          /\ Telling(q, n, i, tb[p], during[p]) \/ IsTold(q, n, tb[p], during[p])
    <3>1. CASE from \in Ifs
      <4>1. PICK upto \in Ifs : /\ from <= upto
              /\ sock' = [sock EXCEPT ![p] =
                   [queue |-> [k \in 1..(upto - from + 1) |-> [type |-> "link", link |-> Told(from + k - 1)]],
                    next |-> upto + 1]]
        BY <3>1 DEF Dump
      <4> DEFINE q == [k \in 1..(upto - from + 1) |-> [type |-> "link", link |-> Told(from + k - 1)]]
      <4>2. upto \in Nat /\ from \in Nat /\ upto - from + 1 \in Nat /\ upto <= LastIf
        BY <1>6, <1>7, <4>1
      <4>3. \A k \in 1..(upto - from + 1) : from + k - 1 \in Ifs
        BY <1>6, <1>7, <4>1
      <4>4. \A k \in 1..(upto - from + 1) :
              /\ q[k].type = "link" /\ q[k].link = Told(from + k - 1)
              /\ q[k].link \in ToldLinks /\ q[k].link.ifindex = from + k - 1
        BY <1>1, <4>3, ToldIsLink DEF NetlinkDomains
      <4>5. \A k \in 1..(upto - from + 1) : q[k] \in Msgs
        BY <1>1, <4>3, ToldIsLink DEF Msgs, NetlinkDomains
      <4>6. q \in Seq(Msgs) /\ Len(q) = upto - from + 1
        <5>1. q \in [1..(upto - from + 1) -> Msgs]
          BY <4>5
        <5> HIDE DEF q
        <5> QED
          BY <4>2, <5>1, IsSequence
      <4> HIDE DEF q
      <4>7. (upto + 1) - Len(q) = from /\ Len(q) < upto + 1
        BY <1>7, <4>2, <4>6
      <4>8. upto + 1 \in 1..(LastIf + 1)
        BY <1>6, <4>2
      <4>9. \A k \in 1..Len(q) : q[k].link.ifindex = i => Info(q[k].link) \in during[p]
        BY <1>8, <4>4, <4>6
      <4>10. Telling(q, upto + 1, i, tb[p], during[p])
        BY <1>7, <4>4, <4>6, <4>7, <4>8, <4>9 DEF Telling
      <4>11. sock' = [sock EXCEPT ![p] = [queue |-> q, next |-> upto + 1]]
        BY <4>1 DEF q
      <4> QED
        BY <4>6, <4>10, <4>11
    <3>2. CASE from \notin Ifs
      <4>1. sock' = [sock EXCEPT ![p] = [queue |-> <<[type |-> "done"]>>, next |-> 0]]
        BY <3>2 DEF Dump
      <4>2. i < from
        BY <1>6, <1>7, <1>8, <3>2
      <4>3. <<[type |-> "done"]>> \in Seq(Msgs)
        BY DEF Msgs
      <4>4. IsTold(<<[type |-> "done"]>>, 0, tb[p], during[p])
        BY <1>7, <4>2 DEF IsTold
      <4> QED
        BY <4>1, <4>3, <4>4
    <3> QED
      BY <3>1, <3>2
  <2>2. ProcRight(p)'
    BY <2>1
  <2>3. AnswersRight'
    BY <1>1, <1>2 DEF AnswersRight, InfoIsTrue, IdOfTheMode, AnswerIsKernels
  <2>4. \A r \in Procs \ {p} : sock'[r] = sock[r]
    BY <1>1, <2>1 DEF NetlinkDomains
  <2> QED
    BY <1>1, <1>2, <2>1, <2>2, <2>3, <2>4, OnOwnSocket DEF NetlinkDomains
<1>10. sock'[p] = [queue |-> q, next |-> n]
  BY <1>1 DEF NetlinkDomains
<1>11. sock'[p].queue = q /\ sock'[p].next = n /\ DOMAIN sock'[p] = {"queue", "next"}
  BY <1>10
<1>12. (Telling(sock[p].queue, sock[p].next, proc[p].call.ifindex, tb[p], during[p])
          \/ IsTold(sock[p].queue, sock[p].next, tb[p], during[p]))'
  BY <1>2, <1>11 DEF Telling, IsTold
<1>13. GetterRight(p)'
  BY <1>2, <1>8, <1>9, <1>11, <1>12 DEF GetterRight
<1> QED
  BY <1>2, <1>4, <1>13 DEF ProcRight

LEMMA AnswerDomains ==
  ASSUME NetlinkDomains, NEW p \in Procs, NEW answer, Answers(p, answer)
  PROVE  /\ DOMAIN proc' = Procs /\ DOMAIN tb' = Procs /\ DOMAIN last' = Procs
         /\ DOMAIN sock' = Procs /\ DOMAIN during' = Procs
         /\ last'[p] = answer /\ sock'[p] = NoSocket
         /\ proc'[p] = [proc[p] EXCEPT !.at = "idle", !.call = NoCall]
         /\ \A q \in Procs \ {p} : /\ proc'[q] = proc[q] /\ tb'[q] = tb[q] /\ last'[q] = last[q]
                                   /\ sock'[q] = sock[q] /\ during'[q] = during[q]
<1>1. proc' = [proc EXCEPT ![p] = [proc[p] EXCEPT !.at = "idle", !.call = NoCall]]
  BY DEF Answers
<1> QED
  BY <1>1 DEF NetlinkDomains, Answers

LEMMA AnsweredKeeps ==
  ASSUME NetlinkInv, NEW p \in Procs, NEW answer, Answers(p, answer), xdp' = xdp,
         answer.ret = "ok" /\ answer.op = "get" =>
           /\ answer.info \in answer.held
           /\ answer.prog_id # NoProg =>
                \E h \in answer.held, m \in Modes : h.ids[m] = answer.prog_id /\ answer.flags \in {m, "any"},
         answer.op = "set" /\ answer.ret # "failed" => (answer.ret = "ok") = answer.done
  PROVE  NetlinkInv'
<1>1. NetlinkDomains /\ AnswersRight /\ ProcRight(p)
  BY DEF NetlinkInv
<1>2. last'[p] = answer /\ \A q \in Procs \ {p} : last'[q] = last[q]
  BY <1>1, AnswerDomains
<1>3. InfoIsTrue'
  BY <1>1, <1>2 DEF AnswersRight, InfoIsTrue
<1>4. IdOfTheMode'
  BY <1>1, <1>2 DEF AnswersRight, IdOfTheMode
<1>5. AnswerIsKernels'
  BY <1>1, <1>2 DEF AnswersRight, AnswerIsKernels
<1>6. ProcRight(p)'
  <2>1. proc'[p].at = "idle" /\ DOMAIN proc'[p] = {"at", "call", "calls"} /\ sock'[p] = NoSocket
    <3>1. DOMAIN proc[p] = {"at", "call", "calls"}
      BY <1>1 DEF ProcRight
    <3>2. proc'[p] = [proc[p] EXCEPT !.at = "idle", !.call = NoCall] /\ sock'[p] = NoSocket
      BY <1>1, AnswerDomains
    <3> QED
      BY <3>1, <3>2
  <2> QED
    BY <2>1 DEF ProcRight
<1>7. AnswersRight'
  BY <1>3, <1>4, <1>5 DEF AnswersRight
<1> QED
  BY <1>1, <1>6, <1>7, AnswerDomains, OnOwnSocket

LEMMA FailKeeps ==
  ASSUME NetlinkInv, NEW p \in Procs, RecvFails(p)
  PROVE  NetlinkInv'
<1> DEFINE answer == [ret |-> "failed", op |-> proc[p].call.op]
<1>1. Answers(p, answer) /\ xdp' = xdp /\ answer.ret = "failed"
  BY DEF RecvFails
<1> HIDE DEF answer
<1> QED
  BY <1>1, AnsweredKeeps

(* The identifier a call returns, of the info it has. *)
LEMMA IdIsOfMode ==
  ASSUME NEW h \in Answered, NEW flags \in Modes \cup {"any"}, get_xdp_id(h, flags) # NoProg
  PROVE  \E m \in Modes : h.ids[m] = get_xdp_id(h, flags) /\ flags \in {m, "any"}
  BY DEF get_xdp_id, Answered, Modes

LEMMA RecvKeeps ==
  ASSUME NetlinkInv, NEW p \in Procs, bpf_netlink_recv(p)
  PROVE  NetlinkInv'
<1> DEFINE m == Head(sock[p].queue)
<1>1. NetlinkDomains /\ AnswersRight /\ ProcRight(p)
  BY DEF NetlinkInv
<1>2. proc[p].at = "recv" /\ sock[p].queue # <<>> /\ xdp' = xdp
  BY DEF bpf_netlink_recv
<1>3. CASE proc[p].call.op = "set" /\ SetterRight(p)
  <2>1. PICK r \in BOOLEAN : proc[p].call.done = ~r
                             /\ sock[p] = [queue |-> <<[type |-> "error", err |-> r]>>, next |-> 0]
    BY <1>3 DEF SetterRight
  <2>2. m = [type |-> "error", err |-> r]
    BY <2>1
  <2>3. m.type = "error" /\ m.err = r
    BY <2>2
  <2>4. CASE r
    <3> DEFINE answer == [ret |-> "refused", op |-> "set", done |-> proc[p].call.done]
    <3>1. Answers(p, answer)
      BY <2>3, <2>4 DEF bpf_netlink_recv
    <3>2. answer.ret = "refused" /\ answer.op = "set" /\ answer.done = FALSE
      BY <2>1, <2>4
    <3>3. (answer.ret = "ok") = answer.done
      BY <3>2
    <3> HIDE DEF answer
    <3> QED
      BY <1>2, <3>1, <3>2, <3>3, AnsweredKeeps
  <2>5. CASE ~r
    <3> DEFINE answer == [ret |-> "ok", op |-> "set", done |-> proc[p].call.done]
    <3>1. Succeeds(p)
      BY <2>3, <2>5 DEF bpf_netlink_recv
    <3>2. Answers(p, answer)
      BY <1>3, <3>1 DEF Succeeds
    <3>3. answer.ret = "ok" /\ answer.op = "set" /\ answer.done = TRUE
      BY <2>1, <2>5
    <3>4. (answer.ret = "ok") = answer.done
      BY <3>3
    <3> HIDE DEF answer
    <3> QED
      BY <1>2, <3>2, <3>3, <3>4, AnsweredKeeps
  <2> QED
    BY <2>1, <2>4, <2>5
<1>4. CASE proc[p].call.op = "get" /\ GetterRight(p)
  <2> DEFINE i == proc[p].call.ifindex
  <2> DEFINE q == sock[p].queue
  <2> DEFINE n == sock[p].next
  <2>1. /\ i \in Ifs /\ proc[p].call.flags \in Modes \cup {"any"} /\ Info(Told(i)) \in during[p]
        /\ during[p] \subseteq Answered /\ q \in Seq(Msgs) /\ DOMAIN sock[p] = {"queue", "next"}
    BY <1>4 DEF GetterRight
  <2>2. Len(q) \in Nat \ {0} /\ m = q[1] /\ Len(Tail(q)) = Len(q) - 1 /\ Tail(q) \in Seq(Msgs)
        /\ \A k \in 1..Len(q) - 1 : Tail(q)[k] = q[k + 1]
    BY <1>2, <2>1
  <2>3. CASE IsTold(q, n, tb[p], during[p])
    <3> DEFINE answer == [ret |-> "ok", op |-> "get", flags |-> proc[p].call.flags, info |-> tb[p],
                          prog_id |-> get_xdp_id(tb[p], proc[p].call.flags), held |-> during[p]]
    <3>1. m = [type |-> "done"]
      BY <2>3 DEF IsTold
    <3>2. m.type = "done"
      BY <3>1
    <3>3. Succeeds(p)
      BY <3>2 DEF bpf_netlink_recv
    <3>4. Answers(p, answer)
      BY <1>4, <3>3 DEF Succeeds
    <3>5. /\ answer.op = "get" /\ answer.info \in answer.held
          /\ answer.prog_id # NoProg =>
               \E h \in answer.held, mo \in Modes : h.ids[mo] = answer.prog_id /\ answer.flags \in {mo, "any"}
      BY <2>1, <2>3, IdIsOfMode DEF IsTold
    <3> HIDE DEF answer
    <3> QED
      BY <1>2, <3>4, <3>5, AnsweredKeeps
  <2>4. CASE Telling(q, n, i, tb[p], during[p])
    <3>1. /\ n \in 1..(LastIf + 1) /\ Len(q) < n
          /\ m.type = "link" /\ m.link \in ToldLinks
          /\ m.link.ifindex = n - Len(q)
          /\ m.link.ifindex = i => Info(m.link) \in during[p]
      BY <2>2, <2>4, NetlinkAssumption DEF Telling, LastIf
    <3>2. /\ i >= n - Len(q) => tb[p] = NoInfo
          /\ i < n - Len(q) => tb[p] \in during[p]
      BY <2>4 DEF Telling
    <3>3. /\ tb' = [tb EXCEPT ![p] = get_xdp_info(tb[p], i, m.link)]
          /\ sock' = [sock EXCEPT ![p].queue = Tail(q)]
          /\ UNCHANGED <<proc, last, during>>
      BY <3>1 DEF bpf_netlink_recv
    <3> DEFINE info == get_xdp_info(tb[p], i, m.link)
    <3>4. /\ m.link.ifindex = i => info = Info(m.link)
          /\ m.link.ifindex # i => info = tb[p]
      <4>1. CASE m.link.ifindex = i
        <5>1. tb[p] = NoInfo
          BY <3>1, <3>2, <4>1, <2>2, NetlinkAssumption DEF LastIf
        <5> QED
          BY <2>1, <3>1, <4>1, <5>1, TakenAsTold
      <4>2. CASE m.link.ifindex # i
        BY <2>1, <3>1, <4>2, TakenAsTold
      <4> QED
        BY <4>1, <4>2
    <3>5. /\ tb'[p] = info /\ sock'[p].queue = Tail(q) /\ sock'[p].next = n /\ DOMAIN sock'[p] = {"queue", "next"}
          /\ DOMAIN tb' = Procs /\ DOMAIN sock' = Procs
          /\ \A r \in Procs \ {p} : tb'[r] = tb[r] /\ sock'[r] = sock[r]
      BY <1>1, <2>1, <3>3 DEF NetlinkDomains
    <3> HIDE DEF info, m
    <3>6. LastIf \in Nat /\ i \in 1..LastIf
      BY <2>1, NetlinkAssumption DEF LastIf
    <3>7. /\ i >= n - Len(Tail(q)) => info = NoInfo
          /\ i < n - Len(Tail(q)) => info \in during[p]
      <4>1. Len(Tail(q)) = Len(q) - 1 /\ Len(q) \in Int /\ n \in Int /\ i \in Int
        BY <2>2, <3>1, <3>6
      <4>2. i < n - (Len(q) - 1) => i < n - Len(q) \/ i = n - Len(q)
        BY <4>1
      <4>3. i >= n - (Len(q) - 1) => i >= n - Len(q) /\ i # n - Len(q)
        BY <4>1
      <4> QED
        BY <3>1, <3>2, <3>4, <4>1, <4>2, <4>3
    <3>8. \A k \in 1..Len(Tail(q)) :
            /\ Tail(q)[k].type = "link" /\ Tail(q)[k].link \in ToldLinks
            /\ Tail(q)[k].link.ifindex = n - Len(Tail(q)) + k - 1
            /\ Tail(q)[k].link.ifindex = i => Info(Tail(q)[k].link) \in during[p]
      <4>1. \A k \in 1..Len(q) :
              /\ q[k].type = "link" /\ q[k].link \in ToldLinks
              /\ q[k].link.ifindex = n - Len(q) + k - 1
              /\ q[k].link.ifindex = i => Info(q[k].link) \in during[p]
        BY <2>4 DEF Telling
      <4> SUFFICES ASSUME NEW k \in 1..Len(q) - 1
                   PROVE  /\ q[k + 1].type = "link" /\ q[k + 1].link \in ToldLinks
                          /\ q[k + 1].link.ifindex = n - (Len(q) - 1) + k - 1
                          /\ q[k + 1].link.ifindex = i => Info(q[k + 1].link) \in during[p]
        BY <2>2
      <4>2. k + 1 \in 1..Len(q) /\ n - (Len(q) - 1) + k - 1 = n - Len(q) + (k + 1) - 1
        <5>1. Len(q) \in Nat /\ n \in Int
          BY <2>2, <3>1, <3>6
        <5> HIDE DEF q, n
        <5> QED
          BY <5>1
      <4> QED
        BY <4>1, <4>2
    <3>9. Len(Tail(q)) < n
      BY <2>2, <3>1, <3>6
    <3>10. Telling(Tail(q), n, i, info, during[p])
      BY <3>1, <3>7, <3>8, <3>9 DEF Telling
    <3>11. Telling(sock[p].queue, sock[p].next, proc[p].call.ifindex, tb[p], during[p])'
      BY <3>3, <3>5, <3>10 DEF Telling
    <3>12. Info(Told(proc[p].call.ifindex))' = Info(Told(i))
      BY <1>2, <3>3 DEF Info, Told
    <3>13. GetterRight(p)'
      BY <2>1, <2>2, <3>3, <3>5, <3>11, <3>12 DEF GetterRight
    <3>14. ProcRight(p)'
      BY <1>1, <1>2, <1>4, <3>3, <3>13 DEF ProcRight
    <3>15. AnswersRight'
      BY <1>1, <3>3 DEF AnswersRight, InfoIsTrue, IdOfTheMode, AnswerIsKernels
    <3> QED
      BY <1>1, <1>2, <3>3, <3>5, <3>14, <3>15, OnOwnSocket DEF NetlinkDomains
  <2> QED
    BY <1>4, <2>3, <2>4 DEF GetterRight
<1> QED
  BY <1>1, <1>2, <1>3, <1>4 DEF ProcRight

LEMMA NetlinkStepKeeps == NetlinkInv /\ [NetlinkNext]_netlinkVars => NetlinkInv'
<1> SUFFICES ASSUME NetlinkInv, [NetlinkNext]_netlinkVars PROVE NetlinkInv'
  OBVIOUS
<1>1. CASE UNCHANGED netlinkVars
  <2>1. NetlinkDomains' /\ AnswersRight'
    BY <1>1 DEF netlinkVars, NetlinkInv, NetlinkDomains, AnswersRight, InfoIsTrue, IdOfTheMode, AnswerIsKernels
  <2>2. ASSUME NEW p \in Procs PROVE ProcRight(p)'
    <3>1. Info(Told(proc[p].call.ifindex))' = Info(Told(proc[p].call.ifindex))
      BY <1>1 DEF netlinkVars, Info, Told
    <3>2. ProcRight(p) /\ UNCHANGED <<proc, sock, tb, during>>
      BY <1>1 DEF NetlinkInv, netlinkVars
    <3>3. proc[p].call.op = "get" /\ proc[p].at = "recv" => GetterRight(p)
      BY <3>2 DEF ProcRight
    <3> QED
      BY <3>1, <3>2, <3>3, UndisturbedKeeps DEF GetterRight
  <2> QED
    BY <2>1, <2>2 DEF NetlinkInv
<1>2. ASSUME NEW p \in Setters, NEW i \in Ifs, NEW prog \in XdpProgs \cup {NoProg}, NEW mode \in Modes \cup {"any"},
             NEW noexist \in BOOLEAN, bpf_set_link_xdp_fd(p, i, prog, mode, noexist)
      PROVE  NetlinkInv'
  BY <1>2, SetKeeps DEF bpf_set_link_xdp_fd, Ids
<1>3. ASSUME NEW p \in Setters, NEW i \in Ifs, NEW prog \in XdpProgs \cup {NoProg}, NEW mode \in Modes \cup {"any"},
             NEW old \in XdpProgs \cup {NoProg}, bpf_set_link_xdp_fd_opts(p, i, prog, mode, old)
      PROVE  NetlinkInv'
  BY <1>3, SetKeeps DEF bpf_set_link_xdp_fd_opts, Ids
<1> QED
  BY <1>1, <1>2, <1>3, GetKeeps, DumpKeeps, RecvKeeps, FailKeeps DEF NetlinkNext

(* A call that has begun is the one whose request was sent. *)
LEMMA StepReplacesNamed ==
  ASSUME NetlinkInv, [NetlinkNext]_netlinkVars
  PROVE  [ReplacesWhatItNamedStep]_netlinkVars
<1> SUFFICES ASSUME NetlinkNext, NEW p \in Procs, proc[p].at = "idle", proc'[p].at # "idle",
                    proc'[p].call.op = "set", proc'[p].call.want # "any", xdp' # xdp
             PROVE  xdp[proc'[p].call.ifindex][ModeOf(proc'[p].call.ifindex, proc'[p].call.mode)] = proc'[p].call.want
  BY DEF ReplacesWhatItNamedStep
<1>1. NetlinkDomains
  BY DEF NetlinkInv
<1>2. ASSUME NEW s \in Setters, NEW i \in Ifs, NEW prog, NEW mode, NEW noexist, NEW replace, NEW old, NEW want,
             want # "any" => replace /\ want = old,
             __bpf_set_link_xdp_fd_replace(s, [op |-> "set", ifindex |-> i, prog |-> prog, mode |-> mode,
               noexist |-> noexist, replace |-> replace, old |-> old, want |-> want, done |-> FALSE])
      PROVE  xdp[proc'[p].call.ifindex][ModeOf(proc'[p].call.ifindex, proc'[p].call.mode)] = proc'[p].call.want
  <2> DEFINE c == [op |-> "set", ifindex |-> i, prog |-> prog, mode |-> mode,
                   noexist |-> noexist, replace |-> replace, old |-> old, want |-> want, done |-> FALSE]
  <2> DEFINE d == [c EXCEPT !.done = ~Refused(c)]
  <2>1. Calls(s, d) /\ ~Refused(c) /\ s \in Procs
    BY <1>2 DEF __bpf_set_link_xdp_fd_replace, Procs
  <2>2. c.ifindex = i /\ c.mode = mode /\ c.replace = replace /\ c.old = old
    OBVIOUS
  <2>3. d.ifindex = i /\ d.mode = mode /\ d.want = want
    OBVIOUS
  <2> HIDE DEF c, d
  <2>4. s = p
    BY <1>1, <2>1, CallDomains
  <2>5. proc'[p].call = d
    BY <1>1, <2>1, <2>4, CallStarts
  <2>6. replace => xdp[i][ModeOf(i, mode)] = old
    BY <2>1, <2>2 DEF Refused
  <2> QED
    BY <1>2, <2>3, <2>5, <2>6
<1>3. ASSUME NEW s \in Procs, bpf_netlink_recv(s) \/ RecvFails(s) \/ Dump(s) PROVE FALSE
  BY <1>3 DEF bpf_netlink_recv, RecvFails, Dump
<1>4. ASSUME NEW g \in Getters, NEW i \in Ifs, NEW flags, bpf_get_link_xdp_info(g, i, flags) PROVE FALSE
  BY <1>4 DEF bpf_get_link_xdp_info
<1>5. ASSUME NEW s \in Setters, NEW i \in Ifs, NEW prog, NEW mode, NEW noexist, bpf_set_link_xdp_fd(s, i, prog, mode, noexist)
      PROVE  xdp[proc'[p].call.ifindex][ModeOf(proc'[p].call.ifindex, proc'[p].call.mode)] = proc'[p].call.want
  BY <1>2, <1>5 DEF bpf_set_link_xdp_fd
<1>6. ASSUME NEW s \in Setters, NEW i \in Ifs, NEW prog, NEW mode, NEW old, bpf_set_link_xdp_fd_opts(s, i, prog, mode, old)
      PROVE  xdp[proc'[p].call.ifindex][ModeOf(proc'[p].call.ifindex, proc'[p].call.mode)] = proc'[p].call.want
  BY <1>2, <1>6 DEF bpf_set_link_xdp_fd_opts
<1> QED
  BY <1>3, <1>4, <1>5, <1>6 DEF NetlinkNext

(***************************************************************************)
(* For any interfaces, programs and processes: what a call says of an      *)
(* interface was so at some moment of the call, and in the mode asked for; *)
(* a call that names the program it replaces takes away no other; and no   *)
(* answer of the kernel is mistaken for another.                           *)
(***************************************************************************)
THEOREM NetlinkIsRight == NetlinkSpec => NetlinkRight
<1>1. NetlinkInit => NetlinkInv
  BY NetlinkInitHolds
<1>2. NetlinkInv /\ [NetlinkNext]_netlinkVars => NetlinkInv'
  BY NetlinkStepKeeps
<1>3. NetlinkInv => InfoIsTrue /\ IdOfTheMode /\ AnswerIsKernels
  BY DEF NetlinkInv, AnswersRight
<1>4. NetlinkInv /\ [NetlinkNext]_netlinkVars => [ReplacesWhatItNamedStep]_netlinkVars
  BY StepReplacesNamed
<1> QED
  BY <1>1, <1>2, <1>3, <1>4, PTL DEF NetlinkSpec, NetlinkRight
-----------------------------------------------------------------------------
(***************************************************************************)
(* Loading a program: what is known while it is tried again.               *)
(***************************************************************************)
Attrs     == [level : Nat, size : Nat, func : BOOLEAN, line : BOOLEAN]
Taken     == kern.accept /\ ~kern.busy /\ ~kern.short /\ log_level <= 7
TooSmall  == log_level > 0 /\ errno = "ENOSPC" /\ log_buf_size # 0 /\ log_buf_size < kern.need

(* The log: empty before a call; when it is cut the call says so.          *)
Logs == {"empty", "records", "whole", "cut"}
LogInv ==
  /\ log_buf \in Logs
  /\ pc \in {"try", "log"} => log_buf = "empty"
  /\ pc = "shorten" => attr.level = log_level
  /\ pc = "shorten" /\ log_level = 0 => log_buf = "empty"
  /\ pc = "shorten" /\ ret # "OK" /\ errno = "E2BIG" => log_buf \in {"empty", "records"}
  /\ pc \in {"shorten", "judge"} /\ log_buf = "cut" => errno \in {"ENOSPC", "EAGAIN"} /\ ret # "OK"
  /\ pc = "done" /\ ret = "VERIFY" /\ log_buf = "cut" => errno = "EAGAIN"

OpenInv ==
  /\ fds = IF ret = "OK" THEN 1 ELSE 0
  /\ pc \in {"try", "log"} => ret # "OK"

(* An accepted program is refused for its records, for want of a log, or   *)
(* for a log that is too small.                                            *)
TakenInv ==
  Taken =>
    /\ prog_type = "own" /\ pc # "log" /\ kern.need > 0
    /\ pc = "try" => log_buf_size = 0 \/ (log_level > 0 /\ log_buf_size < 2 * kern.need)
    /\ pc = "shorten" => /\ attr.level = log_level /\ attr.size = log_buf_size
                         /\ log_level = 0 <=> log_buf_size = 0
                         /\ log_buf_size < 2 * kern.need
                         /\ ret = "OK" \/ (errno = "E2BIG" /\ Unshorten) \/ TooSmall
    /\ pc = "judge" => ret = "OK" \/ (log_level > 0 /\ log_buf_size = 0) \/ TooSmall
    /\ pc = "done" => ret = "OK"

LoadTypes ==
  /\ pc \in {"try", "shorten", "log", "judge", "done"}
  /\ kern \in Kernels /\ log_level \in Nat /\ log_buf_size \in Nat
  /\ prog_type \in {"own", "kprobe"}
  /\ attr \in Attrs

LoadInv == LoadTypes /\ LogInv /\ OpenInv /\ TakenInv

LEMMA NothingKnown ==
  ASSUME NEW n \in Nat, NEW m \in Nat, NEW a, a = [level |-> n, size |-> m, func |-> FALSE, line |-> FALSE]
  PROVE  a \in Attrs /\ a.level = n /\ a.size = m /\ ~a.func /\ ~a.line
<1>1. a \in Attrs
  BY DEF Attrs
<1>2. a.level = n /\ a.size = m
  OBVIOUS
<1>3. ~a.func /\ ~a.line
  OBVIOUS
<1> QED
  BY <1>1, <1>2, <1>3

LEMMA LoadInitHolds == LoadInit => LoadInv
<1> SUFFICES ASSUME LoadInit PROVE LoadInv
  OBVIOUS
<1>1. attr = [level |-> 0, size |-> 0, func |-> FALSE, line |-> FALSE]
  BY DEF LoadInit, Start
<1>2. LoadTypes
  <2>1. attr \in Attrs
    BY <1>1, NothingKnown
  <2> QED
    BY <2>1, LogAssumption DEF LoadInit, LoadTypes
<1>3. kern.accept => kern.need > 0
  BY DEF LoadInit
<1>4. LogInv /\ OpenInv /\ TakenInv
  BY <1>3 DEF LoadInit, LogInv, Logs, OpenInv, TakenInv, Taken
<1> QED
  BY <1>2, <1>4 DEF LoadInv

(* What becomes of a call: the program is loaded, the log is too small,    *)
(* the records too long, the program wrong, or the call interrupted.       *)
Loaded(a)   == ret' = "OK" /\ fds' = fds + 1 /\ errno' = errno /\ log_buf' # "cut"
Failed(a)   == ret' = "-1" /\ fds' = fds
NoSpace(a)  == Failed(a) /\ errno' = "ENOSPC" /\ log_buf' = "cut" /\ a.level > 0 /\ a.size < kern.need
TooLong(a)  == /\ Failed(a) /\ errno' = "E2BIG" /\ log_buf' \in {"empty", "records"}
               /\ (kern.func /\ ~a.func) \/ (kern.line /\ ~a.line)
Wrong(a)    == Failed(a) /\ errno' = "EINVAL" /\ log_buf' # "cut" /\ ~(prog_type = "own" /\ kern.accept)
Interrupted(a) == Failed(a) /\ errno' = "EAGAIN" /\ kern.busy

LEMMA Outcomes ==
  ASSUME NEW a \in Attrs, sys_bpf_prog_load(a), log_buf \in {"empty", "records"}
  PROVE  /\ Loaded(a) \/ NoSpace(a) \/ TooLong(a) \/ Wrong(a) \/ Interrupted(a)
         /\ a.level = 0 => log_buf' = log_buf
         /\ log_buf' \in Logs
<1>1. PICK r \in {Answer(a)} \cup Interruptions(a) :
        /\ log_buf' = r[2]
        /\ IF r[1] = "OK" THEN fds' = fds + 1 /\ ret' = "OK" /\ UNCHANGED errno
           ELSE errno' = r[1] /\ ret' = "-1" /\ UNCHANGED fds
  BY DEF sys_bpf_prog_load
<1>0. a.level = 0 => ~(a.level > 0)
  BY DEF Attrs
<1>2. CASE r \in Interruptions(a)
  <2>1. kern.busy /\ \E l \in {log_buf} \cup (IF a.level > 0 THEN {"cut"} ELSE {}) : r = <<"EAGAIN", l>>
    BY <1>2 DEF Interruptions
  <2>2. PICK l \in {log_buf} \cup (IF a.level > 0 THEN {"cut"} ELSE {}) : r = <<"EAGAIN", l>>
    BY <2>1
  <2>3. r[1] = "EAGAIN" /\ r[2] = l
    BY <2>2
  <2>4. l \in Logs /\ (a.level = 0 => l = log_buf)
    BY <1>0, <2>2 DEF Logs
  <2> QED
    BY <1>1, <2>1, <2>3, <2>4 DEF Interrupted, Failed
<1>3. CASE r = Answer(a)
  <2>1. CASE (kern.func /\ ~a.func) \/ (kern.line /\ ~a.line)
    <3>1. r = <<"E2BIG", IF a.level > 0 THEN "records" ELSE log_buf>>
      BY <1>3, <2>1 DEF Answer
    <3>2. r[1] = "E2BIG" /\ r[2] \in {"empty", "records"} /\ (a.level = 0 => r[2] = log_buf)
      BY <1>0, <3>1
    <3> QED
      BY <1>1, <2>1, <3>2 DEF TooLong, Failed, Logs
  <2>2. CASE ~((kern.func /\ ~a.func) \/ (kern.line /\ ~a.line)) /\ a.level > 0 /\ a.size < kern.need
    <3>1. r = <<"ENOSPC", "cut">>
      BY <1>3, <2>2 DEF Answer
    <3>2. a.level # 0
      BY <2>2
    <3> QED
      BY <1>1, <2>2, <3>1, <3>2 DEF NoSpace, Failed, Logs
  <2>3. CASE ~((kern.func /\ ~a.func) \/ (kern.line /\ ~a.line)) /\ ~(a.level > 0 /\ a.size < kern.need)
    <3>1. r = <<IF (prog_type = "own" /\ kern.accept) \/ (prog_type = "kprobe" /\ kern.kprobe) THEN "OK" ELSE "EINVAL",
                IF a.level > 0 /\ kern.need > 0 THEN "whole" ELSE log_buf>>
      BY <1>3, <2>3 DEF Answer
    <3>3. log_buf' \in Logs \ {"cut"} /\ (a.level = 0 => log_buf' = log_buf)
      BY <1>0, <1>1, <3>1 DEF Logs
    <3>4. CASE (prog_type = "own" /\ kern.accept) \/ (prog_type = "kprobe" /\ kern.kprobe)
      BY <1>1, <3>1, <3>3, <3>4 DEF Loaded
    <3>5. CASE ~((prog_type = "own" /\ kern.accept) \/ (prog_type = "kprobe" /\ kern.kprobe))
      BY <1>1, <3>1, <3>3, <3>5 DEF Wrong, Failed
    <3> QED
      BY <3>3, <3>4, <3>5
  <2> QED
    BY <2>1, <2>2, <2>3
<1> QED
  BY <1>1, <1>2, <1>3

LEMMA OneMore ==
  ASSUME NEW a, Loaded(a) \/ NoSpace(a) \/ TooLong(a) \/ Wrong(a) \/ Interrupted(a),
         fds = 0, pc' \notin {"try", "log"}
  PROVE  OpenInv'
<1>1. CASE Loaded(a)
  BY <1>1 DEF Loaded, OpenInv
<1>2. CASE Failed(a)
  BY <1>2 DEF Failed, OpenInv
<1> QED
  BY <1>1, <1>2 DEF NoSpace, TooLong, Wrong, Interrupted

LEMMA FirstCallKeeps ==
  ASSUME LoadInv, FirstCall
  PROVE  LoadInv'
<1>1. pc = "try" /\ UNCHANGED <<kern, log_level, prog_type, log_buf_size>>
  BY DEF FirstCall
<1>2. /\ kern \in Kernels /\ log_level \in Nat /\ log_buf_size \in Nat /\ prog_type \in {"own", "kprobe"} /\ attr \in Attrs
      /\ log_buf = "empty" /\ fds = 0 /\ ret # "OK"
  BY <1>1 DEF LoadInv, LoadTypes, LogInv, OpenInv
<1>3. Taken => /\ prog_type = "own" /\ kern.need > 0
               /\ log_buf_size = 0 \/ (log_level > 0 /\ log_buf_size < 2 * kern.need)
  BY <1>1 DEF LoadInv, TakenInv
<1>4. Taken' <=> Taken
  BY <1>1 DEF Taken
<1>5. CASE Rejected
  <2>1. ret' = "EINVAL" /\ pc' = "judge" /\ UNCHANGED <<attr, errno, log_buf, fds>>
    BY <1>5 DEF FirstCall
  <2>2. Taken => log_level > 0 /\ log_buf_size = 0
    BY <1>2, <1>3, <1>5 DEF Rejected, Taken
  <2>3. LoadTypes'
    BY <1>1, <1>2, <2>1 DEF LoadTypes
  <2>4. LogInv' /\ OpenInv'
    BY <1>2, <2>1 DEF LogInv, Logs, OpenInv
  <2>5. TakenInv'
    BY <1>1, <1>3, <1>4, <2>1, <2>2 DEF TakenInv
  <2> QED
    BY <2>3, <2>4, <2>5 DEF LoadInv
<1>6. CASE ~Rejected
  <2> DEFINE sz == IF prog_type = "kprobe" THEN 0 ELSE log_buf_size
  <2> DEFINE a == Start(log_level, sz)
  <2>1. attr' = a /\ sys_bpf_prog_load(a) /\ pc' = "shorten"
    BY <1>6 DEF FirstCall
  <2>2. a = [level |-> log_level, size |-> sz, func |-> FALSE, line |-> FALSE]
    BY DEF Start
  <2>3. a \in Attrs /\ a.level = log_level /\ a.size = sz /\ ~a.func /\ ~a.line
    <3>1. sz \in Nat
      BY <1>2
    <3> HIDE DEF sz, a
    <3> QED
      BY <1>2, <2>2, <3>1, NothingKnown
  <2>4. log_level > 0 => log_buf_size # 0
    BY <1>6 DEF Rejected
  <2>5. Taken => prog_type = "own" /\ sz = log_buf_size
    BY <1>3
  <2> HIDE DEF a, sz
  <2>6. /\ Loaded(a) \/ NoSpace(a) \/ TooLong(a) \/ Wrong(a) \/ Interrupted(a)
        /\ a.level = 0 => log_buf' = log_buf
        /\ log_buf' \in Logs
    BY <1>2, <2>1, <2>3, Outcomes
  <2>7. LoadTypes'
    BY <1>1, <1>2, <2>1, <2>3 DEF LoadTypes
  <2>8. LogInv'
    BY <1>1, <1>2, <2>1, <2>3, <2>6 DEF LogInv, Loaded, NoSpace, TooLong, Wrong, Interrupted, Failed
  <2>9. OpenInv'
    BY <1>2, <2>1, <2>6, OneMore
  <2>10. Taken => ret' = "OK" \/ (errno' = "E2BIG" /\ Unshorten') \/ TooSmall'
    BY <1>1, <1>2, <1>3, <2>1, <2>3, <2>4, <2>5, <2>6
       DEF Taken, Unshorten, TooSmall, Loaded, NoSpace, TooLong, Wrong, Interrupted, Failed
  <2>11. Taken => (log_level = 0 <=> log_buf_size = 0) /\ log_buf_size < 2 * kern.need
    <3>1. kern.need \in 0..MaxNeed
      BY <1>2 DEF Kernels
    <3> QED
      BY <1>2, <1>3, <2>4, <3>1, LogAssumption
  <2>12. TakenInv'
    BY <1>1, <1>3, <1>4, <2>1, <2>3, <2>5, <2>10, <2>11 DEF TakenInv
  <2> QED
    BY <2>7, <2>8, <2>9, <2>12 DEF LoadInv
<1> QED
  BY <1>5, <1>6

LEMMA ShortenKeeps ==
  ASSUME LoadInv, Shorten
  PROVE  LoadInv'
<1>1. pc = "shorten" /\ UNCHANGED <<kern, log_level, prog_type, log_buf_size>>
  BY DEF Shorten
<1>2. /\ kern \in Kernels /\ log_level \in Nat /\ log_buf_size \in Nat /\ prog_type \in {"own", "kprobe"} /\ attr \in Attrs
      /\ log_buf \in Logs /\ attr.level = log_level
      /\ log_level = 0 => log_buf = "empty"
      /\ ret # "OK" /\ errno = "E2BIG" => log_buf \in {"empty", "records"}
      /\ log_buf = "cut" => errno \in {"ENOSPC", "EAGAIN"} /\ ret # "OK"
      /\ OpenInv
  BY <1>1 DEF LoadInv, LoadTypes, LogInv
<1>3. Taken => /\ prog_type = "own" /\ kern.need > 0
               /\ attr.level = log_level /\ attr.size = log_buf_size
               /\ log_level = 0 <=> log_buf_size = 0
               /\ log_buf_size < 2 * kern.need
               /\ ret = "OK" \/ (errno = "E2BIG" /\ Unshorten) \/ TooSmall
  BY <1>1 DEF LoadInv, TakenInv
<1>4. Taken' <=> Taken
  BY <1>1 DEF Taken
<1>5. ret # "OK" /\ errno = "E2BIG" /\ Unshorten
  BY DEF Shorten
<1>6. CASE sys_bpf_prog_load(attr') /\ UNCHANGED pc
  <2> DEFINE a == IF kern.func /\ ~attr.func THEN [attr EXCEPT !.func = TRUE] ELSE [attr EXCEPT !.line = TRUE]
  <2>1. attr' = a /\ sys_bpf_prog_load(a) /\ pc' = "shorten"
    BY <1>1, <1>6 DEF Shorten
  <2>2. a \in Attrs /\ a.level = attr.level /\ a.size = attr.size
    BY <1>2 DEF Attrs
  <2> HIDE DEF a
  <2>3. log_buf \in {"empty", "records"}
    BY <1>2, <1>5
  <2>4. /\ Loaded(a) \/ NoSpace(a) \/ TooLong(a) \/ Wrong(a) \/ Interrupted(a)
        /\ a.level = 0 => log_buf' = log_buf
        /\ log_buf' \in Logs
    BY <2>1, <2>2, <2>3, Outcomes
  <2>5. LoadTypes'
    BY <1>1, <1>2, <2>1, <2>2 DEF LoadTypes
  <2>6. LogInv'
    BY <1>1, <1>2, <2>1, <2>2, <2>3, <2>4 DEF LogInv, Loaded, NoSpace, TooLong, Wrong, Interrupted, Failed
  <2>7. OpenInv'
    <3>1. fds = 0
      BY <1>2, <1>5 DEF OpenInv
    <3> QED
      BY <2>1, <2>4, <3>1, OneMore
  <2>8. Taken => ret' = "OK" \/ (errno' = "E2BIG" /\ Unshorten') \/ TooSmall'
    <3>1. Taken /\ NoSpace(a) => TooSmall'
      BY <1>1, <1>2, <1>3, <2>2 DEF NoSpace, Failed, TooSmall
    <3>2. TooLong(a) => errno' = "E2BIG" /\ Unshorten'
      BY <1>1, <2>1 DEF TooLong, Unshorten
    <3>3. Taken => ~Wrong(a) /\ ~Interrupted(a)
      BY <1>3 DEF Wrong, Interrupted, Taken
    <3> QED
      BY <2>4, <3>1, <3>2, <3>3 DEF Loaded
  <2>9. TakenInv'
    BY <1>1, <1>2, <1>3, <1>4, <2>1, <2>2, <2>8 DEF TakenInv
  <2> QED
    BY <2>5, <2>6, <2>7, <2>9 DEF LoadInv
<1>7. CASE kern.short /\ errno' = "ENOMEM" /\ pc' = "judge" /\ UNCHANGED <<attr, ret, log_buf, fds>>
  <2>1. ~Taken
    BY <1>7 DEF Taken
  <2>2. LoadTypes'
    BY <1>1, <1>2, <1>7 DEF LoadTypes
  <2>3. LogInv'
    BY <1>1, <1>2, <1>5, <1>7 DEF LogInv
  <2>4. OpenInv'
    BY <1>2, <1>7 DEF OpenInv
  <2>5. TakenInv'
    BY <1>4, <2>1 DEF TakenInv
  <2> QED
    BY <2>2, <2>3, <2>4, <2>5 DEF LoadInv
<1> QED
  BY <1>6, <1>7 DEF Shorten

LEMMA ShortenedKeeps ==
  ASSUME LoadInv, Shortened
  PROVE  LoadInv'
<1>1. pc = "shorten" /\ UNCHANGED <<kern, log_level, prog_type, log_buf_size>>
  BY DEF Shortened
<1>2. /\ kern \in Kernels /\ log_level \in Nat /\ log_buf_size \in Nat /\ prog_type \in {"own", "kprobe"} /\ attr \in Attrs
      /\ log_buf \in Logs /\ attr.level = log_level
      /\ log_level = 0 => log_buf = "empty"
      /\ ret # "OK" /\ errno = "E2BIG" => log_buf \in {"empty", "records"}
      /\ log_buf = "cut" => errno \in {"ENOSPC", "EAGAIN"} /\ ret # "OK"
      /\ OpenInv
  BY <1>1 DEF LoadInv, LoadTypes, LogInv
<1>3. Taken => /\ prog_type = "own" /\ kern.need > 0
               /\ attr.level = log_level /\ attr.size = log_buf_size
               /\ log_level = 0 <=> log_buf_size = 0
               /\ log_buf_size < 2 * kern.need
               /\ ret = "OK" \/ (errno = "E2BIG" /\ Unshorten) \/ TooSmall
  BY <1>1 DEF LoadInv, TakenInv
<1>4. Taken' <=> Taken
  BY <1>1 DEF Taken
<1>5. ~(ret # "OK" /\ errno = "E2BIG" /\ Unshorten)
  BY DEF Shortened
<1>6. /\ pc' = IF ret # "OK" /\ log_level = 0 /\ attr.size > 0 THEN "log" ELSE "judge"
      /\ UNCHANGED <<attr, errno, ret, log_buf, fds>>
  BY <1>1, <1>5 DEF Shortened
<1>7. LoadTypes'
  BY <1>1, <1>2, <1>6 DEF LoadTypes
<1>8. LogInv'
  BY <1>1, <1>2, <1>6 DEF LogInv
<1>9. OpenInv'
  BY <1>2, <1>6 DEF OpenInv
<1>10. Taken => ret = "OK" \/ TooSmall
  BY <1>3, <1>5
<1>11. Taken => ~(ret # "OK" /\ log_level = 0 /\ attr.size > 0)
  BY <1>2, <1>3
<1>12. TooSmall' <=> TooSmall
  BY <1>1, <1>6 DEF TooSmall
<1>13. TakenInv'
  BY <1>1, <1>3, <1>4, <1>6, <1>10, <1>11, <1>12 DEF TakenInv
<1> QED
  BY <1>7, <1>8, <1>9, <1>13 DEF LoadInv

LEMMA WithLogKeeps ==
  ASSUME LoadInv, WithLog
  PROVE  LoadInv'
<1> DEFINE a == [attr EXCEPT !.level = 1]
<1>1. /\ pc = "log" /\ attr' = a /\ sys_bpf_prog_load(a) /\ pc' = "judge"
      /\ UNCHANGED <<kern, log_level, prog_type, log_buf_size>>
  BY DEF WithLog
<1>2. /\ kern \in Kernels /\ log_level \in Nat /\ log_buf_size \in Nat /\ prog_type \in {"own", "kprobe"} /\ attr \in Attrs
      /\ log_buf = "empty" /\ fds = 0 /\ ret # "OK"
  BY <1>1 DEF LoadInv, LoadTypes, LogInv, OpenInv
<1>3. ~Taken
  BY <1>1 DEF LoadInv, TakenInv
<1>4. a \in Attrs
  BY <1>2 DEF Attrs
<1> HIDE DEF a
<1>5. /\ Loaded(a) \/ NoSpace(a) \/ TooLong(a) \/ Wrong(a) \/ Interrupted(a)
      /\ log_buf' \in Logs
  BY <1>1, <1>2, <1>4, Outcomes
<1>6. LoadTypes'
  BY <1>1, <1>2, <1>4 DEF LoadTypes
<1>7. LogInv'
  BY <1>1, <1>2, <1>5 DEF LogInv, Loaded, NoSpace, TooLong, Wrong, Interrupted, Failed
<1>8. OpenInv'
  BY <1>1, <1>2, <1>5, OneMore
<1>9. TakenInv'
  BY <1>1, <1>3 DEF TakenInv, Taken
<1> QED
  BY <1>6, <1>7, <1>8, <1>9 DEF LoadInv

LEMMA JudgeKprobeKeeps ==
  ASSUME LoadInv, JudgeKprobe
  PROVE  LoadInv'
<1>1. /\ pc = "judge" /\ prog_type = "kprobe" /\ pc' = "done" /\ ret' \in {"PROGTYPE", "error"}
      /\ fds' = IF ret = "OK" THEN fds - 1 ELSE fds
      /\ UNCHANGED <<kern, log_level, prog_type, log_buf_size, attr, errno, log_buf>>
  BY DEF JudgeKprobe, Returns
<1>2. LoadTypes'
  BY <1>1 DEF LoadInv, LoadTypes
<1>3. LogInv'
  BY <1>1 DEF LoadInv, LogInv
<1>4. OpenInv'
  BY <1>1 DEF LoadInv, OpenInv
<1>5. ~Taken
  BY <1>1 DEF LoadInv, TakenInv
<1>6. TakenInv'
  BY <1>1, <1>5 DEF TakenInv, Taken
<1> QED
  BY <1>2, <1>3, <1>4, <1>6 DEF LoadInv

LEMMA JudgeKeeps ==
  ASSUME LoadInv, Judge
  PROVE  LoadInv'
<1>1. pc = "judge" /\ prog_type = "own" /\ UNCHANGED <<kern, log_level, attr, errno, fds>>
  BY DEF Judge
<1>2. /\ kern \in Kernels /\ log_level \in Nat /\ log_buf_size \in Nat /\ attr \in Attrs
      /\ log_buf \in Logs /\ (log_buf = "cut" => errno \in {"ENOSPC", "EAGAIN"} /\ ret # "OK")
      /\ fds = IF ret = "OK" THEN 1 ELSE 0
  BY <1>1 DEF LoadInv, LoadTypes, LogInv, OpenInv
<1>3. Taken => kern.need > 0 /\ (ret = "OK" \/ (log_level > 0 /\ log_buf_size = 0) \/ TooSmall)
  BY <1>1 DEF LoadInv, TakenInv
<1>4. Taken' <=> Taken
  BY <1>1 DEF Taken
<1>5. kern.need \in 0..MaxNeed
  BY <1>2 DEF Kernels
<1>6. CASE ret = "OK" /\ Returns("OK") /\ UNCHANGED <<prog_type, log_buf_size, log_buf>>
  <2>1. ret' = "OK" /\ pc' = "done"
    BY <1>6 DEF Returns
  <2> QED
    BY <1>1, <1>2, <1>3, <1>4, <1>6, <2>1 DEF LoadInv, LoadTypes, LogInv, OpenInv, TakenInv
<1>7. CASE /\ ret # "OK" /\ (log_buf_size = 0 \/ errno = "ENOSPC")
           /\ log_buf_size' = IF log_buf_size = 0 THEN 1 ELSE 2 * log_buf_size
           /\ log_buf' = "empty"
           /\ IF log_buf_size' > MaxLog THEN Returns("ENOMEM") ELSE pc' = "try" /\ UNCHANGED ret
           /\ UNCHANGED prog_type
  <2>2. log_buf_size' \in Nat
    BY <1>2, <1>7
  <2>3. pc' \in {"try", "done"} /\ ret' # "OK" /\ (pc' = "done" => ret' = "ENOMEM")
    BY <1>7 DEF Returns
  <2>4. Taken => log_level > 0 /\ log_buf_size' < 2 * kern.need
    BY <1>2, <1>3, <1>5, <1>7, LogAssumption DEF TooSmall
  <2>5. Taken => log_buf_size' <= MaxLog
    <3>1. CASE log_buf_size = 0
      BY <1>7, <3>1, LogAssumption
    <3>2. CASE log_buf_size # 0
      <4>1. Taken => log_buf_size <= kern.need - 1
        BY <1>2, <1>3, <1>5, <1>7, <3>2, LogAssumption DEF TooSmall
      <4>2. log_buf_size' = 2 * log_buf_size
        BY <1>7, <3>2
      <4> QED
        BY <1>2, <1>5, <4>1, <4>2, LogAssumption
    <3> QED
      BY <3>1, <3>2
  <2>6. Taken => pc' = "try"
    BY <1>7, <2>2, <2>5, LogAssumption
  <2>7. LoadTypes'
    BY <1>1, <1>2, <1>7, <2>2, <2>3 DEF LoadTypes
  <2>8. LogInv'
    BY <1>7, <2>3 DEF LogInv, Logs
  <2>9. OpenInv'
    BY <1>1, <1>2, <1>7, <2>3 DEF OpenInv
  <2>10. TakenInv'
    BY <1>1, <1>3, <1>4, <1>7, <2>4, <2>6 DEF TakenInv
  <2> QED
    BY <2>7, <2>8, <2>9, <2>10 DEF LoadInv
<1>8. CASE ret # "OK" /\ log_buf_size # 0 /\ errno # "ENOSPC"
  <2>1. ~Taken
    BY <1>3, <1>8 DEF TooSmall
  <2>2. /\ prog_type' \in {"own", "kprobe"} /\ log_buf_size' = log_buf_size /\ log_buf' = log_buf
        /\ \/ pc' = "done" /\ ret' = "VERIFY" /\ log_buf # "empty"
           \/ pc' = "done" /\ ret' = "error"
           \/ pc' = "try" /\ ret' = ret /\ log_buf = "empty"
    BY <1>1, <1>8 DEF Judge, Returns
  <2>3. LoadTypes'
    BY <1>1, <1>2, <2>2 DEF LoadTypes
  <2>4. LogInv'
    BY <1>1, <1>2, <1>8, <2>2 DEF LogInv
  <2>5. OpenInv'
    BY <1>1, <1>2, <1>8, <2>2 DEF OpenInv
  <2>6. TakenInv'
    BY <1>4, <2>1 DEF TakenInv
  <2> QED
    BY <2>3, <2>4, <2>5, <2>6 DEF LoadInv
<1> QED
  BY <1>6, <1>7, <1>8 DEF Judge

LEMMA LoadStepKeeps == LoadInv /\ [LoadNext]_loadVars => LoadInv'
<1> SUFFICES ASSUME LoadInv, [LoadNext]_loadVars PROVE LoadInv'
  OBVIOUS
<1>1. CASE UNCHANGED loadVars
  BY <1>1 DEF loadVars, LoadInv, LoadTypes, LogInv, OpenInv, TakenInv, Taken, Unshorten, TooSmall
<1> QED
  BY <1>1, FirstCallKeeps, ShortenKeeps, ShortenedKeeps, WithLogKeeps, JudgeKprobeKeeps, JudgeKeeps DEF LoadNext, Terminated

(***************************************************************************)
(* Whatever the verifier says, and as long as its log may be: exactly the  *)
(* program returned stays open, whatever fails; with memory and without    *)
(* interruptions a program the kernel accepts is loaded; and no verifier   *)
(* log is shown that did not fit.                                          *)
(***************************************************************************)
THEOREM LoadIsRight == LoadSpec => []LoadsRight
<1>1. LoadInit => LoadInv
  BY LoadInitHolds
<1>2. LoadInv /\ [LoadNext]_loadVars => LoadInv'
  BY LoadStepKeeps
<1>3. LoadInv => LoadsRight
  BY DEF LoadInv, LogInv, OpenInv, TakenInv, Taken, LoadsRight, OneStaysOpen, AcceptedIsLoaded, LogIsWhole
<1> QED
  BY <1>1, <1>2, <1>3, PTL DEF LoadSpec

-----------------------------------------------------------------------------
(***************************************************************************)
(* Pins: what a call has still to take back, and that it takes it back.    *)
(***************************************************************************)
PinCalls == {"none", "pin", "pin_maps", "unpin_maps", "pin_programs", "unpin_programs"}
Stages   == {"none", "maps", "undo_maps", "progs", "undo_inst", "undo_progs", "unmaps", "unprogs"}
OpTypes  == [call : PinCalls, path : Dirs \cup {NoPath}, at : Stages, i : Int, j : Int]
MapFiles(m) == {MapFile(d, m) : d \in Dirs}

PinTypes ==
  /\ DOMAIN fs = PinFiles /\ DOMAIN maps = MapIds /\ made \subseteq PinFiles
  /\ \A m \in MapIds : /\ maps[m] \in [pin_path : {NoPath} \cup MapFiles(m), pinned : BOOLEAN]
                       /\ maps[m].pinned => maps[m].pin_path # NoPath
  /\ op \in OpTypes

CallRight ==
  /\ op.call = "none" => op = NotCalled
  /\ op.at = "none" => op = NotCalled
  /\ op.call = "pin" => op.path \in Dirs
  /\ op.at = "maps" => op.call \in {"pin", "pin_maps"} /\ op.i >= 1
  /\ op.at = "undo_maps" => op.call \in {"pin", "pin_maps"} /\ op.i \in 0..Len(MapName)
  /\ op.at \in {"progs", "undo_inst", "undo_progs"} => op.call \in {"pin", "pin_programs"} /\ op.path \in Dirs
  /\ op.at = "progs" => op.i >= 1 /\ op.j >= 1 /\ (op.i \in ProgIds => op.j = 1 \/ op.j <= Instances[op.i])
  /\ op.at = "undo_inst" => op.i \in ProgIds /\ op.j >= 0 /\ (op.j = 0 \/ op.j <= Instances[op.i])
  /\ op.at = "undo_progs" => op.i \in 0..Len(ProgName)
  /\ op.at = "unmaps" => op.call \in {"pin", "unpin_maps"} /\ op.i >= 1
  /\ op.at = "unprogs" => op.call = "unpin_programs" /\ op.i >= 1 /\ op.path \in Dirs

(* The maps and instances a call to pin has pinned and not yet unpinned,   *)
(* or would go on from.                                                    *)
MapLeft(o, k) ==
  \/ o.at = "maps" /\ k < o.i
  \/ o.at = "undo_maps" /\ k <= o.i
  \/ o.call = "pin" /\ o.at \in {"progs", "undo_inst", "undo_progs"}
  \/ o.call = "pin" /\ o.at = "unmaps" /\ k >= o.i
InstLeft(o, p, n) ==
  \/ o.at = "progs" /\ (p < o.i \/ (p = o.i /\ n < o.j))
  \/ o.at = "undo_inst" /\ (p < o.i \/ (p = o.i /\ n <= o.j))
  \/ o.at = "undo_progs" /\ p <= o.i

(* A map that was to be pinned is, at the path it was to be pinned at.     *)
IsPinned(k, path) ==
  /\ maps[k].pin_path # NoPath => maps[k].pinned
  /\ path # NoPath => maps[k].pinned /\ maps[k].pin_path = path
MapsAreLeft == \A k \in MapIds : MapLeft(op, k) => IsPinned(k, PathOf(k))
InstsAreLeft ==
  \A p \in ProgIds : \A n \in 1..Instances[p] :
    InstLeft(op, p, n) => fs[ProgFile(op.path, p, n)] = <<"prog", p, n>>

Gone(f) == fs[f] \in {NoPin, <<"other">>}
(* What a call to pin has made is gone or is still to be taken back. *)
MadeIsLeft ==
  \A f \in made :
    \/ Gone(f)
    \/ \E k \in MapIds : MapLeft(op, k) /\ f = maps[k].pin_path
    \/ \E p \in ProgIds : \E n \in 1..Instances[p] : InstLeft(op, p, n) /\ f = ProgFile(op.path, p, n)

PinInv == PinTypes /\ PinnedIsThere /\ CallRight /\ (Pinning => MapsAreLeft /\ InstsAreLeft /\ MadeIsLeft)

-----------------------------------------------------------------------------
LEMMA FilesOfMaps ==
  ASSUME NamesAssumption, NEW m \in MapIds
  PROVE  /\ MapFiles(m) \subseteq PinFiles /\ NoPath \notin PinFiles
         /\ \A n \in MapIds \ {m} : \A f \in MapFiles(n) : f \notin MapFiles(m)
<1>1. MapFiles(m) \subseteq PinFiles
  BY DEF MapFiles, PinFiles
<1>2. \A d, e \in Dirs, n \in MapIds : MapFile(d, m) = MapFile(e, n) => m = n
  BY DEF NamesAssumption
<1>3. ASSUME NEW n \in MapIds \ {m}, NEW f \in MapFiles(n), f \in MapFiles(m) PROVE FALSE
  BY <1>2, <1>3 DEF MapFiles
<1> QED
  BY <1>1, <1>3 DEF NamesAssumption

LEMMA FilesOfPrograms ==
  ASSUME NamesAssumption, NEW d \in Dirs, NEW p \in ProgIds, NEW j \in 1..Instances[p]
  PROVE  /\ ProgFile(d, p, j) \in PinFiles
         /\ \A m \in MapIds : ProgFile(d, p, j) \notin MapFiles(m)
<1> DEFINE Of(e, q) == {ProgFile(e, q, n) : n \in 1..Instances[q]}
           all == {Of(e, q) : e \in Dirs, q \in ProgIds}
<1>1. ProgFile(d, p, j) \in UNION all
  <2>1. ProgFile(d, p, j) \in Of(d, p)
    OBVIOUS
  <2> HIDE DEF Of
  <2>2. Of(d, p) \in all
    OBVIOUS
  <2> HIDE DEF all
  <2> QED
    BY <2>1, <2>2
<1>2. \A e \in Dirs, m \in MapIds : MapFile(e, m) # ProgFile(d, p, j)
  BY DEF NamesAssumption
<1> QED
  BY <1>1, <1>2 DEF MapFiles, PinFiles

LEMMA PathsOfMaps ==
  ASSUME PinTypes, NEW m \in MapIds
  PROVE  PathOf(m) \in {NoPath} \cup MapFiles(m)
  BY DEF PinTypes, OpTypes, PathOf, MapFiles

(* What bpf_map__pin does, for any map. *)
PinnedAs(m, path, ok) ==
  /\ PinTypes' /\ PinnedIsThere'
  /\ \A k \in MapIds \ {m} : maps'[k] = maps[k]
  /\ \A f \in PinFiles : fs'[f] = fs[f] \/ (ok /\ fs[f] = NoPin /\ f = maps'[m].pin_path)
  /\ ok => IsPinned(m, path)'
  /\ made' = made \/ (ok /\ made' = made \cup {maps'[m].pin_path})

LEMMA MapPinned ==
  ASSUME NamesAssumption, PinTypes, PinnedIsThere, NEW m \in MapIds, NEW path \in {NoPath} \cup MapFiles(m),
         NEW ok \in BOOLEAN, bpf_map__pin(m, path, ok),
         op' \in OpTypes
  PROVE  PinnedAs(m, path, ok)
<1> DEFINE old == maps[m].pin_path
           new == IF old # NoPath THEN old ELSE path
<1>1. /\ DOMAIN fs = PinFiles /\ DOMAIN maps = MapIds /\ made \subseteq PinFiles
      /\ maps[m] \in [pin_path : {NoPath} \cup MapFiles(m), pinned : BOOLEAN]
      /\ \A k \in MapIds : /\ maps[k] \in [pin_path : {NoPath} \cup MapFiles(k), pinned : BOOLEAN]
                           /\ maps[k].pinned => maps[k].pin_path # NoPath
  BY DEF PinTypes
<1>2. CASE ~ok /\ UNCHANGED <<fs, maps, made>>
  BY <1>1, <1>2 DEF PinnedAs, PinTypes, PinnedIsThere
<1>3. CASE /\ old # NoPath /\ path \in {NoPath, old} /\ maps[m].pinned
           /\ ok /\ UNCHANGED <<fs, maps, made>>
  BY <1>1, <1>3 DEF PinnedAs, PinTypes, PinnedIsThere, IsPinned
<1>4. CASE /\ IF old = NoPath THEN path # NoPath ELSE path \in {NoPath, old}
           /\ ~maps[m].pinned
           /\ IF ok THEN MakePin(new, <<"map", m>>) ELSE UNCHANGED <<fs, made>>
           /\ maps' = [maps EXCEPT ![m] = [pin_path |-> new, pinned |-> ok]]
  <2>1. new \in MapFiles(m) /\ new # NoPath /\ new \in PinFiles /\ (path # NoPath => path = new)
    BY <1>1, <1>4, FilesOfMaps
  <2> HIDE DEF old, new
  <2>2. /\ maps'[m] = [pin_path |-> new, pinned |-> ok] /\ DOMAIN maps' = MapIds
        /\ \A k \in MapIds \ {m} : maps'[k] = maps[k]
    BY <1>1, <1>4
  <2>3. /\ DOMAIN fs' = PinFiles /\ (\A f \in PinFiles \ {new} : fs'[f] = fs[f])
        /\ IF ok THEN fs[new] = NoPin /\ fs'[new] = <<"map", m>> /\ made' = made \cup {new}
           ELSE fs'[new] = fs[new] /\ made' = made
    BY <1>1, <1>4, <2>1 DEF MakePin
  <2>4. \A k \in MapIds : /\ maps'[k] \in [pin_path : {NoPath} \cup MapFiles(k), pinned : BOOLEAN]
                          /\ maps'[k].pinned => maps'[k].pin_path # NoPath
    BY <1>1, <2>1, <2>2
  <2>5. PinTypes'
    BY <1>1, <2>1, <2>2, <2>3, <2>4 DEF PinTypes
  <2>6. ASSUME NEW k \in MapIds, maps'[k].pinned PROVE fs'[maps'[k].pin_path] = <<"map", k>>
    <3>1. CASE k = m
      BY <2>2, <2>3, <2>6, <3>1
    <3>2. CASE k # m
      <4>1. maps'[k] = maps[k] /\ maps[k].pinned /\ fs[maps[k].pin_path] = <<"map", k>>
        BY <2>2, <2>6, <3>2 DEF PinnedIsThere
      <4>2. maps[k].pin_path # new
        BY <1>1, <2>1, <3>2, FilesOfMaps
      <4>3. maps[k].pin_path \in PinFiles
        BY <1>1, <4>1, FilesOfMaps
      <4> QED
        BY <2>3, <4>1, <4>2, <4>3
    <3> QED
      BY <3>1, <3>2
  <2>7. PinnedIsThere'
    BY <2>6 DEF PinnedIsThere
  <2>8. ok => IsPinned(m, path)'
    BY <2>1, <2>2 DEF IsPinned
  <2>9. \A f \in PinFiles : fs'[f] = fs[f] \/ (ok /\ fs[f] = NoPin /\ f = maps'[m].pin_path)
    BY <2>2, <2>3
  <2>10. made' = made \/ (ok /\ made' = made \cup {maps'[m].pin_path})
    BY <2>2, <2>3
  <2> QED
    BY <2>2, <2>5, <2>7, <2>8, <2>9, <2>10 DEF PinnedAs
<1> QED
  BY <1>2, <1>3, <1>4 DEF bpf_map__pin

(* What bpf_map__unpin does, for any map. *)
UnpinnedFrom(m, path, ok) ==
  /\ PinTypes' /\ PinnedIsThere' /\ made' = made
  /\ \A k \in MapIds \ {m} : maps'[k] = maps[k]
  /\ \A f \in PinFiles : fs'[f] = fs[f] \/ (f \in MapFiles(m) /\ fs'[f] = NoPin)
  /\ path = NoPath /\ maps[m].pin_path = NoPath => UNCHANGED fs
  /\ maps[m].pinned /\ path \in {NoPath, maps[m].pin_path} =>
       /\ ok /\ maps'[m].pin_path = maps[m].pin_path /\ fs'[maps[m].pin_path] = NoPin
       /\ \A f \in PinFiles \ {maps[m].pin_path} : fs'[f] = fs[f]

LEMMA MapUnpinned ==
  ASSUME NamesAssumption, PinTypes, PinnedIsThere, NEW m \in MapIds, NEW path \in {NoPath} \cup MapFiles(m),
         NEW ok \in BOOLEAN, bpf_map__unpin(m, path, ok),
         op' \in OpTypes
  PROVE  UnpinnedFrom(m, path, ok)
<1> DEFINE old == maps[m].pin_path
           at == IF old # NoPath THEN old ELSE path
           can == at # NoPath /\ path \in {NoPath, at} /\ fs[at] # NoPin
<1>1. /\ DOMAIN fs = PinFiles /\ DOMAIN maps = MapIds /\ made \subseteq PinFiles
      /\ maps[m] \in [pin_path : {NoPath} \cup MapFiles(m), pinned : BOOLEAN]
      /\ \A k \in MapIds : /\ maps[k] \in [pin_path : {NoPath} \cup MapFiles(k), pinned : BOOLEAN]
                           /\ maps[k].pinned => maps[k].pin_path # NoPath /\ fs[maps[k].pin_path] = <<"map", k>>
  BY DEF PinTypes, PinnedIsThere
<1>2. maps[m].pinned /\ path \in {NoPath, old} => can
  BY <1>1 DEF NoPin
<1>3. CASE ~can
  <2>1. UNCHANGED <<fs, maps, made>>
    BY <1>3 DEF bpf_map__unpin
  <2> HIDE DEF can
  <2> QED
    BY <1>1, <1>2, <1>3, <2>1 DEF UnpinnedFrom, PinTypes, PinnedIsThere
<1>4. CASE can
  <2>1. ok /\ fs' = [fs EXCEPT ![at] = NoPin] /\ made' = made /\ maps' = [maps EXCEPT ![m].pinned = FALSE]
    BY <1>4 DEF bpf_map__unpin, UnlinkPin
  <2>2. at \in MapFiles(m) /\ at \in PinFiles
    BY <1>1, <1>4, FilesOfMaps
  <2>3. (maps[m].pinned \/ old # NoPath => at = old) /\ ~(path = NoPath /\ old = NoPath)
    BY <1>1, <1>4
  <2> HIDE DEF at, can
  <2>4. /\ DOMAIN fs' = PinFiles /\ fs'[at] = NoPin /\ \A f \in PinFiles \ {at} : fs'[f] = fs[f]
    BY <1>1, <2>1, <2>2
  <2>5. /\ DOMAIN maps' = MapIds /\ \A k \in MapIds \ {m} : maps'[k] = maps[k]
        /\ maps'[m] \in [pin_path : {NoPath} \cup MapFiles(m), pinned : BOOLEAN]
        /\ maps'[m].pin_path = old /\ ~maps'[m].pinned
    BY <1>1, <2>1
  <2>6. PinTypes'
    BY <1>1, <2>1, <2>4, <2>5 DEF PinTypes
  <2>7. ASSUME NEW k \in MapIds, maps'[k].pinned PROVE fs'[maps'[k].pin_path] = <<"map", k>>
    <3>1. k # m /\ maps'[k] = maps[k] /\ maps[k].pin_path \in MapFiles(k) /\ fs[maps[k].pin_path] = <<"map", k>>
      BY <1>1, <2>5, <2>7
    <3>2. maps[k].pin_path # at /\ maps[k].pin_path \in PinFiles
      BY <2>2, <3>1, FilesOfMaps
    <3> QED
      BY <2>4, <3>1, <3>2
  <2> QED
    BY <2>1, <2>2, <2>3, <2>4, <2>5, <2>6, <2>7 DEF UnpinnedFrom, PinnedIsThere
<1> QED
  BY <1>3, <1>4

(* Files of programs are not those of maps. *)
LEMMA ProgramsApart ==
  ASSUME NamesAssumption, PinTypes, PinnedIsThere, UNCHANGED maps, DOMAIN fs' = PinFiles, made' \subseteq PinFiles,
         op' \in OpTypes,
         \A f \in PinFiles :
           \/ fs'[f] = fs[f] \/ fs[f] = NoPin
           \/ \E d \in Dirs, p \in ProgIds : \E n \in 1..Instances[p] : f = ProgFile(d, p, n)
  PROVE  PinTypes' /\ PinnedIsThere'
<1>1. PinTypes'
  BY DEF PinTypes
<1>2. ASSUME NEW k \in MapIds, maps[k].pinned PROVE fs'[maps[k].pin_path] = <<"map", k>>
  <2>1. maps[k].pin_path \in MapFiles(k) /\ fs[maps[k].pin_path] = <<"map", k>>
    BY <1>2 DEF PinTypes, PinnedIsThere
  <2>2. maps[k].pin_path \in PinFiles
    BY <2>1, FilesOfMaps
  <2>3. fs[maps[k].pin_path] # NoPin
    BY <2>1 DEF NoPin
  <2>4. ASSUME NEW d \in Dirs, NEW p \in ProgIds, NEW n \in 1..Instances[p], maps[k].pin_path = ProgFile(d, p, n)
        PROVE  FALSE
    BY <2>1, <2>4, FilesOfPrograms
  <2> QED
    BY <2>1, <2>2, <2>3, <2>4
<1> QED
  BY <1>1, <1>2 DEF PinnedIsThere

LEMMA Going ==
  ASSUME PinTypes, NEW at \in Stages, NEW i \in Int, NEW j \in Int, Go(at, i, j)
  PROVE  /\ op' \in OpTypes /\ op'.call = op.call /\ op'.path = op.path
         /\ op'.at = at /\ op'.i = i /\ op'.j = j
         /\ (at # "none" => op' # NotCalled)
  BY DEF PinTypes, OpTypes, Go, NotCalled

LEMMA Returning ==
  ASSUME Return
  PROVE  op' \in OpTypes /\ op' = NotCalled /\ CallRight' /\ ~Pinning'
  BY DEF Return, OpTypes, NotCalled, PinCalls, Stages, CallRight, Pinning

StepRight == PinInv' /\ FailedPinLeavesNothingStep /\ RollbackSparesOthersStep

LEMMA MapsPinned ==
  ASSUME NamesAssumption, PinInv, bpf_object__pin_maps
  PROVE  StepRight
<1>1. /\ op.at = "maps" /\ op.call \in {"pin", "pin_maps"} /\ op.i \in Int /\ op.i >= 1 /\ Pinning
      /\ MapsAreLeft /\ MadeIsLeft /\ PinTypes /\ PinnedIsThere /\ CallRight /\ op.call # "none"
  BY DEF PinInv, CallRight, PinTypes, OpTypes, bpf_object__pin_maps, Pinning
<1>2. FailedPinLeavesNothingStep
  BY <1>1 DEF FailedPinLeavesNothingStep
<1>3. \A p \in ProgIds : \A n \in 1..Instances[p] : ~InstLeft(op, p, n)
  BY <1>1 DEF InstLeft
<1>4. CASE op.i \notin MapIds
  <2>1. UNCHANGED <<fs, maps, made>> /\ IF op.call = "pin" THEN Go("progs", 1, 1) ELSE Return
    BY <1>4 DEF bpf_object__pin_maps
  <2>2. CASE op.call # "pin"
    BY <1>1, <1>2, <2>1, <2>2, Returning DEF StepRight, PinInv, PinTypes, PinnedIsThere, RollbackSparesOthersStep
  <2>3. CASE op.call = "pin"
    <3>1. /\ op' \in OpTypes /\ op'.call = "pin" /\ op'.path = op.path /\ op'.path \in Dirs
          /\ op'.at = "progs" /\ op'.i = 1 /\ op'.j = 1 /\ op' # NotCalled
      BY <1>1, <2>1, <2>3, Going DEF Stages, CallRight
    <3>2. PinTypes' /\ PinnedIsThere' /\ CallRight'
      BY <1>1, <2>1, <3>1 DEF PinTypes, PinnedIsThere, CallRight
    <3>3. \A k \in MapIds : MapLeft(op, k) /\ MapLeft(op, k)' /\ PathOf(k)' = PathOf(k)
      BY <1>1, <1>4, <3>1 DEF NamesAssumption, MapLeft, PathOf
    <3>4. MapsAreLeft'
      BY <1>1, <2>1, <3>3 DEF MapsAreLeft, IsPinned
    <3>5. InstsAreLeft'
      BY <3>1 DEF InstsAreLeft, InstLeft, NamesAssumption, ProgIds
    <3>6. MadeIsLeft'
      BY <1>1, <1>3, <2>1, <3>3 DEF MadeIsLeft, Gone
    <3> QED
      BY <1>2, <2>1, <3>2, <3>4, <3>5, <3>6 DEF StepRight, PinInv, RollbackSparesOthersStep
  <2> QED
    BY <2>2, <2>3
<1>5. CASE op.i \in MapIds /\ PathOf(op.i) = NoPath /\ maps[op.i].pin_path = NoPath
  <2>1. Go("maps", op.i + 1, 1) /\ UNCHANGED <<fs, maps, made>>
    BY <1>5 DEF bpf_object__pin_maps
  <2>2. /\ op' \in OpTypes /\ op'.call = op.call /\ op'.path = op.path
        /\ op'.at = "maps" /\ op'.i = op.i + 1 /\ op' # NotCalled
    BY <1>1, <2>1, Going DEF Stages
  <2>3. PinTypes' /\ PinnedIsThere' /\ CallRight'
    BY <1>1, <2>1, <2>2 DEF PinTypes, PinnedIsThere, CallRight
  <2>4. \A k \in MapIds : /\ MapLeft(op, k)' <=> MapLeft(op, k) \/ k = op.i
                          /\ PathOf(k)' = PathOf(k)
    BY <1>1, <2>2 DEF NamesAssumption, MapLeft, PathOf
  <2>5. MapsAreLeft'
    BY <1>1, <1>5, <2>1, <2>4 DEF MapsAreLeft, IsPinned
  <2>6. InstsAreLeft'
    BY <2>2 DEF InstsAreLeft, InstLeft
  <2>7. MadeIsLeft'
    BY <1>1, <1>3, <2>1, <2>4 DEF MadeIsLeft, Gone
  <2> QED
    BY <1>2, <2>1, <2>3, <2>5, <2>6, <2>7 DEF StepRight, PinInv, RollbackSparesOthersStep
<1>6. CASE op.i \in MapIds /\ (PathOf(op.i) # NoPath \/ maps[op.i].pin_path # NoPath)
  <2>1. PICK ok \in BOOLEAN :
          /\ bpf_map__pin(op.i, PathOf(op.i), ok)
          /\ IF ok THEN Go("maps", op.i + 1, 1) ELSE Go("undo_maps", op.i - 1, 1)
    BY <1>4, <1>6 DEF bpf_object__pin_maps
  <2>2. /\ op' \in OpTypes /\ op'.call = op.call /\ op'.path = op.path /\ op' # NotCalled
        /\ IF ok THEN op'.at = "maps" /\ op'.i = op.i + 1 ELSE op'.at = "undo_maps" /\ op'.i = op.i - 1
    <3>1. op.i + 1 \in Int /\ op.i - 1 \in Int /\ "maps" \in Stages /\ "undo_maps" \in Stages
      BY <1>1 DEF Stages
    <3>2. CASE ok
      BY <1>1, <2>1, <3>1, <3>2, Going
    <3>3. CASE ~ok
      BY <1>1, <2>1, <3>1, <3>3, Going
    <3> QED
      BY <3>2, <3>3
  <2>3. PathOf(op.i) \in {NoPath} \cup MapFiles(op.i)
    BY <1>1, <1>6, PathsOfMaps
  <2>4. PinnedAs(op.i, PathOf(op.i), ok)
    BY <1>1, <1>6, <2>1, <2>2, <2>3, MapPinned
  <2>5. PICK m \in MapIds : m = op.i
    BY <1>6
  <2>6. /\ PinTypes' /\ PinnedIsThere' /\ (\A k \in MapIds \ {m} : maps'[k] = maps[k])
        /\ \A f \in PinFiles : fs'[f] = fs[f] \/ (ok /\ fs[f] = NoPin /\ f = maps'[m].pin_path)
        /\ ok => IsPinned(m, PathOf(m))'
        /\ made' = made \/ (ok /\ made' = made \cup {maps'[m].pin_path})
    <3>1. PinnedAs(m, PathOf(m), ok) /\ PathOf(m)' = PathOf(m)
      BY <2>2, <2>4, <2>5 DEF PathOf
    <3> QED
      BY <3>1 DEF PinnedAs, IsPinned
  <2>7. CallRight'
    BY <1>1, <1>6, <2>2 DEF CallRight, NamesAssumption
  <2>8. \A k \in MapIds : /\ MapLeft(op, k)' <=> MapLeft(op, k) \/ (ok /\ k = m)
                          /\ MapLeft(op, k) => k # m
                          /\ PathOf(k)' = PathOf(k)
    BY <1>1, <2>2, <2>5 DEF NamesAssumption, MapLeft, PathOf
  <2>9. MapsAreLeft'
    BY <1>1, <2>6, <2>8 DEF MapsAreLeft, IsPinned
  <2>10. InstsAreLeft'
    BY <2>2 DEF InstsAreLeft, InstLeft
  <2>11. MadeIsLeft'
    BY <1>1, <1>3, <2>6, <2>8 DEF MadeIsLeft, Gone, PinTypes
  <2>12. RollbackSparesOthersStep
    BY <2>6 DEF RollbackSparesOthersStep, NoPin
  <2> QED
    BY <1>2, <2>6, <2>7, <2>9, <2>10, <2>11, <2>12 DEF StepRight, PinInv
<1> QED
  BY <1>4, <1>5, <1>6

(* A map a call to pin takes back is unpinned, whatever others did. *)
LEMMA TakenBack ==
  ASSUME NamesAssumption, PinInv, Pinning, NEW m \in MapIds, MapLeft(op, m), NEW path,
         path = NoPath \/ path = PathOf(m), NEW ok \in BOOLEAN,
         bpf_map__unpin(m, path, ok), op' \in OpTypes
  PROVE  /\ PinTypes' /\ PinnedIsThere' /\ made' = made /\ (path # NoPath => ok)
         /\ \A k \in MapIds \ {m} : maps'[k] = maps[k]
         /\ \A f \in PinFiles : fs'[f] = fs[f] \/ (fs[f] = <<"map", m>> /\ fs'[f] = NoPin)
         /\ maps[m].pin_path \in PinFiles => fs'[maps[m].pin_path] = NoPin
<1>1. /\ PinTypes /\ PinnedIsThere /\ maps[m] \in [pin_path : {NoPath} \cup MapFiles(m), pinned : BOOLEAN]
      /\ MapsAreLeft /\ IsPinned(m, PathOf(m))
  BY DEF PinInv, PinTypes, MapsAreLeft
<1>2. path \in {NoPath} \cup MapFiles(m)
  BY <1>1, PathsOfMaps
<1>3. UnpinnedFrom(m, path, ok)
  BY <1>1, <1>2, MapUnpinned
<1>4. NoPath \notin PinFiles
  BY FilesOfMaps
<1>5. CASE maps[m].pinned
  <2>1. path \in {NoPath, maps[m].pin_path} /\ fs[maps[m].pin_path] = <<"map", m>>
    BY <1>1, <1>5 DEF IsPinned, PinnedIsThere
  <2> QED
    BY <1>3, <1>5, <2>1 DEF UnpinnedFrom
<1>6. CASE ~maps[m].pinned
  <2>1. path = NoPath /\ maps[m].pin_path = NoPath
    BY <1>1, <1>6 DEF IsPinned
  <2> QED
    BY <1>3, <1>4, <2>1 DEF UnpinnedFrom
<1> QED
  BY <1>1, <1>5, <1>6

LEMMA MapsUndone ==
  ASSUME NamesAssumption, PinInv, UndoMaps
  PROVE  StepRight
<1>1. /\ op.at = "undo_maps" /\ op.call \in {"pin", "pin_maps"} /\ op.i \in 0..Len(MapName) /\ Pinning
      /\ MapsAreLeft /\ MadeIsLeft /\ PinTypes /\ PinnedIsThere /\ CallRight /\ op.call # "none"
  BY DEF PinInv, CallRight, PinTypes, OpTypes, UndoMaps, Pinning
<1>2. /\ \A p \in ProgIds : \A n \in 1..Instances[p] : ~InstLeft(op, p, n)
      /\ \A k \in MapIds : MapLeft(op, k) <=> k <= op.i
  BY <1>1 DEF InstLeft, MapLeft
<1>3. CASE op.i = 0
  <2>1. UNCHANGED <<fs, maps, made>> /\ Return
    BY <1>3 DEF UndoMaps
  <2>2. \A f \in made : Gone(f)
    BY <1>1, <1>2, <1>3 DEF MadeIsLeft, NamesAssumption
  <2> QED
    BY <1>1, <2>1, <2>2, Returning DEF StepRight, PinInv, PinTypes, PinnedIsThere, Gone,
      RollbackSparesOthersStep, FailedPinLeavesNothingStep
<1>4. CASE op.i # 0
  <2>1. PICK ok \in BOOLEAN : bpf_map__unpin(op.i, NoPath, ok) /\ Go("undo_maps", op.i - 1, 1)
    BY <1>4 DEF UndoMaps
  <2>2. /\ op' \in OpTypes /\ op'.call = op.call /\ op'.path = op.path /\ op' # NotCalled
        /\ op'.at = "undo_maps" /\ op'.i = op.i - 1
    <3>1. op.i - 1 \in Int /\ "undo_maps" \in Stages
      BY <1>1 DEF Stages
    <3> QED
      BY <1>1, <2>1, <3>1, Going
  <2>3. PICK m \in MapIds : m = op.i
    BY <1>1, <1>4 DEF NamesAssumption
  <2>4. /\ PinTypes' /\ PinnedIsThere' /\ made' = made
        /\ \A k \in MapIds \ {m} : maps'[k] = maps[k]
        /\ \A f \in PinFiles : fs'[f] = fs[f] \/ (fs[f] = <<"map", m>> /\ fs'[f] = NoPin)
        /\ maps[m].pin_path \in PinFiles => fs'[maps[m].pin_path] = NoPin
    <3>1. bpf_map__unpin(m, NoPath, ok) /\ MapLeft(op, m)
      BY <1>1, <1>2, <2>1, <2>3
    <3> QED
      BY <1>1, <2>2, <3>1, TakenBack
  <2>5. CallRight'
    BY <1>1, <1>4, <2>2 DEF CallRight, NamesAssumption
  <2>6. \A k \in MapIds : /\ MapLeft(op, k)' <=> MapLeft(op, k) /\ k # m
                          /\ PathOf(k)' = PathOf(k)
    BY <1>1, <2>2, <2>3 DEF NamesAssumption, MapLeft, PathOf
  <2>7. MapsAreLeft'
    BY <1>1, <2>4, <2>6 DEF MapsAreLeft, IsPinned
  <2>8. InstsAreLeft'
    BY <2>2 DEF InstsAreLeft, InstLeft
  <2>9. MadeIsLeft'
    BY <1>1, <1>2, <2>4, <2>6 DEF MadeIsLeft, Gone, PinTypes
  <2>10. RollbackSparesOthersStep
    BY <2>4 DEF RollbackSparesOthersStep
  <2> QED
    BY <2>2, <2>4, <2>5, <2>7, <2>8, <2>9, <2>10 DEF StepRight, PinInv, FailedPinLeavesNothingStep
<1> QED
  BY <1>3, <1>4

LEMMA MapsTakenBack ==
  ASSUME NamesAssumption, PinInv, Pinning, bpf_object__unpin_maps
  PROVE  StepRight
<1>1. /\ op.at = "unmaps" /\ op.call = "pin" /\ op.path \in Dirs /\ op.i \in Int /\ op.i >= 1
      /\ MapsAreLeft /\ MadeIsLeft /\ PinTypes /\ PinnedIsThere /\ CallRight
  BY DEF PinInv, CallRight, PinTypes, OpTypes, bpf_object__unpin_maps, Pinning
<1>2. /\ \A p \in ProgIds : \A n \in 1..Instances[p] : ~InstLeft(op, p, n)
      /\ \A k \in MapIds : MapLeft(op, k) <=> k >= op.i
  BY <1>1 DEF InstLeft, MapLeft
<1>3. CASE op.i \notin MapIds
  <2>1. UNCHANGED <<fs, maps, made>> /\ Return
    BY <1>3 DEF bpf_object__unpin_maps
  <2>2. \A f \in made : Gone(f)
    BY <1>1, <1>2, <1>3 DEF MadeIsLeft, NamesAssumption
  <2> QED
    BY <1>1, <2>1, <2>2, Returning DEF StepRight, PinInv, PinTypes, PinnedIsThere, Gone,
      RollbackSparesOthersStep, FailedPinLeavesNothingStep
<1>4. CASE op.i \in MapIds
  <2>1. PathOf(op.i) # NoPath
    <3>1. NoPath \notin PinFiles /\ PathOf(op.i) = MapFile(op.path, op.i) /\ MapFile(op.path, op.i) \in PinFiles
      BY <1>1, <1>4, FilesOfMaps DEF PathOf, NamesAssumption, PinFiles
    <3> QED
      BY <3>1
  <2>2. PICK ok \in BOOLEAN : /\ bpf_map__unpin(op.i, PathOf(op.i), ok)
                             /\ IF ok THEN Go("unmaps", op.i + 1, 1) ELSE Return
    BY <1>4, <2>1 DEF bpf_object__unpin_maps
  <2>3. op' \in OpTypes
    BY <1>1, <2>2, Going, Returning DEF Stages
  <2>4. PICK m \in MapIds : m = op.i
    BY <1>4
  <2>5. /\ PinTypes' /\ PinnedIsThere' /\ made' = made /\ ok
        /\ \A k \in MapIds \ {m} : maps'[k] = maps[k]
        /\ \A f \in PinFiles : fs'[f] = fs[f] \/ (fs[f] = <<"map", m>> /\ fs'[f] = NoPin)
        /\ maps[m].pin_path \in PinFiles => fs'[maps[m].pin_path] = NoPin
    <3>1. bpf_map__unpin(m, PathOf(m), ok) /\ MapLeft(op, m) /\ PathOf(m) # NoPath
      BY <1>1, <1>2, <2>1, <2>2, <2>4
    <3> QED
      BY SMTT(30), <2>3, <3>1, TakenBack
  <2>6. /\ op'.call = op.call /\ op'.path = op.path /\ op' # NotCalled
        /\ op'.at = "unmaps" /\ op'.i = op.i + 1
    BY <1>1, <2>2, <2>5, Going DEF Stages
  <2>7. CallRight'
    BY <1>1, <2>6 DEF CallRight, NamesAssumption
  <2>8. \A k \in MapIds : /\ MapLeft(op, k)' <=> MapLeft(op, k) /\ k # m
                          /\ PathOf(k)' = PathOf(k)
    BY <1>1, <2>4, <2>6 DEF NamesAssumption, MapLeft, PathOf
  <2>9. MapsAreLeft'
    BY <1>1, <2>5, <2>8 DEF MapsAreLeft, IsPinned
  <2>10. InstsAreLeft'
    BY <2>6 DEF InstsAreLeft, InstLeft
  <2>11. MadeIsLeft'
    BY <1>1, <1>2, <2>5, <2>8 DEF MadeIsLeft, Gone, PinTypes
  <2>12. RollbackSparesOthersStep
    BY <2>5 DEF RollbackSparesOthersStep
  <2> QED
    BY <2>5, <2>6, <2>7, <2>9, <2>10, <2>11, <2>12 DEF StepRight, PinInv, FailedPinLeavesNothingStep
<1> QED
  BY <1>3, <1>4

(* Any other call only has to leave the maps as they say they are. *)
LEMMA NotPinning ==
  ASSUME ~Pinning, PinTypes', PinnedIsThere', CallRight', Pinning' => MapsAreLeft' /\ InstsAreLeft' /\ MadeIsLeft'
  PROVE  StepRight
  BY DEF StepRight, PinInv, FailedPinLeavesNothingStep, RollbackSparesOthersStep

LEMMA MapsUnpinned ==
  ASSUME NamesAssumption, PinInv, ~Pinning, bpf_object__unpin_maps
  PROVE  StepRight
<1>1. /\ op.at = "unmaps" /\ op.call = "unpin_maps" /\ op.i \in Int /\ op.i >= 1 /\ PinTypes /\ PinnedIsThere /\ CallRight
  BY DEF PinInv, CallRight, PinTypes, OpTypes, bpf_object__unpin_maps, Pinning
<1>2. ASSUME Go("unmaps", op.i + 1, 1) \/ Return
      PROVE  op' \in OpTypes /\ CallRight' /\ ~Pinning'
  <2>1. CASE Return
    BY <2>1, Returning
  <2>2. CASE Go("unmaps", op.i + 1, 1)
    <3>1. op' \in OpTypes /\ op'.call = "unpin_maps" /\ op'.at = "unmaps" /\ op'.i = op.i + 1
      BY <1>1, <2>2, Going DEF Stages
    <3> QED
      BY <1>1, <3>1 DEF CallRight, Pinning
  <2> QED
    BY <1>2, <2>1, <2>2
<1>3. CASE UNCHANGED <<fs, maps, made>> /\ (Go("unmaps", op.i + 1, 1) \/ Return)
  <2>1. PinTypes' /\ PinnedIsThere'
    BY <1>1, <1>2, <1>3 DEF PinTypes, PinnedIsThere
  <2> QED
    BY <1>2, <1>3, <2>1, NotPinning
<1>4. CASE \E ok \in BOOLEAN : /\ op.i \in MapIds /\ bpf_map__unpin(op.i, PathOf(op.i), ok)
                              /\ IF ok THEN Go("unmaps", op.i + 1, 1) ELSE Return
  <2>1. PICK ok \in BOOLEAN : /\ op.i \in MapIds /\ bpf_map__unpin(op.i, PathOf(op.i), ok)
                             /\ IF ok THEN Go("unmaps", op.i + 1, 1) ELSE Return
    BY <1>4
  <2>2. op' \in OpTypes /\ CallRight' /\ ~Pinning'
    BY <1>2, <2>1
  <2>3. PathOf(op.i) \in {NoPath} \cup MapFiles(op.i)
    BY <1>1, <2>1, PathsOfMaps
  <2>4. PinTypes' /\ PinnedIsThere'
    BY <1>1, <2>1, <2>2, <2>3, MapUnpinned DEF UnpinnedFrom
  <2> QED
    BY <2>2, <2>4, NotPinning
<1> QED
  BY <1>3, <1>4 DEF bpf_object__unpin_maps

LEMMA ProgramsPinned ==
  ASSUME NamesAssumption, PinInv, bpf_object__pin_programs
  PROVE  StepRight
<1>1. /\ op.at = "progs" /\ op.call \in {"pin", "pin_programs"} /\ op.path \in Dirs /\ Pinning /\ UNCHANGED maps
      /\ op.i \in Int /\ op.j \in Int /\ op.i >= 1 /\ op.j >= 1 /\ (op.i \in ProgIds => op.j = 1 \/ op.j <= Instances[op.i])
      /\ MapsAreLeft /\ InstsAreLeft /\ MadeIsLeft /\ PinTypes /\ PinnedIsThere /\ CallRight /\ op.call # "none"
  BY DEF PinInv, CallRight, PinTypes, OpTypes, bpf_object__pin_programs, Pinning
<1>2. FailedPinLeavesNothingStep
  BY <1>1 DEF FailedPinLeavesNothingStep
<1>3. CASE Return /\ UNCHANGED <<fs, made>>
  BY <1>1, <1>2, <1>3, Returning DEF StepRight, PinInv, PinTypes, PinnedIsThere, RollbackSparesOthersStep
<1>4. CASE op.i \in ProgIds /\ Go("undo_inst", op.i, op.j - 1) /\ UNCHANGED <<fs, made>>
  <2>1. /\ op' \in OpTypes /\ op'.call = op.call /\ op'.path = op.path /\ op' # NotCalled
        /\ op'.at = "undo_inst" /\ op'.i = op.i /\ op'.j = op.j - 1
    BY <1>1, <1>4, Going DEF Stages
  <2>2. PinTypes' /\ PinnedIsThere'
    BY <1>1, <1>4, <2>1 DEF PinTypes, PinnedIsThere
  <2>3. CallRight'
    <3>1. op.i \in ProgIds /\ Instances[op.i] \in Int
      BY <1>4 DEF NamesAssumption
    <3> QED
      BY <1>1, <2>1, <3>1 DEF CallRight
  <2>4. \A k \in MapIds : (MapLeft(op, k)' <=> MapLeft(op, k)) /\ PathOf(k)' = PathOf(k)
    BY <1>1, <2>1 DEF MapLeft, PathOf
  <2>5. \A p \in ProgIds : \A n \in 1..Instances[p] : InstLeft(op, p, n)' <=> InstLeft(op, p, n)
    BY <1>1, <2>1 DEF InstLeft, NamesAssumption
  <2>6. MapsAreLeft' /\ InstsAreLeft'
    BY <1>1, <1>4, <2>1, <2>4, <2>5 DEF MapsAreLeft, InstsAreLeft, IsPinned
  <2>7. MadeIsLeft'
    BY <1>1, <1>4, <2>1, <2>4, <2>5 DEF MadeIsLeft, Gone
  <2> QED
    BY <1>2, <1>4, <2>2, <2>3, <2>6, <2>7 DEF StepRight, PinInv, RollbackSparesOthersStep
<1>5. CASE /\ op.i \in ProgIds /\ Instances[op.i] > 0
           /\ MakePin(ProgFile(op.path, op.i, op.j), <<"prog", op.i, op.j>>)
           /\ Go("progs", NextInstance[1], NextInstance[2])
  <2>1. op.i \in ProgIds /\ Instances[op.i] \in Int /\ op.j \in 1..Instances[op.i]
    BY <1>1, <1>5 DEF NamesAssumption
  <2>2. PICK g \in PinFiles : g = ProgFile(op.path, op.i, op.j)
    BY <1>1, <2>1, FilesOfPrograms
  <2>3. /\ fs[g] = NoPin /\ made' = made \cup {g} /\ DOMAIN fs' = PinFiles
        /\ fs'[g] = <<"prog", op.i, op.j>> /\ \A f \in PinFiles \ {g} : fs'[f] = fs[f]
    BY <1>1, <1>5, <2>2 DEF MakePin, PinTypes
  <2>4. /\ op' \in OpTypes /\ op'.call = op.call /\ op'.path = op.path /\ op' # NotCalled /\ op'.at = "progs"
        /\ IF op.j < Instances[op.i] THEN op'.i = op.i /\ op'.j = op.j + 1 ELSE op'.i = op.i + 1 /\ op'.j = 1
    <3>1. PICK i \in Int, j \in Int :
            /\ i = NextInstance[1] /\ j = NextInstance[2]
            /\ IF op.j < Instances[op.i] THEN i = op.i /\ j = op.j + 1 ELSE i = op.i + 1 /\ j = 1
      BY <1>1, <2>1 DEF NextInstance
    <3>2. Go("progs", i, j)
      BY <1>5, <3>1
    <3>3. op' \in OpTypes /\ op'.call = op.call /\ op'.path = op.path /\ op' # NotCalled /\ op'.at = "progs" /\ op'.i = i /\ op'.j = j
      BY <1>1, <3>2, Going DEF Stages
    <3> QED
      BY <3>1, <3>3
  <2>5. PinTypes' /\ PinnedIsThere'
    <3>1. \A f \in PinFiles : fs'[f] = fs[f] \/ fs[f] = NoPin
      BY <2>3
    <3>2. made' \subseteq PinFiles
      BY <1>1, <2>2, <2>3 DEF PinTypes
    <3> QED
      BY <1>1, <2>3, <2>4, <3>1, <3>2, ProgramsApart
  <2>6. CallRight'
    BY <1>1, <2>1, <2>4 DEF CallRight
  <2>7. \A k \in MapIds : (MapLeft(op, k)' <=> MapLeft(op, k)) /\ PathOf(k)' = PathOf(k)
    BY <1>1, <2>4 DEF MapLeft, PathOf
  <2>8. \A p \in ProgIds : \A n \in 1..Instances[p] :
          InstLeft(op, p, n)' <=> InstLeft(op, p, n) \/ (p = op.i /\ n = op.j)
    <3>1. \A p \in ProgIds : p \in Int /\ Instances[p] \in Int
      BY DEF NamesAssumption
    <3> QED
      BY <1>1, <2>1, <2>4, <3>1 DEF InstLeft
  <2>9. MapsAreLeft'
    BY <1>1, <2>7 DEF MapsAreLeft, IsPinned
  <2>10. InstsAreLeft'
    <3>1. ASSUME NEW p \in ProgIds, NEW n \in 1..Instances[p], InstLeft(op, p, n)
          PROVE  fs'[ProgFile(op.path, p, n)] = <<"prog", p, n>>
      <4>1. fs[ProgFile(op.path, p, n)] = <<"prog", p, n>> /\ ProgFile(op.path, p, n) \in PinFiles
        BY <1>1, <3>1, FilesOfPrograms DEF InstsAreLeft
      <4> QED
        BY <2>3, <4>1 DEF NoPin
    <3> QED
      BY <2>2, <2>3, <2>4, <2>8, <3>1 DEF InstsAreLeft
  <2>11. MadeIsLeft'
    BY <1>1, <2>1, <2>2, <2>3, <2>4, <2>7, <2>8 DEF MadeIsLeft, Gone, PinTypes
  <2>12. RollbackSparesOthersStep
    BY <2>3 DEF RollbackSparesOthersStep, NoPin
  <2> QED
    BY <1>2, <2>5, <2>6, <2>9, <2>10, <2>11, <2>12 DEF StepRight, PinInv
<1> QED
  BY <1>3, <1>4, <1>5 DEF bpf_object__pin_programs

LEMMA InstancesUndone ==
  ASSUME NamesAssumption, PinInv, UndoInstances
  PROVE  StepRight
<1>1. /\ op.at = "undo_inst" /\ op.call \in {"pin", "pin_programs"} /\ op.path \in Dirs /\ Pinning /\ UNCHANGED maps
      /\ op.i \in ProgIds /\ op.j \in Int /\ op.j >= 0 /\ (op.j = 0 \/ op.j <= Instances[op.i])
      /\ op.i \in 1..Len(ProgName) /\ Len(ProgName) \in Nat
      /\ MapsAreLeft /\ InstsAreLeft /\ MadeIsLeft /\ PinTypes /\ PinnedIsThere /\ CallRight /\ op.call # "none"
  BY DEF PinInv, CallRight, PinTypes, OpTypes, UndoInstances, Pinning, NamesAssumption
<1>2. \A p \in ProgIds : p \in Int /\ Instances[p] \in Int
  BY DEF NamesAssumption
<1>3. CASE op.j = 0
  <2>1. Go("undo_progs", op.i - 1, 1) /\ UNCHANGED <<fs, made>>
    BY <1>3 DEF UndoInstances
  <2>2. /\ op' \in OpTypes /\ op'.call = op.call /\ op'.path = op.path /\ op' # NotCalled
        /\ op'.at = "undo_progs" /\ op'.i = op.i - 1
    <3>1. op.i - 1 \in Int /\ "undo_progs" \in Stages
      BY <1>1 DEF Stages
    <3> QED
      BY <1>1, <2>1, <3>1, Going
  <2>3. PinTypes' /\ PinnedIsThere' /\ CallRight'
    <3>1. op'.i \in 0..Len(ProgName)
      BY <1>1, <2>2
    <3>2. PinTypes' /\ PinnedIsThere'
      BY <1>1, <2>1, <2>2 DEF PinTypes, PinnedIsThere
    <3> QED
      BY <1>1, <2>2, <3>1, <3>2 DEF CallRight
  <2>4. \A k \in MapIds : (MapLeft(op, k)' <=> MapLeft(op, k)) /\ PathOf(k)' = PathOf(k)
    BY <1>1, <2>2 DEF MapLeft, PathOf
  <2>5. \A p \in ProgIds : \A n \in 1..Instances[p] : InstLeft(op, p, n)' <=> InstLeft(op, p, n)
    BY <1>1, <1>2, <1>3, <2>2 DEF InstLeft
  <2>6. MapsAreLeft' /\ InstsAreLeft'
    BY <1>1, <2>1, <2>2, <2>4, <2>5 DEF MapsAreLeft, InstsAreLeft, IsPinned
  <2>7. MadeIsLeft'
    BY <1>1, <2>1, <2>2, <2>4, <2>5 DEF MadeIsLeft, Gone
  <2> QED
    BY <2>1, <2>2, <2>3, <2>6, <2>7 DEF StepRight, PinInv, RollbackSparesOthersStep, FailedPinLeavesNothingStep
<1>4. CASE op.j # 0
  <2>1. op.j \in 1..Instances[op.i]
    BY <1>1, <1>2, <1>4
  <2>2. PICK g \in PinFiles : g = ProgFile(op.path, op.i, op.j)
    BY <1>1, <2>1, FilesOfPrograms
  <2>3. UnlinkPin(g) /\ Go("undo_inst", op.i, op.j - 1)
    BY <1>4, <2>2 DEF UndoInstances
  <2>4. /\ fs[g] = <<"prog", op.i, op.j>> /\ made' = made /\ DOMAIN fs' = PinFiles
        /\ fs'[g] = NoPin /\ \A f \in PinFiles \ {g} : fs'[f] = fs[f]
    <3>1. InstLeft(op, op.i, op.j)
      BY <1>1, <1>2 DEF InstLeft
    <3> QED
      BY <1>1, <2>1, <2>2, <2>3, <3>1 DEF UnlinkPin, PinTypes, InstsAreLeft
  <2>5. /\ op' \in OpTypes /\ op'.call = op.call /\ op'.path = op.path /\ op' # NotCalled
        /\ op'.at = "undo_inst" /\ op'.i = op.i /\ op'.j = op.j - 1
    BY <1>1, <1>2, <2>3, Going DEF Stages
  <2>6. PinTypes' /\ PinnedIsThere'
    <3>1. \A f \in PinFiles : fs'[f] = fs[f] \/ f = g
      BY <2>4
    <3>2. made' \subseteq PinFiles
      BY <1>1, <2>4 DEF PinTypes
    <3> QED
      BY <1>1, <2>1, <2>2, <2>4, <2>5, <3>1, <3>2, ProgramsApart
  <2>7. CallRight'
    BY <1>1, <1>2, <1>4, <2>5 DEF CallRight
  <2>8. \A k \in MapIds : (MapLeft(op, k)' <=> MapLeft(op, k)) /\ PathOf(k)' = PathOf(k)
    BY <1>1, <2>5 DEF MapLeft, PathOf
  <2>9. \A p \in ProgIds : \A n \in 1..Instances[p] :
          /\ InstLeft(op, p, n)' => InstLeft(op, p, n) /\ ~(p = op.i /\ n = op.j)
          /\ InstLeft(op, p, n) => InstLeft(op, p, n)' \/ (p = op.i /\ n = op.j)
    BY <1>1, <1>2, <2>1, <2>5 DEF InstLeft
  <2>10. MapsAreLeft'
    BY <1>1, <2>8 DEF MapsAreLeft, IsPinned
  <2>11. InstsAreLeft'
    <3>1. ASSUME NEW p \in ProgIds, NEW n \in 1..Instances[p], InstLeft(op, p, n), ~(p = op.i /\ n = op.j)
          PROVE  fs'[ProgFile(op.path, p, n)] = <<"prog", p, n>>
      <4>1. fs[ProgFile(op.path, p, n)] = <<"prog", p, n>> /\ ProgFile(op.path, p, n) \in PinFiles
        BY <1>1, <3>1, FilesOfPrograms DEF InstsAreLeft
      <4> QED
        BY <2>4, <3>1, <4>1
    <3> QED
      BY <2>5, <2>9, <3>1 DEF InstsAreLeft
  <2>12. MadeIsLeft'
    BY <1>1, <2>2, <2>4, <2>5, <2>8, <2>9 DEF MadeIsLeft, Gone, PinTypes
  <2>13. RollbackSparesOthersStep
    BY <2>4 DEF RollbackSparesOthersStep
  <2> QED
    BY <2>5, <2>6, <2>7, <2>10, <2>11, <2>12, <2>13 DEF StepRight, PinInv, FailedPinLeavesNothingStep
<1> QED
  BY <1>3, <1>4

LEMMA ProgramsUndone ==
  ASSUME NamesAssumption, PinInv, UndoPrograms
  PROVE  StepRight
<1>1. /\ op.at = "undo_progs" /\ op.call \in {"pin", "pin_programs"} /\ op.path \in Dirs /\ Pinning /\ UNCHANGED <<maps, made>>
      /\ op.i \in 0..Len(ProgName) /\ Len(ProgName) \in Nat
      /\ MapsAreLeft /\ InstsAreLeft /\ MadeIsLeft /\ PinTypes /\ PinnedIsThere /\ CallRight /\ op.call # "none"
  BY DEF PinInv, CallRight, PinTypes, OpTypes, UndoPrograms, Pinning, NamesAssumption
<1>2. \A p \in ProgIds : p \in 1..Len(ProgName) /\ p \in Int
  BY DEF NamesAssumption
<1>3. CASE op.i = 0
  <2>1. /\ IF op.call = "pin" THEN Go("unmaps", 1, 1) ELSE Return
        /\ UNCHANGED <<fs, maps, made>>
    BY <1>3 DEF UndoPrograms
  <2>2. \A p \in ProgIds : \A n \in 1..Instances[p] : ~InstLeft(op, p, n)
    BY <1>1, <1>2, <1>3 DEF InstLeft
  <2>3. CASE op.call # "pin"
    <3>1. \A f \in made : Gone(f)
      BY <1>1, <2>2, <2>3 DEF MadeIsLeft, MapLeft
    <3> QED
      BY <1>1, <2>1, <2>3, <3>1, Returning DEF StepRight, PinInv, PinTypes, PinnedIsThere, Gone,
        RollbackSparesOthersStep, FailedPinLeavesNothingStep
  <2>4. CASE op.call = "pin"
    <3>1. /\ op' \in OpTypes /\ op'.call = "pin" /\ op'.path = op.path /\ op' # NotCalled
          /\ op'.at = "unmaps" /\ op'.i = 1
      BY <1>1, <2>1, <2>4, Going DEF Stages
    <3>2. PinTypes' /\ PinnedIsThere' /\ CallRight'
      BY <1>1, <2>1, <3>1 DEF PinTypes, PinnedIsThere, CallRight
    <3>3. \A k \in MapIds : MapLeft(op, k) /\ MapLeft(op, k)' /\ PathOf(k)' = PathOf(k)
      BY <1>1, <2>4, <3>1 DEF MapLeft, PathOf, NamesAssumption
    <3>4. MapsAreLeft'
      BY <1>1, <2>1, <3>3 DEF MapsAreLeft, IsPinned
    <3>5. InstsAreLeft'
      BY <3>1 DEF InstsAreLeft, InstLeft
    <3>6. MadeIsLeft'
      BY <1>1, <2>1, <2>2, <3>3 DEF MadeIsLeft, Gone
    <3> QED
      BY <2>1, <3>1, <3>2, <3>4, <3>5, <3>6 DEF StepRight, PinInv, RollbackSparesOthersStep, FailedPinLeavesNothingStep
  <2> QED
    BY <2>3, <2>4
<1>4. CASE op.i # 0
  <2>1. op.i \in ProgIds /\ op.i \in Int
    BY <1>1, <1>4 DEF NamesAssumption
  <2>2. /\ fs' = [f \in PinFiles |-> IF \E j \in 1..Instances[op.i] : f = ProgFile(op.path, op.i, j) THEN NoPin ELSE fs[f]]
        /\ Go("undo_progs", op.i - 1, 1)
    BY <1>4 DEF UndoPrograms
  <2>3. /\ op' \in OpTypes /\ op'.call = op.call /\ op'.path = op.path /\ op' # NotCalled
        /\ op'.at = "undo_progs" /\ op'.i = op.i - 1
    <3>1. op.i - 1 \in Int /\ "undo_progs" \in Stages
      BY <1>1 DEF Stages
    <3> QED
      BY <1>1, <2>2, <3>1, Going
  <2>4. \A n \in 1..Instances[op.i] :
          /\ fs[ProgFile(op.path, op.i, n)] = <<"prog", op.i, n>> /\ ProgFile(op.path, op.i, n) \in PinFiles
          /\ fs'[ProgFile(op.path, op.i, n)] = NoPin
    <3>1. \A n \in 1..Instances[op.i] : InstLeft(op, op.i, n)
      BY <1>1, <2>1 DEF InstLeft
    <3> QED
      BY <1>1, <2>1, <2>2, <3>1, FilesOfPrograms DEF InstsAreLeft
  <2>5. DOMAIN fs' = PinFiles /\ \A f \in PinFiles :
          \/ fs'[f] = fs[f] \/ \E n \in 1..Instances[op.i] : f = ProgFile(op.path, op.i, n)
    BY <2>2
  <2>6. PinTypes' /\ PinnedIsThere'
    <3>1. made' \subseteq PinFiles
      BY <1>1 DEF PinTypes
    <3> QED
      BY <1>1, <2>1, <2>3, <2>5, <3>1, ProgramsApart
  <2>7. CallRight'
    BY <1>1, <1>4, <2>1, <2>3 DEF CallRight
  <2>8. \A k \in MapIds : (MapLeft(op, k)' <=> MapLeft(op, k)) /\ PathOf(k)' = PathOf(k)
    BY <1>1, <2>3 DEF MapLeft, PathOf
  <2>9. \A p \in ProgIds : \A n \in 1..Instances[p] :
          /\ InstLeft(op, p, n)' => InstLeft(op, p, n) /\ p # op.i
          /\ InstLeft(op, p, n) => InstLeft(op, p, n)' \/ p = op.i
    BY <1>1, <1>2, <2>1, <2>3 DEF InstLeft
  <2>10. MapsAreLeft'
    BY <1>1, <2>8 DEF MapsAreLeft, IsPinned
  <2>11. InstsAreLeft'
    <3>1. ASSUME NEW p \in ProgIds, NEW n \in 1..Instances[p], InstLeft(op, p, n), p # op.i
          PROVE  fs'[ProgFile(op.path, p, n)] = <<"prog", p, n>>
      <4>1. fs[ProgFile(op.path, p, n)] = <<"prog", p, n>> /\ ProgFile(op.path, p, n) \in PinFiles
        BY <1>1, <3>1, FilesOfPrograms DEF InstsAreLeft
      <4> QED
        BY <2>4, <2>5, <3>1, <4>1
    <3> QED
      BY <2>3, <2>9, <3>1 DEF InstsAreLeft
  <2>12. MadeIsLeft'
    <3>1. ASSUME NEW f \in made, Gone(f) PROVE Gone(f)'
      BY <1>1, <2>4, <2>5, <3>1 DEF Gone, PinTypes
    <3>2. ASSUME NEW p \in ProgIds, NEW n \in 1..Instances[p], InstLeft(op, p, n)
          PROVE  Gone(ProgFile(op.path, p, n))' \/ InstLeft(op, p, n)'
      BY <2>3, <2>4, <2>9, <3>2 DEF Gone
    <3> QED
      BY <1>1, <2>3, <2>8, <3>1, <3>2 DEF MadeIsLeft
  <2>13. RollbackSparesOthersStep
    BY <2>4, <2>5 DEF RollbackSparesOthersStep
  <2> QED
    BY <2>3, <2>6, <2>7, <2>10, <2>11, <2>12, <2>13 DEF StepRight, PinInv, FailedPinLeavesNothingStep
<1> QED
  BY <1>3, <1>4

LEMMA ProgramsUnpinned ==
  ASSUME NamesAssumption, PinInv, bpf_object__unpin_programs
  PROVE  StepRight
<1>1. /\ op.at = "unprogs" /\ op.call = "unpin_programs" /\ op.path \in Dirs /\ ~Pinning /\ UNCHANGED <<maps, made>>
      /\ op.i \in Int /\ op.i >= 1 /\ PinTypes /\ PinnedIsThere /\ CallRight /\ op \in OpTypes
  BY DEF PinInv, CallRight, PinTypes, OpTypes, bpf_object__unpin_programs, bpf_program__unpin, Pinning
<1>2. CASE op.i \notin ProgIds
  <2>1. Return /\ UNCHANGED <<fs, maps, made>>
    BY <1>2 DEF bpf_object__unpin_programs
  <2>2. PinTypes' /\ PinnedIsThere' /\ CallRight' /\ ~Pinning'
    BY <1>1, <2>1, Returning DEF PinTypes, PinnedIsThere
  <2> QED
    BY <1>1, <2>2, NotPinning
<1>3. CASE op.i \in ProgIds
  <2>1. /\ DOMAIN fs' = PinFiles
        /\ \A f \in PinFiles : fs'[f] = fs[f] \/ \E n \in 1..Instances[op.i] : f = ProgFile(op.path, op.i, n)
    BY <1>3 DEF bpf_object__unpin_programs, bpf_program__unpin
  <2>2. op' = [op EXCEPT !.i = @ + 1] \/ op' = NotCalled
    BY <1>3, Zenon DEF bpf_object__unpin_programs, bpf_program__unpin
  <2>3. op' \in OpTypes /\ CallRight' /\ ~Pinning'
    <3>1. CASE op' = NotCalled
      BY <3>1, Returning DEF Return
    <3>2. CASE op' = [op EXCEPT !.i = @ + 1]
      BY <1>1, <3>2 DEF OpTypes, CallRight, Pinning
    <3> QED
      BY <2>2, <3>1, <3>2
  <2>4. PinTypes' /\ PinnedIsThere'
    <3>1. made' \subseteq PinFiles
      BY <1>1 DEF PinTypes
    <3> QED
      BY <1>1, <1>3, <2>1, <2>3, <3>1, ProgramsApart
  <2> QED
    BY <1>1, <2>3, <2>4, NotPinning
<1> QED
  BY <1>2, <1>3

LEMMA OneMapAlone ==
  ASSUME NamesAssumption, PinInv, NEW m \in MapIds,
         \/ OneMap(m) \/ bpf_map__set_pin_path(m, NoPath)
         \/ \E d \in Dirs : bpf_map__set_pin_path(m, MapFile(d, m))
  PROVE  StepRight
<1>1. op = NotCalled /\ op' = op /\ PinTypes /\ PinnedIsThere /\ CallRight /\ op' \in OpTypes
  BY DEF PinInv, PinTypes, OneMap, bpf_map__set_pin_path
<1>2. ~Pinning /\ ~Pinning' /\ CallRight'
  BY <1>1 DEF Pinning, NotCalled, CallRight
<1>3. CASE OneMap(m)
  <2>1. PICK ok \in BOOLEAN, path \in {NoPath} \cup MapFiles(m) :
          bpf_map__unpin(m, path, ok) \/ bpf_map__pin(m, path, ok)
    BY <1>3 DEF OneMap, MapFiles
  <2>2. PinTypes' /\ PinnedIsThere'
    BY <1>1, <2>1, MapPinned, MapUnpinned DEF PinnedAs, UnpinnedFrom
  <2> QED
    BY <1>2, <2>2, NotPinning
<1>4. CASE \E path \in {NoPath} \cup MapFiles(m) : bpf_map__set_pin_path(m, path)
  <2>1. PICK path \in {NoPath} \cup MapFiles(m) : bpf_map__set_pin_path(m, path)
    BY <1>4
  <2>2. /\ ~maps[m].pinned /\ UNCHANGED <<fs, made>> /\ DOMAIN maps' = MapIds
        /\ maps'[m] \in [pin_path : {NoPath} \cup MapFiles(m), pinned : BOOLEAN] /\ ~maps'[m].pinned
        /\ \A k \in MapIds \ {m} : maps'[k] = maps[k]
    <3>1. DOMAIN maps = MapIds /\ maps[m] \in [pin_path : {NoPath} \cup MapFiles(m), pinned : BOOLEAN]
      BY <1>1 DEF PinTypes
    <3>2. maps' = [maps EXCEPT ![m].pin_path = path] /\ ~maps[m].pinned /\ UNCHANGED <<fs, made>>
      BY <2>1 DEF bpf_map__set_pin_path
    <3> QED
      BY <3>1, <3>2
  <2>3. PinTypes'
    BY <1>1, <2>2 DEF PinTypes
  <2>4. PinnedIsThere'
    BY <1>1, <2>2 DEF PinnedIsThere
  <2> QED
    BY <1>2, <2>3, <2>4, NotPinning
<1> QED
  BY <1>3, <1>4 DEF MapFiles

LEMMA PinsCalled ==
  ASSUME NamesAssumption, PinInv, NEW c \in PinCalls \ {"none"}, NEW d \in Dirs \cup {NoPath}, CallPins(c, d),
         d = NoPath => c \in {"pin_maps", "unpin_maps"}
  PROVE  StepRight
<1>1. op = NotCalled /\ PinTypes /\ PinnedIsThere /\ UNCHANGED <<fs, maps>> /\ made' = {}
  BY DEF PinInv, CallPins
<1>2. /\ op' \in OpTypes /\ op' # NotCalled /\ op'.call = c /\ op'.path = d /\ op'.i = 1 /\ op'.j = 1
      /\ op'.at = CASE c \in {"pin", "pin_maps"} -> "maps" [] c = "pin_programs" -> "progs"
                    [] c = "unpin_maps" -> "unmaps" [] OTHER -> "unprogs"
  BY DEF CallPins, OpTypes, PinCalls, Stages, NotCalled
<1>3. PinTypes' /\ PinnedIsThere'
  BY <1>1, <1>2 DEF PinTypes, PinnedIsThere
<1>4. d \in Dirs \/ c \in {"pin_maps", "unpin_maps"}
  OBVIOUS
<1>5. CallRight'
  BY <1>2, <1>4 DEF CallRight, PinCalls
<1>6. Pinning' => op'.at \in {"maps", "progs"} /\ (op'.at = "maps" \/ op'.call = "pin_programs")
  BY <1>2 DEF Pinning
<1>7. ASSUME Pinning' PROVE MapsAreLeft' /\ InstsAreLeft' /\ MadeIsLeft'
  <2>1. \A k \in MapIds : ~MapLeft(op, k)'
    BY <1>2, <1>6, <1>7 DEF MapLeft, NamesAssumption
  <2>2. \A p \in ProgIds : \A n \in 1..Instances[p] : ~InstLeft(op, p, n)'
    BY <1>2, <1>6, <1>7 DEF InstLeft, NamesAssumption
  <2> QED
    BY <1>1, <2>1, <2>2 DEF MapsAreLeft, InstsAreLeft, MadeIsLeft
<1>8. ~Pinning
  BY <1>1 DEF Pinning, NotCalled
<1> QED
  BY <1>3, <1>5, <1>7, <1>8, NotPinning

LEMMA OthersPin ==
  ASSUME NamesAssumption, PinInv, NEW f \in PinFiles, OtherPin(f)
  PROVE  StepRight
<1>1. fs[f] = NoPin /\ fs' = [fs EXCEPT ![f] = <<"other">>] /\ UNCHANGED <<maps, op, made>> /\ PinTypes /\ PinnedIsThere /\ CallRight
  BY DEF OtherPin, PinInv
<1>2. /\ DOMAIN fs' = PinFiles /\ fs'[f] = <<"other">> /\ \A g \in PinFiles \ {f} : fs'[g] = fs[g]
  BY <1>1 DEF PinTypes
<1>3. PinTypes' /\ PinnedIsThere' /\ CallRight'
  <2>1. op' \in OpTypes /\ made' \subseteq PinFiles /\ CallRight'
    BY <1>1 DEF PinTypes, CallRight
  <2>2. \A g \in PinFiles : fs'[g] = fs[g] \/ fs[g] = NoPin
    BY <1>1, <1>2
  <2> QED
    BY <1>1, <1>2, <2>1, <2>2, ProgramsApart
<1>4. ASSUME Pinning PROVE MapsAreLeft' /\ InstsAreLeft' /\ MadeIsLeft'
  <2>1. MapsAreLeft /\ InstsAreLeft /\ MadeIsLeft
    BY <1>4 DEF PinInv
  <2>2. MapsAreLeft'
    BY <1>1, <2>1 DEF MapsAreLeft, IsPinned, PathOf
  <2>3. InstsAreLeft'
    <3>1. ASSUME NEW p \in ProgIds, NEW n \in 1..Instances[p], InstLeft(op, p, n)
          PROVE  fs'[ProgFile(op.path, p, n)] = <<"prog", p, n>>
      <4>1. op.path \in Dirs
        BY <1>1, <3>1 DEF CallRight, InstLeft
      <4>2. fs[ProgFile(op.path, p, n)] = <<"prog", p, n>> /\ ProgFile(op.path, p, n) \in PinFiles
        BY <2>1, <3>1, <4>1, FilesOfPrograms DEF InstsAreLeft
      <4> QED
        BY <1>1, <1>2, <4>2 DEF NoPin
    <3> QED
      BY <1>1, <3>1 DEF InstsAreLeft
  <2>4. MadeIsLeft'
    <3>1. \A g \in made : Gone(g) => Gone(g)'
      BY <1>1, <1>2 DEF Gone, PinTypes
    <3> QED
      BY <1>1, <2>1, <3>1 DEF MadeIsLeft
  <2> QED
    BY <2>2, <2>3, <2>4
<1>5. FailedPinLeavesNothingStep
  <2>1. ASSUME Pinning, op' = NotCalled PROVE FALSE
    BY <1>1, <2>1 DEF Pinning, NotCalled
  <2> QED
    BY <2>1 DEF FailedPinLeavesNothingStep
<1>6. RollbackSparesOthersStep
  BY <1>1, <1>2 DEF RollbackSparesOthersStep, NoPin
<1>7. Pinning' => Pinning
  BY <1>1 DEF Pinning
<1> QED
  BY <1>3, <1>4, <1>5, <1>6, <1>7 DEF StepRight, PinInv

(* Where a map says it is pinned there is a pin of it; a call to pin that  *)
(* fails leaves nothing of what it made; and what it takes back leaves the *)
(* files of others alone.                                                  *)
THEOREM PinsAreRight ==
  ASSUME NamesAssumption
  PROVE  PinsSpec => PinsRight
<1>1. PinsInit => PinInv
  <2>1. NotCalled \in OpTypes
    BY DEF NotCalled, OpTypes, PinCalls, Stages
  <2>2. PinsInit => PinTypes /\ PinnedIsThere
    BY <2>1 DEF PinsInit, PinTypes, PinnedIsThere
  <2>3. PinsInit => CallRight /\ ~Pinning
    BY DEF PinsInit, CallRight, Pinning, NotCalled
  <2> QED
    BY <2>2, <2>3 DEF PinInv
<1>2. ASSUME PinInv, [PinsNext]_pinVars
      PROVE  PinInv' /\ [FailedPinLeavesNothingStep /\ RollbackSparesOthersStep]_pinVars
  <2>1. CASE UNCHANGED pinVars
    BY <1>2, <2>1 DEF pinVars, PinInv, PinTypes, PinnedIsThere, CallRight, Pinning, MapsAreLeft, InstsAreLeft,
      MadeIsLeft, IsPinned, Gone, PathOf
  <2>2. CASE PinsNext
    <3> SUFFICES StepRight
      BY DEF StepRight
    <3>1. CASE \E m \in MapIds :
                 \/ OneMap(m) \/ bpf_map__set_pin_path(m, NoPath)
                 \/ \E d \in Dirs : bpf_map__set_pin_path(m, MapFile(d, m))
      BY <1>2, <3>1, OneMapAlone
    <3>2. CASE \/ \E d \in Dirs, c \in {"pin", "pin_maps", "unpin_maps", "pin_programs", "unpin_programs"} : CallPins(c, d)
               \/ CallPins("pin_maps", NoPath) \/ CallPins("unpin_maps", NoPath)
      <4>1. NoPath \notin Dirs
        BY DEF NamesAssumption
      <4> QED
        BY <1>2, <3>2, <4>1, PinsCalled DEF PinCalls
    <3>3. CASE bpf_object__pin_maps \/ UndoMaps \/ bpf_object__unpin_maps
      BY <1>2, <3>3, MapsPinned, MapsUndone, MapsTakenBack, MapsUnpinned
    <3>4. CASE bpf_object__pin_programs \/ UndoInstances \/ UndoPrograms \/ bpf_object__unpin_programs
      BY <1>2, <3>4, ProgramsPinned, InstancesUndone, ProgramsUndone, ProgramsUnpinned
    <3>5. CASE \E f \in PinFiles : OtherPin(f)
      BY <1>2, <3>5, OthersPin
    <3> QED
      BY <2>2, <3>1, <3>2, <3>3, <3>4, <3>5 DEF PinsNext
  <2> QED
    BY <1>2, <2>1, <2>2
<1>3. PinInv => PinnedIsThere
  BY DEF PinInv
<1> QED
  BY <1>1, <1>2, <1>3, PTL DEF PinsSpec, PinsRight
=============================================================================
