--------------------------- MODULE XdpStats_proofs ---------------------------
(***************************************************************************)
(* xdp_loader, the writer of the redirect table and xdp_stats, for any     *)
(* maps, command lines, CPUs and number of runs; and the helpers, for any  *)
(* options and packets.                                                    *)
(***************************************************************************)
EXTENDS XdpStats, XdpHelpers, FiniteSetTheorems, SequenceTheorems, TLAPS

LdType == [pc : PCs, opt : Options \cup {NoMap}, prog : Runs \cup {NoProg}, i : 0..Len(MapSeq)]

LType ==
  /\ LoaderTypeOK
  /\ runs \in 0..MaxRuns
  /\ ld \in [Loaders -> LdType]
  /\ wr \in [pc : {"idle", "open", "done"}, map : MapIds]

(* The program of a run that is attached has all its maps; while they are  *)
(* reused it has those before the one it is at.                            *)
Full(r) == \A m \in PinNames : progMaps[r][m] # NoMap

Active(l) ==
  ld[l].pc # "idle" =>
    ld[l].opt \in Options /\ ld[l].prog \in 1..runs /\ (ld[l].pc # "rollback" => ld[l].i >= 1)

HasMaps(l) ==
  /\ ld[l].pc = "reuse" =>
       /\ ld[l].opt.reuse
       /\ \A j \in 1..Len(MapSeq) : j < ld[l].i => progMaps[ld[l].prog][MapSeq[j]] # NoMap
  /\ ld[l].pc = "load" /\ ld[l].opt.reuse => Full(ld[l].prog)
  /\ ld[l].pc \notin {"idle", "reuse", "load", "unload"} => Full(ld[l].prog)

LinkFull == link.prog # NoProg => Full(link.prog)

LInv == LType /\ LinkFull /\ \A l \in Loaders : Active(l) /\ HasMaps(l)

LEMMA Names ==
  ASSUME LoaderAssumption
  PROVE  /\ Len(MapSeq) \in Nat \ {0} /\ \A i \in 1..Len(MapSeq) : MapSeq[i] \in PinNames
         /\ \A m \in PinNames : \E i \in 1..Len(MapSeq) : m = MapSeq[i]
         /\ STATS \in PinNames /\ REDIRECT \in PinNames
<1>1. DOMAIN MapSeq = 1..Len(MapSeq) /\ Len(MapSeq) \in Nat
  BY DEF LoaderAssumption
<1>2. \A i \in 1..Len(MapSeq) : MapSeq[i] \in PinNames
  BY <1>1 DEF PinNames
<1>3. \A m \in PinNames : \E i \in 1..Len(MapSeq) : m = MapSeq[i]
  BY <1>1 DEF PinNames
<1>4. STATS \in PinNames /\ REDIRECT \in PinNames
  BY DEF LoaderAssumption
<1>5. Len(MapSeq) # 0
  BY <1>1, <1>3, <1>4
<1> QED
  BY <1>1, <1>2, <1>3, <1>4, <1>5

(* A loader goes on to another call, or ends. *)
LEMMA GotoIs ==
  ASSUME LType, NEW l \in Loaders, NEW pc \in PCs, NEW i \in 0..Len(MapSeq), Goto(l, pc, i)
  PROVE  /\ ld' \in [Loaders -> LdType]
         /\ ld'[l].pc = pc /\ ld'[l].i = i /\ ld'[l].opt = ld[l].opt /\ ld'[l].prog = ld[l].prog
         /\ \A k \in Loaders : k # l => ld'[k] = ld[k]
<1>1. ld \in [Loaders -> LdType] /\ ld[l] \in LdType
  BY DEF LType
<1>2. ld' = [ld EXCEPT ![l].pc = pc, ![l].i = i]
  BY DEF Goto
<1>3. [ld[l] EXCEPT !.pc = pc, !.i = i] \in LdType
  BY <1>1 DEF LdType
<1>4. ld'[l] = [ld[l] EXCEPT !.pc = pc, !.i = i] /\ \A k \in Loaders : k # l => ld'[k] = ld[k]
  BY <1>1, <1>2
<1>5. ld' \in [Loaders -> LdType]
  BY <1>1, <1>2, <1>3
<1> QED
  BY <1>1, <1>4, <1>5 DEF LdType

LEMMA ExitIs ==
  ASSUME LType, NEW l \in Loaders, NEW how, Exit(l, how)
  PROVE  /\ ld' \in [Loaders -> LdType] /\ ld'[l] = Idle /\ ld'[l].pc = "idle" /\ last' = how
         /\ \A k \in Loaders : k # l => ld'[k] = ld[k]
<1>1. Idle \in LdType
  BY DEF Idle, LdType, PCs
<1>2. ld' = [ld EXCEPT ![l] = Idle] /\ last' = how
  BY DEF Exit
<1> QED
  BY <1>1, <1>2 DEF LType, Idle

(* What a step of loader l has to leave for the invariant to hold. *)
LEMMA LoaderKeeps ==
  ASSUME LoaderAssumption, LInv, NEW l \in Loaders,
         ld' \in [Loaders -> LdType], \A k \in Loaders : k # l => ld'[k] = ld[k],
         runs' \in 0..MaxRuns, runs <= runs',
         link' \in [mode : {"none", "skb", "drv"}, prog : Runs \cup {NoProg}],
         link'.mode = "none" <=> link'.prog = NoProg,
         pins' \in [PinNames -> MapIds], progMaps' \in [Runs -> [PinNames -> MapIds]],
         \A r \in Runs, m \in PinNames : progMaps[r][m] # NoMap => progMaps'[r][m] # NoMap,
         entries' = entries, wr' \in [pc : {"idle", "open", "done"}, map : MapIds],
         wr'.pc = "open" => wr'.map # NoMap,
         link'.prog # NoProg /\ link'.prog # link.prog =>
           \A m \in PinNames : progMaps'[link'.prog][m] # NoMap,
         Active(l)', HasMaps(l)'
  PROVE  LInv'
<1>1. LType'
  BY DEF LInv, LType, LoaderTypeOK, LdType
<1>2. \A r \in Runs : Full(r) => \A m \in PinNames : progMaps'[r][m] # NoMap
  BY DEF Full
<1>3. LinkFull'
  <2>1. link'.prog # NoProg => link'.prog \in Runs
    OBVIOUS
  <2>2. link'.prog # NoProg => \A m \in PinNames : progMaps'[link'.prog][m] # NoMap
    BY <1>2, <2>1 DEF LInv, LinkFull
  <2> QED
    BY <2>2 DEF LinkFull, Full
<1>4. ASSUME NEW k \in Loaders, k # l
      PROVE  Active(k)' /\ HasMaps(k)'
  <2>1. Active(k) /\ HasMaps(k) /\ ld'[k] = ld[k] /\ runs \in Nat /\ runs' \in Nat
    BY <1>4 DEF LInv, LType
  <2>2. Active(k)'
    BY <2>1 DEF Active
  <2>3. ld[k].pc # "idle" => ld[k].prog \in Runs
    <3>1. runs \in 0..MaxRuns /\ MaxRuns \in Nat
      BY DEF LInv, LType, LoaderAssumption
    <3> QED
      BY <2>1, <3>1 DEF Active, Runs
  <2>4. HasMaps(k)'
    <3>1. ASSUME ld[k].pc = "reuse", NEW j \in 1..Len(MapSeq), j < ld[k].i
          PROVE  progMaps'[ld[k].prog][MapSeq[j]] # NoMap
      <4>1. progMaps[ld[k].prog][MapSeq[j]] # NoMap
        BY <2>1, <3>1 DEF HasMaps
      <4>2. MapSeq[j] \in PinNames
        BY DEF PinNames
      <4> QED
        BY <2>3, <3>1, <4>1, <4>2
    <3> QED
      BY <1>2, <2>1, <2>3, <3>1 DEF HasMaps, Full
  <2> QED
    BY <2>2, <2>4
<1> QED
  BY <1>1, <1>3, <1>4 DEF LInv

(* Once it has its maps a loader goes on to a later call, or ends. *)
Onward(l) ==
  \/ /\ ld[l].pc \notin {"idle", "reuse", "load", "unload"}
     /\ \E pc \in PCs \ {"idle", "reuse", "load", "unload"}, i \in 0..Len(MapSeq) :
          Goto(l, pc, i) /\ (pc # "rollback" => i >= 1)
  \/ ld[l].pc # "idle" /\ \E how : Exit(l, how)

LEMMA LoadKeeps ==
  ASSUME LoaderAssumption, LInv, NEW l \in Loaders, Proceed(l)
  PROVE  LInv'
<1> USE Names
<1>1. /\ LType /\ LinkFull /\ Active(l) /\ HasMaps(l) /\ ld[l] \in LdType /\ runs \in 0..MaxRuns
      /\ MaxRuns \in Nat /\ runs <= runs /\ Len(MapSeq) \in Nat \ {0}
  BY DEF LInv, LType, LoaderAssumption
<1>2. /\ pins \in [PinNames -> MapIds] /\ progMaps \in [Runs -> [PinNames -> MapIds]]
      /\ link \in [mode : {"none", "skb", "drv"}, prog : Runs \cup {NoProg}]
      /\ link.mode = "none" <=> link.prog = NoProg
      /\ wr \in [pc : {"idle", "open", "done"}, map : MapIds] /\ (wr.pc = "open" => wr.map # NoMap)
      /\ NoMap \in MapIds /\ ld \in [Loaders -> LdType]
  BY <1>1 DEF LType, LoaderTypeOK, MapIds
<1>3. /\ ld[l].pc \in PCs /\ ld[l].i \in 0..Len(MapSeq) /\ ld[l].prog \in Runs \cup {NoProg}
      /\ (ld[l].pc # "idle" => ld[l].opt \in Options /\ ld[l].prog \in 1..runs /\ ld[l].prog \in Runs)
  BY <1>1 DEF LdType, Active, Runs
<1>4. NoMap \notin Runs \X PinNames /\ NoProg \notin Runs
  BY DEF LoaderAssumption
<1>5. CASE Start(l)
  <2>1. PICK o \in Options :
          ld' = [ld EXCEPT ![l] =
            [ pc |-> IF o.unload THEN "unload" ELSE IF o.reuse THEN "reuse" ELSE "load",
              opt |-> o, prog |-> runs + 1, i |-> 1 ]]
    BY <1>5 DEF Start
  <2>2. /\ runs < MaxRuns /\ runs' = runs + 1 /\ wr' = [pc |-> "idle", map |-> NoMap]
        /\ UNCHANGED <<link, pins, progMaps, entries>>
    BY <1>5 DEF Start, kvars
  <2> DEFINE new == [ pc |-> IF o.unload THEN "unload" ELSE IF o.reuse THEN "reuse" ELSE "load",
                      opt |-> o, prog |-> runs + 1, i |-> 1 ]
  <2>3. new.pc \in {"unload", "reuse", "load"} /\ new.opt = o /\ new.prog = runs + 1 /\ new.i = 1
        /\ (new.pc = "reuse" => o.reuse) /\ (new.pc = "load" => ~o.reuse) /\ new \in LdType
    BY <1>1, <2>2 DEF LdType, PCs, Runs
  <2> HIDE DEF new
  <2>4. ld'[l] = new /\ ld' \in [Loaders -> LdType] /\ \A k \in Loaders : k # l => ld'[k] = ld[k]
    BY <1>2, <2>1, <2>3 DEF new
  <2>5. Active(l)'
    BY <1>1, <2>2, <2>3, <2>4 DEF Active
  <2>6. HasMaps(l)'
    BY <1>1, <2>2, <2>3, <2>4 DEF HasMaps
  <2> QED
    BY <1>1, <1>2, <2>2, <2>4, <2>5, <2>6, LoaderKeeps
<1>6. CASE ReuseMap(l)
  <2> DEFINE m == MapSeq[ld[l].i]
  <2>1. ld[l].pc = "reuse" /\ UNCHANGED <<link, pins, entries, runs, wr>> /\ m \in PinNames
        /\ ld[l].i >= 1
    BY <1>1, <1>3, <1>6 DEF ReuseMap, Active
  <2>2. CASE pins[m] = NoMap
    <3>1. Exit(l, "fail") /\ UNCHANGED progMaps
      BY <1>6, <2>2 DEF ReuseMap
    <3>2. ld' \in [Loaders -> LdType] /\ ld'[l].pc = "idle" /\ \A k \in Loaders : k # l => ld'[k] = ld[k]
      BY <1>1, <3>1, ExitIs
    <3>3. Active(l)' /\ HasMaps(l)'
      BY <3>2 DEF Active, HasMaps
    <3> QED
      BY <1>1, <1>2, <2>1, <3>1, <3>2, <3>3, LoaderKeeps
  <2>3. CASE pins[m] # NoMap
    <3>1. /\ progMaps' = [progMaps EXCEPT ![ld[l].prog][m] = pins[m]]
          /\ IF ld[l].i = Len(MapSeq) THEN Goto(l, "load", 1) ELSE Goto(l, "reuse", ld[l].i + 1)
      BY <1>6, <2>3 DEF ReuseMap
    <3> DEFINE p == ld[l].prog
    <3>2. p \in Runs /\ p \in 1..runs /\ ld[l].opt \in Options /\ ld[l].opt.reuse
      BY <1>1, <1>3, <2>1 DEF HasMaps
    <3>3. /\ progMaps' \in [Runs -> [PinNames -> MapIds]] /\ progMaps'[p][m] = pins[m]
          /\ \A n \in PinNames : n # m => progMaps'[p][n] = progMaps[p][n]
          /\ \A r \in Runs : r # p => progMaps'[r] = progMaps[r]
      BY <1>2, <2>1, <3>1, <3>2
    <3>4. \A r \in Runs, n \in PinNames : progMaps[r][n] # NoMap => progMaps'[r][n] # NoMap
      BY <2>3, <3>3
    <3>5. \A j \in 1..Len(MapSeq) : j < ld[l].i + 1 => progMaps'[p][MapSeq[j]] # NoMap
      <4> SUFFICES ASSUME NEW j \in 1..Len(MapSeq), j < ld[l].i + 1
                   PROVE  progMaps'[p][MapSeq[j]] # NoMap
        OBVIOUS
      <4>1. MapSeq[j] \in PinNames /\ (j = ld[l].i \/ j < ld[l].i)
        BY <1>3
      <4>2. j < ld[l].i => progMaps[p][MapSeq[j]] # NoMap
        BY <1>1, <2>1 DEF HasMaps
      <4> QED
        BY <2>3, <3>2, <3>3, <3>4, <4>1, <4>2
    <3>6. CASE ld[l].i = Len(MapSeq)
      <4>1. Goto(l, "load", 1) /\ "load" \in PCs /\ 1 \in 0..Len(MapSeq)
        BY <1>1, <3>1, <3>6 DEF PCs
      <4>2. ld' \in [Loaders -> LdType] /\ ld'[l].pc = "load" /\ ld'[l].i = 1 /\ ld'[l].opt = ld[l].opt
            /\ ld'[l].prog = p /\ \A k \in Loaders : k # l => ld'[k] = ld[k]
        BY <1>1, <4>1, GotoIs
      <4>3. Active(l)'
        BY <2>1, <3>2, <4>2 DEF Active
      <4>4. \A n \in PinNames : progMaps'[p][n] # NoMap
        BY <1>3, <3>5, <3>6
      <4>5. HasMaps(l)'
        BY <4>2, <4>4 DEF HasMaps, Full
      <4> QED
        BY <1>1, <1>2, <2>1, <3>3, <3>4, <4>2, <4>3, <4>5, LoaderKeeps
    <3>7. CASE ld[l].i # Len(MapSeq)
      <4>1. Goto(l, "reuse", ld[l].i + 1) /\ "reuse" \in PCs /\ ld[l].i + 1 \in 0..Len(MapSeq)
        BY <1>1, <1>3, <3>1, <3>7 DEF PCs
      <4>2. ld' \in [Loaders -> LdType] /\ ld'[l].pc = "reuse" /\ ld'[l].i = ld[l].i + 1
            /\ ld'[l].opt = ld[l].opt
            /\ ld'[l].prog = p /\ \A k \in Loaders : k # l => ld'[k] = ld[k]
        BY <1>1, <4>1, GotoIs
      <4>3. Active(l)'
        BY <1>3, <2>1, <3>2, <4>2 DEF Active
      <4>5. HasMaps(l)'
        BY <3>2, <3>5, <4>2 DEF HasMaps, Full
      <4> QED
        BY <1>1, <1>2, <2>1, <3>3, <3>4, <4>2, <4>3, <4>5, LoaderKeeps
    <3> QED
      BY <3>6, <3>7
  <2> QED
    BY <2>2, <2>3
<1>7. CASE LoadObject(l)
  <2>1. ld[l].pc = "load" /\ UNCHANGED <<link, pins, entries, runs, wr>>
    BY <1>7 DEF LoadObject
  <2>2. CASE Exit(l, "fail") /\ UNCHANGED progMaps
    <3>2. ld' \in [Loaders -> LdType] /\ ld'[l].pc = "idle" /\ \A k \in Loaders : k # l => ld'[k] = ld[k]
      BY <1>1, <2>2, ExitIs
    <3>3. Active(l)' /\ HasMaps(l)'
      BY <3>2 DEF Active, HasMaps
    <3> QED
      BY <1>1, <1>2, <2>1, <2>2, <3>2, <3>3, LoaderKeeps
  <2>3. CASE /\ progMaps' = [progMaps EXCEPT ![ld[l].prog] =
                  [m \in PinNames |-> IF ld[l].opt.reuse THEN @[m] ELSE Map(ld[l].prog, m)]]
             /\ Goto(l, "attach", 1)
    <3> DEFINE p == ld[l].prog
    <3>1. p \in Runs /\ p \in 1..runs /\ ld[l].opt \in Options
      BY <1>3, <2>1
    <3>2. \A m \in PinNames : Map(p, m) \in MapIds /\ Map(p, m) # NoMap
      BY <1>4, <3>1 DEF Map, MapIds
    <3>3. /\ progMaps' \in [Runs -> [PinNames -> MapIds]]
          /\ \A m \in PinNames :
               progMaps'[p][m] = IF ld[l].opt.reuse THEN progMaps[p][m] ELSE Map(p, m)
          /\ \A r \in Runs : r # p => progMaps'[r] = progMaps[r]
      BY <1>2, <2>3, <3>1, <3>2
    <3>4. \A n \in PinNames : progMaps'[p][n] # NoMap
      BY <1>1, <2>1, <3>2, <3>3 DEF HasMaps, Full
    <3>5. \A r \in Runs, n \in PinNames : progMaps[r][n] # NoMap => progMaps'[r][n] # NoMap
      BY <3>3, <3>4
    <3>6. "attach" \in PCs /\ 1 \in 0..Len(MapSeq)
      BY <1>1 DEF PCs
    <3>7. ld' \in [Loaders -> LdType] /\ ld'[l].pc = "attach" /\ ld'[l].i = 1 /\ ld'[l].opt = ld[l].opt
          /\ ld'[l].prog = p /\ \A k \in Loaders : k # l => ld'[k] = ld[k]
      BY <1>1, <2>3, <3>6, GotoIs
    <3>8. Active(l)'
      BY <2>1, <3>1, <3>7 DEF Active
    <3>9. HasMaps(l)'
      BY <3>4, <3>7 DEF HasMaps, Full
    <3> QED
      BY <1>1, <1>2, <2>1, <3>3, <3>5, <3>7, <3>8, <3>9, LoaderKeeps
  <2> QED
    BY <1>7, <2>2, <2>3 DEF LoadObject
<1>8. ASSUME UNCHANGED <<progMaps, entries, runs, wr>>,
             pins' \in [PinNames -> MapIds],
             link' \in [mode : {"none", "skb", "drv"}, prog : Runs \cup {NoProg}],
             link'.mode = "none" <=> link'.prog = NoProg,
             link'.prog \in {link.prog, NoProg} \/ (ld[l].pc \in {"attach", "again"} /\ link'.prog = ld[l].prog),
             Onward(l)
      PROVE  LInv'
  <2>1. \A r \in Runs, n \in PinNames : progMaps[r][n] # NoMap => progMaps'[r][n] # NoMap
    BY <1>8
  <2>2. ASSUME link'.prog # NoProg, link'.prog # link.prog, NEW m \in PinNames
        PROVE  progMaps'[link'.prog][m] # NoMap
    BY <1>1, <1>8, <2>2 DEF HasMaps, Full
  <2>3. CASE \E how : Exit(l, how)
    <3>2. ld' \in [Loaders -> LdType] /\ ld'[l].pc = "idle" /\ \A k \in Loaders : k # l => ld'[k] = ld[k]
      BY <1>1, <2>3, ExitIs
    <3>3. Active(l)' /\ HasMaps(l)'
      BY <3>2 DEF Active, HasMaps
    <3> QED
      BY <1>1, <1>2, <1>8, <2>1, <2>2, <3>2, <3>3, LoaderKeeps
  <2>4. CASE ld[l].pc \notin {"idle", "reuse", "load", "unload"}
             /\ \E pc \in PCs \ {"idle", "reuse", "load", "unload"}, i \in 0..Len(MapSeq) :
                     Goto(l, pc, i) /\ (pc # "rollback" => i >= 1)
    <3>1. PICK pc \in PCs \ {"idle", "reuse", "load", "unload"}, i \in 0..Len(MapSeq) :
            Goto(l, pc, i) /\ (pc # "rollback" => i >= 1)
      BY <2>4
    <3>2. ld' \in [Loaders -> LdType] /\ ld'[l].pc = pc /\ ld'[l].i = i /\ ld'[l].opt = ld[l].opt
          /\ ld'[l].prog = ld[l].prog /\ \A k \in Loaders : k # l => ld'[k] = ld[k]
      BY <1>1, <3>1, GotoIs
    <3>3. Active(l)'
      BY <1>3, <1>8, <2>4, <3>1, <3>2 DEF Active
    <3>4. Full(ld[l].prog)
      BY <1>1, <2>4 DEF HasMaps
    <3>5. HasMaps(l)'
      BY <1>8, <3>1, <3>2, <3>4 DEF HasMaps, Full
    <3> QED
      BY <1>1, <1>2, <1>8, <2>1, <2>2, <3>2, <3>3, <3>5, LoaderKeeps
  <2> QED
    BY <1>8, <2>3, <2>4 DEF Onward
<1>9. /\ \A m \in {"auto", "skb", "drv"} : EffMode(m) \in {"skb", "drv"}
      /\ {"attach", "detach", "again", "access", "unpin", "pin", "rollback"}
           \subseteq PCs \ {"idle", "reuse", "load", "unload"}
      /\ 1 \in 0..Len(MapSeq)
      /\ (ld[l].pc # "idle" => ld[l].opt.mode \in {"auto", "skb", "drv"})
  BY <1>1, <1>3 DEF EffMode, PCs, LoaderAssumption
<1>10. Bare.mode = "none" /\ Bare.prog = NoProg
       /\ Bare \in [mode : {"none", "skb", "drv"}, prog : Runs \cup {NoProg}]
  BY DEF Bare
<1>11. ASSUME Attached(l), ld[l].pc \in {"attach", "again"}
       PROVE  /\ link' \in [mode : {"none", "skb", "drv"}, prog : Runs \cup {NoProg}]
              /\ link'.mode = "none" <=> link'.prog = NoProg
              /\ link'.prog = ld[l].prog
              /\ Exit(l, "ok") \/ Goto(l, "access", 1)
  <2>1. link' = [mode |-> EffMode(ld[l].opt.mode), prog |-> ld[l].prog]
    BY <1>11 DEF Attached
  <2> QED
    BY <1>3, <1>4, <1>9, <1>11, <2>1 DEF Attached
<1>12. CASE xdp_link_attach(l)
  <2>1. ld[l].pc = "attach" /\ UNCHANGED <<pins, progMaps, entries, runs, wr>>
    BY <1>12 DEF xdp_link_attach
  <2>2. \/ Attached(l)
        \/ Goto(l, "detach", 1) /\ UNCHANGED link
        \/ Exit(l, "fail") /\ UNCHANGED link
    BY <1>12 DEF xdp_link_attach
  <2>3. Onward(l)
    BY <1>9, <1>11, <2>1, <2>2 DEF Onward
  <2> QED
    BY <1>2, <1>8, <1>11, <2>1, <2>2, <2>3
<1>13. CASE DetachOther(l)
  <2>1. /\ ld[l].pc = "detach" /\ UNCHANGED <<pins, progMaps, entries, runs, wr>>
        /\ Goto(l, "again", 1) /\ link' \in {Bare, link}
    BY <1>13 DEF DetachOther
  <2>3. Onward(l)
    BY <1>9, <2>1 DEF Onward
  <2> QED
    BY <1>2, <1>8, <1>10, <2>1, <2>3
<1>14. CASE AttachAgain(l)
  <2>1. ld[l].pc = "again" /\ UNCHANGED <<pins, progMaps, entries, runs, wr>>
    BY <1>14 DEF AttachAgain
  <2>2. \/ Attached(l)
        \/ Exit(l, "fail") /\ UNCHANGED link
    BY <1>14 DEF AttachAgain
  <2>3. Onward(l)
    BY <1>9, <1>11, <2>1, <2>2 DEF Onward
  <2> QED
    BY <1>2, <1>8, <1>11, <2>1, <2>2, <2>3
<1>15. CASE Access(l)
  <2>1. /\ ld[l].pc = "access" /\ UNCHANGED <<link, pins, progMaps, entries, runs, wr>>
        /\ (Goto(l, "unpin", 1) \/ Goto(l, "pin", 1))
    BY <1>15 DEF Access, kvars
  <2>3. Onward(l)
    BY <1>9, <2>1 DEF Onward
  <2> QED
    BY <1>2, <1>8, <2>1, <2>3
<1>16. CASE UnpinMap(l)
  <2>1. ld[l].pc = "unpin" /\ UNCHANGED <<link, progMaps, entries, runs, wr>>
    BY <1>16 DEF UnpinMap
  <2>2. pins' \in [PinNames -> MapIds]
    BY <1>2, <1>16 DEF UnpinMap
  <2>3. \/ \E how : Exit(l, how)
        \/ Goto(l, "pin", 1)
        \/ ld[l].i # Len(MapSeq) /\ Goto(l, "unpin", ld[l].i + 1)
    BY <1>16 DEF UnpinMap
  <2>4. ld[l].i # Len(MapSeq) => ld[l].i + 1 \in 0..Len(MapSeq) /\ ld[l].i + 1 >= 1
    BY <1>1, <1>3
  <2>5. Onward(l)
    BY <1>9, <2>1, <2>3, <2>4 DEF Onward
  <2> QED
    BY <1>2, <1>8, <2>1, <2>2, <2>5
<1>17. CASE PinMap(l)
  <2>1. ld[l].pc = "pin" /\ UNCHANGED <<link, progMaps, entries, runs, wr>> /\ ld[l].prog \in Runs
    BY <1>3, <1>17 DEF PinMap
  <2>2. pins' \in [PinNames -> MapIds]
    <3>1. ld[l].i \in 1..Len(MapSeq)
      BY <1>1, <1>3, <2>1 DEF Active
    <3>2. progMaps[ld[l].prog][MapSeq[ld[l].i]] \in MapIds
      BY <1>2, <2>1, <3>1
    <3> QED
      BY <1>2, <1>17, <3>2 DEF PinMap
  <2>3. \/ \E how : Exit(l, how)
        \/ Goto(l, "rollback", ld[l].i - 1)
        \/ ld[l].i # Len(MapSeq) /\ Goto(l, "pin", ld[l].i + 1)
    BY <1>17 DEF PinMap
  <2>4. /\ ld[l].i # Len(MapSeq) => ld[l].i + 1 \in 0..Len(MapSeq) /\ ld[l].i + 1 >= 1
        /\ ld[l].i - 1 \in 0..Len(MapSeq)
    BY <1>1, <1>3, <2>1 DEF Active
  <2>5. Onward(l)
    BY <1>9, <2>1, <2>3, <2>4 DEF Onward
  <2> QED
    BY <1>2, <1>8, <2>1, <2>2, <2>5
<1>18. CASE Rollback(l)
  <2>1. ld[l].pc = "rollback" /\ UNCHANGED <<link, progMaps, entries, runs, wr>>
    BY <1>18 DEF Rollback
  <2>2. pins' \in [PinNames -> MapIds]
    BY <1>2, <1>18 DEF Rollback
  <2>3. \/ \E how : Exit(l, how)
        \/ ld[l].i # 0 /\ Goto(l, "rollback", ld[l].i - 1)
    BY <1>18 DEF Rollback
  <2>4. ld[l].i # 0 => ld[l].i - 1 \in 0..Len(MapSeq)
    BY <1>1, <1>3
  <2>5. Onward(l)
    BY <1>9, <2>1, <2>3, <2>4 DEF Onward
  <2> QED
    BY <1>2, <1>8, <2>1, <2>2, <2>5
<1>19. CASE xdp_link_detach(l)
  <2>1. /\ ld[l].pc = "unload" /\ UNCHANGED <<pins, progMaps, entries, runs, wr>>
        /\ Exit(l, "ok") /\ link' \in {Bare, link}
    BY <1>19 DEF xdp_link_detach
  <2>3. Onward(l)
    BY <2>1 DEF Onward
  <2> QED
    BY <1>2, <1>8, <1>10, <2>1, <2>3
<1>20. CASE Crash(l)
  <2>1. /\ ld[l].pc # "idle" /\ UNCHANGED <<link, pins, progMaps, entries, runs, wr>>
        /\ Exit(l, "crash")
    BY <1>20 DEF Crash, kvars
  <2>3. Onward(l)
    BY <2>1 DEF Onward
  <2> QED
    BY <1>2, <1>8, <2>1, <2>3
<1> QED
  BY <1>5, <1>6, <1>7, <1>12, <1>13, <1>14, <1>15, <1>16, <1>17, <1>18, <1>19, <1>20 DEF Proceed

LEMMA LoaderInitHolds ==
  ASSUME LoaderAssumption, LoaderInit
  PROVE  LInv
<1> USE Names
<1>1. Idle \in LdType /\ Idle.pc = "idle"
  BY DEF Idle, LdType, PCs
<1>2. LType
  BY <1>1 DEF LoaderInit, LType, LoaderTypeOK, MapIds, Bare, LdType, LoaderAssumption
<1>3. LinkFull
  BY DEF LoaderInit, LinkFull, Bare
<1>4. \A l \in Loaders : Active(l) /\ HasMaps(l)
  BY <1>1 DEF LoaderInit, Active, HasMaps
<1> QED
  BY <1>2, <1>3, <1>4 DEF LInv

LEMMA WriterKeeps ==
  ASSUME LoaderAssumption, LInv, OpenPinned \/ WriteEntry \/ WriterEnds
  PROVE  LInv'
<1>1. UNCHANGED <<link, pins, progMaps, runs, ld>>
  BY DEF OpenPinned, WriteEntry, WriterEnds, kvars
<1>2. LType
  BY DEF LInv
<1>3. /\ wr' \in [pc : {"idle", "open", "done"}, map : MapIds] /\ (wr'.pc = "open" => wr'.map # NoMap)
      /\ entries' \in [Runs -> SUBSET WriterRoutes]
  <2>1. CASE OpenPinned
    <3>1. REDIRECT \in PinNames /\ wr' = [pc |-> "open", map |-> pins[REDIRECT]] /\ pins[REDIRECT] # NoMap
          /\ entries' = entries
      BY <2>1, Names DEF OpenPinned, kvars
    <3> QED
      BY <1>2, <3>1 DEF LType, LoaderTypeOK
  <2>2. CASE WriteEntry
    <3>1. PICK r \in WriterRoutes : entries' = [entries EXCEPT ![wr.map[1]] = @ \cup {r}]
      BY <2>2 DEF WriteEntry
    <3>2. entries \in [Runs -> SUBSET WriterRoutes]
      BY <1>2 DEF LType, LoaderTypeOK
    <3>3. entries' \in [Runs -> SUBSET WriterRoutes]
      BY <3>1, <3>2
    <3> QED
      BY <1>2, <2>2, <3>3 DEF LType, LoaderTypeOK, WriteEntry
  <2>3. CASE WriterEnds
    BY <1>2, <2>3 DEF LType, LoaderTypeOK, WriterEnds, kvars
  <2> QED
    BY <2>1, <2>2, <2>3
<1>4. LType'
  BY <1>1, <1>2, <1>3 DEF LType, LoaderTypeOK
<1> QED
  BY <1>1, <1>4 DEF LInv, LinkFull, Active, HasMaps, Full

LEMMA LoaderStepKeeps ==
  ASSUME LoaderAssumption, LInv, [LoaderNext]_lvars
  PROVE  LInv'
<1>1. CASE UNCHANGED lvars
  BY <1>1 DEF lvars, kvars, LInv, LType, LoaderTypeOK, LinkFull, Active, HasMaps, Full
<1>2. CASE LoaderNext
  BY <1>2, LoadKeeps, WriterKeeps DEF LoaderNext
<1> QED
  BY <1>1, <1>2

-----------------------------------------------------------------------------
(***************************************************************************)
(* The reader.  A reading adds up counters of one CPU after the other      *)
(* while they grow, so that it is compared with the sums over the first    *)
(* CPUs: prefix sums that exist in the first state and follow every        *)
(* increment.                                                              *)
(***************************************************************************)
N == Cardinality(Cpus)

PrefixOf(P, v) ==
  P \in [0..N -> Nat] /\ P[0] = 0 /\ \A c \in Cpus : P[c] = P[c - 1] + v[c]

Pkts(r)  == [c \in Cpus |-> count[r][c].pkts]
Bytes(r) == [c \in Cpus |-> count[r][c].bytes]

(* At pc, with k CPUs read: what was read is at most what those CPUs have, *)
(* and the reading before it at most that and what the others have.  This  *)
(* is said of the readings that come from a map (sm, pm, rm).              *)
Held(pc, P, k, sum, prev, rec, sm, pm, rm) ==
  /\ pc \in {"first", "collect"} /\ sm # NoMap => sum <= P[k]
  /\ pc = "collect" /\ sm # NoMap /\ pm # NoMap => prev <= sum + (P[N] - P[k])
  /\ pc = "reopen" /\ rm # NoMap => rec <= P[N]

PktsHeld(z, P) ==
  Held(z.pc, P, z.next \div 2, z.sum.pkts, z.prev.pkts, z.rec.pkts,
       z.sum.map, z.prev.map, z.rec.map)
BytesHeld(z, P) ==
  Held(z.pc, P, (z.next - 1) \div 2, z.sum.bytes, z.prev.bytes, z.rec.bytes,
       z.sum.map, z.prev.map, z.rec.map)

Sums(r) ==
  /\ \E P : PrefixOf(P, Pkts(r)) /\ (rd.map[1] = r => PktsHeld(rd, P))
  /\ \E P : PrefixOf(P, Bytes(r)) /\
       (rd.map[1] = r => BytesHeld(rd, P))

Reading == [map : MapIds, pkts : Nat, bytes : Nat]

StatsType ==
  /\ count \in [Runs -> [Cpus -> [pkts : Nat, bytes : Nat]]]
  /\ half \in [Cpus -> MapIds]
  /\ rd \in [pc : {"open", "failed", "first", "reopen", "collect"}, map : MapIds,
             fd : MapIds, seen : BOOLEAN, prev : Reading, rec : Reading, sum : Reading, next : 1..(Words + 1)]
  /\ printed \in Reading \X Reading

(* The readings that are compared are of the map that is open. *)
OneMap ==
  /\ rd.pc \in {"first", "reopen", "collect"} => rd.map # NoMap
  /\ rd.pc \in {"first", "collect"} =>
       /\ rd.fd \in {rd.map, NoMap} /\ rd.sum.map \in {rd.map, NoMap}
       /\ rd.next <= Words => rd.sum.map = rd.map
  /\ rd.pc = "collect" => rd.prev.map \in {rd.map, NoMap}
  /\ rd.pc = "reopen" => rd.rec.map \in {rd.map, NoMap}

SInv == LInv /\ StatsType /\ OneMap /\ (\A r \in Runs : Sums(r)) /\ RatesOfOneMap

LEMMA CpusAre ==
  ASSUME StatsAssumption
  PROVE  N \in Nat /\ Cpus = 1..N /\ Words = 2 * N /\ PktBytes \in Nat
<1>1. N \in Nat
  BY FS_CardinalityType DEF StatsAssumption, N
<1> QED
  BY <1>1 DEF StatsAssumption, N, Words

(* A counter that grows has prefix sums again, no smaller, and no less is  *)
(* left behind any CPU.                                                    *)
LEMMA PrefixGrows ==
  ASSUME StatsAssumption, NEW v \in [Cpus -> Nat], NEW P, PrefixOf(P, v),
         NEW c \in Cpus, NEW d \in Nat, NEW w, w = [v EXCEPT ![c] = @ + d]
  PROVE  \E Q : /\ PrefixOf(Q, w)
                /\ \A k \in 0..N : P[k] <= Q[k] /\ P[N] - P[k] <= Q[N] - Q[k]
<1>1. N \in Nat /\ Cpus = 1..N
  BY CpusAre
<1>2. P \in [0..N -> Nat] /\ P[0] = 0 /\ \A k \in Cpus : P[k] = P[k - 1] + v[k]
  BY DEF PrefixOf
<1> DEFINE Q == [k \in 0..N |-> IF k >= c THEN P[k] + d ELSE P[k]]
<1>3. Q \in [0..N -> Nat] /\ Q[0] = 0
  BY SMTT(30), <1>1, <1>2
<1>4. ASSUME NEW k \in Cpus PROVE Q[k] = Q[k - 1] + w[k]
  <2>1. k \in 0..N /\ k - 1 \in 0..N /\ P[k] = P[k - 1] + v[k] /\ P[k - 1] \in Nat /\ v[k] \in Nat
        /\ c \in Int
    BY <1>1, <1>2
  <2>2. w[k] = IF k = c THEN v[k] + d ELSE v[k]
    OBVIOUS
  <2> QED
    BY <2>1, <2>2
<1>5. ASSUME NEW k \in 0..N PROVE P[k] <= Q[k] /\ P[N] - P[k] <= Q[N] - Q[k]
  <2>1. P[k] \in Nat /\ P[N] \in Nat /\ N >= c /\ c \in Int /\ N \in 0..N
    BY <1>1, <1>2
  <2> QED
    BY <2>1
<1>6. PrefixOf(Q, w)
  BY <1>3, <1>4 DEF PrefixOf
<1> HIDE DEF Q
<1> QED
  BY <1>5, <1>6

LEMMA HeldGrows ==
  ASSUME NEW P \in [0..N -> Nat], NEW Q \in [0..N -> Nat], N \in Nat, NEW pc, NEW k \in 0..N,
         NEW sum \in Nat, NEW prev \in Nat, NEW rec \in Nat, NEW sm, NEW pm, NEW rm,
         Held(pc, P, k, sum, prev, rec, sm, pm, rm),
         \A j \in 0..N : P[j] <= Q[j] /\ P[N] - P[j] <= Q[N] - Q[j]
  PROVE  Held(pc, Q, k, sum, prev, rec, sm, pm, rm)
<1>1. P[k] <= Q[k] /\ P[N] - P[k] <= Q[N] - Q[k] /\ P[N] <= Q[N]
      /\ P[k] \in Nat /\ Q[k] \in Nat /\ P[N] \in Nat /\ Q[N] \in Nat
  OBVIOUS
<1> QED
  BY <1>1 DEF Held

(* One CPU adds to one of its counters. *)
LEMMA CountingKeeps ==
  ASSUME LoaderAssumption, StatsAssumption, SInv, NEW c \in Cpus, NEW r0 \in Runs,
         NEW a \in Nat, NEW b \in Nat,
         count' = [count EXCEPT ![r0][c] = [pkts |-> @.pkts + a, bytes |-> @.bytes + b]],
         half' \in [Cpus -> MapIds], UNCHANGED <<lvars, rd, printed>>
  PROVE  SInv'
<1>1. N \in Nat /\ Cpus = 1..N /\ Words = 2 * N
  BY CpusAre
<1>2. StatsType /\ LInv
  BY DEF SInv
<1>3. count' \in [Runs -> [Cpus -> [pkts : Nat, bytes : Nat]]]
  BY <1>2 DEF StatsType
<1>4. LInv'
  BY <1>2 DEF lvars, kvars, LInv, LType, LoaderTypeOK, LinkFull, Active, HasMaps, Full
<1>5. StatsType' /\ OneMap' /\ RatesOfOneMap'
  BY <1>2, <1>3 DEF SInv, StatsType, OneMap, RatesOfOneMap
<1>6. \A r \in Runs : Pkts(r) \in [Cpus -> Nat] /\ Bytes(r) \in [Cpus -> Nat]
  BY <1>2 DEF StatsType, Pkts, Bytes
<1>7. /\ rd.next \div 2 \in 0..N /\ (rd.next - 1) \div 2 \in 0..N
      /\ rd.sum.pkts \in Nat /\ rd.prev.pkts \in Nat /\ rd.rec.pkts \in Nat
      /\ rd.sum.bytes \in Nat /\ rd.prev.bytes \in Nat /\ rd.rec.bytes \in Nat
  <2>1. rd.next \in 1..(2 * N + 1)
    BY <1>1, <1>2 DEF StatsType
  <2>2. rd.next \div 2 \in 0..N /\ (rd.next - 1) \div 2 \in 0..N
    BY <1>1, <2>1
  <2> QED
    BY <1>2, <2>2 DEF StatsType, Reading
<1>8. ASSUME NEW r \in Runs PROVE Sums(r)'
  <2>1. Sums(r)
    BY DEF SInv
  <2>2. CASE r # r0
    <3>1. Pkts(r)' = Pkts(r) /\ Bytes(r)' = Bytes(r)
      BY <1>2, <2>2 DEF Pkts, Bytes, StatsType
    <3> QED
      BY <2>1, <3>1 DEF Sums
  <2>3. CASE r = r0
    <3>1. Pkts(r)' = [Pkts(r) EXCEPT ![c] = @ + a] /\ Bytes(r)' = [Bytes(r) EXCEPT ![c] = @ + b]
      BY <1>2, <2>3 DEF Pkts, Bytes, StatsType
    <3>2. PICK P : PrefixOf(P, Pkts(r)) /\ (rd.map[1] = r => PktsHeld(rd, P))
      BY <2>1 DEF Sums
    <3>3. PICK Q : PrefixOf(Q, Pkts(r)') /\ \A k \in 0..N : P[k] <= Q[k] /\ P[N] - P[k] <= Q[N] - Q[k]
      <4>1. PICK v : v = Pkts(r)
        OBVIOUS
      <4>2. PICK w : w = Pkts(r)'
        OBVIOUS
      <4>3. v \in [Cpus -> Nat] /\ w = [v EXCEPT ![c] = @ + a] /\ PrefixOf(P, v)
        BY <1>6, <3>1, <3>2, <4>1, <4>2
      <4>4. \E Q : PrefixOf(Q, w) /\ \A k \in 0..N : P[k] <= Q[k] /\ P[N] - P[k] <= Q[N] - Q[k]
        BY <4>3, PrefixGrows
      <4> QED
        BY <4>2, <4>4
    <3>4. PICK R : PrefixOf(R, Bytes(r)) /\ (rd.map[1] = r => BytesHeld(rd, R))
      BY <2>1 DEF Sums
    <3>5. PICK S : PrefixOf(S, Bytes(r)') /\ \A k \in 0..N : R[k] <= S[k] /\ R[N] - R[k] <= S[N] - S[k]
      <4>1. PICK v : v = Bytes(r)
        OBVIOUS
      <4>2. PICK w : w = Bytes(r)'
        OBVIOUS
      <4>3. v \in [Cpus -> Nat] /\ w = [v EXCEPT ![c] = @ + b] /\ PrefixOf(R, v)
        BY <1>6, <3>1, <3>4, <4>1, <4>2
      <4>4. \E S : PrefixOf(S, w) /\ \A k \in 0..N : R[k] <= S[k] /\ R[N] - R[k] <= S[N] - S[k]
        BY <4>3, PrefixGrows
      <4> QED
        BY <4>2, <4>4
    <3>6. P \in [0..N -> Nat] /\ Q \in [0..N -> Nat] /\ R \in [0..N -> Nat] /\ S \in [0..N -> Nat]
      BY <3>2, <3>3, <3>4, <3>5 DEF PrefixOf
    <3>7. rd.map[1] = r => PktsHeld(rd, Q)
      BY <1>1, <1>7, <3>2, <3>3, <3>6, HeldGrows DEF PktsHeld
    <3>8. rd.map[1] = r => BytesHeld(rd, S)
      BY <1>1, <1>7, <3>4, <3>5, <3>6, HeldGrows DEF BytesHeld
    <3> QED
      BY <3>3, <3>5, <3>7, <3>8 DEF Sums
  <2> QED
    BY <2>2, <2>3
<1> QED
  BY <1>4, <1>5, <1>8 DEF SInv

(* From one state of the reader to the next the bounds are kept. *)
Follows(x, y) ==
  \A r \in Runs : y.map[1] = r =>
    /\ \A P : PrefixOf(P, Pkts(r))
         /\ (x.map[1] = r => PktsHeld(x, P))
         => PktsHeld(y, P)
    /\ \A P : PrefixOf(P, Bytes(r))
         /\ (x.map[1] = r => BytesHeld(x, P))
         => BytesHeld(y, P)

ReaderType ==
  [pc : {"open", "failed", "first", "reopen", "collect"}, map : MapIds,
   fd : MapIds, seen : BOOLEAN, prev : Reading, rec : Reading, sum : Reading, next : 1..(Words + 1)]

OfOneMap(y) ==
  /\ y.pc \in {"first", "reopen", "collect"} => y.map # NoMap
  /\ y.pc \in {"first", "collect"} =>
       /\ y.fd \in {y.map, NoMap} /\ y.sum.map \in {y.map, NoMap}
       /\ y.next <= Words => y.sum.map = y.map
  /\ y.pc = "collect" => y.prev.map \in {y.map, NoMap}
  /\ y.pc = "reopen" => y.rec.map \in {y.map, NoMap}

(* A step of the reader leaves the counters alone. *)
LEMMA ReadingKeeps ==
  ASSUME SInv, UNCHANGED <<lvars, count, half>>,
         NEW x, NEW y, x = rd, y = rd', y \in ReaderType, OfOneMap(y), Follows(x, y),
         printed' \in Reading \X Reading, RatesOfOneMap'
  PROVE  SInv'
<1>1. LInv'
  BY DEF SInv, lvars, kvars, LInv, LType, LoaderTypeOK, LinkFull, Active, HasMaps, Full
<1>2. StatsType'
  BY DEF SInv, StatsType, ReaderType
<1>3. OneMap'
  BY DEF OneMap, OfOneMap
<1>4. ASSUME NEW r \in Runs PROVE Sums(r)'
  <2>1. Pkts(r)' = Pkts(r) /\ Bytes(r)' = Bytes(r)
    BY DEF Pkts, Bytes
  <2>2. Sums(r)
    BY DEF SInv
  <2>4. PICK P : PrefixOf(P, Pkts(r))
                /\ (x.map[1] = r => PktsHeld(x, P))
    BY <2>2 DEF Sums
  <2>5. PICK Q : PrefixOf(Q, Bytes(r))
                /\ (x.map[1] = r => BytesHeld(x, Q))
    BY <2>2 DEF Sums
  <2>6. y.map[1] = r => PktsHeld(y, P)
    BY <2>4 DEF Follows
  <2>7. y.map[1] = r => BytesHeld(y, Q)
    BY <2>5 DEF Follows
  <2> QED
    BY <2>1, <2>4, <2>5, <2>6, <2>7 DEF Sums
<1> QED
  BY <1>1, <1>2, <1>3, <1>4 DEF SInv

LEMMA ReadWordKeeps ==
  ASSUME StatsAssumption, SInv, ReadWord
  PROVE  SInv'
<1>1. N \in Nat /\ Cpus = 1..N /\ Words = 2 * N
  BY CpusAre
<1>2. StatsType /\ OneMap /\ RatesOfOneMap
  BY DEF SInv
<1>3. PICK x : x = rd
  OBVIOUS
<1>4. /\ x \in ReaderType
      /\ x.pc \in {"first", "collect"} /\ x.next <= Words /\ x.map # NoMap /\ x.sum.map = x.map
      /\ x.fd = x.map /\ UNCHANGED <<lvars, count, half, printed>>
  BY <1>2, <1>3 DEF ReadWord, StatsType, OneMap, ReaderType
<1>a. PICK c : c = (x.next + 1) \div 2
  OBVIOUS
<1>b. PICK r : r = x.map[1]
  OBVIOUS
<1>5. r \in Runs /\ x.map \in Runs \X PinNames
  BY <1>4, <1>b DEF MapIds, ReaderType
<1>6. /\ c \in 1..N /\ x.next + 1 \in 1..(Words + 1)
      /\ x.next % 2 = 1 => /\ (x.next + 1) \div 2 = c /\ x.next \div 2 = c - 1
                           /\ (x.next - 1) \div 2 = c - 1
      /\ x.next % 2 # 1 => /\ (x.next + 1) \div 2 = c /\ x.next \div 2 = c
                           /\ (x.next - 1) \div 2 = c - 1
      /\ (x.next + 1 - 1) \div 2 = x.next \div 2
  <2>1. x.next \in 1..(2 * N)
    BY <1>1, <1>4 DEF ReaderType
  <2>2. PICK n : n = x.next
    OBVIOUS
  <2>3. n \in 1..(2 * N) /\ N \in Nat
    BY <1>1, <2>1, <2>2
  <2>4. /\ (n + 1) \div 2 \in 1..N /\ n + 1 \in 1..(2 * N + 1)
        /\ n % 2 = 1 => n \div 2 = (n + 1) \div 2 - 1 /\ (n - 1) \div 2 = (n + 1) \div 2 - 1
        /\ n % 2 # 1 => n \div 2 = (n + 1) \div 2 /\ (n - 1) \div 2 = (n + 1) \div 2 - 1
        /\ n + 1 - 1 = n
    BY <2>3
  <2> QED
    BY <1>1, <1>a, <2>2, <2>4
<1>7. count[r][c] \in [pkts : Nat, bytes : Nat] /\ count[r][c].pkts \in Nat /\ count[r][c].bytes \in Nat
  BY ZenonT(40), <1>1, <1>2, <1>5, <1>6 DEF StatsType
<1>8. ASSUME NEW P, PrefixOf(P, Pkts(r))
      PROVE  P[c] = P[c - 1] + count[r][c].pkts /\ P[c] \in Nat /\ P[c - 1] \in Nat /\ P[N] \in Nat
  <2>1. P \in [0..N -> Nat] /\ P[c] = P[c - 1] + Pkts(r)[c] /\ Pkts(r)[c] = count[r][c].pkts
    BY <1>1, <1>6, <1>8 DEF PrefixOf, Pkts
  <2>2. c \in 0..N /\ c - 1 \in 0..N /\ N \in 0..N
    BY <1>1, <1>6
  <2> QED
    BY <2>1, <2>2
<1>9. ASSUME NEW P, PrefixOf(P, Bytes(r))
      PROVE  P[c] = P[c - 1] + count[r][c].bytes /\ P[c] \in Nat /\ P[c - 1] \in Nat /\ P[N] \in Nat
  <2>1. P \in [0..N -> Nat] /\ P[c] = P[c - 1] + Bytes(r)[c] /\ Bytes(r)[c] = count[r][c].bytes
    BY <1>1, <1>6, <1>9 DEF PrefixOf, Bytes
  <2>2. c \in 0..N /\ c - 1 \in 0..N /\ N \in 0..N
    BY <1>1, <1>6
  <2> QED
    BY <2>1, <2>2
<1>10. printed' \in Reading \X Reading /\ RatesOfOneMap'
  BY <1>2, <1>4 DEF StatsType, RatesOfOneMap
<1>11. /\ x.sum = [map |-> x.map, pkts |-> x.sum.pkts, bytes |-> x.sum.bytes]
       /\ x.sum.pkts \in Nat /\ x.sum.bytes \in Nat /\ x.prev.pkts \in Nat /\ x.prev.bytes \in Nat
       /\ x.prev \in Reading /\ x.rec \in Reading
  BY <1>4 DEF Reading, ReaderType
<1>12. x.pc = "collect" => x.prev.map \in {x.map, NoMap}
  BY <1>2, <1>3 DEF OneMap
<1>13. CASE x.next % 2 = 1
  <2> DEFINE s == [map |-> x.map, pkts |-> x.sum.pkts + count[r][c].pkts, bytes |-> x.sum.bytes]
  <2>1. rd' = [pc |-> x.pc, map |-> x.map, fd |-> x.fd, seen |-> x.seen, prev |-> x.prev, rec |-> x.rec,
               sum |-> s, next |-> x.next + 1]
    BY <1>3, <1>4, <1>a, <1>b, <1>11, <1>13 DEF ReadWord, ReaderType
  <2>2. s \in Reading /\ s.map = x.map /\ s.pkts = x.sum.pkts + count[r][c].pkts /\ s.bytes = x.sum.bytes
    BY <1>4, <1>7, <1>11 DEF Reading, ReaderType
  <2>3. ASSUME NEW P, PrefixOf(P, Pkts(r)), PktsHeld(x, P)
        PROVE  Held(x.pc, P, (x.next + 1) \div 2, s.pkts, x.prev.pkts, x.rec.pkts,
                    x.sum.map, x.prev.map, x.rec.map)
    BY <1>4, <1>6, <1>7, <1>8, <1>11, <1>13, <2>2, <2>3 DEF PktsHeld, Held
  <2>4. ASSUME NEW P, PrefixOf(P, Bytes(r)), BytesHeld(x, P)
        PROVE  Held(x.pc, P, x.next \div 2, s.bytes, x.prev.bytes, x.rec.bytes,
                    x.sum.map, x.prev.map, x.rec.map)
    BY <1>6, <1>13, <2>2, <2>4 DEF BytesHeld
  <2> HIDE DEF s
  <2>5. PICK y : y = rd'
    OBVIOUS
  <2>6. /\ y.pc = x.pc /\ y.map = x.map /\ y.fd = x.fd /\ y.prev = x.prev /\ y.rec = x.rec /\ y.sum = s
        /\ y.next = x.next + 1 /\ y \in ReaderType
    BY <1>4, <1>6, <1>11, <2>1, <2>2, <2>5 DEF ReaderType
  <2>7. OfOneMap(y)
    BY <1>4, <1>12, <2>2, <2>6 DEF OfOneMap
  <2>8. Follows(x, y)
    <3> SUFFICES ASSUME NEW t \in Runs, y.map[1] = t, NEW P
                 PROVE  /\ PrefixOf(P, Pkts(t))
                           /\ (x.map[1] = t => PktsHeld(x, P))
                           => PktsHeld(y, P)
                        /\ PrefixOf(P, Bytes(t))
                           /\ (x.map[1] = t => BytesHeld(x, P))
                           => BytesHeld(y, P)
      BY DEF Follows
    <3>1. t = r /\ x.map[1] = t
      BY <1>b, <2>6
    <3>2. ASSUME PrefixOf(P, Pkts(r)), PktsHeld(x, P)
          PROVE  PktsHeld(y, P)
      BY <1>4, <2>2, <2>3, <2>6, <3>2 DEF PktsHeld
    <3>3. ASSUME PrefixOf(P, Bytes(r)), BytesHeld(x, P)
          PROVE  BytesHeld(y, P)
      <4>1. (y.next - 1) \div 2 = x.next \div 2
        <5>1. x.next \in Int
          BY <1>1, <1>4 DEF ReaderType
        <5>2. y.next - 1 = x.next
          BY <2>6, <5>1
        <5> QED
          BY <5>2
      <4>2. Held(x.pc, P, x.next \div 2, s.bytes, x.prev.bytes, x.rec.bytes,
                 x.sum.map, x.prev.map, x.rec.map)
        BY <2>4, <3>3
      <4> QED
        BY <1>4, <2>2, <2>6, <4>1, <4>2 DEF BytesHeld
    <3> QED
      BY <3>1, <3>2, <3>3
  <2> QED
    BY <1>3, <1>4, <1>10, <2>5, <2>6, <2>7, <2>8, ReadingKeeps
<1>14. CASE x.next % 2 # 1
  <2> DEFINE s == [map |-> x.map, pkts |-> x.sum.pkts, bytes |-> x.sum.bytes + count[r][c].bytes]
  <2>1. rd' = [pc |-> x.pc, map |-> x.map, fd |-> x.fd, seen |-> x.seen, prev |-> x.prev, rec |-> x.rec,
               sum |-> s, next |-> x.next + 1]
    BY <1>3, <1>4, <1>a, <1>b, <1>11, <1>14 DEF ReadWord, ReaderType
  <2>2. s \in Reading /\ s.map = x.map /\ s.bytes = x.sum.bytes + count[r][c].bytes /\ s.pkts = x.sum.pkts
    BY <1>4, <1>7, <1>11 DEF Reading, ReaderType
  <2>3. ASSUME NEW P, PrefixOf(P, Pkts(r)), PktsHeld(x, P)
        PROVE  Held(x.pc, P, (x.next + 1) \div 2, s.pkts, x.prev.pkts, x.rec.pkts,
                    x.sum.map, x.prev.map, x.rec.map)
    BY <1>6, <1>14, <2>2, <2>3 DEF PktsHeld
  <2>4. ASSUME NEW P, PrefixOf(P, Bytes(r)), BytesHeld(x, P)
        PROVE  Held(x.pc, P, x.next \div 2, s.bytes, x.prev.bytes, x.rec.bytes,
                    x.sum.map, x.prev.map, x.rec.map)
    BY <1>4, <1>6, <1>7, <1>9, <1>11, <1>14, <2>2, <2>4 DEF BytesHeld, Held
  <2> HIDE DEF s
  <2>5. PICK y : y = rd'
    OBVIOUS
  <2>6. /\ y.pc = x.pc /\ y.map = x.map /\ y.fd = x.fd /\ y.prev = x.prev /\ y.rec = x.rec /\ y.sum = s
        /\ y.next = x.next + 1 /\ y \in ReaderType
    BY <1>4, <1>6, <1>11, <2>1, <2>2, <2>5 DEF ReaderType
  <2>7. OfOneMap(y)
    BY <1>4, <1>12, <2>2, <2>6 DEF OfOneMap
  <2>8. Follows(x, y)
    <3> SUFFICES ASSUME NEW t \in Runs, y.map[1] = t, NEW P
                 PROVE  /\ PrefixOf(P, Pkts(t))
                           /\ (x.map[1] = t => PktsHeld(x, P))
                           => PktsHeld(y, P)
                        /\ PrefixOf(P, Bytes(t))
                           /\ (x.map[1] = t => BytesHeld(x, P))
                           => BytesHeld(y, P)
      BY DEF Follows
    <3>1. t = r /\ x.map[1] = t
      BY <1>b, <2>6
    <3>2. ASSUME PrefixOf(P, Pkts(r)), PktsHeld(x, P)
          PROVE  PktsHeld(y, P)
      BY <1>4, <2>2, <2>3, <2>6, <3>2 DEF PktsHeld
    <3>3. ASSUME PrefixOf(P, Bytes(r)), BytesHeld(x, P)
          PROVE  BytesHeld(y, P)
      <4>1. (y.next - 1) \div 2 = x.next \div 2
        <5>1. x.next \in Int
          BY <1>1, <1>4 DEF ReaderType
        <5>2. y.next - 1 = x.next
          BY <2>6, <5>1
        <5> QED
          BY <5>2
      <4>2. Held(x.pc, P, x.next \div 2, s.bytes, x.prev.bytes, x.rec.bytes,
                 x.sum.map, x.prev.map, x.rec.map)
        BY <2>4, <3>3
      <4> QED
        BY <1>4, <2>2, <2>6, <4>1, <4>2 DEF BytesHeld
    <3> QED
      BY <3>1, <3>2, <3>3
  <2> QED
    BY <1>3, <1>4, <1>10, <2>5, <2>6, <2>7, <2>8, ReadingKeeps
<1> QED
  BY <1>13, <1>14

LEMMA ReaderIs ==
  ASSUME StatsAssumption, SInv, NEW x, x = rd
  PROVE  /\ x \in ReaderType /\ OfOneMap(x) /\ printed \in Reading \X Reading /\ RatesOfOneMap
         /\ N \in Nat /\ Cpus = 1..N /\ Words = 2 * N /\ 1 \in 1..(Words + 1)
         /\ x.sum.pkts \in Nat /\ x.sum.bytes \in Nat /\ x.prev.pkts \in Nat /\ x.prev.bytes \in Nat
         /\ x.rec.pkts \in Nat /\ x.rec.bytes \in Nat
         /\ Blank \in Reading
         /\ (x.next > Words => x.next \div 2 = N /\ (x.next - 1) \div 2 = N)
<1>1. N \in Nat /\ Cpus = 1..N /\ Words = 2 * N
  BY CpusAre
<1>2. x \in ReaderType /\ printed \in Reading \X Reading /\ RatesOfOneMap
  BY DEF SInv, StatsType, ReaderType
<1>3. OfOneMap(x)
  BY DEF SInv, OneMap, OfOneMap
<1>4. /\ x.sum.pkts \in Nat /\ x.sum.bytes \in Nat /\ x.prev.pkts \in Nat /\ x.prev.bytes \in Nat
      /\ x.rec.pkts \in Nat /\ x.rec.bytes \in Nat
  BY <1>2 DEF ReaderType, Reading
<1>5. Blank \in Reading
  BY DEF Blank, Reading, MapIds
<1>7. x.next > Words => x.next \div 2 = N /\ (x.next - 1) \div 2 = N
  <2>1. x.next \in 1..(2 * N + 1)
    BY <1>1, <1>2 DEF ReaderType
  <2>2. PICK n : n = x.next
    OBVIOUS
  <2>3. n > 2 * N => n \div 2 = N /\ (n - 1) \div 2 = N
    BY <1>1, <2>1, <2>2
  <2> QED
    BY <1>1, <2>2, <2>3
<1> QED
  BY <1>1, <1>2, <1>3, <1>4, <1>5, <1>7

(* The reader stops, or goes back to open the file. *)
LEMMA StopsReading ==
  ASSUME StatsAssumption, SInv, UNCHANGED <<lvars, count, half, printed>>,
         NEW x, NEW y, x = rd, y = rd', NEW pc \in {"open", "failed"}, NEW m \in MapIds,
         y = NotReading(pc, m)
  PROVE  SInv'
<1>1. /\ printed \in Reading \X Reading /\ RatesOfOneMap /\ Blank \in Reading
      /\ 1 \in 1..(Words + 1)
  BY ReaderIs
<1>2. printed' \in Reading \X Reading /\ RatesOfOneMap'
  BY <1>1 DEF RatesOfOneMap
<1>3. y \in ReaderType /\ y.pc = pc
  BY <1>1 DEF ReaderType, NotReading, MapIds
<1>4. OfOneMap(y) /\ Follows(x, y)
  BY <1>3 DEF OfOneMap, Follows, PktsHeld, BytesHeld, Held
<1> QED
  BY <1>2, <1>3, <1>4, ReadingKeeps

(* The first reading of a map begins. *)
LEMMA BeginsFirst ==
  ASSUME StatsAssumption, SInv, UNCHANGED <<lvars, count, half, printed>>,
         NEW x, NEW y, x = rd, y = rd', NEW m \in MapIds, m # NoMap, NEW f \in {m, NoMap},
         y = [pc |-> "first", map |-> m, fd |-> f, seen |-> FALSE, prev |-> x.prev, rec |-> x.rec,
              sum |-> [map |-> m, pkts |-> 0, bytes |-> 0], next |-> 1]
  PROVE  SInv'
<1>1. /\ printed \in Reading \X Reading /\ RatesOfOneMap
      /\ 1 \in 1..(Words + 1) /\ x.prev \in Reading /\ x.rec \in Reading
  BY ReaderIs DEF ReaderType
<1>2. printed' \in Reading \X Reading /\ RatesOfOneMap'
  BY <1>1 DEF RatesOfOneMap
<1>3. f \in MapIds
  BY DEF MapIds
<1>4. /\ y.pc = "first" /\ y.map = m /\ y.fd = f /\ y.next = 1
      /\ y.sum = [map |-> m, pkts |-> 0, bytes |-> 0] /\ y \in ReaderType
  BY <1>1, <1>3 DEF ReaderType, Reading
<1>5. OfOneMap(y)
  BY <1>4 DEF OfOneMap
<1>6. y.next \div 2 = 0 /\ (y.next - 1) \div 2 = 0 /\ y.sum.pkts = 0 /\ y.sum.bytes = 0
  BY <1>4
<1>7. Follows(x, y)
  BY <1>4, <1>6 DEF Follows, PktsHeld, BytesHeld, Held, PrefixOf
<1> QED
  BY <1>2, <1>4, <1>5, <1>7, ReadingKeeps

(* A reading begins that is compared with the one before. *)
LEMMA BeginsCollect ==
  ASSUME StatsAssumption, SInv, UNCHANGED <<lvars, count, half, printed>>,
         NEW x, NEW y, x = rd, y = rd', x.pc = "reopen", NEW f \in {x.map, NoMap},
         NEW b \in BOOLEAN,
         y = [pc |-> "collect", map |-> x.map, fd |-> f, seen |-> b, prev |-> x.rec, rec |-> x.rec,
              sum |-> [map |-> x.map, pkts |-> 0, bytes |-> 0], next |-> 1]
  PROVE  SInv'
<1>1. /\ printed \in Reading \X Reading /\ RatesOfOneMap /\ OfOneMap(x) /\ x.map \in MapIds
      /\ 1 \in 1..(Words + 1) /\ N \in Nat /\ x.rec \in Reading
      /\ x.rec.pkts \in Nat /\ x.rec.bytes \in Nat
  BY ReaderIs DEF ReaderType
<1>2. printed' \in Reading \X Reading /\ RatesOfOneMap'
  BY <1>1 DEF RatesOfOneMap
<1>3. f \in MapIds
  BY <1>1 DEF MapIds
<1>4. /\ y.pc = "collect" /\ y.map = x.map /\ y.fd = f /\ y.next = 1 /\ y.prev = x.rec /\ y.rec = x.rec
      /\ y.sum = [map |-> x.map, pkts |-> 0, bytes |-> 0] /\ y \in ReaderType
  BY <1>1, <1>3 DEF ReaderType, Reading
<1>5. OfOneMap(y)
  BY <1>1, <1>4 DEF OfOneMap
<1>6. y.next \div 2 = 0 /\ (y.next - 1) \div 2 = 0 /\ y.sum.pkts = 0 /\ y.sum.bytes = 0
  BY <1>4
<1>7. ASSUME NEW P, NEW v, PrefixOf(P, v), NEW q \in Nat, q <= P[N]
      PROVE  0 <= P[0] /\ q <= 0 + (P[N] - P[0])
  <2>1. P[0] = 0 /\ P[N] \in Nat
    BY <1>1, <1>7 DEF PrefixOf
  <2> QED
    BY <1>7, <2>1
<1>8. \A P, v : PrefixOf(P, v) => 0 <= P[0]
  BY DEF PrefixOf
<1>9. Follows(x, y)
  BY <1>1, <1>4, <1>6, <1>7, <1>8 DEF Follows, PktsHeld, BytesHeld, Held
<1> QED
  BY <1>2, <1>4, <1>5, <1>9, ReadingKeeps

LEMMA OpeningKeeps ==
  ASSUME LoaderAssumption, StatsAssumption, SInv,
         OpenFails \/ OpenStats \/ OpenNoInfo \/ Reopen \/ ReopenNoInfo
  PROVE  SInv'
<1>1. PICK x : x = rd
  OBVIOUS
<1>2. PICK y : y = rd'
  OBVIOUS
<1>3. PICK m : m = pins[STATS]
  OBVIOUS
<1>4. x \in ReaderType /\ x.map \in MapIds /\ x.seen \in BOOLEAN
  BY <1>1, ReaderIs DEF ReaderType
<1>5. m \in MapIds
  BY <1>3, Names DEF SInv, LInv, LType, LoaderTypeOK
<1>6. UNCHANGED <<lvars, count, half, printed>>
  BY DEF OpenFails, OpenStats, OpenNoInfo, Reopen, ReopenNoInfo
<1>7. ASSUME NEW pc \in {"open", "failed"}, NEW n \in MapIds, y = NotReading(pc, n) PROVE SInv'
  BY <1>1, <1>2, <1>6, <1>7, StopsReading
<1>8. CASE OpenFails
  BY <1>1, <1>2, <1>4, <1>7, <1>8 DEF OpenFails
<1>9. CASE OpenStats
  <2>1. /\ m # NoMap
        /\ y = [pc |-> "first", map |-> m, fd |-> m, seen |-> FALSE, prev |-> x.prev, rec |-> x.rec,
                sum |-> [map |-> m, pkts |-> 0, bytes |-> 0], next |-> 1]
    BY <1>1, <1>2, <1>3, <1>4, <1>9 DEF OpenStats, Begin, ReaderType
  <2> QED
    BY <1>1, <1>2, <1>5, <1>6, <2>1, BeginsFirst
<1>10. CASE OpenNoInfo
  <2>1. CASE x.map = NoMap
    BY <1>1, <1>2, <1>4, <1>7, <1>10, <2>1 DEF OpenNoInfo
  <2>2. CASE x.map # NoMap
    <3>1. y = [pc |-> "first", map |-> x.map, fd |-> NoMap, seen |-> FALSE, prev |-> x.prev,
               rec |-> x.rec, sum |-> [map |-> x.map, pkts |-> 0, bytes |-> 0], next |-> 1]
      BY <1>1, <1>2, <1>4, <1>10, <2>2 DEF OpenNoInfo, Begin, ReaderType
    <3> QED
      BY <1>1, <1>2, <1>4, <1>6, <2>2, <3>1, BeginsFirst
  <2> QED
    BY <2>1, <2>2
<1>11. CASE Reopen
  <2>1. CASE m # x.map
    BY <1>1, <1>2, <1>3, <1>4, <1>7, <1>11, <2>1 DEF Reopen
  <2>2. CASE m = x.map
    <3>1. /\ x.pc = "reopen"
          /\ y = [pc |-> "collect", map |-> x.map, fd |-> x.map, seen |-> TRUE, prev |-> x.rec,
                  rec |-> x.rec, sum |-> [map |-> x.map, pkts |-> 0, bytes |-> 0], next |-> 1]
      BY <1>1, <1>2, <1>3, <1>4, <1>11, <2>2 DEF Reopen, Begin, ReaderType
    <3> QED
      BY <1>1, <1>2, <1>6, <3>1, BeginsCollect
  <2> QED
    BY <2>1, <2>2
<1>12. CASE ReopenNoInfo
  <2>1. CASE ~x.seen
    BY <1>1, <1>2, <1>4, <1>7, <1>12, <2>1 DEF ReopenNoInfo
  <2>2. CASE x.seen
    <3>1. /\ x.pc = "reopen"
          /\ y = [pc |-> "collect", map |-> x.map, fd |-> NoMap, seen |-> x.seen, prev |-> x.rec,
                  rec |-> x.rec, sum |-> [map |-> x.map, pkts |-> 0, bytes |-> 0], next |-> 1]
      BY <1>1, <1>2, <1>4, <1>12, <2>2 DEF ReopenNoInfo, Begin, ReaderType
    <3> QED
      BY <1>1, <1>2, <1>4, <1>6, <3>1, BeginsCollect
  <2> QED
    BY <2>1, <2>2
<1> QED
  BY <1>8, <1>9, <1>10, <1>11, <1>12

(* A reading that failed is compared with nothing. *)
LEMMA LookupFailsKeeps ==
  ASSUME StatsAssumption, SInv, LookupFails
  PROVE  SInv'
<1>1. PICK x : x = rd
  OBVIOUS
<1>2. PICK y : y = rd'
  OBVIOUS
<1>3. PICK p \in Leftovers, b \in Leftovers :
        y = [x EXCEPT !.next = Words + 1, !.sum = [map |-> NoMap, pkts |-> p, bytes |-> b]]
  BY <1>1, <1>2 DEF LookupFails
<1>4. /\ x \in ReaderType /\ printed \in Reading \X Reading /\ RatesOfOneMap /\ OfOneMap(x)
      /\ Words + 1 \in 1..(Words + 1) /\ ~(Words + 1 <= Words) /\ p \in Nat /\ b \in Nat
  BY <1>1, ReaderIs DEF StatsAssumption
<1>5. x.pc \in {"first", "collect"} /\ UNCHANGED <<lvars, count, half, printed>>
  BY <1>1 DEF LookupFails
<1>6. printed' \in Reading \X Reading /\ RatesOfOneMap'
  BY <1>4, <1>5 DEF RatesOfOneMap
<1>7. [map |-> NoMap, pkts |-> p, bytes |-> b] \in Reading
  BY <1>4 DEF Reading, MapIds
<1>8. /\ y \in ReaderType /\ y.pc = x.pc /\ y.map = x.map /\ y.fd = x.fd /\ y.prev = x.prev
      /\ y.next = Words + 1 /\ y.sum.map = NoMap
  BY <1>3, <1>4, <1>7 DEF ReaderType
<1>9. OfOneMap(y)
  BY <1>4, <1>5, <1>8 DEF OfOneMap
<1>10. Follows(x, y)
  BY <1>5, <1>8 DEF Follows, PktsHeld, BytesHeld, Held
<1> QED
  BY <1>1, <1>2, <1>5, <1>6, <1>8, <1>9, <1>10, ReadingKeeps

(* A reading is complete: what it holds is compared with all CPUs. *)
LEMMA ReadingEnds ==
  ASSUME StatsAssumption, SInv, NEW x, NEW y, x = rd,
         x.next > Words, x.pc \in {"first", "collect"},
         y.pc = "reopen", y.map = x.map, y.rec = x.sum
  PROVE  Follows(x, y)
<1>1. N \in Nat /\ x.next \div 2 = N /\ (x.next - 1) \div 2 = N
  BY ReaderIs
<1> QED
  BY <1>1 DEF Follows, PktsHeld, BytesHeld, Held

LEMMA FinishIs ==
  ASSUME StatsAssumption, SInv, NEW x, x = rd
  PROVE  LET y == Finish(x)
         IN  y \in ReaderType /\ y.pc = "reopen" /\ y.map = x.map /\ y.rec = x.sum
<1>1. x \in ReaderType /\ Blank \in Reading /\ 1 \in 1..(Words + 1) /\ NoMap \in MapIds
  BY ReaderIs DEF MapIds
<1> QED
  BY <1>1 DEF ReaderType, Finish

LEMMA FirstReadingKeeps ==
  ASSUME StatsAssumption, SInv, FirstReading
  PROVE  SInv'
<1>1. PICK x : x = rd
  OBVIOUS
<1>2. PICK y : y = rd'
  OBVIOUS
<1>3. x \in ReaderType /\ OfOneMap(x) /\ printed \in Reading \X Reading /\ RatesOfOneMap
      /\ Blank \in Reading
  BY <1>1, ReaderIs DEF Blank, Reading, MapIds
<1>4. /\ x.pc = "first" /\ x.next > Words /\ UNCHANGED <<lvars, count, half, printed>>
      /\ y = Finish(x)
  BY <1>1, <1>2 DEF FirstReading
<1>5. y \in ReaderType /\ y.pc = "reopen" /\ y.map = x.map /\ y.rec = x.sum
  BY <1>1, <1>4, FinishIs
<1>6. OfOneMap(y)
  BY <1>3, <1>4, <1>5 DEF OfOneMap
<1>7. Follows(x, y)
  BY <1>1, <1>4, <1>5, ReadingEnds
<1>8. printed' \in Reading \X Reading /\ RatesOfOneMap'
  BY <1>3, <1>4 DEF RatesOfOneMap
<1> QED
  BY <1>1, <1>2, <1>4, <1>5, <1>6, <1>7, <1>8, ReadingKeeps

LEMMA CollectKeeps ==
  ASSUME StatsAssumption, SInv, Collect
  PROVE  SInv'
<1>1. PICK x : x = rd
  OBVIOUS
<1>2. PICK y : y = rd'
  OBVIOUS
<1>3. /\ x \in ReaderType /\ OfOneMap(x) /\ printed \in Reading \X Reading /\ RatesOfOneMap
      /\ x.prev \in Reading /\ x.sum \in Reading /\ N \in Nat
      /\ x.sum.pkts \in Nat /\ x.sum.bytes \in Nat /\ x.prev.pkts \in Nat /\ x.prev.bytes \in Nat
      /\ (x.next > Words => x.next \div 2 = N /\ (x.next - 1) \div 2 = N)
  BY <1>1, ReaderIs DEF ReaderType
<1>4. /\ x.pc = "collect" /\ x.next > Words /\ UNCHANGED <<lvars, count, half>>
      /\ y = Finish(x)
      /\ printed' = <<x.prev, y.rec>>
  BY <1>1, <1>2 DEF Collect
<1>5. y \in ReaderType /\ y.pc = "reopen" /\ y.map = x.map /\ y.rec = x.sum
  BY <1>1, <1>4, FinishIs
<1>6. OfOneMap(y)
  BY <1>3, <1>4, <1>5 DEF OfOneMap
<1>7. Follows(x, y)
  BY <1>1, <1>4, <1>5, ReadingEnds
<1>8. x.prev.map # NoMap /\ x.sum.map # NoMap =>
        x.prev.map = x.sum.map /\ x.prev.pkts <= x.sum.pkts /\ x.prev.bytes <= x.sum.bytes
  <2> SUFFICES ASSUME x.prev.map # NoMap, x.sum.map # NoMap
               PROVE  x.prev.map = x.sum.map /\ x.prev.pkts <= x.sum.pkts /\ x.prev.bytes <= x.sum.bytes
    OBVIOUS
  <2>1. x.prev.map = x.sum.map /\ x.map \in Runs \X PinNames
    BY <1>3, <1>4 DEF OfOneMap, ReaderType, MapIds
  <2>2. x.map[1] \in Runs
    BY <2>1
  <2>3. Sums(x.map[1])
    BY <2>2 DEF SInv
  <2>4. PICK P : PrefixOf(P, Pkts(x.map[1])) /\ Held(x.pc, P, N, x.sum.pkts, x.prev.pkts, x.rec.pkts,
                                                       x.sum.map, x.prev.map, x.rec.map)
    BY <1>1, <1>3, <1>4, <2>3 DEF Sums, PktsHeld
  <2>5. PICK Q : PrefixOf(Q, Bytes(x.map[1])) /\ Held(x.pc, Q, N, x.sum.bytes, x.prev.bytes, x.rec.bytes,
                                                        x.sum.map, x.prev.map, x.rec.map)
    BY <1>1, <1>3, <1>4, <2>3 DEF Sums, BytesHeld
  <2>6. P[N] \in Nat /\ Q[N] \in Nat
    BY <1>3, <2>4, <2>5 DEF PrefixOf
  <2> QED
    BY <1>3, <1>4, <2>1, <2>4, <2>5, <2>6 DEF Held
<1>9. printed' \in Reading \X Reading
  BY <1>3, <1>4, <1>5
<1>10. RatesOfOneMap'
  BY <1>4, <1>5, <1>8 DEF RatesOfOneMap
<1> QED
  BY <1>1, <1>2, <1>4, <1>5, <1>6, <1>7, <1>9, <1>10, ReadingKeeps

LEMMA PacketKeeps ==
  ASSUME LoaderAssumption, StatsAssumption, SInv, NEW c \in Cpus, RecordPacket(c) \/ RecordBytes(c)
  PROVE  SInv'
<1>1. /\ count \in [Runs -> [Cpus -> [pkts : Nat, bytes : Nat]]] /\ half \in [Cpus -> MapIds]
      /\ PktBytes \in Nat /\ LInv
  BY CpusAre DEF SInv, StatsType
<1>2. \A r \in Runs : count[r] \in [Cpus -> [pkts : Nat, bytes : Nat]]
                      /\ count[r][c] \in [pkts : Nat, bytes : Nat]
  BY <1>1
<1>3. CASE RecordPacket(c)
  <2>1. link.prog # NoProg /\ UNCHANGED <<lvars, rd, printed>>
    BY <1>3 DEF RecordPacket
  <2>2. PICK r : r = progMaps[link.prog][STATS][1]
    OBVIOUS
  <2>3. r \in Runs /\ STATS \in PinNames
    <3>1. STATS \in PinNames /\ link.prog \in Runs
      BY <1>1, <2>1, Names DEF LInv, LType, LoaderTypeOK
    <3>2. progMaps[link.prog][STATS] \in MapIds /\ progMaps[link.prog][STATS] # NoMap
      BY <1>1, <2>1, <3>1 DEF LInv, LType, LoaderTypeOK, LinkFull, Full
    <3>3. progMaps[link.prog][STATS] \in Runs \X PinNames
      BY <3>2 DEF MapIds
    <3> QED
      BY <2>2, <3>1, <3>3
  <2>4. /\ count' = [count EXCEPT ![r][c].pkts = @ + 1]
        /\ half' = [half EXCEPT ![c] = Map(r, STATS)]
    BY <1>3, <2>2 DEF RecordPacket
  <2>5. half' \in [Cpus -> MapIds]
    BY <1>1, <2>3, <2>4 DEF Map, MapIds
  <2>6. count' = [count EXCEPT ![r][c] = [pkts |-> @.pkts + 1, bytes |-> @.bytes + 0]]
    <3>1. [count[r][c] EXCEPT !.pkts = @ + 1]
            = [pkts |-> count[r][c].pkts + 1, bytes |-> count[r][c].bytes + 0]
      BY <1>2, <2>3
    <3> QED
      BY <1>1, <1>2, <2>3, <2>4, <3>1
  <2> QED
    BY <2>1, <2>3, <2>5, <2>6, CountingKeeps
<1>4. CASE RecordBytes(c)
  <2>1. half[c] # NoMap /\ UNCHANGED <<lvars, rd, printed>>
    BY <1>4 DEF RecordBytes
  <2>2. PICK r : r = half[c][1]
    OBVIOUS
  <2>3. r \in Runs
    <3>1. half[c] \in Runs \X PinNames
      BY <1>1, <2>1 DEF MapIds
    <3> QED
      BY <2>2, <3>1
  <2>4. /\ count' = [count EXCEPT ![r][c].bytes = @ + PktBytes]
        /\ half' = [half EXCEPT ![c] = NoMap]
    BY <1>4, <2>2 DEF RecordBytes
  <2>5. half' \in [Cpus -> MapIds]
    BY <1>1, <2>4 DEF MapIds
  <2>6. count' = [count EXCEPT ![r][c] = [pkts |-> @.pkts + 0, bytes |-> @.bytes + PktBytes]]
    <3>1. [count[r][c] EXCEPT !.bytes = @ + PktBytes]
            = [pkts |-> count[r][c].pkts + 0, bytes |-> count[r][c].bytes + PktBytes]
      BY <1>1, <1>2, <2>3
    <3> QED
      BY <1>1, <1>2, <2>3, <2>4, <3>1
  <2> QED
    BY <1>1, <2>1, <2>3, <2>5, <2>6, CountingKeeps
<1> QED
  BY <1>3, <1>4

LEMMA StatsInitHolds ==
  ASSUME LoaderAssumption, StatsAssumption, StatsInit
  PROVE  SInv
<1>1. LInv
  BY LoaderInitHolds DEF StatsInit
<1>2. N \in Nat /\ Cpus = 1..N /\ Words = 2 * N
  BY CpusAre
<1>3. Blank \in Reading /\ 1 \in 1..(Words + 1) /\ NoMap \in MapIds
  BY <1>2 DEF Blank, Reading, MapIds
<1>4. StatsType
  BY <1>3 DEF StatsInit, StatsType, Zero, NotReading
<1>5. OneMap /\ RatesOfOneMap
  BY DEF StatsInit, OneMap, RatesOfOneMap, NotReading, Blank
<1>6. ASSUME NEW r \in Runs PROVE Sums(r)
  <2> DEFINE P == [k \in 0..N |-> 0]
  <2>1. P \in [0..N -> Nat] /\ \A k \in 0..N : P[k] = 0
    OBVIOUS
  <2>2. \A c \in Cpus : Pkts(r)[c] = 0 /\ Bytes(r)[c] = 0 /\ c - 1 \in 0..N /\ c \in 0..N
    BY <1>2 DEF StatsInit, Zero, Pkts, Bytes
  <2>3. 0 \in 0..N
    BY <1>2
  <2> HIDE DEF P
  <2>4. PrefixOf(P, Pkts(r)) /\ PrefixOf(P, Bytes(r))
    BY <2>1, <2>2, <2>3 DEF PrefixOf
  <2>5. rd.pc = "open"
    BY DEF StatsInit, NotReading
  <2>6. \A Q : PktsHeld(rd, Q) /\ BytesHeld(rd, Q)
    BY <2>5 DEF PktsHeld, BytesHeld, Held, NotReading
  <2> QED
    BY <2>4, <2>6 DEF Sums
<1> QED
  BY <1>1, <1>4, <1>5, <1>6 DEF SInv

LEMMA StatsStepKeeps ==
  ASSUME LoaderAssumption, StatsAssumption, SInv, [StatsNext]_allvars
  PROVE  SInv'
<1>1. ASSUME LInv', UNCHANGED tvars PROVE SInv'
  <2>1. UNCHANGED <<count, half, rd, printed>>
    BY <1>1 DEF tvars
  <2>2. StatsType' /\ OneMap' /\ RatesOfOneMap' /\ \A r \in Runs : Sums(r)'
    BY <2>1 DEF SInv, StatsType, OneMap, RatesOfOneMap, Sums, Pkts, Bytes
  <2> QED
    BY <1>1, <2>2 DEF SInv
<1>2. CASE UNCHANGED allvars
  <2>1. [LoaderNext]_lvars /\ UNCHANGED tvars
    BY <1>2 DEF allvars
  <2> QED
    BY <1>1, <2>1, LoaderStepKeeps DEF SInv
<1>3. CASE LoaderNext /\ UNCHANGED tvars
  BY <1>1, <1>3, LoaderStepKeeps DEF SInv
<1>4. CASE \E c \in Cpus : RecordPacket(c) \/ RecordBytes(c)
  BY <1>4, PacketKeeps
<1> QED
  BY <1>2, <1>3, <1>4, OpeningKeeps, ReadWordKeeps, LookupFailsKeeps, FirstReadingKeeps, CollectKeeps
     DEF StatsNext

(* Every line xdp_stats prints compares two readings of one map, the later *)
(* one no smaller, but for a reading that failed: for any number of CPUs,  *)
(* maps, runs of the loader and loaders at work at the same time, and      *)
(* whichever calls of the reader fail.                                     *)
THEOREM RatesAreOfOneMap ==
  ASSUME LoaderAssumption, StatsAssumption
  PROVE  StatsSpec => []RatesOfOneMap
<1>1. StatsInit => SInv
  BY StatsInitHolds
<1>2. SInv /\ [StatsNext]_allvars => SInv'
  BY StatsStepKeeps
<1>3. SInv => RatesOfOneMap
  BY DEF SInv
<1> QED
  BY <1>1, <1>2, <1>3, PTL DEF StatsSpec

-----------------------------------------------------------------------------
(***************************************************************************)
(* The loader, one at a time.  What a run has done so far follows from the *)
(* call it is at; no run is under way while the writer works.              *)
(***************************************************************************)
SamePins(r) == \A m \in PinNames : pins[m] = progMaps[r][m]

Stage(l) ==
  /\ ld[l].pc # "idle" => ld[l].prog = runs
  /\ ld[l].pc \in {"reuse", "load", "attach", "detach", "again", "unload"} => link.prog # ld[l].prog
  /\ ld[l].pc \in {"access", "unpin", "pin", "rollback"} => link.prog = ld[l].prog /\ ~ld[l].opt.reuse
  /\ ld[l].pc \in {"detach", "again"} => ld[l].opt.force
  /\ ld[l].pc = "unload" => ld[l].opt.unload
  /\ ld[l].pc \in {"reuse", "pin"} =>
       \A j \in 1..Len(MapSeq) : j < ld[l].i => pins[MapSeq[j]] = progMaps[ld[l].prog][MapSeq[j]]
  /\ ld[l].pc \in {"load", "attach", "detach", "again"} /\ ld[l].opt.reuse => SamePins(ld[l].prog)

WriterFollows ==
  /\ wr.pc \in {"open", "done"} => NoLoader /\ wr.map = pins[REDIRECT] /\ wr.map # NoMap
  /\ wr.pc = "done" => WriterRoutes \subseteq entries[wr.map[1]]

Earlier ==
  /\ link.prog = NoProg \/ link.prog \in 1..runs
  /\ runs = 0 => \A m \in PinNames : pins[m] = NoMap

RInv == LInv /\ (\A l \in Loaders : Stage(l)) /\ WriterFollows /\ Earlier /\ SuccessReachable

(* What a call other than the first leaves. *)
LEMMA RightKeeps ==
  ASSUME LoaderAssumption, OneAtATime, RInv, LInv', NEW l \in Loaders, ld[l].pc # "idle",
         UNCHANGED <<entries, runs, wr>>, link'.prog \in {NoProg, link.prog, ld[l].prog}, Stage(l)',
         ld'[l].pc = "idle" /\ last' = "ok" /\ link'.prog = runs =>
           \A m \in PinNames : pins'[m] = progMaps'[runs][m]
  PROVE  RInv'
<1>1. Active(l) /\ Stage(l) /\ WriterFollows /\ Earlier /\ runs \in 0..MaxRuns /\ MaxRuns \in Nat
  BY DEF RInv, LInv, LType, LoaderAssumption
<1>2. ld[l].prog \in 1..runs /\ ld[l].prog = runs /\ runs > 0
  BY <1>1 DEF Active, Stage
<1>3. \A k \in Loaders : Stage(k)'
  BY DEF OneAtATime
<1>4. WriterFollows'
  BY <1>1 DEF WriterFollows, NoLoader
<1>5. Earlier'
  BY <1>1, <1>2 DEF Earlier
<1>6. SuccessReachable'
  <2>1. NoLoader' => ld'[l].pc = "idle"
    BY DEF NoLoader
  <2>2. runs' = runs
    OBVIOUS
  <2> QED
    BY <2>1, <2>2 DEF SuccessReachable
<1> QED
  BY <1>3, <1>4, <1>5, <1>6 DEF RInv

LEMMA StartRight ==
  ASSUME LoaderAssumption, OneAtATime, RInv, LInv', NEW l \in Loaders, Start(l)
  PROVE  RInv'
<1>1. PICK o \in Options :
        ld' = [ld EXCEPT ![l] =
          [ pc |-> IF o.unload THEN "unload" ELSE IF o.reuse THEN "reuse" ELSE "load",
            opt |-> o, prog |-> runs + 1, i |-> 1 ]]
  BY DEF Start
<1>2. /\ runs < MaxRuns /\ runs' = runs + 1 /\ wr' = [pc |-> "idle", map |-> NoMap]
      /\ UNCHANGED <<link, pins, progMaps, entries>>
  BY DEF Start, kvars
<1>3. /\ ld \in [Loaders -> LdType] /\ runs \in Nat /\ MaxRuns \in Nat /\ Earlier
      /\ NoProg \notin Runs
  BY DEF RInv, LInv, LType, LoaderAssumption
<1>4. /\ ld'[l].pc = IF o.unload THEN "unload" ELSE IF o.reuse THEN "reuse" ELSE "load"
      /\ ld'[l].opt = o /\ ld'[l].prog = runs + 1 /\ ld'[l].i = 1
  BY <1>1, <1>3
<1>5. ld'[l].pc \in {"unload", "reuse", "load"} /\ (ld'[l].pc = "unload" => o.unload)
      /\ (ld'[l].pc = "load" => ~o.reuse)
  BY <1>4
<1>6. runs + 1 # link.prog
  <2>1. runs + 1 \in Runs
    BY <1>2, <1>3 DEF Runs
  <2> QED
    BY <1>3, <2>1 DEF Earlier
<1>7. Stage(l)'
  BY <1>2, <1>4, <1>5, <1>6 DEF Stage
<1>8. \A k \in Loaders : Stage(k)'
  BY <1>7 DEF OneAtATime
<1>9. WriterFollows'
  BY <1>2 DEF WriterFollows
<1>10. Earlier'
  BY <1>2, <1>3 DEF Earlier
<1>11. SuccessReachable'
  BY <1>5 DEF SuccessReachable, NoLoader
<1> QED
  BY <1>8, <1>9, <1>10, <1>11 DEF RInv

(* The facts about the run that is under way. *)
LEMMA RunIs ==
  ASSUME LoaderAssumption, RInv, NEW l \in Loaders
  PROVE  /\ LType /\ Active(l) /\ HasMaps(l) /\ Stage(l) /\ ld[l] \in LdType /\ ld[l].i \in 0..Len(MapSeq)
         /\ Len(MapSeq) \in Nat \ {0} /\ "idle" \in PCs /\ 1 \in 0..Len(MapSeq) /\ runs \in Nat
         /\ pins \in [PinNames -> MapIds] /\ progMaps \in [Runs -> [PinNames -> MapIds]]
         /\ (ld[l].pc # "idle" => ld[l].prog \in Runs /\ ld[l].prog = runs /\ runs # NoProg
                                  /\ ld[l].opt \in Options /\ (ld[l].pc # "rollback" => ld[l].i >= 1))
<1>1. LType /\ Active(l) /\ HasMaps(l) /\ Stage(l) /\ ld[l] \in LdType /\ Len(MapSeq) \in Nat \ {0}
      /\ runs \in 0..MaxRuns /\ MaxRuns \in Nat /\ NoProg \notin Runs
  BY Names DEF RInv, LInv, LType, LoaderAssumption
<1>2. ld[l].i \in 0..Len(MapSeq) /\ 1 \in 0..Len(MapSeq) /\ "idle" \in PCs
  BY <1>1 DEF LdType, PCs
<1>3. ld[l].pc # "idle" => ld[l].prog \in Runs /\ ld[l].prog = runs /\ runs # NoProg
                                  /\ ld[l].opt \in Options /\ (ld[l].pc # "rollback" => ld[l].i >= 1)
  BY <1>1 DEF Active, Stage, Runs
<1> QED
  BY <1>1, <1>2, <1>3 DEF LType, LoaderTypeOK

(* A run that ends other than well leaves nothing to show. *)
LEMMA FailRight ==
  ASSUME LoaderAssumption, OneAtATime, RInv, LInv', NEW l \in Loaders, ld[l].pc # "idle",
         UNCHANGED <<entries, runs, wr>>, link'.prog \in {NoProg, link.prog, ld[l].prog},
         NEW how, Exit(l, how), how # "ok" \/ link'.prog # runs
  PROVE  RInv'
<1>1. ld'[l].pc = "idle" /\ last' = how
  BY RunIs, ExitIs
<1>2. Stage(l)'
  BY <1>1 DEF Stage
<1> QED
  BY <1>1, <1>2, RightKeeps

LEMMA ReuseRight ==
  ASSUME LoaderAssumption, OneAtATime, RInv, LInv', NEW l \in Loaders, ReuseMap(l)
  PROVE  RInv'
<1> DEFINE m == MapSeq[ld[l].i]
           p == ld[l].prog
<1>1. /\ ld[l].pc = "reuse" /\ UNCHANGED <<link, pins, entries, runs, wr>>
      /\ link'.prog \in {NoProg, link.prog, ld[l].prog}
  BY DEF ReuseMap
<1>2. /\ LType /\ Stage(l) /\ HasMaps(l) /\ ld[l].i \in 1..Len(MapSeq) /\ Len(MapSeq) \in Nat \ {0}
      /\ p \in Runs /\ p = runs /\ progMaps \in [Runs -> [PinNames -> MapIds]] /\ 1 \in 0..Len(MapSeq)
      /\ \A j \in 1..Len(MapSeq) : j < ld[l].i => pins[MapSeq[j]] = progMaps[p][MapSeq[j]]
  BY <1>1, RunIs DEF Stage
<1>3. \A j \in 1..Len(MapSeq) : MapSeq[j] \in PinNames
  BY Names
<1>4. CASE pins[m] = NoMap
  <2>1. Exit(l, "fail")
    BY <1>4 DEF ReuseMap
  <2> QED
    BY <1>1, <2>1, FailRight
<1>5. CASE pins[m] # NoMap
  <2>1. /\ progMaps' = [progMaps EXCEPT ![p][m] = pins[m]]
        /\ IF ld[l].i = Len(MapSeq) THEN Goto(l, "load", 1) ELSE Goto(l, "reuse", ld[l].i + 1)
    BY <1>5 DEF ReuseMap
  <2>2. progMaps'[p][m] = pins[m] /\ \A n \in PinNames : n # m => progMaps'[p][n] = progMaps[p][n]
    BY <1>2, <1>3, <2>1
  <2>3. \A j \in 1..Len(MapSeq) : j < ld[l].i + 1 => pins[MapSeq[j]] = progMaps'[p][MapSeq[j]]
    <3> SUFFICES ASSUME NEW j \in 1..Len(MapSeq), j < ld[l].i + 1
                 PROVE  pins[MapSeq[j]] = progMaps'[p][MapSeq[j]]
      OBVIOUS
    <3>1. j = ld[l].i \/ j < ld[l].i
      BY <1>2
    <3> QED
      BY <1>2, <1>3, <2>2, <3>1
  <2>4. CASE ld[l].i = Len(MapSeq)
    <3>1. ld'[l].pc = "load" /\ ld'[l].prog = p /\ ld'[l].opt = ld[l].opt
      BY <1>2, <2>1, <2>4, GotoIs DEF PCs
    <3>2. \A n \in PinNames : pins[n] = progMaps'[p][n]
      BY <1>2, <2>3, <2>4, Names
    <3>3. Stage(l)'
      BY <1>1, <1>2, <3>1, <3>2 DEF Stage, SamePins
    <3> QED
      BY <1>1, <3>1, <3>3, RightKeeps
  <2>5. CASE ld[l].i # Len(MapSeq)
    <3>1. ld'[l].pc = "reuse" /\ ld'[l].prog = p /\ ld'[l].opt = ld[l].opt /\ ld'[l].i = ld[l].i + 1
      <4>1. "reuse" \in PCs /\ ld[l].i + 1 \in 0..Len(MapSeq)
        BY <1>2, <2>5 DEF PCs
      <4> QED
        BY <1>2, <2>1, <2>5, <4>1, GotoIs
    <3>3. Stage(l)'
      BY <1>1, <1>2, <2>3, <3>1 DEF Stage
    <3> QED
      BY <1>1, <3>1, <3>3, RightKeeps
  <2> QED
    BY <2>4, <2>5
<1> QED
  BY <1>4, <1>5

LEMMA LoadRight ==
  ASSUME LoaderAssumption, OneAtATime, RInv, LInv', NEW l \in Loaders, LoadObject(l)
  PROVE  RInv'
<1> DEFINE p == ld[l].prog
<1>1. /\ ld[l].pc = "load" /\ UNCHANGED <<link, pins, entries, runs, wr>>
      /\ link'.prog \in {NoProg, link.prog, ld[l].prog}
  BY DEF LoadObject
<1>2. /\ LType /\ Stage(l) /\ Len(MapSeq) \in Nat \ {0} /\ 1 \in 0..Len(MapSeq)
      /\ p \in Runs /\ p = runs /\ progMaps \in [Runs -> [PinNames -> MapIds]]
  BY <1>1, RunIs
<1>3. CASE Exit(l, "fail")
  BY <1>1, <1>3, FailRight
<1>4. CASE /\ progMaps' = [progMaps EXCEPT ![p] =
                [m \in PinNames |-> IF ld[l].opt.reuse THEN @[m] ELSE Map(p, m)]]
           /\ Goto(l, "attach", 1)
  <2>1. ld'[l].pc = "attach" /\ ld'[l].prog = p /\ ld'[l].opt = ld[l].opt
    BY <1>2, <1>4, GotoIs DEF PCs
  <2>2. ld[l].opt.reuse => \A m \in PinNames : progMaps'[p][m] = progMaps[p][m]
    BY <1>2, <1>4
  <2>3. Stage(l)'
    BY <1>1, <1>2, <2>1, <2>2 DEF Stage, SamePins
  <2> QED
    BY <1>1, <2>1, <2>3, RightKeeps
<1> QED
  BY <1>3, <1>4 DEF LoadObject

(* The program is attached: a run that reuses the maps is done. *)
LEMMA AttachedRight ==
  ASSUME LoaderAssumption, OneAtATime, RInv, LInv', NEW l \in Loaders, ld[l].pc \in {"attach", "again"},
         Attached(l), UNCHANGED <<pins, progMaps, entries, runs, wr>>
  PROVE  RInv'
<1>1. link'.prog = ld[l].prog /\ ld[l].prog = runs /\ LType /\ Stage(l) /\ 1 \in 0..Len(MapSeq)
  BY RunIs DEF Attached
<1>2. CASE ld[l].opt.reuse
  <2>1. ld'[l].pc = "idle" /\ last' = "ok"
    BY <1>1, <1>2, ExitIs DEF Attached
  <2>2. \A m \in PinNames : pins'[m] = progMaps'[runs][m]
    BY <1>1, <1>2 DEF Stage, SamePins
  <2>3. Stage(l)'
    BY <2>1 DEF Stage
  <2> QED
    BY <1>1, <2>2, <2>3, RightKeeps
<1>3. CASE ~ld[l].opt.reuse
  <2>1. Goto(l, "access", 1)
    BY <1>3 DEF Attached
  <2>2. ld'[l].pc = "access" /\ ld'[l].prog = ld[l].prog /\ ld'[l].opt = ld[l].opt
    BY <1>1, <2>1, GotoIs DEF PCs
  <2>3. Stage(l)'
    BY <1>1, <1>3, <2>2 DEF Stage
  <2> QED
    BY <1>1, <2>2, <2>3, RightKeeps
<1> QED
  BY <1>2, <1>3

LEMMA AttachRight ==
  ASSUME LoaderAssumption, OneAtATime, RInv, LInv', NEW l \in Loaders,
         xdp_link_attach(l) \/ DetachOther(l) \/ AttachAgain(l)
  PROVE  RInv'
<1>1. /\ UNCHANGED <<pins, progMaps, entries, runs, wr>> /\ ld[l].pc \in {"attach", "detach", "again"}
      /\ LType /\ Stage(l) /\ 1 \in 0..Len(MapSeq) /\ "detach" \in PCs /\ "again" \in PCs
      /\ runs # NoProg /\ ld[l].prog = runs
  BY RunIs DEF xdp_link_attach, DetachOther, AttachAgain, PCs
<1>2. CASE Attached(l) /\ ld[l].pc \in {"attach", "again"}
  BY <1>1, <1>2, AttachedRight
<1>3. CASE Exit(l, "fail") /\ UNCHANGED link
  BY <1>1, <1>3, FailRight
<1>4. CASE Goto(l, "detach", 1) /\ UNCHANGED link /\ ld[l].opt.force
  <2>1. ld'[l].pc = "detach" /\ ld'[l].prog = ld[l].prog /\ ld'[l].opt = ld[l].opt
    BY <1>1, <1>4, GotoIs
  <2>2. Stage(l)'
    BY <1>1, <1>4, <2>1 DEF Stage, SamePins
  <2> QED
    BY <1>1, <1>4, <2>1, <2>2, RightKeeps
<1>5. CASE DetachOther(l)
  <2>1. Goto(l, "again", 1) /\ link' \in {Bare, link} /\ ld[l].pc = "detach"
    BY <1>5 DEF DetachOther
  <2>2. ld'[l].pc = "again" /\ ld'[l].prog = ld[l].prog /\ ld'[l].opt = ld[l].opt
    BY <1>1, <2>1, GotoIs
  <2>3. link'.prog \in {NoProg, link.prog}
    BY <2>1 DEF Bare
  <2>4. Stage(l)'
    BY <1>1, <2>1, <2>2, <2>3 DEF Stage, SamePins
  <2> QED
    BY <1>1, <2>2, <2>3, <2>4, RightKeeps
<1>6. CASE xdp_link_attach(l)
  <2>1. ld[l].pc = "attach"
    BY <1>6 DEF xdp_link_attach
  <2>2. \/ Attached(l)
        \/ Goto(l, "detach", 1) /\ UNCHANGED link /\ ld[l].opt.force
        \/ Exit(l, "fail") /\ UNCHANGED link
    BY <1>6 DEF xdp_link_attach
  <2> QED
    BY <1>2, <1>3, <1>4, <2>1, <2>2
<1>7. CASE AttachAgain(l)
  <2>1. ld[l].pc = "again"
    BY <1>7 DEF AttachAgain
  <2>2. Attached(l) \/ (Exit(l, "fail") /\ UNCHANGED link)
    BY <1>7 DEF AttachAgain
  <2> QED
    BY <1>2, <1>3, <2>1, <2>2
<1> QED
  BY <1>5, <1>6, <1>7

LEMMA PinsRight ==
  ASSUME LoaderAssumption, OneAtATime, RInv, LInv', NEW l \in Loaders,
         Access(l) \/ UnpinMap(l) \/ PinMap(l) \/ Rollback(l)
  PROVE  RInv'
<1>1. /\ UNCHANGED <<link, progMaps, entries, runs, wr>>
      /\ ld[l].pc \in {"access", "unpin", "pin", "rollback"}
  BY DEF Access, UnpinMap, PinMap, Rollback, kvars
<1>2. /\ LType /\ Stage(l) /\ 1 \in 0..Len(MapSeq) /\ ld[l].i \in 0..Len(MapSeq)
      /\ Len(MapSeq) \in Nat \ {0} /\ ld[l].prog = runs /\ ld[l].prog \in Runs
      /\ (ld[l].pc # "rollback" => ld[l].i >= 1) /\ link'.prog = link.prog
      /\ "unpin" \in PCs /\ "pin" \in PCs /\ "rollback" \in PCs
      /\ pins \in [PinNames -> MapIds]
  BY <1>1, RunIs DEF PCs
<1>3. ASSUME NEW pc \in {"unpin", "pin", "rollback"}, NEW i \in 0..Len(MapSeq), Goto(l, pc, i),
             pc = "pin" => \A j \in 1..Len(MapSeq) : j < i =>
                             pins'[MapSeq[j]] = progMaps[ld[l].prog][MapSeq[j]]
      PROVE  RInv'
  <2>1. ld'[l].pc = pc /\ ld'[l].i = i /\ ld'[l].prog = ld[l].prog /\ ld'[l].opt = ld[l].opt
    BY <1>2, <1>3, GotoIs
  <2>2. Stage(l)'
    BY <1>1, <1>2, <1>3, <2>1 DEF Stage
  <2> QED
    BY <1>1, <1>2, <2>1, <2>2, RightKeeps
<1>4. CASE Exit(l, "fail")
  BY <1>1, <1>2, <1>4, FailRight
<1>5. CASE Access(l)
  BY <1>2, <1>3, <1>5 DEF Access
<1>6. CASE UnpinMap(l)
  <2>1. \/ Exit(l, "fail")
        \/ Goto(l, "pin", 1)
        \/ ld[l].i # Len(MapSeq) /\ Goto(l, "unpin", ld[l].i + 1)
    BY <1>6 DEF UnpinMap
  <2>2. ld[l].i # Len(MapSeq) => ld[l].i + 1 \in 0..Len(MapSeq)
    BY <1>2
  <2> QED
    BY <1>2, <1>3, <1>4, <2>1, <2>2
<1>7. CASE Rollback(l)
  <2>1. \/ Exit(l, "fail")
        \/ ld[l].i # 0 /\ Goto(l, "rollback", ld[l].i - 1)
    BY <1>7 DEF Rollback
  <2>2. ld[l].i # 0 => ld[l].i - 1 \in 0..Len(MapSeq)
    BY <1>2
  <2> QED
    BY <1>3, <1>4, <2>1, <2>2
<1>8. CASE PinMap(l)
  <2> DEFINE m == MapSeq[ld[l].i]
             p == ld[l].prog
  <2>1. ld[l].pc = "pin" /\ ld[l].i \in 1..Len(MapSeq)
    BY <1>2, <1>8 DEF PinMap
  <2>2. CASE pins[m] # NoMap
    <3>1. Goto(l, "rollback", ld[l].i - 1) /\ ld[l].i - 1 \in 0..Len(MapSeq)
      BY <1>2, <1>8, <2>1, <2>2 DEF PinMap
    <3> QED
      BY <1>3, <3>1
  <2>3. CASE pins[m] = NoMap
    <3>1. /\ pins' = [pins EXCEPT ![m] = progMaps[p][m]]
          /\ IF ld[l].i = Len(MapSeq) THEN Exit(l, "ok") ELSE Goto(l, "pin", ld[l].i + 1)
      BY <1>8, <2>3 DEF PinMap
    <3>2. \A j \in 1..Len(MapSeq) : MapSeq[j] \in PinNames
      BY Names
    <3>3. \A j \in 1..Len(MapSeq) : j < ld[l].i + 1 => pins'[MapSeq[j]] = progMaps[p][MapSeq[j]]
      <4> SUFFICES ASSUME NEW j \in 1..Len(MapSeq), j < ld[l].i + 1
                   PROVE  pins'[MapSeq[j]] = progMaps[p][MapSeq[j]]
        OBVIOUS
      <4>1. j = ld[l].i \/ j < ld[l].i
        BY <2>1
      <4>2. j < ld[l].i => pins[MapSeq[j]] = progMaps[p][MapSeq[j]]
        BY <1>2, <2>1 DEF Stage
      <4> QED
        BY <1>2, <3>1, <3>2, <4>1, <4>2
    <3>4. CASE ld[l].i = Len(MapSeq)
      <4>1. ld'[l].pc = "idle"
        BY <1>2, <3>1, <3>4, ExitIs
      <4>2. \A n \in PinNames : pins'[n] = progMaps'[runs][n]
        BY <1>1, <1>2, <3>3, <3>4, Names
      <4>3. Stage(l)'
        BY <4>1 DEF Stage
      <4> QED
        BY <1>1, <1>2, <4>2, <4>3, RightKeeps
    <3>5. CASE ld[l].i # Len(MapSeq)
      <4>1. Goto(l, "pin", ld[l].i + 1) /\ ld[l].i + 1 \in 0..Len(MapSeq)
        BY <1>2, <2>1, <3>1, <3>5
      <4> QED
        BY <1>3, <3>3, <4>1
    <3> QED
      BY <3>4, <3>5
  <2> QED
    BY <2>2, <2>3
<1> QED
  BY <1>5, <1>6, <1>7, <1>8

LEMMA EndRight ==
  ASSUME LoaderAssumption, OneAtATime, RInv, LInv', NEW l \in Loaders,
         xdp_link_detach(l) \/ Crash(l)
  PROVE  RInv'
<1>1. CASE xdp_link_detach(l)
  <2>1. /\ ld[l].pc = "unload" /\ UNCHANGED <<pins, progMaps, entries, runs, wr>>
        /\ Exit(l, "ok") /\ link' \in {Bare, link}
    BY <1>1 DEF xdp_link_detach
  <2>2. link'.prog \in {NoProg, link.prog} /\ link'.prog # runs
    BY <2>1, RunIs DEF Bare, Stage
  <2> QED
    BY <2>1, <2>2, FailRight
<1>2. CASE Crash(l)
  <2>1. ld[l].pc # "idle" /\ UNCHANGED <<link, pins, progMaps, entries, runs, wr>> /\ Exit(l, "crash")
    BY <1>2 DEF Crash, kvars
  <2> QED
    BY <2>1, FailRight
<1> QED
  BY <1>1, <1>2

LEMMA WriterRight ==
  ASSUME LoaderAssumption, RInv, LInv', OpenPinned \/ WriteEntry \/ WriterEnds
  PROVE  RInv'
<1>1. /\ UNCHANGED <<link, pins, progMaps, runs, ld, last>> /\ WriterFollows /\ Earlier
      /\ SuccessReachable /\ NoLoader /\ LType
  BY DEF OpenPinned, WriteEntry, WriterEnds, kvars, RInv, LInv, WriterFollows
<1>2. (\A l \in Loaders : Stage(l)') /\ Earlier' /\ SuccessReachable' /\ NoLoader'
  BY <1>1 DEF RInv, Stage, SamePins, Earlier, SuccessReachable, NoLoader
<1>3. CASE OpenPinned
  BY <1>1, <1>2, <1>3 DEF OpenPinned, WriterFollows, RInv
<1>4. CASE WriteEntry
  BY <1>1, <1>2, <1>4 DEF WriteEntry, WriterFollows, RInv
<1>5. CASE WriterEnds
  <2>1. wr.pc = "open" /\ wr' = [wr EXCEPT !.pc = "done"] /\ WriterRoutes \subseteq entries[wr.map[1]]
        /\ entries' = entries /\ wr \in [pc : {"idle", "open", "done"}, map : MapIds]
    BY <1>1, <1>5 DEF WriterEnds, kvars, LType
  <2>2. wr'.pc = "done" /\ wr'.map = wr.map
    BY <2>1
  <2> QED
    BY <1>1, <1>2, <2>1, <2>2 DEF WriterFollows, RInv
<1> QED
  BY <1>3, <1>4, <1>5

LEMMA RightStep ==
  ASSUME LoaderAssumption, OneAtATime, RInv, [LoaderNext]_lvars
  PROVE  RInv'
<1>1. LInv'
  BY LoaderStepKeeps DEF RInv
<1>2. CASE UNCHANGED lvars
  BY <1>1, <1>2 DEF lvars, kvars, RInv, Stage, SamePins, WriterFollows, Earlier, SuccessReachable, NoLoader
<1>3. CASE LoaderNext
  BY <1>1, <1>3, StartRight, ReuseRight, LoadRight, AttachRight, PinsRight, EndRight, WriterRight
     DEF LoaderNext, Proceed
<1> QED
  BY <1>2, <1>3

(* What no step of a run may do. *)
LEMMA RightAction ==
  ASSUME LoaderAssumption, RInv, [LoaderNext]_lvars
  PROVE  LoaderStep
<1>1. CASE UNCHANGED lvars
  BY <1>1 DEF lvars, kvars, LoaderStep, NotForcedNotTouchedStep, PinsOnlyAfterAttachStep
<1>2. CASE OpenPinned \/ WriteEntry \/ WriterEnds
  BY <1>2 DEF OpenPinned, WriteEntry, WriterEnds, kvars, LoaderStep, NotForcedNotTouchedStep,
              PinsOnlyAfterAttachStep
<1>3. ASSUME NEW l \in Loaders, Proceed(l) PROVE LoaderStep
  <2>1. Stage(l) /\ "idle" # "attach"
    BY RunIs
  <2>2. CASE Start(l) \/ ReuseMap(l) \/ LoadObject(l) \/ Access(l) \/ Crash(l)
    BY <2>2 DEF Start, ReuseMap, LoadObject, Access, Crash, kvars, LoaderStep,
                NotForcedNotTouchedStep, PinsOnlyAfterAttachStep
  <2>3. CASE UnpinMap(l) \/ PinMap(l) \/ Rollback(l)
    <3>1. link' = link /\ ld[l].pc \in {"unpin", "pin", "rollback"}
      BY <2>3 DEF UnpinMap, PinMap, Rollback
    <3> QED
      BY <2>1, <3>1 DEF Stage, LoaderStep, NotForcedNotTouchedStep, PinsOnlyAfterAttachStep
  <2>4. CASE DetachOther(l) \/ AttachAgain(l)
    <3>1. pins' = pins /\ ld[l].pc \in {"detach", "again"}
      BY <2>4 DEF DetachOther, AttachAgain
    <3> QED
      BY <2>1, <3>1 DEF Stage, LoaderStep, NotForcedNotTouchedStep, PinsOnlyAfterAttachStep
  <2>5. CASE xdp_link_detach(l)
    <3>1. pins' = pins /\ ld[l].pc = "unload"
      BY <2>5 DEF xdp_link_detach
    <3> QED
      BY <2>1, <3>1 DEF Stage, LoaderStep, NotForcedNotTouchedStep, PinsOnlyAfterAttachStep
  <2>6. CASE xdp_link_attach(l)
    <3>1. pins' = pins /\ ld[l].pc = "attach"
      BY <2>6 DEF xdp_link_attach
    <3>2. link.prog # NoProg /\ link' # link => "ok" \in Answers(ld[l].opt.mode, ~ld[l].opt.force)
      BY <2>6 DEF xdp_link_attach
    <3>3. link.prog # NoProg /\ ~ld[l].opt.force => "ok" \notin Answers(ld[l].opt.mode, ~ld[l].opt.force)
      BY DEF Answers
    <3> QED
      BY <3>1, <3>2, <3>3 DEF LoaderStep, NotForcedNotTouchedStep, PinsOnlyAfterAttachStep
  <2> QED
    BY <1>3, <2>2, <2>3, <2>4, <2>5, <2>6 DEF Proceed
<1> QED
  BY <1>1, <1>2, <1>3 DEF LoaderNext

LEMMA RightSafe ==
  ASSUME LoaderAssumption, RInv
  PROVE  LoaderSafe
<1>1. LoaderTypeOK /\ SuccessReachable /\ WriterFollows /\ Earlier /\ runs \in 0..MaxRuns
  BY DEF RInv, LInv, LType
<1>2. RoutesReachProgram
  <2> SUFFICES ASSUME wr.pc = "done", last = "ok", link.prog = runs
               PROVE  entries[progMaps[link.prog][REDIRECT][1]] = WriterRoutes
    BY DEF RoutesReachProgram
  <2>1. NoLoader /\ wr.map = pins[REDIRECT] /\ wr.map # NoMap /\ WriterRoutes \subseteq entries[wr.map[1]]
        /\ REDIRECT \in PinNames
    BY <1>1, Names DEF WriterFollows
  <2>2. runs > 0
    BY <1>1, <2>1 DEF Earlier, LoaderAssumption
  <2>3. pins[REDIRECT] = progMaps[link.prog][REDIRECT]
    BY <1>1, <2>1, <2>2 DEF SuccessReachable
  <2>4. wr.map \in Runs \X PinNames /\ entries \in [Runs -> SUBSET WriterRoutes]
    BY <1>1, <2>1 DEF LoaderTypeOK, MapIds
  <2>5. entries[wr.map[1]] \in SUBSET WriterRoutes
    BY <2>4
  <2> QED
    BY <2>1, <2>3, <2>5
<1> QED
  BY <1>1, <1>2 DEF LoaderSafe

LEMMA RightInit ==
  ASSUME LoaderAssumption, LoaderInit
  PROVE  RInv
<1>1. LInv
  BY LoaderInitHolds
<1>2. \A l \in Loaders : ld[l].pc = "idle"
  BY DEF LoaderInit, Idle
<1>3. (\A l \in Loaders : Stage(l)) /\ WriterFollows /\ Earlier /\ SuccessReachable
  BY <1>2 DEF LoaderInit, Stage, WriterFollows, Earlier, SuccessReachable, Bare
<1> QED
  BY <1>1, <1>3 DEF RInv

(* Runs one after the other, killed anywhere: a run that reports success   *)
(* has left its maps where the writer and the reader look for them, and    *)
(* without --force and --unload nothing that was attached is touched.      *)
THEOREM LoaderIsRight ==
  ASSUME LoaderAssumption, OneAtATime
  PROVE  LoaderSpec => LoaderRight
<1>1. LoaderInit => RInv
  BY RightInit
<1>2. RInv /\ [LoaderNext]_lvars => RInv'
  BY RightStep
<1>3. RInv => LoaderSafe
  BY RightSafe
<1>4. RInv /\ [LoaderNext]_lvars => LoaderStep
  BY RightAction
<1> QED
  BY <1>1, <1>2, <1>3, <1>4, PTL DEF LoaderSpec, LoaderRight
-----------------------------------------------------------------------------
(***************************************************************************)
(* The options of a command line, and the helpers on packets.              *)
(***************************************************************************)
ParamsInv == line \in Seq(Opts) /\ LastModeWins

LEMMA ParamsInitHolds == ParamsInit => ParamsInv
  BY DEF ParamsInit, ParamsInv, LastModeWins

(* An option that chooses no mode leaves it, and one that does sets it. *)
LEMMA OptionSets ==
  ASSUME NEW o \in Opts, Option(o)
  PROVE  /\ o \in Chooses => xdp_flags' \cap MODES = Chosen(o)
         /\ o \notin Chooses => xdp_flags' \cap MODES = xdp_flags \cap MODES
         /\ "NOEXIST" \in xdp_flags' <=> "NOEXIST" \in xdp_flags /\ o # "F"
<1>1. CASE o = "A"
  BY <1>1 DEF Option, SetMode, Chooses, Chosen, MODES
<1>2. CASE o = "S"
  BY <1>2 DEF Option, SetMode, Chooses, Chosen, MODES
<1>3. CASE o = "N"
  BY <1>3 DEF Option, SetMode, Chooses, Chosen, MODES
<1>4. CASE o = "3"
  BY <1>4 DEF Option, SetMode, Chooses, Chosen, MODES
<1>5. CASE o \notin Chooses
  <2>1. xdp_flags' = xdp_flags \ (IF o = "F" THEN {"NOEXIST"} ELSE {})
    BY <1>5 DEF Option, Chooses
  <2> QED
    BY <1>5, <2>1 DEF MODES, Chooses
<1> QED
  BY <1>1, <1>2, <1>3, <1>4, <1>5 DEF Chooses

LEMMA ParamsStepKeeps == ParamsInv /\ [ParamsNext]_pvars => ParamsInv'
<1> SUFFICES ASSUME ParamsInv, [ParamsNext]_pvars PROVE ParamsInv'
  OBVIOUS
<1>1. CASE UNCHANGED pvars
  BY <1>1 DEF pvars, ParamsInv, LastModeWins
<1>2. ASSUME NEW o \in Opts, Option(o) PROVE ParamsInv'
  <2> DEFINE n == Len(line)
  <2>1. line \in Seq(Opts) /\ n \in Nat /\ DOMAIN line = 1..n /\ line' = Append(line, o)
    BY <1>2 DEF Option, ParamsInv
  <2>2. line' \in Seq(Opts) /\ DOMAIN line' = 1..n + 1 /\ line'[n + 1] = o
        /\ \A i \in 1..n : line'[i] = line[i]
    BY <2>1
  <2>3. /\ o \in Chooses => xdp_flags' \cap MODES = Chosen(o)
        /\ o \notin Chooses => xdp_flags' \cap MODES = xdp_flags \cap MODES
        /\ "NOEXIST" \in xdp_flags' <=> "NOEXIST" \in xdp_flags /\ o # "F"
    BY <1>2, OptionSets
  <2> HIDE DEF n
  <2>4. (\A i \in DOMAIN line' : line'[i] \notin Chooses) => xdp_flags' \cap MODES = Modes0 \cap MODES
    BY <2>1, <2>2, <2>3 DEF ParamsInv, LastModeWins
  <2>5. ASSUME NEW i \in DOMAIN line', line'[i] \in Chooses,
               \A j \in DOMAIN line' : j > i => line'[j] \notin Chooses
        PROVE  xdp_flags' \cap MODES = Chosen(line'[i])
    <3>1. CASE i = n + 1
      BY <2>2, <2>3, <2>5, <3>1
    <3>2. CASE i # n + 1
      <4>1. i \in DOMAIN line /\ line[i] = line'[i] /\ o \notin Chooses
        BY <2>1, <2>2, <2>5, <3>2
      <4>2. \A j \in DOMAIN line : j > i => line[j] \notin Chooses
        BY <2>1, <2>2, <2>5
      <4> QED
        BY <2>3, <2>5, <4>1, <4>2 DEF ParamsInv, LastModeWins
    <3> QED
      BY <3>1, <3>2
  <2>6. "NOEXIST" \in xdp_flags' <=> "NOEXIST" \in Modes0 /\ \A i \in DOMAIN line' : line'[i] # "F"
    BY <2>1, <2>2, <2>3 DEF ParamsInv, LastModeWins
  <2> QED
    BY <2>2, <2>4, <2>5, <2>6 DEF ParamsInv, LastModeWins
<1> QED
  BY <1>1, <1>2 DEF ParamsNext

(* The tags of a packet are those pushed on those left of its own. *)
OwnFrom(own) == SubSeq(arrived.tags, own + 1, Len(arrived.tags))

PacketsInv ==
  /\ pkt \in Layout /\ arrived \in Layout /\ pushed \in Seq(Nat)
  /\ cursor.pos \in Nat /\ CursorInside /\ PushPopNested

LEMMA PacketsInitHolds ==
  ASSUME PacketsAssumption, PacketsInit
  PROVE  PacketsInv
<1>1. pkt \in Layout /\ arrived = pkt /\ pushed = <<>> /\ cursor = [pos |-> 0, at |-> "eth"]
  BY DEF PacketsInit, PacketsAssumption, Unparsed
<1>2. pkt.tags \in Seq(Nat) /\ pkt.len \in Nat
  BY <1>1 DEF Layout
<1>3. SubSeq(arrived.tags, 0 + 1, Len(arrived.tags)) = arrived.tags
  BY <1>1, <1>2
<1>4. pushed \o arrived.tags = arrived.tags
  BY <1>1, <1>2
<1>5. pkt.len = arrived.len + TagLen * (Len(pushed) - 0)
  BY <1>1, <1>2 DEF TagLen
<1>6. 0 \in 0..Len(arrived.tags)
  BY <1>1, <1>2
<1>7. PushPopNested
  BY <1>1, <1>3, <1>4, <1>5, <1>6 DEF PushPopNested
<1>8. cursor.pos = 0
  BY <1>1
<1> QED
  BY <1>1, <1>2, <1>7, <1>8 DEF PacketsInv, CursorInside

(* What a parser does is to the cursor. *)
LEMMA CursorKeeps ==
  ASSUME PacketsInv, UNCHANGED <<pkt, arrived, pushed>>,
         NEW n \in Nat, NEW a, cursor' = [pos |-> n, at |-> a], n <= pkt.len
  PROVE  PacketsInv'
<1>1. cursor'.pos = n
  OBVIOUS
<1> QED
  BY <1>1 DEF PacketsInv, CursorInside, PushPopNested

LEMMA Quarters == ASSUME NEW a \in Int PROVE a \div 4 \in Int /\ 4 * (a \div 4) <= a
  BY SMT

LEMMA ParsersKeep ==
  ASSUME PacketsAssumption, PacketsInv, parse_ethhdr \/ ParseFixed \/ parse_iphdr \/ parse_tcphdr
  PROVE  PacketsInv'
<1>1. UNCHANGED <<pkt, arrived, pushed>>
  BY DEF parse_ethhdr, ParseFixed, parse_iphdr, parse_tcphdr, ParseSized
<1>2. cursor.pos \in Nat /\ cursor.pos <= pkt.len /\ pkt \in Layout
  BY DEF PacketsInv, CursorInside
<1>3. pkt.len \in Nat /\ pkt.words \in Nat /\ pkt.proto \in STRING /\ Len(pkt.tags) \in Nat
  BY <1>2 DEF Layout
<1>4. CASE UNCHANGED cursor
  BY <1>1, <1>4 DEF PacketsInv, CursorInside, PushPopNested
<1>5. CASE parse_ethhdr /\ Fits(EthLen)
  <2>1. TagsSkipped <= (pkt.len - EthLen) \div TagLen /\ TagsSkipped \in Int
    BY <1>3, Quarters DEF TagsSkipped, EthLen, TagLen, VlanMaxDepth
  <2>2. pkt.len >= 14
    BY <1>2, <1>3, <1>5 DEF Fits, EthLen, parse_ethhdr, Unparsed
  <2>3. TagsSkipped >= 0
    BY <1>3, <2>2 DEF TagsSkipped, EthLen, TagLen, VlanMaxDepth
  <2>4. 4 * TagsSkipped <= pkt.len - 14
    <3>1. 4 * ((pkt.len - 14) \div 4) <= pkt.len - 14 /\ (pkt.len - 14) \div 4 \in Int
      BY <1>3, Quarters
    <3> QED
      BY <1>3, <2>1, <3>1 DEF EthLen, TagLen
  <2>5. cursor' = [pos |-> EthLen + TagLen * TagsSkipped,
                   at |-> IF TagsSkipped = Len(pkt.tags) THEN pkt.proto ELSE "vlan"]
    BY <1>5 DEF parse_ethhdr
  <2>6. EthLen + TagLen * TagsSkipped \in Nat /\ EthLen + TagLen * TagsSkipped <= pkt.len
    BY <1>3, <2>1, <2>3, <2>4 DEF EthLen, TagLen
  <2> QED
    BY <1>1, <1>3, <2>5, <2>6, CursorKeeps
<1>6. CASE ParseFixed /\ Fits(FixedSize(cursor.at))
  <2>1. FixedSize(cursor.at) \in Nat
    BY <1>6 DEF ParseFixed, FixedSize
  <2>2. cursor' = [pos |-> cursor.pos + FixedSize(cursor.at), at |-> "payload"]
    BY <1>6 DEF ParseFixed
  <2>3. cursor.pos + FixedSize(cursor.at) <= pkt.len
    BY <1>6 DEF Fits
  <2>4. cursor.pos + FixedSize(cursor.at) \in Nat
    BY <1>2, <2>1
  <2> QED
    BY <1>1, <2>2, <2>3, <2>4, CursorKeeps
<1>7. ASSUME NEW at, NEW claimed \in Nat, ParseSized(at, claimed), cursor' # cursor PROVE PacketsInv'
  <2>1. Fits(4 * claimed) /\ cursor' = [pos |-> cursor.pos + 4 * claimed, at |-> IF at = "ip" THEN "tcp" ELSE "payload"]
    BY <1>7 DEF ParseSized
  <2>2. cursor.pos + 4 * claimed <= pkt.len
    BY <2>1 DEF Fits
  <2>3. cursor.pos + 4 * claimed \in Nat
    BY <1>2
  <2> QED
    BY <1>1, <2>1, <2>2, <2>3, CursorKeeps
<1>8. parse_iphdr /\ cursor' # cursor => PacketsInv'
  BY <1>3, <1>7 DEF parse_iphdr
<1>9. parse_tcphdr /\ cursor' # cursor => PacketsInv'
  BY <1>7 DEF parse_tcphdr, PacketsAssumption
<1>10. parse_ethhdr /\ cursor' # cursor => Fits(EthLen)
  BY DEF parse_ethhdr
<1>11. ParseFixed /\ cursor' # cursor => Fits(FixedSize(cursor.at))
  BY DEF ParseFixed
<1> QED
  BY <1>4, <1>5, <1>6, <1>8, <1>9, <1>10, <1>11

LEMMA PushKeeps ==
  ASSUME PacketsAssumption, PacketsInv, NEW t \in Tcis, vlan_tag_push(t)
  PROVE  PacketsInv'
<1>1. pkt \in Layout /\ arrived \in Layout /\ pushed \in Seq(Nat) /\ t \in Nat
  BY DEF PacketsInv, PacketsAssumption
<1>2. pkt.tags \in Seq(Nat) /\ pkt.len \in Nat /\ arrived.len \in Nat /\ arrived.tags \in Seq(Nat)
  BY <1>1 DEF Layout
<1>3. /\ pkt' = [pkt EXCEPT !.tags = <<t>> \o @, !.len = @ + TagLen]
      /\ pushed' = <<t>> \o pushed /\ cursor' = Unparsed /\ arrived' = arrived
  BY DEF vlan_tag_push
<1>4. <<t>> \in Seq(Nat) /\ <<t>> \o pkt.tags \in Seq(Nat) /\ pushed' \in Seq(Nat) /\ Len(pushed') = Len(pushed) + 1
  BY <1>1, <1>2, <1>3
<1>5. pkt' \in Layout /\ pkt'.tags = <<t>> \o pkt.tags /\ pkt'.len = pkt.len + 4 /\ pkt'.proto = pkt.proto
  <2> DEFINE ts == <<t>> \o pkt.tags
  <2> DEFINE n == pkt.len + TagLen
  <2>1. pkt' = [pkt EXCEPT !.tags = ts, !.len = n]
    BY <1>3
  <2>2. ts \in Seq(Nat) /\ n \in Nat /\ n = pkt.len + 4
    BY <1>2, <1>4 DEF TagLen
  <2> HIDE DEF ts, n
  <2>3. pkt' \in Layout
    BY <1>1, <2>1, <2>2 DEF Layout
  <2>4. pkt'.tags = ts /\ pkt'.len = n /\ pkt'.proto = pkt.proto
    BY <1>1, <2>1, <2>2 DEF Layout
  <2> QED
    BY <2>2, <2>3, <2>4 DEF ts
<1>6. PICK own \in 0..Len(arrived.tags) :
        /\ pkt.tags = pushed \o OwnFrom(own)
        /\ pkt.len = arrived.len + TagLen * (Len(pushed) - own)
        /\ pkt.proto = arrived.proto
  BY DEF PacketsInv, PushPopNested, OwnFrom
<1>7. OwnFrom(own) \in Seq(Nat) /\ own \in Int
  BY <1>2, <1>6 DEF OwnFrom
<1>8. <<t>> \o (pushed \o OwnFrom(own)) = (<<t>> \o pushed) \o OwnFrom(own)
  <2>1. \A x, y, z \in Seq(Nat) : x \o (y \o z) = (x \o y) \o z
    BY SMTT(30)
  <2>2. <<t>> \in Seq(Nat) /\ pushed \in Seq(Nat) /\ OwnFrom(own) \in Seq(Nat)
    BY <1>1, <1>4, <1>7
  <2> QED
    BY <2>1, <2>2
<1>9. pkt'.tags = pushed' \o OwnFrom(own)
  BY <1>3, <1>5, <1>6, <1>8
<1>10. pkt'.len = arrived.len + TagLen * (Len(pushed') - own)
  BY SMTT(30), <1>1, <1>2, <1>4, <1>5, <1>6, <1>7 DEF TagLen
<1>11. PushPopNested'
  BY <1>3, <1>5, <1>6, <1>9, <1>10 DEF PushPopNested, OwnFrom
<1>12. cursor'.pos = 0
  BY <1>3 DEF Unparsed
<1>13. cursor'.pos <= pkt'.len
  BY <1>2, <1>5, <1>12
<1> QED
  BY <1>1, <1>3, <1>4, <1>5, <1>11, <1>12, <1>13 DEF PacketsInv, CursorInside

(* Tags off the front of a sequence. *)
LEMMA TailOfConcat ==
  ASSUME NEW s \in Seq(Nat), NEW r \in Seq(Nat), s # <<>>
  PROVE  Tail(s \o r) = Tail(s) \o r
  OBVIOUS

LEMMA TailOfSubSeq ==
  ASSUME NEW s \in Seq(Nat), NEW k \in 0..Len(s), SubSeq(s, k + 1, Len(s)) # <<>>
  PROVE  k + 1 \in 0..Len(s) /\ Tail(SubSeq(s, k + 1, Len(s))) = SubSeq(s, k + 1 + 1, Len(s))
  OBVIOUS

LEMMA PopKeeps ==
  ASSUME PacketsInv, vlan_tag_pop
  PROVE  PacketsInv'
<1>1. pkt \in Layout /\ arrived \in Layout /\ pushed \in Seq(Nat)
  BY DEF PacketsInv
<1>2. pkt.tags \in Seq(Nat) /\ pkt.len \in Nat /\ arrived.len \in Nat /\ arrived.tags \in Seq(Nat)
  BY <1>1 DEF Layout
<1>3. CASE pkt.len < EthLen + TagLen
  <2>1. UNCHANGED <<pkt, arrived, pushed, cursor>>
    BY <1>3 DEF vlan_tag_pop
  <2> QED
    BY <2>1 DEF PacketsInv, CursorInside, PushPopNested
<1>4. CASE ~(pkt.len < EthLen + TagLen)
  <2>1. /\ pkt' = [pkt EXCEPT !.tags = Tail(@), !.len = @ - TagLen] /\ pkt.tags # <<>>
        /\ pushed' = (IF pushed = <<>> THEN <<>> ELSE Tail(pushed)) /\ cursor' = Unparsed /\ arrived' = arrived
    BY <1>4 DEF vlan_tag_pop
  <2>2. Tail(pkt.tags) \in Seq(Nat) /\ pushed' \in Seq(Nat)
    BY <1>1, <1>2, <2>1
  <2>3. pkt' \in Layout /\ pkt'.tags = Tail(pkt.tags) /\ pkt'.len = pkt.len - 4 /\ pkt'.proto = pkt.proto /\ pkt'.len >= 0
    <3>1. pkt.len - TagLen \in Nat /\ pkt.len - TagLen = pkt.len - 4
      BY <1>2, <1>4 DEF TagLen, EthLen
    <3> DEFINE ts == Tail(pkt.tags)
    <3> DEFINE n == pkt.len - TagLen
    <3>2. pkt' = [pkt EXCEPT !.tags = ts, !.len = n]
      BY <2>1
    <3>3. ts \in Seq(Nat) /\ n \in Nat /\ n = pkt.len - 4
      BY <2>2, <3>1
    <3> HIDE DEF ts, n
    <3>4. pkt' \in Layout
      BY <1>1, <3>2, <3>3 DEF Layout
    <3>5. pkt'.tags = ts /\ pkt'.len = n /\ pkt'.proto = pkt.proto
      BY <1>1, <3>2, <3>3 DEF Layout
    <3> QED
      BY <3>3, <3>4, <3>5 DEF ts
  <2>4. PICK own \in 0..Len(arrived.tags) :
          /\ pkt.tags = pushed \o OwnFrom(own)
          /\ pkt.len = arrived.len + TagLen * (Len(pushed) - own)
          /\ pkt.proto = arrived.proto
    BY DEF PacketsInv, PushPopNested, OwnFrom
  <2>5. OwnFrom(own) \in Seq(Nat) /\ own \in Int /\ OwnFrom(own)' = OwnFrom(own)
    BY <1>2, <2>1, <2>4 DEF OwnFrom
  <2>8. cursor'.pos = 0
    BY <2>1 DEF Unparsed
  <2>9. cursor'.pos <= pkt'.len
    BY <1>2, <2>3, <2>8
  <2>6. CASE pushed = <<>>
    <3>1. pkt.tags = OwnFrom(own) /\ pushed' = <<>>
      BY <2>1, <2>4, <2>5, <2>6
    <3>2. own + 1 \in 0..Len(arrived.tags) /\ Tail(OwnFrom(own)) = OwnFrom(own + 1)
      BY <1>2, <2>1, <3>1, TailOfSubSeq DEF OwnFrom
    <3>3. OwnFrom(own + 1) \in Seq(Nat)
      BY <1>2, <2>5, <3>2 DEF OwnFrom
    <3>4. pkt'.tags = pushed' \o OwnFrom(own + 1)
      BY <2>3, <3>1, <3>2, <3>3
    <3>5. pkt'.len = arrived.len + TagLen * (Len(pushed') - (own + 1))
      <4>1. Len(pushed) = 0 /\ Len(pushed') = 0
        BY <2>6, <3>1
      <4> QED
        BY <1>2, <2>3, <2>4, <2>5, <4>1 DEF TagLen
    <3>6. PushPopNested'
      BY <2>1, <2>3, <2>4, <3>2, <3>4, <3>5 DEF PushPopNested, OwnFrom
    <3> QED
      BY <1>1, <2>1, <2>2, <2>3, <2>8, <2>9, <3>6 DEF PacketsInv, CursorInside
  <2>7. CASE pushed # <<>>
    <3>1. pushed' = Tail(pushed) /\ Len(pushed') = Len(pushed) - 1 /\ Len(pushed) \in Nat
      BY <1>1, <2>1, <2>7
    <3>2. pkt'.tags = pushed' \o OwnFrom(own)
      BY <1>1, <2>3, <2>4, <2>5, <2>7, <3>1, TailOfConcat
    <3>3. pkt'.len = arrived.len + TagLen * (Len(pushed') - own)
      <4>1. pkt.len = arrived.len + 4 * (Len(pushed) - own) /\ pkt'.len = pkt.len - 4
        BY <2>3, <2>4 DEF TagLen
      <4>2. arrived.len \in Int /\ own \in Int /\ Len(pushed') = Len(pushed) - 1 /\ Len(pushed) \in Int
        BY <1>2, <2>5, <3>1
      <4> QED
        BY <4>1, <4>2 DEF TagLen
    <3>4. PushPopNested'
      BY <2>1, <2>3, <2>4, <3>2, <3>3 DEF PushPopNested, OwnFrom
    <3> QED
      BY <1>1, <2>1, <2>2, <2>3, <2>8, <2>9, <3>4 DEF PacketsInv, CursorInside
  <2> QED
    BY <2>6, <2>7
<1> QED
  BY <1>3, <1>4

LEMMA SwapKeeps ==
  ASSUME PacketsInv, SwapMacs
  PROVE  PacketsInv'
<1>1. pkt \in Layout /\ pkt' = [pkt EXCEPT !.macs = Reverse(@)] /\ UNCHANGED <<cursor, arrived, pushed>>
  BY DEF PacketsInv, SwapMacs
<1>2. pkt.macs \in Seq(STRING)
  BY <1>1 DEF Layout
<1>3. Reverse(pkt.macs) \in Seq(STRING)
  BY <1>2 DEF Reverse
<1>4. pkt' \in Layout /\ pkt'.tags = pkt.tags /\ pkt'.len = pkt.len /\ pkt'.proto = pkt.proto
  BY <1>1, <1>3 DEF Layout
<1> QED
  BY <1>1, <1>4 DEF PacketsInv, CursorInside, PushPopNested

LEMMA PacketsStepKeeps ==
  ASSUME PacketsAssumption, PacketsInv, [PacketsNext]_xvars
  PROVE  PacketsInv'
<1>1. CASE UNCHANGED xvars
  BY <1>1 DEF xvars, PacketsInv, CursorInside, PushPopNested
<1> QED
  BY <1>1, ParsersKeep, PushKeeps, PopKeeps, SwapKeeps DEF PacketsNext

(***************************************************************************)
(* For command lines of any length, and packets of any size with any       *)
(* number of tags: the last option that chooses a mode decides, no parser  *)
(* leaves the cursor behind the end of the packet, and tags come off in    *)
(* the reverse of the order they went on.                                  *)
(***************************************************************************)
THEOREM HelpersAreSound ==
  ASSUME PacketsAssumption
  PROVE  ParamsSpec /\ PacketsSpec => []HelpersSound
<1>1. ParamsInit => ParamsInv
  BY ParamsInitHolds
<1>2. ParamsInv /\ [ParamsNext]_pvars => ParamsInv'
  BY ParamsStepKeeps
<1>3. PacketsInit => PacketsInv
  BY PacketsInitHolds
<1>4. PacketsInv /\ [PacketsNext]_xvars => PacketsInv'
  BY PacketsStepKeeps
<1>5. ParamsInv /\ PacketsInv => HelpersSound
  BY DEF ParamsInv, PacketsInv, HelpersSound
<1> QED
  BY <1>1, <1>2, <1>3, <1>4, <1>5, PTL DEF ParamsSpec, PacketsSpec
=============================================================================
