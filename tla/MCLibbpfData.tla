---------------------------- MODULE MCLibbpfData ----------------------------
(***************************************************************************)
(* Data that libbpf reads and makes, part by part: the records of ring     *)
(* buffers and of perf buffers, type information, and what is in an object *)
(* file: line info, map definitions, externs, programs and their           *)
(* relocations. The parts share no state; a run looks at those in Parts,   *)
(* side by side.                                                           *)
(***************************************************************************)
EXTENDS BpfRingbuf, BpfPerfBuffer, SequencesExt, FiniteSetsExt, TLC
CONSTANTS Parts, Inputs, NoText, m1, m2
VARIABLES part, v1, v2, v3, v4, v5, v6, v7, v8
otherVars == <<v1, v2, v3, v4, v5, v6, v7, v8>>
all == <<part, ringbufVars, perfVars, otherVars>>

(* The two ring buffers are alike. *)
DataSymmetry == Permutations({m1, m2})

-----------------------------------------------------------------------------
(* What callbacks of the ring buffer return. *)
RingbufFailing == {0, -1}

-----------------------------------------------------------------------------
(* Two or three compilation units of one program, and of two programs that *)
(* use the names for different things.                                     *)
(* A: an int, a pointer to A, a pointer to B, two arrays; B: a pointer to A and   *)
(* an enum; a variable of type A, and a function that takes a pointer to A.       *)
DedupName == [int |-> "int", A |-> "A", B |-> "B", pA |-> "", pB |-> "", E |-> "E", arr |-> "", arr2 |-> "", f |-> "f", fp |-> "", v |-> "v"]
DedupKind == [int |-> "int", A |-> "struct", B |-> "struct", pA |-> "ptr", pB |-> "ptr", E |-> "enum", arr |-> "array", arr2 |-> "array",
         f |-> "func", fp |-> "func_proto", v |-> "var"]
DedupRefs == [int |-> <<>>, A |-> <<"int", "pA", "pB", "arr", "arr2">>, B |-> <<"pA", "E">>, pA |-> <<"A">>, pB |-> <<"B">>,
         E |-> <<>>, arr |-> <<"int", "int">>, arr2 |-> <<"int", "int">>, f |-> <<"fp">>, fp |-> <<"int", "pA">>, v |-> <<"A">>]
DedupParts == [int |-> <<>>, A |-> <<"x", "self", "b", "r", "s">>, B |-> <<"a", "e">>, pA |-> <<>>, pB |-> <<>>,
          E |-> <<"X">>, arr |-> <<>>, arr2 |-> <<>>, f |-> <<>>, fp |-> <<"p">>, v |-> <<>>]

(* A unit: which structs and whether the enum is complete, the order, which *)
(* int the program has, whether the two arrays of A have a descriptor each. *)
DedupOrders == {<<"int", "pA", "A", "pB", "B", "E", "arr", "arr2", "fp", "f", "v">>,
           <<"v", "B", "f", "arr2", "arr", "E", "fp", "pB", "A", "pA", "int">>}
DedupUnits == [full : {{"A"}, {"B"}, {"A", "B"}}, enum : BOOLEAN, order : DedupOrders, int : {4, 8}, twice : BOOLEAN]

DedupSel(u, s) == IF s \in {"A", "B"} \ u.full THEN "fwd" ELSE DedupKind[s]
DedupRefsIn(u, s) == IF DedupSel(u, s) = "fwd" THEN <<>>
                ELSE IF u.twice THEN DedupRefs[s] ELSE [k \in DOMAIN DedupRefs[s] |-> IF DedupRefs[s][k] = "arr2" THEN "arr" ELSE DedupRefs[s][k]]
RECURSIVE DedupReach(_, _)
DedupReach(u, S) == LET T == S \cup UNION {ToSet(DedupRefsIn(u, s)) : s \in S} IN IF T = S THEN S ELSE DedupReach(u, T)
DedupPartsIn(u, s) == IF DedupSel(u, s) = "fwd" \/ (s = "E" /\ ~u.enum) THEN <<>> ELSE DedupParts[s]
DedupInfo(u, s) == IF DedupSel(u, s) = "fwd" THEN [of |-> "struct"]
              ELSE IF s = "E" THEN [size |-> 4, vals |-> IF u.enum THEN <<1>> ELSE <<>>]
              ELSE IF s = "int" THEN [size |-> u.int] ELSE [vlen |-> Len(DedupPartsIn(u, s))]
(* What a unit has, from what it defines on; the types with offsets and    *)
(* numbers that count from its own begin.                                  *)
DedupHas(u) ==
  LET R == DedupReach(u, u.full \cup (IF "A" \in u.full THEN {"f", "v"} ELSE {}))
  IN  SelectSeq(u.order, LAMBDA s : s \in R)
DedupStringsOf(u, has) ==
  SelectSeq(FlattenSeq([k \in DOMAIN has |-> <<DedupName[has[k]]>> \o DedupPartsIn(u, has[k])]), LAMBDA x : x # "")
  \o <<IF "A" \in u.full THEN "text" ELSE "other">>
DedupOff(strings, x) == IF x = "" THEN 0 ELSE SelectInSeq(strings, LAMBDA y : y = x)
DedupTypeOf(u, has, strings, s) ==
  [kind |-> DedupSel(u, s), name |-> DedupOff(strings, DedupName[s]), info |-> DedupInfo(u, s),
   names |-> [k \in DOMAIN DedupPartsIn(u, s) |-> DedupOff(strings, DedupPartsIn(u, s)[k])],
   refs |-> [k \in DOMAIN DedupRefsIn(u, s) |-> SelectInSeq(has, LAMBDA r : r = DedupRefsIn(u, s)[k])]]
DedupUnitWith(u, has, strings) == [types |-> [j \in DOMAIN has |-> DedupTypeOf(u, has, strings, has[j])], strs |-> strings]
DedupListed(u, has) == DedupUnitWith(u, has, DedupStringsOf(u, has))
UnitOf[u \in DedupUnits] == DedupListed(u, DedupHas(u))

(* The units one behind the other, each with strings of its own. *)
DedupShifted(t, nt, ns) ==
  [t EXCEPT !.name = IF @ = 0 THEN 0 ELSE @ + ns, !.names = [k \in DOMAIN @ |-> @[k] + ns], !.refs = [k \in DOMAIN @ |-> @[k] + nt]]
DedupPut(acc, unit, nt, ns) ==
  [types |-> acc.types \o [k \in DOMAIN unit.types |-> DedupShifted(unit.types[k], nt, ns)],
   strs |-> acc.strs \o unit.strs,
   line |-> acc.line \o <<ns + Len(unit.strs)>>]
DedupJoined(us) ==
  FoldLeft(LAMBDA acc, u : DedupPut(acc, UnitOf[u], Len(acc.types), Len(acc.strs)), [types |-> <<>>, strs |-> <<>>, line |-> <<>>], us)

(* With split the first unit is the base. *)
DedupWhole(b, first, lines, c) ==
  [types |-> b.types, strs |-> b.strs, unique |-> FALSE, line |-> lines,
   nbase |-> IF c.split THEN Len(first.types) ELSE 0, nstrs |-> IF c.split THEN Len(first.strs) ELSE 0,
   resolve |-> c.resolve, newest |-> c.newest]
DedupFrom(b, c) == DedupWhole(b, UnitOf[c.us[1]], IF c.split THEN Tail(b.line) ELSE b.line, c)
DedupInput(c) == DedupFrom(DedupJoined(c.us), c)

(* A typedef of itself, which no compiler makes. *)
DedupCircle ==
  [types |-> <<[kind |-> "typedef", name |-> 1, info |-> 0, names |-> <<>>, refs |-> <<2>>],
               [kind |-> "const", name |-> 0, info |-> 0, names |-> <<>>, refs |-> <<1>>]>>,
   strs |-> <<"t">>, unique |-> TRUE, line |-> <<>>, nbase |-> 0, nstrs |-> 0, resolve |-> TRUE, newest |-> TRUE]

DedupPlain == {u \in DedupUnits : u.int = 4 /\ ~u.twice}
(* The first unit has its types in the first of the two orders.           *)
DedupFirst == {u \in DedupUnits : u.order[1] = "int"}
DedupFull == {u \in DedupPlain : u.enum}
(* Two units, or three, that complete each other.                         *)
DedupPairs == (DedupPlain \cap DedupFirst) \X DedupPlain
DedupTriples == (DedupFull \cap DedupFirst) \X (DedupFull \cap DedupFirst) \X DedupFull
(* Units that have the arrays twice and once, or ints of different sizes. *)
DedupTwice == {w \in DedupFirst \X DedupUnits : w[1].twice # w[2].twice /\ w[1].int = 4 /\ w[2].int = 4}
DedupDiffer == {w \in DedupFirst \X DedupUnits : ~w[1].twice /\ ~w[2].twice /\ w[1].int # w[2].int}
DedupOf(uss, ways) == [us : uss, split : BOOLEAN, resolve : ways, newest : BOOLEAN]
DedupCases == DedupOf(DedupPairs \cup DedupTriples, BOOLEAN) \cup DedupOf(DedupTwice, {TRUE}) \cup DedupOf(DedupDiffer, {FALSE})

(* Where something of a unit is lost, which LosesNothing asks for: the base *)
(* declares an enum that another unit has with its values; or it declares a *)
(* struct, and the units behind it, tried on the base's types first, have   *)
(* that struct and one that refers to it.                                   *)
DedupEnumOfBase(c) == ~c.us[1].enum /\ \E k \in 2..Len(c.us) : c.us[k].enum
DedupStructOfBase(c) ==
  Len(c.us) = 3 /\ ~c.newest /\ c.us[1].full # {"A", "B"} /\ \A k \in {2, 3} : c.us[k].full = {"A", "B"}
DedupLossy == {c \in DedupCases : c.split /\ c.resolve /\ (DedupEnumOfBase(c) \/ DedupStructOfBase(c))}
DedupInputs == {DedupCircle} \cup {DedupInput(c) : c \in DedupCases \ DedupLossy}
DedupLossyInputs == {DedupInput(c) : c \in DedupLossy}

Dedup == INSTANCE BtfDedup WITH
  input <- v1, pc <- v2, types <- v3, strs <- v4, line <- v5, map <- v6, table <- v7, new <- v8

-----------------------------------------------------------------------------
(* Structs and sections on top of nothing and of a BTF of one struct. *)
BuildStr(s) == [str |-> s]
BuildStruct == <<[kind |-> "struct", name |-> 1, ref |-> 0, vlen |-> 1, kflag |-> FALSE],
            [kind |-> "member", name |-> 2, ref |-> 1, bits |-> 0]>>
BuildStrs == <<BuildStr(""), BuildStr("a"), BuildStr("a")>>
BuildHdr(gap) == [type_off |-> 0, type_len |-> 2, str_off |-> 2 + gap, str_len |-> 3]
BuildRaws == {[hdr |-> BuildHdr(0), cells |-> BuildStruct \o BuildStrs]}

Build == INSTANCE BtfBuild WITH
  btf <- v1, want <- v2, closed <- v3,
  Raws <- BuildRaws, Names <- {"", "a"}, Kinds <- {"struct", "datasec"}, BaseGrows <- FALSE,
  MaxCells <- 3, MaxStrs <- 3

-----------------------------------------------------------------------------
(* Every kind of type, and raw data that is refused. *)
KindsRaws == {[hdr |-> BuildHdr(0), cells |-> BuildStruct]}
AllKinds == INSTANCE BtfBuild WITH
  btf <- v1, want <- v2, closed <- v3,
  Raws <- KindsRaws, Names <- {"", "a"},
  Kinds <- {"int", "ptr", "volatile", "const", "restrict", "array", "struct", "union", "enum", "fwd", "typedef", "func", "func_proto", "var", "datasec"},
  BaseGrows <- FALSE, MaxCells <- 2, MaxStrs <- 3

-----------------------------------------------------------------------------
(* Up to three lines in up to three functions, at any addresses. *)
Linfo == INSTANCE BpfProgLinfo WITH
  info <- v1, at <- v2, idx <- v3, nr <- v4,
  Addrs <- {0, 1, 2, 3, 4}, MaxLines <- 3, MaxFuncs <- 3, MaxLen <- 2

-----------------------------------------------------------------------------
(* Two old definitions of three to seven words, three definitions in types *)
(* of which one is a map of maps, sections of data, and relocations.       *)
DefsInt4  == [kind |-> "int", size |-> 4]
DefsInt8  == [kind |-> "int", size |-> 8]
DefsBad   == [kind |-> "func", size |-> -1]
DefsPtr(t) == [kind |-> "ptr", size |-> 8, to |-> t]
DefsN(n)  == DefsPtr([kind |-> "array", size |-> 4 * n, n |-> n, to |-> DefsInt4])
DefsF(name, type) == [name |-> name, type |-> type]
DefsVar_(name, off, fs, slots) ==
  [name |-> name, off |-> off, size |-> 8 * (Len(fs) + slots), linkage |-> "global",
   type |-> [kind |-> "typedef", to |-> [kind |-> "struct", size |-> 8 * Len(fs), members |-> fs]]]

DefsOuter(type, slots) ==
  LET inner == [kind |-> "struct", size |-> 16, members |-> <<DefsF("type", DefsN(2)), DefsF("key", DefsPtr(DefsInt4))>>]
  IN  DefsVar_("outer", 0, <<DefsF("type", DefsN(type)), DefsF("key_size", DefsN(4)),
                         DefsF("values", [kind |-> "array", size |-> 0, n |-> 0, to |-> DefsPtr(inner)])>>, slots)
DefsFields == {DefsF("key", DefsPtr(DefsInt4)), DefsF("key", DefsPtr(DefsBad)), DefsF("key", DefsPtr(DefsInt8)), DefsF("key_size", DefsN(4)), DefsF("key_size", DefsN(8)), DefsF("value", DefsPtr(DefsInt8)),
           DefsF("value_size", DefsN(8)), DefsF("max_entries", DefsN(3)), DefsF("unknown", DefsN(1)), DefsF("pinning", DefsN(1)), DefsF("map_flags", DefsInt4)}
DefsLater  == {DefsF("key", DefsPtr(DefsInt4)), DefsF("key", DefsPtr(DefsInt8)), DefsF("key_size", DefsN(8)), DefsF("value_size", DefsN(8)), DefsF("value", DefsPtr(DefsInt4))}
DefsA(f, g) == DefsVar_("a", 64, <<DefsF("type", DefsN(1)), f, g>>, 0)
DefsB(f)    == DefsVar_("b", 96, <<f, DefsF("type", DefsN(1))>>, 0)
DefsData    == <<[name |-> "data", sec |-> 5, size |-> 8], [name |-> "rodata", sec |-> 6, size |-> 8], [name |-> "bss", sec |-> 7, size |-> 8]>>
DefsRel(slot, to) == [off |-> 16 + 8 * (slot - 1), name |-> to, sec |-> 3]

DefsWords(k) == SubSeq(<<1, 4, 8, 16, 2, 0, 7>>, 1, k)
DefsWordsY(k) == SubSeq(<<2, 4, 4, 3, 1, 0, 0>>, 1, k)
DefsLegacy(k, named) ==
  IF k = 0 THEN [syms |-> <<>>, words |-> <<>>, legacy |-> <<>>]
  ELSE [syms |-> <<[sec |-> 2, value |-> 0, name |-> "x"], [sec |-> 1, value |-> 0, name |-> "prog"]>>
                 \o (IF named THEN <<[sec |-> 2, value |-> k, name |-> "y"]>> ELSE <<>>),
        words |-> DefsWords(k) \o DefsWordsY(k),
        legacy |-> [x |-> SubSeq(DefsWords(k) \o <<0, 0, 0, 0, 0>>, 1, 5), y |-> SubSeq(DefsWordsY(k) \o <<0, 0, 0, 0, 0>>, 1, 5)]]

(* Each order of the relocations of slots 1 and 3 of three. *)
DefsElfs ==
  {[syms |-> l.syms, words |-> l.words, legacy |-> l.legacy, strict |-> s, others |-> n,
    vars |-> <<DefsOuter(ty, 3), DefsA(f, g), DefsB(g)>>, data |-> SubSeq(DefsData, 1, d),
    relos |-> IF fwd THEN <<DefsRel(1, "a"), DefsRel(3, "b")>> ELSE <<DefsRel(3, "b"), DefsRel(1, "a")>>,
    means |-> {[map |-> "outer", slot |-> 1, to |-> "a"], [map |-> "outer", slot |-> 3, to |-> "b"]}] :
     l \in {DefsLegacy(k, nm) : k \in {0, 3, 5, 6, 7}, nm \in BOOLEAN}, s \in BOOLEAN, n \in {0, 2}, f \in DefsFields, g \in DefsLater,
     d \in {3}, ty \in {1, 12, 13}, fwd \in BOOLEAN}

Defs == INSTANCE BpfMapDefs WITH
  elf <- v1, at <- v2, maps <- v3, array <- v4, todo <- v5,
  Elfs <- DefsElfs, DefWords <- 5, MapsSec <- 2, BtfSec <- 3

-----------------------------------------------------------------------------
(* Two or three externs, two lines of Kconfig in each text, two symbols.     *)
(* Names: 0 is LINUX_KERNEL_VERSION, 1 and 2 start with CONFIG_, 3 does not, *)
(* 5 and 6 are symbols of the kernel.  Bytes have one bit.                   *)
ConfigE(n, kind, sz, signed, weak) ==
  [name |-> n, sec |-> "kcfg", kind |-> kind, sz |-> sz, weak |-> weak, typed |-> FALSE, signed |-> signed,
   align |-> IF kind = "chars" THEN 1 ELSE sz]
ConfigS(n, typed, weak) ==
  [name |-> n, sec |-> "ksym", kind |-> "none", sz |-> 4, align |-> 4, signed |-> FALSE, weak |-> weak, typed |-> typed]

ConfigKinds(n, weak) ==
  {ConfigE(n, "bool", 1, FALSE, weak), ConfigE(n, "tristate", 4, FALSE, weak), ConfigE(n, "chars", 3, FALSE, weak),
   ConfigE(n, "int", 1, TRUE, weak), ConfigE(n, "int", 8, TRUE, weak), ConfigE(n, "int", 2, FALSE, weak), ConfigE(n, "int", 4, TRUE, weak)}
ConfigConfigObjects == {<<a, b, c>> : a \in ConfigKinds(1, FALSE), b \in ConfigKinds(2, TRUE), c \in {ConfigE(0, "int", 4, FALSE, FALSE)}}
                   \cup {<<ConfigE(3, "int", 4, FALSE, TRUE)>>, <<ConfigE(1, "int", 3, FALSE, TRUE)>>}
ConfigValue == {[k |-> "tri", tri |-> v] : v \in {"y", "m"}} \cup {[k |-> "str", len |-> l, closed |-> TRUE] : l \in {0, 4}}
         \cup {[k |-> "str", len |-> 1, closed |-> FALSE]}
         \cup {[k |-> "num", v |-> v] : v \in {1, 9, 250, 255}} \cup {[k |-> "bad"]}
ConfigLine == {[name |-> 1, value |-> v] : v \in ConfigValue}
        \cup {[name |-> n, value |-> v] : n \in {2, 3}, v \in {[k |-> "tri", tri |-> "n"], [k |-> "num", v |-> 0]}}
ConfigTexts == {NoText, <<>>} \cup {<<l>> : l \in ConfigLine}
ConfigLongTexts == ConfigTexts \cup {<<[name |-> 1, value |-> [k |-> "num", v |-> 1]], l>> : l \in ConfigLine}
ConfigKsymObjects == {<<a, b>> : a \in {ConfigS(5, t, w) : t, w \in BOOLEAN}, b \in {ConfigS(6, t, w) : t, w \in BOOLEAN}}
ConfigKallsyms == {<<>>} \cup [1..3 -> {<<5, 1>>, <<5, 2>>, <<6, 3>>, <<7, 4>>}]
ConfigVmlinux == {[n \in {} |-> "same"]} \cup [{5} -> {"same", "other"}]
ConfigModules == {<<>>} \cup {<<x, y>> : x \in [{5, 6} -> {"same", "other"}], y \in [{6} -> {"same"}]} \cup {<<y>> : y \in [{6} -> {"same"}]}
ConfigNone == {<<>>}
ConfigNoText == {NoText}
ConfigNoVars == {[n \in {} |-> "same"]}
ConfigNoMods == {<<>>}

Config == INSTANCE BpfExterns WITH
  obj <- v1, given <- v2, at <- v3, offset <- v4, set <- v5, val <- v6,
  Objects <- ConfigConfigObjects, Extras <- ConfigLongTexts, Systems <- ConfigTexts,
  Kallsyms <- ConfigNone, Vmlinux <- ConfigNoVars, Modules <- ConfigNoMods, Version <- 0,
  Configs <- {1, 2}, Kver <- 5, ByteBits <- 1

-----------------------------------------------------------------------------
(* Externs of the kernel, in kallsyms and in the types of its modules. *)
Symbols == INSTANCE BpfExterns WITH
  obj <- v1, given <- v2, at <- v3, offset <- v4, set <- v5, val <- v6,
  Objects <- ConfigKsymObjects, Extras <- ConfigNoText, Systems <- ConfigNoText,
  Kallsyms <- ConfigKallsyms, Vmlinux <- ConfigVmlinux, Modules <- ConfigModules, Version <- 0,
  Configs <- {1, 2}, Kver <- 5, ByteBits <- 1

-----------------------------------------------------------------------------
(* Section 1 is .text with subprograms f, g and h, section 2 has two main    *)
(* programs.  Every function has two instructions; what they are varies, and *)
(* so does how the compiler writes a call: to a global function, to a static *)
(* one of another section, or of its own.                                    *)
RelocPlace == [f |-> [sec |-> 1, off |-> 0], g |-> [sec |-> 1, off |-> 2], h |-> [sec |-> 1, off |-> 4],
          m |-> [sec |-> 2, off |-> 0], n |-> [sec |-> 2, off |-> 2]]
RelocFuncs  == DOMAIN RelocPlace
RelocGlobal == {"f", "m", "n"}
RelocMaps    == <<[kind |-> "map", off |-> 0, fd |-> 31], [kind |-> "map", off |-> 8, fd |-> 32], [kind |-> "data", off |-> 0, fd |-> 33]>>
RelocExterns == <<[kind |-> "kcfg", off |-> 12], [kind |-> "ksym", id |-> 41, fd |-> 42]>>

(* An instruction, and its relocation if it has one. *)
RelocInsn(a, o) ==
  LET x(code, imm) == [code |-> code, imm |-> imm, imm2 |-> 0, org |-> o] IN
  CASE a[1] = "call" -> x("call", IF a[2] \in RelocGlobal THEN -1
                                  ELSE IF RelocPlace[a[2]].sec = RelocPlace[o[1]].sec THEN RelocPlace[a[2]].off - (RelocPlace[o[1]].off + o[2]) - 1
                                  ELSE RelocPlace[a[2]].off - 1)
    [] a[1] = "data" -> x("ld", a[2])
    [] a[1] \in {"map", "extern"} -> x("ld", 0)
    [] OTHER -> x("other", 0)
RelocRel(a, o) ==
  LET y(kind, sec, value) == <<[sec |-> RelocPlace[o[1]].sec, insn |-> RelocPlace[o[1]].off + o[2],
                                sym |-> [kind |-> kind, sec |-> sec, value |-> value]]>> IN
  CASE a[1] = "call" /\ a[2] \in RelocGlobal -> y("func", RelocPlace[a[2]].sec, RelocPlace[a[2]].off)
    [] a[1] = "call" /\ RelocPlace[a[2]].sec # RelocPlace[o[1]].sec -> y("func", RelocPlace[a[2]].sec, 0)
    [] a[1] = "map" -> y("map", 3, a[2])
    [] a[1] = "data" -> y("data", 4, a[3])
    [] a[1] = "extern" -> y("extern", 0, a[2])
    [] OTHER -> <<>>
RelocMeans(a) ==
  CASE a[1] = "map" -> <<"ld", IF a[2] = 0 THEN 31 ELSE 32, 0>>
    [] a[1] = "data" -> <<"ld", 33, a[2] + a[3]>>
    [] a[1] = "extern" -> IF a[2] = 1 THEN <<"ld", 34, 12>> ELSE <<"ld", 41, 42>>
    [] OTHER -> a

RelocElf(body, bare) ==
  LET o == <<<<"f", 0>>, <<"f", 1>>, <<"g", 0>>, <<"g", 1>>, <<"h", 0>>, <<"h", 1>>, <<"m", 0>>, <<"m", 1>>, <<"n", 0>>, <<"n", 1>>>>
  IN  [size |-> <<6, 4>>, maps |-> RelocMaps, externs |-> RelocExterns,
       syms |-> {[name |-> f, sec |-> RelocPlace[f].sec, off |-> RelocPlace[f].off, size |-> 2,
                  insns |-> [k \in 1..2 |-> RelocInsn(body[<<f, k - 1>>], <<f, k - 1>>)]] : f \in RelocFuncs},
       relocs |-> FlattenSeq([k \in DOMAIN o |-> RelocRel(body[o[k]], o[k])]),
       info |-> [func |-> <<SelectSeq(<<0, 2, 4>>, LAMBDA i : i \notin bare), <<0, 2>>>>,
                 line |-> <<<<0, 1, 2, 4, 5>>, <<1, 3>>>>],
       means |-> [x \in DOMAIN body |-> RelocMeans(body[x])]]

RelocOp == <<"op">>
RelocAtoms     == {RelocOp, <<"call", "g">>, <<"call", "h">>, <<"call", "f">>, <<"map", 8>>}
RelocMainAtoms == {<<"call", "f">>, <<"call", "g">>, <<"call", "h">>, <<"data", 0, 4>>, <<"data", 4, 0>>, <<"extern", 1>>}
(* How f and g end, in two ways unless it is plainly.                        *)
RelocEnds == {x \in RelocAtoms \X RelocAtoms : x[1] = x[2] => x[1] = RelocOp}
RelocElfs ==
  {RelocElf([x \in RelocFuncs \X {0, 1} |->
          CASE x = <<"m", 0>> -> a [] x = <<"m", 1>> -> b [] x = <<"n", 0>> -> c [] x = <<"n", 1>> -> RelocOp
            [] x = <<"f", 1>> -> d [] x = <<"g", 1>> -> e [] x = <<"h", 0>> -> i [] x = <<"g", 0>> -> j [] OTHER -> RelocOp],
       bare) : a \in RelocMainAtoms, b \in {RelocOp, <<"call", "f">>}, c \in {RelocOp, <<"call", "g">>, <<"call", "h">>, <<"data", 4, 0>>},
               <<d, e>> \in RelocEnds, i \in {RelocOp, <<"call", "g">>},
               <<j, bare>> \in {<<RelocOp, {}>>, <<RelocOp, {4}>>, <<<<"extern", 2>>, {4}>>}}

Reloc == INSTANCE BpfRelocate WITH
  elf <- v1, at <- v2, progs <- v3, stack <- v4,
  Elfs <- RelocElfs, Text <- 1, Kconfig <- 34

-----------------------------------------------------------------------------
(* One local struct, in the forms kernels have given it, and relocations of *)
(* every kind against it.                                                   *)
CoreU(n) == [kind |-> "int", size |-> n, signed |-> FALSE, off |-> 0]
CoreS(n) == [kind |-> "int", size |-> n, signed |-> TRUE, off |-> 0]
CorePtrT == [kind |-> "ptr", size |-> 8, to |-> CoreU(4), signed |-> FALSE]
CoreEnum(vals) == [kind |-> "enum", size |-> 4, name |-> <<"e">>, vals |-> vals, signed |-> FALSE]
CoreDef(t) == [kind |-> "typedef", to |-> t]
CoreArr(t, n) == [kind |-> "array", n |-> n, to |-> t]
CoreM(name, off, t) == [name |-> IF name = "" THEN <<>> ELSE <<name>>, off |-> off, type |-> t, bits |-> 0]
CoreB(name, off, t, bits) == [CoreM(name, off, t) EXCEPT !.bits = bits]
CoreSt(name, size, ms) == [kind |-> "struct", size |-> size, name |-> name, members |-> ms, signed |-> FALSE]
CoreFlavour == <<"s", "_", "_", "_", "o">>

CoreE1 == CoreEnum(<<[name |-> <<"x">>, val |-> 5], [name |-> <<"y">>, val |-> 6]>>)
CoreE2 == CoreEnum(<<[name |-> <<"y", "_", "_", "_", "n">>, val |-> 9], [name |-> <<"x">>, val |-> 5]>>)
(* a, b: numbers; p: pointer; f: bit field; n: nested struct with w; v: array; e: enum *)
CoreNest(off) == CoreSt(<<"n">>, 8, <<CoreM("w", off, CoreU(4))>>)
CoreLocal == CoreSt(CoreFlavour, 40, <<CoreM("a", 0, CoreU(4)), CoreM("b", 32, CoreS(4)), CoreB("f", 64, CoreU(4), 5), CoreM("n", 96, CoreNest(32)), CoreM("v", 160, CoreArr(CoreU(2), 3)),
                           CoreM("p", 256, CorePtrT), CoreM("e", 224, CoreE1)>>)
CoreK1 == CoreSt(<<"s">>, 40, <<CoreM("b", 0, CoreS(4)), CoreM("a", 32, CoreDef(CoreU(4))), CoreB("f", 62, CoreU(4), 5), CoreM("n", 96, CoreNest(0)), CoreM("v", 160, CoreArr(CoreU(2), 3)), CoreM("e", 224, CoreE2)>>)
(* a and f in what has no name, and larger. *)
CoreK2 == CoreSt(<<"s">>, 48, <<CoreM("b", 0, CoreS(8)), CoreM("", 32, CoreSt(<<>>, 24, <<CoreM("q", 0, CoreU(4)), CoreM("", 32, [CoreSt(<<>>, 8, <<CoreM("a", 0, CoreU(8)), CoreB("f", 3, CoreU(1), 5)>>) EXCEPT !.kind = "union"])>>)),
                       CoreM("p", 256, CorePtrT), CoreM("v", 320, CoreArr(CoreU(2), 0))>>)
(* As K1 with another b, as a flavour of the kernel. *)
CoreK3 == CoreSt(<<"s", "_", "_", "_", "k">>, 40, <<CoreM("a", 32, CoreU(4)), CoreM("b", 128, CoreS(4)), CoreB("f", 57, CoreU(2), 8), CoreM("v", 160, CoreArr(CoreU(2), 2)), CoreM("p", 0, CorePtrT)>>)
(* As K1 with a of eight bytes. *)
CoreK4 == CoreSt(<<"s">>, 40, <<CoreM("b", 0, CoreS(4)), CoreM("a", 32, CoreU(8)), CoreB("f", 200, CoreU(1), 1), CoreM("n", 96, CorePtrT)>>)
CoreK5 == CoreSt(<<"t">>, 4, <<CoreM("a", 0, CoreU(4))>>)
CoreAll == <<CoreK1, CoreK2, CoreK3, CoreK4, CoreK5>>
CoreC(k) == [id |-> 100 + k, t |-> CoreAll[k]]

CoreInsn(class, v, sz) == [class |-> class, imm |-> IF class = "mem" THEN 0 ELSE v, off |-> IF class = "mem" THEN v ELSE 0, sz |-> sz, wide |-> class = "ldimm64"]
CoreR(kind, raw, path, insn) == [kind |-> kind, type |-> "s", raw |-> raw, path |-> path, insn |-> insn, load |-> TRUE]
CoreRelos ==
  [a |-> CoreR("byte_off", <<0, 0>>, <<<<"a">>>>, CoreInsn("mem", 0, 4)), b |-> CoreR("byte_off", <<0, 1>>, <<<<"b">>>>, CoreInsn("mem", 4, 4)),
   alu |-> CoreR("byte_off", <<0, 1>>, <<<<"b">>>>, CoreInsn("alu", 4, 4)),
   f |-> CoreR("byte_off", <<0, 2>>, <<<<"f">>>>, CoreInsn("mem", 8, 4)), fl |-> CoreR("lshift", <<0, 2>>, <<<<"f">>>>, CoreInsn("alu", 59, 0)),
   w |-> CoreR("byte_off", <<0, 3, 0>>, <<<<"n">>, <<"w">>>>, CoreInsn("mem", 16, 4)), v |-> CoreR("byte_off", <<0, 4, 2>>, <<<<"v">>, 2>>, CoreInsn("mem", 24, 2)),
   p |-> CoreR("byte_off", <<0, 5>>, <<<<"p">>>>, CoreInsn("mem", 32, 8)), psz |-> CoreR("byte_sz", <<0, 5>>, <<<<"p">>>>, CoreInsn("ldimm64", 8, 0)),
   pex |-> CoreR("field_exists", <<0, 5>>, <<<<"p">>>>, CoreInsn("alu", 1, 0)), size |-> CoreR("type_size", <<0>>, <<>>, CoreInsn("ldimm64", 40, 0)),
   ex |-> CoreR("type_exists", <<0>>, <<>>, CoreInsn("alu", 1, 0)), id |-> CoreR("type_target", <<0>>, <<>>, CoreInsn("ldimm64", 1, 0)),
   lid |-> CoreR("type_local", <<0>>, <<>>, CoreInsn("ldimm64", 1, 0)), sg |-> CoreR("signed", <<0, 1>>, <<<<"b">>>>, CoreInsn("alu", 1, 0)),
   se |-> CoreR("signed", <<0, 6>>, <<<<"e">>>>, CoreInsn("alu", 1, 0)), off |-> [CoreR("byte_off", <<0, 0>>, <<<<"a">>>>, CoreInsn("mem", 0, 4)) EXCEPT !.load = FALSE],
   ev |-> [CoreR("enumval", <<1>>, <<>>, CoreInsn("ldimm64", 6, 0)) EXCEPT !.type = "e"], bad |-> CoreR("byte_off", <<0, 9>>, <<<<"a">>>>, CoreInsn("mem", 0, 4))]

CoreVariants == {<<>>, <<1>>, <<2>>, <<3>>, <<1, 3>>, <<3, 1>>, <<2, 1>>, <<5>>}
CoreKinds    == DOMAIN CoreRelos \ {"se"}
CoreSecond   == {"a", "b", "p", "pex", "v", "ex"}
CoreObjects ==
  {[relos |-> <<CoreRelos[x], CoreRelos[y], CoreRelos[z]>>, local |-> [s |-> [id |-> 1, t |-> CoreLocal], e |-> [id |-> 2, t |-> CoreE1]],
    vmlinux |-> [k \in DOMAIN v |-> CoreC(v[k])] \o <<[id |-> 90, t |-> CoreE2]>>, modules |-> <<<<CoreC(1)>>, <<CoreC(3), CoreC(5)>>>>] :
     x \in CoreKinds, y \in CoreKinds, z \in CoreSecond, v \in CoreVariants}

Core == INSTANCE BpfCoreRelo WITH
  obj <- v1, i <- v2, cache <- v3, loaded <- v4, insns <- v5, err <- v6,
  Objects <- CoreObjects, ShrtMax <- 32767

-----------------------------------------------------------------------------
ASSUME PartsAssumption ==
  RingbufAssumption /\ PerfAssumption /\ Config!ExternsAssumption /\ Symbols!ExternsAssumption

Unused7 == v7 = 0 /\ v8 = 0
Unused6 == v6 = 0 /\ Unused7
Unused5 == v5 = 0 /\ Unused6
Unused3 == v4 = 0 /\ Unused5
Unused0 == v1 = 0 /\ v2 = 0 /\ v3 = 0 /\ Unused3

(* A behaviour is of one part: what is not of the part stays as it starts. *)
AllInit ==
  /\ part \in Parts
  /\ RingbufInit /\ PerfInit
  /\ \/ part \in {"ringbuf", "perf"} /\ Unused0
     \/ part = "dedup" /\ Dedup!Init
     \/ part = "build" /\ Build!Init /\ Unused3
     \/ part = "kinds" /\ AllKinds!Init /\ Unused3
     \/ part = "linfo" /\ Linfo!Init /\ Unused5
     \/ part = "defs" /\ Defs!Init /\ Unused6
     \/ part = "config" /\ Config!Init /\ Unused7
     \/ part = "symbols" /\ Symbols!Init /\ Unused7
     \/ part = "reloc" /\ Reloc!Init /\ Unused5
     \/ part = "core" /\ Core!Init /\ Unused7

(* Parts that may end. *)
Stops == part \notin {"build", "kinds"} /\ UNCHANGED all

OtherNext ==
  \/ part = "dedup" /\ Dedup!Next
  \/ part = "build" /\ Build!Next /\ UNCHANGED <<v4, v5, v6, v7, v8>>
  \/ part = "kinds" /\ AllKinds!Next /\ UNCHANGED <<v4, v5, v6, v7, v8>>
  \/ part = "linfo" /\ Linfo!Next /\ UNCHANGED <<v5, v6, v7, v8>>
  \/ part = "defs" /\ Defs!Next /\ UNCHANGED <<v6, v7, v8>>
  \/ part = "config" /\ Config!Next /\ UNCHANGED <<v7, v8>>
  \/ part = "symbols" /\ Symbols!Next /\ UNCHANGED <<v7, v8>>
  \/ part = "reloc" /\ Reloc!Next /\ UNCHANGED <<v5, v6, v7, v8>>
  \/ part = "core" /\ Core!Next /\ UNCHANGED <<v7, v8>>

AllNext ==
  \/ part = "ringbuf" /\ RingbufNext /\ UNCHANGED <<part, perfVars, otherVars>>
  \/ part = "perf" /\ PerfNext /\ UNCHANGED <<part, ringbufVars, otherVars>>
  \/ OtherNext /\ UNCHANGED <<part, ringbufVars, perfVars>>
  \/ Stops

AllSpec == AllInit /\ [][AllNext]_all
-----------------------------------------------------------------------------
(* The map of types has no circle; behind whatever type one starts the     *)
(* result says what the input said (declarations may have become what they *)
(* declare); no two descriptors say the same; and the line info of         *)
(* .BTF.ext has the offsets of its own strings. With a base this is not    *)
(* claimed of DedupLossy.                                                  *)
DedupSound == part = "dedup" =>
  Dedup!MapEnds /\ Dedup!NothingLost /\ Dedup!NoTwins /\ Dedup!LinesHonored

(* "without any loss of information": the same of whatever input.          *)
LosesNothing == part = "dedup" => Dedup!NothingLost

(* Whatever was parsed or added is what the types say, at the same         *)
(* numbers, whatever calls ran out of memory in between; raw data that is  *)
(* handed out says the same; and no string is there twice.                 *)
BuildSound ==
  /\ part = "build" => Build!SaysWhatWasAdded /\ Build!RawReadsBack /\ Build!DedupedStrings
  /\ part = "kinds" => AllKinds!SaysWhatWasAdded /\ AllKinds!RawReadsBack /\ AllKinds!DedupedStrings

(* The lines are cut into as many runs as there are functions, each from   *)
(* its function to where the next begins, and all but the last go up; what *)
(* the kernel says of a real program is not refused; and the line found in *)
(* one for an address is the last at or before it in the function.         *)
LinfoSound == part = "linfo" =>
  Linfo!CutIntoFunctions /\ Linfo!RealIsAccepted /\ Linfo!FindsItsLine

(* A pointer in a slot is into the array the maps are in; the slots of a   *)
(* map of maps are what the source wrote, wherever the relocations are in  *)
(* the file; sizes agree with the types, in whatever order they are given; *)
(* and a definition of the old kind gets no words of its neighbour.        *)
MapDefsSound == part = "defs" =>
  Defs!PointersLive /\ Defs!SlotsAsWritten /\ Defs!SizesAgree /\ Defs!OwnWords

(* No two externs share a byte and each is aligned; the caller's text      *)
(* overrides the system's and the first line of a text the later ones; a   *)
(* number is held as it was written; and a loaded object has every extern  *)
(* it cannot do without, at the address the kernel gives for it.           *)
ExternsSound ==
  /\ part = "config" => Config!LaidOut /\ Config!CallerOverrides /\ Config!NumbersFit
  /\ part = "symbols" => Symbols!StrongResolved

(* A linked program is itself and, once each, the functions it calls, in   *)
(* any number of steps; every call leads to the first instruction of the   *)
(* function the source calls; what it loads is what its source names; and  *)
(* its debug records are about the instructions they were written for.     *)
RelocSound == part = "reloc" =>
  Reloc!OnlyWhatIsCalled /\ Reloc!CallsReach /\ Reloc!DataRight /\ Reloc!InfosMove

(* A type that is still a candidate agrees with every relocation that was  *)
(* applied; an instruction that reads a field reads all of it and nothing  *)
(* else, or is poisoned; and loading and shifting leave exactly the bits   *)
(* of a bit field.                                                         *)
CoreSound == part = "core" =>
  Core!CandidatesExplainAll /\ Core!ReadsTheField /\ Core!BitsExtracted
=============================================================================
