-------------------------------- MODULE BtfDedup --------------------------------
(***************************************************************************)
(* btf__dedup of btf.c: the type information of several compilation units, *)
(* put one behind the other, is reduced to one descriptor per type. The    *)
(* same struct may be complete in one unit and only declared in another    *)
(* (FWD), and structs refer to each other in circles. With a base BTF only *)
(* the types behind it are reduced, against the base and each other.       *)
(*                                                                         *)
(* A type is a record [kind, name, info, names, refs]: the offset of its   *)
(* name, what else is neither name nor type (size, encoding, offsets of    *)
(* members, values), the offsets of the names of members, enumerators or   *)
(* parameters, and the types it refers to. Type 0 is void.                 *)
(***************************************************************************)
EXTENDS Integers, Sequences, SequencesExt, FiniteSetsExt

CONSTANT Inputs \* [types, nbase, strs, nstrs, unique, line, resolve, newest]

VARIABLES
  input,  \* types; how many are the base's; the strings, how many of them the
          \* base's; whether they are known to be unique; the offsets .BTF.ext has
          \* in line_info and in func_info; resolve FWDs; order of the buckets
  pc,     \* the pass that comes next
  types,  \* the types; those behind the base get rewritten
  strs,   \* string data: the string at each offset
  line,   \* the offsets in line_info
  map,    \* d->map: the canonical type of each, or one of the two below
  table,  \* d->dedup_table: the canonical types, oldest first
  new     \* d->hypot_map as compaction uses it: the number a type gets

vars == <<input, pc, types, strs, line, map, table, new>>

BTF_UNPROCESSED_ID == -1
BTF_IN_PROGRESS_ID == -2
Void == [kind |-> "void", name |-> 0, info |-> 0, names |-> <<>>, refs |-> <<>>]
type_by_id(ts, id) == IF id = 0 THEN Void ELSE ts[id]

(* btf_dedup_new: void, variables and data sections stand for themselves. *)
Init ==
  /\ input \in Inputs
  /\ pc = "prep" /\ types = input.types /\ strs = input.strs /\ line = input.line
  /\ map = [i \in 0..Len(types) |-> IF i = 0 \/ type_by_id(types, i).kind \in {"var", "datasec"}
                                    THEN i ELSE BTF_UNPROCESSED_ID]
  /\ table = <<>> /\ new = [i \in 0..Len(types) |-> BTF_UNPROCESSED_ID]

Base == 1..input.nbase
Own == (input.nbase + 1)..Len(types)
InOrder == [k \in 1..(Len(types) - input.nbase) |-> input.nbase + k]

-----------------------------------------------------------------------------
(* Where strings are referred to, and their new places. *)

TypeStrs(t) == <<t.name>> \o t.names
(* The own offsets btf_for_each_str_off comes by, in its order. *)
StrOffs == SelectSeq(FlattenSeq([k \in DOMAIN InOrder |-> TypeStrs(types[InOrder[k]])]) \o line,
                     LAMBDA o : o > input.nstrs)

FirstAt(ss, s) == CHOOSE o \in DOMAIN ss : ss[o] = s /\ \A p \in 1..(o - 1) : ss[p] # s
(* btf_dedup_strings: strings of the base first, then one copy of each used. *)
StrsDeduped ==
  FoldLeft(LAMBDA ss, o : IF Contains(ss, strs[o]) THEN ss ELSE Append(ss, strs[o]),
           SubSeq(strs, 1, input.nstrs), StrOffs)
(* strs_dedup_remap_str_off *)
remap_str_off(ss, o) == IF o <= input.nstrs THEN o ELSE FirstAt(ss, strs[o])

-----------------------------------------------------------------------------
(* Comparing descriptors. *)

(* All but the references agree: btf_equal_int, btf_equal_enum,            *)
(* btf_shallow_equal_struct, btf_compat_array, btf_compat_fnproto.         *)
Shallow(s, t) == <<s.kind, s.name, s.info, s.names>> = <<t.kind, t.name, t.info, t.names>>
(* btf_equal_common of types that refer, btf_equal_array, btf_equal_fnproto *)
EqualType(s, t) == Shallow(s, t) /\ s.refs = t.refs
is_enum_fwd(t) == t.kind = "enum" /\ t.names = <<>>
(* For an enum, info is its size and the values. *)
compat_enum(s, t) ==
  IF ~is_enum_fwd(s) /\ ~is_enum_fwd(t) THEN Shallow(s, t)
  ELSE s.kind = t.kind /\ s.name = t.name /\ s.info.size = t.info.size

(* resolve_type_id on a map: follow it to its end. *)
resolve_type_id(m, id) ==
  FoldLeft(LAMBDA i, k : IF m[i] >= 0 THEN m[i] ELSE i, id, [k \in DOMAIN types |-> k])
resolve_fwd_id(m, id) ==
  LET end == resolve_type_id(m, id)
  IN  IF type_by_id(types, id).kind = "fwd" /\ type_by_id(types, end).kind # "fwd" THEN end ELSE id

-----------------------------------------------------------------------------
(* Primitive types: map and table as st. *)

Candidates(tbl) == IF input.newest THEN Reverse(tbl) ELSE tbl
FirstEqual(tbl, equal, own) ==
  LET k == SelectInSeq(Candidates(tbl), LAMBDA c : c \in equal) IN IF k = 0 THEN own ELSE Candidates(tbl)[k]
Mapped(st, id, to) ==
  [st EXCEPT !.map[id] = to, !.table = IF to = id THEN Append(@, id) ELSE @]

(* The enum declarations before the candidate the search ends with become  *)
(* this full enum.                                                         *)
EnumType(st, id) ==
  LET t == types[id]
      cs == Candidates(st.table)
      Ends(c) == Shallow(t, types[c]) \/ (input.resolve /\ compat_enum(t, types[c]) /\ is_enum_fwd(t))
      k == SelectInSeq(cs, Ends)
      before == ToSet(SubSeq(cs, 1, IF k = 0 THEN Len(cs) ELSE k - 1))
      filled == {c \in before : input.resolve /\ compat_enum(t, types[c])}
  IN  Mapped([st EXCEPT !.map = [i \in DOMAIN @ |-> IF i \in filled THEN id ELSE @[i]]],
             id, IF k = 0 THEN id ELSE cs[k])

btf_dedup_prim_type(st, id) ==
  CASE types[id].kind = "enum" -> EnumType(st, id)
    [] types[id].kind \in {"int", "fwd"} ->
         Mapped(st, id, FirstEqual(st.table, {c \in ToSet(st.table) : Shallow(types[id], types[c])}, id))
    [] OTHER -> st

-----------------------------------------------------------------------------
(* Structs and unions. An attempt h: [eq, pairs, adjust], pairs <<canonical, *)
(* candidate>> the hypothetical map in the order of hypot_list.            *)

Untried == [eq |-> TRUE, pairs |-> <<>>, adjust |-> FALSE]
Unequal(h) == [h EXCEPT !.eq = FALSE]
identical_arrays(i, j) ==
  type_by_id(types, i).kind = "array" /\ type_by_id(types, j).kind = "array" /\ EqualType(types[i], types[j])
RefOrder(t) == IF t.kind = "array" THEN Reverse(t.refs) ELSE t.refs

(* A canonical type met again must stand against the same candidate type. *)
Agrees(to, cand) == to = cand \/ identical_arrays(to, cand)

RECURSIVE is_equiv(_, _, _, _)
(* Two descriptors, canon's and the candidate's, and what they refer to. *)
CompareTypes(m, t, c, canon, g) ==
  IF t.name # c.name THEN Unequal(g)
  ELSE IF t.kind # c.kind
    THEN CASE ~input.resolve \/ "fwd" \notin {t.kind, c.kind} -> Unequal(g)
           [] t.kind = "fwd" -> IF t.info.of = c.kind THEN g ELSE Unequal(g)
           [] OTHER -> IF c.info.of # t.kind THEN Unequal(g)
                       ELSE [g EXCEPT !.adjust = @ \/ canon \in Base]
  ELSE IF ~(IF t.kind = "enum" /\ input.resolve THEN compat_enum(t, c) ELSE Shallow(t, c))
    THEN Unequal(g)
  ELSE FoldLeft(LAMBDA a, k : is_equiv(m, RefOrder(t)[k], RefOrder(c)[k], a), g,
                [k \in DOMAIN t.refs |-> k])
Compare(m, cand, canon, h) ==
  IF \E p \in ToSet(h.pairs) : p[1] = canon
  THEN IF \E p \in ToSet(h.pairs) : p[1] = canon /\ Agrees(p[2], cand) THEN h ELSE Unequal(h)
  ELSE CompareTypes(m, type_by_id(types, cand), type_by_id(types, canon), canon,
                    [h EXCEPT !.pairs = Append(@, <<canon, cand>>)])
(* btf_dedup_is_equiv on the map m *)
is_equiv(m, cand, canon0, h) ==
  IF ~h.eq \/ resolve_type_id(m, cand) = resolve_type_id(m, canon0) THEN h
  ELSE Compare(m, cand, resolve_fwd_id(m, canon0), h)

KindAt(id) == type_by_id(types, id).kind
(* One round of btf_dedup_merge_hypot_map. *)
MergePair(m, p, adjust) ==
  LET t == resolve_type_id(m, p[2]) c == resolve_type_id(m, p[1])
  IN  IF KindAt(t) # "fwd" /\ KindAt(c) = "fwd" THEN [m EXCEPT ![c] = t]
      ELSE IF adjust THEN m
      ELSE IF KindAt(t) = "fwd" /\ KindAt(c) # "fwd" THEN [m EXCEPT ![t] = c]
      ELSE IF KindAt(t) \in {"struct", "union"} /\ KindAt(c) # "fwd" /\ m[c] >= 0 /\ m[t] < 0
        THEN [m EXCEPT ![t] = c]
      ELSE m
merge_hypot_map(m, h) == FoldLeft(LAMBDA n, p : MergePair(n, p, h.adjust), m, h.pairs)

(* Which of the bucket are tried: a FWD with the same hash must not be. *)
Tried(t, c) == Shallow(t, c)

(* Mutant: a type of the base that would have to change is taken as it is. *)
TryUnadjusted(try, id, c) ==
  LET h == is_equiv(try.map, id, c, Untried)
  IN  IF try.found # id \/ ~Tried(types[id], types[c]) \/ ~h.eq THEN try
      ELSE [map |-> merge_hypot_map(try.map, h), found |-> c]
(* try: the map, and the candidate found *)
TryCandidate(try, id, c) ==
  LET h == is_equiv(try.map, id, c, Untried)
  IN  IF try.found # id \/ ~Tried(types[id], types[c]) \/ ~h.eq THEN try
      ELSE [map |-> merge_hypot_map(try.map, h), found |-> IF h.adjust THEN id ELSE c]
btf_dedup_struct_type(st, id) ==
  IF st.map[id] >= 0 \/ types[id].kind \notin {"struct", "union"} THEN st
  ELSE LET try == FoldLeft(LAMBDA a, c : TryCandidate(a, id, c), [map |-> st.map, found |-> id],
                           Candidates(st.table))
       IN  Mapped([st EXCEPT !.map = try.map], id, try.found)

-----------------------------------------------------------------------------
(* Types that refer to others: now the types are rewritten as well; ret is *)
(* the canonical type, err a circle that no struct is part of.             *)

EqualIn(st, id) == {c \in ToSet(st.table) : EqualType(st.types[id], st.types[c])}
MappedTo(st, id, to) == [Mapped(st, id, to) EXCEPT !.ret = to]
Finished(st, id) == IF st.err THEN st ELSE MappedTo(st, id, FirstEqual(st.table, EqualIn(st, id), id))
Referring(st, id, k) == IF st.err THEN st ELSE [st EXCEPT !.types[id].refs[k] = st.ret]

RECURSIVE btf_dedup_ref_type(_, _)
btf_dedup_ref_type(st, id) ==
  CASE st.err -> st
    [] ~st.err /\ st.map[id] = BTF_IN_PROGRESS_ID -> [st EXCEPT !.err = TRUE]
    [] ~st.err /\ st.map[id] >= 0 -> [st EXCEPT !.ret = resolve_type_id(st.map, id)]
    [] OTHER ->
         Finished(FoldLeft(LAMBDA a, k : Referring(btf_dedup_ref_type(a, a.types[id].refs[k]), id, k),
                           [st EXCEPT !.map[id] = BTF_IN_PROGRESS_ID],
                           [k \in DOMAIN st.types[id].refs |-> k]),
                  id)

-----------------------------------------------------------------------------
(* The passes of btf__dedup. *)

btf_dedup_prep ==
  /\ pc = "prep" /\ pc' = "strings"
  /\ map' = [i \in DOMAIN map |-> IF i \in Base THEN i ELSE map[i]]
  /\ table' = SelectSeq([i \in Base |-> i], LAMBDA i : types[i].kind \notin {"var", "datasec"})
  /\ UNCHANGED <<input, types, strs, line, new>>

btf_dedup_strings ==
  /\ pc = "strings" /\ pc' = "prim"
  /\ IF input.unique THEN UNCHANGED <<types, strs, line>>
     ELSE LET ss == StrsDeduped Off(o) == remap_str_off(ss, o)
          IN  /\ strs' = ss /\ line' = [k \in DOMAIN line |-> Off(line[k])]
              /\ types' = [i \in DOMAIN types |-> IF i \in Base THEN types[i]
                             ELSE [types[i] EXCEPT !.name = Off(@), !.names = [k \in DOMAIN @ |-> Off(@[k])]]]
  /\ UNCHANGED <<input, map, table, new>>

Before == [map |-> map, table |-> table]
Pass(st) == map' = st.map /\ table' = st.table /\ UNCHANGED <<input, types, strs, line, new>>
btf_dedup_prim_types == pc = "prim" /\ pc' = "struct" /\ Pass(FoldLeft(btf_dedup_prim_type, Before, InOrder))
btf_dedup_struct_types == pc = "struct" /\ pc' = "ref" /\ Pass(FoldLeft(btf_dedup_struct_type, Before, InOrder))

btf_dedup_ref_types ==
  /\ pc = "ref"
  /\ LET st == FoldLeft(btf_dedup_ref_type,
                        [map |-> map, table |-> table, types |-> types, ret |-> 0, err |-> FALSE], InOrder)
     IN  /\ pc' = IF st.err THEN "error" ELSE "compact"
         /\ map' = st.map /\ types' = st.types /\ table' = <<>>
  /\ UNCHANGED <<input, strs, line, new>>

btf_dedup_compact_types ==
  /\ pc = "compact" /\ pc' = "remap"
  /\ LET kept == SelectSeq(InOrder, LAMBDA i : map[i] = i)
     IN  /\ new' = [i \in DOMAIN map |-> IF i <= input.nbase THEN i
                      ELSE IF Contains(kept, i) THEN input.nbase + SelectInSeq(kept, LAMBDA j : j = i)
                      ELSE BTF_UNPROCESSED_ID]
         /\ types' = SubSeq(types, 1, input.nbase) \o [k \in DOMAIN kept |-> types[kept[k]]]
  /\ UNCHANGED <<input, strs, line, map, table>>

(* btf_dedup_remap_type_id; types has become shorter, map has not *)
remap_type_id(id) ==
  new[FoldLeft(LAMBDA i, k : IF map[i] >= 0 THEN map[i] ELSE i, id, [k \in 1..Len(input.types) |-> k])]
btf_dedup_remap_types ==
  /\ pc = "remap" /\ pc' = "done"
  /\ types' = [i \in DOMAIN types |-> IF i \in Base THEN types[i]
                 ELSE [types[i] EXCEPT !.refs = [k \in DOMAIN @ |-> remap_type_id(@[k])]]]
  /\ UNCHANGED <<input, strs, line, map, table, new>>

Next == btf_dedup_prep \/ btf_dedup_strings \/ btf_dedup_prim_types \/ btf_dedup_struct_types
        \/ btf_dedup_ref_types \/ btf_dedup_compact_types \/ btf_dedup_remap_types
Spec == Init /\ [][Next]_vars

-----------------------------------------------------------------------------
(* Properties *)

StrAt(ss, o) == IF o = 0 THEN "" ELSE ss[o]
Names(ss, t) == [k \in DOMAIN TypeStrs(t) |-> StrAt(ss, TypeStrs(t)[k])]
Was(i) == type_by_id(input.types, i)
Is(j) == type_by_id(types, j)

(* s before may be described by t after: the same, or completed. *)
Describes(t, s) ==
  \/ s.kind = t.kind /\ Names(input.strs, s) = Names(strs, t) /\ s.info = t.info /\ Len(s.refs) = Len(t.refs)
  \/ /\ input.resolve /\ StrAt(input.strs, s.name) = StrAt(strs, t.name)
     /\ \/ s.kind = "fwd" /\ t.kind = s.info.of
        \/ is_enum_fwd(s) /\ t.kind = "enum" /\ s.info.size = t.info.size

RECURSIVE Holding(_)
(* The largest set of pairs within R that is closed under references. *)
Holding(R) ==
  LET S == {p \in R : Was(p[1]).kind = "fwd" \/ \A k \in DOMAIN Was(p[1]).refs : <<Was(p[1]).refs[k], Is(p[2]).refs[k]>> \in R}
  IN  IF S = R THEN R ELSE Holding(S)
Described == Holding({p \in (0..Len(input.types)) \X (0..Len(types)) : Describes(Is(p[2]), Was(p[1]))})

(* Nothing is lost ("without any loss of information"): behind whatever    *)
(* type one starts from, and along whatever references, the result says    *)
(* what the input said, except that declarations may have become the       *)
(* structs, unions and enums they declare.                                 *)
NothingLost ==
  pc = "done" => LET R == Described IN \A i \in 0..Len(input.types) : <<i, remap_type_id(i)>> \in R

RECURSIVE Alike(_)
Alike(R) ==
  LET S == {p \in R : \A k \in DOMAIN Is(p[1]).refs : <<Is(p[1]).refs[k], Is(p[2]).refs[k]>> \in R}
  IN  IF S = R THEN R ELSE Alike(S)
SameYet == {<<i, j>> \in (1..Len(types)) \X (1..Len(types)) : Shallow(types[i], types[j]) /\ Len(types[i].refs) = Len(types[j].refs)}
           \cup {<<0, 0>>}
(* "each unique type is represented by single BTF type descriptor": behind *)
(* two descriptors of the result, one of them not the base's, there is     *)
(* something that differs, circles of structs included.                    *)
NoTwins ==
  pc = "done" => LET R == Alike(SameYet)
                 IN  \A i \in DOMAIN types, j \in Own : i # j /\ types[i].kind \notin {"var", "datasec"} => <<i, j>> \notin R

(* No circle in the map: whoever follows it comes to a type that stands    *)
(* for itself (or is not mapped yet), so that resolve_type_id returns.     *)
MapEnds ==
  \A i \in DOMAIN map :
    LET end == FoldLeft(LAMBDA j, k : IF map[j] >= 0 THEN map[j] ELSE j, i, [k \in DOMAIN input.types |-> k])
    IN  map[end] \in {end, BTF_UNPROCESSED_ID, BTF_IN_PROGRESS_ID}

(* What line_info refers to is the same string as before (of func_info    *)
(* that is not so: btf_for_each_str_off leaves its offsets as they were).  *)
LinesHonored ==
  pc \notin {"prep", "strings"} =>
    \A k \in DOMAIN line : StrAt(strs, line[k]) = StrAt(input.strs, input.line[k])
=============================================================================
