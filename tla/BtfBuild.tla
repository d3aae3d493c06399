-------------------------------- MODULE BtfBuild --------------------------------
(***************************************************************************)
(* Making and extending type information with btf.c: a BTF that was parsed *)
(* from raw data or is new, and a split BTF on top of it. The first change *)
(* breaks the raw data up into header, types and strings of their own; the *)
(* raw data is put together again when it is asked for, and cached.        *)
(*                                                                         *)
(* Memory is counted in cells: a type takes one, each of its members one   *)
(* more, a string one. Raw data is a header and the cells behind it.       *)
(***************************************************************************)
EXTENDS Integers, Sequences, SequencesExt, FiniteSetsExt

CONSTANTS
  Raws,       \* raw data a BTF may be parsed from: [hdr, cells]
  Names,      \* names the program gives, "" for none
  Kinds,      \* kinds of types the program adds
  BaseGrows,  \* whether the program goes on with the base once it has a split BTF
  MaxCells, MaxStrs \* bounds: cells of types in both, strings in each

VARIABLES
  btf,  \* of "base" and "split": the struct btf, or None
  want, \* what the program had added to each, or its raw data said
  closed \* descriptors closed that were not opened for a BTF

vars == <<btf, want, closed>>

None == [none |-> TRUE]
Who == {"base", "split"}
Exists(x) == btf[x] # None

-----------------------------------------------------------------------------
(* Reading. *)

(* btf__str_by_offset; offsets count cells. *)
RECURSIVE str_by_offset(_, _, _)
str_by_offset(b, x, off) ==
  IF off < b[x].start_str_off THEN str_by_offset(b, "base", off)
  ELSE IF off - b[x].start_str_off < Len(b[x].strs) THEN b[x].strs[off - b[x].start_str_off + 1]
  ELSE "no string"

(* The kinds that have members behind them, and which. *)
MemberOf == [struct |-> "field", union |-> "field", enum |-> "value", func_proto |-> "param", datasec |-> "secinfo"]
btf_type_size(t) == IF t.kind \in DOMAIN MemberOf THEN 1 + t.vlen ELSE 1

(* btf_parse_type_sec: the places where types begin. *)
Indexed(cells) ==
  LET Walk(a, k) == IF k # a.next \/ ~a.ok THEN a
                    ELSE IF "vlen" \notin DOMAIN cells[k] THEN [a EXCEPT !.ok = FALSE]
                    ELSE [a EXCEPT !.offs = Append(@, k), !.next = k + btf_type_size(cells[k])]
      end == FoldLeft(Walk, [next |-> 1, offs |-> <<>>, ok |-> TRUE], [k \in DOMAIN cells |-> k])
  IN  [ok |-> end.ok /\ end.next = Len(cells) + 1, offs |-> end.offs]

(* btf_parse_hdr, btf_parse_str_sec and btf_parse_type_sec *)
Parsed(raw, on_base) ==
  LET h == raw.hdr
      types == SubSeq(raw.cells, h.type_off + 1, h.type_off + h.type_len)
      strs == SubSeq(raw.cells, h.str_off + 1, h.str_off + h.str_len)
      laid == /\ Len(raw.cells) >= h.str_off + h.str_len /\ h.type_off + h.type_len <= h.str_off
              /\ \A k \in DOMAIN types : "kind" \in DOMAIN types[k]
              /\ \A k \in DOMAIN strs : "str" \in DOMAIN strs[k]
      strings == on_base \/ (strs # <<>> /\ strs[1].str = "")
  IN  IF laid /\ strings /\ Indexed(types).ok
      THEN [ok |-> TRUE, types |-> types, offs |-> Indexed(types).offs, strs |-> [k \in DOMAIN strs |-> strs[k].str]]
      ELSE [ok |-> FALSE, types |-> <<>>, offs |-> <<>>, strs |-> <<>>]

(* btf_get_raw_data: one behind the other, the header as it is. *)
Contiguous(r) ==
  [hdr |-> [type_off |-> r.type_off, type_len |-> Len(r.types), str_off |-> r.str_off, str_len |-> Len(r.strs)],
   cells |-> r.types \o [k \in DOMAIN r.strs |-> [str |-> r.strs[k]]]]

(* What type n of x says, read as a user of the BTF does. *)
Said(b, x, n) ==
  LET at == b[x].offs[n]
      t == b[x].types[at]
  IN  [kind |-> t.kind, name |-> str_by_offset(b, x, t.name), ref |-> t.ref,
       members |-> [k \in 1..t.vlen |-> LET m == b[x].types[at + k]
                                        IN  [name |-> str_by_offset(b, x, m.name), ref |-> m.ref,
                                             bits |-> IF t.kflag THEN m.bits ELSE 0]]]

-----------------------------------------------------------------------------
(* btf_new and btf_new_empty. *)

New(start_id, start_str_off, p, hdr, raw) ==
  [start_id |-> start_id, start_str_off |-> start_str_off, types |-> p.types, offs |-> p.offs, strs |-> p.strs,
   type_off |-> hdr.type_off, str_off |-> hdr.str_off, modifiable |-> FALSE, strs_deduped |-> FALSE,
   raw |-> raw, fd |-> FALSE]
EmptyHdr(n) == [type_off |-> 0, type_len |-> 0, str_off |-> 0, str_len |-> n]
EmptyRaw(n) == [hdr |-> EmptyHdr(n), cells |-> [k \in 1..n |-> [str |-> ""]]]
AllSaid(b, x) == [n \in DOMAIN b[x].offs |-> Said(b, x, n)]

(* The base is there from the begin, new or parsed. *)
Init ==
  \E raw \in Raws \cup {EmptyRaw(1)} :
    LET b == New(1, 0, Parsed(raw, FALSE), raw.hdr, raw)
    IN  /\ Parsed(raw, FALSE).ok
        /\ btf = [base |-> b, split |-> None]
        /\ want = [base |-> AllSaid([base |-> b], "base"), split |-> <<>>]
        /\ closed = {}

(* btf_new of data that cannot be parsed: freed with the descriptor at 0. *)
NewFails ==
  /\ \E raw \in Raws : ~Parsed(raw, FALSE).ok
  /\ closed' = closed \cup {0}
  /\ UNCHANGED <<btf, want>>

(* btf__new_empty_split *)
NewSplit ==
  /\ ~Exists("split")
  /\ btf' = [btf EXCEPT !["split"] = New(Len(btf["base"].offs) + 1, Len(btf["base"].strs), Parsed(EmptyRaw(0), TRUE),
                                         EmptyHdr(0), EmptyRaw(0))]
  /\ UNCHANGED <<want, closed>>

-----------------------------------------------------------------------------
(* Changing. *)

(* Mutant: a BTF in three parts keeps its raw data. *)
ensure_modifiableKeep(r) ==
  IF r.modifiable THEN r
  ELSE [r EXCEPT !.modifiable = TRUE, !.raw = None,
                 !.strs_deduped = @ \/ r.strs = <<>> \/ (r.start_id = 1 /\ Len(r.strs) = 1)]
(* btf_ensure_modifiable *)
ensure_modifiable(r) ==
  IF r.modifiable THEN [r EXCEPT !.raw = None]
  ELSE [r EXCEPT !.modifiable = TRUE, !.raw = None,
                 !.strs_deduped = @ \/ r.strs = <<>> \/ (r.start_str_off = 0 /\ Len(r.strs) = 1)]

HasBase(x) == x = "split"
Own(r, s) == IF Contains(r.strs, s) THEN r.start_str_off + SelectInSeq(r.strs, LAMBDA t : t = s) - 1 ELSE -1
(* btf__find_str: the base first; each that is searched has to be in parts. *)
find_str(b, x, s) ==
  LET below == IF HasBase(x) THEN Own(b["base"], s) ELSE -1
      c == IF HasBase(x) THEN [b EXCEPT !["base"] = ensure_modifiable(@)] ELSE b
  IN  IF below >= 0 THEN [b |-> c, off |-> below]
      ELSE [b |-> [c EXCEPT ![x] = ensure_modifiable(@)], off |-> Own(b[x], s)]

(* btf__add_str *)
add_str(b, x, s) ==
  LET f == find_str(b, x, s)
  IN  IF f.off >= 0 THEN f
      ELSE [b |-> [f.b EXCEPT ![x].strs = Append(@, s)], off |-> b[x].start_str_off + Len(b[x].strs)]
(* An empty name is offset 0 and no string is added. *)
Named(b, x, s) == IF s = "" THEN [b |-> b, off |-> 0] ELSE add_str(b, x, s)

(* How far a call comes before it runs out of memory. *)
Stages == {"parts", "string", "all"}

MayChange(x) == Exists(x) /\ (x = "split" \/ ~Exists("split") \/ BaseGrows)
Cells(x) == IF Exists(x) THEN Len(btf[x].types) ELSE 0
InBounds(x) == Cells("base") + Cells("split") < MaxCells /\ Len(btf[x].strs) < MaxStrs

(* What adding a type does, whatever its kind, and btf_commit_type. *)
AddType(x, kind, s, ref, upto) ==
  /\ MayChange(x) /\ InBounds(x) /\ kind \in Kinds
  /\ LET parts == [btf EXCEPT ![x] = ensure_modifiable(@)]
         n == Named(parts, x, s)
         t == [kind |-> kind, name |-> n.off, ref |-> ref, vlen |-> 0, kflag |-> FALSE]
     IN  CASE upto = "parts" -> btf' = parts /\ UNCHANGED <<want, closed>>
           [] upto = "string" -> btf' = n.b /\ UNCHANGED <<want, closed>>
           [] upto = "all" ->
                /\ btf' = [n.b EXCEPT ![x].offs = Append(@, Len(n.b[x].types) + 1), ![x].types = Append(@, t), ![x].str_off = @ + 1]
                /\ UNCHANGED closed
                /\ want' = [want EXCEPT ![x] = Append(@, [kind |-> kind, name |-> s, ref |-> ref, members |-> <<>>])]

btf__add_int(x, s, upto) == s # "" /\ AddType(x, "int", s, 0, upto)
btf__add_array(x, upto) == AddType(x, "array", "", 1, upto)
btf_add_composite(x, s, upto) == \E kind \in {"struct", "union"} : AddType(x, kind, s, 0, upto)
btf__add_enum(x, s, upto) == AddType(x, "enum", s, 0, upto)
btf__add_func_proto(x, upto) == AddType(x, "func_proto", "", 1, upto)
btf__add_var(x, s, upto) == s # "" /\ AddType(x, "var", s, 1, upto)
btf__add_datasec(x, s, upto) == s # "" /\ AddType(x, "datasec", s, 0, upto)
btf_add_ref_kind(x, kind, s, ref, upto) == AddType(x, kind, s, ref, upto)
btf__add_ptr(x, upto) == \E kind \in {"ptr", "volatile", "const", "restrict"} : btf_add_ref_kind(x, kind, "", 1, upto)
btf__add_typedef(x, s, upto) == s # "" /\ btf_add_ref_kind(x, "typedef", s, 1, upto)
(* A forward of an enum is an enum without values. *)
btf__add_fwd(x, s, upto) == s # "" /\ (btf_add_ref_kind(x, "fwd", s, 0, upto) \/ btf__add_enum(x, s, upto))
btf__add_func(x, s, upto) == s # "" /\ btf_add_ref_kind(x, "func", s, 1, upto)

(* The last type, looked up again, has a member more; the memory of the    *)
(* types moves when btf_add_mem finds no room in it.                       *)
Counted(r, moved, bits) ==
  [r EXCEPT !.types[Last(r.offs)].vlen = @ + 1, !.types[Last(r.offs)].kflag = @ \/ bits > 0]

(* A member, to the last type only, when that is of a kind that has it. *)
AddMember(x, member, s, ref, bits, upto) ==
  /\ MayChange(x) /\ InBounds(x) /\ btf[x].offs # <<>>
  /\ LET kind == btf[x].types[Last(btf[x].offs)].kind
         parts == [btf EXCEPT ![x] = ensure_modifiable(@)]
         n == Named(parts, x, s)
         m == [kind |-> "member", name |-> n.off, ref |-> ref, bits |-> bits]
     IN  /\ kind \in DOMAIN MemberOf /\ MemberOf[kind] = member
         /\ CASE upto = "parts" -> btf' = parts /\ UNCHANGED <<want, closed>>
              [] upto = "string" -> btf' = n.b /\ UNCHANGED <<want, closed>>
              [] upto = "all" ->
                   /\ \E moved \in BOOLEAN : btf' = [n.b EXCEPT ![x] = [Counted(@, moved, bits) EXCEPT !.types = Append(@, m), !.str_off = @ + 1]]
                   /\ UNCHANGED closed
                   /\ want' = [want EXCEPT ![x][Len(want[x])].members = Append(@, [name |-> s, ref |-> ref, bits |-> bits])]

btf__add_field(x, s, bits, upto) == AddMember(x, "field", s, 1, bits, upto)
btf__add_enum_value(x, s, upto) == s # "" /\ AddMember(x, "value", s, 0, 0, upto)
btf__add_func_param(x, s, upto) == AddMember(x, "param", s, 1, 0, upto)
btf__add_datasec_var_info(x, upto) == AddMember(x, "secinfo", "", 1, 0, upto)

FindStr(x, s) == Exists(x) /\ s # "" /\ btf' = find_str(btf, x, s).b /\ UNCHANGED <<want, closed>>
AddStr(x, s) == MayChange(x) /\ InBounds(x) /\ s # "" /\ btf' = add_str(btf, x, s).b /\ UNCHANGED <<want, closed>>

(* btf__get_raw_data, and btf__load, which needs it and may be refused. *)
RawOf(r) == IF r.raw # None THEN r.raw ELSE Contiguous(r)
GetRaw(x) == Exists(x) /\ btf' = [btf EXCEPT ![x].raw = RawOf(btf[x])] /\ UNCHANGED <<want, closed>>
Load(x) ==
  /\ Exists(x) /\ ~btf[x].fd
  /\ \E taken \in BOOLEAN : btf' = [btf EXCEPT ![x].raw = RawOf(btf[x]), ![x].fd = taken]
  /\ UNCHANGED <<want, closed>>

Next ==
  \/ NewSplit \/ NewFails
  \/ \E x \in Who, s \in Names, upto \in Stages :
       \/ btf__add_int(x, s, upto) \/ btf_add_composite(x, s, upto) \/ btf__add_enum(x, s, upto)
       \/ btf__add_var(x, s, upto) \/ btf__add_datasec(x, s, upto) \/ btf__add_typedef(x, s, upto)
       \/ btf__add_fwd(x, s, upto) \/ btf__add_func(x, s, upto)
       \/ btf__add_enum_value(x, s, upto) \/ btf__add_func_param(x, s, upto)
       \/ \E bits \in {0, 1} : btf__add_field(x, s, bits, upto)
  \/ \E x \in Who, upto \in Stages :
       \/ btf__add_array(x, upto) \/ btf__add_func_proto(x, upto) \/ btf__add_ptr(x, upto)
       \/ btf__add_datasec_var_info(x, upto)
  \/ \E x \in Who, s \in Names : FindStr(x, s) \/ AddStr(x, s)
  \/ \E x \in Who : GetRaw(x) \/ Load(x)

Spec == Init /\ [][Next]_vars

-----------------------------------------------------------------------------
(* Properties *)

(* Whatever was added, in the order it was added, is what the types say,   *)
(* and at the same numbers, whatever calls failed in between; for what was *)
(* parsed as well.                                                         *)
SaysWhatWasAdded == \A x \in Who : Exists(x) => AllSaid(btf, x) = want[x]

(* Raw data that is handed out, cached or new, can be parsed, and says     *)
(* what the BTF says.                                                      *)
RawReadsBack ==
  \A x \in Who : Exists(x) =>
     LET p == Parsed(RawOf(btf[x]), HasBase(x))
     IN  p.ok /\ p.types = btf[x].types /\ p.offs = btf[x].offs /\ p.strs = btf[x].strs

(* "if BTF was created from scratch, all strings are guaranteed to be      *)
(* unique and deduplicated": no string twice, and none of the base's.      *)
DedupedStrings ==
  \A x \in Who : Exists(x) /\ btf[x].strs_deduped =>
     /\ \A i, j \in DOMAIN btf[x].strs : i # j => btf[x].strs[i] # btf[x].strs[j]
     /\ HasBase(x) => ToSet(btf[x].strs) \cap ToSet(btf["base"].strs) = {}
=============================================================================
