------------------------------ MODULE BpfMultimap ------------------------------
(***************************************************************************)
(* What a hash map is to its users: every key has a list of values, the    *)
(* first of which is found, replaced and deleted; an insertion with        *)
(* HASHMAP_APPEND puts a value in front of those there are.  But when the  *)
(* table grows the lists of all keys turn around, and an insertion may do  *)
(* that even if it fails for want of memory.                               *)
(***************************************************************************)
EXTENDS Integers, Sequences, SequencesExt

CONSTANTS Keys, Values

VARIABLES
  values,  \* the values of each key, the one that is found first
  call     \* the last call: its name, arguments and result

vars == <<values, call>>

ADD == "HASHMAP_ADD"       SET == "HASHMAP_SET"
UPDATE == "HASHMAP_UPDATE" APPEND == "HASHMAP_APPEND"

Init == values = [k \in Keys |-> <<>>] /\ call = <<>>

Has(k) == values[k] # <<>>
Turned == [k \in Keys |-> Reverse(values[k])]

Insert(k, v, s, result) ==
  /\ call' = <<s, k, v, result>>
  /\ \/ /\ s \in {SET, UPDATE} /\ Has(k) /\ result = "OK"
        /\ values' = [values EXCEPT ![k][1] = v]
     \/ /\ (s = ADD /\ Has(k) /\ result = "EEXIST") \/ (s = UPDATE /\ ~Has(k) /\ result = "ENOENT")
        /\ UNCHANGED values
     \/ /\ s = APPEND \/ (s \in {ADD, SET} /\ ~Has(k))
        /\ \E before \in {values, Turned} :
             \/ result = "OK" /\ values' = [before EXCEPT ![k] = <<v>> \o @]
             \/ result = "ENOMEM" /\ values' = before

Found(k) == IF Has(k) THEN <<Head(values[k])>> ELSE <<>>

Delete(k) ==
  /\ call' = <<"delete", k, Found(k)>>
  /\ values' = IF Has(k) THEN [values EXCEPT ![k] = Tail(@)] ELSE values

Find(k) == call' = <<"find", k, Found(k)>> /\ UNCHANGED values

Clear == values' = [k \in Keys |-> <<>>] /\ call' = <<"clear">>

Next ==
  \/ \E k \in Keys, v \in Values, s \in {ADD, SET, UPDATE, APPEND},
        r \in {"OK", "EEXIST", "ENOENT", "ENOMEM"} : Insert(k, v, s, r)
  \/ \E k \in Keys : Delete(k) \/ Find(k)
  \/ Clear
Spec == Init /\ [][Next]_vars
=============================================================================
