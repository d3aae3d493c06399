------------------------------ MODULE BpfHashmap ------------------------------
(***************************************************************************)
(* hashmap.c: an array of chains that doubles when it is three quarters    *)
(* full.  An entry is in the chain that the upper bits of the hash of its  *)
(* key name, so that every doubling puts all entries into new chains, the  *)
(* last of an old chain in front.                                          *)
(***************************************************************************)
EXTENDS Integers, Sequences, FiniteSets, SequencesExt

CONSTANTS
  Keys, Values,
  Hash,     \* of each key, a number of HashBits bits, shuffled
  HashBits,
  MaxSize   \* bound: entries

HashAssumption == Hash \in [Keys -> 0..2^HashBits - 1]

ADD == "HASHMAP_ADD"       SET == "HASHMAP_SET"
UPDATE == "HASHMAP_UPDATE" APPEND == "HASHMAP_APPEND"
MIN_CAP_BITS == 2

VARIABLES
  buckets,  \* the chains, from 0 on; none before the first insertion
  cap_bits,
  sz,
  call      \* history: the last call with its arguments and its result

vars == <<buckets, cap_bits, sz, call>>

NoBuckets == [b \in {} |-> <<>>]
cap == Cardinality(DOMAIN buckets)

Init ==
  /\ buckets = NoBuckets /\ cap_bits = 0 /\ sz = 0
  /\ call = <<>>

hash_bits(h, bits) == h \div 2^(HashBits - bits)
Chain(k) == IF buckets = NoBuckets THEN <<>> ELSE buckets[hash_bits(Hash[k], cap_bits)]
Places(k) == {i \in DOMAIN Chain(k) : Chain(k)[i][1] = k}

(* hashmap_find_entry: the first entry of the key in its chain.            *)
FirstPlace(k) == CHOOSE i \in Places(k) : \A j \in Places(k) : i <= j
Found(k)      == Places(k) # {}
FoundValue(k) == IF Found(k) THEN <<Chain(k)[FirstPlace(k)][2]>> ELSE <<>>

-----------------------------------------------------------------------------
hashmap_needs_to_grow == cap = 0 \/ ((sz + 1) * 4) \div 3 > cap

(* All entries, chain by chain, each put in front of its new chain.        *)
hashmap_grow(bits) ==
  LET all == FoldLeft(LAMBDA s, b : s \o buckets[b], <<>>, [b \in 1..cap |-> b - 1])
  IN  [b \in 0..2^bits - 1 |->
         Reverse(SelectSeq(all, LAMBDA e : hash_bits(Hash[e[1]], bits) = b))]

NewBits == IF cap_bits + 1 < MIN_CAP_BITS THEN MIN_CAP_BITS ELSE cap_bits + 1

(* An entry of the key is there already, and the strategy minds.           *)
hashmap__insert_replace(k, v, strategy) ==
  /\ strategy # APPEND /\ Found(k)
  /\ IF strategy \in {SET, UPDATE}
     THEN /\ buckets' = [buckets EXCEPT ![hash_bits(Hash[k], cap_bits)][FirstPlace(k)] = <<k, v>>]
          /\ call' = <<strategy, k, v, "OK">>
     ELSE call' = <<strategy, k, v, "EEXIST">> /\ UNCHANGED <<buckets>>
  /\ UNCHANGED <<cap_bits, sz>>

hashmap__insert_none(k, v, strategy) ==
  /\ strategy = UPDATE /\ ~Found(k)
  /\ call' = <<strategy, k, v, "ENOENT">>
  /\ UNCHANGED <<buckets, cap_bits, sz>>

(* A new entry.  Without memory for it the table may have grown already.   *)
hashmap__insert_new(k, v, strategy) ==
  /\ sz < MaxSize /\ strategy # UPDATE /\ (strategy = APPEND \/ ~Found(k))
  /\ LET bits == IF hashmap_needs_to_grow THEN NewBits ELSE cap_bits
         old  == IF hashmap_needs_to_grow THEN hashmap_grow(bits) ELSE buckets
     IN  \/ /\ buckets' = [old EXCEPT ![hash_bits(Hash[k], bits)] = <<<<k, v>>>> \o @]
            /\ cap_bits' = bits
            /\ sz' = sz + 1
            /\ call' = <<strategy, k, v, "OK">>
         \/ /\ \/ buckets' = old /\ cap_bits' = bits
               \/ hashmap_needs_to_grow /\ UNCHANGED <<buckets, cap_bits>>
            /\ call' = <<strategy, k, v, "ENOMEM">>
            /\ UNCHANGED <<sz>>

hashmap__find(k) ==
  /\ call' = <<"find", k, FoundValue(k)>>
  /\ UNCHANGED <<buckets, cap_bits, sz>>

(* Mutant: the last entry of the chain goes, whatever its key. *)
hashmap__deleteTail(k) ==
  /\ call' = <<"delete", k, FoundValue(k)>>
  /\ IF Found(k)
     THEN /\ buckets' = [buckets EXCEPT ![hash_bits(Hash[k], cap_bits)] = Front(@)]
          /\ sz' = sz - 1
     ELSE UNCHANGED <<buckets, sz>>
  /\ UNCHANGED cap_bits

hashmap__delete(k) ==
  /\ call' = <<"delete", k, FoundValue(k)>>
  /\ IF Found(k)
     THEN /\ buckets' = [buckets EXCEPT ![hash_bits(Hash[k], cap_bits)] = RemoveAt(@, FirstPlace(k))]
          /\ sz' = sz - 1
     ELSE UNCHANGED <<buckets, sz>>
  /\ UNCHANGED cap_bits

hashmap__clear ==
  /\ buckets' = NoBuckets /\ cap_bits' = 0 /\ sz' = 0
  /\ call' = <<"clear">>

Next ==
  \/ \E k \in Keys, v \in Values, s \in {ADD, SET, UPDATE, APPEND} :
       \/ hashmap__insert_replace(k, v, s)
       \/ hashmap__insert_none(k, v, s)
       \/ hashmap__insert_new(k, v, s)
  \/ \E k \in Keys : hashmap__find(k) \/ hashmap__delete(k)
  \/ hashmap__clear

Spec == Init /\ [][Next]_vars
-----------------------------------------------------------------------------
Entries == UNION {{<<b, i>> : i \in DOMAIN buckets[b]} : b \in DOMAIN buckets}

(* sz counts the entries, the table is a power of two that is not too full *)
(* and every entry is in the chain its key is looked for in.               *)
TableOK ==
  /\ sz = Cardinality(Entries) /\ cap \in {0, 2^cap_bits}
  /\ sz > 0 => 4 * sz <= 3 * cap + 3
  /\ \A e \in Entries : hash_bits(Hash[buckets[e[1]][e[2]][1]], cap_bits) = e[1]

ValuesOf(k) ==
  LET own == SelectSeq(Chain(k), LAMBDA e : e[1] = k)
  IN  [i \in DOMAIN own |-> own[i][2]]

Promise == INSTANCE BpfMultimap WITH values <- [k \in Keys |-> ValuesOf(k)]

(* Sharing of chains changes nothing of what a key has, growing the table  *)
(* nothing but the order, and every call does to the value that would be   *)
(* found what its strategy says.                                           *)
ImplementsMultimap == Promise!Spec

(* What hashmap.h says of HASHMAP_APPEND: "If hashmap__find() is still     *)
(* used, it will return last inserted key/value entry".                    *)
FindsLastInserted ==
  [][\A k \in Keys : Len(call') = 4 =>
       FoundValue(k)' = IF call'[2] = k /\ call'[4] = "OK" THEN <<call'[3]>> ELSE FoundValue(k)]_vars
=============================================================================
