----------------------------- MODULE HashTable -----------------------------
(***************************************************************************)
(* The hash table of hashtable.c.  A map from keys to slot numbers (the    *)
(* external Verstable) points into two side arrays that hold the keys and  *)
(* the values; hash-table-set! never overwrites a slot, it appends one and *)
(* repoints the map, and the slots left behind are skipped by enumeration  *)
(* and reclaimed by compaction.  Slots count from 1, so that a map entry   *)
(* is the slot itself, where the code stores slot + 1 counting from 0.     *)
(*                                                                         *)
(* Keys are values that nobody changes: a key list mutated while it is in  *)
(* the table is outside this model.                                        *)
(***************************************************************************)
EXTENDS Integers, Sequences, FiniteSets, Sublists

CONSTANTS HKey, HValue,
          COMPACT_MIN,  \* slots below which a table is not compacted (16)
          MaxSets       \* hash-table-set! calls

ASSUME TableAssumption == COMPACT_MIN \in Nat

VARIABLES slots,    \* keys and values: a sequence of [key, value]
          index,    \* the map: a function from the keys present to slots
          nLive,    \* n_live
          written,  \* the keys present with their values, oldest write first
          sets      \* hash-table-set! calls so far

tableVars == <<slots, index, nLive, written, sets>>

-----------------------------------------------------------------------------
(* Verstable, as hashtable.c uses it                                       *)

creme_ht_idx_get(map, k) == IF k \in DOMAIN map THEN map[k] ELSE 0

creme_ht_idx_insert(map, k, slot) ==
  [x \in DOMAIN map \cup {k} |-> IF x = k THEN slot ELSE map[x]]

creme_ht_idx_erase(map, k) == [x \in DOMAIN map \ {k} |-> map[x]]

-----------------------------------------------------------------------------

Table(s, m, n) == [slots |-> s, index |-> m, live |-> n]

\* A slot is live while the map points at it.
Live(t, i) == creme_ht_idx_get(t.index, t.slots[i].key) = i

LiveSlots(t) == {i \in DOMAIN t.slots : Live(t, i)}

\* The live slots in order.
collect_live(t) == Sublist(t.slots, LiveSlots(t))

\* Fault: the slots move and the map keeps the old numbers.
CompactOnly(t) == Table(collect_live(t), t.index, Len(collect_live(t)))

\* Every key that is kept is repointed at its new slot; it has only one.
Repointed(map, packed) ==
  LET SlotsOf(k) == {i \in DOMAIN packed : packed[i].key = k}
  IN [k \in DOMAIN map |->
        IF SlotsOf(k) # {} THEN CHOOSE i \in SlotsOf(k) : TRUE ELSE creme_ht_idx_get(map, k)]

ht_compact(t) ==
  LET packed == collect_live(t)
  IN Table(packed, Repointed(t.index, packed), Len(packed))

ht_maybe_compact(t) ==
  IF Len(t.slots) >= COMPACT_MIN /\ Len(t.slots) >= 2 * t.live THEN ht_compact(t) ELSE t

Now == Table(slots, index, nLive)

Become(t) == slots' = t.slots /\ index' = t.index /\ nLive' = t.live

Without(k) == Sublist(written, {i \in DOMAIN written : written[i].key # k})

bi_make_hash_table == slots = <<>> /\ index = <<>> /\ nLive = 0

bi_hash_table_set(k, v) ==
  LET t == ht_maybe_compact(Now)
      existed == creme_ht_idx_get(t.index, k) # 0
  IN /\ sets < MaxSets
     /\ sets' = sets + 1
     /\ Become(Table(Append(t.slots, [key |-> k, value |-> v]),
                     creme_ht_idx_insert(t.index, k, Len(t.slots) + 1),
                     IF existed THEN t.live ELSE t.live + 1))
     /\ written' = Append(Without(k), [key |-> k, value |-> v])

bi_hash_table_delete(k) ==
  /\ creme_ht_idx_get(index, k) # 0
  /\ Become(ht_maybe_compact(Table(slots, creme_ht_idx_erase(index, k), nLive - 1)))
  /\ written' = Without(k)
  /\ UNCHANGED sets

\* The value, or none.
hash_table_lookup(k) ==
  LET at == creme_ht_idx_get(index, k) IN IF at = 0 THEN <<>> ELSE <<slots[at].value>>

bi_hash_table_contains_p(k) == hash_table_lookup(k) # <<>>

bi_hash_table_ref(k, default) ==
  IF hash_table_lookup(k) # <<>> THEN hash_table_lookup(k)[1] ELSE default

\* values_to_list keeps the order.
bi_hash_table_keys == [i \in DOMAIN collect_live(Now) |-> collect_live(Now)[i].key]
bi_hash_table_values == [i \in DOMAIN collect_live(Now) |-> collect_live(Now)[i].value]
bi_hash_table_to_alist == collect_live(Now)

TableInit == bi_make_hash_table /\ written = <<>> /\ sets = 0

TableNext ==
  \E k \in HKey : bi_hash_table_delete(k) \/ \E v \in HValue : bi_hash_table_set(k, v)

-----------------------------------------------------------------------------
(* Properties                                                              *)

\* Enumeration gives exactly the entries present, each once, in the order of
\* their last write, through every overwrite, deletion and compaction; and a
\* lookup of any key agrees with it.
TableIsOrderedMap ==
  /\ bi_hash_table_to_alist = written
  /\ bi_hash_table_keys = [i \in DOMAIN written |-> written[i].key]
  /\ bi_hash_table_values = [i \in DOMAIN written |-> written[i].value]
  /\ \A k \in HKey :
       /\ bi_hash_table_contains_p(k) <=> \E i \in DOMAIN written : written[i].key = k
       /\ bi_hash_table_ref(k, "none")
            = IF \E i \in DOMAIN written : written[i].key = k
              THEN written[CHOOSE i \in DOMAIN written : written[i].key = k].value
              ELSE "none"

\* The side arrays stay in proportion to the entries, whatever the number of
\* writes: after each call at most one slot over the compaction limit.
SlotsBounded ==
  /\ nLive = Cardinality(DOMAIN index)
  /\ \/ Len(slots) <= COMPACT_MIN
     \/ Len(slots) <= 2 * nLive + 1

\* A table of hashtable.c is a map in the order of insertion, in bounded space.
TableIsMap == TableIsOrderedMap /\ SlotsBounded

=============================================================================
