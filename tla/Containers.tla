------------------------------- MODULE Containers ------------------------------
(***************************************************************************)
(* base/container.cpp: the chunk list, items in arrays of a fixed capacity *)
(* one after another, and the map, a table of chunk lists of entries.  The *)
(* callers keep the pointers that chunk_list_get_next and map_insert hand  *)
(* out (osm/osm.cpp links road edges through them, city/neta.cpp fills the *)
(* entry), so neither may move what it holds.                              *)
(***************************************************************************)
EXTENDS Integers, Sequences, SequencesExt

CONSTANTS Capacity,  \* items of a chunk
          Keys,      \* keys, their own hashes
          TableSize, \* the map's capacity
          MaxItems   \* bound: items inserted

VARIABLES list,     \* the chunks, each the sequence of its items
          inserted, \* the items in the order they were inserted
          refs,     \* where each item was handed out, as <<chunk, place>>
          map,      \* each slot's chunks of [key, value]
          dict,     \* what was inserted first for each key
          entry_refs \* where each key's entry was handed out, as <<chunk, place>>

containerVars == <<list, inserted, refs, map, dict, entry_refs>>

NoValue == 0

ContainersInit ==
  /\ list = <<>> /\ inserted = <<>> /\ refs = <<>>
  /\ map = [i \in 0 .. TableSize - 1 |-> <<>>]
  /\ dict = [k \in Keys |-> NoValue]
  /\ entry_refs = [k \in Keys |-> <<>>]

\* chunk_list_get_next takes the next place, in a new chunk if the last is full;
\* chunk_list_insert fills it.
chunk_list_insert(item) ==
  LET full == list = <<>> \/ Len(Last(list)) >= Capacity
      chunk == IF full THEN Len(list) + 1 ELSE Len(list)
  IN  /\ Len(inserted) < MaxItems
      /\ list' = IF full THEN Append(list, <<item>>) ELSE [list EXCEPT ![chunk] = Append(@, item)]
      /\ inserted' = Append(inserted, item)
      /\ refs' = Append(refs, <<chunk, Len(list'[chunk])>>)
      /\ UNCHANGED <<map, dict, entry_refs>>

\* buffer_from_chunk_list and str8_from_chunk_list copy chunk after chunk.
buffer_from_chunk_list == FlattenSeq(list)

\* ChunkList::Iterator, a chunk and a place in it counted from 0: operator++.
Advance(it) ==
  IF it[2] + 1 >= Len(list[it[1]]) /\ it[1] < Len(list) THEN <<it[1] + 1, 0>>
                                                        ELSE <<it[1], it[2] + 1>>

\* The walk from begin to end.
Walk ==
  LET end == <<Len(list), Len(Last(list))>>
      after[n \in 0 .. Capacity * Len(list)] == IF n = 0 THEN <<1, 0>> ELSE Advance(after[n - 1])
      steps == Min({n \in DOMAIN after : after[n] = end})
  IN  IF list = <<>> THEN <<>>
      ELSE [n \in 1 .. steps |-> list[after[n - 1][1]][after[n - 1][2] + 1]]

Slot(k) == k % TableSize
Entries(slot) == FlattenSeq(map[slot])

\* map_get: the first entry of the key in its slot.
map_get(k) ==
  LET entries == Entries(Slot(k))
      found == {i \in DOMAIN entries : entries[i].key = k}
  IN  IF found = {} THEN NoValue ELSE entries[Min(found)].value

\* Mutant: the new chunk takes the place of the slot's chunks.
MutantMapInsert(k, v) ==
  /\ IF map_get(k) # NoValue
       THEN UNCHANGED <<map, dict, entry_refs>>
       ELSE /\ map' = [map EXCEPT ![Slot(k)] = << <<[key |-> k, value |-> v]>> >>]
            /\ dict' = [dict EXCEPT ![k] = v]
            /\ entry_refs' = [entry_refs EXCEPT ![k] = <<1, 1>>]
  /\ UNCHANGED <<list, inserted, refs>>

\* map_insert: a present key is refused.  After the search no chunk is at hand, so
\* the entry always goes into a new one.
map_insert(k, v) ==
  LET chunks == map[Slot(k)] IN
  /\ IF map_get(k) # NoValue
       THEN UNCHANGED <<map, dict, entry_refs>>
       ELSE /\ map' = [map EXCEPT ![Slot(k)] = Append(chunks, <<[key |-> k, value |-> v]>>)]
            /\ dict' = [dict EXCEPT ![k] = v]
            /\ entry_refs' = [entry_refs EXCEPT ![k] = <<Len(chunks) + 1, 1>>]
  /\ UNCHANGED <<list, inserted, refs>>

ContainersNext ==
  \E v \in 1 .. 2 : chunk_list_insert(v) \/ \E k \in Keys : map_insert(k, v)

-----------------------------------------------------------------------------
\* Sizes the containers are right for: a chunk holds an item and the table a slot.
ContainersFit == Capacity \in Nat \ {0} /\ TableSize \in Nat \ {0} /\ Keys \subseteq Nat

-----------------------------------------------------------------------------
\* The chunk list is the sequence of what was inserted, whether it is copied to a
\* buffer or walked, and the map gives each key what was inserted first for it,
\* whatever keys share its slot; every place handed out still holds its item.
ContainersExact ==
  /\ buffer_from_chunk_list = inserted
  /\ Walk = inserted
  /\ \A i \in DOMAIN refs : list[refs[i][1]][refs[i][2]] = inserted[i]
  /\ \A k \in Keys :
       /\ map_get(k) = dict[k]
       /\ dict[k] # NoValue =>
            map[Slot(k)][entry_refs[k][1]][entry_refs[k][2]] = [key |-> k, value |-> dict[k]]
=============================================================================
