--------------------------- MODULE ArrayResourcePool ---------------------------
(***************************************************************************)
(* ArrayResourcePool of base/base_container.cpp: a fixed array of items    *)
(* numbered from 1, the unused ones linked into a free list, and handles   *)
(* that carry the generation their item had.  The application keeps one    *)
(* TilesetRenderer per streamed area in one, and an area keeps its handle  *)
(* after it gave the item back.                                            *)
(***************************************************************************)
EXTENDS Integers, FiniteSets

CONSTANTS Capacity,  \* the capacity given to create
          Gens       \* bound: generations of an item, below the U32's wrap

ASSUME PoolAssumption == Capacity \in Nat \ {0} /\ Gens \in Nat \ {0}

VARIABLES next,       \* the link of each item, 0 at the end of the list
          gen_id,
          in_use,
          free_list,  \* the first unused item, or 0
          held,       \* handles given out and not given back
          stale       \* handles given back

poolVars == <<next, gen_id, in_use, free_list, held, stale>>

PoolItems == 1 .. Capacity
Handles == [idx : 0 .. Capacity, gen_id : Nat]

\* ArrayResourcePool::create
PoolInit ==
  /\ next = [i \in PoolItems |-> IF i < Capacity THEN i + 1 ELSE 0]
  /\ gen_id = [i \in PoolItems |-> 0]
  /\ in_use = [i \in PoolItems |-> FALSE]
  /\ free_list = 1
  /\ held = {}
  /\ stale = {}

\* item_from_handle succeeds.
Resolves(h) ==
  /\ h.idx > 0 /\ h.idx <= Capacity
  /\ in_use[h.idx]
  /\ gen_id[h.idx] = h.gen_id

\* handle_get; an empty list aborts the process.
handle_get ==
  /\ free_list # 0
  /\ gen_id[free_list] < Gens
  /\ in_use' = [in_use EXCEPT ![free_list] = TRUE]
  /\ next' = [next EXCEPT ![free_list] = 0]
  /\ held' = held \cup {[idx |-> free_list, gen_id |-> gen_id[free_list]]}
  /\ free_list' = next[free_list]
  /\ UNCHANGED <<gen_id, stale>>

\* Mutant: the generation stays.
MutantItemFree(h) ==
  /\ h.idx > 0 /\ h.idx <= Capacity
  /\ h.gen_id = gen_id[h.idx]
  /\ next' = [next EXCEPT ![h.idx] = free_list]
  /\ free_list' = h.idx
  /\ in_use' = [in_use EXCEPT ![h.idx] = FALSE]
  /\ held' = held \ {h}
  /\ stale' = stale \cup {h}
  /\ UNCHANGED gen_id

\* item_free of a handle whose generation is the item's ...
item_free(h) ==
  /\ h.idx > 0 /\ h.idx <= Capacity
  /\ h.gen_id = gen_id[h.idx]
  /\ next' = [next EXCEPT ![h.idx] = free_list]
  /\ free_list' = h.idx
  /\ in_use' = [in_use EXCEPT ![h.idx] = FALSE]
  /\ gen_id' = [gen_id EXCEPT ![h.idx] = @ + 1]
  /\ held' = held \ {h}
  /\ stale' = stale \cup {h}

\* Users free what they hold, and areas that ended try again with what they
\* gave back.
PoolNext == handle_get \/ \E h \in held \cup stale : item_free(h)

-----------------------------------------------------------------------------
PoolTypeOK ==
  /\ next \in [PoolItems -> 0 .. Capacity]
  /\ gen_id \in [PoolItems -> Nat]
  /\ in_use \in [PoolItems -> BOOLEAN]
  /\ free_list \in 0 .. Capacity
  /\ held \subseteq Handles
  /\ stale \subseteq Handles

\* A handle finds its item (item_from_handle) exactly while it is held: one that
\* was given back never finds the item's next owner, and no two held handles
\* share an item, however gets and frees, repeated frees included, follow.
HandlesExact ==
  /\ \A h \in held : Resolves(h)
  /\ \A h \in stale : ~Resolves(h)
  /\ \A g, h \in held : g.idx = h.idx => g = h

\* The links from free_list reach every unused item and nothing else, so the
\* pool never runs dry while an item is free nor hands one out twice.
FreeListExact ==
  LET chain[n \in 0 .. Capacity] ==
        IF n = 0 THEN free_list
        ELSE IF chain[n - 1] = 0 THEN 0 ELSE next[chain[n - 1]]
  IN  {chain[n] : n \in 0 .. Capacity} \ {0} = {i \in PoolItems : ~in_use[i]}
=============================================================================
