----------------------------- MODULE ResourcePool ------------------------------
(***************************************************************************)
(* ResourcePool of base/base_container.cpp: items appended to an arena,    *)
(* item 0 standing for "none", with a stack of the handles that were       *)
(* freed.  The application keeps its cameras in one and walks the items in *)
(* use when it shuts down.                                                 *)
(***************************************************************************)
EXTENDS Integers, Sequences, FiniteSets

CONSTANTS MaxItems,  \* bound: items the pool grows to
          MaxGen     \* bound: generations of an item, below the U32's wrap

VARIABLES items,      \* [gen_id, in_use] of items 0 .. size - 1, from index 1
          free_stack, \* free_list[0 .. free_list_size - 1]
          owned,      \* handles in the hands of users
          returned,   \* handles freed
          double_free \* a user freed a handle twice

resourceVars == <<items, free_stack, owned, returned, double_free>>

Item(idx) == items[idx + 1]
InRange(idx) == idx < Len(items)

\* resource_pool_init
ResourceInit ==
  /\ items = <<[gen_id |-> 0, in_use |-> FALSE]>>
  /\ free_stack = <<>>
  /\ owned = {} /\ returned = {}
  /\ double_free = FALSE

\* resource_pool_item_from_idx finds the item of the handle, not item 0.
Finds(h) == h.idx # 0 /\ InRange(h.idx) /\ Item(h.idx).in_use /\ Item(h.idx).gen_id = h.gen_id

\* _resource_pool_item_from_idx marks what it returns in use.
Marked(s, idx) ==
  LET found == IF idx # 0 /\ idx < Len(s) THEN idx ELSE 0
  IN  [s EXCEPT ![found + 1].in_use = TRUE]

\* resource_pool_array_idx_get: a freed item first, else one more.
resource_pool_array_idx_get ==
  LET reuse == free_stack # <<>>
      idx == IF reuse THEN free_stack[Len(free_stack)].idx ELSE Len(items)
      grown == IF reuse THEN items ELSE Append(items, [gen_id |-> 0, in_use |-> FALSE])
  IN  /\ Len(grown) <= MaxItems + 1
      /\ items' = Marked(grown, idx)
      /\ free_stack' = IF reuse THEN SubSeq(free_stack, 1, Len(free_stack) - 1) ELSE free_stack
      /\ owned' = owned \cup {[idx |-> idx, gen_id |-> grown[idx + 1].gen_id]}
      /\ UNCHANGED <<returned, double_free>>

\* Mutant: the generation is not looked at.
MutantCurrent(s, h) == h.idx > 0

\* The item is still the one the handle was made for.
Current(s, h) == h.idx > 0 /\ s[h.idx + 1].gen_id = h.gen_id

\* resource_pool_item_free: of a handle held, or once more of one freed before.
resource_pool_item_free(h) ==
  LET marked == Marked(items, h.idx)
      current == Current(marked, h)
  IN  /\ h.gen_id < MaxGen
      /\ items' = IF current
                    THEN [marked EXCEPT ![h.idx + 1] = [gen_id |-> @.gen_id + 1, in_use |-> FALSE]]
                    ELSE marked
      /\ free_stack' = IF current THEN Append(free_stack, h) ELSE free_stack
      /\ owned' = owned \ {h}
      /\ returned' = returned \cup {h}
      /\ double_free' = (double_free \/ h \in returned)

ResourceNext ==
  \/ resource_pool_array_idx_get
  \/ \E h \in owned \cup returned : resource_pool_item_free(h)

-----------------------------------------------------------------------------
InUse == {i \in 1 .. Len(items) - 1 : Item(i).in_use}

\* A handle finds its item exactly from get to free, also after a double free,
\* and no two users own one item; the items a walk over in_use meets
\* (entrypoint.cpp, the camera loop) are the owned ones as long as no handle was
\* freed twice: a second free marks the freed item in use again.
OwnersExact ==
  /\ \A h \in owned : Finds(h)
  /\ \A h \in returned : ~Finds(h)
  /\ \A g, h \in owned : g.idx = h.idx => g = h
  /\ ~double_free => InUse = {h.idx : h \in owned}
=============================================================================
