----------------------------- MODULE DynamicArrays -----------------------------
(***************************************************************************)
(* DynamicArray of base/base_container.cpp: growable arrays whose memory   *)
(* comes from a pool of nodes, one free list for each power of two.  An    *)
(* array does not remember the size of its node: destroying it computes    *)
(* the size again, from the capacity that creating it had rounded up.      *)
(* Arrays of every element type share the lists.                           *)
(***************************************************************************)
EXTENDS Integers, Sequences

CONSTANTS Slots,      \* array variables of the program
          Types,      \* element types, as [size |-> sizeof, align |-> AlignOf]
          NodeSize,   \* sizeof(DynamicArrayNode)
          MinIdx,     \* g_dynamic_array_min_idx
          MaxIdx,     \* g_dynamic_array_max_idx
          Counts,     \* capacities asked for and elements appended
          MaxNodes,   \* bound: nodes pushed onto the pool's arena
          MaxLength   \* bound: elements of an array

VARIABLES free_list,  \* the stack of nodes of each index
          node_size,  \* how much memory each node has
          arrays      \* each slot: no array, or [type, node, size, capacity, offset]

dynVars == <<free_list, node_size, arrays>>

NoArray == [node |-> 0]
Exp[n \in 0 .. 62] == IF n = 0 THEN 1 ELSE 2 * Exp[n - 1]
Larger(x, y) == IF x > y THEN x ELSE y

\* u64_up_to_pow2 and msb_index
UpToPow2(x) == CHOOSE p \in {Exp[n] : n \in 0 .. MaxIdx} : x <= p /\ 2 * x > p
MsbIndex(x) == CHOOSE n \in 0 .. MaxIdx : Exp[n] <= x /\ x < Exp[n + 1]

\* _dynamic_array_offset_calc: the node's header, aligned for the elements.
ArrayOffset(T) ==
  LET align == Larger(NodeSize, T.align) IN ((NodeSize + align - 1) \div align) * align

\* _dynamic_array_alloc_size_find
AllocSizeFind(elem_count, T) ==
  Larger(Exp[MinIdx], UpToPow2(ArrayOffset(T) + T.size * elem_count))

FreeListIdx(alloc_size) == MsbIndex(alloc_size) - MinIdx

\* The arrays are of lengths that the largest node has room for.
Lengths == Counts \cup 1 .. MaxLength
PoolFits ==
  /\ MinIdx \in Nat /\ MaxIdx \in Nat /\ MinIdx <= MaxIdx /\ MaxIdx <= 61
  /\ NodeSize \in Nat \ {0} /\ Counts \subseteq Nat /\ MaxLength \in Nat \ {0}
  /\ Types \subseteq [size : Nat \ {0}, align : Nat \ {0}]
  /\ \A T \in Types, n \in Lengths : ArrayOffset(T) + T.size * n <= Exp[MaxIdx]

DynInit ==
  /\ free_list = [i \in 0 .. MaxIdx - MinIdx |-> <<>>]
  /\ node_size = <<>>
  /\ arrays = [s \in Slots |-> NoArray]

\* Mutant: the capacity takes the header's bytes for elements.
MutantCapacity(alloc_size, T) == alloc_size \div T.size

CapacityOf(alloc_size, T) == (alloc_size - ArrayOffset(T)) \div T.size

\* dynamic_array_create: the array, and the lists and nodes afterwards.
Created(T, start_capacity, lists) ==
  LET alloc_size == AllocSizeFind(Larger(start_capacity, 1), T)
      i == FreeListIdx(alloc_size)
      reuse == lists[i] # <<>>
      array == [type |-> T, size |-> 0,
                node |-> IF reuse THEN Head(lists[i]) ELSE Len(node_size) + 1,
                capacity |-> CapacityOf(alloc_size, T)]
  IN  [array |-> array,
       lists |-> IF reuse THEN [lists EXCEPT ![i] = Tail(@)] ELSE lists,
       nodes |-> IF reuse THEN node_size ELSE Append(node_size, alloc_size)]

\* dynamic_array_destroy
Destroyed(arr, lists) ==
  LET i == FreeListIdx(AllocSizeFind(arr.capacity, arr.type))
  IN  [lists EXCEPT ![i] = <<arr.node>> \o @]

dynamic_array_create(s, T, n) ==
  LET made == Created(T, n, free_list) IN
  /\ arrays[s] = NoArray
  /\ arrays' = [arrays EXCEPT ![s] = made.array]
  /\ free_list' = made.lists
  /\ node_size' = made.nodes

dynamic_array_destroy(s) ==
  /\ arrays[s] # NoArray
  /\ free_list' = Destroyed(arrays[s], free_list)
  /\ arrays' = [arrays EXCEPT ![s] = NoArray]
  /\ UNCHANGED node_size

\* dynamic_array_append; from_buffer_overwrite is the same from size 0.
AppendTo(s, arr, n) ==
  LET new_size == arr.size + n
      made == Created(arr.type, new_size, free_list)
  IN  IF new_size > arr.capacity
        THEN /\ arrays' = [arrays EXCEPT ![s] = [made.array EXCEPT !.size = new_size]]
             /\ free_list' = Destroyed(arr, made.lists)
             /\ node_size' = made.nodes
        ELSE /\ arrays' = [arrays EXCEPT ![s] = [arr EXCEPT !.size = new_size]]
             /\ UNCHANGED <<free_list, node_size>>

dynamic_array_append(s, n) ==
  arrays[s] # NoArray /\ arrays[s].size + n <= MaxLength /\ AppendTo(s, arrays[s], n)

dynamic_array_from_buffer_overwrite(s, n) ==
  arrays[s] # NoArray /\ AppendTo(s, [arrays[s] EXCEPT !.size = 0], n)

DynNext ==
  /\ Len(node_size) < MaxNodes
  /\ \E s \in Slots :
       \/ \E T \in Types, n \in Counts : dynamic_array_create(s, T, n)
       \/ \E n \in Counts : dynamic_array_append(s, n) \/ dynamic_array_from_buffer_overwrite(s, n)
       \/ dynamic_array_destroy(s)

-----------------------------------------------------------------------------
Live == {s \in Slots : arrays[s] # NoArray}
Listed(n) == {p \in UNION {{i} \X DOMAIN free_list[i] : i \in 0 .. MaxIdx - MinIdx} :
                free_list[p[1]][p[2]] = n}

\* A node belongs to one array or waits once in the list of its own size, and an
\* array fits the node it has, also a node that an array of another type gave
\* back (dynamic_array_destroy computes the size from the capacity).
NodesOwnedOnce ==
  /\ \A s \in Live :
       LET arr == arrays[s] IN
         /\ arr.size <= arr.capacity
         /\ ArrayOffset(arr.type) + arr.capacity * arr.type.size <= node_size[arr.node]
  /\ \A n \in 1 .. Len(node_size) :
       /\ (\E s \in Live : arrays[s].node = n) # (Listed(n) # {})
       /\ \A s, t \in Live : arrays[s].node = n /\ arrays[t].node = n => s = t
       /\ \A p, q \in Listed(n) : p = q
       /\ \A p \in Listed(n) : p[1] = FreeListIdx(node_size[n])
=============================================================================
