-------------------------------- MODULE MinHeap --------------------------------
(***************************************************************************)
(* async/async_heap.cpp: the timer heap of the thread pool as it is laid   *)
(* out, an implicit binary tree in a segment buffer.  ThreadPool treats    *)
(* the heap as a set of (deadline, task) pairs; this module shows that the *)
(* tree is one.                                                            *)
(***************************************************************************)
EXTENDS SegmentBuffer

CONSTANTS Keys,    \* deadlines
          MaxHeap  \* bound: items pushed before the heap is emptied again

VARIABLES size,
          buffer,   \* the segment buffer's memory
          entries,  \* what was pushed and not popped
          count,    \* items pushed so far, numbering their values
          popped    \* what the last pop handed out, or none

heapVars == <<size, buffer, entries, count, popped>>

At(b, i) == b[SlotOf(i)]

\* Every item has a slot, and deadlines compare.
HeapFits ==
  /\ Shift \in 0 .. 37 /\ Keys \subseteq Int
  /\ MaxHeap \in Nat /\ MaxHeap <= segment_buffer_capacity_from_segment_count(MaxSegments)

HeapInit ==
  /\ size = 0
  /\ buffer = << >>
  /\ entries = {}
  /\ count = 0
  /\ popped = {}

heap_index_swap(b, x, y) ==
  segment_buffer_insert(segment_buffer_insert(b, At(b, y), x), At(b, x), y)

\* async_min_heap_push: the new item climbs while its parent is later.  A round
\* leaves the state as it is where the loop ends.
Climb(s) ==
  LET parent_idx == (s.cur_idx - 1) \div 2
  IN  IF s.cur_idx = 0 \/ At(s.buffer, s.cur_idx).k >= At(s.buffer, parent_idx).k
        THEN s
        ELSE [buffer |-> heap_index_swap(s.buffer, parent_idx, s.cur_idx), cur_idx |-> parent_idx]

SiftUp(b, idx) ==
  LET round[n \in 0 .. idx] ==
        IF n = 0 THEN [buffer |-> b, cur_idx |-> idx] ELSE Climb(round[n - 1])
  IN  round[idx].buffer

async_min_heap_push(k) ==
  LET item == [k |-> k, v |-> count + 1]
  IN  /\ count < MaxHeap
      /\ buffer' = SiftUp(segment_buffer_insert(buffer, item, size), size)
      /\ size' = size + 1
      /\ entries' = entries \cup {item}
      /\ count' = count + 1
      /\ popped' = {}

\* Mutant: only the first child is looked at.
MutantSmallestChild(b, n, cur_idx) == cur_idx * 2 + 1

\* The child an item sinks past: the second only if it is strictly earlier.
SmallestChild(b, n, cur_idx) ==
  LET c0_idx == cur_idx * 2 + 1
      c1_idx == c0_idx + 1
  IN  IF c1_idx < n /\ At(b, c1_idx).k < At(b, c0_idx).k THEN c1_idx ELSE c0_idx

Sink(s, n) ==
  LET child == SmallestChild(s.buffer, n, s.cur_idx)
  IN  IF s.cur_idx * 2 + 1 >= n \/ At(s.buffer, s.cur_idx).k <= At(s.buffer, child).k
        THEN s
        ELSE [buffer |-> heap_index_swap(s.buffer, s.cur_idx, child), cur_idx |-> child]

SiftDown(b, n) ==
  LET round[r \in 0 .. n] ==
        IF r = 0 THEN [buffer |-> b, cur_idx |-> 0] ELSE Sink(round[r - 1], n)
  IN  round[n].buffer

\* _async_min_heap_pop_unlocked: the last item takes the root's place and sinks.
PopRoot ==
  LET last_idx == size - 1
      swapped == heap_index_swap(buffer, 0, last_idx)
  IN  /\ size > 0
      /\ buffer' = SiftDown(segment_buffer_insert(swapped, Zero, last_idx), last_idx)
      /\ size' = last_idx
      /\ popped' = {At(buffer, 0)}
      /\ entries' = entries \ popped'
      /\ count' = IF last_idx = 0 THEN 0 ELSE count

\* async_min_heap_pop_ready, when the root is due; otherwise nothing changes.
async_min_heap_pop_ready(max_key) == size > 0 /\ At(buffer, 0).k <= max_key /\ PopRoot

async_min_heap_peek == At(buffer, 0)

HeapNext ==
  \/ \E k \in Keys : async_min_heap_push(k)
  \/ \E max_key \in Keys : async_min_heap_pop_ready(max_key)
  \/ PopRoot

-----------------------------------------------------------------------------
\* The heap (async_min_heap_push, async_min_heap_pop_ready) is the set ThreadPool
\* takes it for: it holds what was pushed and not popped, once each, whatever
\* segments the items moved through; what a pop hands out is no later than
\* anything that stays, and the root async_min_heap_peek shows is the earliest.
HeapIsASet ==
  LET held == {At(buffer, i) : i \in 0 .. size - 1} IN
  /\ held = entries /\ Cardinality(entries) = size
  /\ \A x \in popped, y \in held : x.k <= y.k
  /\ size > 0 => \A y \in held : async_min_heap_peek.k <= y.k
=============================================================================
