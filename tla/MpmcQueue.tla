------------------------------ MODULE MpmcQueue ------------------------------
(***************************************************************************)
(* The ring buffer of async/mpmc_queue.cpp.  Every operation runs under    *)
(* the queue's own mutex from its first to its last access, so each one is *)
(* a single action.  Slots are numbered from 0 as in the code.             *)
(***************************************************************************)
EXTENDS Integers, Sequences

CONSTANTS Items,          \* values callers push
          NoItem,         \* a slot PushArray has just allocated
          RequestedSizes, \* the queue_size arguments given to queue_alloc
          MaxItems        \* bound: no push while this many items are inside

ASSUME MpmcAssumption ==
  /\ NoItem \notin Items
  /\ RequestedSizes \subseteq Nat
  /\ MaxItems \in Nat

VARIABLES items,                \* the slots, a function on 0..queue_size-1
          next_index,           \* slot of the oldest item
          fill_index,           \* slot the next item goes to
          items_in_queue_count,
          queue_size,
          last                  \* outcome of the last call: [call, ok, item]

vars == <<items, next_index, fill_index, items_in_queue_count, queue_size, last>>

Outcome(call, ok, item) == [call |-> call, ok |-> ok, item |-> item]

ClampBot(x, low) == IF x < low THEN low ELSE x

\* The slot that holds the i-th oldest item (i from 0).
Slot(i) == (next_index + i) % queue_size

-----------------------------------------------------------------------------
\* queue_alloc
Init ==
  /\ \E size \in RequestedSizes : queue_size = ClampBot(size, 1)
  /\ items = [s \in 0 .. queue_size - 1 |-> NoItem]
  /\ next_index = 0
  /\ fill_index = 0
  /\ items_in_queue_count = 0
  /\ last = Outcome("alloc", TRUE, NoItem)

\* The size and the contents _queue_grow gives the new array.
GrownSize == ClampBot(queue_size * 2, queue_size + 1)

\* Mutant: the slots are copied in storage order.
MutantGrownItems ==
  [s \in 0 .. GrownSize - 1 |->
     IF s < items_in_queue_count THEN items[s] ELSE NoItem]

GrownItems ==
  [s \in 0 .. GrownSize - 1 |->
     IF s < items_in_queue_count THEN items[Slot(s)] ELSE NoItem]

\* Mutant: next_index is kept across the growth.
MutantGrowKeepsNext(x) ==
  /\ items_in_queue_count < MaxItems
  /\ items_in_queue_count >= queue_size
  /\ queue_size' = GrownSize
  /\ fill_index' = (items_in_queue_count + 1) % GrownSize
  /\ items' = [GrownItems EXCEPT ![items_in_queue_count] = x]
  /\ items_in_queue_count' = items_in_queue_count + 1
  /\ last' = Outcome("push", TRUE, x)
  /\ UNCHANGED next_index

\* queue_push when the ring is full: grow, then insert.
PushGrowing(x) ==
  /\ items_in_queue_count < MaxItems
  /\ items_in_queue_count >= queue_size
  /\ queue_size' = GrownSize
  /\ next_index' = 0
  /\ fill_index' = (items_in_queue_count + 1) % GrownSize
  /\ items' = [GrownItems EXCEPT ![items_in_queue_count] = x]
  /\ items_in_queue_count' = items_in_queue_count + 1
  /\ last' = Outcome("push", TRUE, x)

\* _queue_insert_value, called while a slot is free.
InsertValue(x) ==
  /\ items_in_queue_count < MaxItems
  /\ items_in_queue_count < queue_size
  /\ fill_index' = (fill_index + 1) % queue_size
  /\ items' = [items EXCEPT ![fill_index] = x]
  /\ items_in_queue_count' = items_in_queue_count + 1
  /\ UNCHANGED <<next_index, queue_size>>

PushInPlace(x) ==
  /\ InsertValue(x)
  /\ last' = Outcome("push", TRUE, x)

TryPush(x) ==
  /\ InsertValue(x)
  /\ last' = Outcome("try_push", TRUE, x)

TryPushFull(x) ==
  /\ items_in_queue_count >= queue_size
  /\ last' = Outcome("try_push", FALSE, x)
  /\ UNCHANGED <<items, next_index, fill_index, items_in_queue_count, queue_size>>

\* Mutant: the read index is not wrapped.
MutantTryRead ==
  /\ items_in_queue_count > 0
  /\ next_index' = next_index + 1
  /\ items_in_queue_count' = items_in_queue_count - 1
  /\ last' = Outcome("try_read", TRUE, items[next_index])
  /\ UNCHANGED <<items, fill_index, queue_size>>

TryRead ==
  /\ items_in_queue_count > 0
  /\ next_index' = (next_index + 1) % queue_size
  /\ items_in_queue_count' = items_in_queue_count - 1
  /\ last' = Outcome("try_read", TRUE, items[next_index])
  /\ UNCHANGED <<items, fill_index, queue_size>>

TryReadEmpty ==
  /\ items_in_queue_count <= 0
  /\ last' = Outcome("try_read", FALSE, NoItem)
  /\ UNCHANGED <<items, next_index, fill_index, items_in_queue_count, queue_size>>

Next ==
  \/ \E x \in Items : \/ PushGrowing(x)
                      \/ PushInPlace(x)
                      \/ TryPush(x)
                      \/ TryPushFull(x)
  \/ TryRead
  \/ TryReadEmpty

Spec == Init /\ [][Next]_vars

-----------------------------------------------------------------------------
(***************************************************************************)
(* Type invariant of the Queue structure: both indices name a slot and the *)
(* count never exceeds the number of slots.                                *)
(***************************************************************************)
TypeOK ==
  /\ queue_size \in Nat \ {0}
  /\ next_index \in 0 .. queue_size - 1
  /\ fill_index \in 0 .. queue_size - 1
  /\ items_in_queue_count \in 0 .. queue_size
  /\ items \in [0 .. queue_size - 1 -> Items \cup {NoItem}]

(***************************************************************************)
(* The write position is the one the read position and the count imply,    *)
(* also after the indices wrapped and after _queue_grow moved the items.   *)
(***************************************************************************)
FillFollowsCount == fill_index = Slot(items_in_queue_count)

(***************************************************************************)
(* Every slot between the read and the write position holds a pushed item: *)
(* no reader is ever handed a slot of a freshly allocated array.           *)
(***************************************************************************)
OccupiedSlotsFilled ==
  \A i \in 0 .. items_in_queue_count - 1 : items[Slot(i)] \in Items

(***************************************************************************)
(* The ring is consistent after any pushes, reads and growths: what        *)
(* queue_push and queue_try_read compute from the indices and the count    *)
(* agrees, and no reader is handed a slot nobody wrote.  It is inductive.  *)
(***************************************************************************)
RingInv == TypeOK /\ FillFollowsCount /\ OccupiedSlotsFilled

(***************************************************************************)
(* The ring implements Fifo: callers of queue_push, queue_try_push and     *)
(* queue_try_read cannot tell it from a queue ("a job system using a       *)
(* thread safe FIFO queue", docs/Design.md).                               *)
(***************************************************************************)
Contents == [i \in 1 .. items_in_queue_count |-> items[Slot(i - 1)]]

Queue == INSTANCE Fifo WITH q <- Contents, capacity <- queue_size

ImplementsFifo == Queue!Spec
=============================================================================
