-------------------------------- MODULE Fifo --------------------------------
(***************************************************************************)
(* What a queue of the async layer promises its callers: items leave in    *)
(* the order they entered, each exactly once, whatever the storage behind  *)
(* it does.  A blocking push always succeeds and may raise the capacity; a *)
(* try_push is refused exactly when the queue is at its capacity; a        *)
(* try_read is refused exactly when the queue is empty.                    *)
(*                                                                         *)
(* MpmcQueue implements this specification; ThreadPool is written against  *)
(* it (its mpmc_queue and main_thread_queue are sequences).                *)
(***************************************************************************)
EXTENDS Naturals, Sequences

CONSTANTS Items,    \* what the queue carries (WorkerItem in the code)
          NoItem    \* no item: the value of an empty slot or a refused call

VARIABLES q,        \* the items inside, oldest first
          capacity, \* how many items fit before a push has to grow the queue
          last      \* outcome of the last call: [call, ok, item]

vars == <<q, capacity, last>>

Outcome(call, ok, item) == [call |-> call, ok |-> ok, item |-> item]

Init ==
  /\ q = <<>>
  /\ capacity \in Nat \ {0}
  /\ last = Outcome("alloc", TRUE, NoItem)

Push(x) ==
  /\ q' = Append(q, x)
  /\ capacity' \in Nat
  /\ IF Len(q) < capacity THEN capacity' = capacity ELSE capacity' > capacity
  /\ last' = Outcome("push", TRUE, x)

TryPush(x) ==
  \/ /\ Len(q) < capacity
     /\ q' = Append(q, x)
     /\ last' = Outcome("try_push", TRUE, x)
     /\ UNCHANGED capacity
  \/ /\ Len(q) >= capacity
     /\ last' = Outcome("try_push", FALSE, x)
     /\ UNCHANGED <<q, capacity>>

TryRead ==
  \/ /\ q # <<>>
     /\ q' = Tail(q)
     /\ last' = Outcome("try_read", TRUE, Head(q))
     /\ UNCHANGED capacity
  \/ /\ q = <<>>
     /\ last' = Outcome("try_read", FALSE, NoItem)
     /\ UNCHANGED <<q, capacity>>

Next == (\E x \in Items : Push(x) \/ TryPush(x)) \/ TryRead

Spec == Init /\ [][Next]_vars
=============================================================================
