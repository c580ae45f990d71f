---------------------------- MODULE MCThreadPool ----------------------------
(***************************************************************************)
(* Instance of ThreadPool for TLC.                                         *)
(***************************************************************************)
EXTENDS ThreadPool, TLC

\* Workers are interchangeable, and so are tasks and posts.
MCSymmetry == Permutations(Workers) \cup Permutations(Tasks) \cup Permutations(Posts)

\* What the future of a state depends on.  A generation matters only as long as the
\* worker has yet to compare it, and then only by whether it is still the current
\* one; a peeked deadline only until the wait is over.
MCView ==
  <<kill_switch, in_flight_count, pending_task_count, queues, pc, item, out, us_delay, world,
    {w \in Workers : pc[w] \in {"queue", "heap", "peek", "sleep"}
                       /\ seen_generation[w] = work_generation},
    [w \in At({"sleep", "waiting"}) |-> next_deadline[w]]>>
=============================================================================
