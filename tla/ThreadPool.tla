------------------------------ MODULE ThreadPool ------------------------------
(***************************************************************************)
(* The job system of async/thread_pool.cpp: worker threads that take       *)
(* immediate work from a shared FIFO queue and delayed work from a timer   *)
(* heap, a bounded queue of work for the main thread, and the shutdown the *)
(* application drives (entrypoint.cpp, main.cpp).                          *)
(*                                                                         *)
(* A step is one atomic access of the shared structure or one critical     *)
(* section: everything a thread does between two labels of pc touches only *)
(* its own locals.  The queue is the Fifo that MpmcQueue implements and    *)
(* the heap a set of (deadline, task) pairs.  The work mutex never appears *)
(* as a variable: each of its critical sections is one step.  The mutex of *)
(* the main thread queue does, because thread_pool_destroy signals that    *)
(* queue's condition variable without taking it.                           *)
(*                                                                         *)
(* Time is kept as what is left to each deadline, 0 once it has come, so   *)
(* that no clock has to be bounded.                                        *)
(***************************************************************************)
EXTENDS Integers, Sequences, FiniteSets

CONSTANTS Workers,   \* worker thread ids
          Main,      \* the thread that owns frames, drains and shutdown
          Tasks,     \* work for the workers (one AsyncTaskWork each)
          Posts,     \* work for the main thread (one MainThreadTaskState each)
          NoItem,    \* no WorkerItem
          Nobody,    \* owner of a free mutex
          MainCap,   \* main_thread_queue_size
          Delays,    \* the us_delay values user functions return
          Never,     \* max_U64, the deadline of a wait without one
          MaxRuns,   \* bound: executions of one task, continuations included
          Builds     \* values of GRACEFUL_SHUTDOWN to consider

ASSUME ThreadPoolAssumption ==
  /\ Main \notin Workers
  /\ Nobody \notin Workers
  /\ NoItem \notin Tasks \cup Posts
  /\ Tasks \cap Posts = {}
  /\ IsFiniteSet(Workers) /\ IsFiniteSet(Tasks)
  /\ MainCap \in Nat \ {0}
  /\ Never \in Nat \ {0}
  /\ Delays \subseteq 0 .. Never - 1
  /\ MaxRuns \in Nat
  /\ Builds \subseteq BOOLEAN

Threads == Workers \cup {Main}

VARIABLES
  kill_switch,
  work_generation,
  in_flight_count,
  pending_task_count,
  timer_min_heap,     \* set of [k |-> time left, v |-> task]
  mpmc_queue,         \* sequence of tasks
  main_thread_queue,  \* sequence of posts
  main_lock,          \* owner of main_thread_queue_mutex, or Nobody
  pc,                 \* where each thread is
  item,               \* the item a worker took
  out,                \* the item a thread is pushing
  us_delay,           \* its delay
  seen_generation,    \* work_generation as the worker loaded it
  next_deadline,      \* the time left to the deadline the worker peeked
  fresh,              \* work nobody has created yet
  runs,               \* executions of each task so far
  graceful,           \* built with GRACEFUL_SHUTDOWN
  process             \* "running", or how it was aborted

counters == <<work_generation, in_flight_count, pending_task_count>>
queues   == <<timer_min_heap, mpmc_queue, main_thread_queue, main_lock>>
locals   == <<item, out, us_delay, seen_generation, next_deadline>>
world    == <<fresh, runs, graceful, process>>
vars     == <<kill_switch, counters, queues, pc, locals, world>>

Goto(t, label) == pc' = [pc EXCEPT ![t] = label]

-----------------------------------------------------------------------------
\* thread_pool_create: every worker starts at the top of its loop.
Init ==
  /\ kill_switch = FALSE
  /\ work_generation = 0
  /\ in_flight_count = 0
  /\ pending_task_count = 0
  /\ timer_min_heap = {}
  /\ mpmc_queue = <<>>
  /\ main_thread_queue = <<>>
  /\ main_lock = Nobody
  /\ pc = [t \in Threads |-> IF t = Main THEN "frame" ELSE "loop"]
  /\ item = [w \in Workers |-> NoItem]
  /\ out = [t \in Threads |-> NoItem]
  /\ us_delay = [t \in Threads |-> 0]
  /\ seen_generation = [w \in Workers |-> 0]
  /\ next_deadline = [w \in Workers |-> Never]
  /\ fresh = Tasks \cup Posts
  /\ runs = [t \in Tasks |-> 0]
  /\ graceful \in Builds
  /\ process = "running"

-----------------------------------------------------------------------------
(* thread_worker: one round of its loop, up to the task or the wait.       *)

LoopExit(w) ==
  /\ pc[w] = "loop" /\ kill_switch
  /\ Goto(w, "exited")
  /\ UNCHANGED <<kill_switch, counters, queues, locals, world>>

LoopEnter(w) ==
  /\ pc[w] = "loop" /\ ~kill_switch
  /\ Goto(w, "load")
  /\ UNCHANGED <<kill_switch, counters, queues, locals, world>>

LoadGeneration(w) ==
  /\ pc[w] = "load"
  /\ seen_generation' = [seen_generation EXCEPT ![w] = work_generation]
  /\ Goto(w, "queue")
  /\ UNCHANGED <<kill_switch, counters, queues, item, out, us_delay, next_deadline, world>>

\* _thread_pool_try_get_work: the queue first ...
TakeQueued(w) ==
  /\ pc[w] = "queue" /\ mpmc_queue # <<>>
  /\ item' = [item EXCEPT ![w] = Head(mpmc_queue)]
  /\ mpmc_queue' = Tail(mpmc_queue)
  /\ Goto(w, "begin")
  /\ UNCHANGED <<kill_switch, counters, timer_min_heap, main_thread_queue, main_lock,
                 out, us_delay, seen_generation, next_deadline, world>>

QueueEmpty(w) ==
  /\ pc[w] = "queue" /\ mpmc_queue = <<>>
  /\ Goto(w, "heap")
  /\ UNCHANGED <<kill_switch, counters, queues, locals, world>>

\* A root of the min heap: an entry with the least deadline.
Roots == {h \in timer_min_heap : \A g \in timer_min_heap : h.k <= g.k}

\* ... then the heap, whose root is taken only when its deadline has come.
TakeReady(w) ==
  /\ pc[w] = "heap"
  /\ \E h \in Roots :
       /\ h.k = 0
       /\ item' = [item EXCEPT ![w] = h.v]
       /\ timer_min_heap' = timer_min_heap \ {h}
  /\ Goto(w, "begin")
  /\ UNCHANGED <<kill_switch, counters, mpmc_queue, main_thread_queue, main_lock,
                 out, us_delay, seen_generation, next_deadline, world>>

NothingReady(w) ==
  /\ pc[w] = "heap"
  /\ \A h \in Roots : h.k > 0
  /\ Goto(w, "peek")
  /\ UNCHANGED <<kill_switch, counters, queues, locals, world>>

\* Mutant: the sleep is not cut short for a timer.
MutantPeekDeadline(w) ==
  /\ pc[w] = "peek"
  /\ next_deadline' = [next_deadline EXCEPT ![w] = Never]
  /\ Goto(w, "sleep")
  /\ UNCHANGED <<kill_switch, counters, queues, item, out, us_delay, seen_generation, world>>

\* _thread_pool_next_deadline
PeekDeadline(w) ==
  /\ pc[w] = "peek"
  /\ \/ /\ timer_min_heap = {}
        /\ next_deadline' = [next_deadline EXCEPT ![w] = Never]
     \/ \E h \in Roots : next_deadline' = [next_deadline EXCEPT ![w] = h.k]
  /\ Goto(w, "sleep")
  /\ UNCHANGED <<kill_switch, counters, queues, item, out, us_delay, seen_generation, world>>

\* Mutant: the generation is not looked at again under the mutex.
MutantMayWait(w) == ~kill_switch /\ next_deadline[w] > 0

\* Nothing was announced since LoadGeneration, and the deadline lies ahead:
\* os_condition_variable_wait returns at once for a deadline that has passed.
MayWait(w) ==
  /\ ~kill_switch
  /\ seen_generation[w] = work_generation
  /\ next_deadline[w] > 0

\* The critical section of the work mutex: wait, or go round again.
Sleep(w) ==
  /\ pc[w] = "sleep"
  /\ Goto(w, IF MayWait(w) THEN "waiting" ELSE "loop")
  /\ UNCHANGED <<kill_switch, counters, queues, locals, world>>

\* The wait reaches its deadline.
TimeOut(w) ==
  /\ pc[w] = "waiting" /\ next_deadline[w] = 0
  /\ Goto(w, "loop")
  /\ UNCHANGED <<kill_switch, counters, queues, locals, world>>

\* A condition variable may return from a wait without a signal.
SpuriousWake(w) ==
  /\ \/ pc[w] = "waiting" /\ Goto(w, "loop")
     \/ pc[w] = "post_wait" /\ Goto(w, "post")
  /\ UNCHANGED <<kill_switch, counters, queues, locals, world>>

-----------------------------------------------------------------------------
(* thread_worker: the accounting around a task, and what the task does.    *)

\* Mutant: the two counters are moved in the other order.
MutantBeginTask(w) ==
  /\ pc[w] = "begin"
  /\ pending_task_count' = pending_task_count - 1
  /\ Goto(w, "began")
  /\ UNCHANGED <<kill_switch, work_generation, in_flight_count, queues, locals, world>>

BeginTask(w) ==
  /\ pc[w] = "begin"
  /\ in_flight_count' = in_flight_count + 1
  /\ Goto(w, "began")
  /\ UNCHANGED <<kill_switch, work_generation, pending_task_count, queues, locals, world>>

\* Mutant: a task taken over by a worker still counts as pending.
MutantUncountPending(w) ==
  /\ pc[w] = "began"
  /\ runs' = [runs EXCEPT ![item[w]] = @ + 1]
  /\ Goto(w, "run")
  /\ UNCHANGED <<kill_switch, counters, queues, locals, fresh, graceful, process>>

UncountPending(w) ==
  /\ pc[w] = "began"
  /\ pending_task_count' = pending_task_count - 1
  /\ runs' = [runs EXCEPT ![item[w]] = @ + 1]
  /\ Goto(w, "run")
  /\ UNCHANGED <<kill_switch, work_generation, in_flight_count, queues, locals,
                 fresh, graceful, process>>

\* The user function returns {}: nothing follows.
ReturnDone(w) ==
  /\ pc[w] = "run"
  /\ Goto(w, "finish")
  /\ UNCHANGED <<kill_switch, counters, queues, locals, world>>

\* The user function returns a continuation: the same item goes back in.
ReturnContinuation(w) ==
  /\ pc[w] = "run"
  /\ runs[item[w]] < MaxRuns
  /\ out' = [out EXCEPT ![w] = item[w]]
  /\ \E d \in Delays : us_delay' = [us_delay EXCEPT ![w] = d]
  /\ Goto(w, "check")
  /\ UNCHANGED <<kill_switch, counters, queues, item, seen_generation, next_deadline, world>>

\* The user function starts another task (CesiumTaskProcessor::startTask).
SpawnTask(w) ==
  /\ pc[w] = "run"
  /\ \E t \in fresh \cap Tasks :
       /\ out' = [out EXCEPT ![w] = t]
       /\ fresh' = fresh \ {t}
  /\ us_delay' = [us_delay EXCEPT ![w] = 0]
  /\ Goto(w, "check")
  /\ UNCHANGED <<kill_switch, counters, queues, item, seen_generation, next_deadline,
                 runs, graceful, process>>

\* The HTTP step ends with a main_thread_func: it is pushed to the main thread.
PostToMain(w) ==
  /\ pc[w] = "run"
  /\ \E p \in fresh \cap Posts :
       /\ out' = [out EXCEPT ![w] = p]
       /\ fresh' = fresh \ {p}
  /\ Goto(w, "post")
  /\ UNCHANGED <<kill_switch, counters, queues, item, us_delay, seen_generation,
                 next_deadline, runs, graceful, process>>

\* Mutant: the next round starts with the item of the last one.
MutantFinishTask(w) ==
  /\ pc[w] = "finish"
  /\ in_flight_count' = in_flight_count - 1
  /\ Goto(w, "loop")
  /\ UNCHANGED <<kill_switch, work_generation, pending_task_count, queues, locals, world>>

FinishTask(w) ==
  /\ pc[w] = "finish"
  /\ in_flight_count' = in_flight_count - 1
  /\ item' = [item EXCEPT ![w] = NoItem]
  /\ Goto(w, "loop")
  /\ UNCHANGED <<kill_switch, work_generation, pending_task_count, queues,
                 out, us_delay, seen_generation, next_deadline, world>>

-----------------------------------------------------------------------------
(* thread_pool_push, by a worker or by the main thread.                    *)

\* A worker's own item is a continuation; anything else is a task it starts.
IsContinuation(t) == t \in Workers /\ out[t] = item[t]

\* Mutant: a worker goes on with a task it has put back in the queue.
MutantAfterPush(t) == IF t = Main THEN "frame" ELSE "run"

\* Where a thread goes on after thread_pool_push: the main thread in its frame, a
\* worker that returned a continuation at the end of the task, and one that
\* started a task inside the task it runs.
AfterPush(t) ==
  IF t = Main THEN "frame" ELSE IF IsContinuation(t) THEN "finish" ELSE "run"

PushAccepted(t) ==
  /\ pc[t] = "check" /\ ~kill_switch
  /\ Goto(t, "count")
  /\ UNCHANGED <<kill_switch, counters, queues, locals, world>>

\* Refused because of the kill switch.  _thread_pool_worker_task_execute asserts
\* that a continuation is not; a task started anew is fatal to startTask and
\* dropped by the texture and buffer uploads.
PushRefused(t) ==
  /\ pc[t] = "check" /\ kill_switch
  /\ \/ process' = (IF IsContinuation(t) THEN "assert_failed" ELSE "exit_with_error")
        /\ UNCHANGED <<pc, out>>
     \/ /\ ~IsContinuation(t)
        /\ out' = [out EXCEPT ![t] = NoItem]
        /\ Goto(t, AfterPush(t))
        /\ UNCHANGED process
  /\ UNCHANGED <<kill_switch, counters, queues, item, us_delay, seen_generation,
                 next_deadline, fresh, runs, graceful>>

CountPending(t) ==
  /\ pc[t] = "count"
  /\ pending_task_count' = pending_task_count + 1
  /\ Goto(t, "enqueue")
  /\ UNCHANGED <<kill_switch, work_generation, in_flight_count, queues, locals, world>>

Enqueue(t) ==
  /\ pc[t] = "enqueue"
  /\ \/ /\ us_delay[t] > 0
        /\ timer_min_heap' = timer_min_heap \cup {[k |-> us_delay[t], v |-> out[t]]}
        /\ UNCHANGED mpmc_queue
     \/ /\ us_delay[t] = 0
        /\ mpmc_queue' = Append(mpmc_queue, out[t])
        /\ UNCHANGED timer_min_heap
  /\ Goto(t, "wake")
  /\ UNCHANGED <<kill_switch, counters, main_thread_queue, main_lock, locals, world>>

Waiting == {w \in Workers : pc[w] = "waiting"}

\* _thread_pool_wake_workers(pool, false): a new generation, and one sleeper woken.
WakeOne(t) ==
  /\ pc[t] = "wake"
  /\ work_generation' = work_generation + 1
  /\ \/ Waiting = {} /\ Goto(t, AfterPush(t))
     \/ \E w \in Waiting : pc' = [pc EXCEPT ![t] = AfterPush(t), ![w] = "loop"]
  /\ out' = [out EXCEPT ![t] = NoItem]
  /\ us_delay' = [us_delay EXCEPT ![t] = 0]
  /\ UNCHANGED <<kill_switch, in_flight_count, pending_task_count, queues,
                 item, seen_generation, next_deadline, world>>

-----------------------------------------------------------------------------
(* thread_pool_main_thread_queue_push, by a worker.                        *)

\* Under the mutex: the kill switch ends the push, the item is dropped.
PostKilled(w) ==
  /\ pc[w] = "post" /\ main_lock = Nobody /\ kill_switch
  /\ out' = [out EXCEPT ![w] = NoItem]
  /\ Goto(w, "finish")
  /\ UNCHANGED <<kill_switch, counters, queues, item, us_delay, seen_generation,
                 next_deadline, world>>

PostChecked(w) ==
  /\ pc[w] = "post" /\ main_lock = Nobody /\ ~kill_switch
  /\ main_lock' = w
  /\ Goto(w, "post_try")
  /\ UNCHANGED <<kill_switch, counters, timer_min_heap, mpmc_queue, main_thread_queue,
                 locals, world>>

\* os_condition_variable_broadcast(main_thread_queue_cv), after thread t moves on.
BroadcastMain(t, label) ==
  pc' = [u \in Threads |-> IF u = t THEN label
                           ELSE IF pc[u] = "post_wait" THEN "post" ELSE pc[u]]

PostAccepted(w) ==
  /\ pc[w] = "post_try" /\ Len(main_thread_queue) < MainCap
  /\ main_thread_queue' = Append(main_thread_queue, out[w])
  /\ out' = [out EXCEPT ![w] = NoItem]
  /\ main_lock' = Nobody
  /\ BroadcastMain(w, "finish")
  /\ UNCHANGED <<kill_switch, counters, timer_min_heap, mpmc_queue,
                 item, us_delay, seen_generation, next_deadline, world>>

\* The wait drops the mutex; woken, the thread takes it again and starts over.
PostWait(w) ==
  /\ pc[w] = "post_try" /\ Len(main_thread_queue) >= MainCap
  /\ main_lock' = Nobody
  /\ Goto(w, "post_wait")
  /\ UNCHANGED <<kill_switch, counters, timer_min_heap, mpmc_queue, main_thread_queue,
                 locals, world>>

-----------------------------------------------------------------------------
(* The main thread: frames that start tasks and drain its queue, then the  *)
(* end of the program.                                                     *)

Submit ==
  /\ pc[Main] = "frame"
  /\ \E t \in fresh \cap Tasks :
       /\ out' = [out EXCEPT ![Main] = t]
       /\ fresh' = fresh \ {t}
  /\ Goto(Main, "check")
  /\ UNCHANGED <<kill_switch, counters, queues, item, us_delay, seen_generation,
                 next_deadline, runs, graceful, process>>

BeginDrain ==
  /\ pc[Main] = "frame"
  /\ Goto(Main, "drain")
  /\ UNCHANGED <<kill_switch, counters, queues, locals, world>>

\* Mutant: a full queue that gets room again is not announced.
MutantDrainOne ==
  /\ pc[Main] = "drain" /\ main_lock = Nobody
  /\ main_thread_queue # <<>>
  /\ main_thread_queue' = Tail(main_thread_queue)
  /\ UNCHANGED <<kill_switch, counters, timer_min_heap, mpmc_queue, main_lock, pc, locals, world>>

\* thread_pool_main_thread_queue_try_pull and the item's function, which starts
\* nothing of its own.
DrainOne ==
  /\ pc[Main] = "drain" /\ main_lock = Nobody
  /\ main_thread_queue # <<>>
  /\ main_thread_queue' = Tail(main_thread_queue)
  /\ BroadcastMain(Main, "drain")
  /\ UNCHANGED <<kill_switch, counters, timer_min_heap, mpmc_queue, main_lock, locals, world>>

Drained ==
  /\ pc[Main] = "drain" /\ main_lock = Nobody
  /\ main_thread_queue = <<>>
  /\ Goto(Main, "frame")
  /\ UNCHANGED <<kill_switch, counters, queues, locals, world>>

\* The frame loop ends.  Only a graceful build waits for the workers.
Quit ==
  /\ pc[Main] = "frame"
  /\ Goto(Main, IF graceful THEN "pending" ELSE "kill")
  /\ UNCHANGED <<kill_switch, counters, queues, locals, world>>

\* thread_pool_has_pending_work: two loads, the second only if the first gave 0.
LoadPending ==
  /\ pc[Main] = "pending"
  /\ pending_task_count = 0
  /\ Goto(Main, "in_flight")
  /\ UNCHANGED <<kill_switch, counters, queues, locals, world>>

\* With no work left, what the tasks use is released and the pool destroyed.
LoadInFlight ==
  /\ pc[Main] = "in_flight"
  /\ Goto(Main, IF in_flight_count > 0 THEN "pending" ELSE "kill")
  /\ UNCHANGED <<kill_switch, counters, queues, locals, world>>

\* thread_pool_destroy
Kill ==
  /\ pc[Main] = "kill"
  /\ kill_switch' = TRUE
  /\ Goto(Main, "kill_wake")
  /\ UNCHANGED <<counters, queues, locals, world>>


KillWake ==
  /\ pc[Main] = "kill_wake"
  /\ work_generation' = work_generation + 1
  /\ pc' = [t \in Threads |-> IF t = Main THEN "kill_cast"
                              ELSE IF pc[t] = "waiting" THEN "loop" ELSE pc[t]]
  /\ UNCHANGED <<kill_switch, in_flight_count, pending_task_count, queues, locals, world>>

\* Without main_thread_queue_mutex.
KillCast ==
  /\ pc[Main] = "kill_cast"
  /\ BroadcastMain(Main, "join")
  /\ UNCHANGED <<kill_switch, counters, queues, locals, world>>

Joined ==
  /\ pc[Main] = "join"
  /\ \A w \in Workers : pc[w] = "exited"
  /\ Goto(Main, "done")
  /\ UNCHANGED <<kill_switch, counters, queues, locals, world>>

-----------------------------------------------------------------------------
Later(d) == IF d \in {0, Never} THEN d ELSE d - 1

Tick ==
  /\ timer_min_heap' = {[k |-> Later(h.k), v |-> h.v] : h \in timer_min_heap}
  /\ next_deadline' = [w \in Workers |-> Later(next_deadline[w])]
  /\ UNCHANGED <<kill_switch, counters, mpmc_queue, main_thread_queue, main_lock, pc,
                 item, out, us_delay, seen_generation, world>>

PushStep(t) == PushAccepted(t) \/ PushRefused(t) \/ CountPending(t) \/ Enqueue(t) \/ WakeOne(t)

PostStep(w) == PostKilled(w) \/ PostChecked(w) \/ PostAccepted(w) \/ PostWait(w)

SearchStep(w) ==
  \/ LoopExit(w) \/ LoopEnter(w) \/ LoadGeneration(w)
  \/ TakeQueued(w) \/ QueueEmpty(w) \/ TakeReady(w) \/ NothingReady(w)
  \/ PeekDeadline(w) \/ Sleep(w) \/ TimeOut(w)

TaskStep(w) ==
  \/ BeginTask(w) \/ UncountPending(w)
  \/ ReturnDone(w) \/ ReturnContinuation(w) \/ SpawnTask(w) \/ PostToMain(w)
  \/ FinishTask(w)

WorkerStep(w) == SearchStep(w) \/ TaskStep(w) \/ PushStep(w) \/ PostStep(w)

DrainStep == BeginDrain \/ DrainOne \/ Drained

ShutdownStep ==
  LoadPending \/ LoadInFlight \/ Kill \/ KillWake \/ KillCast \/ Joined

Running == process = "running" /\ pc[Main] # "done"

Next ==
  \/ /\ Running
     /\ \/ \E w \in Workers : WorkerStep(w) \/ SpuriousWake(w)
        \/ PushStep(Main) \/ Submit \/ DrainStep \/ Quit \/ ShutdownStep
        \/ Tick
  \/ ~Running /\ UNCHANGED vars

Spec == Init /\ [][Next]_vars

\* Every thread that can run does, the clock goes on and frames keep draining the
\* main thread's queue.  Nothing forces the user to quit or a wait to end early.
FairSpec ==
  /\ Spec
  /\ \A w \in Workers : WF_vars(Running /\ WorkerStep(w))
  /\ WF_vars(Running /\ PushStep(Main))
  /\ WF_vars(Running /\ DrainStep)
  /\ WF_vars(Running /\ ShutdownStep)
  /\ WF_vars(Running /\ Tick)

-----------------------------------------------------------------------------
PushLabels   == {"check", "count", "enqueue", "wake"}
PostLabels   == {"post", "post_try", "post_wait"}
SearchLabels == {"loop", "load", "queue", "heap", "peek", "sleep", "waiting", "exited"}
WorkerLabels == SearchLabels \cup {"begin", "began", "run", "finish"} \cup PushLabels \cup PostLabels
MainLabels   == PushLabels \cup {"frame", "drain", "pending", "in_flight", "kill",
                                 "kill_wake", "kill_cast", "join", "done"}

PoolType ==
  /\ kill_switch \in BOOLEAN
  /\ work_generation \in Nat
  /\ in_flight_count \in Int
  /\ pending_task_count \in Int
  /\ timer_min_heap \in SUBSET [k : 0 .. Never - 1, v : Tasks]
  /\ mpmc_queue \in Seq(Tasks)
  /\ main_thread_queue \in Seq(Posts)
  /\ main_lock \in Workers \cup {Nobody}
  /\ fresh \subseteq Tasks \cup Posts
  /\ runs \in [Tasks -> Nat]
  /\ graceful \in BOOLEAN
  /\ process \in {"running", "assert_failed", "exit_with_error"}

LocalsType ==
  /\ item \in [Workers -> Tasks \cup {NoItem}]
  /\ out \in [Threads -> Tasks \cup Posts \cup {NoItem}]
  /\ us_delay \in [Threads -> 0 .. Never - 1]
  /\ seen_generation \in [Workers -> Nat]
  /\ next_deadline \in [Workers -> 0 .. Never]

PlacesType ==
  /\ pc \in [Threads -> WorkerLabels \cup MainLabels]
  /\ \A w \in Workers : pc[w] \in WorkerLabels
  /\ pc[Main] \in MainLabels

\* A thread holds an item, or something to push, exactly where the code does.
Holdings ==
  /\ \A w \in Workers : item[w] = NoItem <=> pc[w] \in SearchLabels
  /\ \A t \in Threads : pc[t] \in PushLabels => out[t] \in Tasks
  /\ \A w \in Workers : pc[w] \in PostLabels => out[w] \in Posts

\* The variables have their types, and what each thread holds fits where it is
\* (thread_worker, thread_pool_push, thread_pool_main_thread_queue_push).
TypeOK == PoolType /\ LocalsType /\ PlacesType /\ Holdings

At(labels) == {t \in Threads : pc[t] \in labels}

\* A worker is working on its item from the moment it took it until the item is
\* back in a queue or done with.
Holds(w, t) ==
  /\ item[w] = t
  /\ pc[w] # "finish"
  /\ ~(pc[w] = "wake" /\ IsContinuation(w))

\* thread_pool.cpp:125, 233-235: pending_task_count counts the items that wait plus
\* the pushes and takes between their two halves, in_flight_count the workers
\* that have taken an item.  Neither ever drifts, whatever the interleaving.
CountersExact ==
  /\ pending_task_count =
       Len(mpmc_queue) + Cardinality(timer_min_heap) + Cardinality(At({"enqueue", "begin", "began"}))
  /\ in_flight_count =
       Cardinality({w \in Workers : item[w] # NoItem /\ pc[w] # "begin"})

\* thread_pool.cpp:233-234: an item passes from pending to in flight without a
\* moment at which both counters are zero and it is still to be done.
IdleCountersMeanIdle ==
  pending_task_count = 0 /\ in_flight_count = 0 =>
    /\ mpmc_queue = <<>> /\ timer_min_heap = {}
    /\ \A w \in Workers : item[w] = NoItem

\* thread_pool.cpp:65-70: a task is never in two hands: while a worker is executing it,
\* it is in no queue, in no timer and with no other worker.
RunsAlone ==
  \A t \in Tasks :
    Cardinality({i \in DOMAIN mpmc_queue : mpmc_queue[i] = t})
      + Cardinality({h \in timer_min_heap : h.v = t})
      + Cardinality({w \in Workers : Holds(w, t)}) <= 1

Searching == At({"loop", "load", "queue"})

\* thread_pool.cpp:228-248 with 73-88: no wakeup is lost.  While a worker sleeps, every
\* queued task has a push about to signal or a worker about to look in the queue.
WakeupsCoverWork ==
  ~kill_switch /\ Waiting # {} =>
    Len(mpmc_queue) <= Cardinality(At({"wake"})) + Cardinality(Searching)

\* thread_pool.cpp:22-34 and 243-247: when every worker sleeps, one of them sleeps no
\* longer than to the first deadline, unless a push is about to wake one.
TimersWatched ==
  ~kill_switch /\ timer_min_heap # {} /\ Waiting = Workers =>
    \/ At({"wake"}) # {}
    \/ \E w \in Workers : \A h \in timer_min_heap : next_deadline[w] <= h.k

\* thread_pool.cpp:151-168 and 179-183: a worker waits for room only while the main
\* thread's queue is full: a pull never leaves a poster behind.
PosterWaitsOnFull ==
  At({"post_wait"}) # {} => Len(main_thread_queue) = MainCap

\* thread_pool.cpp:65-70: AssertAlways(queued), a continuation is always accepted.
ContinuationQueued == process # "assert_failed"

\* entrypoint.cpp:340-343, thread_pool.cpp:137-141: the graceful shutdown releases what
\* the tasks use, and destroys the pool, only when no task is left.
DrainedBeforeRelease ==
  graceful /\ pc[Main] \in {"kill", "kill_wake", "kill_cast", "join", "done"} =>
    pending_task_count = 0 /\ in_flight_count = 0

\* thread_pool.cpp:36-43: a task in the queue is taken by a worker, unless the pool is
\* destroyed or the program aborted first.
QueuedRuns ==
  \A t \in Tasks :
    (\E i \in DOMAIN mpmc_queue : mpmc_queue[i] = t)
      ~> (kill_switch \/ ~Running \/ \A i \in DOMAIN mpmc_queue : mpmc_queue[i] # t)

\* thread_pool.cpp:45-54: a delayed task is taken by a worker once its time has come.
TimersRun ==
  \A t \in Tasks :
    (\E h \in timer_min_heap : h.v = t)
      ~> (kill_switch \/ ~Running \/ \A h \in timer_min_heap : h.v # t)

Ended == pc[Main] = "done" \/ process # "running"

\* entrypoint.cpp:341-343, thread_pool.cpp:286-296: once the frame loop has ended, the
\* program ends: the wait for the tasks and the joins return.
ShutdownEnds == (pc[Main] \in {"pending", "kill"}) ~> Ended

\* A worker waits for room in the full queue while the main thread, which alone makes
\* room, waits for the workers: in the idle check of a graceful build, whose tasks never
\* end, or in the join, after a broadcast that came before the wait.
PosterAbandoned ==
  /\ At({"post_wait"}) # {} /\ Len(main_thread_queue) = MainCap
  /\ pc[Main] \in {"pending", "in_flight", "join"}

=============================================================================
