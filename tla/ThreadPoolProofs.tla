-------------------------- MODULE ThreadPoolProofs --------------------------
(***************************************************************************)
(* Proofs about ThreadPool for every number of workers, tasks, posts and   *)
(* every capacity.                                                         *)
(***************************************************************************)
EXTENDS ThreadPool, SequenceFacts

Labels == WorkerLabels \cup MainLabels

(***************************************************************************)
(* The three kinds of steps keep the types, kind by kind.                  *)
(***************************************************************************)
LEMMA SearchKeepsType ==
  ASSUME TypeOK, NEW w \in Workers, SearchStep(w)
  PROVE  TypeOK'
<1> USE ThreadPoolAssumption DEF TypeOK, PoolType, LocalsType, PlacesType, Holdings,
        Threads, Goto, counters, queues, locals, world,
        WorkerLabels, SearchLabels, MainLabels, PushLabels, PostLabels
<1>1. CASE LoopExit(w)       BY <1>1 DEF LoopExit
<1>2. CASE LoopEnter(w)      BY <1>2 DEF LoopEnter
<1>3. CASE LoadGeneration(w) BY <1>3 DEF LoadGeneration
<1>4. CASE TakeQueued(w)
  <2>1. Head(mpmc_queue) \in Tasks /\ Tail(mpmc_queue) \in Seq(Tasks)
    BY <1>4 DEF TakeQueued
  <2>2. QED BY <1>4, <2>1 DEF TakeQueued
<1>5. CASE QueueEmpty(w)     BY <1>5 DEF QueueEmpty
<1>6. CASE TakeReady(w)
  <2>1. PoolType'   BY <1>6 DEF TakeReady, Roots
  <2>2. LocalsType' BY <1>6 DEF TakeReady, Roots
  <2>3. PlacesType' BY <1>6 DEF TakeReady, Roots
  <2>4. Holdings'   BY <1>6, <2>3 DEF TakeReady, Roots
  <2>5. QED BY <2>1, <2>2, <2>3, <2>4 DEF TypeOK
<1>7. CASE NothingReady(w)   BY <1>7 DEF NothingReady
<1>8. CASE PeekDeadline(w)
  <2>1. next_deadline' \in [Workers -> 0 .. Never]
    <3>1. \A h \in timer_min_heap : h.k \in 0 .. Never
      OBVIOUS
    <3>2. Never \in 0 .. Never
      OBVIOUS
    <3>3. \E d \in 0 .. Never : next_deadline' = [next_deadline EXCEPT ![w] = d]
      BY <1>8, <3>1, <3>2 DEF PeekDeadline, Roots
    <3>4. QED BY <3>3
  <2>2. QED BY <1>8, <2>1 DEF PeekDeadline
<1>9. CASE Sleep(w)
  <2>1. PoolType'   BY <1>9 DEF Sleep
  <2>2. LocalsType' BY <1>9 DEF Sleep
  <2>3. PlacesType' BY <1>9 DEF Sleep
  <2>4. Holdings'   BY <1>9, <2>3 DEF Sleep
  <2>5. QED BY <2>1, <2>2, <2>3, <2>4 DEF TypeOK
<1>10. CASE TimeOut(w)       BY <1>10 DEF TimeOut
<1>11. QED
  BY <1>1, <1>2, <1>3, <1>4, <1>5, <1>6, <1>7, <1>8, <1>9, <1>10 DEF SearchStep

\* Running a task keeps the types.
LEMMA TaskKeepsType ==
  ASSUME TypeOK, NEW w \in Workers, TaskStep(w)
  PROVE  TypeOK'
<1> USE ThreadPoolAssumption DEF TypeOK, PoolType, LocalsType, PlacesType, Holdings,
        Threads, Goto, counters, queues, locals, world,
        WorkerLabels, SearchLabels, MainLabels, PushLabels, PostLabels
<1>1. CASE BeginTask(w)
  <2>1. PoolType'   BY <1>1 DEF BeginTask
  <2>2. LocalsType' BY <1>1 DEF BeginTask
  <2>3. PlacesType' BY <1>1 DEF BeginTask
  <2>4. Holdings'   BY <1>1, <2>3 DEF BeginTask
  <2>5. QED BY <2>1, <2>2, <2>3, <2>4 DEF TypeOK
<1>2. CASE UncountPending(w)
  <2>0. item[w] \in Tasks
    BY <1>2 DEF UncountPending
  <2>1. PoolType'   BY <1>2, <2>0, SMTT(60) DEF UncountPending
  <2>2. LocalsType' BY <1>2 DEF UncountPending
  <2>3. PlacesType' BY <1>2 DEF UncountPending
  <2>4. Holdings'   BY <1>2, <2>3 DEF UncountPending
  <2>5. QED BY <2>1, <2>2, <2>3, <2>4 DEF TypeOK
<1>3. CASE ReturnDone(w)         BY <1>3 DEF ReturnDone
<1>4. CASE ReturnContinuation(w)
  <2>1. PoolType'   BY <1>4 DEF ReturnContinuation
  <2>2. LocalsType' BY <1>4, SMTT(60) DEF ReturnContinuation
  <2>3. PlacesType' BY <1>4 DEF ReturnContinuation
  <2>0. item[w] \in Tasks /\ out' = [out EXCEPT ![w] = item[w]]
    BY <1>4 DEF ReturnContinuation
  <2>4. Holdings'   BY <1>4, <2>0 DEF ReturnContinuation
  <2>5. QED BY <2>1, <2>2, <2>3, <2>4 DEF TypeOK
<1>5. CASE SpawnTask(w)
  <2>1. PoolType'   BY <1>5 DEF SpawnTask
  <2>2. LocalsType' BY <1>5 DEF SpawnTask
  <2>3. PlacesType' BY <1>5 DEF SpawnTask
  <2>4. Holdings'   BY <1>5, <2>3 DEF SpawnTask
  <2>5. QED BY <2>1, <2>2, <2>3, <2>4 DEF TypeOK
<1>6. CASE PostToMain(w)
  <2>1. PoolType'   BY <1>6 DEF PostToMain
  <2>2. LocalsType' BY <1>6 DEF PostToMain
  <2>3. PlacesType' BY <1>6 DEF PostToMain
  <2>4. Holdings'   BY <1>6, <2>3 DEF PostToMain
  <2>5. QED BY <2>1, <2>2, <2>3, <2>4 DEF TypeOK
<1>7. CASE FinishTask(w)         BY <1>7 DEF FinishTask
<1>8. QED
  BY <1>1, <1>2, <1>3, <1>4, <1>5, <1>6, <1>7 DEF TaskStep

\* Where a push returns to: the frame loop or the task that pushed.
LEMMA AfterPushPlace ==
  ASSUME NEW t \in Threads
  PROVE  /\ t = Main => AfterPush(t) = "frame"
         /\ t # Main => t \in Workers /\ AfterPush(t) \in {"finish", "run"}
BY DEF AfterPush, Threads

\* The steps of a push keep the types.
LEMMA PushKeepsType ==
  ASSUME TypeOK, NEW t \in Threads, PushStep(t)
  PROVE  TypeOK'
<1> USE ThreadPoolAssumption DEF TypeOK, PoolType, LocalsType, PlacesType, Holdings,
        Threads, Goto, counters, queues, locals, world,
        WorkerLabels, SearchLabels, MainLabels, PushLabels, PostLabels
<1>1. CASE PushAccepted(t)
  <2>1. PoolType'   BY <1>1 DEF PushAccepted
  <2>2. LocalsType' BY <1>1 DEF PushAccepted
  <2>3. PlacesType' BY <1>1 DEF PushAccepted
  <2>4. Holdings'   BY <1>1, <2>3 DEF PushAccepted
  <2>5. QED BY <2>1, <2>2, <2>3, <2>4 DEF TypeOK
<1>2. CASE PushRefused(t)
  <2>1. PoolType'   BY <1>2 DEF PushRefused, AfterPush
  <2>2. LocalsType' BY <1>2 DEF PushRefused, AfterPush
  <2>3. CASE UNCHANGED <<pc, out>>
    BY <1>2, <2>3 DEF PushRefused
  <2>4. CASE /\ out' = [out EXCEPT ![t] = NoItem]
             /\ pc' = [pc EXCEPT ![t] = AfterPush(t)]
    <3>1. PlacesType' BY <2>4, AfterPushPlace
    <3>2. Holdings'   BY <1>2, <2>4, AfterPushPlace, ZenonT(60) DEF PushRefused
    <3>3. QED BY <2>1, <2>2, <3>1, <3>2 DEF TypeOK
  <2>5. QED BY <1>2, <2>3, <2>4 DEF PushRefused
<1>3. CASE CountPending(t)
  <2>1. PoolType'   BY <1>3 DEF CountPending
  <2>2. LocalsType' BY <1>3 DEF CountPending
  <2>3. PlacesType' BY <1>3 DEF CountPending
  <2>4. Holdings'   BY <1>3, <2>3 DEF CountPending
  <2>5. QED BY <2>1, <2>2, <2>3, <2>4 DEF TypeOK
<1>4. CASE Enqueue(t)
  <2>0. out[t] \in Tasks /\ us_delay[t] \in 0 .. Never - 1
    BY <1>4 DEF Enqueue
  <2>1. PoolType'
    <3>1. timer_min_heap' \in SUBSET [k : 0 .. Never - 1, v : Tasks]
      <4>1. [k |-> us_delay[t], v |-> out[t]] \in [k : 0 .. Never - 1, v : Tasks]
        BY <2>0
      <4>2. timer_min_heap' \in {timer_min_heap,
                timer_min_heap \cup {[k |-> us_delay[t], v |-> out[t]]}}
        BY <1>4 DEF Enqueue
      <4>3. QED BY <4>1, <4>2
    <3>2. mpmc_queue' \in Seq(Tasks)
      <4>1. Append(mpmc_queue, out[t]) \in Seq(Tasks)
        BY <2>0
      <4>2. mpmc_queue' \in {mpmc_queue, Append(mpmc_queue, out[t])}
        BY <1>4 DEF Enqueue
      <4>3. QED BY <4>1, <4>2
    <3>3. QED BY <1>4, <3>1, <3>2 DEF Enqueue
  <2>2. LocalsType' BY <1>4 DEF Enqueue
  <2>3. PlacesType' BY <1>4 DEF Enqueue
  <2>4. Holdings'   BY <1>4, <2>3 DEF Enqueue
  <2>5. QED BY <2>1, <2>2, <2>3, <2>4 DEF TypeOK
<1>5. CASE WakeOne(t)
  <2>1. PoolType'   BY <1>5 DEF WakeOne, AfterPush, Waiting
  <2>2. LocalsType' BY <1>5 DEF WakeOne, AfterPush, Waiting
  <2>3. CASE pc' = [pc EXCEPT ![t] = AfterPush(t)]
    <3>1. PlacesType' BY <2>3, AfterPushPlace
    <3>2. Holdings'   BY <1>5, <2>3, AfterPushPlace, ZenonT(60) DEF WakeOne
    <3>3. QED BY <2>1, <2>2, <3>1, <3>2 DEF TypeOK
  <2>4. ASSUME NEW w \in Waiting, pc' = [pc EXCEPT ![t] = AfterPush(t), ![w] = "loop"]
        PROVE  TypeOK'
    <3>0. w \in Workers /\ w # Main /\ pc[w] = "waiting" /\ w # t
      BY <1>5, <2>4 DEF Waiting, WakeOne
    <3>1. PlacesType' BY <2>4, <3>0, AfterPushPlace, ZenonT(60)
    <3>2. Holdings'
      <4>1. \A u \in Workers : (item[u] = NoItem <=> pc[u] \in SearchLabels)'
        BY <1>5, <2>4, <3>0, AfterPushPlace, ZenonT(60) DEF WakeOne
      <4>2. \A u \in Threads : (pc[u] \in PushLabels => out[u] \in Tasks)'
        BY <1>5, <2>4, <3>0, AfterPushPlace DEF WakeOne
      <4>3. \A u \in Workers : (pc[u] \in PostLabels => out[u] \in Posts)'
        BY <1>5, <2>4, <3>0, AfterPushPlace DEF WakeOne
      <4>4. QED BY <4>1, <4>2, <4>3 DEF Holdings
    <3>3. QED BY <2>1, <2>2, <3>1, <3>2 DEF TypeOK
  <2>5. QED BY <1>5, <2>3, <2>4 DEF WakeOne
<1>6. QED BY <1>1, <1>2, <1>3, <1>4, <1>5 DEF PushStep

\* The steps of a post to the main thread keep the types.
LEMMA PostKeepsType ==
  ASSUME TypeOK, NEW w \in Workers, PostStep(w)
  PROVE  TypeOK'
<1> USE ThreadPoolAssumption DEF TypeOK, PoolType, LocalsType, PlacesType, Holdings,
        Threads, Goto, counters, queues, locals, world,
        WorkerLabels, SearchLabels, MainLabels, PushLabels, PostLabels
<1>1. CASE PostKilled(w)   BY <1>1 DEF PostKilled
<1>2. CASE PostChecked(w)  BY <1>2 DEF PostChecked
<1>3. CASE PostAccepted(w)
  <2>1. PoolType'   BY <1>3 DEF PostAccepted, BroadcastMain
  <2>2. LocalsType' BY <1>3 DEF PostAccepted, BroadcastMain
  <2>3. PlacesType' BY <1>3 DEF PostAccepted, BroadcastMain
  <2>4. Holdings'   BY <1>3, <2>3 DEF PostAccepted, BroadcastMain
  <2>5. QED BY <2>1, <2>2, <2>3, <2>4 DEF TypeOK
<1>4. CASE PostWait(w)     BY <1>4 DEF PostWait
<1>5. QED BY <1>1, <1>2, <1>3, <1>4 DEF PostStep

\* The main thread's steps keep the types.
LEMMA MainKeepsType ==
  ASSUME TypeOK, Submit \/ DrainStep \/ Quit \/ ShutdownStep
  PROVE  TypeOK'
<1> USE ThreadPoolAssumption DEF TypeOK, PoolType, LocalsType, PlacesType, Holdings,
        Threads, Goto, counters, queues, locals, world,
        WorkerLabels, SearchLabels, MainLabels, PushLabels, PostLabels
<1>1. CASE Submit       BY <1>1 DEF Submit
<1>2. CASE BeginDrain   BY <1>2 DEF BeginDrain
<1>3. CASE DrainOne
  <2>1. Tail(main_thread_queue) \in Seq(Posts)
    BY <1>3 DEF DrainOne
  <2>2. QED BY <1>3, <2>1 DEF DrainOne, BroadcastMain
<1>4. CASE Drained      BY <1>4 DEF Drained
<1>5. CASE Quit         BY <1>5 DEF Quit
<1>6. CASE LoadPending  BY <1>6 DEF LoadPending
<1>7. CASE LoadInFlight BY <1>7 DEF LoadInFlight
<1>8. CASE Kill         BY <1>8 DEF Kill
<1>9. CASE KillWake     BY <1>9 DEF KillWake
<1>10. CASE KillCast    BY <1>10 DEF KillCast, BroadcastMain
<1>11. CASE Joined      BY <1>11 DEF Joined
<1>12. QED
  BY <1>1, <1>2, <1>3, <1>4, <1>5, <1>6, <1>7, <1>8, <1>9, <1>10, <1>11
  DEF DrainStep, ShutdownStep

\* The clock and spurious wakeups keep the types.
LEMMA WorldKeepsType ==
  ASSUME TypeOK, Tick \/ \E w \in Workers : SpuriousWake(w)
  PROVE  TypeOK'
<1> USE ThreadPoolAssumption DEF TypeOK, PoolType, LocalsType, PlacesType, Holdings,
        Threads, Goto, counters, queues, locals, world,
        WorkerLabels, SearchLabels, MainLabels, PushLabels, PostLabels
<1>1. CASE Tick
  <2>1. \A d \in 0 .. Never - 1 : Later(d) \in 0 .. Never - 1
    BY DEF Later
  <2>2. \A d \in 0 .. Never : Later(d) \in 0 .. Never
    BY DEF Later
  <2>3. timer_min_heap' \in SUBSET [k : 0 .. Never - 1, v : Tasks]
    <3>1. \A h \in timer_min_heap :
            [k |-> Later(h.k), v |-> h.v] \in [k : 0 .. Never - 1, v : Tasks]
      BY <2>1
    <3>2. QED BY <1>1, <3>1 DEF Tick
  <2>4. next_deadline' \in [Workers -> 0 .. Never]
    BY <1>1, <2>2 DEF Tick
  <2>5. QED BY <1>1, <2>3, <2>4 DEF Tick
<1>2. ASSUME NEW w \in Workers, SpuriousWake(w) PROVE TypeOK'
  <2>1. CASE pc[w] = "waiting" /\ pc' = [pc EXCEPT ![w] = "loop"]
    BY <1>2, <2>1 DEF SpuriousWake
  <2>2. CASE pc[w] = "post_wait" /\ pc' = [pc EXCEPT ![w] = "post"]
    BY <1>2, <2>2 DEF SpuriousWake
  <2>3. QED BY <1>2, <2>1, <2>2 DEF SpuriousWake
<1>3. QED BY <1>1, <1>2

\* Every step keeps the types.
LEMMA StepKeepsType == TypeOK /\ [Next]_vars => TypeOK'
<1> SUFFICES ASSUME TypeOK, [Next]_vars PROVE TypeOK'
  OBVIOUS
<1>1. CASE Next /\ Running
  <2>1. ASSUME NEW w \in Workers, WorkerStep(w) PROVE TypeOK'
    BY <2>1, SearchKeepsType, TaskKeepsType, PushKeepsType, PostKeepsType
    DEF WorkerStep, Threads
  <2>2. CASE PushStep(Main)
    BY <2>2, PushKeepsType DEF Threads
  <2>3. QED BY <1>1, <2>1, <2>2, MainKeepsType, WorldKeepsType DEF Next
<1>2. CASE UNCHANGED vars
  BY <1>2 DEF vars, counters, queues, locals, world, TypeOK, PoolType, LocalsType,
              PlacesType, Holdings
<1>3. QED BY <1>1, <1>2 DEF Next

(***************************************************************************)
(* Whatever the numbers of workers, tasks and posts and the capacity: the  *)
(* pool's data keep their types and every thread holds what its place in   *)
(* the code says it holds.                                                 *)
(***************************************************************************)
THEOREM TypeCorrect == Spec => []TypeOK
<1>1. Init => TypeOK
  <2> SUFFICES ASSUME Init PROVE TypeOK
    OBVIOUS
  <2> USE ThreadPoolAssumption DEF Init, Threads, WorkerLabels, SearchLabels,
          MainLabels, PushLabels, PostLabels
  <2>1. PoolType
    <3>1. mpmc_queue \in Seq(Tasks) /\ main_thread_queue \in Seq(Posts)
      OBVIOUS
    <3>2. runs \in [Tasks -> Nat] /\ graceful \in BOOLEAN
      OBVIOUS
    <3>3. timer_min_heap \in SUBSET [k : 0 .. Never - 1, v : Tasks]
      OBVIOUS
    <3>4. /\ kill_switch \in BOOLEAN /\ fresh \subseteq Tasks \cup Posts
          /\ main_lock \in Workers \cup {Nobody}
      OBVIOUS
    <3>5. QED BY <3>1, <3>2, <3>3, <3>4 DEF PoolType
  <2>2. LocalsType BY DEF LocalsType
  <2>3. PlacesType BY DEF PlacesType
  <2>4. Holdings   BY DEF Holdings
  <2>5. QED BY <2>1, <2>2, <2>3, <2>4 DEF TypeOK
<1>2. QED BY <1>1, StepKeepsType, PTL DEF Spec

-----------------------------------------------------------------------------
(***************************************************************************)
(* No lost wakeup.  WakeupsCoverWork alone is not inductive: a worker that *)
(* is about to sleep must know that whatever entered the queue since it    *)
(* looked has a push that still has to signal.  The generation tells: as   *)
(* long as it is the one the worker loaded, no push has signalled.         *)
(***************************************************************************)
SeenPast == \A w \in Workers : seen_generation[w] <= work_generation

Wakers    == Cardinality(At({"wake"}))
Searchers == Cardinality(Searching)

ArrivalsUnsignalled ==
  ~kill_switch =>
    \A w \in Workers :
      pc[w] \in {"heap", "peek", "sleep"} /\ seen_generation[w] = work_generation =>
        Len(mpmc_queue) <= Wakers

WakeInv == SeenPast /\ ArrivalsUnsignalled /\ WakeupsCoverWork

(***************************************************************************)
(* The threads at a label of L when one thread moves.                      *)
(***************************************************************************)
LEMMA AtFinite ==
  ASSUME NEW L
  PROVE  IsFiniteSet(At(L)) /\ Cardinality(At(L)) \in Nat
<1>1. IsFiniteSet(Threads)
  BY ThreadPoolAssumption, FS_AddElement DEF Threads
<1>2. IsFiniteSet(At(L))
  BY <1>1, FS_Subset DEF At
<1>3. QED BY <1>2, FS_CardinalityType

\* How the number of threads at some labels changes when one thread moves.
LEMMA OneMove ==
  ASSUME TypeOK, NEW t \in Threads, NEW l, pc' = [pc EXCEPT ![t] = l], NEW L
  PROVE  /\ Cardinality(At(L))' = IF l \in L /\ pc[t] \notin L THEN Cardinality(At(L)) + 1
                               ELSE IF l \notin L /\ pc[t] \in L THEN Cardinality(At(L)) - 1
                               ELSE Cardinality(At(L))
         /\ Cardinality(At(L))' \in Nat
<1>1. pc'[t] = l /\ \A u \in Threads : u # t => pc'[u] = pc[u]
  BY DEF TypeOK, PlacesType
<1>2. IsFiniteSet(At(L)) /\ (t \in At(L) <=> pc[t] \in L)
  BY AtFinite DEF At
<1>3. CASE l \in L
  <2>1. At(L)' = At(L) \cup {t}
    BY <1>1, <1>3 DEF At
  <2>2. QED BY <1>2, <1>3, <2>1, FS_AddElement, FS_CardinalityType
<1>4. CASE l \notin L
  <2>1. At(L)' = At(L) \ {t}
    BY <1>1, <1>4 DEF At
  <2>2. QED BY <1>2, <1>4, <2>1, FS_RemoveElement, FS_CardinalityType
<1>5. QED BY <1>3, <1>4

InLoop(l) == l = "loop" \/ l = "load" \/ l = "queue"

\* How the numbers of wakers and searchers change when one thread moves.
LEMMA Counted ==
  ASSUME TypeOK, NEW t \in Threads, NEW l, pc' = [pc EXCEPT ![t] = l]
  PROVE  /\ Wakers \in Nat /\ Searchers \in Nat /\ Wakers' \in Nat /\ Searchers' \in Nat
         /\ l = "wake" /\ pc[t] # "wake" => Wakers' = Wakers + 1
         /\ l # "wake" /\ pc[t] = "wake" => Wakers' = Wakers - 1
         /\ (l = "wake" <=> pc[t] = "wake") => Wakers' = Wakers
         /\ InLoop(l) /\ ~InLoop(pc[t]) => Searchers' = Searchers + 1
         /\ ~InLoop(l) /\ InLoop(pc[t]) => Searchers' = Searchers - 1
         /\ (InLoop(l) <=> InLoop(pc[t])) => Searchers' = Searchers
<1>1. \A x : x \in {"loop", "load", "queue"} <=> InLoop(x)
  BY DEF InLoop
<1>2. QED BY <1>1, AtFinite, OneMove DEF Wakers, Searchers, Searching

\* A worker's move between two places outside thread_pool_push.
LEMMA StaysCounted ==
  ASSUME TypeOK, NEW w \in Workers, NEW l, pc' = [pc EXCEPT ![w] = l],
         l # "wake", pc[w] # "wake", InLoop(l) <=> InLoop(pc[w])
  PROVE  /\ Wakers \in Nat /\ Wakers' = Wakers
         /\ Searchers \in Nat /\ Searchers' = Searchers
<1>1. w \in Threads
  BY DEF Threads
<1>2. QED BY <1>1, Counted

\* A worker that enters the search is one searcher more.
LEMMA EntersLoop ==
  ASSUME TypeOK, NEW w \in Workers, NEW l, pc' = [pc EXCEPT ![w] = l],
         l # "wake", pc[w] # "wake", InLoop(l), ~InLoop(pc[w])
  PROVE  /\ Wakers \in Nat /\ Wakers' = Wakers
         /\ Searchers \in Nat /\ Searchers' = Searchers + 1
<1>1. w \in Threads
  BY DEF Threads
<1>2. QED BY <1>1, Counted

\* A worker that leaves the search is one searcher less.
LEMMA LeavesLoop ==
  ASSUME TypeOK, NEW w \in Workers, NEW l, pc' = [pc EXCEPT ![w] = l],
         l # "wake", pc[w] # "wake", ~InLoop(l), InLoop(pc[w])
  PROVE  /\ Wakers \in Nat /\ Wakers' = Wakers
         /\ Searchers \in Nat /\ Searchers' \in Nat /\ Searchers' = Searchers - 1
<1>1. w \in Threads
  BY DEF Threads
<1>2. QED BY <1>1, Counted

(***************************************************************************)
(* Most steps do not touch the queue, the generation or the sleepers.      *)
(***************************************************************************)
Relevant == {"wake", "loop", "load", "queue", "heap", "peek", "sleep", "waiting"}

\* A step that moves nobody in or out of the search and the wakeup keeps the invariant.
LEMMA NeutralStep ==
  ASSUME TypeOK, WakeInv,
         UNCHANGED <<kill_switch, work_generation, mpmc_queue, seen_generation>>,
         \A t \in Threads : pc'[t] = pc[t] \/ (pc[t] \notin Relevant /\ pc'[t] \notin Relevant)
  PROVE  WakeInv'
<1>1. At({"wake"})' = At({"wake"}) /\ Searching' = Searching /\ Waiting' = Waiting
  BY DEF At, Searching, Waiting, Relevant, Threads
<1>2. Wakers' = Wakers /\ Searchers' = Searchers
  BY <1>1 DEF Wakers, Searchers
<1>3. \A w \in Workers : pc'[w] \in {"heap", "peek", "sleep"} => pc[w] = pc'[w]
  BY DEF Relevant, Threads
<1>4. SeenPast'
  BY DEF WakeInv, SeenPast
<1>5. ArrivalsUnsignalled'
  BY <1>2, <1>3 DEF WakeInv, ArrivalsUnsignalled
<1>6. WakeupsCoverWork'
  BY <1>1 DEF WakeInv, WakeupsCoverWork
<1>7. QED BY <1>4, <1>5, <1>6 DEF WakeInv

(***************************************************************************)
(* A worker's round: it may only reach its wait over an empty queue.       *)
(***************************************************************************)
LEMMA SearchKeepsWake ==
  ASSUME TypeOK, WakeInv, NEW w \in Workers, SearchStep(w)
  PROVE  WakeInv'
<1> USE DEF Threads, Goto, counters, queues, locals, world
<1>0. /\ w \in Threads /\ pc \in [Threads -> WorkerLabels \cup MainLabels]
      /\ work_generation \in Nat /\ mpmc_queue \in Seq(Tasks) /\ Len(mpmc_queue) \in Nat
      /\ seen_generation \in [Workers -> Nat]
  BY DEF TypeOK, PoolType, PlacesType, LocalsType
<1>1. CASE LoopExit(w)
  BY <1>0, <1>1 DEF LoopExit, WakeInv, SeenPast, ArrivalsUnsignalled, WakeupsCoverWork
<1>2. CASE LoopEnter(w)
  <2>0. pc[w] = "loop" /\ pc' = [pc EXCEPT ![w] = "load"]
    BY <1>2 DEF LoopEnter
  <2>1. Wakers' = Wakers /\ Searchers' = Searchers
    BY <2>0, StaysCounted DEF InLoop
  <2>2. Waiting' = Waiting
    BY <1>0, <1>2 DEF LoopEnter, Waiting
  <2>3. QED BY <1>0, <1>2, <2>1, <2>2
        DEF LoopEnter, WakeInv, SeenPast, ArrivalsUnsignalled, WakeupsCoverWork, Wakers, Searchers
<1>3. CASE LoadGeneration(w)
  <2>0. pc[w] = "load" /\ pc' = [pc EXCEPT ![w] = "queue"]
    BY <1>3 DEF LoadGeneration
  <2>1. Wakers' = Wakers /\ Searchers' = Searchers
    BY <2>0, StaysCounted DEF InLoop
  <2>2. Waiting' = Waiting
    BY <1>0, <1>3 DEF LoadGeneration, Waiting
  <2>3. QED BY <1>0, <1>3, <2>1, <2>2
        DEF LoadGeneration, WakeInv, SeenPast, ArrivalsUnsignalled, WakeupsCoverWork, Wakers, Searchers
<1>4. CASE TakeQueued(w)
  <2>0. pc[w] = "queue" /\ pc' = [pc EXCEPT ![w] = "begin"]
    BY <1>4 DEF TakeQueued
  <2>1. /\ Wakers' = Wakers /\ Searchers' = Searchers - 1
        /\ Wakers \in Nat /\ Searchers \in Nat
    BY <2>0, LeavesLoop DEF InLoop
  <2>2. Waiting' = Waiting
    BY <1>0, <1>4 DEF TakeQueued, Waiting
  <2>3. Len(mpmc_queue') = Len(mpmc_queue) - 1
    BY <1>0, <1>4 DEF TakeQueued
  <2>4. QED BY <1>0, <1>4, <2>1, <2>2, <2>3
        DEF TakeQueued, WakeInv, SeenPast, ArrivalsUnsignalled, WakeupsCoverWork, Wakers, Searchers
<1>5. CASE QueueEmpty(w)
  <2>0. pc[w] = "queue" /\ pc' = [pc EXCEPT ![w] = "heap"]
    BY <1>5 DEF QueueEmpty
  <2>1. Wakers' \in Nat /\ Searchers' \in Nat
    BY <2>0, LeavesLoop DEF InLoop
  <2>2. Len(mpmc_queue') = 0
    BY <1>5 DEF QueueEmpty
  <2>3. QED BY <1>0, <1>5, <2>1, <2>2
        DEF QueueEmpty, WakeInv, SeenPast, ArrivalsUnsignalled, WakeupsCoverWork, Wakers, Searchers
<1>6. CASE TakeReady(w)
  <2>0. pc[w] = "heap" /\ pc' = [pc EXCEPT ![w] = "begin"]
    BY <1>6 DEF TakeReady
  <2>1. Wakers' = Wakers /\ Searchers' = Searchers
    BY <2>0, StaysCounted DEF InLoop
  <2>2. Waiting' = Waiting
    BY <1>0, <1>6 DEF TakeReady, Waiting
  <2>3. QED BY <1>0, <1>6, <2>1, <2>2
        DEF TakeReady, WakeInv, SeenPast, ArrivalsUnsignalled, WakeupsCoverWork, Wakers, Searchers
<1>7. CASE NothingReady(w)
  <2>0. pc[w] = "heap" /\ pc' = [pc EXCEPT ![w] = "peek"]
    BY <1>7 DEF NothingReady
  <2>1. Wakers' = Wakers /\ Searchers' = Searchers
    BY <2>0, StaysCounted DEF InLoop
  <2>2. Waiting' = Waiting
    BY <1>0, <1>7 DEF NothingReady, Waiting
  <2>3. QED BY <1>0, <1>7, <2>1, <2>2
        DEF NothingReady, WakeInv, SeenPast, ArrivalsUnsignalled, WakeupsCoverWork, Wakers, Searchers
<1>8. CASE PeekDeadline(w)
  <2>0. pc[w] = "peek" /\ pc' = [pc EXCEPT ![w] = "sleep"]
    BY <1>8 DEF PeekDeadline
  <2>1. Wakers' = Wakers /\ Searchers' = Searchers
    BY <2>0, StaysCounted DEF InLoop
  <2>2. Waiting' = Waiting
    BY <1>0, <1>8 DEF PeekDeadline, Waiting
  <2>3. QED BY <1>0, <1>8, <2>1, <2>2
        DEF PeekDeadline, WakeInv, SeenPast, ArrivalsUnsignalled, WakeupsCoverWork, Wakers, Searchers
<1>9. CASE Sleep(w)
  <2>1. CASE MayWait(w)
    <3>1. pc' = [pc EXCEPT ![w] = "waiting"] /\ pc[w] = "sleep"
      BY <1>9, <2>1 DEF Sleep
    <3>2. Wakers' = Wakers /\ Searchers' = Searchers /\ Wakers \in Nat /\ Searchers \in Nat
      BY <3>1, StaysCounted DEF InLoop
    <3>3. ~kill_switch => Len(mpmc_queue) <= Wakers
      BY <2>1, <3>1 DEF MayWait, WakeInv, ArrivalsUnsignalled
    <3>4. QED BY <1>0, <1>9, <3>1, <3>2, <3>3
          DEF Sleep, WakeInv, SeenPast, ArrivalsUnsignalled, WakeupsCoverWork, Wakers, Searchers
  <2>2. CASE ~MayWait(w)
    <3>1. pc' = [pc EXCEPT ![w] = "loop"] /\ pc[w] = "sleep"
      BY <1>9, <2>2 DEF Sleep
    <3>2. Wakers' = Wakers /\ Searchers' = Searchers + 1 /\ Wakers \in Nat /\ Searchers \in Nat
      BY <3>1, EntersLoop DEF InLoop
    <3>3. Waiting' = Waiting
      BY <1>0, <3>1 DEF Waiting
    <3>4. QED BY <1>0, <1>9, <3>1, <3>2, <3>3
          DEF Sleep, WakeInv, SeenPast, ArrivalsUnsignalled, WakeupsCoverWork, Wakers, Searchers
  <2>3. QED BY <2>1, <2>2
<1>10. CASE TimeOut(w)
  <2>0. pc[w] = "waiting" /\ pc' = [pc EXCEPT ![w] = "loop"]
    BY <1>10 DEF TimeOut
  <2>1. Wakers' = Wakers /\ Searchers' = Searchers + 1 /\ Wakers \in Nat /\ Searchers \in Nat
    BY <2>0, EntersLoop DEF InLoop
  <2>2. Waiting' \subseteq Waiting
    BY <1>0, <1>10 DEF TimeOut, Waiting
  <2>3. QED BY <1>0, <1>10, <2>1, <2>2
        DEF TimeOut, WakeInv, SeenPast, ArrivalsUnsignalled, WakeupsCoverWork, Wakers, Searchers
<1>11. QED
  BY <1>1, <1>2, <1>3, <1>4, <1>5, <1>6, <1>7, <1>8, <1>9, <1>10 DEF SearchStep

(***************************************************************************)
(* A task's steps: only its end brings the worker back to the queue.       *)
(***************************************************************************)
LEMMA TaskKeepsWake ==
  ASSUME TypeOK, WakeInv, NEW w \in Workers, TaskStep(w)
  PROVE  WakeInv'
<1> USE DEF Threads, Goto, counters, queues, locals, world
<1>0. /\ pc \in [Threads -> WorkerLabels \cup MainLabels]
      /\ Len(mpmc_queue) \in Nat
  BY DEF TypeOK, PoolType, PlacesType
<1>1. CASE FinishTask(w)
  <2>0. pc[w] = "finish" /\ pc' = [pc EXCEPT ![w] = "loop"]
    BY <1>1 DEF FinishTask
  <2>1. Wakers' = Wakers /\ Searchers' = Searchers + 1 /\ Wakers \in Nat /\ Searchers \in Nat
    BY <2>0, EntersLoop DEF InLoop
  <2>2. Waiting' = Waiting
    BY <1>0, <2>0 DEF Waiting
  <2>3. QED BY <1>0, <1>1, <2>0, <2>1, <2>2
        DEF FinishTask, WakeInv, SeenPast, ArrivalsUnsignalled, WakeupsCoverWork, Wakers, Searchers
<1>2. CASE ~FinishTask(w)
  <2>1. /\ UNCHANGED <<kill_switch, work_generation, mpmc_queue, seen_generation>>
        /\ pc[w] \in {"begin", "began", "run"}
        /\ \E l \in {"began", "run", "finish", "check", "post"} : pc' = [pc EXCEPT ![w] = l]
    BY <1>2 DEF TaskStep, BeginTask, UncountPending, ReturnDone, ReturnContinuation,
                SpawnTask, PostToMain
  <2>2. \A t \in Threads : pc'[t] = pc[t] \/ (pc[t] \notin Relevant /\ pc'[t] \notin Relevant)
    BY <1>0, <2>1 DEF Relevant
  <2>3. QED BY <2>1, <2>2, NeutralStep
<1>3. QED BY <1>1, <1>2

(***************************************************************************)
(* A push: what it adds to the queue is covered by itself until it has     *)
(* signalled, and then by the worker it woke.                              *)
(***************************************************************************)
LEMMA EnqueueKeepsWake ==
  ASSUME TypeOK, WakeInv, NEW t \in Threads, Enqueue(t)
  PROVE  WakeInv'
<1>0. /\ pc \in [Threads -> WorkerLabels \cup MainLabels]
      /\ mpmc_queue \in Seq(Tasks) /\ Len(mpmc_queue) \in Nat /\ out[t] \in Tasks
  BY DEF TypeOK, PoolType, PlacesType, Holdings, Enqueue, PushLabels
<1>1. pc[t] = "enqueue" /\ pc' = [pc EXCEPT ![t] = "wake"]
  BY DEF Enqueue, Goto
<1>2. /\ Wakers \in Nat /\ Searchers \in Nat
      /\ Wakers' = Wakers + 1
      /\ (InLoop("wake") <=> InLoop(pc[t])) => Searchers' = Searchers
  BY <1>1, Counted
<1>3. Searchers' = Searchers
  BY <1>1, <1>2 DEF InLoop
<1>4. Len(mpmc_queue') <= Len(mpmc_queue) + 1 /\ Len(mpmc_queue') \in Nat
  <2>1. Len(Append(mpmc_queue, out[t])) = Len(mpmc_queue) + 1
    BY <1>0
  <2>2. QED BY <1>0, <2>1 DEF Enqueue
<1>5. Waiting' = Waiting
  BY <1>0, <1>1 DEF Waiting, Threads
<1>6. \A w \in Workers : pc'[w] \in {"heap", "peek", "sleep"} => pc'[w] = pc[w]
  BY <1>0, <1>1 DEF Threads
<1>7. UNCHANGED <<kill_switch, work_generation, seen_generation>>
  BY DEF Enqueue, counters, locals
<1>8. SeenPast'
  BY <1>7 DEF WakeInv, SeenPast
<1>9. ArrivalsUnsignalled'
  BY <1>0, <1>2, <1>4, <1>6, <1>7 DEF WakeInv, ArrivalsUnsignalled
<1>10. WakeupsCoverWork'
  BY <1>0, <1>2, <1>3, <1>4, <1>5, <1>7 DEF WakeInv, WakeupsCoverWork, Wakers, Searchers
<1>11. QED BY <1>8, <1>9, <1>10 DEF WakeInv

\* The wakeup of one worker keeps the invariant of the wakeups.
LEMMA WakeOneKeepsWake ==
  ASSUME TypeOK, WakeInv, NEW t \in Threads, WakeOne(t)
  PROVE  WakeInv'
<1>0. /\ pc \in [Threads -> WorkerLabels \cup MainLabels]
      /\ work_generation \in Nat /\ seen_generation \in [Workers -> Nat]
      /\ Len(mpmc_queue) \in Nat
  BY DEF TypeOK, PoolType, PlacesType, LocalsType
<1>1. /\ pc[t] = "wake" /\ work_generation' = work_generation + 1
      /\ UNCHANGED <<kill_switch, mpmc_queue, seen_generation>>
  BY DEF WakeOne, queues
<1>2. \A w \in Workers : seen_generation'[w] <= work_generation
  BY <1>1 DEF WakeInv, SeenPast
<1>3. SeenPast' /\ ArrivalsUnsignalled'
  BY <1>0, <1>1, <1>2 DEF SeenPast, ArrivalsUnsignalled
<1>4. AfterPush(t) \in {"frame", "finish", "run"}
  BY AfterPushPlace
<1>5. WakeupsCoverWork'
  <2>1. CASE Waiting = {} /\ pc' = [pc EXCEPT ![t] = AfterPush(t)]
    <3>1. Waiting' = {}
      BY <1>0, <1>4, <2>1 DEF Waiting, Threads
    <3>2. QED BY <3>1 DEF WakeupsCoverWork
  <2>2. ASSUME NEW w \in Waiting, pc' = [pc EXCEPT ![t] = AfterPush(t), ![w] = "loop"]
        PROVE  WakeupsCoverWork'
    <3>1. w \in Threads /\ pc[w] = "waiting" /\ w # t
      BY <1>1 DEF Waiting, Threads
    <3>2. pc'[t] = AfterPush(t) /\ pc'[w] = "loop"
          /\ \A u \in Threads : u # t /\ u # w => pc'[u] = pc[u]
      BY <1>0, <2>2, <3>1
    <3>3. At({"wake"})' = At({"wake"}) \ {t} /\ t \in At({"wake"})
      BY <1>1, <1>4, <3>1, <3>2 DEF At
    <3>4. Searching' = Searching \cup {w} /\ w \notin Searching
      BY <1>1, <1>4, <3>1, <3>2 DEF Searching, At
    <3>5. /\ Cardinality(At({"wake"})) \in Nat
          /\ Cardinality(At({"wake"})') = Cardinality(At({"wake"})) - 1
      BY <3>3, AtFinite, FS_RemoveElement
    <3>6. /\ Cardinality(Searching) \in Nat
          /\ Cardinality(Searching') = Cardinality(Searching) + 1
      BY <3>4, AtFinite, FS_AddElement DEF Searching
    <3>7. ~kill_switch => Len(mpmc_queue) <= Cardinality(At({"wake"})) + Cardinality(Searching)
      BY DEF WakeInv, WakeupsCoverWork
    <3>8. QED BY <1>0, <1>1, <3>5, <3>6, <3>7 DEF WakeupsCoverWork
  <2>3. QED BY <2>1, <2>2 DEF WakeOne, Goto
<1>6. QED BY <1>3, <1>5 DEF WakeInv

\* The steps of a push keep the invariant of the wakeups.
LEMMA PushKeepsWake ==
  ASSUME TypeOK, WakeInv, NEW t \in Threads, PushStep(t)
  PROVE  WakeInv'
<1>0. pc \in [Threads -> WorkerLabels \cup MainLabels]
  BY DEF TypeOK, PlacesType
<1>1. CASE PushAccepted(t) \/ PushRefused(t) \/ CountPending(t)
  <2>1. AfterPush(t) \in {"frame", "finish", "run"}
    BY AfterPushPlace
  <2>2. /\ UNCHANGED <<kill_switch, work_generation, mpmc_queue, seen_generation>>
        /\ pc[t] \in {"check", "count"}
        /\ \/ pc' = pc
           \/ \E l \in {"count", "enqueue", "frame", "finish", "run"} : pc' = [pc EXCEPT ![t] = l]
    BY <1>1, <2>1 DEF PushAccepted, PushRefused, CountPending, Goto, counters, queues, locals
  <2>3. \A u \in Threads : pc'[u] = pc[u] \/ (pc[u] \notin Relevant /\ pc'[u] \notin Relevant)
    BY <1>0, <2>2 DEF Relevant
  <2>4. QED BY <2>2, <2>3, NeutralStep
<1>2. QED BY <1>1, EnqueueKeepsWake, WakeOneKeepsWake DEF PushStep

\* The steps of a post keep the invariant of the wakeups.
LEMMA PostKeepsWake ==
  ASSUME TypeOK, WakeInv, NEW w \in Workers, PostStep(w)
  PROVE  WakeInv'
<1>0. pc \in [Threads -> WorkerLabels \cup MainLabels] /\ w \in Threads
  BY DEF TypeOK, PlacesType, Threads
<1>1. UNCHANGED <<kill_switch, work_generation, mpmc_queue, seen_generation>>
  BY DEF PostStep, PostKilled, PostChecked, PostAccepted, PostWait, counters, queues, locals
<1>2. \A u \in Threads : pc'[u] = pc[u] \/ (pc[u] \notin Relevant /\ pc'[u] \notin Relevant)
  BY <1>0 DEF PostStep, PostKilled, PostChecked, PostAccepted, PostWait, BroadcastMain, Goto,
              Relevant
<1>3. QED BY <1>1, <1>2, NeutralStep

\* The main thread's steps keep the invariant of the wakeups.
LEMMA MainKeepsWake ==
  ASSUME TypeOK, WakeInv, Submit \/ DrainStep \/ Quit \/ ShutdownStep
  PROVE  WakeInv'
<1> USE DEF Goto, counters, queues, locals, world
<1>0. /\ pc \in [Threads -> WorkerLabels \cup MainLabels] /\ Main \in Threads
      /\ work_generation \in Nat /\ seen_generation \in [Workers -> Nat]
  BY DEF TypeOK, PlacesType, PoolType, LocalsType, Threads
<1>1. CASE Kill
  BY <1>1 DEF Kill, WakeInv, SeenPast, ArrivalsUnsignalled, WakeupsCoverWork
<1>2. CASE KillWake
  <2>1. Waiting' = {}
    BY <1>2, ThreadPoolAssumption DEF KillWake, Waiting, Threads
  <2>2. WakeupsCoverWork'
    BY <2>1 DEF WakeupsCoverWork
  <2>3. SeenPast' /\ ArrivalsUnsignalled'
    BY <1>0, <1>2 DEF KillWake, WakeInv, SeenPast, ArrivalsUnsignalled
  <2>4. QED BY <2>2, <2>3 DEF WakeInv
<1>3. CASE Submit \/ DrainStep \/ Quit \/ LoadPending \/ LoadInFlight \/ KillCast \/ Joined
  <2>1. UNCHANGED <<kill_switch, work_generation, mpmc_queue, seen_generation>>
    BY <1>3 DEF Submit, DrainStep, BeginDrain, DrainOne, Drained, Quit, LoadPending,
                LoadInFlight, KillCast, Joined
  <2>2. \A u \in Threads : pc'[u] = pc[u] \/ (pc[u] \notin Relevant /\ pc'[u] \notin Relevant)
    BY <1>0, <1>3 DEF Submit, DrainStep, BeginDrain, DrainOne, Drained, Quit, LoadPending,
                      LoadInFlight, KillCast, Joined, BroadcastMain, Relevant
  <2>3. QED BY <2>1, <2>2, NeutralStep
<1>4. QED BY <1>1, <1>2, <1>3 DEF ShutdownStep

\* The clock and spurious wakeups keep the invariant of the wakeups.
LEMMA WorldKeepsWake ==
  ASSUME TypeOK, WakeInv, Tick \/ \E w \in Workers : SpuriousWake(w)
  PROVE  WakeInv'
<1> USE DEF Threads, Goto, counters, queues, locals, world
<1>0. /\ pc \in [Threads -> WorkerLabels \cup MainLabels]
      /\ Len(mpmc_queue) \in Nat
  BY DEF TypeOK, PoolType, PlacesType
<1>1. CASE Tick
  <2>1. \A u \in Threads : pc'[u] = pc[u]
    BY <1>1 DEF Tick
  <2>2. QED BY <1>1, <2>1, NeutralStep DEF Tick
<1>2. ASSUME NEW w \in Workers, SpuriousWake(w) PROVE WakeInv'
  <2>0. UNCHANGED <<kill_switch, work_generation, mpmc_queue, seen_generation>>
    BY <1>2 DEF SpuriousWake
  <2>1. CASE pc[w] = "waiting" /\ pc' = [pc EXCEPT ![w] = "loop"]
    <3>1. Wakers' = Wakers /\ Searchers' = Searchers + 1 /\ Wakers \in Nat /\ Searchers \in Nat
      BY <2>1, EntersLoop DEF InLoop
    <3>2. Waiting' \subseteq Waiting
      BY <1>0, <2>1 DEF Waiting
    <3>3. QED BY <1>0, <2>0, <2>1, <3>1, <3>2
          DEF WakeInv, SeenPast, ArrivalsUnsignalled, WakeupsCoverWork, Wakers, Searchers
  <2>2. CASE pc[w] = "post_wait" /\ pc' = [pc EXCEPT ![w] = "post"]
    <3>1. \A u \in Threads : pc'[u] = pc[u] \/ (pc[u] \notin Relevant /\ pc'[u] \notin Relevant)
      BY <1>0, <2>2 DEF Relevant
    <3>2. QED BY <2>0, <3>1, NeutralStep
  <2>3. QED BY <1>2, <2>1, <2>2 DEF SpuriousWake
<1>3. QED BY <1>1, <1>2

\* Every step keeps the invariant of the wakeups.
LEMMA StepKeepsWake == TypeOK /\ WakeInv /\ [Next]_vars => WakeInv'
<1> SUFFICES ASSUME TypeOK, WakeInv, [Next]_vars PROVE WakeInv'
  OBVIOUS
<1>1. CASE Next /\ Running
  <2>1. ASSUME NEW w \in Workers, WorkerStep(w) PROVE WakeInv'
    BY <2>1, SearchKeepsWake, TaskKeepsWake, PushKeepsWake, PostKeepsWake
    DEF WorkerStep, Threads
  <2>2. CASE PushStep(Main)
    BY <2>2, PushKeepsWake DEF Threads
  <2>3. QED BY <1>1, <2>1, <2>2, MainKeepsWake, WorldKeepsWake DEF Next
<1>2. CASE UNCHANGED vars
  BY <1>2, NeutralStep DEF vars, counters, queues, locals
<1>3. QED BY <1>1, <1>2 DEF Next

(***************************************************************************)
(* With any number of workers: as long as the pool is not being destroyed  *)
(* and a worker sleeps, every task in the queue has a push that is about   *)
(* to signal or a worker that is about to look.  So no interleaving of     *)
(* thread_pool_push with thread_worker loses a wakeup.                     *)
(***************************************************************************)
THEOREM NoLostWakeup == Spec => []WakeupsCoverWork
<1>1. Init => WakeInv
  <2> SUFFICES ASSUME Init PROVE WakeInv
    OBVIOUS
  <2>1. Waiting = {}
    BY ThreadPoolAssumption DEF Init, Waiting, Threads
  <2>2. \A w \in Workers : pc[w] = "loop" /\ seen_generation[w] = 0 /\ work_generation = 0
    BY ThreadPoolAssumption DEF Init, Threads
  <2>3. QED BY <2>1, <2>2 DEF WakeInv, SeenPast, ArrivalsUnsignalled, WakeupsCoverWork
<1>2. WakeInv => WakeupsCoverWork
  BY DEF WakeInv
<1>3. QED BY <1>1, <1>2, StepKeepsWake, TypeCorrect, PTL DEF Spec

-----------------------------------------------------------------------------
(***************************************************************************)
(* The main thread's queue never exceeds its capacity, so a pull, which    *)
(* wakes every poster, is what ends its being full.                        *)
(***************************************************************************)
PosterInv == PosterWaitsOnFull /\ Len(main_thread_queue) <= MainCap

\* A step that brings no poster to its wait and leaves the queue alone keeps the posters'
\* invariant.
LEMMA QuietStep ==
  ASSUME PosterInv, UNCHANGED main_thread_queue,
         \A t \in Threads : pc'[t] = "post_wait" => pc[t] = "post_wait"
  PROVE  PosterInv'
<1>1. At({"post_wait"})' \subseteq At({"post_wait"})
  BY DEF At
<1>2. QED BY <1>1 DEF PosterInv, PosterWaitsOnFull

\* The steps of a post keep the posters' invariant.
LEMMA PostKeepsPosters ==
  ASSUME TypeOK, PosterInv, NEW w \in Workers, PostStep(w)
  PROVE  PosterInv'
<1>0. /\ pc \in [Threads -> WorkerLabels \cup MainLabels] /\ w \in Threads
      /\ main_thread_queue \in Seq(Posts) /\ Len(main_thread_queue) \in Nat /\ MainCap \in Nat
  BY ThreadPoolAssumption DEF TypeOK, PoolType, PlacesType, Threads
<1>1. CASE PostKilled(w) \/ PostChecked(w)
  <2>1. /\ UNCHANGED main_thread_queue
        /\ \E l \in {"finish", "post_try"} : pc' = [pc EXCEPT ![w] = l]
    BY <1>1 DEF PostKilled, PostChecked, Goto, queues
  <2>2. \A t \in Threads : pc'[t] = "post_wait" => pc[t] = "post_wait"
    BY <1>0, <2>1
  <2>3. QED BY <2>1, <2>2, QuietStep
<1>2. CASE PostAccepted(w)
  <2>1. out[w] \in Posts
    BY <1>2 DEF TypeOK, Holdings, PostAccepted, PostLabels
  <2>2. Len(Append(main_thread_queue, out[w])) = Len(main_thread_queue) + 1
    BY <1>0, <2>1
  <2>3. At({"post_wait"})' = {}
    BY <1>2 DEF PostAccepted, BroadcastMain, At
  <2>4. QED BY <1>0, <1>2, <2>2, <2>3 DEF PostAccepted, PosterInv, PosterWaitsOnFull
<1>3. CASE PostWait(w)
  BY <1>0, <1>3 DEF PostWait, PosterInv, PosterWaitsOnFull
<1>4. QED BY <1>1, <1>2, <1>3 DEF PostStep

\* The main thread's steps keep the posters' invariant.
LEMMA MainKeepsPosters ==
  ASSUME TypeOK, PosterInv, Submit \/ DrainStep \/ Quit \/ ShutdownStep
  PROVE  PosterInv'
<1>0. /\ pc \in [Threads -> WorkerLabels \cup MainLabels] /\ Main \in Threads
      /\ main_thread_queue \in Seq(Posts) /\ Len(main_thread_queue) \in Nat /\ MainCap \in Nat
  BY ThreadPoolAssumption DEF TypeOK, PoolType, PlacesType, Threads
<1>1. CASE DrainOne
  <2>1. Len(Tail(main_thread_queue)) = Len(main_thread_queue) - 1
    BY <1>0, <1>1 DEF DrainOne
  <2>2. At({"post_wait"})' = {}
    BY <1>1 DEF DrainOne, BroadcastMain, At
  <2>3. Len(main_thread_queue') <= MainCap
    BY <1>0, <1>1, <2>1 DEF DrainOne, PosterInv
  <2>4. QED BY <2>2, <2>3 DEF PosterInv, PosterWaitsOnFull
<1>2. CASE ~DrainOne
  <2>1. UNCHANGED main_thread_queue
    BY <1>2 DEF Submit, DrainStep, BeginDrain, Drained, Quit, ShutdownStep, LoadPending,
                LoadInFlight, Kill, KillWake, KillCast, Joined, queues
  <2>2. \A t \in Threads : pc'[t] = "post_wait" => pc[t] = "post_wait"
    BY <1>0, <1>2 DEF Submit, DrainStep, BeginDrain, Drained, Quit, ShutdownStep, LoadPending,
                LoadInFlight, Kill, KillWake, KillCast, Joined, BroadcastMain, Goto
  <2>3. QED BY <2>1, <2>2, QuietStep
<1>3. QED BY <1>1, <1>2

\* The workers' other steps keep the posters' invariant.
LEMMA WorkKeepsPosters ==
  ASSUME TypeOK, PosterInv, NEW t \in Threads,
         \/ t \in Workers /\ (SearchStep(t) \/ TaskStep(t) \/ SpuriousWake(t))
         \/ PushStep(t)
  PROVE  PosterInv'
<1>0. pc \in [Threads -> WorkerLabels \cup MainLabels]
  BY DEF TypeOK, PlacesType
<1>1. CASE t \in Workers /\ SearchStep(t)
  <2>1. /\ UNCHANGED main_thread_queue
        /\ \E l \in SearchLabels \cup {"begin"} : pc' = [pc EXCEPT ![t] = l]
    BY <1>1 DEF SearchStep, LoopExit, LoopEnter, LoadGeneration, TakeQueued, QueueEmpty, TakeReady,
         NothingReady, PeekDeadline, Sleep, TimeOut, Goto, queues, SearchLabels
  <2>2. QED BY <1>0, <2>1, QuietStep DEF SearchLabels
<1>2. CASE t \in Workers /\ TaskStep(t)
  <2>1. /\ UNCHANGED main_thread_queue
        /\ \E l \in {"began", "run", "finish", "check", "post", "loop"} :
             pc' = [pc EXCEPT ![t] = l]
    BY <1>2 DEF TaskStep, BeginTask, UncountPending, ReturnDone, ReturnContinuation, SpawnTask,
         PostToMain, FinishTask, Goto, queues
  <2>2. QED BY <1>0, <2>1, QuietStep
<1>3. CASE t \in Workers /\ SpuriousWake(t)
  <2>1. /\ UNCHANGED main_thread_queue
        /\ \E l \in {"loop", "post"} : pc' = [pc EXCEPT ![t] = l]
    BY <1>3 DEF SpuriousWake, Goto, queues
  <2>2. QED BY <1>0, <2>1, QuietStep
<1>4. CASE PushStep(t)
  <2>1. AfterPush(t) \in {"frame", "finish", "run"}
    BY AfterPushPlace
  <2>2. UNCHANGED main_thread_queue
    BY <1>4 DEF PushStep, PushAccepted, PushRefused, CountPending, Enqueue, WakeOne, queues
  <2>3. \A u \in Threads : pc'[u] = "post_wait" => pc[u] = "post_wait"
    BY <1>0, <1>4, <2>1
    DEF PushStep, PushAccepted, PushRefused, CountPending, Enqueue, WakeOne, Goto
  <2>4. QED BY <2>2, <2>3, QuietStep
<1>5. QED BY <1>1, <1>2, <1>3, <1>4

(***************************************************************************)
(* With any number of workers and any capacity: a worker waits for room in *)
(* the main thread's queue only while that queue is full, so no pull can   *)
(* leave one asleep.  The unlocked broadcast of thread_pool_destroy is the *)
(* other way to be left asleep, which this does not speak of.              *)
(***************************************************************************)
THEOREM PostersWaitOnlyWhenFull == Spec => []PosterWaitsOnFull
<1>1. Init => PosterInv
  <2> SUFFICES ASSUME Init PROVE PosterInv
    OBVIOUS
  <2>1. At({"post_wait"}) = {}
    BY ThreadPoolAssumption DEF Init, At, Threads
  <2>2. Len(main_thread_queue) = 0 /\ MainCap \in Nat
    BY ThreadPoolAssumption DEF Init
  <2>3. QED BY <2>1, <2>2 DEF PosterInv, PosterWaitsOnFull
<1>2. TypeOK /\ PosterInv /\ [Next]_vars => PosterInv'
  <2> SUFFICES ASSUME TypeOK, PosterInv, [Next]_vars PROVE PosterInv'
    OBVIOUS
  <2>1. CASE Next /\ Running
    <3>1. ASSUME NEW w \in Workers, WorkerStep(w) \/ SpuriousWake(w) PROVE PosterInv'
      BY <3>1, WorkKeepsPosters, PostKeepsPosters DEF WorkerStep, Threads
    <3>2. CASE PushStep(Main)
      BY <3>2, WorkKeepsPosters DEF Threads
    <3>3. CASE Tick
      BY <3>3, QuietStep DEF Tick
    <3>4. QED BY <2>1, <3>1, <3>2, <3>3, MainKeepsPosters DEF Next
  <2>2. CASE UNCHANGED vars
    BY <2>2, QuietStep DEF vars, queues
  <2>3. QED BY <2>1, <2>2 DEF Next
<1>3. PosterInv => PosterWaitsOnFull
  BY DEF PosterInv
<1>4. QED BY <1>1, <1>2, <1>3, TypeCorrect, PTL DEF Spec
-----------------------------------------------------------------------------
(***************************************************************************)
(* A task is in one place.  RunsAlone alone is not inductive: a worker     *)
(* that puts a task back must know that it is nowhere else, so the hands   *)
(* of a pusher and the work nobody has created yet are places as well.     *)
(***************************************************************************)
Pushing == {"check", "count", "enqueue"}

Queued(t) == \E i \in DOMAIN mpmc_queue : mpmc_queue[i] = t
Timed(t)  == \E h \in timer_min_heap : h.v = t

\* A thread has a task in hand while it works on it or is about to put it in a queue.
InHand(u, t) ==
  \/ u \in Workers /\ Holds(u, t)
  \/ pc[u] \in Pushing /\ out[u] = t

QueuedOnce == \A i, j \in DOMAIN mpmc_queue : mpmc_queue[i] = mpmc_queue[j] => i = j
TimedOnce  == \A g, h \in timer_min_heap : g.v = h.v => g = h
HeldOnce   == \A t \in Tasks : \A u, v \in Threads : InHand(u, t) /\ InHand(v, t) => u = v

InOnePlace ==
  \A t \in Tasks :
    /\ t \in fresh => ~Queued(t) /\ ~Timed(t) /\ \A u \in Threads : ~InHand(u, t)
    /\ Queued(t) => ~Timed(t) /\ \A u \in Threads : ~InHand(u, t)
    /\ Timed(t) => \A u \in Threads : ~InHand(u, t)

PlaceInv == QueuedOnce /\ TimedOnce /\ HeldOnce /\ InOnePlace

\* Most steps put no task anywhere: they may only let one go.
LEMMA PlaceKept ==
  ASSUME PlaceInv, UNCHANGED <<mpmc_queue, timer_min_heap>>, fresh' \subseteq fresh,
         \A t \in Tasks : \A u \in Threads : InHand(u, t)' => InHand(u, t)
  PROVE  PlaceInv'
<1>1. QueuedOnce' /\ TimedOnce'
  BY DEF PlaceInv, QueuedOnce, TimedOnce
<1>2. \A t : (Queued(t)' <=> Queued(t)) /\ (Timed(t)' <=> Timed(t))
  BY DEF Queued, Timed
<1>3. HeldOnce'
  BY DEF PlaceInv, HeldOnce
<1>4. InOnePlace'
  BY <1>2 DEF PlaceInv, InOnePlace
<1>5. QED BY <1>1, <1>3, <1>4 DEF PlaceInv

\* A task that is created goes from nowhere into the hands of its creator.
LEMMA PlaceSpawned ==
  ASSUME PlaceInv, UNCHANGED <<mpmc_queue, timer_min_heap>>,
         NEW u \in Threads, NEW t \in fresh \cap Tasks, fresh' = fresh \ {t},
         \A s \in Tasks : \A v \in Threads : InHand(v, s)' => InHand(v, s) \/ (v = u /\ s = t)
  PROVE  PlaceInv'
<1>1. QueuedOnce' /\ TimedOnce'
  BY DEF PlaceInv, QueuedOnce, TimedOnce
<1>2. \A s : (Queued(s)' <=> Queued(s)) /\ (Timed(s)' <=> Timed(s))
  BY DEF Queued, Timed
<1>3. ~Queued(t) /\ ~Timed(t) /\ \A v \in Threads : ~InHand(v, t)
  BY DEF PlaceInv, InOnePlace
<1>4. HeldOnce'
  BY <1>3 DEF PlaceInv, HeldOnce
<1>5. InOnePlace'
  BY <1>2, <1>3 DEF PlaceInv, InOnePlace
<1>6. QED BY <1>1, <1>4, <1>5 DEF PlaceInv

\* From the queue, and from the heap, into the hands of a worker.
LEMMA TakenFromQueue ==
  ASSUME TypeOK, PlaceInv, NEW w \in Workers, TakeQueued(w)
  PROVE  PlaceInv'
<1>0. /\ mpmc_queue \in Seq(Tasks) /\ mpmc_queue # <<>> /\ w \in Threads
      /\ pc \in [Threads -> WorkerLabels \cup MainLabels]
      /\ item \in [Workers -> Tasks \cup {NoItem}]
      /\ UNCHANGED <<timer_min_heap, fresh, out>>
  BY DEF TypeOK, PoolType, PlacesType, LocalsType, TakeQueued, Threads, world
<1>a. PICK t \in Tasks : t = Head(mpmc_queue)
  BY <1>0
<1>1. /\ mpmc_queue' = Tail(mpmc_queue) /\ Len(mpmc_queue) >= 1
      /\ DOMAIN mpmc_queue' = 1 .. Len(mpmc_queue) - 1
      /\ \A i \in DOMAIN mpmc_queue' : mpmc_queue'[i] = mpmc_queue[i + 1]
      /\ DOMAIN mpmc_queue = 1 .. Len(mpmc_queue) /\ t = mpmc_queue[1] /\ Len(mpmc_queue) \in Nat
  BY <1>0, <1>a DEF TakeQueued
<1>2. QueuedOnce' /\ ~Queued(t)'
  BY <1>1 DEF PlaceInv, QueuedOnce, Queued
<1>3. Queued(t) /\ \A s : Queued(s)' => Queued(s)
  BY <1>1 DEF Queued
<1>4. \A s : Timed(s)' <=> Timed(s)
  BY <1>0 DEF Timed
<1>5. \A s \in Tasks : \A v \in Threads : InHand(v, s)' => InHand(v, s) \/ (v = w /\ s = t)
  BY <1>0, <1>a DEF InHand, Holds, IsContinuation, Pushing, TakeQueued, Goto
<1>6. ~Timed(t) /\ t \notin fresh /\ \A v \in Threads : ~InHand(v, t)
  BY <1>0, <1>3 DEF PlaceInv, InOnePlace
<1>7. HeldOnce'
  BY <1>5, <1>6 DEF PlaceInv, HeldOnce
<1>8. InOnePlace'
  BY <1>0, <1>2, <1>3, <1>4, <1>5, <1>6 DEF PlaceInv, InOnePlace
<1>9. TimedOnce'
  BY <1>0 DEF PlaceInv, TimedOnce
<1>10. QED BY <1>2, <1>7, <1>8, <1>9 DEF PlaceInv

\* A worker that takes a due timer moves it from the heap to itself.
LEMMA TakenFromHeap ==
  ASSUME TypeOK, PlaceInv, NEW w \in Workers, TakeReady(w)
  PROVE  PlaceInv'
<1>0. /\ w \in Threads
      /\ pc \in [Threads -> WorkerLabels \cup MainLabels]
      /\ item \in [Workers -> Tasks \cup {NoItem}]
      /\ UNCHANGED <<mpmc_queue, fresh, out>>
  BY DEF TypeOK, PoolType, PlacesType, LocalsType, TakeReady, Threads, world
<1>1. PICK h \in timer_min_heap : item' = [item EXCEPT ![w] = h.v] /\ timer_min_heap' = timer_min_heap \ {h}
  BY DEF TakeReady, Roots
<1>2. h.v \in Tasks /\ Timed(h.v)
  BY DEF TypeOK, PoolType, Timed
<1>3. TimedOnce' /\ ~Timed(h.v)' /\ \A s : Timed(s)' => Timed(s)
  BY <1>1 DEF PlaceInv, TimedOnce, Timed
<1>4. \A s : Queued(s)' <=> Queued(s)
  BY <1>0 DEF Queued
<1>5. \A s \in Tasks : \A v \in Threads : InHand(v, s)' => InHand(v, s) \/ (v = w /\ s = h.v)
  BY <1>0, <1>1 DEF InHand, Holds, IsContinuation, Pushing, TakeReady, Goto
<1>6. ~Queued(h.v) /\ h.v \notin fresh /\ \A v \in Threads : ~InHand(v, h.v)
  BY <1>2 DEF PlaceInv, InOnePlace
<1>7. HeldOnce'
  BY <1>5, <1>6 DEF PlaceInv, HeldOnce
<1>8. InOnePlace'
  BY <1>0, <1>3, <1>4, <1>5, <1>6 DEF PlaceInv, InOnePlace
<1>9. QueuedOnce'
  BY <1>0 DEF PlaceInv, QueuedOnce
<1>10. QED BY <1>3, <1>7, <1>8, <1>9 DEF PlaceInv

\* From the hands of the pusher into the queue or the heap: a continuation leaves
\* its worker's hands at this very step.
LEMMA PutInPlace ==
  ASSUME TypeOK, PlaceInv, NEW t \in Threads, Enqueue(t)
  PROVE  PlaceInv'
<1>0. /\ mpmc_queue \in Seq(Tasks) /\ out[t] \in Tasks
      /\ pc \in [Threads -> WorkerLabels \cup MainLabels]
      /\ pc[t] = "enqueue" /\ pc' = [pc EXCEPT ![t] = "wake"]
      /\ UNCHANGED <<fresh, out, item>>
  BY DEF TypeOK, PoolType, PlacesType, Holdings, PushLabels, Enqueue, Goto, world, locals
<1>a. PICK o \in Tasks : o = out[t]
  BY <1>0
<1>1. InHand(t, o)
  BY <1>0, <1>a DEF InHand, Pushing
<1>2. ~Queued(o) /\ ~Timed(o) /\ o \notin fresh /\ \A v \in Threads : v # t => ~InHand(v, o)
  BY <1>0, <1>1 DEF PlaceInv, InOnePlace, HeldOnce
<1>3. \A s \in Tasks : \A v \in Threads : InHand(v, s)' => InHand(v, s) /\ ~(v = t /\ s = o)
  BY <1>0, <1>a DEF InHand, Holds, IsContinuation, Pushing
<1>4. HeldOnce'
  BY <1>3 DEF PlaceInv, HeldOnce
<1>5. CASE mpmc_queue' = mpmc_queue /\ \E d : timer_min_heap' = timer_min_heap \cup {[k |-> d, v |-> o]}
  <2>1. PICK d : timer_min_heap' = timer_min_heap \cup {[k |-> d, v |-> o]}
    BY <1>5
  <2>2. \A s : (Queued(s)' <=> Queued(s)) /\ (Timed(s)' <=> Timed(s) \/ s = o)
    <3>1. [k |-> d, v |-> o] \in timer_min_heap' /\ timer_min_heap \subseteq timer_min_heap'
      BY <2>1
    <3>2. \A h \in timer_min_heap' : h \in timer_min_heap \/ h.v = o
      BY <2>1
    <3>3. Timed(o)' /\ \A s : (Timed(s) => Timed(s)') /\ (Timed(s)' => Timed(s) \/ s = o)
      BY <3>1, <3>2 DEF Timed
    <3>4. QED BY <1>5, <3>3 DEF Queued
  <2>3. QueuedOnce' /\ TimedOnce'
    BY <1>2, <1>5, <2>1 DEF PlaceInv, QueuedOnce, TimedOnce, Timed
  <2>4. InOnePlace'
    BY <1>0, <1>2, <1>3, <2>2 DEF PlaceInv, InOnePlace
  <2>5. QED BY <1>4, <2>3, <2>4 DEF PlaceInv
<1>6. CASE timer_min_heap' = timer_min_heap /\ mpmc_queue' = Append(mpmc_queue, o)
  <2>1. /\ DOMAIN mpmc_queue = 1 .. Len(mpmc_queue) /\ Len(mpmc_queue) \in Nat
        /\ DOMAIN mpmc_queue' = 1 .. Len(mpmc_queue) + 1
        /\ \A i \in DOMAIN mpmc_queue : mpmc_queue'[i] = mpmc_queue[i]
        /\ mpmc_queue'[Len(mpmc_queue) + 1] = o
    BY <1>0, <1>6
  <2>2. \A s : (Queued(s)' <=> Queued(s) \/ s = o) /\ (Timed(s)' <=> Timed(s))
    BY <1>6, <2>1 DEF Queued, Timed
  <2>3. QueuedOnce' /\ TimedOnce'
    BY <1>2, <1>6, <2>1 DEF PlaceInv, QueuedOnce, TimedOnce, Queued
  <2>4. InOnePlace'
    BY <1>0, <1>2, <1>3, <2>2 DEF PlaceInv, InOnePlace
  <2>5. QED BY <1>4, <2>3, <2>4 DEF PlaceInv
<1>7. QED BY <1>5, <1>6, <1>a DEF Enqueue

\* The clock moves deadlines together, but never merges two timers.
LEMMA TickKeepsPlaces ==
  ASSUME PlaceInv, Tick
  PROVE  PlaceInv'
<1>0. UNCHANGED <<mpmc_queue, fresh, item, out, pc>>
  BY DEF Tick, world
<1>1. timer_min_heap' = {[k |-> Later(h.k), v |-> h.v] : h \in timer_min_heap}
  BY DEF Tick
<1>2. \A h \in timer_min_heap' : \E g \in timer_min_heap : h = [k |-> Later(g.k), v |-> g.v]
  BY <1>1
<1>3. TimedOnce' /\ \A t : Timed(t)' => Timed(t)
  BY <1>2 DEF PlaceInv, TimedOnce, Timed
<1>4. \A t : /\ Queued(t)' <=> Queued(t)
             /\ \A u \in Threads : InHand(u, t)' <=> InHand(u, t)
  BY <1>0 DEF Queued, InHand, Holds, IsContinuation
<1>5. QueuedOnce' /\ HeldOnce'
  BY <1>0, <1>4 DEF PlaceInv, QueuedOnce, HeldOnce
<1>6. InOnePlace'
  BY <1>0, <1>3, <1>4 DEF PlaceInv, InOnePlace
<1>7. QED BY <1>3, <1>5, <1>6 DEF PlaceInv

\* The search for work leaves every task in one place.
LEMMA SearchKeepsPlaces ==
  ASSUME TypeOK, PlaceInv, NEW w \in Workers, SearchStep(w)
  PROVE  PlaceInv'
<1>1. CASE ~TakeQueued(w) /\ ~TakeReady(w)
  <2>1. /\ UNCHANGED <<mpmc_queue, timer_min_heap, fresh, item, out>>
        /\ pc[w] \in SearchLabels
        /\ \E l \in SearchLabels : pc' = [pc EXCEPT ![w] = l]
    BY <1>1 DEF SearchStep, LoopExit, LoopEnter, LoadGeneration, QueueEmpty, NothingReady,
                PeekDeadline, Sleep, TimeOut, Goto, queues, locals, world, SearchLabels
  <2>2. /\ pc \in [Threads -> WorkerLabels \cup MainLabels] /\ w \in Threads
        /\ item[w] = NoItem /\ NoItem \notin Tasks
    BY <2>1, ThreadPoolAssumption DEF TypeOK, PlacesType, Holdings, Threads
  <2>3. \A t \in Tasks : \A u \in Threads : InHand(u, t)' => InHand(u, t)
    BY <2>1, <2>2 DEF InHand, Holds, IsContinuation, Pushing, SearchLabels
  <2>4. QED BY <2>1, <2>3, PlaceKept
<1>2. QED BY <1>1, TakenFromQueue, TakenFromHeap

\* Running a task leaves every task in one place.
LEMMA TaskKeepsPlaces ==
  ASSUME TypeOK, PlaceInv, NEW w \in Workers, TaskStep(w)
  PROVE  PlaceInv'
<1>0. /\ pc \in [Threads -> WorkerLabels \cup MainLabels] /\ w \in Threads
      /\ item \in [Workers -> Tasks \cup {NoItem}] /\ NoItem \notin Tasks
      /\ out \in [Threads -> Tasks \cup Posts \cup {NoItem}]
  BY ThreadPoolAssumption DEF TypeOK, PlacesType, LocalsType, Threads
<1>1. UNCHANGED <<mpmc_queue, timer_min_heap>>
  BY DEF TaskStep, BeginTask, UncountPending, ReturnDone, ReturnContinuation, SpawnTask,
         PostToMain, FinishTask, queues
<1>2. CASE BeginTask(w) \/ UncountPending(w) \/ ReturnDone(w)
  <2>1. \A t \in Tasks : \A u \in Threads : InHand(u, t)' => InHand(u, t)
    BY <1>0, <1>2 DEF BeginTask, UncountPending, ReturnDone, Goto, locals,
       InHand, Holds, IsContinuation, Pushing
  <2>2. QED BY <1>1, <1>2, <2>1, PlaceKept DEF BeginTask, UncountPending, ReturnDone, world
<1>3. CASE ReturnContinuation(w)
  <2>1. \A t \in Tasks : \A u \in Threads : InHand(u, t)' => InHand(u, t)
    BY <1>0, <1>3 DEF ReturnContinuation, Goto, InHand, Holds, IsContinuation, Pushing
  <2>2. QED BY <1>1, <1>3, <2>1, PlaceKept DEF ReturnContinuation, world
<1>4. CASE SpawnTask(w)
  <2>1. PICK t \in fresh \cap Tasks : out' = [out EXCEPT ![w] = t] /\ fresh' = fresh \ {t}
    BY <1>4 DEF SpawnTask
  <2>2. \A s \in Tasks : \A v \in Threads : InHand(v, s)' => InHand(v, s) \/ (v = w /\ s = t)
    BY <1>0, <1>4, <2>1 DEF SpawnTask, Goto, InHand, Holds, IsContinuation, Pushing
  <2>3. QED BY <1>0, <1>1, <2>1, <2>2, PlaceSpawned
<1>5. CASE PostToMain(w)
  <2>1. PICK p \in fresh \cap Posts : out' = [out EXCEPT ![w] = p] /\ fresh' = fresh \ {p}
    BY <1>5 DEF PostToMain
  <2>2. \A t \in Tasks : \A u \in Threads : InHand(u, t)' => InHand(u, t)
    BY <1>0, <1>5, <2>1 DEF PostToMain, Goto, InHand, Holds, IsContinuation, Pushing
  <2>3. QED BY <1>1, <2>1, <2>2, PlaceKept
<1>6. CASE FinishTask(w)
  <2>1. \A t \in Tasks : \A u \in Threads : InHand(u, t)' => InHand(u, t)
    BY <1>0, <1>6 DEF FinishTask, Goto, InHand, Holds, IsContinuation, Pushing
  <2>2. QED BY <1>1, <1>6, <2>1, PlaceKept DEF FinishTask, world
<1>7. QED BY <1>2, <1>3, <1>4, <1>5, <1>6 DEF TaskStep

\* A push leaves every task in one place.
LEMMA PushKeepsPlaces ==
  ASSUME TypeOK, PlaceInv, NEW t \in Threads, PushStep(t)
  PROVE  PlaceInv'
<1>0. /\ pc \in [Threads -> WorkerLabels \cup MainLabels]
      /\ item \in [Workers -> Tasks \cup {NoItem}] /\ NoItem \notin Tasks
      /\ out \in [Threads -> Tasks \cup Posts \cup {NoItem}]
      /\ Main \notin Workers
  BY ThreadPoolAssumption DEF TypeOK, PlacesType, LocalsType
<1>1. CASE PushAccepted(t) \/ CountPending(t)
  <2>1. \A s \in Tasks : \A u \in Threads : InHand(u, s)' => InHand(u, s)
    BY <1>0, <1>1 DEF PushAccepted, CountPending, Goto, locals, InHand, Holds, IsContinuation, Pushing
  <2>2. QED BY <1>1, <2>1, PlaceKept DEF PushAccepted, CountPending, queues, world
<1>2. CASE PushRefused(t)
  <2>1. UNCHANGED <<mpmc_queue, timer_min_heap, fresh, item>> /\ pc[t] = "check"
    BY <1>2 DEF PushRefused, queues
  <2>2. CASE UNCHANGED <<pc, out>>
    <3>1. \A s \in Tasks : \A u \in Threads : InHand(u, s)' => InHand(u, s)
      BY <2>1, <2>2 DEF InHand, Holds, IsContinuation
    <3>2. QED BY <2>1, <3>1, PlaceKept
  <2>3. CASE out' = [out EXCEPT ![t] = NoItem] /\ pc' = [pc EXCEPT ![t] = AfterPush(t)]
    <3>1. \A s \in Tasks : \A u \in Threads : InHand(u, s)' => InHand(u, s)
      BY <1>0, <2>1, <2>3, AfterPushPlace DEF InHand, Holds, IsContinuation, Pushing
    <3>2. QED BY <2>1, <3>1, PlaceKept
  <2>4. QED BY <1>2, <2>2, <2>3 DEF PushRefused, Goto
<1>3. CASE WakeOne(t)
  <2>1. /\ UNCHANGED <<mpmc_queue, timer_min_heap, fresh, item>> /\ pc[t] = "wake"
        /\ out' = [out EXCEPT ![t] = NoItem]
    BY <1>3 DEF WakeOne, queues, world
  <2>2. /\ t = Main => AfterPush(t) = "frame"
        /\ t # Main => t \in Workers /\ AfterPush(t) = IF out[t] = item[t] THEN "finish" ELSE "run"
    BY DEF AfterPush, IsContinuation, Threads
  <2>3. AfterPush(t) \in {"frame", "finish", "run"}
    BY AfterPushPlace
  <2>4. CASE pc' = [pc EXCEPT ![t] = AfterPush(t)]
    <3>1. \A s \in Tasks : \A u \in Threads : InHand(u, s)' => InHand(u, s)
      BY <1>0, <2>1, <2>2, <2>3, <2>4 DEF InHand, Holds, IsContinuation, Pushing
    <3>2. QED BY <2>1, <3>1, PlaceKept
  <2>5. ASSUME NEW w \in Waiting, pc' = [pc EXCEPT ![t] = AfterPush(t), ![w] = "loop"]
        PROVE  PlaceInv'
    <3>0. w \in Workers /\ w \in Threads /\ pc[w] = "waiting" /\ item[w] = NoItem /\ w # t
      BY <2>1 DEF Waiting, Threads, TypeOK, Holdings, SearchLabels
    <3>1. \A u \in Threads : pc'[u] = IF u = w THEN "loop" ELSE IF u = t THEN AfterPush(t) ELSE pc[u]
      BY <1>0, <2>5, <3>0
    <3>2. \A s \in Tasks : \A u \in Threads : InHand(u, s)' => InHand(u, s)
      BY <1>0, <2>1, <2>2, <2>3, <3>0, <3>1 DEF InHand, Holds, IsContinuation, Pushing
    <3>3. QED BY <2>1, <3>2, PlaceKept
  <2>6. QED BY <1>3, <2>4, <2>5 DEF WakeOne, Goto
<1>4. QED BY <1>1, <1>2, <1>3, PutInPlace DEF PushStep

\* A post leaves every task in one place.
LEMMA PostKeepsPlaces ==
  ASSUME TypeOK, PlaceInv, NEW w \in Workers, PostStep(w)
  PROVE  PlaceInv'
<1>0. /\ pc \in [Threads -> WorkerLabels \cup MainLabels] /\ w \in Threads
      /\ out \in [Threads -> Tasks \cup Posts \cup {NoItem}]
  BY DEF TypeOK, PlacesType, LocalsType, Threads
<1>1. /\ UNCHANGED <<mpmc_queue, timer_min_heap, fresh, item>>
  BY DEF PostStep, PostKilled, PostChecked, PostAccepted, PostWait, queues, locals, world
<1>2. \A t \in Tasks : \A u \in Threads : InHand(u, t)' => InHand(u, t)
  <2>1. CASE PostKilled(w) \/ PostAccepted(w)
    BY <1>0, <1>1, <2>1 DEF PostKilled, PostAccepted, BroadcastMain, Goto, InHand, Holds,
       IsContinuation, Pushing
  <2>2. CASE PostChecked(w) \/ PostWait(w)
    BY <1>0, <1>1, <2>2 DEF PostChecked, PostWait, Goto, locals, InHand, Holds,
       IsContinuation, Pushing
  <2>3. QED BY <2>1, <2>2 DEF PostStep
<1>3. QED BY <1>1, <1>2, PlaceKept

\* The main thread leaves every task in one place.
LEMMA MainKeepsPlaces ==
  ASSUME TypeOK, PlaceInv, Submit \/ DrainStep \/ Quit \/ ShutdownStep
  PROVE  PlaceInv'
<1>0. /\ pc \in [Threads -> WorkerLabels \cup MainLabels] /\ Main \in Threads
      /\ out \in [Threads -> Tasks \cup Posts \cup {NoItem}] /\ Main \notin Workers
      /\ NoItem \notin Tasks /\ \A u \in Workers : pc[u] = "waiting" => item[u] = NoItem
  BY ThreadPoolAssumption DEF TypeOK, PlacesType, LocalsType, Threads, Holdings, SearchLabels
<1>1. UNCHANGED <<mpmc_queue, timer_min_heap, item>>
  BY DEF Submit, DrainStep, BeginDrain, DrainOne, Drained, Quit, ShutdownStep, LoadPending,
         LoadInFlight, Kill, KillWake, KillCast, Joined, queues, locals
<1>2. CASE Submit
  <2>1. PICK t \in fresh \cap Tasks : out' = [out EXCEPT ![Main] = t] /\ fresh' = fresh \ {t}
    BY <1>2 DEF Submit
  <2>2. \A s \in Tasks : \A v \in Threads : InHand(v, s)' => InHand(v, s) \/ (v = Main /\ s = t)
    BY <1>0, <1>1, <1>2, <2>1 DEF Submit, Goto, InHand, Holds, IsContinuation, Pushing
  <2>3. QED BY <1>0, <1>1, <2>1, <2>2, PlaceSpawned
<1>3. CASE ~Submit
  <2>1. UNCHANGED <<out, fresh>>
    BY <1>3 DEF DrainStep, BeginDrain, DrainOne, Drained, Quit, ShutdownStep, LoadPending,
       LoadInFlight, Kill, KillWake, KillCast, Joined, locals, world
  <2>2. \A u \in Workers : pc'[u] = pc[u] \/ (pc[u] = "post_wait" /\ pc'[u] = "post") \/ pc[u] = "waiting"
    BY <1>0, <1>3 DEF DrainStep, BeginDrain, DrainOne, Drained, Quit, ShutdownStep, LoadPending,
       LoadInFlight, Kill, KillWake, KillCast, Joined, Goto, BroadcastMain, Threads
  <2>3. /\ pc'[Main] \notin Pushing
        /\ \A u \in Workers : pc'[u] \in Pushing => pc'[u] = pc[u]
    BY <1>0, <1>3 DEF DrainStep, BeginDrain, DrainOne, Drained, Quit, ShutdownStep, LoadPending,
       LoadInFlight, Kill, KillWake, KillCast, Joined, Goto, BroadcastMain, Threads, Pushing
  <2>4. \A t \in Tasks : \A u \in Threads : InHand(u, t)' => InHand(u, t)
    BY <1>0, <1>1, <2>1, <2>2, <2>3 DEF InHand, Holds, IsContinuation, Threads, Pushing
  <2>5. QED BY <1>1, <2>1, <2>4, PlaceKept
<1>4. QED BY <1>2, <1>3

\* Every step leaves every task in one place.
LEMMA StepKeepsPlaces == TypeOK /\ PlaceInv /\ [Next]_vars => PlaceInv'
<1> SUFFICES ASSUME TypeOK, PlaceInv, [Next]_vars PROVE PlaceInv'
  OBVIOUS
<1>1. ASSUME NEW w \in Workers, SpuriousWake(w) PROVE PlaceInv'
  <2>0. /\ pc \in [Threads -> WorkerLabels \cup MainLabels] /\ w \in Threads
        /\ UNCHANGED <<mpmc_queue, timer_min_heap, fresh, item, out>>
        /\ NoItem \notin Tasks /\ (pc[w] = "waiting" => item[w] = NoItem)
    BY <1>1, ThreadPoolAssumption DEF TypeOK, PlacesType, Threads, Holdings, SearchLabels,
       SpuriousWake, queues, locals, world
  <2>1. \A t \in Tasks : \A u \in Threads : InHand(u, t)' => InHand(u, t)
    BY <1>1, <2>0 DEF SpuriousWake, Goto, InHand, Holds, IsContinuation, Pushing
  <2>2. QED BY <2>0, <2>1, PlaceKept
<1>2. CASE UNCHANGED vars
  <2>1. UNCHANGED <<mpmc_queue, timer_min_heap, fresh, item, out, pc>>
    BY <1>2 DEF vars, queues, locals, world
  <2>2. \A t \in Tasks : \A u \in Threads : InHand(u, t)' => InHand(u, t)
    BY <2>1 DEF InHand, Holds, IsContinuation
  <2>3. QED BY <2>1, <2>2, PlaceKept
<1>3. ASSUME NEW w \in Workers, WorkerStep(w) PROVE PlaceInv'
  BY <1>3, SearchKeepsPlaces, TaskKeepsPlaces, PushKeepsPlaces, PostKeepsPlaces
  DEF WorkerStep, Threads
<1>4. CASE PushStep(Main)
  BY <1>4, PushKeepsPlaces DEF Threads
<1>5. QED BY <1>1, <1>2, <1>3, <1>4, MainKeepsPlaces, TickKeepsPlaces DEF Next

\* In every behaviour a task is in one place.
LEMMA PlacesSound == Spec => []PlaceInv
<1>1. Init => PlaceInv
  <2> SUFFICES ASSUME Init PROVE PlaceInv
    OBVIOUS
  <2>1. DOMAIN mpmc_queue = {} /\ timer_min_heap = {}
    BY DEF Init
  <2>2. \A t \in Tasks : \A u \in Threads : ~InHand(u, t)
    BY ThreadPoolAssumption DEF Init, InHand, Holds, Pushing, Threads
  <2>3. QED BY <2>1, <2>2 DEF PlaceInv, QueuedOnce, TimedOnce, HeldOnce, InOnePlace, Queued, Timed
<1>2. QED BY <1>1, StepKeepsPlaces, TypeCorrect, PTL DEF Spec

(***************************************************************************)
(* With any number of workers and tasks, and any continuations and delays: *)
(* a task that a worker executes is in no queue, in no timer and with no   *)
(* other worker, so its AsyncTaskWork is never touched by two threads      *)
(* (thread_pool.cpp:65-70).                                                *)
(***************************************************************************)
THEOREM TasksRunAlone == Spec => []RunsAlone
<1>1. PlaceInv => RunsAlone
  <2> SUFFICES ASSUME PlaceInv, NEW t \in Tasks
               PROVE  Cardinality({i \in DOMAIN mpmc_queue : mpmc_queue[i] = t})
                        + Cardinality({h \in timer_min_heap : h.v = t})
                        + Cardinality({w \in Workers : Holds(w, t)}) <= 1
    BY DEF RunsAlone
  <2> DEFINE Q == {i \in DOMAIN mpmc_queue : mpmc_queue[i] = t}
             H == {h \in timer_min_heap : h.v = t}
             W == {w \in Workers : Holds(w, t)}
  <2>1. /\ \A x, y \in Q : x = y
        /\ \A x, y \in H : x = y
        /\ \A x, y \in W : x = y
    BY DEF PlaceInv, QueuedOnce, TimedOnce, HeldOnce, InHand, Threads
  <2>2. /\ Q # {} => H = {} /\ W = {}
        /\ H # {} => W = {}
    BY DEF PlaceInv, InOnePlace, Queued, Timed, InHand, Threads
  <2> HIDE DEF Q, H, W
  <2>3. /\ Cardinality(Q) \in 0 .. 1 /\ (Q = {} => Cardinality(Q) = 0)
        /\ Cardinality(H) \in 0 .. 1 /\ (H = {} => Cardinality(H) = 0)
        /\ Cardinality(W) \in 0 .. 1 /\ (W = {} => Cardinality(W) = 0)
    BY <2>1, AtMostOne
  <2>4. Cardinality(Q) + Cardinality(H) + Cardinality(W) <= 1
    BY <2>2, <2>3
  <2>5. QED BY <2>4 DEF Q, H, W
<1>2. QED BY <1>1, PlacesSound, PTL

-----------------------------------------------------------------------------
(***************************************************************************)
(* The two counters.  Each is compared with the set it counts, and every   *)
(* step with the elements it brings in or takes out.  That a push adds to  *)
(* the heap what is not in it already, and that the clock keeps its size,  *)
(* is PlaceInv.                                                            *)
(***************************************************************************)
\* Where a thread is between the two halves of a push or of a take, and the workers
\* between the two halves of a task.
Between == {"enqueue", "begin", "began"}
Taken   == {w \in Workers : item[w] # NoItem /\ pc[w] # "begin"}

CountInv ==
  /\ IsFiniteSet(timer_min_heap)
  /\ pending_task_count = Len(mpmc_queue) + Cardinality(timer_min_heap) + Cardinality(At(Between))
  /\ in_flight_count = Cardinality(Taken)

\* Which labels lie between a push's count and its enqueue, or a take and its count.
LEMMA InBetween ==
  /\ {"enqueue", "begin", "began"} \subseteq Between
  /\ {"queue", "heap", "run", "finish", "loop", "count", "wake"} \cap Between = {}
BY DEF Between

\* A step that moves no item and no thread in or out of those places.
LEMMA CountsKept ==
  ASSUME CountInv,
         UNCHANGED <<pending_task_count, in_flight_count, mpmc_queue, timer_min_heap>>,
         \A t \in Threads : pc'[t] \in Between <=> pc[t] \in Between,
         Taken' = Taken
  PROVE  CountInv'
<1>1. At(Between)' = At(Between)
  BY DEF At
<1>2. QED BY <1>1 DEF CountInv

\* The items taken and not yet counted are a finite number.
LEMMA TakenFinite == IsFiniteSet(Taken) /\ Cardinality(Taken) \in Nat
<1>1. IsFiniteSet(Taken)
  BY ThreadPoolAssumption, FS_Subset DEF Taken
<1>2. QED BY <1>1, FS_CardinalityType

\* Who has taken an item stays as long as items and labels do.
LEMMA ItemsKept ==
  ASSUME TypeOK, UNCHANGED item,
         \A w \in Workers : pc'[w] = "begin" <=> pc[w] = "begin"
  PROVE  Taken' = Taken
BY DEF Taken

\* The search for work keeps the counters exact.
LEMMA SearchKeepsCounts ==
  ASSUME TypeOK, CountInv, NEW w \in Workers, SearchStep(w)
  PROVE  CountInv'
<1>0. /\ pc \in [Threads -> WorkerLabels \cup MainLabels] /\ w \in Threads
      /\ item \in [Workers -> Tasks \cup {NoItem}]
      /\ mpmc_queue \in Seq(Tasks) /\ Len(mpmc_queue) \in Nat
      /\ pending_task_count \in Int
      /\ pc[w] \in SearchLabels => item[w] = NoItem
      /\ Cardinality(At(Between)) \in Nat
  BY AtFinite DEF TypeOK, PoolType, PlacesType, LocalsType, Threads, Holdings
<1>1. CASE ~TakeQueued(w) /\ ~TakeReady(w)
  <2>1. /\ UNCHANGED <<pending_task_count, in_flight_count, mpmc_queue, timer_min_heap, item>>
        /\ pc[w] \in SearchLabels
        /\ \E l \in SearchLabels : pc' = [pc EXCEPT ![w] = l]
    BY <1>1 DEF SearchStep, LoopExit, LoopEnter, LoadGeneration, QueueEmpty, NothingReady,
                PeekDeadline, Sleep, TimeOut, Goto, queues, locals, counters, SearchLabels
  <2>2. /\ \A t \in Threads : pc'[t] \in Between <=> pc[t] \in Between
        /\ \A v \in Workers : pc'[v] = "begin" <=> pc[v] = "begin"
    BY <1>0, <2>1 DEF Between, SearchLabels, Threads
  <2>3. QED BY <2>1, <2>2, ItemsKept, CountsKept
<1>2. ASSUME TakeQueued(w) \/ TakeReady(w)
      PROVE  /\ pc' = [pc EXCEPT ![w] = "begin"] /\ pc[w] \in {"queue", "heap"}
             /\ UNCHANGED <<pending_task_count, in_flight_count>>
             /\ Taken' = Taken
             /\ Cardinality(At(Between))' = Cardinality(At(Between)) + 1
  <2>1. /\ pc' = [pc EXCEPT ![w] = "begin"] /\ pc[w] \in {"queue", "heap"}
        /\ UNCHANGED <<pending_task_count, in_flight_count>>
        /\ \E i : item' = [item EXCEPT ![w] = i]
    BY <1>2 DEF TakeQueued, TakeReady, Goto, counters
  <2>2. item[w] = NoItem
    BY <1>0, <2>1 DEF SearchLabels
  <2>3. Taken' = Taken
    BY <1>0, <2>1, <2>2 DEF Taken, Threads
  <2>4. Cardinality(At(Between))' = Cardinality(At(Between)) + 1
    BY <1>0, <2>1, InBetween, OneMove
  <2>5. QED BY <2>1, <2>3, <2>4
<1>3. CASE TakeQueued(w)
  <2>1. Len(mpmc_queue') = Len(mpmc_queue) - 1 /\ timer_min_heap' = timer_min_heap
    BY <1>0, <1>3 DEF TakeQueued
  <2>2. /\ IsFiniteSet(timer_min_heap) /\ Cardinality(timer_min_heap) \in Nat
    BY FS_CardinalityType DEF CountInv
  <2>3. QED BY <1>0, <1>2, <1>3, <2>1, <2>2 DEF CountInv
<1>4. CASE TakeReady(w)
  <2>1. PICK h \in timer_min_heap : timer_min_heap' = timer_min_heap \ {h}
    BY <1>4 DEF TakeReady, Roots
  <2>2. /\ IsFiniteSet(timer_min_heap) /\ Cardinality(timer_min_heap) \in Nat
        /\ IsFiniteSet(timer_min_heap')
        /\ Cardinality(timer_min_heap') = Cardinality(timer_min_heap) - 1
    BY <2>1, FS_CardinalityType, FS_RemoveElement DEF CountInv
  <2>3. mpmc_queue' = mpmc_queue
    BY <1>4 DEF TakeReady
  <2>4. QED BY <1>0, <1>2, <1>4, <2>2, <2>3 DEF CountInv
<1>5. QED BY <1>1, <1>3, <1>4

\* Running a task keeps the counters exact.
LEMMA TaskKeepsCounts ==
  ASSUME TypeOK, CountInv, NEW w \in Workers, TaskStep(w)
  PROVE  CountInv'
<1>0. /\ pc \in [Threads -> WorkerLabels \cup MainLabels] /\ w \in Threads
      /\ item \in [Workers -> Tasks \cup {NoItem}]
      /\ pending_task_count \in Int /\ in_flight_count \in Int
      /\ \A v \in Workers : item[v] = NoItem <=> pc[v] \in SearchLabels
      /\ Cardinality(At(Between)) \in Nat /\ Cardinality(Taken) \in Nat
      /\ Len(mpmc_queue) \in Nat /\ Cardinality(timer_min_heap) \in Nat
      /\ IsFiniteSet(timer_min_heap) /\ IsFiniteSet(Taken)
  BY AtFinite, TakenFinite, FS_CardinalityType
  DEF TypeOK, PoolType, PlacesType, LocalsType, Threads, Holdings, CountInv
<1>1. UNCHANGED <<mpmc_queue, timer_min_heap>>
  BY DEF TaskStep, BeginTask, UncountPending, ReturnDone, ReturnContinuation, SpawnTask,
         PostToMain, FinishTask, queues
<1>2. CASE BeginTask(w)
  <2>0. /\ pc[w] = "begin" /\ pc' = [pc EXCEPT ![w] = "began"] /\ UNCHANGED item
        /\ in_flight_count' = in_flight_count + 1 /\ UNCHANGED pending_task_count
    BY <1>2 DEF BeginTask, Goto, locals
  <2>1. Cardinality(At(Between))' = Cardinality(At(Between))
    BY <1>0, <2>0, InBetween, OneMove
  <2>2. Taken' = Taken \cup {w} /\ w \notin Taken
    BY <1>0, <2>0 DEF Taken, SearchLabels, Threads
  <2>3. Cardinality(Taken') = Cardinality(Taken) + 1
    BY <1>0, <2>2, FS_AddElement
  <2>4. QED BY <1>0, <1>1, <2>0, <2>1, <2>3 DEF CountInv
<1>3. CASE UncountPending(w)
  <2>0. /\ pc[w] = "began" /\ pc' = [pc EXCEPT ![w] = "run"] /\ UNCHANGED item
        /\ pending_task_count' = pending_task_count - 1 /\ UNCHANGED in_flight_count
    BY <1>3 DEF UncountPending, Goto, locals
  <2>1. Cardinality(At(Between))' = Cardinality(At(Between)) - 1
    BY <1>0, <2>0, InBetween, OneMove
  <2>2. \A v \in Workers : pc'[v] = "begin" <=> pc[v] = "begin"
    BY <1>0, <2>0 DEF Threads
  <2>3. Taken' = Taken
    BY <2>0, <2>2, ItemsKept
  <2>4. QED BY <1>0, <1>1, <2>0, <2>1, <2>3 DEF CountInv
<1>4. CASE FinishTask(w)
  <2>0. /\ pc[w] = "finish" /\ pc' = [pc EXCEPT ![w] = "loop"]
        /\ item' = [item EXCEPT ![w] = NoItem]
        /\ in_flight_count' = in_flight_count - 1 /\ UNCHANGED pending_task_count
    BY <1>4 DEF FinishTask, Goto
  <2>1. Cardinality(At(Between))' = Cardinality(At(Between))
    BY <1>0, <2>0, InBetween, OneMove
  <2>2. Taken' = Taken \ {w} /\ w \in Taken
    BY <1>0, <2>0 DEF Taken, SearchLabels, Threads
  <2>3. Cardinality(Taken') = Cardinality(Taken) - 1
    BY <1>0, <2>2, FS_RemoveElement
  <2>4. QED BY <1>0, <1>1, <2>0, <2>1, <2>3 DEF CountInv
<1>5. CASE ReturnDone(w) \/ ReturnContinuation(w) \/ SpawnTask(w) \/ PostToMain(w)
  <2>1. /\ UNCHANGED <<pending_task_count, in_flight_count, item>>
        /\ pc[w] = "run"
        /\ \E l \in {"finish", "check", "post"} : pc' = [pc EXCEPT ![w] = l]
    BY <1>5 DEF ReturnDone, ReturnContinuation, SpawnTask, PostToMain, Goto, counters, locals
  <2>2. /\ \A t \in Threads : pc'[t] \in Between <=> pc[t] \in Between
        /\ \A v \in Workers : pc'[v] = "begin" <=> pc[v] = "begin"
    BY <1>0, <2>1 DEF Between, Threads
  <2>3. QED BY <1>1, <2>1, <2>2, ItemsKept, CountsKept
<1>6. QED BY <1>2, <1>3, <1>4, <1>5 DEF TaskStep

\* The enqueue after the count keeps the counters exact.
LEMMA EnqueueKeepsCounts ==
  ASSUME TypeOK, PlaceInv, CountInv, NEW t \in Threads, Enqueue(t)
  PROVE  CountInv'
<1>0. /\ pc \in [Threads -> WorkerLabels \cup MainLabels]
      /\ mpmc_queue \in Seq(Tasks) /\ out[t] \in Tasks /\ Len(mpmc_queue) \in Nat
      /\ pending_task_count \in Int
      /\ pc[t] = "enqueue" /\ pc' = [pc EXCEPT ![t] = "wake"]
      /\ UNCHANGED <<pending_task_count, in_flight_count, item>>
      /\ IsFiniteSet(timer_min_heap) /\ Cardinality(timer_min_heap) \in Nat
      /\ Cardinality(At(Between)) \in Nat
  BY AtFinite, FS_CardinalityType
  DEF TypeOK, PoolType, PlacesType, Holdings, PushLabels, Enqueue, Goto, locals, counters, CountInv
<1>1. Cardinality(At(Between))' = Cardinality(At(Between)) - 1
  BY <1>0, InBetween, OneMove
<1>2. Taken' = Taken
  BY <1>0, ItemsKept DEF Threads
<1>3. CASE mpmc_queue' = Append(mpmc_queue, out[t]) /\ timer_min_heap' = timer_min_heap
  <2>1. Len(mpmc_queue') = Len(mpmc_queue) + 1
    BY <1>0, <1>3
  <2>2. QED BY <1>0, <1>1, <1>2, <1>3, <2>1 DEF CountInv
<1>4. CASE /\ timer_min_heap' = timer_min_heap \cup {[k |-> us_delay[t], v |-> out[t]]}
           /\ mpmc_queue' = mpmc_queue
  <2>1. InHand(t, out[t])
    BY <1>0 DEF InHand, Pushing
  <2>2. ~Timed(out[t])
    BY <1>0, <2>1 DEF PlaceInv, InOnePlace
  <2>3. [k |-> us_delay[t], v |-> out[t]] \notin timer_min_heap
    BY <2>2 DEF Timed
  <2>4. /\ IsFiniteSet(timer_min_heap')
        /\ Cardinality(timer_min_heap') = Cardinality(timer_min_heap) + 1
    BY <1>0, <1>4, <2>3, FS_AddElement
  <2>5. QED BY <1>0, <1>1, <1>2, <1>4, <2>4 DEF CountInv
<1>5. QED BY <1>3, <1>4 DEF Enqueue

\* The steps of a push keep the counters exact.
LEMMA PushKeepsCounts ==
  ASSUME TypeOK, PlaceInv, CountInv, NEW t \in Threads, PushStep(t)
  PROVE  CountInv'
<1>0. /\ pc \in [Threads -> WorkerLabels \cup MainLabels]
      /\ pending_task_count \in Int
      /\ Cardinality(At(Between)) \in Nat /\ Len(mpmc_queue) \in Nat
      /\ Cardinality(timer_min_heap) \in Nat
      /\ AfterPush(t) \in {"frame", "finish", "run"}
  BY AtFinite, FS_CardinalityType, AfterPushPlace DEF TypeOK, PoolType, PlacesType, CountInv
<1>1. UNCHANGED <<in_flight_count, item>>
  BY DEF PushStep, PushAccepted, PushRefused, CountPending, Enqueue, WakeOne, locals, counters
<1>2. CASE CountPending(t)
  <2>1. /\ pc[t] = "count" /\ pc' = [pc EXCEPT ![t] = "enqueue"]
        /\ pending_task_count' = pending_task_count + 1
        /\ UNCHANGED <<mpmc_queue, timer_min_heap>>
    BY <1>2 DEF CountPending, Goto, queues
  <2>2. Cardinality(At(Between))' = Cardinality(At(Between)) + 1
    BY <1>0, <2>1, InBetween, OneMove
  <2>3. Taken' = Taken
    BY <1>0, <1>1, <2>1, ItemsKept DEF Threads
  <2>4. QED BY <1>0, <1>1, <2>1, <2>2, <2>3 DEF CountInv
<1>3. CASE PushAccepted(t) \/ PushRefused(t) \/ WakeOne(t)
  <2>1. UNCHANGED <<pending_task_count, mpmc_queue, timer_min_heap>>
    BY <1>3 DEF PushAccepted, PushRefused, WakeOne, queues, counters
  <2>2. \A u \in Threads : pc'[u] = pc[u] \/ (pc[u] \notin Between /\ pc'[u] \notin Between)
    <3>1. CASE PushAccepted(t) \/ PushRefused(t)
      BY <1>0, <3>1 DEF PushAccepted, PushRefused, Goto, Between
    <3>2. CASE WakeOne(t)
      <4>1. pc[t] = "wake" /\ \A w \in Waiting : w \in Threads /\ pc[w] = "waiting"
        BY <3>2 DEF WakeOne, Waiting, Threads
      <4>2. QED BY <1>0, <3>2, <4>1 DEF WakeOne, Goto, Between
    <3>3. QED BY <1>3, <3>1, <3>2
  <2>3. /\ \A u \in Threads : pc'[u] \in Between <=> pc[u] \in Between
        /\ \A v \in Workers : pc'[v] = "begin" <=> pc[v] = "begin"
    BY <2>2 DEF Between, Threads
  <2>4. QED BY <1>1, <2>1, <2>3, ItemsKept, CountsKept
<1>4. QED BY <1>2, <1>3, EnqueueKeepsCounts DEF PushStep

\* What moves neither an item nor a thread between the counted places.
LEMMA OthersKeepCounts ==
  ASSUME TypeOK, CountInv,
         \/ \E w \in Workers : PostStep(w) \/ SpuriousWake(w)
         \/ Submit \/ DrainStep \/ Quit \/ ShutdownStep
         \/ UNCHANGED vars
  PROVE  CountInv'
<1>0. /\ pc \in [Threads -> WorkerLabels \cup MainLabels] /\ Main \in Threads /\ Main \notin Workers
      /\ Workers \subseteq Threads
  BY ThreadPoolAssumption DEF TypeOK, PlacesType, Threads
<1>1. UNCHANGED <<pending_task_count, in_flight_count, mpmc_queue, timer_min_heap, item>>
  BY DEF PostStep, PostKilled, PostChecked, PostAccepted, PostWait, SpuriousWake, Submit,
         DrainStep, BeginDrain, DrainOne, Drained, Quit, ShutdownStep, LoadPending, LoadInFlight,
         Kill, KillWake, KillCast, Joined, vars, counters, queues, locals
<1>2. \A u \in Threads : pc'[u] = pc[u] \/ (pc[u] \notin Between /\ pc'[u] \notin Between)
  <2>1. ASSUME NEW w \in Workers, PostStep(w) \/ SpuriousWake(w)
        PROVE  \A u \in Threads : pc'[u] = pc[u] \/ (pc[u] \notin Between /\ pc'[u] \notin Between)
    BY <1>0, <2>1 DEF PostStep, PostKilled, PostChecked, PostAccepted, PostWait, SpuriousWake,
       BroadcastMain, Goto, Between
  <2>2. CASE Submit \/ DrainStep \/ Quit \/ ShutdownStep
    BY <1>0, <2>2 DEF Submit, DrainStep, BeginDrain, DrainOne, Drained, Quit, ShutdownStep,
       LoadPending, LoadInFlight, Kill, KillWake, KillCast, Joined, BroadcastMain, Goto, Between
  <2>3. CASE UNCHANGED vars
    BY <2>3 DEF vars
  <2>4. QED BY <2>1, <2>2, <2>3
<1>3. /\ \A u \in Threads : pc'[u] \in Between <=> pc[u] \in Between
      /\ \A v \in Workers : pc'[v] = "begin" <=> pc[v] = "begin"
  BY <1>2 DEF Between, Threads
<1>4. QED BY <1>1, <1>3, ItemsKept, CountsKept

\* Ageing the timers keeps their number and the counters exact.
LEMMA TickKeepsCounts ==
  ASSUME TypeOK, PlaceInv, CountInv, Tick
  PROVE  CountInv'
<1> DEFINE Aged(h) == [k |-> Later(h.k), v |-> h.v]
           f == [h \in timer_min_heap |-> Aged(h)]
<1>1. PICK T : T = {Aged(h) : h \in timer_min_heap}
  OBVIOUS
<1>2. f \in Surjection(timer_min_heap, T)
  BY <1>1 DEF Surjection
<1>3. f \in Injection(timer_min_heap, T)
  <2>1. f \in [timer_min_heap -> T]
    BY <1>1
  <2>2. \A g, h \in timer_min_heap : f[g] = f[h] => g = h
    <3>1. \A g, h \in timer_min_heap : Aged(g) = Aged(h) => g.v = h.v
      OBVIOUS
    <3>2. QED BY <3>1 DEF PlaceInv, TimedOnce
  <2>3. QED BY <2>1, <2>2 DEF Injection, IsInjective
<1> HIDE DEF f
<1>4. IsFiniteSet(T) /\ Cardinality(T) = Cardinality(timer_min_heap)
  BY <1>2, <1>3, FS_Surjection DEF CountInv
<1>5. timer_min_heap' = T
  BY <1>1 DEF Tick
<1>6. /\ UNCHANGED <<pending_task_count, in_flight_count, mpmc_queue, item, pc>>
      /\ Cardinality(timer_min_heap') = Cardinality(timer_min_heap) /\ IsFiniteSet(timer_min_heap')
  BY <1>4, <1>5 DEF Tick, counters
<1>7. At(Between)' = At(Between) /\ Taken' = Taken
  BY <1>6 DEF At, Taken
<1>8. QED BY <1>6, <1>7 DEF CountInv

\* In every behaviour the counters are exact.
LEMMA CountsSound == Spec => []CountInv
<1>1. Init => CountInv
  <2> SUFFICES ASSUME Init PROVE CountInv
    OBVIOUS
  <2>1. /\ Len(mpmc_queue) = 0 /\ timer_min_heap = {} /\ pending_task_count = 0
        /\ in_flight_count = 0
    BY DEF Init
  <2>2. At(Between) = {} /\ Taken = {}
    BY ThreadPoolAssumption DEF Init, At, Between, Taken, Threads
  <2>3. Cardinality({}) = 0 /\ IsFiniteSet({})
    BY FS_EmptySet
  <2>4. QED BY <2>1, <2>2, <2>3 DEF CountInv
<1>2. TypeOK /\ PlaceInv /\ CountInv /\ [Next]_vars => CountInv'
  <2> SUFFICES ASSUME TypeOK, PlaceInv, CountInv, [Next]_vars PROVE CountInv'
    OBVIOUS
  <2>1. ASSUME NEW w \in Workers, WorkerStep(w) \/ SpuriousWake(w) PROVE CountInv'
    BY <2>1, SearchKeepsCounts, TaskKeepsCounts, PushKeepsCounts, OthersKeepCounts
    DEF WorkerStep, Threads
  <2>2. CASE PushStep(Main)
    BY <2>2, PushKeepsCounts DEF Threads
  <2>3. QED BY <2>1, <2>2, OthersKeepCounts, TickKeepsCounts DEF Next
<1>3. QED BY <1>1, <1>2, PlacesSound, TypeCorrect, PTL DEF Spec

(***************************************************************************)
(* With any number of workers and tasks: whatever the interleaving of      *)
(* pushes, takes and ends of tasks, pending_task_count is what waits plus  *)
(* what is half pushed or half taken, in_flight_count what is being worked *)
(* on (thread_pool.cpp:125, 233-242).                                      *)
(***************************************************************************)
THEOREM CountersNeverDrift == Spec => []CountersExact
<1>1. CountInv => CountersExact
  BY DEF CountInv, CountersExact, Between, Taken
<1>2. QED BY <1>1, CountsSound, PTL

(***************************************************************************)
(* The reason for their order: two zeros at one moment mean that nothing   *)
(* is queued, nothing is timed and no worker has an item                   *)
(* (thread_pool.cpp:233-234).  The shutdown reads them at two moments,     *)
(* which this does not make safe.                                          *)
(***************************************************************************)
THEOREM IdleIsIdle == Spec => []IdleCountersMeanIdle
<1>1. TypeOK /\ CountInv => IdleCountersMeanIdle
  <2> SUFFICES ASSUME TypeOK, CountInv, pending_task_count = 0, in_flight_count = 0
               PROVE  /\ mpmc_queue = <<>> /\ timer_min_heap = {}
                      /\ \A w \in Workers : item[w] = NoItem
    BY DEF IdleCountersMeanIdle
  <2>1. /\ mpmc_queue \in Seq(Tasks) /\ Len(mpmc_queue) \in Nat
        /\ IsFiniteSet(timer_min_heap) /\ Cardinality(timer_min_heap) \in Nat
        /\ IsFiniteSet(At(Between)) /\ Cardinality(At(Between)) \in Nat
        /\ IsFiniteSet(Taken)
    BY AtFinite, TakenFinite, FS_CardinalityType DEF TypeOK, PoolType, CountInv
  <2>2. /\ Len(mpmc_queue) = 0 /\ Cardinality(timer_min_heap) = 0 
        /\ Cardinality(At(Between)) = 0 /\ Cardinality(Taken) = 0
    BY <2>1 DEF CountInv
  <2>3. timer_min_heap = {} /\ At(Between) = {} /\ Taken = {}
    BY <2>1, <2>2, FS_EmptySet
  <2>4. mpmc_queue = <<>>
    BY <2>1, <2>2
  <2>5. \A w \in Workers : item[w] = NoItem
    BY <2>3 DEF Taken, At, Between, Threads
  <2>6. QED BY <2>3, <2>4, <2>5
<1>2. QED BY <1>1, CountsSound, TypeCorrect, PTL

-----------------------------------------------------------------------------
(***************************************************************************)
(* No forgotten timer.  A worker that is about to sleep knows of every     *)
(* timer, unless a push that added one since has yet to signal: as for the *)
(* queue, it is the generation that tells.                                 *)
(***************************************************************************)
\* The main thread pushes without delay, so a timer has been set by a worker.
NoTimerOfMain == us_delay[Main] = 0 /\ (timer_min_heap # {} => Workers # {})

PeekedTimers ==
  ~kill_switch =>
    \A w \in Workers :
      pc[w] = "sleep" /\ seen_generation[w] = work_generation =>
        \/ At({"wake"}) # {}
        \/ \A h \in timer_min_heap : next_deadline[w] <= h.k

TimersInv == NoTimerOfMain /\ PeekedTimers /\ TimersWatched

\* Most steps add no timer and put nobody to sleep.
LEMMA TimersKept ==
  ASSUME TypeOK, TimersInv,
         UNCHANGED <<kill_switch, work_generation, seen_generation, next_deadline>>,
         timer_min_heap' \subseteq timer_min_heap, us_delay'[Main] = us_delay[Main],
         \A u \in Threads : pc[u] = "wake" => pc'[u] = "wake",
         \A w \in Workers : pc'[w] \in {"sleep", "waiting"} => pc'[w] = pc[w]
  PROVE  TimersInv'
<1>1. At({"wake"}) # {} => At({"wake"})' # {}
  BY DEF At
<1>2. Waiting' = Workers => Waiting = Workers
  BY DEF Waiting
<1>3. NoTimerOfMain'
  BY DEF TimersInv, NoTimerOfMain
<1>4. PeekedTimers'
  BY <1>1 DEF TimersInv, PeekedTimers
<1>5. TimersWatched'
  BY <1>1, <1>2 DEF TimersInv, TimersWatched
<1>6. QED BY <1>3, <1>4, <1>5 DEF TimersInv

\* A worker's way to its wait: load, peek, sleep.
LEMMA RoundKeepsTimers ==
  ASSUME TypeOK, TimersInv, NEW w \in Workers,
         LoadGeneration(w) \/ PeekDeadline(w) \/ Sleep(w)
  PROVE  TimersInv'
<1>0. /\ pc \in [Threads -> WorkerLabels \cup MainLabels] /\ Workers \subseteq Threads
      /\ seen_generation \in [Workers -> Nat] /\ next_deadline \in [Workers -> 0 .. Never]
      /\ Never \in Nat /\ \A h \in timer_min_heap : h.k \in 0 .. Never - 1
      /\ UNCHANGED <<kill_switch, work_generation, timer_min_heap, us_delay>>
  BY ThreadPoolAssumption DEF TypeOK, PoolType, PlacesType, LocalsType, Threads, LoadGeneration,
     PeekDeadline, Sleep, counters, queues, locals
<1>1. NoTimerOfMain'
  BY <1>0 DEF TimersInv, NoTimerOfMain
<1>2. CASE LoadGeneration(w)
  <2>1. /\ pc[w] = "load" /\ pc' = [pc EXCEPT ![w] = "queue"] /\ UNCHANGED next_deadline
        /\ seen_generation' = [seen_generation EXCEPT ![w] = work_generation]
    BY <1>2 DEF LoadGeneration, Goto
  <2>2. At({"wake"})' = At({"wake"}) /\ Waiting' = Waiting
    BY <1>0, <2>1 DEF At, Waiting
  <2>3. \A v \in Workers : pc'[v] = "sleep" => pc[v] = "sleep" /\ seen_generation'[v] = seen_generation[v]
    BY <1>0, <2>1
  <2>4. PeekedTimers'
    BY <1>0, <2>1, <2>2, <2>3 DEF TimersInv, PeekedTimers
  <2>5. TimersWatched'
    BY <1>0, <2>1, <2>2 DEF TimersInv, TimersWatched
  <2>6. QED BY <1>1, <2>4, <2>5 DEF TimersInv
<1>3. CASE PeekDeadline(w)
  <2>1. /\ pc[w] = "peek" /\ pc' = [pc EXCEPT ![w] = "sleep"] /\ UNCHANGED seen_generation
        /\ \A v \in Workers : v # w => next_deadline'[v] = next_deadline[v]
    BY <1>0, <1>3 DEF PeekDeadline, Goto
  <2>2. At({"wake"})' = At({"wake"}) /\ Waiting' = Waiting /\ w \notin Waiting
    BY <1>0, <2>1 DEF At, Waiting
  <2>3. \A h \in timer_min_heap' : next_deadline'[w] <= h.k
    BY <1>0, <1>3 DEF PeekDeadline, Roots
  <2>4. PeekedTimers'
    BY <1>0, <2>1, <2>2, <2>3 DEF TimersInv, PeekedTimers
  <2>5. TimersWatched'
    BY <1>0, <2>2 DEF TimersWatched
  <2>6. QED BY <1>1, <2>4, <2>5 DEF TimersInv
<1>4. CASE Sleep(w)
  <2>1. /\ pc[w] = "sleep" /\ UNCHANGED <<seen_generation, next_deadline>>
        /\ pc' = [pc EXCEPT ![w] = IF MayWait(w) THEN "waiting" ELSE "loop"]
    BY <1>4 DEF Sleep, Goto, locals
  <2>2. At({"wake"})' = At({"wake"})
    BY <1>0, <2>1 DEF At
  <2>3. PeekedTimers'
    BY <1>0, <2>1, <2>2 DEF TimersInv, PeekedTimers
  <2>4. TimersWatched'
    <3>1. CASE MayWait(w)
      <4>1. ~kill_switch /\ seen_generation[w] = work_generation
        BY <3>1 DEF MayWait
      <4>2. At({"wake"}) # {} \/ \A h \in timer_min_heap : next_deadline[w] <= h.k
        BY <2>1, <4>1 DEF TimersInv, PeekedTimers
      <4>3. QED BY <1>0, <2>1, <2>2, <4>2 DEF TimersWatched
    <3>2. CASE ~MayWait(w)
      BY <1>0, <2>1, <3>2 DEF TimersWatched, Waiting
    <3>3. QED BY <3>1, <3>2
  <2>5. QED BY <1>1, <2>3, <2>4 DEF TimersInv
<1>5. QED BY <1>2, <1>3, <1>4

\* The steps of a push keep the invariant of the timers.
LEMMA PushesKeepTimers ==
  ASSUME TypeOK, SeenPast, TimersInv, NEW t \in Threads, PushStep(t)
  PROVE  TimersInv'
<1>0. /\ pc \in [Threads -> WorkerLabels \cup MainLabels] /\ Workers \subseteq Threads
      /\ seen_generation \in [Workers -> Nat] /\ work_generation \in Nat
      /\ us_delay \in [Threads -> 0 .. Never - 1] /\ Main \in Threads /\ Main \notin Workers
      /\ AfterPush(t) \in {"frame", "finish", "run"} /\ (t # Main => t \in Workers)
  BY ThreadPoolAssumption, AfterPushPlace DEF TypeOK, PoolType, PlacesType, LocalsType, Threads
<1>1. CASE PushAccepted(t) \/ PushRefused(t) \/ CountPending(t)
  <2>1. UNCHANGED <<kill_switch, work_generation, seen_generation, next_deadline, timer_min_heap, us_delay>>
    BY <1>1 DEF PushAccepted, PushRefused, CountPending, counters, queues, locals
  <2>2. /\ \A u \in Threads : pc[u] = "wake" => pc'[u] = "wake"
        /\ \A w \in Workers : pc'[w] \in {"sleep", "waiting"} => pc'[w] = pc[w]
    BY <1>0, <1>1 DEF PushAccepted, PushRefused, CountPending, Goto
  <2>3. QED BY <2>1, <2>2, TimersKept
<1>2. CASE Enqueue(t)
  <2>1. t \in At({"wake"})'
    BY <1>0, <1>2 DEF Enqueue, Goto, At
  <2>2. UNCHANGED <<us_delay, kill_switch>> /\ (timer_min_heap' # timer_min_heap => us_delay[t] > 0)
    BY <1>2 DEF Enqueue, locals
  <2>3. NoTimerOfMain'
    BY <1>0, <2>2 DEF TimersInv, NoTimerOfMain
  <2>4. PeekedTimers' /\ TimersWatched'
    BY <2>1 DEF PeekedTimers, TimersWatched
  <2>5. QED BY <2>3, <2>4 DEF TimersInv
<1>3. CASE WakeOne(t)
  <2>1. /\ UNCHANGED <<timer_min_heap, seen_generation, kill_switch>> /\ pc[t] = "wake"
        /\ us_delay' = [us_delay EXCEPT ![t] = 0] /\ work_generation' = work_generation + 1
    BY <1>3 DEF WakeOne, queues
  <2>2. NoTimerOfMain'
    BY <1>0, <2>1 DEF TimersInv, NoTimerOfMain
  <2>3. PeekedTimers'
    <3>1. \A w \in Workers : seen_generation'[w] # work_generation'
      BY <1>0, <2>1 DEF SeenPast
    <3>2. QED BY <3>1 DEF PeekedTimers
  <2>4. TimersWatched'
    <3>1. CASE Waiting = {} /\ pc' = [pc EXCEPT ![t] = AfterPush(t)]
      <4>1. Waiting' = {}
        BY <1>0, <3>1 DEF Waiting
      <4>2. QED BY <2>2, <4>1 DEF TimersWatched, NoTimerOfMain
    <3>2. ASSUME NEW w \in Waiting, pc' = [pc EXCEPT ![t] = AfterPush(t), ![w] = "loop"]
          PROVE  TimersWatched'
      <4>1. w \in Workers /\ w \notin Waiting'
        BY <1>0, <3>2 DEF Waiting
      <4>2. QED BY <4>1 DEF TimersWatched
    <3>3. QED BY <1>3, <3>1, <3>2 DEF WakeOne, Goto
  <2>5. QED BY <2>2, <2>3, <2>4 DEF TimersInv
<1>4. QED BY <1>1, <1>2, <1>3 DEF PushStep

\* Time passes for the timers and for the sleepers alike.
LEMMA TickKeepsTimers ==
  ASSUME TypeOK, TimersInv, Tick
  PROVE  TimersInv'
<1>0. /\ next_deadline \in [Workers -> 0 .. Never]
      /\ Never \in Nat /\ \A h \in timer_min_heap : h.k \in 0 .. Never - 1
      /\ UNCHANGED <<kill_switch, work_generation, seen_generation, pc, us_delay>>
      /\ next_deadline' = [w \in Workers |-> Later(next_deadline[w])]
      /\ timer_min_heap' = {[k |-> Later(h.k), v |-> h.v] : h \in timer_min_heap}
  BY ThreadPoolAssumption DEF TypeOK, PoolType, LocalsType, Tick, counters
<1>1. \A h \in timer_min_heap' : \E g \in timer_min_heap : h.k = Later(g.k)
  BY <1>0
<1>2. \A c \in 0 .. Never, d \in 0 .. Never - 1 : c <= d => Later(c) <= Later(d)
  BY <1>0 DEF Later
<1>3. \A w \in Workers :
        (\A h \in timer_min_heap : next_deadline[w] <= h.k)
          => \A h \in timer_min_heap' : next_deadline'[w] <= h.k
  BY <1>0, <1>1, <1>2
<1>4. At({"wake"})' = At({"wake"}) /\ Waiting' = Waiting /\ (timer_min_heap' # {} => timer_min_heap # {})
  BY <1>0 DEF At, Waiting
<1>5. NoTimerOfMain'
  BY <1>0, <1>4 DEF TimersInv, NoTimerOfMain
<1>6. PeekedTimers'
  BY <1>0, <1>3, <1>4 DEF TimersInv, PeekedTimers
<1>7. TimersWatched'
  BY <1>0, <1>3, <1>4 DEF TimersInv, TimersWatched
<1>8. QED BY <1>5, <1>6, <1>7 DEF TimersInv

\* The workers' other steps keep the invariant of the timers.
LEMMA WorkKeepsTimers ==
  ASSUME TypeOK, TimersInv, NEW w \in Workers,
         SearchStep(w) \/ TaskStep(w) \/ PostStep(w) \/ SpuriousWake(w)
  PROVE  TimersInv'
<1>0. /\ pc \in [Threads -> WorkerLabels \cup MainLabels] /\ w \in Threads /\ w # Main
      /\ us_delay \in [Threads -> 0 .. Never - 1] /\ Main \in Threads /\ Workers \subseteq Threads
  BY ThreadPoolAssumption DEF TypeOK, PlacesType, LocalsType, Threads
<1>1. CASE SearchStep(w) /\ ~(LoadGeneration(w) \/ PeekDeadline(w) \/ Sleep(w))
  <2>1. UNCHANGED <<kill_switch, work_generation, seen_generation, next_deadline, us_delay>>
    BY <1>1 DEF SearchStep, LoopExit, LoopEnter, TakeQueued, QueueEmpty, TakeReady, NothingReady,
       TimeOut, counters, locals
  <2>2. timer_min_heap' \subseteq timer_min_heap
    BY <1>1 DEF SearchStep, LoopExit, LoopEnter, TakeQueued, QueueEmpty, TakeReady, NothingReady,
       TimeOut, queues
  <2>3. \E l \in {"exited", "load", "begin", "heap", "peek", "loop"} :
          pc' = [pc EXCEPT ![w] = l] /\ pc[w] # "wake"
    BY <1>1 DEF SearchStep, LoopExit, LoopEnter, TakeQueued, QueueEmpty, TakeReady, NothingReady,
       TimeOut, Goto
  <2>4. /\ \A u \in Threads : pc[u] = "wake" => pc'[u] = "wake"
        /\ \A v \in Workers : pc'[v] \in {"sleep", "waiting"} => pc'[v] = pc[v]
    BY <1>0, <2>3
  <2>5. QED BY <2>1, <2>2, <2>4, TimersKept
<1>2. CASE TaskStep(w) \/ PostStep(w) \/ SpuriousWake(w)
  <2>1. UNCHANGED <<kill_switch, work_generation, seen_generation, next_deadline, timer_min_heap>>
    BY <1>2 DEF TaskStep, BeginTask, UncountPending, ReturnDone, ReturnContinuation, SpawnTask,
       PostToMain, FinishTask, PostStep, PostKilled, PostChecked, PostAccepted, PostWait,
       SpuriousWake, counters, queues, locals
  <2>2. us_delay'[Main] = us_delay[Main]
    BY <1>0, <1>2 DEF TaskStep, BeginTask, UncountPending, ReturnDone, ReturnContinuation, SpawnTask,
       PostToMain, FinishTask, PostStep, PostKilled, PostChecked, PostAccepted, PostWait,
       SpuriousWake, locals
  <2>3. /\ \A u \in Threads : pc[u] = "wake" => pc'[u] = "wake"
        /\ \A v \in Workers : pc'[v] \in {"sleep", "waiting"} => pc'[v] = pc[v]
    <3>1. CASE TaskStep(w)
      BY <1>0, <3>1 DEF TaskStep, BeginTask, UncountPending, ReturnDone, ReturnContinuation,
         SpawnTask, PostToMain, FinishTask, Goto
    <3>2. CASE PostStep(w) \/ SpuriousWake(w)
      BY <1>0, <3>2 DEF PostStep, PostKilled, PostChecked, PostAccepted, PostWait, SpuriousWake,
         BroadcastMain, Goto
    <3>3. QED BY <1>2, <3>1, <3>2
  <2>4. QED BY <2>1, <2>2, <2>3, TimersKept
<1>3. QED BY <1>1, <1>2, RoundKeepsTimers

\* The main thread's steps keep the invariant of the timers.
LEMMA MainKeepsTimers ==
  ASSUME TypeOK, SeenPast, TimersInv, Submit \/ DrainStep \/ Quit \/ ShutdownStep
  PROVE  TimersInv'
<1>0. /\ pc \in [Threads -> WorkerLabels \cup MainLabels] /\ Main \in Threads
      /\ Workers \subseteq Threads /\ Main \notin Workers
      /\ seen_generation \in [Workers -> Nat] /\ work_generation \in Nat
  BY ThreadPoolAssumption DEF TypeOK, PlacesType, LocalsType, PoolType, Threads
<1>1. UNCHANGED <<seen_generation, next_deadline, timer_min_heap, us_delay>>
  BY DEF Submit, DrainStep, BeginDrain, DrainOne, Drained, Quit, ShutdownStep, LoadPending,
     LoadInFlight, Kill, KillWake, KillCast, Joined, queues, locals
<1>2. NoTimerOfMain'
  BY <1>1 DEF TimersInv, NoTimerOfMain
<1>3. CASE Kill
  BY <1>2, <1>3 DEF Kill, TimersInv, PeekedTimers, TimersWatched
<1>4. CASE KillWake
  <2>1. Waiting' = {}
    BY <1>0, <1>4 DEF KillWake, Waiting
  <2>2. TimersWatched'
    BY <1>2, <2>1 DEF TimersWatched, NoTimerOfMain
  <2>3. \A w \in Workers : seen_generation'[w] # work_generation'
    BY <1>0, <1>1, <1>4 DEF KillWake, SeenPast
  <2>4. PeekedTimers'
    BY <2>3 DEF PeekedTimers
  <2>5. QED BY <1>2, <2>2, <2>4 DEF TimersInv
<1>5. CASE Submit \/ DrainStep \/ Quit \/ LoadPending \/ LoadInFlight \/ KillCast \/ Joined
  <2>1. UNCHANGED <<kill_switch, work_generation>>
    BY <1>5 DEF Submit, DrainStep, BeginDrain, DrainOne, Drained, Quit, LoadPending,
       LoadInFlight, KillCast, Joined, counters
  <2>2. /\ \A u \in Threads : pc[u] = "wake" => pc'[u] = "wake"
        /\ \A v \in Workers : pc'[v] \in {"sleep", "waiting"} => pc'[v] = pc[v]
    BY <1>0, <1>5 DEF Submit, DrainStep, BeginDrain, DrainOne, Drained, Quit, LoadPending,
       LoadInFlight, KillCast, Joined, BroadcastMain, Goto
  <2>3. QED BY <1>1, <2>1, <2>2, TimersKept
<1>6. QED BY <1>3, <1>4, <1>5 DEF ShutdownStep

(***************************************************************************)
(* With any number of workers: when all of them sleep, one sleeps no       *)
(* longer than to the first deadline of the heap, or a push is about to    *)
(* wake one.  So no timer set while a worker computes its deadline is      *)
(* forgotten (thread_pool.cpp:22-34, 243-247).                             *)
(***************************************************************************)
THEOREM TimersNeverForgotten == Spec => []TimersWatched
<1>1. Init => WakeInv /\ TimersInv
  <2> SUFFICES ASSUME Init PROVE WakeInv /\ TimersInv
    OBVIOUS
  <2>1. /\ Waiting = {} /\ timer_min_heap = {} /\ us_delay[Main] = 0
        /\ \A w \in Workers : pc[w] = "loop" /\ seen_generation[w] = 0 /\ work_generation = 0
    BY ThreadPoolAssumption DEF Init, Waiting, Threads
  <2>2. QED BY <2>1 DEF WakeInv, SeenPast, ArrivalsUnsignalled, WakeupsCoverWork, TimersInv,
               NoTimerOfMain, PeekedTimers, TimersWatched
<1>2. TypeOK /\ WakeInv /\ TimersInv /\ [Next]_vars => TimersInv'
  <2> SUFFICES ASSUME TypeOK, SeenPast, TimersInv, [Next]_vars PROVE TimersInv'
    BY DEF WakeInv
  <2>1. ASSUME NEW w \in Workers, WorkerStep(w) \/ SpuriousWake(w) PROVE TimersInv'
    BY <2>1, WorkKeepsTimers, PushesKeepTimers DEF WorkerStep, Threads
  <2>2. CASE PushStep(Main)
    BY <2>2, PushesKeepTimers DEF Threads
  <2>3. CASE UNCHANGED vars
    BY <2>3, TimersKept DEF vars, counters, queues, locals
  <2>4. QED BY <2>1, <2>2, <2>3, MainKeepsTimers, TickKeepsTimers DEF Next
<1>3. TimersInv => TimersWatched
  BY DEF TimersInv
<1>4. QED BY <1>1, <1>2, <1>3, StepKeepsWake, TypeCorrect, PTL DEF Spec
=============================================================================
