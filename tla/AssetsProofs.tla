----------------------------- MODULE AssetsProofs -----------------------------
(***************************************************************************)
(* Proofs about Assets for every number of items, workers, indices and     *)
(* frames in flight.                                                       *)
(***************************************************************************)
EXTENDS Assets, SequenceFacts

(***************************************************************************)
(* The invariant.  A handle lives in up to three places at once: an upload *)
(* (a worker, the command queue, the wait list), a caller or a deletion    *)
(* queue, and the frames that draw it.  It is at most once in each of the  *)
(* first two, and its generation tells whether its item is still its own.  *)
(***************************************************************************)
Preparing == {thread_input[w] : w \in Workers} \ {Null}
Uploading == Preparing \cup ToSet(cmd_queue) \cup ToSet(wait_list)
Doomed == UNION {ToSet(deletion_queues[q]) : q \in Queues}
Drawn == draws \cup UNION FramesSubmitted

UploadsOnce ==
  /\ \A v, w \in Workers : thread_input[v] = thread_input[w] /\ thread_input[v] # Null => v = w
  /\ IsInjective(cmd_queue) /\ IsInjective(wait_list)
  /\ ToSet(cmd_queue) \cap ToSet(wait_list) = {}
  /\ Preparing \cap (ToSet(cmd_queue) \cup ToSet(wait_list)) = {}
  /\ UploadsSubmitted \subseteq {{h} : h \in ToSet(wait_list)}

OwnedOnce ==
  /\ IsFiniteSet(held)
  /\ Preparing \cap (held \cup Doomed) = {}
  /\ held \cap Doomed = {}
  /\ \A q \in Queues : IsInjective(deletion_queues[q])
  /\ \A p, q \in Queues : p # q => ToSet(deletion_queues[p]) \cap ToSet(deletion_queues[q]) = {}

\* A handle is of an earlier generation than its item has, or the item is the handle's own.
OwnOrOld(h) ==
  \/ h.gen < gen_id[h.item] /\ h.item \in list \cup ToSet(free_list)
  \/ h.gen = gen_id[h.item] /\ h.item \in list

ItemsExact ==
  /\ IsInjective(free_list) /\ list \cap ToSet(free_list) = {}
  /\ main # "destroyed" =>
       /\ \A h \in Uploading \cup held \cup Doomed : OwnOrOld(h)
       /\ \A i \in Items \ list : ~is_loaded[i]
  /\ \A h \in Preparing : Live(h)

\* What the frame loop has left behind at each place, and what the shutdown has.
Phases ==
  /\ main \in {"empty_all", "destroyed"} => ~HasPendingWork
  /\ main = "destroyed" => list = {} /\ QueuesToEmpty = {}
  /\ main \in {"drain", "empty_all", "destroyed"} \/ (main = "check" /\ shutting_down) => gpu = <<>>
  /\ main \in {"drain", "idle", "empty_all", "destroyed"} => shutting_down
  /\ main \notin {"submit", "check", "drain", "idle", "empty_all", "destroyed"} => ~shutting_down
  /\ main \in {"top", "release"} \/ shutting_down => draws = {}
  /\ ~swapchain \/ shutting_down => FramesSubmitted = {}
  /\ main = "rotate" => FramesPending < MAX_FRAMES_IN_FLIGHT

LoadedTextures ==
  \A i \in list : is_loaded[i] => bindless[descriptor_set_idx[i]] = Handle(i)

\* The uploads that callers destroyed are submitted before the next rotation, or the program
\* ends without the drain.
QueuedNotDoomed ==
  /\ \A h \in ToSet(cmd_queue) : Live(h)
  /\ main \notin {"update", "submit", "drain", "crashed"} => ToSet(cmd_queue) \cap Doomed = {}

DrawnLive == \A h \in Drawn : Live(h) /\ is_loaded[h.item]

\* The rotations since the queue was the current one.
Age(q) == (deletion_queue_idx - q) % (MAX_FRAMES_IN_FLIGHT + 1)
FramesAfter(n) == Cardinality({m \in DOMAIN gpu : m > n /\ gpu[m].kind = "frame"})

\* A frame that draws a destroyed texture was submitted before every rotation but the
\* first, and one more while the frame that rotated last is not submitted yet.
DeletionsDated ==
  \A q \in Queues : \A h \in ToSet(deletion_queues[q]) :
    /\ h \in draws => Age(q) = 0 \/ (Age(q) = 1 /\ main \in {"acquire", "presented"})
    /\ \A n \in DOMAIN gpu :
         gpu[n].kind = "frame" /\ h \in gpu[n].uses =>
           Age(q) <= FramesAfter(n) + (IF main = "acquire" THEN 2 ELSE 1)

AssetsInv ==
  /\ TypeOK /\ UploadsOnce /\ OwnedOnce /\ ItemsExact /\ Phases
  /\ LoadedMeansUploaded /\ LoadedTextures /\ IndicesPartition
  /\ QueuedNotDoomed /\ DrawnLive /\ DeletionsDated

(***************************************************************************)
(* Types.                                                                  *)
(***************************************************************************)
Submissions == [kind : {"upload", "frame"}, uses : SUBSET Handles]

\* The queue the rotation empties next is one of the ring.
LEMMA NextQueueIsAQueue == deletion_queue_idx \in Queues => NextQueue \in Queues
BY AssetsAssumption, SMT DEF Queues, NextQueue

\* The handle made from an item's current generation is a handle.
LEMMA HandlesOfItems ==
  ASSUME TypeOK, NEW i \in Items
  PROVE  Handle(i) \in Handles /\ Handle(i) # Null
BY AssetsAssumption DEF TypeOK, Handle, Handles

\* A step of a loading worker keeps the types.
LEMMA WorkerKeepsTypes ==
  ASSUME TypeOK, NEW w \in Workers, WorkerStep(w)
  PROVE  TypeOK'
<1>1. CASE CreateItem(w)
  <2>1. created' \in 0 .. MaxAssets
    BY <1>1, AssetsAssumption, SMT DEF CreateItem, TypeOK
  <2>2. PICK i \in Items : NewItem(i) /\ list' = list \cup {i}
          /\ thread_input' = [thread_input EXCEPT ![w] = [item |-> i, gen |-> gen_id'[i]]]
    BY <1>1 DEF CreateItem
  <2>3. gen_id' \in [Items -> Nat] /\ free_list' \in Seq(Items)
    <3>1. CASE free_list # <<>>
      <4>1. gen_id \in [Items -> Nat] /\ gen_id[i] + 1 \in Nat /\ free_list \in Seq(Items)
        BY DEF TypeOK
      <4>2. Tail(free_list) \in Seq(Items)
        BY <3>1, <4>1, TailFacts
      <4> QED BY <2>2, <3>1, <4>1, <4>2 DEF NewItem
    <3>2. CASE free_list = <<>>
      BY <2>2, <3>2 DEF NewItem, TypeOK
    <3> QED BY <3>1, <3>2
  <2>4. [item |-> i, gen |-> gen_id'[i]] \in Handles /\ [item |-> i, gen |-> gen_id'[i]] # Null
    BY <2>3, AssetsAssumption DEF Handles
  <2>5. /\ thread_input' \in [Workers -> Handles \cup {Null}]
        /\ recorded' \subseteq {v \in Workers : thread_input'[v] # Null}
    BY <1>1, <2>2, <2>4 DEF CreateItem, TypeOK, workers
  <2> QED BY <1>1, <2>1, <2>2, <2>3, <2>5
          DEF CreateItem, TypeOK, indices, workers, uploads, callers, deletes, frame
<1>2. CASE Record(w)
  <2>1. thread_input[w] \in Handles /\ thread_input[w].item \in Items
    BY <1>2 DEF Record, TypeOK, Handles
  <2>2. descriptor_set_idx' \in [Items -> Indices] /\ free_indices' \in Seq(Indices)
    <3>1. CASE free_indices # <<>>
      <4>1. Front(free_indices) \in Seq(Indices) /\ Last(free_indices) \in Indices
        BY <3>1, FrontFacts DEF TypeOK
      <4> QED BY <1>2, <2>1, <3>1, <4>1 DEF Record, IndexAllocate, TypeOK
    <3>2. CASE free_indices = <<>>
      <4>1. next_index \in Indices
        BY <1>2, <3>2, AssetsAssumption, SMT DEF Record, IndexAllocate, TypeOK, Indices
      <4> QED BY <1>2, <2>1, <3>2, <4>1 DEF Record, IndexAllocate, TypeOK
    <3> QED BY <3>1, <3>2
  <2>3. next_index' \in 0 .. MaxIndex
    BY <1>2, AssetsAssumption, SMT DEF Record, IndexAllocate, TypeOK
  <2> QED BY <1>2, <2>2, <2>3
          DEF Record, TypeOK, indices, workers, uploads, callers, deletes, frame
<1>3. CASE Enqueue(w)
  <2>1. thread_input[w] \in Handles
    BY <1>3 DEF Enqueue, TypeOK
  <2>2. cmd_queue' \in Seq(Handles) /\ held' \subseteq Handles
    BY <1>3, <2>1, AppendFacts DEF Enqueue, TypeOK
  <2>3. /\ thread_input' \in [Workers -> Handles \cup {Null}]
        /\ recorded' \subseteq {v \in Workers : thread_input'[v] # Null}
    BY <1>3 DEF Enqueue, TypeOK
  <2> QED BY <1>3, <2>2, <2>3
          DEF Enqueue, TypeOK, items, indices, workers, uploads, callers, deletes, frame
<1> QED BY <1>1, <1>2, <1>3 DEF WorkerStep

\* Deleting the textures of one deletion queue keeps the types.
LEMMA DeleteKeepsTypes ==
  ASSUME TypeOK, NEW q \in Queues, DeleteFrom(q)
  PROVE  TypeOK'
<1> DEFINE h == Head(deletion_queues[q])
<1>1. h \in Handles /\ h.item \in Items /\ Tail(deletion_queues[q]) \in Seq(Handles)
  <2>1. deletion_queues[q] \in Seq(Handles) /\ deletion_queues[q] # <<>>
    BY DEF DeleteFrom, TypeOK
  <2>2. h \in Handles /\ Tail(deletion_queues[q]) \in Seq(Handles)
    BY <2>1, TailFacts
  <2> QED BY <2>2 DEF Handles
<1>2. deletion_queues' \in [Queues -> Seq(Handles)]
  BY <1>1 DEF DeleteFrom, TypeOK
<1>3. HandleFree(h)
  BY DEF DeleteFrom
<1> HIDE DEF h
<1>4. /\ gen_id' \in [Items -> Nat] /\ is_loaded' \in [Items -> BOOLEAN]
      /\ list' \subseteq Items /\ free_list' \in Seq(Items)
      /\ bindless' \in [Indices -> Handles \cup {Null}] /\ free_indices' \in Seq(Indices)
  <2>1. CASE Valid(h)
    <3>1. free_list' \in Seq(Items) /\ free_indices' \in Seq(Indices)
      <4>1. /\ free_list \in Seq(Items) /\ free_indices \in Seq(Indices)
            /\ descriptor_set_idx[h.item] \in Indices
        BY <1>1 DEF TypeOK
      <4>2. /\ Append(free_list, h.item) \in Seq(Items)
            /\ Append(free_indices, descriptor_set_idx[h.item]) \in Seq(Indices)
        BY <1>1, <4>1, AppendFacts
      <4> QED BY <1>3, <2>1, <4>2 DEF HandleFree
    <3>2. gen_id' \in [Items -> Nat]
      <4>1. gen_id \in [Items -> Nat] /\ gen_id[h.item] + 1 \in Nat
        BY <1>1 DEF TypeOK
      <4> QED BY <1>3, <2>1, <4>1, Zenon DEF HandleFree
    <3>3. is_loaded' \in [Items -> BOOLEAN] /\ list' \subseteq Items
      BY <1>1, <1>3, <2>1, Zenon DEF HandleFree, TypeOK
    <3>4. bindless' \in [Indices -> Handles \cup {Null}]
      BY <1>1, <1>3, <2>1 DEF HandleFree, TypeOK
    <3> QED BY <3>1, <3>2, <3>3, <3>4
  <2>2. CASE ~Valid(h)
    BY <1>3, <2>2 DEF HandleFree, TypeOK
  <2> QED BY <2>1, <2>2
<1> QED BY <1>2, <1>4 DEF DeleteFrom, TypeOK, workers, uploads, callers, frame

\* Drawing and destroying an asset keep the types.
LEMMA CallersKeepTypes ==
  ASSUME TypeOK, NEW h \in held, Draw(h) \/ Destroy(h)
  PROVE  TypeOK'
<1> USE DEF items, indices, workers, uploads, callers, deletes, frame
<1>1. CASE Draw(h)
  BY <1>1 DEF Draw, TypeOK
<1>2. CASE Destroy(h)
  <2>1. h \in Handles /\ deletion_queue_idx \in Queues
    BY DEF TypeOK
  <2>2. Append(deletion_queues[deletion_queue_idx], h) \in Seq(Handles)
    BY <2>1, AppendFacts DEF TypeOK
  <2>3. deletion_queues' \in [Queues -> Seq(Handles)]
    BY <1>2, <2>1, <2>2 DEF Destroy, TypeOK
  <2> QED BY <1>2, <2>3 DEF Destroy, TypeOK
<1> QED BY <1>1, <1>2

\* What the frame loop appends to the GPU's queue is a submission.
LEMMA GpuSubmissions ==
  ASSUME TypeOK, NEW h \in Handles
  PROVE  Append(gpu, Upload(h)) \in Seq(Submissions) /\ Append(gpu, Frame(draws)) \in Seq(Submissions)
<1>1. gpu \in Seq(Submissions) /\ Upload(h) \in Submissions /\ Frame(draws) \in Submissions
  BY DEF TypeOK, Submissions, Upload, Frame
<1> QED BY <1>1, AppendFacts

\* The frame loop's steps and the GPU's keep the types.
LEMMA LoopKeepsTypes ==
  ASSUME TypeOK, FrameStep \/ GpuStep \/ Quit
  PROVE  TypeOK'
<1> USE DEF Goto, items, indices, workers, uploads, callers, deletes, frame
<1>0. /\ gpu \in Seq(Submissions) /\ cmd_queue \in Seq(Handles) /\ wait_list \in Seq(Handles)
      /\ Len(wait_list) \in Nat /\ cursor \in 1 .. Len(wait_list) + 1
  BY DEF TypeOK, Submissions
<1>1. CASE BeginFrame \/ RenderFrame \/ SubmitEnd \/ WaitFrame \/ Quit
  BY <1>1 DEF BeginFrame, RenderFrame, SubmitEnd, WaitFrame, Quit, TypeOK, FramePcs, ShutdownPcs
<1>2. CASE SubmitNext
  <2>1. Head(cmd_queue) \in Handles /\ Tail(cmd_queue) \in Seq(Handles)
    BY <1>0, <1>2, TailFacts DEF SubmitNext
  <2>2. /\ Append(wait_list, Head(cmd_queue)) \in Seq(Handles)
        /\ Len(Append(wait_list, Head(cmd_queue))) = Len(wait_list) + 1
    BY <1>0, <2>1
  <2>3. cursor \in 1 .. Len(wait_list') + 1
    BY <1>0, <1>2, <2>2, SMT DEF SubmitNext
  <2>4. gpu' \in Seq(Submissions)
    BY <1>2, <2>1, GpuSubmissions DEF SubmitNext
  <2> QED BY <1>2, <2>1, <2>2, <2>3, <2>4 DEF SubmitNext, TypeOK, Submissions
<1>3. CASE CheckSignalled
  <2>1. cursor \in 1 .. Len(wait_list)
    BY <1>0, <1>3, SMT DEF CheckSignalled
  <2>2. /\ RemoveAt(wait_list, cursor) \in Seq(Handles) /\ wait_list[cursor] \in Handles
        /\ Len(RemoveAt(wait_list, cursor)) = Len(wait_list) - 1
    BY <1>0, <2>1, RemoveAtFacts
  <2>3. cursor \in 1 .. Len(wait_list') + 1
    BY <1>0, <1>3, <2>1, <2>2, SMT DEF CheckSignalled
  <2>4. wait_list[cursor].item \in Items
    BY <2>2 DEF Handles
  <2>5. Handle(wait_list[cursor].item) \in Handles
    BY <2>4, HandlesOfItems
  <2>6. is_loaded' \in [Items -> BOOLEAN] /\ bindless' \in [Indices -> Handles \cup {Null}]
    <3>1. DoneLoading(wait_list[cursor])
      BY <1>3 DEF CheckSignalled
    <3>2. is_loaded' \in [Items -> BOOLEAN]
      BY <2>4, <3>1, Zenon DEF DoneLoading, TypeOK
    <3>3. bindless' \in [Indices -> Handles \cup {Null}]
      <4> DEFINE x == Handle(wait_list[cursor].item)
                 n == descriptor_set_idx[wait_list[cursor].item]
      <4>1. x \in Handles \cup {Null} /\ bindless \in [Indices -> Handles \cup {Null}]
        BY <2>5 DEF TypeOK
      <4>2. bindless' = [bindless EXCEPT ![n] = x] \/ bindless' = bindless
        BY <3>1 DEF DoneLoading
      <4> HIDE DEF x, n
      <4> QED BY <4>1, <4>2
    <3> QED BY <3>2, <3>3
  <2> QED BY <1>3, <2>2, <2>3, <2>6 DEF CheckSignalled, TypeOK
<1>4. CASE CheckPending
  <2>1. cursor' \in 1 .. Len(wait_list) + 1
    BY <1>0, <1>4, SMT DEF CheckPending
  <2> QED BY <1>4, <2>1 DEF CheckPending, TypeOK
<1>5. CASE CheckEnd
  <2>1. 1 \in 1 .. Len(wait_list) + 1
    BY <1>0, SMT
  <2> QED BY <1>5, <2>1 DEF CheckEnd, TypeOK, FramePcs, ShutdownPcs
<1>6. CASE DeleteNext
  BY <1>6, DeleteKeepsTypes, NextQueueIsAQueue DEF DeleteNext, TypeOK
<1>7. CASE RotateEnd
  BY <1>7, NextQueueIsAQueue DEF RotateEnd, TypeOK, FramePcs
<1>8. CASE SwapchainAbsent \/ SwapchainRecreate \/ Present
  BY <1>8 DEF SwapchainAbsent, SwapchainRecreate, Present, EndFrame, TypeOK, FramePcs
<1>9. CASE SubmitFrame
  <2>1. Frame(draws) \in Submissions
    BY DEF TypeOK, Submissions, Frame
  <2>2. gpu' \in Seq(Submissions)
    BY <1>0, <1>9, <2>1, AppendFacts DEF SubmitFrame
  <2> QED BY <1>9, <2>2 DEF SubmitFrame, TypeOK, FramePcs, Submissions
<1>10. CASE GpuStep
  <2>1. gpu' \in Seq(Submissions)
    BY <1>0, <1>10, TailFacts DEF GpuStep
  <2> QED BY <1>10, <2>1 DEF GpuStep, TypeOK, Submissions
<1> QED BY <1>1, <1>2, <1>3, <1>4, <1>5, <1>6, <1>7, <1>8, <1>9, <1>10 DEF FrameStep

\* The steps of asset_manager_destroy keep the types.
LEMMA ShutdownKeepsTypes ==
  ASSUME TypeOK, IsFiniteSet(held), ShutdownStep
  PROVE  TypeOK'
<1> USE DEF Goto, items, indices, workers, uploads, callers, deletes, frame
<1>1. CASE Release
  <2>1. deletion_queue_idx \in Queues /\ deletion_queues[deletion_queue_idx] \in Seq(Handles)
    BY DEF TypeOK
  <2>2. SetToSeq(held) \in Seq(Handles)
    BY SetToSeqFacts DEF TypeOK
  <2>3. deletion_queues[deletion_queue_idx] \o SetToSeq(held) \in Seq(Handles)
    BY <2>1, <2>2, ConcatFacts
  <2>4. deletion_queues' \in [Queues -> Seq(Handles)]
    BY <1>1, <2>1, <2>3 DEF Release, TypeOK
  <2> QED BY <1>1, <2>4 DEF Release, TypeOK, ShutdownPcs
<1>2. CASE Drain
  BY <1>2 DEF Drain, TypeOK, FramePcs, ShutdownPcs
<1>3. CASE DeviceWaitIdle
  BY <1>3 DEF DeviceWaitIdle, TypeOK, FramePcs
<1>4. CASE EmptyAll
  BY <1>4, DeleteKeepsTypes DEF EmptyAll, QueuesToEmpty
<1>5. CASE LiveResourcesDestroy
  <2> DEFINE given == {descriptor_set_idx[i] : i \in list}
  <2>1. IsFiniteSet(Indices)
    BY AssetsAssumption, FS_Interval DEF Indices
  <2>2. given \subseteq Indices /\ IsFiniteSet(given)
    <3>1. given \subseteq Indices
      BY DEF TypeOK
    <3> QED BY <2>1, <3>1, FS_Subset
  <2>3. SetToSeq(given) \in Seq(Indices)
    BY <2>2, SetToSeqFacts
  <2>4. free_indices' \in Seq(Indices)
    BY <1>5, <2>3, ConcatFacts DEF LiveResourcesDestroy, TypeOK
  <2> QED BY <1>5, <2>4 DEF LiveResourcesDestroy, TypeOK, ShutdownPcs
<1> QED BY <1>1, <1>2, <1>3, <1>4, <1>5 DEF ShutdownStep

(***************************************************************************)
(* The submissions on the GPU, as the sets of what they use and as counts. *)
(***************************************************************************)
FrameNumbers == {n \in DOMAIN gpu : gpu[n].kind = "frame"}

\* The counts taken over the GPU's queue are numbers.
LEMMA GpuTypes ==
  ASSUME TypeOK
  PROVE  /\ gpu \in Seq(Submissions) /\ Len(gpu) \in Nat /\ DOMAIN gpu = 1 .. Len(gpu)
         /\ IsFiniteSet(FrameNumbers) /\ FramesPending = Cardinality(FrameNumbers)
         /\ FramesPending \in Nat
         /\ \A n : /\ FramesAfter(n) = Cardinality({m \in FrameNumbers : m > n})
                   /\ IsFiniteSet({m \in FrameNumbers : m > n}) /\ FramesAfter(n) \in Nat
<1>1. gpu \in Seq(Submissions) /\ Len(gpu) \in Nat /\ DOMAIN gpu = 1 .. Len(gpu)
  BY DEF TypeOK, Submissions
<1>2. IsFiniteSet(DOMAIN gpu)
  BY <1>1, FS_Interval
<1>3. IsFiniteSet(FrameNumbers) /\ FramesPending = Cardinality(FrameNumbers)
  BY <1>2, FS_Subset DEF FrameNumbers, FramesPending
<1>4. ASSUME NEW n
      PROVE  /\ FramesAfter(n) = Cardinality({m \in FrameNumbers : m > n})
             /\ IsFiniteSet({m \in FrameNumbers : m > n}) /\ FramesAfter(n) \in Nat
  <2>1. {m \in DOMAIN gpu : m > n /\ gpu[m].kind = "frame"} = {m \in FrameNumbers : m > n}
    BY DEF FrameNumbers
  <2>2. IsFiniteSet({m \in FrameNumbers : m > n})
    BY <1>3, FS_Subset
  <2> QED BY <2>1, <2>2, FS_CardinalityType DEF FramesAfter
<1> QED BY <1>1, <1>3, <1>4, FS_CardinalityType

\* A frame on the GPU is pending, beside the frames submitted after it.
LEMMA PendingBound ==
  ASSUME TypeOK, NEW n \in DOMAIN gpu, gpu[n].kind = "frame"
  PROVE  FramesAfter(n) + 1 <= FramesPending
<1> DEFINE S == {m \in FrameNumbers : m > n}
<1>1. IsFiniteSet(S) /\ FramesAfter(n) = Cardinality(S) /\ n \in Int
  BY GpuTypes
<1>2. n \notin S /\ S \cup {n} \subseteq FrameNumbers
  BY <1>1, SMT DEF FrameNumbers
<1>3. IsFiniteSet(S \cup {n}) /\ Cardinality(S \cup {n}) = Cardinality(S) + 1
  BY <1>1, <1>2, FS_AddElement
<1>4. Cardinality(S \cup {n}) <= Cardinality(FrameNumbers)
  BY <1>2, GpuTypes, FS_Subset
<1> QED BY <1>1, <1>3, <1>4, GpuTypes

\* Submitting an upload adds it and leaves the frames on the GPU their places.
LEMMA UploadIsSubmitted ==
  ASSUME TypeOK, NEW h \in Handles, gpu' = Append(gpu, Upload(h))
  PROVE  /\ UploadsSubmitted' = UploadsSubmitted \cup {{h}} /\ FramesSubmitted' = FramesSubmitted
         /\ FramesPending' = FramesPending
         /\ \A n \in DOMAIN gpu' : gpu'[n].kind = "frame" =>
              n \in DOMAIN gpu /\ gpu'[n] = gpu[n] /\ FramesAfter(n)' = FramesAfter(n)
<1>1. /\ DOMAIN gpu' = DOMAIN gpu \cup {Len(gpu) + 1} /\ Len(gpu) + 1 \notin DOMAIN gpu
      /\ gpu'[Len(gpu) + 1] = Upload(h) /\ \A n \in DOMAIN gpu : gpu'[n] = gpu[n]
  <2>1. Upload(h) \in Submissions
    BY DEF Submissions, Upload
  <2>2. /\ Len(gpu) \in Nat /\ DOMAIN gpu = 1 .. Len(gpu) /\ DOMAIN gpu' = 1 .. Len(gpu) + 1
        /\ gpu'[Len(gpu) + 1] = Upload(h) /\ \A n \in DOMAIN gpu : gpu'[n] = gpu[n]
    BY <2>1, GpuTypes, AppendProperties
  <2> QED BY <2>2, SMT
<1>2. Upload(h).kind = "upload" /\ Upload(h).uses = {h} /\ "upload" # "frame"
  BY DEF Upload
<1>3. UploadsSubmitted' = UploadsSubmitted \cup {{h}}
  <2> DEFINE N == {m \in DOMAIN gpu : gpu[m].kind = "upload"}
             M == {m \in DOMAIN gpu' : gpu'[m].kind = "upload"}
  <2>1. M = N \cup {Len(gpu) + 1} /\ gpu'[Len(gpu) + 1].uses = {h}
        /\ \A n \in N : gpu'[n].uses = gpu[n].uses
    BY <1>1, <1>2
  <2> HIDE DEF M, N
  <2>2. {gpu'[n].uses : n \in M} = {gpu[n].uses : n \in N} \cup {{h}}
    BY <2>1
  <2> QED BY <2>2 DEF M, N, UploadsSubmitted
<1>4. FramesSubmitted' = FramesSubmitted
  BY <1>1, <1>2 DEF FramesSubmitted
<1>5. FrameNumbers' = FrameNumbers
  BY <1>1, <1>2 DEF FrameNumbers
<1>6. FramesPending' = FramesPending
  BY <1>5 DEF FrameNumbers, FramesPending
<1>7. ASSUME NEW n PROVE FramesAfter(n)' = FramesAfter(n)
  <2>1. {m \in DOMAIN gpu' : m > n /\ gpu'[m].kind = "frame"}
          = {m \in DOMAIN gpu : m > n /\ gpu[m].kind = "frame"}
    BY <1>1, <1>2
  <2> QED BY <2>1 DEF FramesAfter
<1> QED BY <1>1, <1>2, <1>3, <1>4, <1>6, <1>7

\* Submitting a frame adds it: each earlier frame has one more after it.
LEMMA FrameIsSubmitted ==
  ASSUME TypeOK, gpu' = Append(gpu, Frame(draws))
  PROVE  /\ UploadsSubmitted' = UploadsSubmitted /\ FramesSubmitted' = FramesSubmitted \cup {draws}
         /\ \A n \in DOMAIN gpu' : \/ /\ n \in DOMAIN gpu /\ gpu'[n] = gpu[n]
                                      /\ FramesAfter(n)' = FramesAfter(n) + 1
                                   \/ gpu'[n].uses = draws /\ FramesAfter(n)' \in Nat
<1>1. /\ DOMAIN gpu' = DOMAIN gpu \cup {Len(gpu) + 1} /\ Len(gpu) + 1 \notin DOMAIN gpu
      /\ gpu'[Len(gpu) + 1] = Frame(draws) /\ \A n \in DOMAIN gpu : gpu'[n] = gpu[n]
      /\ \A n \in DOMAIN gpu : Len(gpu) + 1 > n
      /\ gpu' \in Seq(Submissions) /\ DOMAIN gpu' = 1 .. Len(gpu) + 1
  <2>1. Frame(draws) \in Submissions
    BY DEF TypeOK, Submissions, Frame
  <2>2. /\ Len(gpu) \in Nat /\ DOMAIN gpu = 1 .. Len(gpu) /\ DOMAIN gpu' = 1 .. Len(gpu) + 1
        /\ gpu'[Len(gpu) + 1] = Frame(draws) /\ \A n \in DOMAIN gpu : gpu'[n] = gpu[n]
        /\ gpu' \in Seq(Submissions)
    BY <2>1, GpuTypes, AppendProperties
  <2> QED BY <2>2, SMT
<1>2. Frame(draws).kind = "frame" /\ Frame(draws).uses = draws /\ "upload" # "frame"
  BY DEF Frame
<1>3. UploadsSubmitted' = UploadsSubmitted
  BY <1>1, <1>2 DEF UploadsSubmitted
<1>4. FramesSubmitted' = FramesSubmitted \cup {draws}
  BY <1>1, <1>2 DEF FramesSubmitted
<1>5. ASSUME NEW n \in DOMAIN gpu PROVE FramesAfter(n)' = FramesAfter(n) + 1
  <2> DEFINE S == {m \in DOMAIN gpu : m > n /\ gpu[m].kind = "frame"}
             T == {m \in DOMAIN gpu' : m > n /\ gpu'[m].kind = "frame"}
  <2>1. T = S \cup {Len(gpu) + 1} /\ Len(gpu) + 1 \notin S
    BY <1>1, <1>2
  <2>2. IsFiniteSet(S)
    <3>1. S = {m \in FrameNumbers : m > n}
      BY DEF FrameNumbers
    <3> QED BY <3>1, GpuTypes
  <2> HIDE DEF S, T
  <2>3. Cardinality(T) = Cardinality(S) + 1
    BY <2>1, <2>2, FS_AddElement
  <2> QED BY <2>3 DEF S, T, FramesAfter
<1>6. ASSUME NEW n PROVE FramesAfter(n)' \in Nat
  <2>1. IsFiniteSet(DOMAIN gpu')
    <3>1. 1 \in Int /\ Len(gpu) + 1 \in Int
      BY GpuTypes
    <3>2. IsFiniteSet(1 .. Len(gpu) + 1)
      BY <3>1, FS_Interval
    <3> QED BY <1>1, <3>2
  <2>2. IsFiniteSet({m \in DOMAIN gpu' : m > n /\ gpu'[m].kind = "frame"})
    BY <2>1, FS_Subset
  <2> QED BY <2>2, FS_CardinalityType DEF FramesAfter
<1> QED BY <1>1, <1>2, <1>3, <1>4, <1>5, <1>6

\* When the GPU finishes its oldest submission the others move up one place.
LEMMA OldestIsFinished ==
  ASSUME TypeOK, gpu # <<>>, gpu' = Tail(gpu)
  PROVE  /\ UploadsSubmitted' \subseteq UploadsSubmitted /\ FramesSubmitted' \subseteq FramesSubmitted
         /\ FramesPending' \in Nat /\ FramesPending' <= FramesPending
         /\ \A n \in DOMAIN gpu' : /\ n + 1 \in DOMAIN gpu /\ gpu'[n] = gpu[n + 1]
                                   /\ FramesAfter(n)' = FramesAfter(n + 1)
<1> DEFINE Later == {m \in FrameNumbers : m > 1}
           Now == {m \in DOMAIN gpu' : gpu'[m].kind = "frame"}
<1>1. /\ DOMAIN gpu' = 1 .. Len(gpu) - 1 /\ DOMAIN gpu = 1 .. Len(gpu) /\ Len(gpu) \in Nat
      /\ \A n \in DOMAIN gpu' : gpu'[n] = gpu[n + 1]
  <2>1. gpu \in Seq(Submissions)
    BY GpuTypes
  <2> QED BY <2>1
<1>2. /\ \A n \in DOMAIN gpu' : n \in Int /\ n + 1 \in DOMAIN gpu /\ n + 1 > 1
      /\ \A n \in DOMAIN gpu : n \in Int /\ (n > 1 => n - 1 \in DOMAIN gpu' /\ (n - 1) + 1 = n)
  BY <1>1, SMT
<1>3. UploadsSubmitted' \subseteq UploadsSubmitted /\ FramesSubmitted' \subseteq FramesSubmitted
  BY <1>1, <1>2 DEF UploadsSubmitted, FramesSubmitted
<1>4. \A m : m \in Now <=> m \in DOMAIN gpu' /\ m + 1 \in Later
  BY <1>1, <1>2 DEF FrameNumbers
<1>5. \A n \in Int : LET A == {m \in Now : m > n}
                         B == {m \in Later : m > n + 1}
                     IN  IsFiniteSet(A) /\ Cardinality(A) = Cardinality(B)
  <2> SUFFICES ASSUME NEW n \in Int
               PROVE  LET A == {m \in Now : m > n}
                          B == {m \in Later : m > n + 1}
                      IN  IsFiniteSet(A) /\ Cardinality(A) = Cardinality(B)
    OBVIOUS
  <2> DEFINE A == {m \in Now : m > n}
             B == {m \in Later : m > n + 1}
             f == [m \in B |-> m - 1]
  <2>1. IsFiniteSet(B)
    BY GpuTypes, FS_Subset
  <2>2. f \in [B -> A]
    <3>1. ASSUME NEW m \in B PROVE m - 1 \in A
      <4>1. m \in DOMAIN gpu /\ m > 1 /\ m > n + 1 /\ m \in Later
        BY DEF FrameNumbers
      <4>2. m - 1 \in DOMAIN gpu' /\ (m - 1) + 1 = m /\ m \in Int
        BY <1>2, <4>1
      <4>3. m - 1 > n
        BY <4>1, <4>2, SMT
      <4> QED BY <1>4, <4>1, <4>2, <4>3
    <3> QED BY <3>1
  <2>3. f \in Injection(B, A)
    <3>1. \A m, k \in B : m - 1 = k - 1 => m = k
      BY <1>2, SMT DEF FrameNumbers
    <3> QED BY <2>2, <3>1 DEF Injection, IsInjective
  <2>4. f \in Surjection(B, A)
    <3>1. ASSUME NEW m \in A PROVE m + 1 \in B /\ f[m + 1] = m
      <4>1. m \in DOMAIN gpu' /\ m \in Int /\ m + 1 \in Later /\ m > n
        BY <1>2, <1>4
      <4>2. m + 1 > n + 1 /\ (m + 1) - 1 = m
        BY <4>1, SMT
      <4> QED BY <4>1, <4>2
    <3> QED BY <2>2, <3>1 DEF Surjection
  <2>5. ExistsBijection(B, A)
    BY <2>3, <2>4 DEF ExistsBijection, Bijection
  <2> HIDE DEF A, B
  <2>6. IsFiniteSet(A) /\ Cardinality(A) = Cardinality(B)
    BY <2>1, <2>5, FS_Bijection
  <2> QED BY <2>6 DEF A, B
<1>6. ASSUME NEW n \in DOMAIN gpu' PROVE FramesAfter(n)' = FramesAfter(n + 1)
  <2>1. {m \in DOMAIN gpu' : m > n /\ gpu'[m].kind = "frame"} = {m \in Now : m > n}
    OBVIOUS
  <2>2. {m \in FrameNumbers : m > n + 1} = {m \in Later : m > n + 1}
    BY <1>2, SMT DEF FrameNumbers
  <2>3. FramesAfter(n)' = Cardinality({m \in Now : m > n})
    BY <2>1 DEF FramesAfter
  <2>4. FramesAfter(n + 1) = Cardinality({m \in Later : m > n + 1})
    BY <2>2, GpuTypes
  <2> HIDE DEF Now, Later
  <2> QED BY <1>2, <1>5, <2>3, <2>4
<1>7. FramesPending' \in Nat /\ FramesPending' <= FramesPending
  <2>1. {m \in Now : m > 0} = Now /\ {m \in Later : m > 0 + 1} = Later
    BY <1>1, <1>2, SMT
  <2>2. FramesPending' = Cardinality(Now)
    BY DEF FramesPending
  <2>3. Later \subseteq FrameNumbers
    OBVIOUS
  <2> HIDE DEF Now, Later
  <2>4. IsFiniteSet(Now) /\ Cardinality(Now) = Cardinality(Later)
    <3>1. 0 \in Int
      OBVIOUS
    <3>2. /\ IsFiniteSet({m \in Now : m > 0})
          /\ Cardinality({m \in Now : m > 0}) = Cardinality({m \in Later : m > 0 + 1})
      BY <1>5, <3>1, Zenon
    <3> QED BY <2>1, <3>2, Zenon
  <2>5. Cardinality(Later) <= Cardinality(FrameNumbers)
    BY <2>3, GpuTypes, FS_Subset
  <2> QED BY <2>2, <2>4, <2>5, GpuTypes, FS_CardinalityType
<1> QED BY <1>1, <1>2, <1>3, <1>6, <1>7

(***************************************************************************)
(* The age of a deletion queue grows by one with each rotation, until the  *)
(* queue is emptied at MAX_FRAMES_IN_FLIGHT and becomes the current one.   *)
(***************************************************************************)
LEMMA Remainder ==
  ASSUME NEW n \in Nat \ {0}, NEW d \in Int, 0 - n < d, d < n
  PROVE  d % n = IF d < 0 THEN d + n ELSE d
<1>1. CASE d < 0
  BY <1>1, SMT
<1>2. CASE ~(d < 0)
  BY <1>2, SMT
<1> QED BY <1>1, <1>2

\* The age of a deletion queue without the remainder: the rotations since it was the
\* current one.
LEMMA AgeValue ==
  ASSUME deletion_queue_idx \in Queues, NEW q \in Queues
  PROVE  /\ Age(q) = IF deletion_queue_idx < q THEN deletion_queue_idx - q + MAX_FRAMES_IN_FLIGHT + 1
                     ELSE deletion_queue_idx - q
         /\ Age(q) \in Nat /\ Age(q) <= MAX_FRAMES_IN_FLIGHT
         /\ Age(deletion_queue_idx) = 0
         /\ NextQueue = (IF deletion_queue_idx = MAX_FRAMES_IN_FLIGHT THEN 0 ELSE deletion_queue_idx + 1)
<1> DEFINE n == MAX_FRAMES_IN_FLIGHT + 1
           d == deletion_queue_idx - q
<1>1. /\ n \in Nat \ {0} /\ MAX_FRAMES_IN_FLIGHT \in Nat
      /\ deletion_queue_idx \in Nat /\ q \in Nat
      /\ deletion_queue_idx <= MAX_FRAMES_IN_FLIGHT /\ q <= MAX_FRAMES_IN_FLIGHT
  BY AssetsAssumption, SMT DEF Queues
<1>2. d \in Int /\ 0 - n < d /\ d < n
  BY <1>1, SMT
<1>3. d % n = IF d < 0 THEN d + n ELSE d
  <2> HIDE DEF n, d
  <2> QED BY <1>1, <1>2, Remainder
<1>4. Age(q) = IF deletion_queue_idx < q THEN deletion_queue_idx - q + MAX_FRAMES_IN_FLIGHT + 1
               ELSE deletion_queue_idx - q
  <2>1. Age(q) = d % n
    BY DEF Age
  <2>2. (d < 0 <=> deletion_queue_idx < q) /\ d + n = deletion_queue_idx - q + MAX_FRAMES_IN_FLIGHT + 1
    BY <1>1, SMT
  <2> QED BY <1>3, <2>1, <2>2
<1>5. Age(deletion_queue_idx) = 0
  <2>1. deletion_queue_idx - deletion_queue_idx = 0 /\ 0 - n < 0 /\ 0 < n
    BY <1>1, SMT
  <2>2. 0 % n = 0
    <3> HIDE DEF n
    <3> QED BY <1>1, <2>1, Remainder
  <2> QED BY <2>1, <2>2 DEF Age
<1>6. NextQueue = (IF deletion_queue_idx = MAX_FRAMES_IN_FLIGHT THEN 0 ELSE deletion_queue_idx + 1)
  BY <1>1, SMT DEF NextQueue
<1>7. Age(q) \in Nat /\ Age(q) <= MAX_FRAMES_IN_FLIGHT
  BY <1>1, <1>4, SMT
<1> QED BY <1>4, <1>5, <1>6, <1>7

\* The queue that is emptied next is the oldest.
LEMMA AgeOfNextQueue ==
  ASSUME deletion_queue_idx \in Queues
  PROVE  NextQueue \in Queues /\ Age(NextQueue) = MAX_FRAMES_IN_FLIGHT
<1>1. NextQueue \in Queues
  BY NextQueueIsAQueue
<1>2. MAX_FRAMES_IN_FLIGHT \in Nat /\ deletion_queue_idx \in 0 .. MAX_FRAMES_IN_FLIGHT
  BY AssetsAssumption DEF Queues
<1>3. Age(NextQueue) = IF deletion_queue_idx < NextQueue
                       THEN deletion_queue_idx - NextQueue + MAX_FRAMES_IN_FLIGHT + 1
                       ELSE deletion_queue_idx - NextQueue
  BY <1>1, AgeValue
<1>4. NextQueue = (IF deletion_queue_idx = MAX_FRAMES_IN_FLIGHT THEN 0 ELSE deletion_queue_idx + 1)
  BY <1>1, AgeValue
<1> HIDE DEF NextQueue
<1>5. Age(NextQueue) = MAX_FRAMES_IN_FLIGHT
  <2>1. CASE deletion_queue_idx = MAX_FRAMES_IN_FLIGHT
    BY <1>2, <1>3, <1>4, <2>1, SMT
  <2>2. CASE deletion_queue_idx # MAX_FRAMES_IN_FLIGHT
    BY <1>2, <1>3, <1>4, <2>2, SMT
  <2> QED BY <2>1, <2>2
<1> QED BY <1>1, <1>5

\* A rotation makes every queue but the new current one older by one.
LEMMA AgeAfterRotation ==
  ASSUME deletion_queue_idx \in Queues, deletion_queue_idx' = NextQueue,
         NEW q \in Queues, q # NextQueue
  PROVE  Age(q)' = Age(q) + 1
<1>1. MAX_FRAMES_IN_FLIGHT \in Nat /\ deletion_queue_idx \in 0 .. MAX_FRAMES_IN_FLIGHT
      /\ q \in 0 .. MAX_FRAMES_IN_FLIGHT
  BY AssetsAssumption DEF Queues
<1>2. Age(q) = IF deletion_queue_idx < q THEN deletion_queue_idx - q + MAX_FRAMES_IN_FLIGHT + 1
               ELSE deletion_queue_idx - q
  BY AgeValue
<1>3. NextQueue = (IF deletion_queue_idx = MAX_FRAMES_IN_FLIGHT THEN 0 ELSE deletion_queue_idx + 1)
  BY AgeValue
<1>4. Age(q)' = IF deletion_queue_idx' < q THEN deletion_queue_idx' - q + MAX_FRAMES_IN_FLIGHT + 1
                ELSE deletion_queue_idx' - q
  <2>1. deletion_queue_idx' \in Queues
    BY NextQueueIsAQueue
  <2> DEFINE x == deletion_queue_idx'
             n == MAX_FRAMES_IN_FLIGHT + 1
             d == x - q
  <2>2. n \in Nat \ {0} /\ d \in Int /\ 0 - n < d /\ d < n
    BY <1>1, <2>1, SMT DEF Queues
  <2>3. d % n = IF d < 0 THEN d + n ELSE d
    <3> HIDE DEF n, d
    <3> QED BY <2>2, Remainder
  <2>4. Age(q)' = d % n
    BY DEF Age
  <2>5. (d < 0 <=> deletion_queue_idx' < q)
        /\ d + n = deletion_queue_idx' - q + MAX_FRAMES_IN_FLIGHT + 1
    BY <1>1, <2>1, SMT DEF Queues
  <2> QED BY <2>3, <2>4, <2>5
<1>5. CASE deletion_queue_idx = MAX_FRAMES_IN_FLIGHT
  BY <1>1, <1>2, <1>3, <1>4, <1>5, SMT
<1>6. CASE deletion_queue_idx # MAX_FRAMES_IN_FLIGHT
  BY <1>1, <1>2, <1>3, <1>4, <1>6, SMT
<1> QED BY <1>5, <1>6

(***************************************************************************)
(* Steps of the loop and of the GPU that move no handle.                   *)
(***************************************************************************)
LEMMA NothingMoves ==
  ASSUME AssetsInv, UNCHANGED <<items, indices, workers, cmd_queue, wait_list, held, deletion_queues>>,
         UploadsSubmitted' \subseteq UploadsSubmitted, main = "destroyed" => main' = "destroyed"
  PROVE  /\ UploadsOnce' /\ OwnedOnce' /\ ItemsExact'
         /\ LoadedMeansUploaded' /\ LoadedTextures' /\ IndicesPartition'
         /\ Doomed' = Doomed /\ \A h : Live(h)' = Live(h)
<1> USE DEF items, indices, workers
<1>1. /\ Preparing' = Preparing /\ Doomed' = Doomed /\ Uploading' = Uploading
      /\ Indexed' = Indexed
  BY DEF Preparing, Doomed, Uploading, Indexed, Handle
<1>2. \A h : /\ Live(h)' = Live(h) /\ OwnOrOld(h)' = OwnOrOld(h)
  BY DEF Live, Valid, OwnOrOld
<1>3. \A i : Handle(i)' = Handle(i)
  BY DEF Handle
<1>4. UploadsOnce'
  BY <1>1 DEF AssetsInv, UploadsOnce
<1>5. OwnedOnce'
  BY <1>1 DEF AssetsInv, OwnedOnce
<1>6. ItemsExact'
  <2>1. IsInjective(free_list)' /\ (list \cap ToSet(free_list))' = {}
    BY DEF AssetsInv, ItemsExact
  <2>2. ASSUME main' # "destroyed", NEW h \in Uploading' \cup held' \cup Doomed'
        PROVE  OwnOrOld(h)'
    BY <1>1, <1>2, <2>2 DEF AssetsInv, ItemsExact
  <2>3. ASSUME main' # "destroyed", NEW i \in Items \ list' PROVE ~is_loaded'[i]
    BY <2>3 DEF AssetsInv, ItemsExact
  <2>4. \A h \in Preparing' : Live(h)'
    BY <1>1, <1>2 DEF AssetsInv, ItemsExact
  <2> QED BY <2>1, <2>2, <2>3, <2>4 DEF ItemsExact
<1>7. LoadedMeansUploaded'
  BY <1>3 DEF AssetsInv, LoadedMeansUploaded
<1>8. LoadedTextures'
  BY <1>3 DEF AssetsInv, LoadedTextures
<1>9. IndicesPartition'
  BY <1>1 DEF AssetsInv, IndicesPartition
<1> QED BY <1>1, <1>2, <1>4, <1>5, <1>6, <1>7, <1>8, <1>9

\* Moves of the loop that neither submit nor rotate nor draw.
LEMMA LoopMovesOn ==
  ASSUME AssetsInv, UNCHANGED <<items, indices, workers, uploads, callers, deletes, swapchain, shutting_down>>,
         main # "destroyed", {main, main'} \cap {"acquire", "presented"} = {},
         Phases',
         main' \notin {"update", "submit", "drain", "crashed"} =>
           cmd_queue = <<>> \/ main \notin {"update", "submit", "drain", "crashed"}
  PROVE  /\ UploadsOnce' /\ OwnedOnce' /\ ItemsExact'
         /\ LoadedMeansUploaded' /\ LoadedTextures' /\ IndicesPartition'
         /\ QueuedNotDoomed' /\ DrawnLive' /\ DeletionsDated'
<1> USE DEF items, indices, workers, uploads, callers, deletes
<1>1. UploadsSubmitted' = UploadsSubmitted /\ FramesSubmitted' = FramesSubmitted
  BY DEF UploadsSubmitted, FramesSubmitted
<1>2. /\ UploadsOnce' /\ OwnedOnce' /\ ItemsExact'
      /\ LoadedMeansUploaded' /\ LoadedTextures' /\ IndicesPartition'
      /\ Doomed' = Doomed /\ \A h : Live(h)' = Live(h)
  BY <1>1, NothingMoves
<1>3. QueuedNotDoomed'
  <2>1. cmd_queue = <<>> => ToSet(cmd_queue) = {}
    BY DEF ToSet
  <2> QED BY <1>2, <2>1 DEF AssetsInv, QueuedNotDoomed
<1>4. DrawnLive'
  BY <1>1, <1>2 DEF AssetsInv, DrawnLive, Drawn
<1>5. DeletionsDated'
  <2>1. /\ \A q : Age(q)' = Age(q)
        /\ \A n : FramesAfter(n)' = FramesAfter(n)
    BY DEF Age, FramesAfter
  <2> QED BY <2>1 DEF AssetsInv, DeletionsDated
<1> QED BY <1>2, <1>3, <1>4, <1>5

\* The loop's steps that submit nothing and delete nothing keep the invariant.
LEMMA LoopMovesKeepInv ==
  ASSUME AssetsInv, TypeOK',
         \/ BeginFrame \/ RenderFrame \/ SubmitEnd \/ CheckPending \/ CheckEnd \/ WaitFrame
         \/ Quit \/ Drain \/ DeviceWaitIdle
  PROVE  AssetsInv'
<1> USE DEF Goto, items, indices, workers, uploads, callers, deletes
<1> DEFINE Moves ==
      /\ UNCHANGED <<items, indices, workers, uploads, callers, deletes, swapchain, shutting_down>>
      /\ main # "destroyed" /\ {main, main'} \cap {"acquire", "presented"} = {}
      /\ main' \notin {"update", "submit", "drain", "crashed"} =>
           cmd_queue = <<>> \/ main \notin {"update", "submit", "drain", "crashed"}
<1>1. Moves /\ (HasPendingWork' <=> HasPendingWork) /\ QueuesToEmpty' = QueuesToEmpty
      /\ FramesSubmitted' = FramesSubmitted /\ FramesPending' = FramesPending
  <2>1. Moves
    <3>1. CASE BeginFrame \/ RenderFrame
      BY <3>1 DEF BeginFrame, RenderFrame
    <3>2. CASE SubmitEnd \/ CheckPending
      BY <3>2 DEF SubmitEnd, CheckPending
    <3>3. CASE CheckEnd \/ WaitFrame \/ Quit
      BY <3>3 DEF CheckEnd, WaitFrame, Quit
    <3>4. CASE Drain \/ DeviceWaitIdle
      BY <3>4 DEF Drain, DeviceWaitIdle, HasPendingWork
    <3> QED BY <3>1, <3>2, <3>3, <3>4
  <2> QED BY <2>1 DEF HasPendingWork, QueuesToEmpty, FramesSubmitted, FramesPending
<1>2. Phases'
  <2> USE DEF AssetsInv, Phases
  <2>1. CASE BeginFrame
    BY <1>1, <2>1 DEF BeginFrame
  <2>2. CASE RenderFrame
    BY <1>1, <2>2 DEF RenderFrame
  <2>3. CASE SubmitEnd
    BY <1>1, <2>3 DEF SubmitEnd
  <2>4. CASE CheckPending
    BY <1>1, <2>4 DEF CheckPending
  <2>5. CASE CheckEnd
    BY <1>1, <2>5 DEF CheckEnd
  <2>6. CASE WaitFrame
    BY <1>1, <2>6 DEF WaitFrame, FrameWaitValueReached
  <2>7. CASE Quit
    BY <1>1, <2>7 DEF Quit
  <2>8. CASE Drain
    BY <1>1, <2>8 DEF Drain
  <2>9. CASE DeviceWaitIdle
    BY <1>1, <2>9 DEF DeviceWaitIdle
  <2> QED BY <2>1, <2>2, <2>3, <2>4, <2>5, <2>6, <2>7, <2>8, <2>9
<1> QED BY <1>1, <1>2, LoopMovesOn DEF AssetsInv

\* A handle that still has its item's generation is the live one.
LEMMA OwnWhenValid ==
  ASSUME TypeOK, NEW h \in Handles, OwnOrOld(h), Valid(h)
  PROVE  Live(h)
<1>1. h.item \in Items /\ h.gen \in Nat /\ gen_id[h.item] \in Nat
  BY DEF TypeOK, Handles
<1> QED BY <1>1, SMT DEF OwnOrOld, Valid, Live

\* A caller has not destroyed what it draws.
LEMMA DrawKeepsInv ==
  ASSUME AssetsInv, TypeOK', NEW h \in held, Draw(h)
  PROVE  AssetsInv'
<1> USE DEF Draw, items, indices, workers, uploads, deletes, frame
<1>1. UploadsSubmitted' = UploadsSubmitted /\ FramesSubmitted' = FramesSubmitted
      /\ FramesPending' = FramesPending /\ HasPendingWork' = HasPendingWork
      /\ QueuesToEmpty' = QueuesToEmpty
  BY DEF UploadsSubmitted, FramesSubmitted, FramesPending, HasPendingWork, QueuesToEmpty
<1>2. /\ UploadsOnce' /\ OwnedOnce' /\ ItemsExact'
      /\ LoadedMeansUploaded' /\ LoadedTextures' /\ IndicesPartition'
      /\ Doomed' = Doomed /\ \A k : Live(k)' = Live(k)
  BY <1>1, NothingMoves
<1>3. Phases'
  BY <1>1 DEF AssetsInv, Phases
<1>4. QueuedNotDoomed'
  BY <1>2 DEF AssetsInv, QueuedNotDoomed
<1>5. DrawnLive'
  <2>1. Live(h)
    <3>1. h \in Handles /\ TypeOK /\ Valid(h)
      BY DEF AssetsInv, TypeOK
    <3>2. OwnOrOld(h)
      BY DEF AssetsInv, ItemsExact
    <3> QED BY <3>1, <3>2, OwnWhenValid
  <2> QED BY <1>1, <1>2, <2>1 DEF AssetsInv, DrawnLive, Drawn
<1>6. DeletionsDated'
  <2>1. /\ \A q : Age(q)' = Age(q)
        /\ \A n : FramesAfter(n)' = FramesAfter(n)
    BY DEF Age, FramesAfter
  <2>2. \A q \in Queues : h \notin ToSet(deletion_queues[q])
    BY DEF AssetsInv, OwnedOnce, Doomed
  <2> QED BY <2>1, <2>2 DEF AssetsInv, DeletionsDated
<1> QED BY <1>2, <1>3, <1>4, <1>5, <1>6 DEF AssetsInv

\* The end of the rotation keeps the invariant.
LEMMA RotateKeepsInv ==
  ASSUME AssetsInv, TypeOK', RotateEnd
  PROVE  AssetsInv'
<1> USE DEF RotateEnd, Goto, items, indices, workers, uploads, callers
<1>1. UploadsSubmitted' = UploadsSubmitted /\ FramesSubmitted' = FramesSubmitted
      /\ FramesPending' = FramesPending /\ QueuesToEmpty' = QueuesToEmpty
  BY DEF UploadsSubmitted, FramesSubmitted, FramesPending, QueuesToEmpty
<1>2. /\ UploadsOnce' /\ OwnedOnce' /\ ItemsExact'
      /\ LoadedMeansUploaded' /\ LoadedTextures' /\ IndicesPartition'
      /\ Doomed' = Doomed /\ \A k : Live(k)' = Live(k)
  BY <1>1, NothingMoves
<1>3. Phases'
  BY <1>1 DEF AssetsInv, Phases
<1>4. QueuedNotDoomed'
  BY <1>2 DEF AssetsInv, QueuedNotDoomed
<1>5. DrawnLive'
  BY <1>1, <1>2 DEF AssetsInv, DrawnLive, Drawn
<1>6. DeletionsDated'
  <2>1. deletion_queue_idx \in Queues /\ TypeOK
    BY DEF AssetsInv, TypeOK
  <2> SUFFICES ASSUME NEW q \in Queues, NEW h \in ToSet(deletion_queues[q])
               PROVE  /\ h \in draws => Age(q)' = 0 \/ Age(q)' = 1
                      /\ \A n \in DOMAIN gpu :
                           gpu[n].kind = "frame" /\ h \in gpu[n].uses =>
                             Age(q)' <= FramesAfter(n) + 2
    <3>1. \A n : FramesAfter(n)' = FramesAfter(n)
      BY DEF FramesAfter
    <3> QED BY <3>1 DEF DeletionsDated
  <2>2. q # NextQueue
    BY DEF ToSet
  <2>3. Age(q)' = Age(q) + 1 /\ Age(q) \in Nat
    BY <2>1, <2>2, AgeAfterRotation, AgeValue
  <2>4. h \in draws => Age(q) = 0
    BY DEF AssetsInv, DeletionsDated
  <2>5. \A n \in DOMAIN gpu : gpu[n].kind = "frame" /\ h \in gpu[n].uses =>
          Age(q) <= FramesAfter(n) + 1
    BY DEF AssetsInv, DeletionsDated
  <2>6. \A n : FramesAfter(n) \in Nat
    BY <2>1, GpuTypes
  <2> HIDE DEF RotateEnd
  <2> QED BY <2>3, <2>4, <2>5, <2>6, SMT
<1> QED BY <1>2, <1>3, <1>4, <1>5, <1>6 DEF AssetsInv

\* The frame is over: nothing is drawn, and a frame that was given up leaves none behind it.
LEMMA EndFrameKeepsInv ==
  ASSUME AssetsInv, TypeOK', SwapchainAbsent \/ SwapchainRecreate \/ Present
  PROVE  AssetsInv'
<1> USE DEF EndFrame, Goto, items, indices, workers, deletes
<1>1. /\ UNCHANGED <<items, indices, workers, uploads, held, deletes, shutting_down>>
      /\ draws' = {} /\ main' = "top" /\ main \in {"acquire", "presented"}
      /\ main = "acquire" => FramesSubmitted = {}
      /\ ~swapchain' => FramesSubmitted = {}
  <2>1. gpu = <<>> => FramesSubmitted = {}
    BY DEF FramesSubmitted
  <2>2. CASE SwapchainAbsent
    BY <2>2 DEF SwapchainAbsent, AssetsInv, Phases, uploads
  <2>3. CASE SwapchainRecreate
    BY <2>1, <2>3 DEF SwapchainRecreate, uploads
  <2>4. CASE Present
    BY <2>4 DEF Present, AssetsInv, Phases, uploads
  <2> QED BY <2>2, <2>3, <2>4
<1> USE DEF uploads
<1>2. UploadsSubmitted' = UploadsSubmitted /\ FramesSubmitted' = FramesSubmitted
      /\ FramesPending' = FramesPending /\ QueuesToEmpty' = QueuesToEmpty
  BY <1>1 DEF UploadsSubmitted, FramesSubmitted, FramesPending, QueuesToEmpty
<1>3. /\ UploadsOnce' /\ OwnedOnce' /\ ItemsExact'
      /\ LoadedMeansUploaded' /\ LoadedTextures' /\ IndicesPartition'
      /\ Doomed' = Doomed /\ \A k : Live(k)' = Live(k)
  BY <1>1, <1>2, NothingMoves
<1>4. Phases'
  BY <1>1, <1>2 DEF AssetsInv, Phases
<1>5. QueuedNotDoomed'
  BY <1>1, <1>3 DEF AssetsInv, QueuedNotDoomed
<1>6. DrawnLive'
  BY <1>1, <1>2, <1>3 DEF AssetsInv, DrawnLive, Drawn
<1>7. DeletionsDated'
  <2>1. /\ \A q : Age(q)' = Age(q)
        /\ \A n : FramesAfter(n)' = FramesAfter(n)
    BY <1>1 DEF Age, FramesAfter
  <2>2. main = "acquire" => \A n \in DOMAIN gpu : gpu[n].kind # "frame"
    BY <1>1 DEF FramesSubmitted
  <2> QED BY <1>1, <2>1, <2>2 DEF AssetsInv, DeletionsDated
<1> QED BY <1>3, <1>4, <1>5, <1>6, <1>7 DEF AssetsInv

\* Submitting a frame keeps the invariant.
LEMMA SubmitFrameKeepsInv ==
  ASSUME AssetsInv, TypeOK', SubmitFrame
  PROVE  AssetsInv'
<1> USE DEF SubmitFrame, Goto, items, indices, workers, callers, deletes
<1>0. TypeOK /\ gpu' = Append(gpu, Frame(draws))
  BY DEF AssetsInv
<1>1. /\ UploadsSubmitted' = UploadsSubmitted /\ FramesSubmitted' = FramesSubmitted \cup {draws}
      /\ \A n \in DOMAIN gpu' : \/ /\ n \in DOMAIN gpu /\ gpu'[n] = gpu[n]
                                   /\ FramesAfter(n)' = FramesAfter(n) + 1
                                \/ gpu'[n].uses = draws /\ FramesAfter(n)' \in Nat
  BY <1>0, FrameIsSubmitted
<1>2. /\ UploadsOnce' /\ OwnedOnce' /\ ItemsExact'
      /\ LoadedMeansUploaded' /\ LoadedTextures' /\ IndicesPartition'
      /\ Doomed' = Doomed /\ \A k : Live(k)' = Live(k)
  BY <1>1, NothingMoves
<1>3. Phases'
  <2>1. QueuesToEmpty' = QueuesToEmpty
    BY DEF QueuesToEmpty
  <2> QED BY <2>1 DEF AssetsInv, Phases
<1>4. QueuedNotDoomed'
  BY <1>2 DEF AssetsInv, QueuedNotDoomed
<1>5. DrawnLive'
  BY <1>1, <1>2 DEF AssetsInv, DrawnLive, Drawn
<1>6. DeletionsDated'
  <2> SUFFICES ASSUME NEW q \in Queues, NEW h \in ToSet(deletion_queues[q])
               PROVE  /\ h \in draws => Age(q) = 0 \/ Age(q) = 1
                      /\ \A n \in DOMAIN gpu' :
                           gpu'[n].kind = "frame" /\ h \in gpu'[n].uses =>
                             Age(q) <= FramesAfter(n)' + 1
    <3>1. \A r : Age(r)' = Age(r)
      BY DEF Age
    <3> QED BY <3>1 DEF DeletionsDated
  <2>1. h \in draws => Age(q) = 0 \/ Age(q) = 1
    BY DEF AssetsInv, DeletionsDated
  <2>2. ASSUME NEW n \in DOMAIN gpu', gpu'[n].kind = "frame", h \in gpu'[n].uses
        PROVE  Age(q) <= FramesAfter(n)' + 1
    <3>1. CASE n \in DOMAIN gpu /\ gpu'[n] = gpu[n] /\ FramesAfter(n)' = FramesAfter(n) + 1
      <4>1. Age(q) <= FramesAfter(n) + 2
        BY <2>2, <3>1 DEF AssetsInv, DeletionsDated
      <4>2. FramesAfter(n) \in Nat
        BY <1>0, GpuTypes
      <4> QED BY <3>1, <4>1, <4>2, SMT
    <3>2. CASE gpu'[n].uses = draws /\ FramesAfter(n)' \in Nat
      BY <2>1, <2>2, <3>2, SMT
    <3> QED BY <1>1, <3>1, <3>2
  <2> QED BY <2>1, <2>2
<1> QED BY <1>2, <1>3, <1>4, <1>5, <1>6 DEF AssetsInv

\* The GPU's step keeps the invariant.
LEMMA GpuKeepsInv ==
  ASSUME AssetsInv, TypeOK', GpuStep
  PROVE  AssetsInv'
<1> USE DEF GpuStep, items, indices, workers, callers, deletes, frame
<1>0. TypeOK /\ gpu # <<>> /\ gpu' = Tail(gpu)
  BY DEF AssetsInv
<1>1. /\ UploadsSubmitted' \subseteq UploadsSubmitted /\ FramesSubmitted' \subseteq FramesSubmitted
      /\ FramesPending' \in Nat /\ FramesPending' <= FramesPending
      /\ \A n \in DOMAIN gpu' : /\ n + 1 \in DOMAIN gpu /\ gpu'[n] = gpu[n + 1]
                                /\ FramesAfter(n)' = FramesAfter(n + 1)
  BY <1>0, OldestIsFinished
<1>2. /\ UploadsOnce' /\ OwnedOnce' /\ ItemsExact'
      /\ LoadedMeansUploaded' /\ LoadedTextures' /\ IndicesPartition'
      /\ Doomed' = Doomed /\ \A k : Live(k)' = Live(k)
  BY <1>1, NothingMoves
<1>3. Phases'
  <2>1. QueuesToEmpty' = QueuesToEmpty /\ (HasPendingWork' <=> HasPendingWork)
    BY DEF QueuesToEmpty, HasPendingWork
  <2>2. main = "rotate" => FramesPending' < MAX_FRAMES_IN_FLIGHT
    <3>1. FramesPending \in Nat /\ MAX_FRAMES_IN_FLIGHT \in Nat
      BY <1>0, GpuTypes, AssetsAssumption
    <3> QED BY <1>1, <3>1, SMT DEF AssetsInv, Phases
  <2>3. FramesSubmitted = {} => FramesSubmitted' = {}
    BY <1>1
  <2> QED BY <2>1, <2>2, <2>3 DEF AssetsInv, Phases
<1>4. QueuedNotDoomed'
  BY <1>2 DEF AssetsInv, QueuedNotDoomed
<1>5. DrawnLive'
  BY <1>1, <1>2 DEF AssetsInv, DrawnLive, Drawn
<1>6. DeletionsDated'
  <2>1. \A q : Age(q)' = Age(q)
    BY DEF Age
  <2> QED BY <1>1, <2>1 DEF AssetsInv, DeletionsDated
<1> QED BY <1>2, <1>3, <1>4, <1>5, <1>6 DEF AssetsInv

(***************************************************************************)
(* Steps that move a handle from one place to the next.                    *)
(***************************************************************************)
LEMMA ValidHandle ==
  ASSUME TypeOK, NEW h \in Handles, Valid(h)
  PROVE  h = Handle(h.item)
BY DEF Handles, Handle, Valid

\* What is to be deleted, after one deletion queue was changed.
LEMMA QueueChanged ==
  ASSUME TypeOK, NEW q \in Queues, NEW s, deletion_queues' = [deletion_queues EXCEPT ![q] = s]
  PROVE  /\ deletion_queues'[q] = s
         /\ \A p \in Queues : p # q => deletion_queues'[p] = deletion_queues[p]
         /\ \A h : h \in Doomed' <=>
              h \in ToSet(s) \/ \E p \in Queues : p # q /\ h \in ToSet(deletion_queues[p])
<1>1. deletion_queues \in [Queues -> Seq(Handles)]
  BY DEF TypeOK
<1>2. /\ deletion_queues'[q] = s
      /\ \A p \in Queues : p # q => deletion_queues'[p] = deletion_queues[p]
  BY <1>1
<1>3. \A h : h \in Doomed' <=>
        h \in ToSet(s) \/ \E p \in Queues : p # q /\ h \in ToSet(deletion_queues[p])
  <2> TAKE h
  <2>1. h \in Doomed' <=> \E p \in Queues : h \in ToSet(deletion_queues'[p])
    BY DEF Doomed
  <2> QED BY <1>2, <2>1
<1> QED BY <1>2, <1>3

\* What is counted over the GPU's queue stays as long as the queue does.
LEMMA FramesStay ==
  ASSUME UNCHANGED <<gpu, deletion_queue_idx>>
  PROVE  /\ UploadsSubmitted' = UploadsSubmitted /\ FramesSubmitted' = FramesSubmitted
         /\ FramesPending' = FramesPending
         /\ \A q : Age(q)' = Age(q)
         /\ \A n : FramesAfter(n)' = FramesAfter(n)
BY DEF UploadsSubmitted, FramesSubmitted, FramesPending, Age, FramesAfter

\* Destroying an asset keeps the invariant.
LEMMA DestroyKeepsInv ==
  ASSUME AssetsInv, TypeOK', NEW h \in held, Destroy(h)
  PROVE  AssetsInv'
<1> USE DEF Destroy, items, indices, workers, uploads, frame
<1> DEFINE d == deletion_queue_idx
<1>0. /\ TypeOK /\ h \in Handles /\ d \in Queues
      /\ deletion_queues[d] \in Seq(Handles) /\ h \notin Doomed
      /\ h \notin ToSet(deletion_queues[d]) /\ main = "update"
  BY DEF AssetsInv, TypeOK, OwnedOnce, Doomed
<1>1. /\ deletion_queues'[d] = Append(deletion_queues[d], h)
      /\ \A p \in Queues : p # d => deletion_queues'[p] = deletion_queues[p]
      /\ \A k : k \in Doomed' <=> k \in ToSet(Append(deletion_queues[d], h))
                   \/ \E p \in Queues : p # d /\ k \in ToSet(deletion_queues[p])
  <2>1. deletion_queues' = [deletion_queues EXCEPT ![d] = Append(deletion_queues[d], h)]
    OBVIOUS
  <2> QED BY <1>0, <2>1, QueueChanged
<1>2. /\ ToSet(Append(deletion_queues[d], h)) = ToSet(deletion_queues[d]) \cup {h}
      /\ IsInjective(deletion_queues[d]) => IsInjective(Append(deletion_queues[d], h))
  BY <1>0, AppendFacts
<1>3. Doomed' = Doomed \cup {h}
  BY <1>0, <1>1, <1>2 DEF Doomed
<1>4. /\ Preparing' = Preparing /\ Uploading' = Uploading /\ Indexed' = Indexed
      /\ \A k : Live(k)' = Live(k) /\ OwnOrOld(k)' = OwnOrOld(k)
      /\ \A i : Handle(i)' = Handle(i)
  BY DEF Preparing, Uploading, Indexed, Live, Valid, OwnOrOld, Handle
<1>5. /\ UploadsSubmitted' = UploadsSubmitted /\ FramesSubmitted' = FramesSubmitted
      /\ FramesPending' = FramesPending
      /\ \A q : Age(q)' = Age(q)
      /\ \A n : FramesAfter(n)' = FramesAfter(n)
  BY FramesStay
<1>6. UploadsOnce'
  BY <1>4, <1>5 DEF AssetsInv, UploadsOnce
<1>7. OwnedOnce'
  <2>1. IsFiniteSet(held')
    BY FS_Subset DEF AssetsInv, OwnedOnce
  <2>2. Preparing' \cap (held' \cup Doomed') = {} /\ held' \cap Doomed' = {}
    BY <1>0, <1>3, <1>4 DEF AssetsInv, OwnedOnce
  <2>3. \A q \in Queues : IsInjective(deletion_queues'[q])
    BY <1>1, <1>2 DEF AssetsInv, OwnedOnce
  <2>4. ASSUME NEW p \in Queues, NEW q \in Queues, p # q
        PROVE  ToSet(deletion_queues'[p]) \cap ToSet(deletion_queues'[q]) = {}
    <3>1. ToSet(deletion_queues[p]) \cap ToSet(deletion_queues[q]) = {}
      BY <2>4 DEF AssetsInv, OwnedOnce
    <3>2. h \notin ToSet(deletion_queues[p]) /\ h \notin ToSet(deletion_queues[q])
      BY <1>0 DEF Doomed
    <3> QED BY <1>1, <1>2, <2>4, <3>1, <3>2
  <2> QED BY <2>1, <2>2, <2>3, <2>4 DEF OwnedOnce
<1>8. ItemsExact'
  BY <1>3, <1>4 DEF AssetsInv, ItemsExact
<1>9. Phases'
  BY <1>0, <1>5 DEF AssetsInv, Phases, callers
<1>10. LoadedMeansUploaded' /\ LoadedTextures' /\ IndicesPartition'
  <2>1. LoadedMeansUploaded'
    BY <1>4, <1>5 DEF AssetsInv, LoadedMeansUploaded
  <2>2. LoadedTextures'
    BY <1>4 DEF AssetsInv, LoadedTextures
  <2>3. IndicesPartition'
    BY <1>4 DEF AssetsInv, IndicesPartition
  <2> QED BY <2>1, <2>2, <2>3
<1>11. QueuedNotDoomed'
  BY <1>0, <1>4 DEF AssetsInv, QueuedNotDoomed
<1>12. DrawnLive'
  BY <1>4, <1>5 DEF AssetsInv, DrawnLive, Drawn
<1>13. DeletionsDated'
  <2>1. Age(d) = 0
    BY <1>0, AgeValue
  <2>2. \A n : FramesAfter(n) \in Nat
    BY <1>0, GpuTypes
  <2>3. ASSUME NEW q \in Queues, NEW k \in ToSet(deletion_queues'[q])
        PROVE  k \in ToSet(deletion_queues[q]) \/ q = d
    BY <1>1, <2>3
  <2>4. \A n : Age(d) <= FramesAfter(n) + 1
    <3> HIDE DEF d
    <3> QED BY <2>1, <2>2, SMT
  <2> HIDE DEF d
  <2> QED BY <1>0, <1>5, <2>1, <2>3, <2>4 DEF AssetsInv, DeletionsDated
<1> QED BY <1>6, <1>7, <1>8, <1>9, <1>10, <1>11, <1>12, <1>13 DEF AssetsInv

\* A worker that puts its recorded upload on the list keeps the invariant.
LEMMA EnqueueKeepsInv ==
  ASSUME AssetsInv, TypeOK', NEW w \in Workers, Enqueue(w)
  PROVE  AssetsInv'
<1> USE DEF Enqueue, items, indices, deletes, frame
<1> DEFINE x == thread_input[w]
<1>0. /\ TypeOK /\ x \in Handles /\ x # Null /\ x \in Preparing
      /\ thread_input \in [Workers -> Handles \cup {Null}]
  BY DEF AssetsInv, TypeOK, Preparing
<1>1. /\ ToSet(cmd_queue') = ToSet(cmd_queue) \cup {x}
      /\ IsInjective(cmd_queue) /\ x \notin ToSet(cmd_queue) => IsInjective(cmd_queue')
  <2>1. cmd_queue \in Seq(Handles)
    BY DEF AssetsInv, TypeOK
  <2> QED BY <1>0, <2>1, AppendFacts
<1>2. /\ thread_input'[w] = Null
      /\ \A v \in Workers : v # w => thread_input'[v] = thread_input[v] /\ thread_input[v] # x
  BY <1>0 DEF AssetsInv, UploadsOnce
<1>3. /\ Preparing' = Preparing \ {x} /\ Uploading' = Uploading
      /\ Uploading' \cup held' \cup Doomed' = Uploading \cup held \cup Doomed
      /\ Doomed' = Doomed
  <2>1. Preparing' = Preparing \ {x}
    <3>1. ASSUME NEW k PROVE k \in Preparing' <=> k \in Preparing /\ k # x
      BY <1>0, <1>2 DEF Preparing
    <3> QED BY <3>1
  <2>2. Doomed' = Doomed
    BY DEF Doomed
  <2>3. Uploading' = Uploading
    <3> HIDE DEF x
    <3> QED BY <1>0, <1>1, <2>1 DEF Uploading
  <2>4. x \in Uploading
    BY <1>0 DEF Uploading
  <2> QED BY <2>1, <2>2, <2>3, <2>4
<1>4. /\ \A k : Live(k)' = Live(k) /\ OwnOrOld(k)' = OwnOrOld(k)
      /\ \A i : Handle(i)' = Handle(i)
  BY DEF Live, Valid, OwnOrOld, Handle
<1>5. /\ UploadsSubmitted' = UploadsSubmitted /\ FramesSubmitted' = FramesSubmitted
      /\ FramesPending' = FramesPending
      /\ \A q : Age(q)' = Age(q)
      /\ \A n : FramesAfter(n)' = FramesAfter(n)
  BY FramesStay
<1>6. UploadsOnce'
  <2>1. \A v, u \in Workers : thread_input'[v] = thread_input'[u] /\ thread_input'[v] # Null => v = u
    BY <1>2 DEF AssetsInv, UploadsOnce
  <2>2. x \notin ToSet(cmd_queue) /\ x \notin ToSet(wait_list)
    BY <1>0 DEF AssetsInv, UploadsOnce
  <2> HIDE DEF x
  <2> QED BY <1>1, <1>3, <1>5, <2>1, <2>2 DEF AssetsInv, UploadsOnce
<1>7. OwnedOnce'
  <2>1. IsFiniteSet(held')
    BY FS_AddElement DEF AssetsInv, OwnedOnce
  <2> QED BY <1>0, <1>3, <2>1 DEF AssetsInv, OwnedOnce
<1>8. ItemsExact'
  BY <1>3, <1>4 DEF AssetsInv, ItemsExact
<1>9. Phases'
  <2>1. HasPendingWork
    BY <1>0 DEF HasPendingWork
  <2>2. QueuesToEmpty' = QueuesToEmpty
    BY DEF QueuesToEmpty
  <2> QED BY <1>5, <2>1, <2>2 DEF AssetsInv, Phases
<1>10. LoadedMeansUploaded'
  <2> SUFFICES ASSUME NEW i \in list, is_loaded[i]
               PROVE  /\ {Handle(i)} \notin UploadsSubmitted
                      /\ Handle(i) \notin ToSet(cmd_queue') \cup ToSet(wait_list)
                      /\ Handle(i) \notin {thread_input'[v] : v \in Workers}
    BY <1>4, <1>5 DEF LoadedMeansUploaded
  <2>1. /\ {Handle(i)} \notin UploadsSubmitted
        /\ Handle(i) \notin ToSet(cmd_queue) \cup ToSet(wait_list)
        /\ \A v \in Workers : Handle(i) # thread_input[v]
    BY DEF AssetsInv, LoadedMeansUploaded
  <2>2. Handle(i) # Null
    BY <1>0, HandlesOfItems DEF TypeOK
  <2> QED BY <1>1, <1>2, <2>1, <2>2
<1>11. LoadedTextures'
  BY <1>4 DEF AssetsInv, LoadedTextures
<1>12. IndicesPartition'
  <2>1. \A i \in list : Handle(i) # Null
    BY <1>0, HandlesOfItems DEF TypeOK
  <2>2. Indexed' = Indexed
    BY <1>2, <1>4, <2>1 DEF Indexed
  <2> QED BY <2>2 DEF AssetsInv, IndicesPartition
<1>13. QueuedNotDoomed'
  <2>1. Live(x) /\ x \notin Doomed
    BY <1>0 DEF AssetsInv, ItemsExact, OwnedOnce
  <2> HIDE DEF x
  <2> QED BY <1>1, <1>3, <1>4, <2>1 DEF AssetsInv, QueuedNotDoomed
<1>14. DrawnLive'
  BY <1>4, <1>5 DEF AssetsInv, DrawnLive, Drawn
<1>15. DeletionsDated'
  BY <1>5 DEF AssetsInv, DeletionsDated
<1> QED BY <1>6, <1>7, <1>8, <1>9, <1>10, <1>11, <1>12, <1>13, <1>14, <1>15 DEF AssetsInv

\* Submitting the next pending upload keeps the invariant.
LEMMA SubmitNextKeepsInv ==
  ASSUME AssetsInv, TypeOK', SubmitNext
  PROVE  AssetsInv'
<1> USE DEF SubmitNext, items, indices, workers, callers, deletes, frame
<1> DEFINE x == Head(cmd_queue)
<1>0. /\ TypeOK /\ cmd_queue \in Seq(Handles) /\ cmd_queue # <<>> /\ wait_list \in Seq(Handles)
      /\ cmd_queue' = Tail(cmd_queue) /\ wait_list' = Append(wait_list, x)
      /\ gpu' = Append(gpu, Upload(x)) /\ main = "submit" /\ main' = main
  BY DEF AssetsInv, TypeOK
<1>1. /\ x \in Handles /\ ToSet(cmd_queue) = ToSet(cmd_queue') \cup {x}
      /\ IsInjective(cmd_queue) => IsInjective(cmd_queue') /\ x \notin ToSet(cmd_queue')
  BY <1>0, TailFacts
<1>2. /\ ToSet(wait_list') = ToSet(wait_list) \cup {x}
      /\ IsInjective(wait_list) /\ x \notin ToSet(wait_list) => IsInjective(wait_list')
  BY <1>0, <1>1, AppendFacts
<1>3. /\ UploadsSubmitted' = UploadsSubmitted \cup {{x}} /\ FramesSubmitted' = FramesSubmitted
      /\ FramesPending' = FramesPending
      /\ \A n \in DOMAIN gpu' : gpu'[n].kind = "frame" =>
           n \in DOMAIN gpu /\ gpu'[n] = gpu[n] /\ FramesAfter(n)' = FramesAfter(n)
  BY <1>0, <1>1, UploadIsSubmitted
<1>4. /\ Preparing' = Preparing /\ Doomed' = Doomed /\ Indexed' = Indexed
      /\ \A k : Live(k)' = Live(k) /\ OwnOrOld(k)' = OwnOrOld(k)
      /\ \A i : Handle(i)' = Handle(i)
      /\ \A q : Age(q)' = Age(q)
  BY DEF Preparing, Doomed, Indexed, Live, Valid, OwnOrOld, Handle, Age
<1> HIDE DEF x
<1>5. Uploading' = Uploading
  BY <1>1, <1>2, <1>4 DEF Uploading
<1>6. UploadsOnce'
  <2>1. x \notin ToSet(wait_list)
    BY <1>1 DEF AssetsInv, UploadsOnce
  <2> QED BY <1>1, <1>2, <1>3, <1>4, <2>1 DEF AssetsInv, UploadsOnce
<1>7. OwnedOnce'
  BY <1>4 DEF AssetsInv, OwnedOnce
<1>8. ItemsExact'
  BY <1>4, <1>5 DEF AssetsInv, ItemsExact
<1>9. Phases'
  BY <1>0, <1>3 DEF AssetsInv, Phases
<1>10. LoadedMeansUploaded'
  <2> SUFFICES ASSUME NEW i \in list, is_loaded[i]
               PROVE  /\ {Handle(i)} \notin UploadsSubmitted'
                      /\ Handle(i) \notin ToSet(cmd_queue') \cup ToSet(wait_list')
                      /\ Handle(i) \notin {thread_input[v] : v \in Workers}
    BY <1>4 DEF LoadedMeansUploaded
  <2>1. /\ {Handle(i)} \notin UploadsSubmitted
        /\ Handle(i) \notin ToSet(cmd_queue) \cup ToSet(wait_list)
        /\ Handle(i) \notin {thread_input[v] : v \in Workers}
    BY DEF AssetsInv, LoadedMeansUploaded
  <2>2. Handle(i) # x
    BY <1>1, <2>1
  <2> QED BY <1>1, <1>2, <1>3, <2>1, <2>2
<1>11. LoadedTextures'
  BY <1>4 DEF AssetsInv, LoadedTextures
<1>12. IndicesPartition'
  BY <1>4 DEF AssetsInv, IndicesPartition
<1>13. QueuedNotDoomed'
  BY <1>0, <1>1, <1>4 DEF AssetsInv, QueuedNotDoomed
<1>14. DrawnLive'
  BY <1>3, <1>4 DEF AssetsInv, DrawnLive, Drawn
<1>15. DeletionsDated'
  BY <1>0, <1>3, <1>4 DEF AssetsInv, DeletionsDated
<1> QED BY <1>6, <1>7, <1>8, <1>9, <1>10, <1>11, <1>12, <1>13, <1>14, <1>15 DEF AssetsInv

\* The contents of an asset whose upload is done: nothing else is to be uploaded to it.
LEMMA CheckSignalledKeepsInv ==
  ASSUME AssetsInv, TypeOK', CheckSignalled
  PROVE  AssetsInv'
<1> USE DEF CheckSignalled, workers, callers, deletes, frame
<1> DEFINE x == wait_list[cursor]
           i == x.item
<1>0. /\ TypeOK /\ wait_list \in Seq(Handles) /\ cursor \in 1 .. Len(wait_list)
      /\ main = "check" /\ main' = main /\ wait_list' = RemoveAt(wait_list, cursor)
      /\ Signalled(x) /\ DoneLoading(x)
  <2>1. wait_list \in Seq(Handles) /\ cursor \in 1 .. Len(wait_list) + 1 /\ cursor <= Len(wait_list)
    BY DEF AssetsInv, TypeOK
  <2>2. Len(wait_list) \in Nat
    BY <2>1
  <2>3. cursor \in 1 .. Len(wait_list)
    BY <2>1, <2>2, SMT
  <2> QED BY <2>1, <2>3 DEF AssetsInv
<1>1. /\ x \in Handles /\ x \in ToSet(wait_list)
      /\ ToSet(wait_list) = ToSet(wait_list') \cup {x}
      /\ IsInjective(wait_list) => IsInjective(wait_list') /\ x \notin ToSet(wait_list')
  BY <1>0, RemoveAtFacts
<1> HIDE DEF x
<1>2. /\ UploadsSubmitted' = UploadsSubmitted /\ FramesSubmitted' = FramesSubmitted
      /\ FramesPending' = FramesPending
      /\ \A q : Age(q)' = Age(q)
      /\ \A n : FramesAfter(n)' = FramesAfter(n)
  BY FramesStay
<1>3. /\ Preparing' = Preparing /\ Doomed' = Doomed /\ Indexed' = Indexed
      /\ \A k : Live(k)' = Live(k) /\ OwnOrOld(k)' = OwnOrOld(k)
      /\ \A j : Handle(j)' = Handle(j)
  BY DEF Preparing, Doomed, Indexed, Live, Valid, OwnOrOld, Handle
<1>4. {x} \notin UploadsSubmitted
  <2> SUFFICES ASSUME NEW n \in DOMAIN gpu, gpu[n].kind = "upload", gpu[n].uses = {x} PROVE FALSE
    BY DEF UploadsSubmitted
  <2>1. gpu[n] \in Submissions
    BY <1>0, GpuTypes
  <2>2. gpu[n] = Upload(x)
    BY <2>1 DEF Submissions, Upload
  <2> QED BY <1>0, <2>2 DEF Signalled, ToSet
<1>5. /\ Uploading' \subseteq Uploading /\ x \in Uploading /\ x \notin ToSet(wait_list')
      /\ x \notin ToSet(cmd_queue) /\ \A v \in Workers : thread_input[v] # x
  <2>1. x # Null
    BY <1>1, AssetsAssumption
  <2>2. x \notin Preparing
    BY <1>1 DEF AssetsInv, UploadsOnce
  <2> QED BY <1>1, <1>3, <2>1, <2>2 DEF AssetsInv, UploadsOnce, Uploading, Preparing
<1>6. UploadsOnce'
  <2>1. UploadsSubmitted \subseteq {{h} : h \in ToSet(wait_list')}
    BY <1>1, <1>4 DEF AssetsInv, UploadsOnce
  <2> QED BY <1>1, <1>2, <1>3, <2>1 DEF AssetsInv, UploadsOnce
<1>7. OwnedOnce'
  BY <1>3 DEF AssetsInv, OwnedOnce
<1>8. /\ i \in Items /\ (Valid(x) => x = Handle(i) /\ i \in Indexed)
      /\ \A j \in Items : is_loaded[j] \in BOOLEAN
  <2>1. i \in Items
    BY <1>1 DEF Handles
  <2>2. ASSUME Valid(x) PROVE x = Handle(i) /\ i \in Indexed
    <3>1. OwnOrOld(x)
      BY <1>0, <1>5 DEF AssetsInv, ItemsExact
    <3>2. Live(x)
      BY <1>0, <1>1, <2>2, <3>1, OwnWhenValid
    <3>3. x = Handle(i)
      BY <1>0, <1>1, <2>2, ValidHandle
    <3> QED BY <1>5, <3>2, <3>3 DEF Live, Indexed
  <2> QED BY <1>0, <2>1, <2>2 DEF TypeOK
<1>9. \A j \in Items : /\ is_loaded[j] => is_loaded'[j]
                       /\ is_loaded'[j] => is_loaded[j] \/ (j = i /\ Valid(x))
  <2>1. is_loaded \in [Items -> BOOLEAN]
    BY <1>0 DEF TypeOK
  <2>2. CASE Valid(x)
    <3>1. is_loaded' = [is_loaded EXCEPT ![i] = TRUE]
      BY <1>0, <2>2 DEF DoneLoading
    <3> HIDE DEF i
    <3> QED BY <2>1, <2>2, <3>1, Zenon
  <2>3. CASE ~Valid(x)
    BY <1>0, <2>3 DEF DoneLoading
  <2> QED BY <2>2, <2>3
<1> HIDE DEF i
<1>10. list \subseteq Items
  BY <1>0 DEF TypeOK
<1>11. ItemsExact'
  <2>1. ASSUME NEW j \in Items \ list PROVE ~is_loaded'[j]
    <3>1. ~is_loaded[j]
      BY <1>0 DEF AssetsInv, ItemsExact
    <3> QED BY <1>8, <1>9, <3>1 DEF Indexed
  <2>2. \A h \in Uploading' \cup held' \cup Doomed' : OwnOrOld(h)'
    BY <1>0, <1>3, <1>5 DEF AssetsInv, ItemsExact
  <2>3. \A h \in Preparing' : Live(h)'
    BY <1>3 DEF AssetsInv, ItemsExact
  <2>4. (IsInjective(free_list) /\ list \cap ToSet(free_list) = {})'
    BY DEF AssetsInv, ItemsExact
  <2> QED BY <2>1, <2>2, <2>3, <2>4 DEF ItemsExact
<1>12. Phases'
  BY <1>0, <1>2 DEF AssetsInv, Phases
<1>13. LoadedMeansUploaded'
  <2> SUFFICES ASSUME NEW j \in list, is_loaded'[j]
               PROVE  /\ {Handle(j)} \notin UploadsSubmitted
                      /\ Handle(j) \notin ToSet(cmd_queue) \cup ToSet(wait_list')
                      /\ Handle(j) \notin {thread_input[v] : v \in Workers}
    BY <1>2, <1>3 DEF LoadedMeansUploaded
  <2>1. CASE is_loaded[j]
    <3>1. /\ {Handle(j)} \notin UploadsSubmitted
          /\ Handle(j) \notin ToSet(cmd_queue) \cup ToSet(wait_list)
          /\ Handle(j) \notin {thread_input[v] : v \in Workers}
      BY <2>1 DEF AssetsInv, LoadedMeansUploaded
    <3> QED BY <1>1, <3>1
  <2>2. CASE j = i /\ Valid(x)
    BY <1>4, <1>5, <1>8, <2>2
  <2> QED BY <1>9, <1>10, <2>1, <2>2
<1>14. LoadedTextures'
  <2> SUFFICES ASSUME NEW j \in list, is_loaded'[j]
               PROVE  bindless'[descriptor_set_idx[j]] = Handle(j)
    BY <1>3 DEF LoadedTextures
  <2>1. /\ bindless \in [Indices -> Handles \cup {Null}]
        /\ \A k \in Items : descriptor_set_idx[k] \in Indices
    BY <1>0 DEF TypeOK
  <2>2. CASE Valid(x)
    <3>1. bindless' = [bindless EXCEPT ![descriptor_set_idx[i]] = Handle(i)]
      BY <1>0, <2>2 DEF DoneLoading, i
    <3>2. CASE j = i
      BY <1>8, <2>1, <2>2, <3>1, <3>2
    <3>3. CASE j # i
      <4>1. is_loaded[j]
        BY <1>9, <1>10, <3>3
      <4>2. j \in Indexed
        BY <4>1 DEF AssetsInv, LoadedMeansUploaded, Indexed
      <4>3. descriptor_set_idx[j] # descriptor_set_idx[i]
        BY <1>8, <2>2, <3>3, <4>2 DEF AssetsInv, IndicesPartition
      <4>4. bindless[descriptor_set_idx[j]] = Handle(j)
        BY <4>1 DEF AssetsInv, LoadedTextures
      <4> QED BY <1>10, <2>1, <3>1, <4>3, <4>4
    <3> QED BY <3>2, <3>3
  <2>3. CASE ~Valid(x)
    BY <1>0, <2>3 DEF DoneLoading, AssetsInv, LoadedTextures
  <2> QED BY <2>2, <2>3
<1>15. IndicesPartition'
  BY <1>3 DEF AssetsInv, IndicesPartition
<1>16. QueuedNotDoomed'
  BY <1>3 DEF AssetsInv, QueuedNotDoomed
<1>17. DrawnLive'
  BY <1>2, <1>3, <1>9, <1>10 DEF AssetsInv, DrawnLive, Drawn, Live
<1>18. DeletionsDated'
  BY <1>2 DEF AssetsInv, DeletionsDated
<1> QED BY <1>6, <1>7, <1>11, <1>12, <1>13, <1>14, <1>15, <1>16, <1>17, <1>18 DEF AssetsInv

\* The shutdown's release of the assets still held keeps the invariant.
LEMMA ReleaseKeepsInv ==
  ASSUME AssetsInv, TypeOK', Release
  PROVE  AssetsInv'
<1> USE DEF Release, Goto, items, indices, workers, uploads
<1> DEFINE d == deletion_queue_idx
           s == SetToSeq(held)
<1>0. /\ TypeOK /\ d \in Queues /\ deletion_queues[d] \in Seq(Handles)
      /\ gpu = <<>> /\ draws = {} /\ main = "release"
  BY DEF AssetsInv, TypeOK, Phases
<1>1. s \in Seq(Handles) /\ ToSet(s) = held /\ IsInjective(s) /\ held \subseteq Handles
  BY SetToSeqFacts DEF AssetsInv, OwnedOnce, TypeOK
<1> HIDE DEF s
<1>2. /\ deletion_queues'[d] = deletion_queues[d] \o s
      /\ \A p \in Queues : p # d => deletion_queues'[p] = deletion_queues[p]
      /\ \A k : k \in Doomed' <=> k \in ToSet(deletion_queues[d] \o s)
                   \/ \E p \in Queues : p # d /\ k \in ToSet(deletion_queues[p])
  <2>1. deletion_queues' = [deletion_queues EXCEPT ![d] = deletion_queues[d] \o s]
    BY DEF s
  <2> QED BY <1>0, <2>1, QueueChanged
<1>3. /\ ToSet(deletion_queues[d] \o s) = ToSet(deletion_queues[d]) \cup held
      /\ IsInjective(deletion_queues[d]) /\ ToSet(deletion_queues[d]) \cap held = {} =>
           IsInjective(deletion_queues[d] \o s)
  BY <1>0, <1>1, ConcatFacts
<1>4. Doomed' = Doomed \cup held
  BY <1>0, <1>2, <1>3 DEF Doomed
<1>5. /\ Preparing' = Preparing /\ Uploading' = Uploading /\ Indexed' = Indexed
      /\ \A k : Live(k)' = Live(k) /\ OwnOrOld(k)' = OwnOrOld(k)
      /\ \A i : Handle(i)' = Handle(i)
      /\ UploadsSubmitted' = UploadsSubmitted /\ FramesSubmitted' = FramesSubmitted
  BY DEF Preparing, Uploading, Indexed, Live, Valid, OwnOrOld, Handle, UploadsSubmitted,
         FramesSubmitted
<1>6. UploadsOnce'
  BY <1>5 DEF AssetsInv, UploadsOnce
<1>7. OwnedOnce'
  <2>1. IsFiniteSet(held')
    BY FS_EmptySet
  <2>2. Preparing' \cap (held' \cup Doomed') = {} /\ held' \cap Doomed' = {}
    BY <1>4, <1>5 DEF AssetsInv, OwnedOnce
  <2>3. \A q \in Queues : held \cap ToSet(deletion_queues[q]) = {}
    BY DEF AssetsInv, OwnedOnce, Doomed
  <2>4. \A q \in Queues : IsInjective(deletion_queues'[q])
    BY <1>0, <1>2, <1>3, <2>3 DEF AssetsInv, OwnedOnce
  <2>5. ASSUME NEW p \in Queues, NEW q \in Queues, p # q
        PROVE  ToSet(deletion_queues'[p]) \cap ToSet(deletion_queues'[q]) = {}
    <3>1. ToSet(deletion_queues[p]) \cap ToSet(deletion_queues[q]) = {}
      BY <2>5 DEF AssetsInv, OwnedOnce
    <3> QED BY <1>2, <1>3, <2>3, <2>5, <3>1
  <2> QED BY <2>1, <2>2, <2>4, <2>5 DEF OwnedOnce
<1>8. ItemsExact'
  BY <1>0, <1>4, <1>5 DEF AssetsInv, ItemsExact
<1>9. FramesSubmitted = {}
  BY <1>0 DEF FramesSubmitted
<1>10. Phases'
  BY <1>0, <1>5, <1>9 DEF AssetsInv, Phases
<1>11. LoadedMeansUploaded'
  BY <1>5 DEF AssetsInv, LoadedMeansUploaded
<1>12. LoadedTextures'
  BY <1>5 DEF AssetsInv, LoadedTextures
<1>13. IndicesPartition'
  BY <1>5 DEF AssetsInv, IndicesPartition
<1>14. QueuedNotDoomed'
  BY <1>5 DEF AssetsInv, QueuedNotDoomed
<1>15. DrawnLive'
  BY <1>0, <1>5, <1>9 DEF DrawnLive, Drawn
<1>16. DeletionsDated'
  <2>1. DOMAIN gpu' = {} /\ draws' = {}
    BY <1>0
  <2> QED BY <2>1 DEF DeletionsDated
<1> QED BY <1>6, <1>7, <1>8, <1>10, <1>11, <1>12, <1>13, <1>14, <1>15, <1>16 DEF AssetsInv

(***************************************************************************)
(* The deferred deletion: what its turn has come for is drawn no more, on  *)
(* the GPU or in the frame being built, and its upload is not queued.      *)
(***************************************************************************)
LEMMA DeletedIsUnused ==
  ASSUME AssetsInv, NEW q \in Queues, deletion_queues[q] # <<>>,
         main = "empty_all" \/ (main = "rotate" /\ q = NextQueue)
  PROVE  LET h == Head(deletion_queues[q])
         IN  h \notin Drawn \cup ToSet(cmd_queue) \cup Preparing
<1> DEFINE h == Head(deletion_queues[q])
<1>0. /\ TypeOK /\ deletion_queue_idx \in Queues /\ deletion_queues[q] \in Seq(Handles)
  BY DEF AssetsInv, TypeOK
<1>1. h \in ToSet(deletion_queues[q]) /\ h \in Doomed
  <2>1. ToSet(deletion_queues[q]) = ToSet(Tail(deletion_queues[q])) \cup {h}
    BY <1>0, TailFacts
  <2> HIDE DEF h
  <2> QED BY <2>1 DEF Doomed
<1> HIDE DEF h
<1>2. h \notin ToSet(cmd_queue) \cup Preparing
  BY <1>1 DEF AssetsInv, QueuedNotDoomed, OwnedOnce
<1>3. h \notin Drawn
  <2>1. CASE main = "empty_all"
    BY <2>1 DEF AssetsInv, Phases, Drawn
  <2>2. CASE main = "rotate" /\ q = NextQueue
    <3>1. /\ Age(q) = MAX_FRAMES_IN_FLIGHT /\ MAX_FRAMES_IN_FLIGHT \in Nat \ {0}
          /\ FramesPending \in Nat /\ FramesPending < MAX_FRAMES_IN_FLIGHT
      BY <1>0, <2>2, AgeOfNextQueue, AssetsAssumption, GpuTypes DEF AssetsInv, Phases
    <3>2. h \notin draws
      <4>1. h \in draws => Age(q) = 0
        BY <1>1, <2>2 DEF AssetsInv, DeletionsDated
      <4> QED BY <3>1, <4>1
    <3>3. ASSUME NEW n \in DOMAIN gpu, gpu[n].kind = "frame", h \in gpu[n].uses
          PROVE  FALSE
      <4>1. Age(q) <= FramesAfter(n) + 1
        BY <1>1, <2>2, <3>3 DEF AssetsInv, DeletionsDated
      <4>2. FramesAfter(n) + 1 <= FramesPending /\ FramesAfter(n) \in Nat
        BY <1>0, <3>3, PendingBound, GpuTypes
      <4> QED BY <3>1, <4>1, <4>2, SMT
    <3>4. h \notin UNION FramesSubmitted
      BY <3>3 DEF FramesSubmitted
    <3> QED BY <3>2, <3>4 DEF Drawn
  <2> QED BY <2>1, <2>2
<1> QED BY <1>2, <1>3 DEF h

\* What a deletion does to the handles' places.
LEMMA DeletionMoves ==
  ASSUME AssetsInv, TypeOK', NEW q \in Queues, DeleteFrom(q)
  PROVE  /\ UploadsOnce' /\ OwnedOnce' /\ DeletionsDated'
         /\ Preparing' = Preparing /\ Doomed' \subseteq Doomed
         /\ Uploading' = Uploading /\ Drawn' = Drawn
<1> USE DEF DeleteFrom, workers, uploads, callers, frame
<1> DEFINE h == Head(deletion_queues[q])
           t == Tail(deletion_queues[q])
<1>0. TypeOK /\ deletion_queues[q] \in Seq(Handles) /\ deletion_queues[q] # <<>>
  BY DEF AssetsInv, TypeOK
<1>1. /\ ToSet(deletion_queues[q]) = ToSet(t) \cup {h}
      /\ IsInjective(deletion_queues[q]) => IsInjective(t)
  BY <1>0, TailFacts
<1>2. /\ deletion_queues'[q] = t
      /\ \A p \in Queues : p # q => deletion_queues'[p] = deletion_queues[p]
      /\ \A k : k \in Doomed' <=>
           k \in ToSet(t) \/ \E p \in Queues : p # q /\ k \in ToSet(deletion_queues[p])
  <2>1. deletion_queues' = [deletion_queues EXCEPT ![q] = t]
    OBVIOUS
  <2> HIDE DEF t
  <2> QED BY <1>0, <2>1, QueueChanged
<1> HIDE DEF h, t
<1>3. /\ Doomed' \subseteq Doomed
      /\ \A p \in Queues : ToSet(deletion_queues'[p]) \subseteq ToSet(deletion_queues[p])
  BY <1>1, <1>2 DEF Doomed
<1>4. /\ UploadsSubmitted' = UploadsSubmitted /\ FramesSubmitted' = FramesSubmitted
      /\ \A p : Age(p)' = Age(p)
      /\ \A n : FramesAfter(n)' = FramesAfter(n)
  BY FramesStay
<1>5. Preparing' = Preparing /\ Uploading' = Uploading /\ Drawn' = Drawn
  BY <1>4 DEF Preparing, Uploading, Drawn
<1>6. UploadsOnce'
  BY <1>4, <1>5 DEF AssetsInv, UploadsOnce
<1>7. OwnedOnce'
  <2>1. \A p \in Queues : IsInjective(deletion_queues'[p])
    BY <1>1, <1>2 DEF AssetsInv, OwnedOnce
  <2>2. ASSUME NEW p \in Queues, NEW r \in Queues, p # r
        PROVE  ToSet(deletion_queues'[p]) \cap ToSet(deletion_queues'[r]) = {}
    BY <1>3, <2>2 DEF AssetsInv, OwnedOnce
  <2> QED BY <1>3, <1>5, <2>1, <2>2 DEF AssetsInv, OwnedOnce
<1>8. DeletionsDated'
  BY <1>3, <1>4 DEF AssetsInv, DeletionsDated
<1> QED BY <1>3, <1>5, <1>6, <1>7, <1>8

\* Deleting the textures of a deletion queue keeps the invariant.
LEMMA DeleteKeepsInv ==
  ASSUME AssetsInv, TypeOK', NEW q \in Queues, DeleteFrom(q),
         main = "empty_all" \/ (main = "rotate" /\ q = NextQueue)
  PROVE  AssetsInv'
<1> USE DEF DeleteFrom, workers, uploads, callers, frame
<1> DEFINE h == Head(deletion_queues[q])
           i == h.item
<1>0. /\ TypeOK /\ h \in Handles /\ h \in Doomed /\ i \in Items /\ HandleFree(h)
      /\ main = main' /\ main # "destroyed"
  <2>1. TypeOK /\ deletion_queues[q] \in Seq(Handles) /\ deletion_queues[q] # <<>>
    BY DEF AssetsInv, TypeOK
  <2>2. h \in Handles /\ ToSet(deletion_queues[q]) = ToSet(Tail(deletion_queues[q])) \cup {h}
    BY <2>1, TailFacts
  <2>3. HandleFree(h) /\ main = main' /\ main # "destroyed"
    OBVIOUS
  <2> HIDE DEF h
  <2> QED BY <2>1, <2>2, <2>3 DEF Doomed, Handles
<1>1. h \notin Drawn \cup ToSet(cmd_queue) \cup Preparing
  BY DeletedIsUnused
<1> HIDE DEF h
<1>2. /\ UploadsOnce' /\ OwnedOnce' /\ DeletionsDated'
      /\ Preparing' = Preparing /\ Doomed' \subseteq Doomed
      /\ Uploading' = Uploading /\ Drawn' = Drawn
  BY DeletionMoves
<1>3. /\ UploadsSubmitted' = UploadsSubmitted /\ FramesSubmitted' = FramesSubmitted
      /\ FramesPending' = FramesPending /\ UNCHANGED <<thread_input, cmd_queue, wait_list>>
      /\ (HasPendingWork' <=> HasPendingWork)
  BY FramesStay DEF HasPendingWork
<1>4. Phases'
  BY <1>0, <1>3 DEF AssetsInv, Phases
<1>5. CASE ~Valid(h)
  <2>1. /\ UNCHANGED <<gen_id, is_loaded, descriptor_set_idx, list, free_list, bindless, free_indices,
                       next_index, thread_input, recorded>>
    BY <1>0, <1>5 DEF HandleFree
  <2>2. /\ \A k : Live(k)' = Live(k) /\ OwnOrOld(k)' = OwnOrOld(k)
        /\ \A j : Handle(j)' = Handle(j)
        /\ Indexed' = Indexed
    BY <2>1 DEF Live, Valid, OwnOrOld, Handle, Indexed
  <2>3. ItemsExact'
    <3>1. \A k \in Uploading' \cup held' \cup Doomed' : OwnOrOld(k)'
      BY <1>0, <1>2, <2>2 DEF AssetsInv, ItemsExact
    <3> QED BY <1>0, <1>2, <2>1, <2>2, <3>1 DEF AssetsInv, ItemsExact
  <2>4. LoadedMeansUploaded'
    BY <1>3, <2>1, <2>2 DEF AssetsInv, LoadedMeansUploaded
  <2>5. LoadedTextures' /\ IndicesPartition'
    BY <2>1, <2>2 DEF AssetsInv, LoadedTextures, IndicesPartition
  <2>6. QueuedNotDoomed'
    BY <1>0, <1>2, <1>3, <2>2 DEF AssetsInv, QueuedNotDoomed
  <2>7. DrawnLive'
    BY <1>2, <2>1, <2>2 DEF AssetsInv, DrawnLive
  <2> QED BY <1>2, <1>4, <2>3, <2>4, <2>5, <2>6, <2>7 DEF AssetsInv
<1>6. CASE Valid(h)
  <2> DEFINE n == descriptor_set_idx[i]
  <2>1. /\ gen_id' = [gen_id EXCEPT ![i] = gen_id[i] + 1]
        /\ is_loaded' = [is_loaded EXCEPT ![i] = FALSE]
        /\ list' = list \ {i} /\ free_list' = Append(free_list, i)
        /\ bindless' = bindless \/ bindless' = [bindless EXCEPT ![n] = Null]
        /\ free_indices' = Append(free_indices, n)
    BY <1>0, <1>6 DEF HandleFree
  <2>2. /\ gen_id \in [Items -> Nat] /\ is_loaded \in [Items -> BOOLEAN] /\ list \subseteq Items
        /\ free_list \in Seq(Items) /\ free_indices \in Seq(Indices) /\ n \in Indices
        /\ bindless \in [Indices -> Handles \cup {Null}] /\ cmd_queue \in Seq(Handles)
        /\ \A j \in Items : descriptor_set_idx[j] \in Indices
    BY <1>0 DEF TypeOK
  <2>3. h = Handle(i) /\ i \in list /\ Live(h)
    <3>1. OwnOrOld(h)
      BY <1>0 DEF AssetsInv, ItemsExact
    <3> QED BY <1>0, <1>6, <3>1, OwnWhenValid, ValidHandle DEF Live
  <2> HIDE DEF i
  <2>4. i \in Indexed
    <3>1. Handle(i) # Null
      BY <1>0, HandlesOfItems
    <3> QED BY <1>1, <2>3, <3>1 DEF Indexed, Preparing
  <2> HIDE DEF n
  <2>5. /\ \A j \in Items : j # i => gen_id'[j] = gen_id[j] /\ is_loaded'[j] = is_loaded[j]
        /\ gen_id'[i] = gen_id[i] + 1 /\ is_loaded'[i] = FALSE
    <3>1. \A j \in Items : j # i => gen_id'[j] = gen_id[j] /\ is_loaded'[j] = is_loaded[j]
      BY <2>1, <2>2
    <3>2. gen_id'[i] = gen_id[i] + 1 /\ is_loaded'[i] = FALSE
      BY <1>0, <2>1, <2>2
    <3> QED BY <3>1, <3>2
  <2>6. \A k \in Handles : k.item \in Items /\ (Live(k) /\ k # h => k.item # i)
    BY <1>0, <2>3, ValidHandle DEF Handles, Live
  <2>7. \A k \in Handles : Live(k) /\ k # h => Live(k)'
    BY <2>1, <2>5, <2>6 DEF Live, Valid
  <2>8. \A j \in Items : j # i => Handle(j)' = Handle(j)
    BY <2>5 DEF Handle
  <2>9. /\ ToSet(free_list') = ToSet(free_list) \cup {i}
        /\ IsInjective(free_list) /\ i \notin ToSet(free_list) => IsInjective(free_list')
    BY <1>0, <2>1, <2>2, AppendFacts
  <2>10. ItemsExact'
    <3>1. IsInjective(free_list') /\ list' \cap ToSet(free_list') = {}
      BY <2>1, <2>3, <2>9 DEF AssetsInv, ItemsExact
    <3>2. ASSUME NEW k \in Uploading \cup held \cup Doomed PROVE OwnOrOld(k)'
      <4>1. OwnOrOld(k)
        BY <1>0, <3>2 DEF AssetsInv, ItemsExact
      <4>2. k \in Handles /\ k.item \in Items
        <5>1. k \in Handles
          <6>1. Preparing \subseteq Handles /\ held \subseteq Handles
            BY <1>0, SMTT(60) DEF TypeOK, Preparing
          <6>2. ToSet(cmd_queue) \subseteq Handles /\ ToSet(wait_list) \subseteq Handles
            BY <1>0, SMTT(60) DEF TypeOK, ToSet
          <6>3. Doomed \subseteq Handles
            BY <1>0, SMTT(60) DEF TypeOK, Doomed, ToSet
          <6> QED BY <3>2, <6>1, <6>2, <6>3 DEF Uploading
        <5> QED BY <2>6, <5>1
      <4>3. k.gen \in Nat /\ gen_id[k.item] \in Nat
        BY <2>2, <4>2 DEF Handles
      <4>4. CASE k.item # i
        BY <2>1, <2>5, <2>9, <4>1, <4>2, <4>4 DEF OwnOrOld
      <4>5. CASE k.item = i
        <5>1. k.gen < gen_id'[i]
          BY <2>5, <4>1, <4>3, <4>5, SMT DEF OwnOrOld
        <5> QED BY <2>9, <4>5, <5>1 DEF OwnOrOld
      <4> QED BY <4>4, <4>5
    <3>3. ASSUME NEW j \in Items \ list' PROVE ~is_loaded'[j]
      BY <1>0, <2>1, <2>5, <3>3 DEF AssetsInv, ItemsExact
    <3>4. \A k \in Preparing : Live(k)'
      <4>1. Preparing \subseteq Handles
        BY <1>0 DEF TypeOK, Preparing
      <4> QED BY <1>1, <2>7, <4>1 DEF AssetsInv, ItemsExact
    <3> QED BY <1>2, <3>1, <3>2, <3>3, <3>4 DEF ItemsExact
  <2>11. LoadedMeansUploaded'
    <3> SUFFICES ASSUME NEW j \in list', is_loaded'[j]
                 PROVE  /\ {Handle(j)} \notin UploadsSubmitted
                        /\ Handle(j) \notin ToSet(cmd_queue) \cup ToSet(wait_list)
                        /\ Handle(j) \notin {thread_input[v] : v \in Workers}
      <4>1. \A j \in list' : Handle(j)' = Handle(j)
        BY <2>1, <2>2, <2>8
      <4> HIDE DEF DeleteFrom
      <4> QED BY <1>3, <4>1 DEF LoadedMeansUploaded
    <3>1. j \in list /\ is_loaded[j]
      BY <2>1, <2>2, <2>5
    <3> QED BY <3>1 DEF AssetsInv, LoadedMeansUploaded
  <2>12. \A j \in Indexed : j # i => descriptor_set_idx[j] # n
    BY <2>4 DEF AssetsInv, IndicesPartition, n
  <2>13. LoadedTextures'
    <3> SUFFICES ASSUME NEW j \in list', is_loaded'[j]
                 PROVE  bindless'[descriptor_set_idx[j]] = Handle(j)
      BY <2>1, <2>2, <2>8 DEF LoadedTextures
    <3>1. j \in list /\ is_loaded[j] /\ j # i
      BY <2>1, <2>2, <2>5
    <3>2. j \in Indexed
      BY <3>1 DEF AssetsInv, LoadedMeansUploaded, Indexed
    <3>3. bindless[descriptor_set_idx[j]] = Handle(j)
      BY <3>1 DEF AssetsInv, LoadedTextures
    <3>4. descriptor_set_idx[j] \in Indices /\ descriptor_set_idx[j] # n
      BY <2>2, <2>12, <3>1, <3>2
    <3> QED BY <2>1, <2>2, <3>3, <3>4
  <2>14. IndicesPartition'
    <3>1. Indexed' = Indexed \ {i}
      <4>1. \A j \in list' : j \in Items /\ j # i /\ Handle(j)' = Handle(j)
        BY <2>1, <2>2, <2>8
      <4> QED BY <2>1, <4>1 DEF Indexed
    <3>2. /\ ToSet(free_indices') = ToSet(free_indices) \cup {n}
          /\ IsInjective(free_indices) /\ n \notin ToSet(free_indices) => IsInjective(free_indices')
      BY <2>1, <2>2, AppendFacts
    <3> DEFINE given == {descriptor_set_idx[j] : j \in Indexed}
    <3>3. {descriptor_set_idx[j] : j \in Indexed'} = given \ {n} /\ n \in given
      BY <2>4, <2>12, <3>1 DEF n
    <3>4. /\ IsInjective(free_indices) /\ ToSet(free_indices) \cap given = {}
          /\ ToSet(free_indices) \cup given = 0 .. next_index - 1
      BY DEF AssetsInv, IndicesPartition, IsInjective
    <3>5. \A j, k \in Indexed' : descriptor_set_idx[j] = descriptor_set_idx[k] => j = k
      BY <3>1 DEF AssetsInv, IndicesPartition
    <3>6. IsInjective(free_indices')
      BY <3>2, <3>3, <3>4
    <3> HIDE DEF given
    <3>7. /\ ToSet(free_indices') \cap {descriptor_set_idx[j] : j \in Indexed'} = {}
          /\ ToSet(free_indices') \cup {descriptor_set_idx[j] : j \in Indexed'} = 0 .. next_index - 1
      BY <3>2, <3>3, <3>4
    <3> QED BY <3>5, <3>6, <3>7 DEF IndicesPartition, IsInjective
  <2>15. QueuedNotDoomed'
    <3>1. \A k \in ToSet(cmd_queue) : k \in Handles /\ Live(k) /\ k # h
      BY <1>1, <2>2 DEF AssetsInv, QueuedNotDoomed, ToSet
    <3> QED BY <1>0, <1>2, <1>3, <2>7, <3>1 DEF AssetsInv, QueuedNotDoomed
  <2>16. DrawnLive'
    <3>1. \A k \in Drawn : k \in Handles /\ Live(k) /\ is_loaded[k.item] /\ k # h
      <4>1. Drawn \subseteq Handles
        <5>1. \A m \in DOMAIN gpu : gpu[m].uses \subseteq Handles
          <6>1. \A m \in DOMAIN gpu : gpu[m] \in Submissions
            BY <1>0, GpuTypes
          <6> QED BY <6>1 DEF Submissions
        <5> QED BY <1>0, <5>1 DEF Drawn, FramesSubmitted, TypeOK
      <4> QED BY <1>1, <4>1 DEF AssetsInv, DrawnLive
    <3> QED BY <1>2, <2>5, <2>6, <2>7, <3>1 DEF DrawnLive
  <2> QED BY <1>2, <1>4, <2>10, <2>11, <2>13, <2>14, <2>15, <2>16 DEF AssetsInv
<1> QED BY <1>5, <1>6

\* Nothing is prepared, queued, drawn or to be deleted when the last resources go.
LEMMA LiveResourcesDestroyKeepsInv ==
  ASSUME AssetsInv, TypeOK', LiveResourcesDestroy
  PROVE  AssetsInv'
<1> USE DEF LiveResourcesDestroy, Goto, workers, uploads, callers, deletes
<1> DEFINE given == {descriptor_set_idx[i] : i \in list}
           s == SetToSeq(given)
<1>0. /\ TypeOK /\ ~HasPendingWork /\ draws = {} /\ FramesSubmitted = {} /\ gpu = <<>> /\ shutting_down
      /\ main = "empty_all" /\ main' = "destroyed"
  BY DEF AssetsInv, Phases
<1>1. /\ cmd_queue = <<>> /\ wait_list = <<>> /\ \A w \in Workers : thread_input[w] = Null
      /\ HasPendingWork' = HasPendingWork /\ QueuesToEmpty' = {}
      /\ Preparing = {} /\ Preparing' = {} /\ ToSet(cmd_queue) = {} /\ ToSet(cmd_queue)' = {}
  <2>1. /\ cmd_queue = <<>> /\ wait_list = <<>> /\ \A w \in Workers : thread_input[w] = Null
        /\ HasPendingWork' = HasPendingWork
    BY <1>0 DEF HasPendingWork
  <2>2. QueuesToEmpty' = {}
    BY DEF QueuesToEmpty
  <2> QED BY <2>1, <2>2 DEF Preparing, ToSet
<1>2. /\ UploadsSubmitted' = UploadsSubmitted /\ FramesSubmitted' = {} /\ Doomed' = Doomed
  BY <1>0 DEF UploadsSubmitted, FramesSubmitted, Doomed
<1>3. UploadsOnce'
  BY <1>1, <1>2 DEF AssetsInv, UploadsOnce
<1>4. OwnedOnce'
  BY <1>1, <1>2 DEF AssetsInv, OwnedOnce
<1>5. ItemsExact'
  BY <1>0, <1>1 DEF AssetsInv, ItemsExact
<1>6. Phases'
  BY <1>0, <1>1, <1>2 DEF Phases
<1>7. LoadedMeansUploaded' /\ LoadedTextures'
  BY DEF LoadedMeansUploaded, LoadedTextures
<1>8. IndicesPartition'
  <2>1. Indexed = list /\ Indexed' = {}
    <3>1. \A i \in list : Handle(i) # Null
      BY <1>0, HandlesOfItems DEF TypeOK
    <3> QED BY <1>1, <3>1 DEF Indexed
  <2>2. given \subseteq Indices /\ IsFiniteSet(given) /\ free_indices \in Seq(Indices)
    <3>1. IsFiniteSet(Indices)
      BY AssetsAssumption, FS_Interval DEF Indices
    <3>2. given \subseteq Indices /\ free_indices \in Seq(Indices)
      BY <1>0 DEF TypeOK
    <3> QED BY <3>1, <3>2, FS_Subset
  <2>3. s \in Seq(Indices) /\ ToSet(s) = given /\ IsInjective(s)
    <3> HIDE DEF given
    <3>1. s \in Seq(given) /\ ToSet(s) = given /\ IsInjective(s)
      BY <2>2, SetToSeqFacts
    <3> HIDE DEF s
    <3> QED BY <2>2, <3>1
  <2>4. free_indices' = free_indices \o s
    OBVIOUS
  <2>5. /\ IsInjective(free_indices) /\ ToSet(free_indices) \cap given = {}
        /\ ToSet(free_indices) \cup given = 0 .. next_index - 1
    BY <2>1 DEF AssetsInv, IndicesPartition, IsInjective
  <2> HIDE DEF given, s
  <2>6. ToSet(free_indices') = 0 .. next_index - 1 /\ IsInjective(free_indices')
    <3>1. /\ ToSet(free_indices \o s) = ToSet(free_indices) \cup ToSet(s)
          /\ ToSet(free_indices) \cap ToSet(s) = {} => IsInjective(free_indices \o s)
      BY <2>2, <2>3, <2>5, ConcatFacts
    <3> HIDE DEF LiveResourcesDestroy
    <3> QED BY <2>3, <2>4, <2>5, <3>1
  <2>7. next_index' = next_index
    OBVIOUS
  <2> QED BY <2>1, <2>6, <2>7 DEF IndicesPartition, IsInjective
<1>9. QueuedNotDoomed'
  BY <1>1 DEF QueuedNotDoomed
<1>10. DrawnLive'
  BY <1>0, <1>2 DEF DrawnLive, Drawn
<1>11. DeletionsDated'
  BY <1>0 DEF DeletionsDated
<1> QED BY <1>3, <1>4, <1>5, <1>6, <1>7, <1>8, <1>9, <1>10, <1>11 DEF AssetsInv

(***************************************************************************)
(* A worker's asset: its item is new to every handle there is, and its     *)
(* index to every texture.                                                 *)
(***************************************************************************)
LEMMA RecordKeepsInv ==
  ASSUME AssetsInv, TypeOK', NEW w \in Workers, Record(w)
  PROVE  AssetsInv'
<1> USE DEF Record, uploads, callers, deletes, frame
<1> DEFINE x == thread_input[w]
           i == x.item
           n == IF free_indices # <<>> THEN Last(free_indices) ELSE next_index
<1>0. /\ TypeOK /\ x \in Handles /\ i \in Items /\ x \in Preparing /\ w \notin recorded
      /\ recorded' = recorded \cup {w} /\ thread_input' = thread_input
      /\ UNCHANGED <<gen_id, is_loaded, list, free_list, bindless>>
  <2>1. TypeOK /\ x \in Handles /\ w \notin recorded
    BY DEF AssetsInv, TypeOK
  <2> QED BY <2>1 DEF Preparing, Handles
<1>1. /\ descriptor_set_idx' = [descriptor_set_idx EXCEPT ![i] = n]
      /\ free_indices # <<>> => free_indices' = Front(free_indices) /\ next_index' = next_index
      /\ free_indices = <<>> =>
           free_indices' = free_indices /\ next_index < MaxIndex /\ next_index' = next_index + 1
  <2>1. IndexAllocate(i)
    OBVIOUS
  <2> HIDE DEF i
  <2> QED BY <2>1 DEF IndexAllocate
<1>2. x = Handle(i) /\ i \in list /\ i \notin Indexed
  <2>1. Live(x)
    BY <1>0 DEF AssetsInv, ItemsExact
  <2>2. x = Handle(i)
    BY <1>0, <2>1, ValidHandle DEF Live
  <2> QED BY <1>0, <2>1, <2>2 DEF Live, Indexed
<1> HIDE DEF Record
<1>3. /\ UploadsSubmitted' = UploadsSubmitted /\ FramesSubmitted' = FramesSubmitted
      /\ FramesPending' = FramesPending
      /\ \A q : Age(q)' = Age(q)
      /\ \A m : FramesAfter(m)' = FramesAfter(m)
      /\ UNCHANGED <<cmd_queue, wait_list, gpu, held, draws, deletion_queues, shutting_down, swapchain, main>>
  BY FramesStay DEF Record
<1>4. /\ Preparing' = Preparing /\ Doomed' = Doomed /\ Uploading' = Uploading
      /\ \A k : Live(k)' = Live(k) /\ OwnOrOld(k)' = OwnOrOld(k)
      /\ \A j : Handle(j)' = Handle(j)
      /\ (HasPendingWork' <=> HasPendingWork) /\ QueuesToEmpty' = QueuesToEmpty
  BY <1>0, <1>3 DEF Preparing, Doomed, Uploading, Live, Valid, OwnOrOld, Handle, HasPendingWork,
                    QueuesToEmpty
<1> HIDE DEF n
<1>5. UploadsOnce'
  BY <1>0, <1>3, <1>4 DEF AssetsInv, UploadsOnce
<1>6. OwnedOnce'
  BY <1>3, <1>4 DEF AssetsInv, OwnedOnce
<1>7. ItemsExact'
  BY <1>0, <1>3, <1>4 DEF AssetsInv, ItemsExact
<1>8. Phases'
  <2>1. list' = list
    BY <1>0
  <2> QED BY <1>3, <1>4, <2>1 DEF AssetsInv, Phases
<1>9. LoadedMeansUploaded'
  BY <1>0, <1>3, <1>4 DEF AssetsInv, LoadedMeansUploaded
<1>10. /\ descriptor_set_idx'[i] = n
       /\ \A j \in Items : j # i => descriptor_set_idx'[j] = descriptor_set_idx[j]
       /\ list \subseteq Items
  <2>1. descriptor_set_idx \in [Items -> Indices] /\ list \subseteq Items
    BY <1>0 DEF TypeOK
  <2> HIDE DEF i
  <2> QED BY <1>0, <1>1, <2>1
<1>11. LoadedTextures'
  <2> SUFFICES ASSUME NEW j \in list, is_loaded[j]
               PROVE  bindless[descriptor_set_idx'[j]] = Handle(j)
    BY <1>0, <1>4 DEF LoadedTextures
  <2>1. j # i
    BY <1>2 DEF AssetsInv, LoadedMeansUploaded
  <2> QED BY <1>10, <2>1 DEF AssetsInv, LoadedTextures
<1>12. IndicesPartition'
  <2> DEFINE given == {descriptor_set_idx[j] : j \in Indexed}
  <2>1. /\ \A j, k \in Indexed : descriptor_set_idx[j] = descriptor_set_idx[k] => j = k
        /\ IsInjective(free_indices) /\ ToSet(free_indices) \cap given = {}
        /\ ToSet(free_indices) \cup given = 0 .. next_index - 1
    BY DEF AssetsInv, IndicesPartition, IsInjective
  <2>2. free_indices \in Seq(Indices) /\ next_index \in Nat
    BY <1>0, AssetsAssumption DEF TypeOK
  <2>3. /\ n \notin given /\ n \notin ToSet(free_indices') /\ IsInjective(free_indices')
        /\ ToSet(free_indices') \cap given = {}
        /\ ToSet(free_indices') \cup given \cup {n} = 0 .. next_index' - 1
    <3> HIDE DEF given
    <3>1. CASE free_indices # <<>>
      <4>1. /\ ToSet(free_indices) = ToSet(free_indices') \cup {n}
            /\ IsInjective(free_indices') /\ n \notin ToSet(free_indices')
        BY <1>1, <2>1, <2>2, <3>1, FrontFacts DEF n
      <4> QED BY <1>1, <2>1, <3>1, <4>1
    <3>2. CASE free_indices = <<>>
      <4>1. ToSet(free_indices) = {} /\ free_indices' = free_indices /\ n = next_index
        BY <1>1, <3>2 DEF ToSet, n
      <4>2. given = 0 .. next_index - 1
        BY <2>1, <4>1
      <4>3. next_index \notin given /\ given \cup {next_index} = 0 .. next_index
        BY <2>2, <4>2, SMT
      <4>4. next_index' - 1 = next_index
        BY <1>1, <2>2, <3>2, SMT
      <4> QED BY <2>1, <4>1, <4>3, <4>4
    <3> QED BY <3>1, <3>2
  <2>4. Indexed' = Indexed \cup {i}
    <3>1. ASSUME NEW j \in list, j # i
          PROVE  (\E v \in Workers \ recorded : thread_input[v] = Handle(j))
                   <=> (\E v \in Workers \ recorded' : thread_input[v] = Handle(j))
      <4>1. Handle(j) # Handle(i)
        BY <3>1 DEF Handle
      <4> QED BY <1>0, <1>2, <4>1
    <3>2. \A v \in Workers \ recorded' : thread_input[v] # Handle(i)
      BY <1>0, <1>2, AssetsAssumption DEF AssetsInv, UploadsOnce
    <3> HIDE DEF i, x
    <3>3. ASSUME NEW j PROVE j \in Indexed' <=> j \in Indexed \/ j = i
      <4>1. j \in Indexed' <=> j \in list /\ \A v \in Workers \ recorded' : thread_input[v] # Handle(j)
        BY <1>0, <1>4 DEF Indexed
      <4>2. j \in Indexed <=> j \in list /\ \A v \in Workers \ recorded : thread_input[v] # Handle(j)
        BY DEF Indexed
      <4> QED BY <1>2, <3>1, <3>2, <4>1, <4>2
    <3> QED BY <3>3
  <2>5. \A j \in Indexed : j # i /\ descriptor_set_idx'[j] = descriptor_set_idx[j]
    BY <1>2, <1>10 DEF Indexed
  <2> HIDE DEF i, x
  <2>6. {descriptor_set_idx'[j] : j \in Indexed'} = given \cup {n}
    BY <1>10, <2>4, <2>5
  <2>7. \A j, k \in Indexed' : descriptor_set_idx'[j] = descriptor_set_idx'[k] => j = k
    BY <1>10, <2>1, <2>3, <2>4, <2>5
  <2> HIDE DEF given
  <2>8. /\ ToSet(free_indices') \cap {descriptor_set_idx'[j] : j \in Indexed'} = {}
        /\ ToSet(free_indices') \cup {descriptor_set_idx'[j] : j \in Indexed'} = 0 .. next_index' - 1
    BY <2>3, <2>6
  <2> QED BY <2>3, <2>7, <2>8 DEF IndicesPartition, IsInjective
<1>13. QueuedNotDoomed'
  BY <1>3, <1>4 DEF AssetsInv, QueuedNotDoomed
<1>14. DrawnLive'
  BY <1>0, <1>3, <1>4 DEF AssetsInv, DrawnLive, Drawn
<1>15. DeletionsDated'
  BY <1>3 DEF AssetsInv, DeletionsDated, Record
<1> QED BY <1>5, <1>6, <1>7, <1>8, <1>9, <1>11, <1>12, <1>13, <1>14, <1>15 DEF AssetsInv

\* Creating an item keeps the invariant.
LEMMA CreateItemKeepsInv ==
  ASSUME AssetsInv, TypeOK', NEW w \in Workers, CreateItem(w)
  PROVE  AssetsInv'
<1> USE DEF indices, uploads, callers, deletes, frame
<1>0. /\ TypeOK /\ main \in FramePcs /\ thread_input[w] = Null
      /\ thread_input \in [Workers -> Handles \cup {Null}]
      /\ gen_id \in [Items -> Nat] /\ list \subseteq Items /\ free_list \in Seq(Items)
      /\ UNCHANGED <<is_loaded, descriptor_set_idx, free_indices, next_index, bindless, recorded>>
      /\ UNCHANGED <<cmd_queue, wait_list, gpu, held, draws, deletion_queues, deletion_queue_idx>>
      /\ UNCHANGED <<shutting_down, swapchain, main>>
      /\ main # "destroyed" /\ main # "empty_all"
  BY DEF AssetsInv, TypeOK, CreateItem, FramePcs
<1>1. PICK i \in Items : /\ NewItem(i) /\ list' = list \cup {i}
                         /\ thread_input' = [thread_input EXCEPT ![w] = [item |-> i, gen |-> gen_id'[i]]]
  BY DEF CreateItem
<1>2. /\ i \notin list /\ \A j \in Items : j # i => gen_id'[j] = gen_id[j]
      /\ IsInjective(free_list') /\ list' \cap ToSet(free_list') = {}
      /\ list' \cup ToSet(free_list') = list \cup ToSet(free_list) \cup {i}
      /\ gen_id'[i] \in Nat
      /\ \/ i \in ToSet(free_list) /\ gen_id'[i] = gen_id[i] + 1
         \/ i \notin ToSet(free_list) /\ gen_id'[i] = gen_id[i]
  <2>1. CASE free_list # <<>>
    <3>1. /\ i = Head(free_list) /\ free_list' = Tail(free_list)
          /\ gen_id' = [gen_id EXCEPT ![i] = gen_id[i] + 1]
      BY <1>1, <2>1 DEF NewItem
    <3>2. /\ ToSet(free_list) = ToSet(free_list') \cup {i}
          /\ IsInjective(free_list') /\ i \notin ToSet(free_list')
      BY <1>0, <2>1, <3>1, TailFacts DEF AssetsInv, ItemsExact
    <3>3. list \cap ToSet(free_list) = {}
      BY DEF AssetsInv, ItemsExact
    <3>4. /\ \A j \in Items : j # i => gen_id'[j] = gen_id[j]
          /\ gen_id'[i] \in Nat /\ gen_id'[i] = gen_id[i] + 1
      BY <1>0, <3>1
    <3> QED BY <1>1, <3>2, <3>3, <3>4
  <2>2. CASE free_list = <<>>
    <3>1. i \notin list /\ free_list' = free_list /\ gen_id' = gen_id /\ ToSet(free_list) = {}
      BY <1>1, <2>2 DEF NewItem, ToSet
    <3> QED BY <1>0, <1>1, <3>1 DEF AssetsInv, ItemsExact
  <2> QED BY <2>1, <2>2
<1> PICK x \in Handles : x = [item |-> i, gen |-> gen_id'[i]]
  BY <1>2 DEF Handles
<1>3. x # Null /\ x.item = i /\ x.gen = gen_id'[i]
  BY AssetsAssumption
<1>4. /\ thread_input'[w] = x
      /\ \A v \in Workers : v # w => thread_input'[v] = thread_input[v]
  BY <1>0, <1>1
<1>5. /\ UploadsSubmitted' = UploadsSubmitted /\ FramesSubmitted' = FramesSubmitted
      /\ FramesPending' = FramesPending
      /\ \A q : Age(q)' = Age(q)
      /\ \A n : FramesAfter(n)' = FramesAfter(n)
      /\ Doomed' = Doomed /\ Drawn' = Drawn
  <2>1. /\ UploadsSubmitted' = UploadsSubmitted /\ FramesSubmitted' = FramesSubmitted
        /\ FramesPending' = FramesPending
        /\ \A q : Age(q)' = Age(q)
        /\ \A n : FramesAfter(n)' = FramesAfter(n)
    BY <1>0, FramesStay
  <2> QED BY <1>0, <2>1 DEF Doomed, Drawn
<1>6. Preparing' = Preparing \cup {x} /\ Uploading' = Uploading \cup {x}
  <2>1. ASSUME NEW k PROVE k \in Preparing' <=> k \in Preparing \/ k = x
    BY <1>0, <1>3, <1>4 DEF Preparing
  <2>2. Preparing' = Preparing \cup {x}
    BY <2>1
  <2> QED BY <1>0, <2>2 DEF Uploading
<1>7. \A k \in Uploading \cup held \cup Doomed : k # x /\ OwnOrOld(k)' /\ (Live(k) => Live(k)')
  <2> SUFFICES ASSUME NEW k \in Uploading \cup held \cup Doomed
               PROVE  k # x /\ OwnOrOld(k)' /\ (Live(k) => Live(k)')
    OBVIOUS
  <2>1. OwnOrOld(k)
    BY <1>0 DEF AssetsInv, ItemsExact
  <2>2. k \in Handles
    <3>1. Preparing \subseteq Handles /\ held \subseteq Handles
      BY <1>0 DEF TypeOK, Preparing
    <3>2. ToSet(cmd_queue) \subseteq Handles /\ ToSet(wait_list) \subseteq Handles
      BY <1>0, SMTT(60) DEF TypeOK, ToSet
    <3>3. Doomed \subseteq Handles
      BY <1>0, SMTT(60) DEF TypeOK, Doomed, ToSet
    <3> QED BY <3>1, <3>2, <3>3 DEF Uploading
  <2>3. k.item \in Items /\ k.gen \in Nat /\ gen_id[k.item] \in Nat
    BY <1>0, <2>2 DEF Handles
  <2>4. CASE k.item = i
    <3>1. k.gen < gen_id[i] + 1 /\ i \in ToSet(free_list) /\ ~Live(k)
      BY <1>2, <2>1, <2>3, <2>4, SMT DEF OwnOrOld, Live
    <3>2. k.gen < gen_id'[i]
      BY <1>2, <3>1
    <3>3. k # x
      BY <1>2, <1>3, <2>3, <3>2, SMT
    <3>4. OwnOrOld(k)'
      BY <1>1, <2>4, <3>2 DEF OwnOrOld
    <3> QED BY <3>1, <3>3, <3>4
  <2>5. CASE k.item # i
    <3>1. gen_id'[k.item] = gen_id[k.item]
      BY <1>2, <2>3, <2>5
    <3>2. OwnOrOld(k)'
      BY <1>1, <1>2, <2>1, <2>5, <3>1 DEF OwnOrOld
    <3>3. Live(k) => Live(k)'
      BY <1>1, <3>1 DEF Live, Valid
    <3> QED BY <1>3, <2>5, <3>2, <3>3
  <2> QED BY <2>4, <2>5
<1>8. OwnOrOld(x)' /\ Live(x)'
  BY <1>1, <1>3 DEF OwnOrOld, Live, Valid
<1>9. \A j \in list : Handle(j)' = Handle(j) /\ j # i /\ Handle(j) # x
  <2>1. \A j \in list : j \in Items /\ j # i
    BY <1>0, <1>2
  <2> QED BY <1>2, <1>3, <2>1 DEF Handle
<1>10. UploadsOnce'
  <2>1. \A v \in Workers : thread_input[v] # Null => thread_input[v] \in Preparing
    BY DEF Preparing
  <2>2. \A v \in Workers : thread_input[v] # x
    BY <1>3, <1>7, <2>1 DEF Uploading
  <2>3. \A u, v \in Workers : thread_input'[u] = thread_input'[v] /\ thread_input'[u] # Null => u = v
    BY <1>4, <2>2 DEF AssetsInv, UploadsOnce
  <2>4. x \notin ToSet(cmd_queue) \cup ToSet(wait_list)
    BY <1>7 DEF Uploading
  <2> QED BY <1>0, <1>5, <1>6, <2>3, <2>4 DEF AssetsInv, UploadsOnce
<1>11. OwnedOnce'
  <2>1. x \notin held \cup Doomed
    BY <1>7
  <2> QED BY <1>0, <1>5, <1>6, <2>1 DEF AssetsInv, OwnedOnce
<1>12. ItemsExact'
  <2>1. \A k \in Uploading' \cup held' \cup Doomed' : OwnOrOld(k)'
    BY <1>0, <1>5, <1>6, <1>7, <1>8
  <2>2. \A j \in Items \ list' : ~is_loaded'[j]
    BY <1>0, <1>1 DEF AssetsInv, ItemsExact
  <2>3. \A k \in Preparing' : Live(k)'
    BY <1>6, <1>7, <1>8 DEF AssetsInv, ItemsExact, Uploading
  <2> QED BY <1>2, <2>1, <2>2, <2>3 DEF ItemsExact
<1>13. Phases'
  BY <1>0, <1>5 DEF AssetsInv, Phases
<1>14. \A j \in list' : is_loaded'[j] => j \in list /\ is_loaded[j]
  BY <1>0, <1>1, <1>2 DEF AssetsInv, ItemsExact
<1>15. LoadedMeansUploaded'
  <2> SUFFICES ASSUME NEW j \in list, is_loaded[j]
               PROVE  /\ {Handle(j)} \notin UploadsSubmitted
                      /\ Handle(j) \notin ToSet(cmd_queue) \cup ToSet(wait_list)
                      /\ Handle(j) \notin {thread_input'[v] : v \in Workers}
    BY <1>0, <1>5, <1>9, <1>14 DEF LoadedMeansUploaded
  <2>1. /\ {Handle(j)} \notin UploadsSubmitted
        /\ Handle(j) \notin ToSet(cmd_queue) \cup ToSet(wait_list)
        /\ Handle(j) \notin {thread_input[v] : v \in Workers}
    BY DEF AssetsInv, LoadedMeansUploaded
  <2> QED BY <1>4, <1>9, <2>1
<1>16. LoadedTextures'
  BY <1>0, <1>9, <1>14 DEF AssetsInv, LoadedTextures
<1>17. IndicesPartition'
  <2>1. w \notin recorded
    BY <1>0 DEF TypeOK
  <2>2. i \notin Indexed'
    <3>1. Handle(i)' = x
      BY DEF Handle
    <3> QED BY <1>0, <1>4, <2>1, <3>1 DEF Indexed
  <2>3. ASSUME NEW j \in list PROVE j \in Indexed' <=> j \in Indexed
    <3>1. Handle(j) # Null
      BY <1>0, HandlesOfItems
    <3> QED BY <1>0, <1>1, <1>4, <1>9, <3>1 DEF Indexed
  <2>4. Indexed' = Indexed
    BY <1>1, <2>2, <2>3 DEF Indexed
  <2> QED BY <1>0, <2>4 DEF AssetsInv, IndicesPartition
<1>18. QueuedNotDoomed'
  BY <1>0, <1>5, <1>7 DEF AssetsInv, QueuedNotDoomed, Uploading
<1>19. DrawnLive'
  <2> SUFFICES ASSUME NEW k \in Drawn PROVE Live(k)' /\ is_loaded[k.item]
    BY <1>0, <1>5 DEF DrawnLive
  <2>1. Live(k) /\ is_loaded[k.item]
    BY DEF AssetsInv, DrawnLive
  <2>2. k.item \in list /\ k.item \in Items /\ k.item # i
    BY <1>0, <1>2, <2>1 DEF Live
  <2> QED BY <1>1, <1>2, <2>1, <2>2 DEF Live, Valid
<1>20. DeletionsDated'
  BY <1>0, <1>5 DEF AssetsInv, DeletionsDated
<1> QED BY <1>10, <1>11, <1>12, <1>13, <1>15, <1>16, <1>17, <1>18, <1>19, <1>20 DEF AssetsInv

(***************************************************************************)
(* Theorems.                                                               *)
(***************************************************************************)
LEMMA InitHasInv == Init => AssetsInv
<1> SUFFICES ASSUME Init PROVE AssetsInv
  OBVIOUS
<1> USE DEF Init
<1>1. TypeOK
  <2>1. 0 \in Queues /\ 0 \in 0 .. MaxAssets /\ 0 \in 0 .. MaxIndex
    BY AssetsAssumption, SMT DEF Queues
  <2>2. descriptor_set_idx \in [Items -> Indices]
    <3>1. CASE Items = {}
      BY <3>1
    <3>2. CASE Items # {}
      <4>1. Cardinality(Items) \in Nat /\ Cardinality(Items) # 0
        BY <3>2, AssetsAssumption, FS_CardinalityType, FS_EmptySet
      <4>2. 0 \in Indices
        BY <4>1, AssetsAssumption, SMT DEF Indices
      <4> QED BY <4>2
    <3> QED BY <3>1, <3>2
  <2>3. \A S : <<>> \in Seq(S)
    OBVIOUS
  <2> QED BY <2>1, <2>2, <2>3 DEF TypeOK, FramePcs
<1>2. \A S : ToSet(<<>>) = {} /\ IsInjective(<<>>) /\ DOMAIN <<>> = {}
  BY DEF ToSet, IsInjective
<1>3. /\ Preparing = {} /\ Uploading = {} /\ Doomed = {} /\ Drawn = {}
      /\ UploadsSubmitted = {} /\ FramesSubmitted = {} /\ Indexed = {}
  <2>1. Preparing = {} /\ UploadsSubmitted = {} /\ FramesSubmitted = {} /\ Indexed = {}
    BY <1>2 DEF Preparing, UploadsSubmitted, FramesSubmitted, Indexed
  <2>2. Doomed = {}
    BY <1>2 DEF Doomed
  <2> QED BY <1>2, <2>1, <2>2 DEF Uploading, Drawn
<1>4. UploadsOnce /\ OwnedOnce
  <2>1. UploadsOnce
    BY <1>2, <1>3 DEF UploadsOnce
  <2> QED BY <1>2, <1>3, <2>1, FS_EmptySet DEF OwnedOnce
<1>5. ItemsExact
  BY <1>2, <1>3 DEF ItemsExact
<1>6. Phases
  BY <1>3 DEF Phases
<1>7. LoadedMeansUploaded /\ LoadedTextures /\ IndicesPartition
  <2>1. 0 .. next_index - 1 = {}
    BY SMT
  <2> QED BY <1>2, <1>3, <2>1 DEF LoadedMeansUploaded, LoadedTextures, IndicesPartition
<1>8. QueuedNotDoomed /\ DrawnLive /\ DeletionsDated
  BY <1>2, <1>3 DEF QueuedNotDoomed, DrawnLive, DeletionsDated
<1> QED BY <1>1, <1>4, <1>5, <1>6, <1>7, <1>8 DEF AssetsInv

\* Every step keeps the invariant.
LEMMA NextKeepsInv == AssetsInv /\ [Next]_vars => AssetsInv'
<1> SUFFICES ASSUME AssetsInv, [Next]_vars PROVE AssetsInv'
  OBVIOUS
<1>0. TypeOK /\ IsFiniteSet(held)
  BY DEF AssetsInv, OwnedOnce
<1>1. ASSUME NEW w \in Workers, WorkerStep(w) PROVE AssetsInv'
  <2>1. TypeOK'
    BY <1>0, <1>1, WorkerKeepsTypes
  <2> QED BY <1>1, <2>1, CreateItemKeepsInv, RecordKeepsInv, EnqueueKeepsInv DEF WorkerStep
<1>2. ASSUME NEW h \in held, Draw(h) \/ Destroy(h) PROVE AssetsInv'
  <2>1. TypeOK'
    BY <1>0, <1>2, CallersKeepTypes
  <2> QED BY <1>2, <2>1, DrawKeepsInv, DestroyKeepsInv
<1>3. CASE FrameStep \/ GpuStep \/ Quit
  <2>1. TypeOK'
    BY <1>0, <1>3, LoopKeepsTypes
  <2>2. CASE DeleteNext
    <3>1. NextQueue \in Queues
      BY <1>0, NextQueueIsAQueue DEF TypeOK
    <3> QED BY <2>1, <2>2, <3>1, DeleteKeepsInv DEF DeleteNext
  <2>3. CASE SwapchainAbsent \/ SwapchainRecreate \/ Present
    BY <2>1, <2>3, EndFrameKeepsInv
  <2>4. CASE BeginFrame \/ RenderFrame \/ SubmitEnd \/ CheckPending \/ CheckEnd \/ WaitFrame \/ Quit
    BY <2>1, <2>4, LoopMovesKeepInv
  <2> QED BY <1>3, <2>1, <2>2, <2>3, <2>4, SubmitNextKeepsInv, CheckSignalledKeepsInv,
             RotateKeepsInv, SubmitFrameKeepsInv, GpuKeepsInv DEF FrameStep
<1>4. CASE ShutdownStep
  <2>1. TypeOK'
    BY <1>0, <1>4, ShutdownKeepsTypes
  <2>2. CASE EmptyAll
    BY <2>1, <2>2, DeleteKeepsInv DEF EmptyAll, QueuesToEmpty
  <2> QED BY <1>4, <2>1, <2>2, ReleaseKeepsInv, LoopMovesKeepInv, LiveResourcesDestroyKeepsInv
          DEF ShutdownStep
<1>5. CASE Terminated \/ UNCHANGED vars
  <2>1. UNCHANGED vars
    BY <1>5 DEF Terminated, Ended
  <2>2. UNCHANGED <<items, indices, workers, uploads, callers, deletes, frame>>
    BY <2>1 DEF vars
  <2> USE DEF items, indices, workers, uploads, callers, deletes, frame
  <2>3. TypeOK'
    BY <1>0, <2>2 DEF TypeOK
  <2>4. /\ UploadsSubmitted' = UploadsSubmitted /\ FramesSubmitted' = FramesSubmitted
        /\ FramesPending' = FramesPending
        /\ \A q : Age(q)' = Age(q)
        /\ \A n : FramesAfter(n)' = FramesAfter(n)
    BY <2>2, FramesStay
  <2>5. /\ UploadsOnce' /\ OwnedOnce' /\ ItemsExact'
        /\ LoadedMeansUploaded' /\ LoadedTextures' /\ IndicesPartition'
        /\ Doomed' = Doomed /\ \A k : Live(k)' = Live(k)
    BY <2>2, <2>4, NothingMoves
  <2>6. Phases'
    <3>1. QueuesToEmpty' = QueuesToEmpty /\ (HasPendingWork' <=> HasPendingWork)
      BY <2>2 DEF QueuesToEmpty, HasPendingWork
    <3> QED BY <2>2, <2>4, <3>1 DEF AssetsInv, Phases
  <2>7. QueuedNotDoomed'
    BY <2>2, <2>5 DEF AssetsInv, QueuedNotDoomed
  <2>8. DrawnLive'
    BY <2>2, <2>4, <2>5 DEF AssetsInv, DrawnLive, Drawn
  <2>9. DeletionsDated'
    BY <2>2, <2>4 DEF AssetsInv, DeletionsDated
  <2> QED BY <2>3, <2>5, <2>6, <2>7, <2>8, <2>9 DEF AssetsInv
<1> QED BY <1>1, <1>2, <1>3, <1>4, <1>5 DEF Next

\* The invariant holds throughout, whatever the workers, the callers, the GPU and the window
\* system do.
THEOREM AssetsInvariant == Spec => []AssetsInv
BY InitHasInv, NextKeepsInv, PTL DEF Spec

\* Every variable of the asset manager and of the frame loop keeps its type; above all the
\* cursor that cmd_done_check moves over the wait list stays within the list that it shortens,
\* and an index that the allocator hands out is one of the descriptor array.
THEOREM AssetsTypeCorrect == Spec => []TypeOK
<1>1. AssetsInv => TypeOK
  BY DEF AssetsInv
<1> QED BY <1>1, AssetsInvariant, PTL

\* However many frames may be in flight: when the ring of deletion queues comes round to a
\* texture, no frame that draws it is being built or is left on the GPU, and its upload is
\* submitted.
THEOREM FramesUseLiveAssetsHolds == Spec => []FramesUseLiveAssets
<1>1. AssetsInv => FramesUseLiveAssets
  <2> SUFFICES ASSUME AssetsInv PROVE FramesUseLiveAssets
    OBVIOUS
  <2>1. \A h \in draws \cup UNION FramesSubmitted : Live(h)
    BY DEF AssetsInv, DrawnLive, Drawn
  <2>2. \A h \in ToSet(cmd_queue) : Live(h)
    BY DEF AssetsInv, QueuedNotDoomed
  <2>3. \A w \in recorded : thread_input[w] \in Preparing
    BY DEF AssetsInv, TypeOK, Preparing
  <2>4. \A w \in recorded : Live(thread_input[w])
    BY <2>3 DEF AssetsInv, ItemsExact
  <2> QED BY <2>1, <2>2, <2>4 DEF FramesUseLiveAssets
<1> QED BY <1>1, AssetsInvariant, PTL

\* A frame on the GPU samples the textures it was built with: neither the descriptors nor the
\* indices of what it draws change before it is done.
THEOREM FramesSeeTheirTexturesHolds == Spec => []FramesSeeTheirTextures
<1>1. AssetsInv => FramesSeeTheirTextures
  <2> SUFFICES ASSUME AssetsInv, NEW h \in UNION FramesSubmitted
               PROVE  bindless[descriptor_set_idx[h.item]] = h
    BY DEF FramesSeeTheirTextures
  <2>1. Live(h) /\ is_loaded[h.item]
    BY DEF AssetsInv, DrawnLive, Drawn
  <2>2. bindless[descriptor_set_idx[h.item]] = Handle(h.item)
    BY <2>1 DEF AssetsInv, LoadedTextures, Live
  <2>3. TypeOK /\ h \in Handles
    <3>1. TypeOK
      BY DEF AssetsInv
    <3>2. \A n \in DOMAIN gpu : gpu[n] \in Submissions
      BY <3>1, GpuTypes
    <3> QED BY <3>1, <3>2 DEF FramesSubmitted, Submissions
  <2>4. h = Handle(h.item)
    BY <2>1, <2>3, ValidHandle DEF Live
  <2> QED BY <2>2, <2>4
<1> QED BY <1>1, AssetsInvariant, PTL

\* What is_resource_loaded reports is uploaded, also for an item that was freed and created
\* again while the fence of its earlier asset was watched.
THEOREM LoadedMeansUploadedHolds == Spec => []LoadedMeansUploaded
<1>1. AssetsInv => LoadedMeansUploaded
  BY DEF AssetsInv
<1> QED BY <1>1, AssetsInvariant, PTL

\* The descriptor indices handed out are always partitioned between the free ones and the
\* live textures.
THEOREM IndicesPartitionHolds == Spec => []IndicesPartition
<1>1. AssetsInv => IndicesPartition
  BY DEF AssetsInv
<1> QED BY <1>1, AssetsInvariant, PTL

\* A shutdown that gets past the cleanup of the swapchain leaves no upload, no deletion and no
\* submission behind, whatever the workers and the GPU were at when the loop ended.
THEOREM ShutdownDrainedHolds == Spec => []ShutdownDrained
<1>1. AssetsInv => ShutdownDrained
  <2> SUFFICES ASSUME AssetsInv, main = "destroyed" PROVE ShutdownDrained
    BY DEF ShutdownDrained
  <2>1. ~HasPendingWork /\ gpu = <<>> /\ QueuesToEmpty = {}
    BY DEF AssetsInv, Phases
  <2> QED BY <2>1 DEF HasPendingWork, QueuesToEmpty, ShutdownDrained, Drained
<1> QED BY <1>1, AssetsInvariant, PTL

===============================================================================
