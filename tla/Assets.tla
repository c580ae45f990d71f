------------------------------- MODULE Assets -------------------------------
(***************************************************************************)
(* The asset manager (render/vulkan/asset_manager.cpp) and the frame that  *)
(* drives it (render_frame of render/vulkan/vulkan_if.cpp): textures named *)
(* by handles with generations, uploads recorded by workers and submitted  *)
(* by the frame, deletion deferred over a ring of queues, and the drain at *)
(* shutdown.  Buffers go through the same functions without the steps of   *)
(* the descriptor, so every asset here is a texture.                       *)
(*                                                                         *)
(* The actors are the workers, the frame loop and the GPU, which signals   *)
(* the submissions of its one queue in their order.  An action is one      *)
(* critical section of a worker, or one step of the frame loop between two *)
(* accesses to what it shares with the others.                             *)
(***************************************************************************)
EXTENDS Integers, FiniteSets, SequencesExt

CONSTANTS Workers,
          Items,                 \* bound: the asset items the arena may hold
          MaxIndex,              \* descriptor indices
          MAX_FRAMES_IN_FLIGHT,
          MaxAssets,             \* bound: the assets ever created
          Null                   \* no handle; in a descriptor: the null texture

Handles == [item : Items, gen : Nat]
Queues == 0 .. MAX_FRAMES_IN_FLIGHT
Indices == 0 .. MaxIndex - 1
FramePcs ==
  {"top", "update", "submit", "check", "wait", "rotate", "acquire", "presented"}
ShutdownPcs == {"release", "drain", "idle", "empty_all", "destroyed", "crashed"}

ASSUME AssetsAssumption ==
  /\ IsFiniteSet(Items)
  /\ MaxIndex \in Nat /\ MaxIndex >= Cardinality(Items)
  /\ MAX_FRAMES_IN_FLIGHT \in Nat \ {0}
  /\ MaxAssets \in Nat
  /\ Null \notin Handles

VARIABLES
  gen_id, is_loaded, descriptor_set_idx,   \* of each asset item
  list,                     \* texture_list
  free_list,                \* texture_free_list
  free_indices, next_index, \* descriptor_index_allocator
  bindless,                 \* the image each descriptor of the bindless set names
  thread_input,             \* [Workers -> the handle whose upload the worker prepares]
  recorded,                 \* workers past the recording
  cmd_queue, wait_list,     \* uploads to submit; submitted, with a fence to watch
  gpu,                      \* submissions not signalled yet, oldest first
  held,                     \* handles the callers have and have not destroyed
  draws,                    \* handles the frame being built draws
  deletion_queues, deletion_queue_idx,
  swapchain,                \* swapchain_resources != 0
  shutting_down,
  main, cursor,             \* where the frame loop is; the wait list entry it looks at
  created                   \* assets created so far

items   == <<gen_id, is_loaded, descriptor_set_idx, list, free_list, created>>
indices == <<free_indices, next_index, bindless>>
workers == <<thread_input, recorded>>
uploads == <<cmd_queue, wait_list, gpu>>
callers == <<held, draws>>
deletes == <<deletion_queues, deletion_queue_idx>>
frame   == <<swapchain, shutting_down, main, cursor>>
vars    == <<items, indices, workers, uploads, callers, deletes, frame>>

-----------------------------------------------------------------------------
Handle(i) == [item |-> i, gen |-> gen_id[i]]

\* asset_manager_item_get: only the generation tells a stale handle.
Valid(h) == gen_id[h.item] = h.gen

Upload(h) == [kind |-> "upload", uses |-> {h}]
Frame(hs) == [kind |-> "frame", uses |-> hs]

\* vkGetFenceStatus of an upload.
Signalled(h) == Upload(h) \notin ToSet(gpu)

FramesPending == Cardinality({n \in DOMAIN gpu : gpu[n].kind = "frame"})

Init ==
  /\ gen_id = [i \in Items |-> 0]
  /\ is_loaded = [i \in Items |-> FALSE]
  /\ descriptor_set_idx = [i \in Items |-> 0]
  /\ list = {} /\ free_list = <<>>
  /\ free_indices = <<>> /\ next_index = 0
  /\ bindless = [n \in Indices |-> Null]
  /\ thread_input = [w \in Workers |-> Null] /\ recorded = {}
  /\ cmd_queue = <<>> /\ wait_list = <<>> /\ gpu = <<>>
  /\ held = {} /\ draws = {}
  /\ deletion_queues = [q \in Queues |-> <<>>] /\ deletion_queue_idx = 0
  /\ swapchain = TRUE /\ shutting_down = FALSE
  /\ main = "top" /\ cursor = 1 /\ created = 0

-----------------------------------------------------------------------------
(* Workers: one upload each, from the handle to the queue. *)

\* asset_manager_item_create: an item of the free list, which steps on to its next
\* generation, or a new one of the arena.
NewItem(i) ==
  IF free_list # <<>>
  THEN /\ i = Head(free_list) /\ free_list' = Tail(free_list)
       /\ gen_id' = [gen_id EXCEPT ![i] = @ + 1]
  ELSE i \notin list /\ UNCHANGED <<free_list, gen_id>>

CreateItem(w) ==
  /\ thread_input[w] = Null /\ main \in FramePcs
  /\ created < MaxAssets /\ created' = created + 1
  /\ \E i \in Items :
       /\ NewItem(i)
       /\ list' = list \cup {i}
       /\ thread_input' = [thread_input EXCEPT ![w] = [item |-> i, gen |-> gen_id'[i]]]
  /\ UNCHANGED <<is_loaded, descriptor_set_idx, indices, recorded, uploads, callers,
                 deletes, frame>>

\* descriptor_index_allocate: the index returned last, or a new one.
IndexAllocate(i) ==
  IF free_indices # <<>>
  THEN /\ descriptor_set_idx' = [descriptor_set_idx EXCEPT ![i] = Last(free_indices)]
       /\ free_indices' = Front(free_indices)
       /\ UNCHANGED next_index
  ELSE /\ next_index < MaxIndex
       /\ descriptor_set_idx' = [descriptor_set_idx EXCEPT ![i] = next_index]
       /\ next_index' = next_index + 1
       /\ UNCHANGED free_indices

\* The texture gets its descriptor index, and the copy to its image is recorded.
Record(w) ==
  /\ thread_input[w] # Null /\ w \notin recorded
  /\ IndexAllocate(thread_input[w].item)
  /\ recorded' = recorded \cup {w}
  /\ UNCHANGED <<gen_id, is_loaded, list, free_list, created, bindless, thread_input, uploads,
                 callers, deletes, frame>>

\* Mutant: the worker stays past its recording.
MutantEnqueue(w) ==
  /\ w \in recorded
  /\ cmd_queue' = Append(cmd_queue, thread_input[w])
  /\ held' = held \cup {thread_input[w]}
  /\ thread_input' = [thread_input EXCEPT ![w] = Null]
  /\ UNCHANGED <<items, indices, recorded, wait_list, gpu, draws, deletes, frame>>

\* thread_cmd_buffer_end, after which the caller has the handle.
Enqueue(w) ==
  /\ w \in recorded
  /\ cmd_queue' = Append(cmd_queue, thread_input[w])
  /\ held' = held \cup {thread_input[w]}
  /\ thread_input' = [thread_input EXCEPT ![w] = Null]
  /\ recorded' = recorded \ {w}
  /\ UNCHANGED <<items, indices, wait_list, gpu, draws, deletes, frame>>

\* The GPU finishes the oldest submission, and signals its fence or semaphore.
GpuStep ==
  /\ gpu # <<>>
  /\ gpu' = Tail(gpu)
  /\ UNCHANGED <<items, indices, workers, cmd_queue, wait_list, callers, deletes, frame>>

-----------------------------------------------------------------------------
(* The frame loop: the callers' part of a frame. *)

Goto(from, to) == main = from /\ main' = to

\* ctx->running is looked at: another frame.
BeginFrame ==
  /\ Goto("top", "update")
  /\ UNCHANGED <<items, indices, workers, uploads, callers, deletes, swapchain, shutting_down, cursor>>

\* A caller draws an asset it has, once is_resource_loaded says so.
Draw(h) ==
  /\ main = "update" /\ h \in held
  /\ Valid(h) /\ is_loaded[h.item]
  /\ draws' = draws \cup {h}
  /\ UNCHANGED <<items, indices, workers, uploads, held, deletes, frame>>

\* handle_destroy_deferred, at most once for a handle.
Destroy(h) ==
  /\ main = "update" /\ h \in held
  /\ held' = held \ {h}
  /\ deletion_queues' = [deletion_queues EXCEPT ![deletion_queue_idx] = Append(@, h)]
  /\ UNCHANGED <<items, indices, workers, uploads, draws, deletion_queue_idx, frame>>

RenderFrame ==
  /\ Goto("update", "submit")
  /\ UNCHANGED <<items, indices, workers, uploads, callers, deletes, swapchain, shutting_down, cursor>>

-----------------------------------------------------------------------------
(* render_frame. *)

\* asset_manager_execute_cmds: one dequeue and submission, or the empty queue.
SubmitNext ==
  /\ main = "submit" /\ cmd_queue # <<>>
  /\ gpu' = Append(gpu, Upload(Head(cmd_queue)))
  /\ wait_list' = Append(wait_list, Head(cmd_queue))
  /\ cmd_queue' = Tail(cmd_queue)
  /\ UNCHANGED <<items, indices, workers, callers, deletes, frame>>

SubmitEnd ==
  /\ cmd_queue = <<>>
  /\ Goto("submit", IF shutting_down THEN "idle" ELSE "check")
  /\ UNCHANGED <<items, indices, workers, uploads, callers, deletes, swapchain, shutting_down, cursor>>

\* Mutant: the generation is not looked at.
MutantDoneLoading(h) ==
  /\ is_loaded' = [is_loaded EXCEPT ![h.item] = TRUE]
  /\ bindless' = [bindless EXCEPT ![descriptor_set_idx[h.item]] = Handle(h.item)]

\* handle_done_loading: a handle whose item was freed meanwhile is passed over.
DoneLoading(h) ==
  IF Valid(h)
  THEN /\ is_loaded' = [is_loaded EXCEPT ![h.item] = TRUE]
       /\ bindless' = [bindless EXCEPT ![descriptor_set_idx[h.item]] = Handle(h.item)]
  ELSE UNCHANGED <<is_loaded, bindless>>

\* Mutant: the entry stays in the list.
MutantCheckSignalled ==
  /\ main = "check" /\ cursor <= Len(wait_list) /\ Signalled(wait_list[cursor])
  /\ DoneLoading(wait_list[cursor])
  /\ UNCHANGED <<gen_id, descriptor_set_idx, list, free_list, created, free_indices, next_index,
                 workers, uploads, callers, deletes, frame>>

\* asset_manager_cmd_done_check, entry by entry.
CheckSignalled ==
  /\ main = "check" /\ cursor <= Len(wait_list) /\ Signalled(wait_list[cursor])
  /\ DoneLoading(wait_list[cursor])
  /\ wait_list' = RemoveAt(wait_list, cursor)
  /\ UNCHANGED <<gen_id, descriptor_set_idx, list, free_list, created, free_indices, next_index,
                 workers, cmd_queue, gpu, callers, deletes, frame>>

CheckPending ==
  /\ main = "check" /\ cursor <= Len(wait_list) /\ ~ Signalled(wait_list[cursor])
  /\ cursor' = cursor + 1
  /\ UNCHANGED <<items, indices, workers, uploads, callers, deletes, swapchain, shutting_down, main>>

CheckEnd ==
  /\ cursor > Len(wait_list)
  /\ Goto("check", IF shutting_down THEN "drain" ELSE "wait")
  /\ cursor' = 1
  /\ UNCHANGED <<items, indices, workers, uploads, callers, deletes, swapchain, shutting_down>>

\* Mutant: off by one, frame count - MAX_FRAMES_IN_FLIGHT.
MutantFrameWaitValueReached == FramesPending <= MAX_FRAMES_IN_FLIGHT

\* vkWaitSemaphores for frame count - MAX_FRAMES_IN_FLIGHT + 1: fewer than
\* MAX_FRAMES_IN_FLIGHT frames are left.
FrameWaitValueReached == FramesPending < MAX_FRAMES_IN_FLIGHT

WaitFrame ==
  /\ FrameWaitValueReached
  /\ Goto("wait", "rotate")
  /\ UNCHANGED <<items, indices, workers, uploads, callers, deletes, swapchain, shutting_down, cursor>>

\* Mutant: the descriptor index is not given back.
MutantHandleFree(h) ==
  IF Valid(h)
  THEN /\ gen_id' = [gen_id EXCEPT ![h.item] = @ + 1]
       /\ is_loaded' = [is_loaded EXCEPT ![h.item] = FALSE]
       /\ list' = list \ {h.item}
       /\ free_list' = Append(free_list, h.item)
       /\ bindless' = [bindless EXCEPT ![descriptor_set_idx[h.item]] = Null]
       /\ UNCHANGED free_indices
  ELSE UNCHANGED <<gen_id, is_loaded, list, free_list, bindless, free_indices>>

\* asset_manager_texture_free: the descriptor goes back to the null texture, its index to
\* the allocator, the item to the free list, one generation on.
HandleFree(h) ==
  LET i == h.item
  IN IF Valid(h)
     THEN /\ gen_id' = [gen_id EXCEPT ![i] = @ + 1]
          /\ is_loaded' = [is_loaded EXCEPT ![i] = FALSE]
          /\ list' = list \ {i}
          /\ free_list' = Append(free_list, i)
          /\ bindless' = IF shutting_down THEN bindless
                         ELSE [bindless EXCEPT ![descriptor_set_idx[i]] = Null]
          /\ free_indices' = Append(free_indices, descriptor_set_idx[i])
     ELSE UNCHANGED <<gen_id, is_loaded, list, free_list, created, bindless, free_indices>>

\* Mutant: the ring is one queue short.
MutantNextQueue == (deletion_queue_idx + 1) % MAX_FRAMES_IN_FLIGHT

\* deletion_queue_empty_next: the queue that was filled MAX_FRAMES_IN_FLIGHT rotations ago.
NextQueue == (deletion_queue_idx + 1) % (MAX_FRAMES_IN_FLIGHT + 1)

DeleteFrom(q) ==
  /\ deletion_queues[q] # <<>>
  /\ HandleFree(Head(deletion_queues[q]))
  /\ deletion_queues' = [deletion_queues EXCEPT ![q] = Tail(@)]
  /\ UNCHANGED <<descriptor_set_idx, created, next_index, workers, uploads, callers,
                 deletion_queue_idx, frame>>

DeleteNext == main = "rotate" /\ DeleteFrom(NextQueue)

RotateEnd ==
  /\ deletion_queues[NextQueue] = <<>>
  /\ deletion_queue_idx' = NextQueue
  /\ Goto("rotate", "acquire")
  /\ UNCHANGED <<items, indices, workers, uploads, callers, deletion_queues, swapchain,
                 shutting_down, cursor>>

\* render_frame returns; the next frame starts from an empty list of draws (new_frame).
EndFrame(from) ==
  /\ Goto(from, "top")
  /\ draws' = {}
  /\ UNCHANGED <<items, indices, workers, cmd_queue, wait_list, held, deletes, shutting_down, cursor>>

\* No swapchain, as while the window is minimised: it is created again if the window has
\* an extent, and nothing is drawn.
SwapchainAbsent ==
  /\ ~ swapchain /\ swapchain' \in BOOLEAN
  /\ EndFrame("acquire")
  /\ UNCHANGED gpu

\* swapchain_recreate, before the frame is drawn (resized, or the image is out of date) or
\* after it was presented.  vkDeviceWaitIdle comes first.
SwapchainRecreate ==
  /\ swapchain /\ swapchain' \in BOOLEAN
  /\ gpu = <<>>
  /\ EndFrame("acquire") \/ EndFrame("presented")
  /\ UNCHANGED gpu

SubmitFrame ==
  /\ swapchain
  /\ Goto("acquire", "presented")
  /\ gpu' = Append(gpu, Frame(draws))
  /\ UNCHANGED <<items, indices, workers, cmd_queue, wait_list, callers, deletes, swapchain,
                 shutting_down, cursor>>

Present ==
  /\ EndFrame("presented")
  /\ UNCHANGED <<gpu, swapchain>>

-----------------------------------------------------------------------------
(* Shutdown. *)

\* The frame loop has ended and the pool has nothing left to do.
Quit ==
  /\ \A w \in Workers : thread_input[w] = Null
  /\ Goto("top", "release")
  /\ UNCHANGED <<items, indices, workers, uploads, callers, deletes, swapchain, shutting_down, cursor>>

\* The GPU is idle, city_release destroys what the callers hold, and render_ctx_destroy
\* cleans up the swapchain without a look whether there is one: without one the program
\* ends there, with one it goes on to asset_manager_destroy.
Release ==
  /\ gpu = <<>>
  /\ Goto("release", IF swapchain THEN "drain" ELSE "crashed")
  /\ deletion_queues' = [deletion_queues EXCEPT ![deletion_queue_idx] = @ \o SetToSeq(held)]
  /\ held' = {} /\ shutting_down' = swapchain
  /\ UNCHANGED <<items, indices, workers, uploads, draws, deletion_queue_idx, swapchain, cursor>>

\* Mutant: the wait list is forgotten.
MutantHasPendingWork == cmd_queue # <<>> \/ \E w \in Workers : thread_input[w] # Null

\* asset_manager_has_pending_work
HasPendingWork ==
  wait_list # <<>> \/ cmd_queue # <<>> \/ \E w \in Workers : thread_input[w] # Null

\* asset_manager_cmd_list_destroy: submit, wait for the device, check, and look again.
Drain ==
  /\ Goto("drain", IF HasPendingWork THEN "submit" ELSE "empty_all")
  /\ UNCHANGED <<items, indices, workers, uploads, callers, deletes, swapchain, shutting_down, cursor>>

DeviceWaitIdle ==
  /\ gpu = <<>>
  /\ Goto("idle", "check")
  /\ UNCHANGED <<items, indices, workers, uploads, callers, deletes, swapchain, shutting_down, cursor>>

\* deletion_queue_empty_all
QueuesToEmpty == {q \in Queues : deletion_queues[q] # <<>>}

EmptyAll ==
  /\ main = "empty_all"
  /\ \E q \in QueuesToEmpty : (\A p \in QueuesToEmpty : q <= p) /\ DeleteFrom(q)

\* _asset_manager_live_resources_destroy: the indices go back, the resources with them.
LiveResourcesDestroy ==
  /\ QueuesToEmpty = {}
  /\ Goto("empty_all", "destroyed")
  /\ free_indices' = free_indices
       \o SetToSeq({descriptor_set_idx[i] : i \in list})
  /\ list' = {}
  /\ UNCHANGED <<gen_id, is_loaded, descriptor_set_idx, free_list, created, next_index, bindless, workers,
                 uploads, callers, deletes, swapchain, shutting_down, cursor>>

Ended == main \in {"destroyed", "crashed"}

Terminated == Ended /\ UNCHANGED vars

-----------------------------------------------------------------------------
WorkerStep(w) == CreateItem(w) \/ Record(w) \/ Enqueue(w)

FrameStep ==
  \/ BeginFrame \/ RenderFrame \/ SubmitNext \/ SubmitEnd \/ CheckSignalled \/ CheckPending \/ CheckEnd
  \/ WaitFrame \/ DeleteNext \/ RotateEnd
  \/ SwapchainAbsent \/ SwapchainRecreate \/ SubmitFrame \/ Present

ShutdownStep ==
  Release \/ Drain \/ DeviceWaitIdle \/ EmptyAll \/ LiveResourcesDestroy

Next ==
  \/ \E w \in Workers : WorkerStep(w)
  \/ \E h \in held : Draw(h) \/ Destroy(h)
  \/ GpuStep \/ FrameStep \/ Quit \/ ShutdownStep \/ Terminated

Spec == Init /\ [][Next]_vars

\* The loop and the workers are scheduled and the GPU executes what it is given; nothing
\* is asked of the callers.
FairSpec ==
  /\ Spec
  /\ \A w \in Workers : WF_vars(Record(w) \/ Enqueue(w))
  /\ WF_vars(GpuStep) /\ WF_vars(FrameStep) /\ WF_vars(ShutdownStep)

-----------------------------------------------------------------------------
(* Properties *)

\* Every variable has its type: a worker past the recording has an asset, the wait list's
\* cursor stays within it, and a descriptor names a texture or the null texture.
TypeOK ==
  /\ gen_id \in [Items -> Nat] /\ created \in 0 .. MaxAssets
  /\ is_loaded \in [Items -> BOOLEAN]
  /\ descriptor_set_idx \in [Items -> Indices]
  /\ list \subseteq Items
  /\ free_list \in Seq(Items)
  /\ free_indices \in Seq(Indices) /\ next_index \in 0 .. MaxIndex
  /\ bindless \in [Indices -> Handles \cup {Null}]
  /\ thread_input \in [Workers -> Handles \cup {Null}]
  /\ recorded \subseteq {w \in Workers : thread_input[w] # Null}
  /\ cmd_queue \in Seq(Handles) /\ wait_list \in Seq(Handles)
  /\ gpu \in Seq([kind : {"upload", "frame"}, uses : SUBSET Handles])
  /\ held \subseteq Handles /\ draws \subseteq Handles
  /\ deletion_queues \in [Queues -> Seq(Handles)] /\ deletion_queue_idx \in Queues
  /\ swapchain \in BOOLEAN /\ shutting_down \in BOOLEAN
  /\ main \in FramePcs \cup ShutdownPcs /\ cursor \in 1 .. Len(wait_list) + 1

Live(h) == h.item \in list /\ Valid(h)

FramesSubmitted == {gpu[n].uses : n \in {m \in DOMAIN gpu : gpu[m].kind = "frame"}}
UploadsSubmitted == {gpu[n].uses : n \in {m \in DOMAIN gpu : gpu[m].kind = "upload"}}

\* No asset is freed while a frame that draws it is being built or on the GPU, or while an
\* upload to it is being recorded or waits to be submitted: the wait on the timeline
\* semaphore, the length of the ring and the early returns of render_frame fit together.
FramesUseLiveAssets ==
  /\ \A h \in draws \cup UNION FramesSubmitted : Live(h)
  /\ \A h \in ToSet(cmd_queue) \cup {thread_input[w] : w \in recorded} : Live(h)

\* A frame on the GPU finds in each descriptor it samples the texture that was drawn: the
\* index is not given to another texture, nor the descriptor rewritten, before it is done.
FramesSeeTheirTextures ==
  \A h \in UNION FramesSubmitted :
     bindless[descriptor_set_idx[h.item]] = h

\* An asset that is_resource_loaded reports has its contents: a fence that belongs to an
\* earlier asset in the same item does not mark the new one.
LoadedMeansUploaded ==
  \A i \in list : is_loaded[i] =>
     /\ {Handle(i)} \notin UploadsSubmitted
     /\ Handle(i) \notin ToSet(cmd_queue) \cup ToSet(wait_list)
     /\ Handle(i) \notin {thread_input[w] : w \in Workers}

\* Textures that have an index; one that is being created gets it when it is recorded.
Indexed == {i \in list : \A w \in Workers \ recorded : thread_input[w] # Handle(i)}

\* The descriptor indices handed out so far are each either free, once, or the index of one
\* live texture: none leaks over creation, deferred deletion and shutdown, none is shared.
IndicesPartition ==
  /\ \A i, j \in Indexed : descriptor_set_idx[i] = descriptor_set_idx[j] => i = j
  /\ \A m, n \in DOMAIN free_indices : free_indices[m] = free_indices[n] => m = n
  /\ ToSet(free_indices) \cap {descriptor_set_idx[i] : i \in Indexed} = {}
  /\ ToSet(free_indices) \cup {descriptor_set_idx[i] : i \in Indexed} = 0 .. next_index - 1

\* Nothing is recorded, queued or executing, and no deletion is pending.
Drained ==
  /\ cmd_queue = <<>> /\ wait_list = <<>> /\ gpu = <<>>
  /\ \A q \in Queues : deletion_queues[q] = <<>>
  /\ \A w \in Workers : thread_input[w] = Null

\* When the command pools and the allocator go, whatever uploads and deletions were in
\* progress when the loop ended have been taken to their end.  A loop that ends without a
\* swapchain does not get that far (ShutdownAlwaysDrained).
ShutdownDrained == main = "destroyed" => Drained

\* vulkan_if.cpp:193-194: "Asset manager must be destroyed first - it flushes pending GPU
\* commands".  The program does not end with uploads or deletions pending.
ShutdownAlwaysDrained == Ended => Drained

\* The frame loop comes round again and again, or the program ends: neither a wait of a
\* frame on earlier frames, nor one for an idle device, nor the drain at shutdown lasts for
\* ever.  Each round empties one deletion queue, and submits and checks every upload.
FrameLoopAdvances == []<>(main = "rotate" \/ Ended)

\* vulkan_if.cpp:272: "delete everyting in the deletion queue as all the command using its
\* ressource have finished execution at this point".  No upload on the GPU writes to an
\* asset that was freed.
SubmittedUploadsUseLiveAssets == \A h \in UNION UploadsSubmitted : Live(h)
=============================================================================
