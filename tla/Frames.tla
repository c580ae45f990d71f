------------------------------- MODULE Frames -------------------------------
(***************************************************************************)
(* render/vulkan: submitting and presenting frames.  The host records into *)
(* the buffers of one of MaxFramesInFlight slots (module FrameCommands),   *)
(* the GPU runs the submissions of the slots, which may overlap, and the   *)
(* presentation engine reads the images of the swapchain.                  *)
(***************************************************************************)
EXTENDS Naturals, Sequences

CONSTANTS MaxFramesInFlight,
          Capabilities,        \* minImageCount and maxImageCount of the surface
          ExtraImages,         \* images a driver may add to those asked for
          Recordings,          \* what a frame may record
          Unordered            \* the resources that frames in flight share

VARIABLES msaa, current_frame,
          swapchain,    \* [images, ids]: its images, and its object id images; or Absent
          resized,      \* io framebuffer_resized
          recreating,   \* the frame loop is in swapchain_recreate
          pending,      \* submissions not finished, the oldest first
          showing,      \* images the presentation engine still reads
          available,    \* per slot, whether the semaphore awaits its submission
          clash         \* the host touched what a submission uses

frameVars == <<msaa, current_frame, swapchain, resized, recreating, pending, showing,
               available, clash>>

Absent == [images |-> 0, ids |-> 0]

-----------------------------------------------------------------------------
\* swapchain_create: one image more than the surface's least, if it may have as
\* many, and what the driver adds; the object id images number what was asked for.
RequestedImages ==
  LET least == Capabilities.minImageCount  most == Capabilities.maxImageCount
  IN IF most > 0 /\ least + 1 > most THEN most ELSE least + 1

Swapchains ==
  {[images |-> RequestedImages + extra, ids |-> RequestedImages] : extra \in 0 .. ExtraImages}

swapchain_create == swapchain' \in Swapchains /\ showing' = {}

\* A window of no size has no swapchain.
CreateIfVisible == swapchain_create \/ (swapchain' = Absent /\ showing' = {})

FramesInit ==
  /\ msaa \in BOOLEAN
  /\ current_frame = 0
  /\ swapchain \in Swapchains
  /\ resized = FALSE /\ recreating = FALSE
  /\ pending = <<>> /\ showing = {}
  /\ available = [f \in 0 .. MaxFramesInFlight - 1 |-> FALSE]
  /\ clash = FALSE

\* The window system, in the main thread's event loop.
framebuffer_resized ==
  /\ ~recreating /\ ~resized /\ resized' = TRUE
  /\ UNCHANGED <<msaa, current_frame, swapchain, recreating, pending, showing, available, clash>>

\* Mutant: the wait lets one frame more into flight.
MutantMayProceed(inflight) == inflight <= MaxFramesInFlight

\* The wait for the timeline semaphore to reach count - MAX_FRAMES_IN_FLIGHT + 1.
MayProceed(inflight) == inflight < MaxFramesInFlight

\* The host writes the slot's mapped buffers (mapped_buffers_update), and what it
\* records and copies, while a submission may still use them.
HostClash == \E k \in DOMAIN pending : pending[k].list.slot = current_frame

\* render_frame up to the acquisition: nothing is drawn without a swapchain or
\* with an outdated one.
FrameWithoutSwapchain ==
  /\ swapchain = Absent
  /\ CreateIfVisible
  /\ UNCHANGED <<current_frame, resized, recreating, pending, available>>

FrameOutdated ==
  /\ swapchain # Absent
  /\ resized' = FALSE                \* resized, or the acquisition says out of date
  /\ recreating' = TRUE
  /\ UNCHANGED <<current_frame, swapchain, pending, showing, available>>

\* The engine hands out an image it may still be showing.  The submission waits
\* for it; a presentation may find the swapchain outdated or suboptimal.
FrameSubmitted ==
  /\ swapchain # Absent /\ ~resized
  /\ \E recording \in Recordings :
       /\ recording.slot = current_frame /\ recording.samples = msaa
       /\ recording.image \in 1 .. swapchain.images
       /\ pending' = Append(pending, [list |-> recording, running |-> FALSE])
  /\ available' = [available EXCEPT ![current_frame] = TRUE]
  /\ current_frame' = (current_frame + 1) % MaxFramesInFlight
  /\ recreating' \in BOOLEAN
  /\ UNCHANGED <<swapchain, resized, showing>>

render_frame ==
  /\ ~recreating /\ MayProceed(Len(pending))
  /\ FrameWithoutSwapchain \/ FrameOutdated \/ FrameSubmitted
  /\ clash' = (clash \/ HostClash \/ (pending' # pending /\ available[current_frame]))
  /\ UNCHANGED msaa

\* vkDeviceWaitIdle, then the old images go and new ones come.
DeviceIdle == pending = <<>>

swapchain_recreate ==
  /\ recreating /\ DeviceIdle
  /\ CreateIfVisible
  /\ recreating' = FALSE /\ resized' = FALSE
  /\ UNCHANGED <<msaa, current_frame, pending, available, clash>>

\* Mutant: the submission does not wait for its image.
MutantImageAvailable(k) == TRUE

\* The wait of the submission: its image is no longer shown or drawn to.
ImageAvailable(k) ==
  /\ pending[k].list.image \notin showing
  /\ \A j \in 1 .. k - 1 : pending[j].list.image # pending[k].list.image

\* Submissions start in order, and signal the timeline in order.
Start(k) ==
  /\ ~pending[k].running /\ \A j \in 1 .. k - 1 : pending[j].running
  /\ ImageAvailable(k)
  /\ pending' = [pending EXCEPT ![k].running = TRUE]
  /\ available' = [available EXCEPT ![pending[k].list.slot] = FALSE]
  /\ UNCHANGED <<msaa, current_frame, swapchain, resized, recreating, showing, clash>>

Finish ==
  /\ pending # <<>> /\ Head(pending).running
  /\ pending' = Tail(pending)
  /\ showing' = showing \cup {Head(pending).list.image}
  /\ UNCHANGED <<msaa, current_frame, swapchain, resized, recreating, available, clash>>

Shown(i) ==
  /\ i \in showing /\ showing' = showing \ {i}
  /\ UNCHANGED <<msaa, current_frame, swapchain, resized, recreating, pending, available, clash>>

FramesNext ==
  \/ framebuffer_resized \/ render_frame \/ swapchain_recreate
  \/ Finish
  \/ \E k \in DOMAIN pending : Start(k)
  \/ \E i \in showing : Shown(i)

FramesSpec == FramesInit /\ [][FramesNext]_frameVars

\* What the frame loop needs of what it submits: a recording is sound by itself,
\* and two of different slots and images share only what Unordered names.
RecordingsStandAlone ==
  \A r, q \in Recordings :
    /\ r.sound
    /\ r.slot # q.slot /\ r.image # q.image => r.changed \cap q.touched \subseteq Unordered

-----------------------------------------------------------------------------
\* A frame's accesses find the layouts and the data they need, each draw has the
\* state its pipeline leaves open, the host and two submissions at work never touch
\* the same buffer or image, and a swapchain's images outlive the submissions that
\* draw to them, however many the driver made.  The object id images are the exception:
\* the code makes none for an image beyond those asked for, and a recording takes for
\* granted that its image has one.
FramesSound ==
  /\ ~clash
  /\ \A k \in DOMAIN pending :
       pending[k].list.image \in 1 .. swapchain.images /\ pending[k].list.sound
  /\ \A j, k \in {m \in DOMAIN pending : pending[m].running} :
       j # k => pending[j].list.changed \cap pending[k].list.touched \subseteq Unordered
  /\ \A k \in DOMAIN pending : pending[k].running => pending[k].list.image \notin showing
=============================================================================
