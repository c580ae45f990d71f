------------------------------ MODULE GpuUploads ------------------------------
(***************************************************************************)
(* What the commands of an upload do to an image or a buffer               *)
(* (render/vulkan/asset_manager.cpp, vulkan_if.cpp): a picture is copied   *)
(* to level 0 and each further level is blitted from the one above, a KTX  *)
(* file brings all its levels; and the instance buffer of a frame, which   *)
(* is replaced when it is too small.  Assets models when an upload is      *)
(* submitted and when a resource is freed; here the commands run one after *)
(* the other, as the queue runs them.                                      *)
(*                                                                         *)
(* A command is a record; the GPU refuses nothing, so one that finds a     *)
(* level in another layout than it names is kept in misused.               *)
(***************************************************************************)
EXTENDS Integers, Sequences, FiniteSets, SequencesExt, FiniteSetsExt

CONSTANTS Pictures,   \* [kind, width, height, levels]: "ktx2" files say how many levels they have
          Requests,   \* bytes of instances a frame may need
          FrameSlots, \* MAX_FRAMES_IN_FLIGHT: one instance buffer each
          MaxFrames   \* bound: frames

VARIABLES picture,  \* what is uploaded
          commands, \* the commands recorded and not run yet
          levels,   \* [layout, from, size] of each mip level of the image
          misused,  \* commands that found the image in another state
          texture,  \* what the handle has: [image, staging]
          slot,     \* current_frame
          instances, \* model_3D_instance_buffer: [id, size] of each slot
          retired,  \* ids pushed to the deletion queue, in order
          needed,   \* the bytes the slot's last frame needed
          frames    \* frames so far; also makes the ids

uploadVars == <<picture, commands, levels, misused, texture, slot, instances, retired, needed,
                frames>>

NoBuffer == [id |-> 0, size |-> 0]
Untouched == [layout |-> "undefined", from |-> "none", size |-> <<0, 0>>]

\* Levels until both sides are 1: floor(log2(max)) + 1.
FullLevels(p) ==
  CHOOSE n \in 1 .. 32 : 2 ^ (n - 1) <= Max({p.width, p.height}) /\ Max({p.width, p.height}) < 2 ^ n

\* A picture that stb decodes has all levels, the null texture one.
MipLevels(p) == IF p.kind = "ktx2" THEN p.levels
                ELSE IF p.kind = "null" THEN 1 ELSE FullLevels(p)

UploadsInit ==
  /\ picture \in Pictures
  /\ commands = <<>> /\ misused = {}
  /\ levels = [l \in 0 .. MipLevels(picture) - 1 |-> Untouched]
  /\ texture = [image |-> FALSE, staging |-> 0]
  /\ slot = 0 /\ instances = [s \in 0 .. FrameSlots - 1 |-> NoBuffer]
  /\ retired = <<>> /\ frames = 0
  /\ needed = [s \in 0 .. FrameSlots - 1 |-> 0]

-----------------------------------------------------------------------------
Barrier(ls, before, after) == [op |-> "barrier", at |-> ls, old |-> before, new |-> after]
Copy(l, size) == [op |-> "copy", to |-> l, size |-> size]
Blit(l, size) == [op |-> "blit", to |-> l, size |-> size]

Halved(n) == Max({n \div 2, 1})

\* The extents the blits go down through, and the ones a KTX file's regions name.
RECURSIVE HalvedTimes(_, _)
HalvedTimes(n, l) == IF l = 0 THEN n ELSE Halved(HalvedTimes(n, l - 1))
Shifted(n, l) == Max({n \div 2 ^ l, 1})

AllLevels == 0 .. MipLevels(picture) - 1

\* texture_ktx_cmd_record
KtxCommands ==
  <<Barrier(AllLevels, "undefined", "transfer_dst")>>
    \o [i \in 1 .. picture.levels |->
          Copy(i - 1, <<Shifted(picture.width, i - 1), Shifted(picture.height, i - 1)>>)]
    \o <<Barrier(AllLevels, "transfer_dst", "shader_read")>>

\* Mutant: the level just written is the one made readable, not the one above it.
MutantBlitLevel(l) ==
  <<Barrier({l}, "transfer_dst", "transfer_src"),
    Blit(l, <<HalvedTimes(picture.width, l), HalvedTimes(picture.height, l)>>),
    Barrier({l}, "transfer_src", "shader_read")>>

\* The level above becomes the source of the blit, and is done after it.
BlitLevel(l) ==
  <<Barrier({l - 1}, "transfer_dst", "transfer_src"),
    Blit(l, <<HalvedTimes(picture.width, l), HalvedTimes(picture.height, l)>>),
    Barrier({l - 1}, "transfer_src", "shader_read")>>

\* texture_upload_with_blitting
BlitCommands ==
  LET last == MipLevels(picture) - 1
  IN  <<Barrier(AllLevels, "undefined", "transfer_dst"), Copy(0, <<picture.width, picture.height>>)>>
        \o FlattenSeq([l \in 1 .. last |-> BlitLevel(l)])
        \o <<Barrier({last}, "transfer_dst", "shader_read")>>

\* texture_gpu_upload_cmd_recording, and null_texture_create for the image that is
\* never written.  A picture that cannot be decoded leaves the texture without one.
texture_gpu_upload_cmd_recording ==
  /\ commands = <<>> /\ ~texture.image /\ picture.kind # "broken"
  /\ commands' = CASE picture.kind = "ktx2" -> KtxCommands
                   [] picture.kind = "stb" -> BlitCommands
                   [] picture.kind = "null" -> <<Barrier({0}, "undefined", "shader_read")>>
  /\ texture' = [image |-> TRUE, staging |-> IF picture.kind = "null" THEN 0 ELSE 1]
  /\ UNCHANGED <<picture, levels, misused, slot, instances, retired, needed, frames>>

\* The first command of those left runs.
GpuRuns ==
  /\ commands # <<>>
  /\ commands' = Tail(commands)
  /\ LET c == Head(commands)
     IN  CASE c.op = "barrier" ->
                /\ levels' = [l \in DOMAIN levels |-> IF l \in c.at THEN [levels[l] EXCEPT !.layout = c.new]
                                                      ELSE levels[l]]
                /\ misused' = misused \cup {l \in c.at : levels[l].layout # c.old}
           [] c.op = "copy" ->
                /\ levels' = [levels EXCEPT ![c.to].from = "file", ![c.to].size = c.size]
                /\ misused' = misused \cup {l \in {c.to} : levels[l].layout # "transfer_dst"}
           [] c.op = "blit" ->
                /\ levels' = [levels EXCEPT ![c.to].from = IF levels[c.to - 1].from = "none" THEN "none" ELSE "above",
                                            ![c.to].size = c.size]
                /\ misused' = misused \cup {l \in {c.to} : levels[l].layout # "transfer_dst"}
                                      \cup {l \in {c.to - 1} : levels[l].layout # "transfer_src"}
  /\ UNCHANGED <<picture, texture, slot, instances, retired, needed, frames>>

-----------------------------------------------------------------------------
\* buffer_alloc_create_or_resize, for the bytes of this frame's instances: a handle
\* is made when there is none; one that is too small is retired and replaced, which
\* happens at once to the one just made, unless nothing is needed.
buffer_alloc_create_or_resize(bytes) ==
  LET old == IF instances[slot] = NoBuffer THEN [id |-> 2 * frames + 1, size |-> 0] ELSE instances[slot]
      grows == bytes > old.size
  IN  /\ frames < MaxFrames
      /\ instances' = [instances EXCEPT ![slot] = IF grows THEN [id |-> 2 * frames + 2, size |-> bytes]
                                                  ELSE old]
      /\ retired' = IF grows THEN Append(retired, old.id) ELSE retired
      /\ needed' = [needed EXCEPT ![slot] = bytes]
      /\ slot' = (slot + 1) % FrameSlots
      /\ frames' = frames + 1
      /\ UNCHANGED <<picture, commands, levels, misused, texture>>

UploadsNext ==
  \/ texture_gpu_upload_cmd_recording
  \/ GpuRuns
  \/ \E bytes \in Requests : buffer_alloc_create_or_resize(bytes)

-----------------------------------------------------------------------------
\* However many levels a picture has, no command finds a level in a layout it does
\* not expect, and in the end every level may be sampled and, but for the null
\* texture, holds the picture at the extent the image has there.
LevelsReadable ==
  /\ misused = {}
  /\ texture.image /\ commands = <<>> =>
       \A l \in DOMAIN levels :
         /\ levels[l].layout = "shader_read"
         /\ picture.kind # "null" =>
              /\ levels[l].from # "none"
              /\ levels[l].size = <<Shifted(picture.width, l), Shifted(picture.height, l)>>

\* A frame's instances fit its buffer, which no other slot has and which is not on
\* its way to deletion; and no buffer is deleted twice.
InstancesFit ==
  LET used == {s \in DOMAIN instances : instances[s] # NoBuffer}
  IN  /\ IsInjective(retired)
      /\ \A s \in used :
           /\ needed[s] <= instances[s].size
           /\ instances[s].id \notin ToSet(retired)
           /\ \A t \in used \ {s} : instances[s].id # instances[t].id

UploadsExact == LevelsReadable /\ InstancesFit
=============================================================================
