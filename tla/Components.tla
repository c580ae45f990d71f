----------------------------- MODULE Components -----------------------------
(***************************************************************************)
(* The components that share no state with the others, side by side: the   *)
(* resources of a tileset (TileResources), the commands of a frame         *)
(* (FrameCommands) with the frames in flight (Frames), the cache files     *)
(* (Cache), a websocket session (Websocket), a resource pool               *)
(* (ResourcePool), the pool of dynamic arrays (DynamicArrays), the choice  *)
(* of a device with the life of what is made on it (Device), an arena      *)
(* (Arena), an allocator (Allocator), the chunk list and the map           *)
(* (Containers).  The proofs of ComponentsProofs and MemoryProofs and the  *)
(* run of MCComponents are about these instances, the ones for all         *)
(* constants and the other for small ones.                                 *)
(***************************************************************************)
EXTENDS TileResources, FrameCommands

CONSTANTS Inputs, Ttl, MaxTime, LongAnswers, LongHashes   \* of Cache
CONSTANTS Parts, MaxMessages, MaxReads                    \* of Websocket
CONSTANTS MaxPoolItems, MaxGen                            \* of ResourcePool
CONSTANTS Capabilities, ExtraImages                       \* of Frames
CONSTANTS Machines, Validation, Required, FramebufferDims \* of Device
CONSTANTS Header, Windows, PageSize, ReserveSize, CommitSize, Sizes, Aligns, Pops, Width,
          MaxBlocks, MaxTemps, MaxLive                    \* of Arena
CONSTANTS BlockSize, ObjectSizes, ObjectAligns, Stride, MaxObjects  \* of Allocator
CONSTANTS ChunkCapacity, MapKeys, TableSize, MaxInserted  \* of Containers
CONSTANTS ArraySlots, Types, NodeSize, MinIdx, MaxIdx, Counts, MaxNodes, MaxLength  \* of DynamicArrays

VARIABLES windows, data, meta, now, asked, cache_phase, content, accepted, written, disturbed
VARIABLES ws_phase, error, added_to_multi, wire, chunk_list, msg_list, epoch, reads, latest, newest
VARIABLES pool, freed_handles, owned, returned, double_free
VARIABLES msaa, current_frame, swapchain, resized, recreating, pending, showing, available, clash
VARIABLES node_lists, node_size, arrays
VARIABLES machine, step, picked, surface, alive
VARIABLES arena, committed, live, temps, aborted
VARIABLES al_arena, al_committed, al_live, al_temps, al_aborted, destructor_pos,
          destructor_cmt_pos, destructor_count, base_pos, records, objects, destroyed, mapped
VARIABLES list, inserted, refs, map, dict, entry_refs

Files     == INSTANCE Cache WITH phase <- cache_phase
Session   == INSTANCE Websocket WITH phase <- ws_phase
Pool      == INSTANCE ResourcePool WITH
               MaxItems <- MaxPoolItems, items <- pool, free_stack <- freed_handles
FrameLoop == INSTANCE Frames
Gpu       == INSTANCE Device
Dyn       == INSTANCE DynamicArrays WITH Slots <- ArraySlots, free_list <- node_lists
Ar        == INSTANCE Arena
Al        == INSTANCE Allocator WITH
               ReserveSize <- BlockSize, Sizes <- ObjectSizes, Aligns <- ObjectAligns,
               arena <- al_arena, committed <- al_committed, live <- al_live, temps <- al_temps,
               aborted <- al_aborted
Con       == INSTANCE Containers WITH
               Capacity <- ChunkCapacity, Keys <- MapKeys, MaxItems <- MaxInserted

cacheVars == <<windows, data, meta, now, asked, cache_phase, content, accepted, written, disturbed>>
websocketVars == <<ws_phase, error, added_to_multi, wire, chunk_list, msg_list, epoch, reads,
                   latest, newest>>
resourceVars == <<pool, freed_handles, owned, returned, double_free>>
framesVars == <<msaa, current_frame, swapchain, resized, recreating, pending, showing,
                available, clash>>
arraysVars == <<node_lists, node_size, arrays>>
gpuVars == <<machine, step, picked, surface, alive>>
arenaVars == <<arena, committed, live, temps, aborted>>
allocatorVars == <<al_arena, al_committed, al_live, al_temps, al_aborted, destructor_pos,
                   destructor_cmt_pos, destructor_count, base_pos, records, objects,
                   destroyed, mapped>>
containerVars == <<list, inserted, refs, map, dict, entry_refs>>

-----------------------------------------------------------------------------
\* What a read of the cache accepts is the whole answer to what was asked.
MetaVouchesForData == Files!MetaVouchesForData

\* A read of the websocket returns whole messages, once and in their order.
ReadsWholeMessages == Session!ReadsWholeMessages

\* A resource pool's handles find what they were made for.
OwnersExact == Pool!OwnersExact

\* A submitted frame finds its images, layouts and data, and shares with the other
\* frames in flight only what the renderer means to share.
FramesSound == FrameLoop!FramesSound

\* The device that is chosen has what the renderer uses, and what is made on it goes
\* before what it was made from.
DeviceFits == Gpu!DeviceFits

\* A node of the array pool has one owner and one size.
NodesOwnedOnce == Dyn!NodesOwnedOnce

\* Memory of an arena stays backed and private until it is popped.
ArenaSound == Ar!ArenaSound

\* Each object of an allocator is destroyed once, the last first, by a record of its
\* own; the record is backed as long as objects have not grown into the records' pages.
DestructorsSound == Al!DestructorsSound

\* The chunk list is a sequence, the map a function, and neither moves its items.
ContainersExact == Con!ContainersExact
=============================================================================
