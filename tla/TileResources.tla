----------------------------- MODULE TileResources -----------------------------
(***************************************************************************)
(* cesium/cesium_tileset.cpp: the render resources of a tileset.  Cesium   *)
(* prepares them in two steps, in a load thread and in the main thread,    *)
(* attaches rasters to tiles, and gives them back through free callbacks;  *)
(* what it has not given back when the tileset is destroyed is found in    *)
(* lists of the active resources.                                          *)
(*                                                                         *)
(* Cesium is external.  It calls back in the main thread while the frame   *)
(* loop is in one of its functions, frees a resource at most once, a       *)
(* raster only when it is attached to no tile and a tile only when it is   *)
(* not one to render; a tile's rasters are detached before it is freed.    *)
(***************************************************************************)
EXTENDS Integers, FiniteSets, Sequences, SequencesExt

CONSTANTS TileIds, RasterIds

VARIABLES phase,       \* "none", or where the main thread is in a frame
          resource,    \* each: "none", "loaded", "active", "freed" (by Cesium), "failed"
          active,      \* the active_*_resource_first lists
          free_stack,  \* tiles_to_free_stack
          released,    \* how often each resource's handles and arena were released
          attachments, \* each tile's raster_overlay_first list, as rasters
          tile_to_show, \* the tiles, each with the raster of its overlay handle
          held_tiles   \* the tiles Cesium has to render this frame

tileVars == <<phase, resource, active, free_stack, released, attachments, tile_to_show,
              held_tiles>>

Ids == TileIds \cup RasterIds
NoRaster == "no raster"

Fresh ==
  /\ resource' = [r \in Ids |-> "none"]
  /\ active' = <<>> /\ free_stack' = <<>>
  /\ released' = [r \in Ids |-> 0]
  /\ attachments' = [t \in TileIds |-> <<>>]
  /\ tile_to_show' = {} /\ held_tiles' = {}

TileInit ==
  /\ phase = "none"
  /\ resource = [r \in Ids |-> "none"]
  /\ active = <<>> /\ free_stack = <<>>
  /\ released = [r \in Ids |-> 0]
  /\ attachments = [t \in TileIds |-> <<>>]
  /\ tile_to_show = {} /\ held_tiles = {}

tileset_renderer_create == phase = "none" /\ phase' = "frame" /\ Fresh

\* prepareInLoadThread and prepareRasterInLoadThread, in a worker; an image that
\* cannot be converted leaves a raster without resources.
PrepareInLoadThread(r) ==
  /\ phase # "none" /\ resource[r] = "none"
  /\ \E prepared \in IF r \in RasterIds THEN {"loaded", "failed"} ELSE {"loaded"} :
       resource' = [resource EXCEPT ![r] = prepared]
  /\ UNCHANGED <<phase, active, free_stack, released, attachments, tile_to_show, held_tiles>>

\* Cesium runs callbacks in dispatchMainThreadTasks, updateViewGroup and loadTiles.
InCesium == phase \in {"pump", "dispatch", "update"}

\* prepareInMainThread and prepareRasterInMainThread
PrepareInMainThread(r) ==
  /\ InCesium /\ resource[r] = "loaded"
  /\ resource' = [resource EXCEPT ![r] = "active"]
  /\ active' = <<r>> \o active
  /\ UNCHANGED <<phase, free_stack, released, attachments, tile_to_show, held_tiles>>

Attached(r) == \E t \in TileIds : Contains(attachments[t], r)

\* Mutant: the freed resource stays in the list.
MutantUntracked(list, r) == list

\* _tileset_renderer_tile_resource_untrack and _raster_resource_untrack
Untracked(list, r) == RemoveFirst(list, r)

\* free, with the result of the load thread or of the main thread.
free(t) ==
  /\ InCesium /\ resource[t] \in {"loaded", "active"}
  /\ attachments[t] = <<>> /\ t \notin held_tiles
  /\ resource' = [resource EXCEPT ![t] = "freed"]
  /\ active' = Untracked(active, t)
  /\ free_stack' = <<t>> \o free_stack
  /\ UNCHANGED <<phase, released, attachments, tile_to_show, held_tiles>>

\* freeRaster releases at once; the texture is destroyed when no frame uses it.
freeRaster(r) ==
  /\ InCesium /\ resource[r] \in {"loaded", "active"}
  /\ ~Attached(r)
  /\ resource' = [resource EXCEPT ![r] = "freed"]
  /\ active' = Untracked(active, r)
  /\ released' = [released EXCEPT ![r] = @ + 1]
  /\ UNCHANGED <<phase, free_stack, attachments, tile_to_show, held_tiles>>

\* attachRasterInMainThread: does nothing for a raster without resources.
attachRasterInMainThread(t, r) ==
  /\ InCesium /\ resource[t] = "active" /\ resource[r] \in {"active", "failed"}
  /\ attachments' = IF resource[r] = "failed" \/ Contains(attachments[t], r)
                      THEN attachments ELSE [attachments EXCEPT ![t] = <<r>> \o @]
  /\ UNCHANGED <<phase, resource, active, free_stack, released, tile_to_show, held_tiles>>

\* detachRasterInMainThread
detachRasterInMainThread(t, r) ==
  /\ InCesium /\ resource[t] = "active" /\ t \notin held_tiles /\ Contains(attachments[t], r)
  /\ attachments' = [attachments EXCEPT ![t] = RemoveFirst(@, r)]
  /\ UNCHANGED <<phase, resource, active, free_stack, released, tile_to_show, held_tiles>>

\* tileset_renderer_free_list_empty: _tileset_renderer_free_handles of each.
FreeListEmpty ==
  /\ released' = [r \in Ids |-> released[r] + IF Contains(free_stack, r) THEN 1 ELSE 0]
  /\ free_stack' = <<>>

\* The frame loop enters tileset_pump_async ...
PumpBegin ==
  /\ phase = "frame"
  /\ phase' = "pump" /\ held_tiles' = {}
  /\ UNCHANGED <<resource, active, free_stack, released, attachments, tile_to_show>>

\* ... which empties the free list when Cesium returns; then tileset_update_view
\* lets Cesium dispatch again ...
PumpEnd ==
  /\ phase = "pump" /\ phase' = "dispatch"
  /\ FreeListEmpty
  /\ UNCHANGED <<resource, active, attachments, tile_to_show, held_tiles>>

\* ... forgets the tiles shown, empties the list and lets Cesium choose.
UpdateBegin ==
  /\ phase = "dispatch" /\ phase' = "update"
  /\ tile_to_show' = {}
  /\ FreeListEmpty
  /\ held_tiles' \in SUBSET {t \in TileIds : resource[t] = "active"}
  /\ UNCHANGED <<resource, active, attachments>>

\* _tile_active_raster_attachment_get
Overlay(t) == IF attachments[t] = <<>> THEN NoRaster ELSE Head(attachments[t])

\* The tiles Cesium chose are shown (_tile_render_data_overlay_apply) and drawn.
Draw ==
  /\ phase = "update" /\ phase' = "frame"
  /\ tile_to_show' = {<<t, Overlay(t)>> : t \in held_tiles}
  /\ UNCHANGED <<resource, active, free_stack, released, attachments, held_tiles>>

\* tileset_renderer_destroy: destroying the tilesets gives back some resources,
\* then the free list is emptied and what is still in the active lists released.
\* What a load thread made and nobody took over is given back by Cesium.
tileset_renderer_destroy ==
  /\ phase = "frame" /\ phase' = "none"
  /\ \E back \in SUBSET {r \in Ids : resource[r] = "active"} :
       LET given == back \cup {r \in Ids : resource[r] = "loaded"}
           stack == ToSet(free_stack) \cup (given \cap TileIds)
           rest == ToSet(active) \ back
       IN  released' = [r \in Ids |-> released[r]
                          + IF r \in stack \cup rest \cup (given \cap RasterIds) THEN 1 ELSE 0]
  /\ free_stack' = <<>> /\ active' = <<>>
  /\ tile_to_show' = {} /\ held_tiles' = {}
  /\ attachments' = [t \in TileIds |-> <<>>]
  /\ UNCHANGED resource

TileNext ==
  \/ tileset_renderer_create \/ PumpBegin \/ PumpEnd \/ UpdateBegin \/ Draw
  \/ tileset_renderer_destroy
  \/ \E r \in Ids : PrepareInLoadThread(r) \/ PrepareInMainThread(r)
  \/ \E t \in TileIds : free(t)
  \/ \E r \in RasterIds : freeRaster(r)
  \/ \E t \in TileIds, r \in RasterIds :
       attachRasterInMainThread(t, r) \/ detachRasterInMainThread(t, r)

-----------------------------------------------------------------------------
\* The GPU buffers and the arena of a tile or raster (_tileset_renderer_free_handles,
\* freeRaster, _tileset_renderer_active_resources_release) are released once, by
\* whichever of the free list, the free callback and the active lists has it, and
\* none is left when the tileset is gone; the tiles the frame loop draws, and the
\* rasters laid over them, are not released.
ResourcesReleasedOnce ==
  /\ \A r \in Ids : released[r] <= 1
  /\ phase = "none" => \A r \in Ids : released[r] = IF resource[r] \in {"none", "failed"} THEN 0 ELSE 1
  /\ phase # "none" => \A r \in ToSet(active) \cup ToSet(free_stack) : released[r] = 0
  /\ phase = "frame" => \A p \in tile_to_show :
                           released[p[1]] = 0 /\ (p[2] # NoRaster => released[p[2]] = 0)
=============================================================================
