------------------------- MODULE ComponentsProofs -------------------------
(***************************************************************************)
(* Proofs about the components of module Components: the resources of a    *)
(* tileset, the cache files, a websocket session, a resource pool, the     *)
(* frames in flight, the pool of dynamic arrays and the choice of a        *)
(* device.  Each is proved for its own module's next-state relation, of    *)
(* which a run of MCComponents takes one instance; the constants are what  *)
(* a theorem assumes of them.                                              *)
(***************************************************************************)
EXTENDS Components, SequenceFacts

-----------------------------------------------------------------------------
(***************************************************************************)
(* TileResources.  A resource's state says who has it: the active list,    *)
(* the free list or nobody, and only what Cesium gave back or the tileset  *)
(* left behind is released.  The rasters laid over a tile, and the tiles   *)
(* Cesium has to render, are active.                                       *)
(***************************************************************************)
ResourceTypeOK ==
  /\ phase \in {"none", "frame", "pump", "dispatch", "update"}
  /\ resource \in [Ids -> {"none", "loaded", "active", "freed", "failed"}]
  /\ active \in Seq(Ids) /\ free_stack \in Seq(TileIds)
  /\ released \in [Ids -> Nat]
  /\ attachments \in [TileIds -> Seq(RasterIds)]
  /\ tile_to_show \in SUBSET (TileIds \X (RasterIds \cup {NoRaster}))
  /\ held_tiles \in SUBSET TileIds

OwnerKnown ==
  /\ IsInjective(active)
  /\ \A r \in Ids :
       /\ r \in ToSet(active) <=> resource[r] = "active"
       /\ r \in ToSet(free_stack) => resource[r] = "freed"
       /\ released[r] = IF resource[r] = "freed" /\ r \notin ToSet(free_stack) THEN 1 ELSE 0

UsedIsActive ==
  /\ \A t \in TileIds :
       /\ IsInjective(attachments[t])
       /\ \A r \in ToSet(attachments[t]) : resource[r] = "active"
  /\ \A t \in held_tiles : resource[t] = "active"
  /\ phase = "frame" => \A p \in tile_to_show :
       /\ resource[p[1]] = "active"
       /\ p[2] # NoRaster => resource[p[2]] = "active"

AllReleased ==
  \A r \in Ids : released[r] = IF resource[r] \in {"none", "failed"} THEN 0 ELSE 1

ResourcesInv ==
  /\ ResourceTypeOK
  /\ phase # "none" => OwnerKnown /\ UsedIsActive
  /\ phase = "none" => AllReleased

\* Every step of the tileset keeps the types.
LEMMA TilesKeepTypes ==
  ASSUME ResourcesInv, [TileNext]_tileVars
  PROVE  ResourceTypeOK'
<1>0. ResourceTypeOK
  BY DEF ResourcesInv
<1>1. CASE tileset_renderer_create
  BY <1>1 DEF tileset_renderer_create, Fresh, ResourceTypeOK
<1>2. CASE PumpBegin
  BY <1>0, <1>2 DEF PumpBegin, ResourceTypeOK
<1>3. CASE PumpEnd
  <2>1. released' \in [Ids -> Nat] /\ free_stack' \in Seq(TileIds)
    BY <1>0, <1>3 DEF PumpEnd, FreeListEmpty, ResourceTypeOK
  <2> QED BY <1>0, <1>3, <2>1 DEF PumpEnd, ResourceTypeOK
<1>4. CASE UpdateBegin
  <2>1. released' \in [Ids -> Nat] /\ free_stack' \in Seq(TileIds)
    BY <1>0, <1>4 DEF UpdateBegin, FreeListEmpty, ResourceTypeOK
  <2> QED BY <1>0, <1>4, <2>1 DEF UpdateBegin, ResourceTypeOK
<1>5. CASE Draw
  <2>1. \A t \in TileIds : Overlay(t) \in RasterIds \cup {NoRaster}
    <3> SUFFICES ASSUME NEW t \in TileIds PROVE Overlay(t) \in RasterIds \cup {NoRaster}
      OBVIOUS
    <3>1. attachments[t] \in Seq(RasterIds)
      BY <1>0 DEF ResourceTypeOK
    <3>2. attachments[t] # <<>> => Head(attachments[t]) \in RasterIds
      BY <3>1
    <3> QED BY <3>2 DEF Overlay
  <2>2. tile_to_show' \in SUBSET (TileIds \X (RasterIds \cup {NoRaster}))
    BY <1>0, <1>5, <2>1 DEF Draw, ResourceTypeOK
  <2> QED BY <1>0, <1>5, <2>2 DEF Draw, ResourceTypeOK
<1>6. CASE tileset_renderer_destroy
  <2>1. released' \in [Ids -> Nat]
    BY <1>0, <1>6 DEF tileset_renderer_destroy, ResourceTypeOK
  <2> QED BY <1>0, <1>6, <2>1 DEF tileset_renderer_destroy, ResourceTypeOK
<1>7. CASE \E r \in Ids : PrepareInLoadThread(r)
  <2>1. resource' \in [Ids -> {"none", "loaded", "active", "freed", "failed"}]
    BY <1>0, <1>7 DEF PrepareInLoadThread, ResourceTypeOK
  <2> QED BY <1>0, <1>7, <2>1 DEF PrepareInLoadThread, ResourceTypeOK
<1>8. CASE \E r \in Ids : PrepareInMainThread(r)
  <2>1. PICK r \in Ids : PrepareInMainThread(r)
    BY <1>8
  <2>2. active' \in Seq(Ids)
    BY <1>0, <2>1, PushFacts DEF PrepareInMainThread, ResourceTypeOK
  <2> QED BY <1>0, <2>1, <2>2 DEF PrepareInMainThread, ResourceTypeOK
<1>9. CASE \E t \in TileIds : free(t)
  <2>1. PICK t \in TileIds : free(t)
    BY <1>9
  <2>2. phase # "none" /\ t \in Ids /\ active \in Seq(Ids) /\ IsInjective(active) /\ free_stack \in Seq(TileIds)
    BY <1>0, <2>1 DEF free, InCesium, ResourcesInv, OwnerKnown, ResourceTypeOK, Ids
  <2>3. active' \in Seq(Ids)
    BY <2>1, <2>2, RemoveFirstFacts DEF free, Untracked
  <2>4. free_stack' \in Seq(TileIds)
    BY <2>1, <2>2, PushFacts DEF free
  <2>5. resource' \in [Ids -> {"none", "loaded", "active", "freed", "failed"}]
    BY <1>0, <2>1 DEF free, ResourceTypeOK
  <2> QED BY <1>0, <2>1, <2>3, <2>4, <2>5 DEF free, ResourceTypeOK
<1>10. CASE \E r \in RasterIds : freeRaster(r)
  <2>1. PICK r \in RasterIds : freeRaster(r)
    BY <1>10
  <2>2. phase # "none" /\ r \in Ids /\ active \in Seq(Ids) /\ IsInjective(active)
    BY <1>0, <2>1 DEF freeRaster, InCesium, ResourcesInv, OwnerKnown, ResourceTypeOK, Ids
  <2>3. active' \in Seq(Ids)
    BY <2>1, <2>2, RemoveFirstFacts DEF freeRaster, Untracked
  <2>4. resource' \in [Ids -> {"none", "loaded", "active", "freed", "failed"}]
    BY <1>0, <2>1 DEF freeRaster, ResourceTypeOK
  <2>5. released' \in [Ids -> Nat]
    <3>1. released' = [released EXCEPT ![r] = released[r] + 1] /\ released[r] + 1 \in Nat
      BY <1>0, <2>1, <2>2 DEF freeRaster, ResourceTypeOK
    <3> QED BY <1>0, <3>1 DEF ResourceTypeOK
  <2> QED BY <1>0, <2>1, <2>3, <2>4, <2>5 DEF freeRaster, ResourceTypeOK
<1>11. CASE \E t \in TileIds, r \in RasterIds : attachRasterInMainThread(t, r)
  <2>1. PICK t \in TileIds, r \in RasterIds : attachRasterInMainThread(t, r)
    BY <1>11
  <2>2. attachments[t] \in Seq(RasterIds)
    BY <1>0 DEF ResourceTypeOK
  <2>3. <<r>> \o attachments[t] \in Seq(RasterIds)
    BY <2>2, PushFacts
  <2>4. attachments' \in [TileIds -> Seq(RasterIds)]
    <3>1. attachments' = attachments \/ attachments' = [attachments EXCEPT ![t] = <<r>> \o attachments[t]]
      BY <2>1 DEF attachRasterInMainThread
    <3> QED BY <1>0, <2>3, <3>1 DEF ResourceTypeOK
  <2> QED BY <1>0, <2>1, <2>4 DEF attachRasterInMainThread, ResourceTypeOK
<1>12. CASE \E t \in TileIds, r \in RasterIds : detachRasterInMainThread(t, r)
  <2>1. PICK t \in TileIds, r \in RasterIds : detachRasterInMainThread(t, r)
    BY <1>12
  <2>2. attachments[t] \in Seq(RasterIds) /\ IsInjective(attachments[t])
    BY <1>0, <2>1 DEF ResourceTypeOK, detachRasterInMainThread, InCesium, ResourcesInv, UsedIsActive
  <2>3. RemoveFirst(attachments[t], r) \in Seq(RasterIds)
    BY <2>2, RemoveFirstFacts
  <2>4. attachments' \in [TileIds -> Seq(RasterIds)]
    BY <1>0, <2>1, <2>3 DEF detachRasterInMainThread, ResourceTypeOK
  <2> QED BY <1>0, <2>1, <2>4 DEF detachRasterInMainThread, ResourceTypeOK
<1>13. CASE UNCHANGED tileVars
  BY <1>0, <1>13 DEF tileVars, ResourceTypeOK
<1> QED BY <1>1, <1>2, <1>3, <1>4, <1>5, <1>6, <1>7, <1>8, <1>9, <1>10, <1>11, <1>12, <1>13 DEF TileNext

\* What is used stays active when no active resource stops being so.
LEMMA ActiveStays ==
  ASSUME ResourceTypeOK, UsedIsActive, UNCHANGED <<phase, attachments, tile_to_show, held_tiles>>,
         \A r \in Ids : resource[r] = "active" => resource'[r] = "active"
  PROVE  UsedIsActive'
<1>1. \A t \in TileIds : ToSet(attachments[t]) \subseteq Ids
  <2>1. \A t \in TileIds : attachments[t] \in Seq(RasterIds)
    BY DEF ResourceTypeOK
  <2> QED BY <2>1 DEF ToSet, Ids
<1>2. \A p \in tile_to_show : p[1] \in Ids /\ (p[2] # NoRaster => p[2] \in Ids)
  BY DEF ResourceTypeOK, Ids
<1>3. held_tiles \subseteq Ids
  BY DEF ResourceTypeOK, Ids
<1> QED BY <1>1, <1>2, <1>3 DEF UsedIsActive

\* ... and when one stops that no tile has and Cesium need not render.
LEMMA UnusedStops ==
  ASSUME ResourceTypeOK, UsedIsActive, UNCHANGED <<phase, attachments, tile_to_show, held_tiles>>,
         phase # "frame", NEW s \in Ids, s \notin held_tiles,
         \A t \in TileIds : s \notin ToSet(attachments[t]),
         \A r \in Ids \ {s} : resource'[r] = resource[r]
  PROVE  UsedIsActive'
<1>1. \A t \in TileIds : ToSet(attachments[t]) \subseteq Ids
  <2>1. \A t \in TileIds : attachments[t] \in Seq(RasterIds)
    BY DEF ResourceTypeOK
  <2> QED BY <2>1 DEF ToSet, Ids
<1>2. held_tiles \subseteq Ids
  BY DEF ResourceTypeOK, Ids
<1> QED BY <1>1, <1>2 DEF UsedIsActive

\* Emptying the free list releases what waited there, and nothing twice.
LEMMA EmptiedListIsReleased ==
  ASSUME ResourceTypeOK, OwnerKnown, FreeListEmpty, UNCHANGED <<resource, active>>
  PROVE  OwnerKnown'
<1>1. free_stack \in Seq(TileIds) /\ released \in [Ids -> Nat]
  BY DEF ResourceTypeOK
<1>2. \A r \in Ids : Contains(free_stack, r) <=> r \in ToSet(free_stack)
  BY <1>1, ContainsIsMember
<1>3. \A r \in Ids : released'[r] = released[r] + IF r \in ToSet(free_stack) THEN 1 ELSE 0
  BY <1>2 DEF FreeListEmpty
<1>4. ToSet(free_stack') = {}
  BY DEF FreeListEmpty, ToSet
<1>5. \A r \in Ids : released'[r] = IF resource[r] = "freed" THEN 1 ELSE 0
  BY <1>1, <1>3 DEF OwnerKnown
<1> QED BY <1>4, <1>5 DEF OwnerKnown

\* Every step of the tileset keeps track of who has a resource.
LEMMA TilesKeepInv ==
  ASSUME TileIds \cap RasterIds = {}, ResourcesInv, ResourceTypeOK', [TileNext]_tileVars
  PROVE  /\ phase' # "none" => OwnerKnown' /\ UsedIsActive'
         /\ phase' = "none" => AllReleased'
<1>0. /\ ResourceTypeOK
      /\ phase # "none" => OwnerKnown /\ UsedIsActive
      /\ phase = "none" => AllReleased
  BY DEF ResourcesInv
<1>1. CASE tileset_renderer_create
  <2>1. phase' = "frame" /\ Fresh
    BY <1>1 DEF tileset_renderer_create
  <2>2. /\ active' = <<>> /\ free_stack' = <<>> /\ tile_to_show' = {} /\ held_tiles' = {}
        /\ \A r \in Ids : resource'[r] = "none" /\ released'[r] = 0
        /\ \A t \in TileIds : attachments'[t] = <<>>
    BY <2>1 DEF Fresh
  <2>3. ToSet(<<>>) = {} /\ IsInjective(<<>>)
    BY DEF ToSet, IsInjective
  <2>4. OwnerKnown'
    BY <2>2, <2>3 DEF OwnerKnown
  <2>5. UsedIsActive'
    BY <2>2, <2>3 DEF UsedIsActive
  <2> QED BY <2>1, <2>4, <2>5
<1>2. CASE PumpBegin
  <2>1. /\ phase # "none" /\ phase' = "pump" /\ held_tiles' = {}
        /\ UNCHANGED <<resource, active, free_stack, released, attachments, tile_to_show>>
    BY <1>2 DEF PumpBegin
  <2> QED BY <1>0, <2>1 DEF OwnerKnown, UsedIsActive
<1>3. CASE PumpEnd
  <2>1. /\ phase # "none" /\ phase' = "dispatch" /\ FreeListEmpty
        /\ UNCHANGED <<resource, active, attachments, tile_to_show, held_tiles>>
    BY <1>3 DEF PumpEnd
  <2>2. OwnerKnown'
    BY <1>0, <2>1, EmptiedListIsReleased
  <2>3. UsedIsActive'
    BY <1>0, <2>1 DEF UsedIsActive
  <2> QED BY <2>1, <2>2, <2>3
<1>4. CASE UpdateBegin
  <2>1. /\ phase # "none" /\ phase' = "update" /\ FreeListEmpty
        /\ UNCHANGED <<resource, active, attachments>>
        /\ \A t \in held_tiles' : resource[t] = "active"
    BY <1>4 DEF UpdateBegin
  <2>2. OwnerKnown'
    BY <1>0, <2>1, EmptiedListIsReleased
  <2>3. UsedIsActive'
    BY <1>0, <2>1 DEF UsedIsActive
  <2> QED BY <2>1, <2>2, <2>3
<1>5. CASE Draw
  <2>1. /\ phase # "none" /\ phase' = "frame"
        /\ tile_to_show' = {<<t, Overlay(t)>> : t \in held_tiles}
        /\ UNCHANGED <<resource, active, free_stack, released, attachments, held_tiles>>
    BY <1>5 DEF Draw
  <2>2. OwnerKnown'
    BY <1>0, <2>1 DEF OwnerKnown
  <2>3. ASSUME NEW t \in held_tiles, Overlay(t) # NoRaster PROVE resource[Overlay(t)] = "active"
    <3>1. t \in TileIds /\ attachments[t] \in Seq(RasterIds) /\ attachments[t] # <<>>
          /\ Overlay(t) = Head(attachments[t])
      BY <1>0, <2>3 DEF ResourceTypeOK, Overlay
    <3>2. Head(attachments[t]) \in ToSet(attachments[t])
      BY <3>1, TailFacts
    <3> QED BY <1>0, <2>1, <3>1, <3>2 DEF UsedIsActive
  <2>4. UsedIsActive'
    BY <1>0, <2>1, <2>3 DEF UsedIsActive
  <2> QED BY <2>1, <2>2, <2>4
<1>6. CASE tileset_renderer_destroy
  <2>1. /\ phase = "frame" /\ phase' = "none" /\ resource' = resource
        /\ OwnerKnown
    BY <1>0, <1>6 DEF tileset_renderer_destroy
  <2>2. PICK back \in SUBSET {r \in Ids : resource[r] = "active"} :
          released' = [r \in Ids |-> released[r] +
            IF r \in (ToSet(free_stack) \cup ((back \cup {q \in Ids : resource[q] = "loaded"}) \cap TileIds))
                      \cup (ToSet(active) \ back)
                      \cup ((back \cup {q \in Ids : resource[q] = "loaded"}) \cap RasterIds)
              THEN 1 ELSE 0]
    BY <1>6 DEF tileset_renderer_destroy
  <2>3. ASSUME NEW r \in Ids
        PROVE  released'[r] = IF resource[r] \in {"none", "failed"} THEN 0 ELSE 1
    <3>1. released'[r] = released[r] +
            IF \/ r \in ToSet(free_stack) \/ r \in ToSet(active) \ back
               \/ r \in back \/ resource[r] = "loaded"
              THEN 1 ELSE 0
      BY <2>2 DEF Ids
    <3>2. resource[r] \in {"none", "loaded", "active", "freed", "failed"} /\ released[r] \in Nat
      BY <1>0 DEF ResourceTypeOK
    <3>3. /\ r \in ToSet(active) <=> resource[r] = "active"
          /\ r \in ToSet(free_stack) => resource[r] = "freed"
          /\ released[r] = IF resource[r] = "freed" /\ r \notin ToSet(free_stack) THEN 1 ELSE 0
          /\ r \in back => resource[r] = "active"
      BY <2>1, <2>2 DEF OwnerKnown
    <3> QED BY <3>1, <3>2, <3>3
  <2> QED BY <2>1, <2>3 DEF AllReleased
<1>7. CASE \E r \in Ids : PrepareInLoadThread(r)
  <2>1. PICK r \in Ids : PrepareInLoadThread(r)
    BY <1>7
  <2>2. PICK prepared \in {"loaded", "failed"} : resource' = [resource EXCEPT ![r] = prepared]
    BY <2>1 DEF PrepareInLoadThread
  <2>3. /\ phase # "none" /\ resource[r] = "none"
        /\ UNCHANGED <<phase, active, free_stack, released, attachments, tile_to_show, held_tiles>>
    BY <2>1 DEF PrepareInLoadThread
  <2>4. \A q \in Ids : resource'[q] = IF q = r THEN prepared ELSE resource[q]
    BY <1>0, <2>2 DEF ResourceTypeOK
  <2>5. OwnerKnown'
    BY <1>0, <2>3, <2>4 DEF OwnerKnown
  <2>6. UsedIsActive'
    BY <1>0, <2>3, <2>4, ActiveStays
  <2> QED BY <2>3, <2>5, <2>6
<1>8. CASE \E r \in Ids : PrepareInMainThread(r)
  <2>1. PICK r \in Ids : PrepareInMainThread(r)
    BY <1>8
  <2>2. /\ phase \in {"pump", "dispatch", "update"} /\ resource[r] = "loaded"
        /\ active' = <<r>> \o active
        /\ UNCHANGED <<phase, free_stack, released, attachments, tile_to_show, held_tiles>>
    BY <2>1 DEF PrepareInMainThread, InCesium
  <2>3. \A q \in Ids : resource'[q] = IF q = r THEN "active" ELSE resource[q]
    BY <1>0, <2>1 DEF ResourceTypeOK, PrepareInMainThread
  <2>4. active \in Seq(Ids) /\ IsInjective(active) /\ r \notin ToSet(active)
    BY <1>0, <2>2 DEF ResourceTypeOK, OwnerKnown
  <2>5. ToSet(active') = {r} \cup ToSet(active) /\ IsInjective(active')
    BY <2>2, <2>4, PushFacts
  <2>6. OwnerKnown'
    BY <1>0, <2>2, <2>3, <2>5 DEF OwnerKnown
  <2>7. UsedIsActive'
    BY <1>0, <2>2, <2>3, ActiveStays
  <2> QED BY <2>2, <2>6, <2>7
<1>9. CASE \E t \in TileIds : free(t)
  <2>1. PICK t \in TileIds : free(t)
    BY <1>9
  <2>2. /\ phase \in {"pump", "dispatch", "update"} /\ resource[t] \in {"loaded", "active"}
        /\ attachments[t] = <<>> /\ t \notin held_tiles /\ t \in Ids
        /\ active' = RemoveFirst(active, t) /\ free_stack' = <<t>> \o free_stack
        /\ UNCHANGED <<phase, released, attachments, tile_to_show, held_tiles>>
    BY <2>1 DEF free, InCesium, Untracked, Ids
  <2>3. \A q \in Ids : resource'[q] = IF q = t THEN "freed" ELSE resource[q]
    BY <1>0, <2>1 DEF ResourceTypeOK, free
  <2>4. active \in Seq(Ids) /\ IsInjective(active) /\ free_stack \in Seq(TileIds)
    BY <1>0, <2>2 DEF ResourceTypeOK, OwnerKnown
  <2>5. ToSet(active') = ToSet(active) \ {t} /\ IsInjective(active')
    BY <2>2, <2>4, RemoveFirstFacts
  <2>6. ToSet(free_stack') = {t} \cup ToSet(free_stack)
    BY <2>2, <2>4, PushFacts
  <2>7. OwnerKnown'
    BY <1>0, <2>2, <2>3, <2>5, <2>6 DEF OwnerKnown
  <2>8. UsedIsActive'
    <3>1. \A u \in TileIds : t \notin ToSet(attachments[u])
      BY <1>0 DEF ResourceTypeOK, ToSet
    <3> QED BY <1>0, <2>2, <2>3, <3>1, UnusedStops
  <2> QED BY <2>2, <2>7, <2>8
<1>10. CASE \E r \in RasterIds : freeRaster(r)
  <2>1. PICK r \in RasterIds : freeRaster(r)
    BY <1>10
  <2>2. /\ phase \in {"pump", "dispatch", "update"} /\ resource[r] \in {"loaded", "active"}
        /\ ~Attached(r) /\ r \in Ids
        /\ active' = RemoveFirst(active, r) /\ released' = [released EXCEPT ![r] = @ + 1]
        /\ UNCHANGED <<phase, free_stack, attachments, tile_to_show, held_tiles>>
    BY <2>1 DEF freeRaster, InCesium, Untracked, Ids
  <2>3. \A q \in Ids : resource'[q] = IF q = r THEN "freed" ELSE resource[q]
    BY <1>0, <2>1 DEF ResourceTypeOK, freeRaster
  <2>4. active \in Seq(Ids) /\ IsInjective(active) /\ released \in [Ids -> Nat]
    BY <1>0, <2>2 DEF ResourceTypeOK, OwnerKnown
  <2>5. ToSet(active') = ToSet(active) \ {r} /\ IsInjective(active')
    BY <2>2, <2>4, RemoveFirstFacts
  <2>6. \A q \in Ids : released'[q] = IF q = r THEN released[r] + 1 ELSE released[q]
    BY <2>2, <2>4
  <2>7. released[r] = 0 /\ r \notin ToSet(free_stack)
    BY <1>0, <2>2 DEF OwnerKnown
  <2>8. OwnerKnown'
    BY <1>0, <2>2, <2>3, <2>5, <2>6, <2>7 DEF OwnerKnown
  <2>9. UsedIsActive'
    <3>1. \A u \in TileIds : attachments[u] \in Seq(RasterIds)
      BY <1>0 DEF ResourceTypeOK
    <3>2. \A u \in TileIds : r \notin ToSet(attachments[u])
      BY <2>2, <3>1, ContainsIsMember DEF Attached
    <3>3. r \notin held_tiles
      BY <1>0 DEF ResourceTypeOK
    <3> QED BY <1>0, <2>2, <2>3, <3>2, <3>3, UnusedStops
  <2> QED BY <2>2, <2>8, <2>9
<1>11. CASE \E t \in TileIds, r \in RasterIds : attachRasterInMainThread(t, r)
  <2>1. PICK t \in TileIds, r \in RasterIds : attachRasterInMainThread(t, r)
    BY <1>11
  <2>2. /\ phase \in {"pump", "dispatch", "update"} /\ resource[r] \in {"active", "failed"}
        /\ attachments' = IF resource[r] = "failed" \/ Contains(attachments[t], r)
                            THEN attachments ELSE [attachments EXCEPT ![t] = <<r>> \o @]
        /\ UNCHANGED <<phase, resource, active, free_stack, released, tile_to_show, held_tiles>>
    BY <2>1 DEF attachRasterInMainThread, InCesium
  <2>3. OwnerKnown'
    BY <1>0, <2>2 DEF OwnerKnown
  <2>4. attachments \in [TileIds -> Seq(RasterIds)] /\ attachments[t] \in Seq(RasterIds)
    BY <1>0 DEF ResourceTypeOK
  <2>5. CASE attachments' = attachments
    BY <1>0, <2>2, <2>3, <2>5 DEF UsedIsActive
  <2>6. CASE /\ resource[r] = "active" /\ r \notin ToSet(attachments[t])
             /\ attachments' = [attachments EXCEPT ![t] = <<r>> \o attachments[t]]
    <3>1. /\ ToSet(<<r>> \o attachments[t]) = {r} \cup ToSet(attachments[t])
          /\ IsInjective(<<r>> \o attachments[t])
      BY <1>0, <2>2, <2>4, <2>6, PushFacts DEF UsedIsActive
    <3>2. \A u \in TileIds : attachments'[u] = IF u = t THEN <<r>> \o attachments[t] ELSE attachments[u]
      BY <2>4, <2>6
    <3>3. UsedIsActive'
      BY <1>0, <2>2, <2>6, <3>1, <3>2 DEF UsedIsActive
    <3> QED BY <2>2, <2>3, <3>3
  <2>7. Contains(attachments[t], r) <=> r \in ToSet(attachments[t])
    BY <2>4, ContainsIsMember
  <2> QED BY <2>2, <2>5, <2>6, <2>7
<1>12. CASE \E t \in TileIds, r \in RasterIds : detachRasterInMainThread(t, r)
  <2>1. PICK t \in TileIds, r \in RasterIds : detachRasterInMainThread(t, r)
    BY <1>12
  <2>2. /\ phase \in {"pump", "dispatch", "update"}
        /\ attachments' = [attachments EXCEPT ![t] = RemoveFirst(attachments[t], r)]
        /\ UNCHANGED <<phase, resource, active, free_stack, released, tile_to_show, held_tiles>>
    BY <2>1 DEF detachRasterInMainThread, InCesium
  <2>3. OwnerKnown'
    BY <1>0, <2>2 DEF OwnerKnown
  <2>4. attachments[t] \in Seq(RasterIds) /\ IsInjective(attachments[t])
    BY <1>0, <2>2 DEF ResourceTypeOK, UsedIsActive
  <2>5. /\ ToSet(RemoveFirst(attachments[t], r)) \subseteq ToSet(attachments[t])
        /\ IsInjective(RemoveFirst(attachments[t], r))
    BY <2>4, RemoveFirstFacts
  <2>6. \A u \in TileIds : attachments'[u] = IF u = t THEN RemoveFirst(attachments[t], r)
                                             ELSE attachments[u]
    BY <1>0, <2>2 DEF ResourceTypeOK
  <2>7. UsedIsActive'
    BY <1>0, <2>2, <2>5, <2>6 DEF UsedIsActive
  <2> QED BY <2>2, <2>3, <2>7
<1>13. CASE UNCHANGED tileVars
  BY <1>0, <1>13 DEF tileVars, OwnerKnown, UsedIsActive, AllReleased
<1> QED BY <1>1, <1>2, <1>3, <1>4, <1>5, <1>6, <1>7, <1>8, <1>9, <1>10, <1>11, <1>12, <1>13 DEF TileNext
(***************************************************************************)
(* For any number of tiles and rasters, and any order of Cesium's          *)
(* callbacks and of the frame loop, also when the tileset is destroyed:    *)
(* what a tile or raster holds is released once and never while it is      *)
(* drawn, and nothing is left behind (free, freeRaster,                    *)
(* tileset_renderer_free_list_empty and tileset_renderer_destroy in        *)
(* cesium/cesium_tileset.cpp).                                             *)
(***************************************************************************)
THEOREM TilesReleaseOnce ==
  ASSUME TileIds \cap RasterIds = {}
  PROVE  TileInit /\ [][TileNext]_tileVars => []ResourcesReleasedOnce
<1>1. TileInit => ResourcesInv
  BY DEF TileInit, ResourcesInv, ResourceTypeOK, AllReleased
<1>2. ResourcesInv /\ [TileNext]_tileVars => ResourcesInv'
  <2> SUFFICES ASSUME ResourcesInv, [TileNext]_tileVars PROVE ResourcesInv'
    OBVIOUS
  <2>1. ResourceTypeOK'
    BY TilesKeepTypes
  <2> QED BY <2>1, TilesKeepInv DEF ResourcesInv
<1>3. ResourcesInv => ResourcesReleasedOnce
  <2> SUFFICES ASSUME ResourcesInv PROVE ResourcesReleasedOnce
    OBVIOUS
  <2>1. ResourceTypeOK
    BY DEF ResourcesInv
  <2>2. CASE phase = "none"
    <3>1. AllReleased
      BY <2>2 DEF ResourcesInv
    <3>2. \A r \in Ids : released[r] <= 1
      BY <3>1 DEF AllReleased
    <3> QED BY <2>2, <3>1, <3>2 DEF AllReleased, ResourcesReleasedOnce
  <2>3. CASE phase # "none"
    <3>1. OwnerKnown /\ UsedIsActive
      BY <2>3 DEF ResourcesInv
    <3>2. \A r \in Ids : released[r] <= 1 /\ (resource[r] = "active" => released[r] = 0)
      BY <3>1 DEF OwnerKnown
    <3>3. ToSet(active) \subseteq Ids /\ ToSet(free_stack) \subseteq Ids
      <4>1. active \in Seq(Ids) /\ free_stack \in Seq(TileIds)
        BY <2>1 DEF ResourceTypeOK
      <4> QED BY <4>1 DEF ToSet, Ids
    <3>4. \A r \in ToSet(active) \cup ToSet(free_stack) : released[r] = 0
      BY <3>1, <3>3 DEF OwnerKnown
    <3>5. \A p \in tile_to_show : p[1] \in Ids /\ (p[2] # NoRaster => p[2] \in Ids)
      BY <2>1 DEF ResourceTypeOK, Ids
    <3>6. phase = "frame" => \A p \in tile_to_show :
                               released[p[1]] = 0 /\ (p[2] # NoRaster => released[p[2]] = 0)
      BY <3>1, <3>2, <3>5 DEF UsedIsActive
    <3> QED BY <2>3, <3>2, <3>4, <3>6 DEF ResourcesReleasedOnce
  <2> QED BY <2>2, <2>3
<1> QED BY <1>1, <1>2, <1>3, PTL

-----------------------------------------------------------------------------
(***************************************************************************)
(* Cache.  Nothing is claimed once a file was disturbed.  Until then the   *)
(* two files name one input except while the second is being written, a    *)
(* write is under way only for what the meta file does not vouch for, and  *)
(* a meta file that is not too old vouches for a whole answer.             *)
(***************************************************************************)
NoFile   == Files!NoFile
Contents == {"whole", "partial", "empty", "mixed"}

CacheTypeOK ==
  /\ data = NoFile \/ data \in [input : Inputs, content : Contents]
  /\ meta = NoFile \/ meta \in [input : Inputs, time : Nat]
  /\ accepted = NoFile \/ accepted \in [input : Inputs, content : Contents, read : Nat]
  /\ now \in Nat /\ written \in Nat /\ asked \in Inputs /\ disturbed \in BOOLEAN
  /\ cache_phase \in {"idle", "miss", "answered", "data_written"}
  /\ content \in {"none", "whole", "empty"}
  /\ cache_phase \in {"answered", "data_written"} => content # "none"

FilesAgree ==
  /\ meta # NoFile => data # NoFile /\ meta.time <= written
  /\ cache_phase = "data_written" =>
       data # NoFile /\ data.input = asked /\ data.content = content
  /\ cache_phase # "data_written" /\ meta # NoFile =>
       data.input = meta.input /\ (now <= meta.time + Ttl => data.content = "whole")
  /\ cache_phase # "idle" => Files!cache_needs_update(asked)

ReadsVouchedFor ==
  accepted # NoFile => /\ cache_phase = "idle"
                       /\ accepted.input = asked /\ accepted.content = "whole"
                       /\ accepted.read <= written + Ttl

CacheInv == CacheTypeOK /\ (~disturbed => FilesAgree /\ ReadsVouchedFor)

\* Every step at the cache files keeps the types.
LEMMA CacheKeepsTypes ==
  ASSUME MaxTime \in Nat, CacheTypeOK, [Files!CacheNext]_(Files!cacheVars)
  PROVE  CacheTypeOK'
<1> USE DEF NoFile, Contents
<1>1. CASE \E i \in Inputs : Files!cache_read(i)
  BY <1>1 DEF Files!cache_read, CacheTypeOK, Files!NoFile
<1>2. CASE Files!Fetch
  BY <1>2 DEF Files!Fetch, CacheTypeOK
<1>3. CASE Files!WriteData
  BY <1>3 DEF Files!WriteData, CacheTypeOK, Files!NoFile, Files!Longer
<1>4. CASE Files!WriteMeta
  <2>1. /\ cache_phase' = "idle" /\ UNCHANGED <<data, now, asked, content, accepted>>
        /\ disturbed' \in BOOLEAN
    BY <1>4, Zenon DEF Files!WriteMeta, Files!LeavesMeta, CacheTypeOK
  <2>2. /\ meta' = meta \/ meta' \in [input : Inputs, time : Nat]
        /\ written' \in Nat
    BY <1>4 DEF Files!WriteMeta, CacheTypeOK, Files!StretchedTime
  <2> QED BY <2>1, <2>2 DEF CacheTypeOK
<1>5. CASE Files!Restart
  BY <1>5 DEF Files!Restart, CacheTypeOK, Files!LeavesMeta, Files!NoFile
<1>6. CASE Files!Tick
  BY <1>6 DEF Files!Tick, CacheTypeOK
<1>7. CASE UNCHANGED Files!cacheVars
  BY <1>7 DEF Files!cacheVars, CacheTypeOK
<1> QED BY <1>1, <1>2, <1>3, <1>4, <1>5, <1>6, <1>7 DEF Files!CacheNext

\* Every step keeps the two files in agreement while neither is disturbed.
LEMMA CacheKeepsFilesAgree ==
  ASSUME Ttl \in Nat, CacheInv, CacheTypeOK', [Files!CacheNext]_(Files!cacheVars), ~disturbed'
  PROVE  FilesAgree' /\ ReadsVouchedFor'
<1> USE DEF NoFile, Contents
<1>1. CASE \E i \in Inputs : Files!cache_read(i)
  <2>1. PICK i \in Inputs : Files!cache_read(i)
    BY <1>1
  <2>2. /\ UNCHANGED <<data, meta, now, content, written, disturbed>> /\ asked' = i
        /\ cache_phase = "idle" /\ FilesAgree
    BY <2>1 DEF Files!cache_read, CacheInv
  <2>3. CASE data = NoFile \/ Files!cache_needs_update(i)
    <3>1. accepted' = NoFile /\ cache_phase' = "miss"
      BY <2>1, <2>3 DEF Files!cache_read
    <3>2. Files!cache_needs_update(asked)'
      BY <2>2, <2>3 DEF FilesAgree, Files!cache_needs_update
    <3> QED BY <2>2, <3>1, <3>2 DEF FilesAgree, ReadsVouchedFor
  <2>4. CASE ~(data = NoFile \/ Files!cache_needs_update(i))
    <3>1. /\ accepted' = [input |-> data.input, content |-> data.content, read |-> now]
          /\ cache_phase' = "idle"
      BY <2>1, <2>4 DEF Files!cache_read
    <3>2. meta # NoFile /\ meta.input = i /\ ~(now > meta.time + Ttl)
      BY <2>4 DEF Files!cache_needs_update
    <3>3. meta.time \in Nat /\ now \in Nat /\ written \in Nat
      BY <3>2 DEF CacheInv, CacheTypeOK
    <3>4. now <= meta.time + Ttl
      BY <3>2, <3>3
    <3>5. data.input = meta.input /\ data.content = "whole" /\ meta.time <= written
      BY <2>2, <3>2, <3>4 DEF FilesAgree
    <3>6. now <= written + Ttl
      BY <3>3, <3>4, <3>5
    <3>7. ReadsVouchedFor'
      BY <2>2, <3>1, <3>2, <3>5, <3>6 DEF ReadsVouchedFor
    <3>8. FilesAgree'
      BY <2>2, <3>1 DEF FilesAgree
    <3> QED BY <3>7, <3>8
  <2> QED BY <2>3, <2>4
<1>2. CASE Files!Fetch
  BY <1>2 DEF Files!Fetch, CacheInv, FilesAgree, ReadsVouchedFor, Files!cache_needs_update
<1>3. CASE Files!WriteData
  <2>1. /\ cache_phase = "answered" /\ cache_phase' = "data_written"
        /\ UNCHANGED <<meta, now, asked, content, accepted, written>>
        /\ data' = [input |-> asked, content |-> content] /\ ~disturbed
    BY <1>3 DEF Files!WriteData
  <2>2. FilesAgree /\ ReadsVouchedFor
    BY <2>1 DEF CacheInv
  <2>3. Files!cache_needs_update(asked)'
    BY <2>1, <2>2 DEF FilesAgree, Files!cache_needs_update
  <2>4. data' # NoFile
    BY <2>1 DEF Files!NoFile
  <2>5. FilesAgree'
    BY <2>1, <2>2, <2>3, <2>4 DEF FilesAgree
  <2>6. ReadsVouchedFor'
    BY <2>1, <2>2 DEF ReadsVouchedFor
  <2> QED BY <2>5, <2>6
<1>4. CASE Files!WriteMeta
  <2>1. /\ cache_phase = "data_written" /\ cache_phase' = "idle"
        /\ UNCHANGED <<data, now, asked, content, accepted>>
    BY <1>4 DEF Files!WriteMeta
  <2>2. ~disturbed
    BY <1>4 DEF Files!WriteMeta, Files!LeavesMeta
  <2>3. /\ FilesAgree /\ ReadsVouchedFor /\ CacheTypeOK
        /\ data # NoFile /\ data.input = asked /\ data.content = content
        /\ Files!cache_needs_update(asked)
    BY <2>1, <2>2 DEF CacheInv, FilesAgree
  <2>4. ReadsVouchedFor'
    BY <2>1, <2>3 DEF ReadsVouchedFor
  <2>5. CASE content # "empty" /\ meta' = [input |-> asked, time |-> now] /\ written' = now
    <3>1. meta'.time <= written' /\ meta'.input = data'.input /\ data'.content = "whole"
      BY <2>1, <2>3, <2>5 DEF CacheTypeOK
    <3> QED BY <2>1, <2>3, <2>4, <3>1 DEF FilesAgree
  <2>6. CASE UNCHANGED <<meta, written>> /\ (meta = NoFile \/ meta.input = asked)
    <3>1. meta # NoFile => ~(now <= meta.time + Ttl)
      BY <2>3, <2>6 DEF Files!cache_needs_update, CacheTypeOK
    <3> QED BY <2>1, <2>3, <2>4, <2>6, <3>1 DEF FilesAgree
  <2> QED BY <1>4, <2>5, <2>6 DEF Files!WriteMeta, Files!LeavesMeta
<1>5. CASE Files!Restart
  <2>1. /\ cache_phase # "idle" /\ cache_phase' = "idle" /\ accepted' = NoFile
        /\ UNCHANGED <<data, meta, now, asked, content, written>>
    BY <1>5 DEF Files!Restart
  <2>2. ~disturbed /\ (cache_phase = "data_written" => meta = NoFile \/ meta.input = asked)
    BY <1>5 DEF Files!Restart, Files!LeavesMeta
  <2>3. FilesAgree /\ CacheTypeOK
    BY <2>2 DEF CacheInv
  <2>4. CASE cache_phase # "data_written"
    BY <2>1, <2>3, <2>4 DEF FilesAgree, ReadsVouchedFor
  <2>5. CASE cache_phase = "data_written"
    <3>1. meta # NoFile => ~(now <= meta.time + Ttl) /\ data.input = meta.input
      BY <2>2, <2>3, <2>5 DEF Files!cache_needs_update, FilesAgree, CacheTypeOK
    <3> QED BY <2>1, <2>3, <3>1 DEF FilesAgree, ReadsVouchedFor
  <2> QED BY <2>4, <2>5
<1>6. CASE Files!Tick
  <2>1. /\ now' = now + 1 /\ content' = content
        /\ UNCHANGED <<data, meta, asked, cache_phase, accepted, written, disturbed>>
    BY <1>6 DEF Files!Tick
  <2>2. FilesAgree /\ ReadsVouchedFor /\ CacheTypeOK
    BY <2>1 DEF CacheInv
  <2>3. meta # NoFile => (now' <= meta.time + Ttl => now <= meta.time + Ttl)
    BY <2>1, <2>2 DEF CacheTypeOK
  <2>4. Files!cache_needs_update(asked) => Files!cache_needs_update(asked)'
    <3>1. meta # NoFile => (now > meta.time + Ttl => now' > meta.time + Ttl)
      BY <2>1, <2>2 DEF CacheTypeOK
    <3> QED BY <2>1, <3>1 DEF Files!cache_needs_update
  <2> QED BY <2>1, <2>2, <2>3, <2>4 DEF FilesAgree, ReadsVouchedFor
<1>7. CASE UNCHANGED Files!cacheVars
  BY <1>7 DEF Files!cacheVars, CacheInv, FilesAgree, ReadsVouchedFor, Files!cache_needs_update
<1> QED BY <1>1, <1>2, <1>3, <1>4, <1>5, <1>6, <1>7 DEF Files!CacheNext

(***************************************************************************)
(* For any inputs, answers of any lengths, any time to live and any clock, *)
(* with stops between the two files and writes that fail: what a read of   *)
(* the cache accepts while no file was disturbed is the whole answer to    *)
(* what was asked, and not too old (cache_read, cache_write and            *)
(* cache_needs_update in base/cache.cpp).                                  *)
(***************************************************************************)
THEOREM CacheVouches ==
  ASSUME Ttl \in Nat, MaxTime \in Nat
  PROVE  Files!CacheInit /\ [][Files!CacheNext]_(Files!cacheVars)
           => []MetaVouchesForData
<1>1. Files!CacheInit => CacheInv
  <2> SUFFICES ASSUME Files!CacheInit PROVE CacheInv
    OBVIOUS
  <2>1. CacheTypeOK
    BY DEF Files!CacheInit, CacheTypeOK, NoFile
  <2>2. FilesAgree /\ ReadsVouchedFor
    BY DEF Files!CacheInit, FilesAgree, ReadsVouchedFor, NoFile
  <2> QED BY <2>1, <2>2 DEF CacheInv
<1>2. CacheInv /\ [Files!CacheNext]_(Files!cacheVars) => CacheInv'
  <2> SUFFICES ASSUME CacheInv, [Files!CacheNext]_(Files!cacheVars) PROVE CacheInv'
    OBVIOUS
  <2>1. CacheTypeOK'
    BY CacheKeepsTypes DEF CacheInv
  <2> QED BY <2>1, CacheKeepsFilesAgree DEF CacheInv
<1>3. CacheInv => MetaVouchesForData
  BY DEF CacheInv, FilesAgree, ReadsVouchedFor, MetaVouchesForData, Files!MetaVouchesForData, NoFile
<1> QED BY <1>1, <1>2, <1>3, PTL

-----------------------------------------------------------------------------
(***************************************************************************)
(* Websocket.  What is gathered is the beginning of the message on the     *)
(* wire; what waits in msg_list came within this read, so that msg_arena   *)
(* was not cleared since; and what was written within this read carries    *)
(* its epoch.                                                              *)
(***************************************************************************)
Chunks   == [msg : Nat, part : Nat, epoch : Nat, read : Nat]
Messages == [chunks : Seq(Chunks), intact : BOOLEAN, epoch : Nat]

SessionTypeOK ==
  /\ ws_phase \in {"none", "idle", "performing", "ended"}
  /\ error \in {"none", "configure"} /\ added_to_multi \in BOOLEAN
  /\ wire \in [msg : Nat, part : 1 .. Parts]
  /\ chunk_list \in Seq(Chunks)
  /\ msg_list \in Seq(Messages) /\ latest \in Seq(Messages)
  /\ epoch \in Nat /\ reads \in Nat /\ newest \in Nat

\* A chunk of this read is as it was written, once the arena is not cleared.
OfThisRead(c) == ws_phase = "performing" /\ c.read = reads => c.epoch = epoch

GatheredSoFar ==
  ws_phase # "ended" =>
    /\ Len(chunk_list) = wire.part - 1
    /\ \A p \in 1 .. Len(chunk_list) :
         /\ chunk_list[p].msg = wire.msg /\ chunk_list[p].part = p
         /\ chunk_list[p].read <= reads /\ OfThisRead(chunk_list[p])

UnconfiguredIsSilent ==
  /\ error # "none" => wire.part = 1 /\ ~added_to_multi
  /\ ws_phase = "none" => wire.part = 1

WholeInOrder(s) ==
  /\ \A i \in 1 .. Len(s) : Session!Whole(s[i]) /\ Session!Number(s[i]) < wire.msg
  /\ \A i \in 1 .. Len(s) : \A k \in 1 .. i - 1 : Session!Number(s[k]) < Session!Number(s[i])
  /\ \A i \in 1 .. Len(s) :
       /\ \A p \in 1 .. Parts : s[i].chunks[p].read <= reads
       /\ (\A p \in 1 .. Parts : s[i].chunks[p].read = reads) => s[i].intact

Waiting ==
  /\ ws_phase # "performing" => msg_list = <<>>
  /\ newest < wire.msg
  /\ \A i \in 1 .. Len(msg_list) : newest < Session!Number(msg_list[i]) /\ msg_list[i].epoch = epoch

SessionInv ==
  /\ SessionTypeOK /\ GatheredSoFar /\ UnconfiguredIsSilent /\ Waiting
  /\ WholeInOrder(msg_list) /\ WholeInOrder(latest)

\* Every step of a session keeps the types.
LEMMA SessionKeepsTypes ==
  ASSUME Parts \in Nat \ {0}, SessionInv, [Session!WebsocketNext]_(Session!websocketVars)
  PROVE  SessionTypeOK'
<1> USE DEF SessionInv
<1>1. CASE Session!async_websocket_start
  BY <1>1 DEF Session!async_websocket_start, Session!_async_http_configure, SessionTypeOK
<1>2. CASE Session!ReadBegin
  BY <1>2 DEF Session!ReadBegin, SessionTypeOK
<1>3. CASE Session!_libcurl_ws_callback
  <2> DEFINE c == [msg |-> wire.msg, part |-> wire.part, epoch |-> epoch, read |-> reads]
             gathered == Append(chunk_list, c)
  <2>1. c \in Chunks /\ gathered \in Seq(Chunks)
    <3>1. c \in Chunks
      BY DEF SessionTypeOK, Chunks
    <3> QED BY <3>1 DEF SessionTypeOK
  <2>2. UNCHANGED <<ws_phase, error, added_to_multi, epoch, reads, latest, newest>>
    BY <1>3 DEF Session!_libcurl_ws_callback
  <2> HIDE DEF c
  <2>3. CASE wire.part = Parts
    <3>1. /\ wire' = [msg |-> wire.msg + 1, part |-> 1] /\ chunk_list' = <<>>
          /\ msg_list' = Append(msg_list, Session!str8_from_chunk_list(gathered))
      BY <1>3, <2>3 DEF Session!_libcurl_ws_callback, c
    <3>2. Session!str8_from_chunk_list(gathered) \in Messages
      <4>1. (\A i \in DOMAIN gathered : Session!Kept(gathered[i])) \in BOOLEAN
        BY Zenon
      <4> HIDE DEF gathered
      <4> QED BY <2>1, <4>1 DEF Session!str8_from_chunk_list, SessionTypeOK, Messages
    <3>3. msg_list' \in Seq(Messages)
      BY <3>1, <3>2, AppendAt DEF SessionTypeOK
    <3>4. wire' \in [msg : Nat, part : 1 .. Parts]
      BY <3>1 DEF SessionTypeOK
    <3> QED BY <2>2, <3>1, <3>3, <3>4 DEF SessionTypeOK
  <2>4. CASE wire.part # Parts
    <3>1. /\ wire' = [wire EXCEPT !.part = @ + 1] /\ chunk_list' = gathered
          /\ msg_list' = msg_list
      BY <1>3, <2>4 DEF Session!_libcurl_ws_callback, c
    <3>2. wire.msg \in Nat /\ wire.part \in 1 .. Parts /\ wire.part + 1 \in 1 .. Parts
      BY <2>4 DEF SessionTypeOK
    <3>3. wire' = [msg |-> wire.msg, part |-> wire.part + 1]
      BY <3>1 DEF SessionTypeOK
    <3>4. wire' \in [msg : Nat, part : 1 .. Parts]
      BY <3>2, <3>3
    <3> QED BY <2>1, <2>2, <3>1, <3>4 DEF SessionTypeOK
  <2> QED BY <2>3, <2>4
<1>4. CASE Session!ReadEnd
  <2>1. PICK seen \in {"none", "configure", "curl", "http", "disconnected"} :
          /\ Session!_ws_main(seen)
          /\ IF seen # "none" THEN Session!_curl_reset /\ Session!_async_http_configure
                              ELSE UNCHANGED <<chunk_list, error, added_to_multi>>
    BY <1>4 DEF Session!ReadEnd
  <2>2. wire' \in [msg : Nat, part : 1 .. Parts]
    BY <2>1 DEF Session!_ws_main, SessionTypeOK
  <2>3. /\ chunk_list' \in Seq(Chunks) /\ error' \in {"none", "configure"}
        /\ added_to_multi' \in BOOLEAN
    <3>1. CASE seen # "none"
      <4>1. chunk_list' = <<>> /\ error' \in {"none", "configure"}
        BY <2>1, <3>1 DEF Session!_curl_reset, Session!_async_http_configure
      <4>2. added_to_multi' \in BOOLEAN
        BY <2>1, <3>1, Zenon DEF Session!_async_http_configure
      <4> QED BY <4>1, <4>2
    <3>2. CASE seen = "none"
      BY <2>1, <3>2 DEF SessionTypeOK
    <3> QED BY <3>1, <3>2
  <2>4. /\ latest' = [i \in DOMAIN msg_list |->
                       [msg_list[i] EXCEPT !.intact = @ /\ msg_list[i].epoch = epoch]]
        /\ msg_list' = <<>> /\ epoch' = epoch + 1 /\ ws_phase' = "idle" /\ reads' = reads
    BY <1>4 DEF Session!ReadEnd, Session!HandOver, Session!Kept
  <2>5. latest' \in Seq(Messages)
    <3>1. /\ Len(msg_list) \in Nat /\ DOMAIN msg_list = 1 .. Len(msg_list)
          /\ \A i \in DOMAIN msg_list : msg_list[i] \in Messages
      BY DEF SessionTypeOK
    <3>2. ASSUME NEW i \in DOMAIN msg_list
          PROVE  [msg_list[i] EXCEPT !.intact = @ /\ msg_list[i].epoch = epoch] \in Messages
      <4>1. (msg_list[i].intact /\ msg_list[i].epoch = epoch) \in BOOLEAN
        BY Zenon
      <4> QED BY <3>1, <4>1 DEF Messages
    <3>3. latest' \in [1 .. Len(msg_list) -> Messages]
      BY <2>4, <3>1, <3>2
    <3> QED BY <3>1, <3>3
  <2>6. newest' \in Nat
    <3>1. CASE msg_list = <<>>
      BY <1>4, <3>1 DEF Session!ReadEnd, SessionTypeOK
    <3>2. CASE msg_list # <<>>
      <4>1. Len(msg_list) \in 1 .. Len(msg_list) /\ Session!Last(msg_list) = msg_list[Len(msg_list)]
        BY <3>2 DEF SessionTypeOK, Session!Last
      <4>2. /\ msg_list[Len(msg_list)].chunks \in Seq(Chunks)
            /\ Len(msg_list[Len(msg_list)].chunks) = Parts
        <5>1. msg_list[Len(msg_list)] \in Messages
          BY <4>1 DEF SessionTypeOK
        <5>2. Session!Whole(msg_list[Len(msg_list)])
          BY <4>1 DEF WholeInOrder
        <5> QED BY <5>1, <5>2 DEF Session!Whole, Messages
      <4>3. msg_list[Len(msg_list)].chunks[1] \in Chunks
        BY <4>2
      <4>4. Session!Number(Session!Last(msg_list)) \in Nat
        BY <4>1, <4>3 DEF Session!Number, Chunks
      <4> QED BY <1>4, <3>2, <4>4 DEF Session!ReadEnd
    <3> QED BY <3>1, <3>2
  <2> QED BY <2>2, <2>3, <2>4, <2>5, <2>6 DEF SessionTypeOK
<1>5. CASE Session!_async_http_connection_end
  BY <1>5 DEF Session!_async_http_connection_end, SessionTypeOK
<1>6. CASE UNCHANGED Session!websocketVars
  BY <1>6 DEF Session!websocketVars, SessionTypeOK
<1> QED BY <1>1, <1>2, <1>3, <1>4, <1>5, <1>6 DEF Session!WebsocketNext

\* A whole message has all its chunks, and a number.
LEMMA WholeMessage ==
  ASSUME Parts \in Nat \ {0}, NEW m \in Messages, Session!Whole(m)
  PROVE  Session!Number(m) \in Nat /\ \A p \in 1 .. Parts : m.chunks[p] \in Chunks
<1>1. m.chunks \in Seq(Chunks) /\ Len(m.chunks) = Parts
  BY DEF Messages, Session!Whole
<1>2. \A p \in 1 .. Parts : m.chunks[p] \in Chunks
  BY <1>1
<1>3. m.chunks[1] \in Chunks
  BY <1>2
<1> QED BY <1>2, <1>3 DEF Session!Number, Chunks

\* What a list of whole messages needs of the wire and the reads is kept when they advance.
LEMMA StaysWhole ==
  ASSUME Parts \in Nat \ {0}, SessionTypeOK, SessionTypeOK', NEW s \in Seq(Messages), WholeInOrder(s),
         wire.msg <= wire'.msg,
         reads' = reads \/ reads' = reads + 1
  PROVE  WholeInOrder(s)'
<1>1. \A i \in 1 .. Len(s) : s[i] \in Messages /\ Session!Whole(s[i])
  BY DEF WholeInOrder
<1>2. \A i \in 1 .. Len(s) : /\ Session!Number(s[i]) \in Nat
                             /\ \A p \in 1 .. Parts : s[i].chunks[p] \in Chunks
  BY <1>1, WholeMessage
<1>3. \A i \in 1 .. Len(s) : Session!Number(s[i]) < wire'.msg
  BY <1>2, SMTT(60) DEF WholeInOrder, SessionTypeOK
<1>4. \A i \in 1 .. Len(s) : \A p \in 1 .. Parts : s[i].chunks[p].read \in Nat /\ s[i].chunks[p].read <= reads
  BY <1>2 DEF WholeInOrder, Chunks
<1>5. \A i \in 1 .. Len(s) : \A p \in 1 .. Parts :
        /\ s[i].chunks[p].read <= reads'
        /\ s[i].chunks[p].read = reads' => reads' = reads
  <2>1. \A x \in Nat : x <= reads => x <= reads' /\ (x = reads' => reads' = reads)
    BY DEF SessionTypeOK
  <2> QED BY <1>4, <2>1
<1>6. ASSUME NEW i \in 1 .. Len(s), \A p \in 1 .. Parts : s[i].chunks[p].read = reads'
      PROVE  s[i].intact
  <2>1. 1 \in 1 .. Parts
    OBVIOUS
  <2>2. reads' = reads
    BY <1>5, <1>6, <2>1
  <2> QED BY <1>6, <2>2 DEF WholeInOrder
<1> QED BY <1>3, <1>5, <1>6 DEF WholeInOrder

\* A chunk that arrives extends what is gathered, or completes a message.
LEMMA CallbackKeepsSession ==
  ASSUME Parts \in Nat \ {0}, SessionInv, SessionTypeOK', Session!_libcurl_ws_callback
  PROVE  /\ GatheredSoFar' /\ UnconfiguredIsSilent' /\ Waiting'
         /\ WholeInOrder(msg_list)' /\ WholeInOrder(latest)'
<1> DEFINE c == [msg |-> wire.msg, part |-> wire.part, epoch |-> epoch, read |-> reads]
           gathered == Append(chunk_list, c)
           message == Session!str8_from_chunk_list(gathered)
<1>1. /\ UNCHANGED <<ws_phase, error, added_to_multi, epoch, reads, latest, newest>>
      /\ ws_phase = "performing" /\ added_to_multi
  BY DEF Session!_libcurl_ws_callback
<1>2. SessionTypeOK /\ GatheredSoFar /\ Waiting /\ error = "none" /\ WholeInOrder(msg_list) /\ WholeInOrder(latest)
  BY <1>1 DEF SessionInv, UnconfiguredIsSilent, SessionTypeOK
<1>3. wire.msg \in Nat /\ wire.part \in 1 .. Parts
  BY <1>2 DEF SessionTypeOK
<1>4. c \in Chunks /\ c.msg = wire.msg /\ c.part = wire.part /\ c.epoch = epoch /\ c.read = reads
  BY <1>2, <1>3 DEF Chunks, SessionTypeOK
<1> HIDE DEF c
<1>5. /\ gathered \in Seq(Chunks) /\ Len(gathered) = wire.part
      /\ \A p \in 1 .. wire.part :
           /\ gathered[p].msg = wire.msg /\ gathered[p].part = p
           /\ gathered[p].read <= reads /\ (gathered[p].read = reads => gathered[p].epoch = epoch)
  <2>1. /\ chunk_list \in Seq(Chunks) /\ Len(chunk_list) = wire.part - 1
        /\ \A p \in 1 .. wire.part - 1 :
             /\ chunk_list[p].msg = wire.msg /\ chunk_list[p].part = p
             /\ chunk_list[p].read <= reads /\ (chunk_list[p].read = reads => chunk_list[p].epoch = epoch)
    BY <1>1, <1>2 DEF GatheredSoFar, OfThisRead, SessionTypeOK
  <2>2. /\ gathered \in Seq(Chunks) /\ Len(gathered) = Len(chunk_list) + 1
        /\ \A p \in 1 .. Len(chunk_list) : gathered[p] = chunk_list[p]
        /\ gathered[Len(chunk_list) + 1] = c
    BY <1>4, <2>1, AppendAt
  <2> HIDE DEF gathered
  <2>3. Len(gathered) = wire.part /\ gathered[wire.part] = c
    BY <1>3, <2>1, <2>2
  <2>4. reads \in Nat
    BY <1>2 DEF SessionTypeOK
  <2>5. \A p \in 1 .. wire.part : p = wire.part \/ (p \in 1 .. wire.part - 1 /\ gathered[p] = chunk_list[p])
    <3>1. \A p \in 1 .. wire.part : p = wire.part \/ p \in 1 .. wire.part - 1
      BY <1>3
    <3> QED BY <2>1, <2>2, <3>1
  <2>6. c.read <= reads
    BY <1>4, <2>4
  <2> QED BY <1>4, <2>1, <2>2, <2>3, <2>5, <2>6
<1> HIDE DEF gathered
<1>6. CASE wire.part = Parts
  <2>1. /\ wire' = [msg |-> wire.msg + 1, part |-> 1] /\ chunk_list' = <<>>
        /\ msg_list' = Append(msg_list, message)
    BY <1>6 DEF Session!_libcurl_ws_callback, c, gathered
  <2>2. /\ message.chunks = gathered /\ message.epoch = epoch
        /\ message.intact = (\A i \in DOMAIN gathered : gathered[i].epoch = epoch)
    BY DEF Session!str8_from_chunk_list, Session!Kept
  <2>3. message \in Messages
    <3>1. (\A i \in DOMAIN gathered : Session!Kept(gathered[i])) \in BOOLEAN
      BY Zenon
    <3>2. gathered \in Seq(Chunks) /\ epoch \in Nat
      BY <1>2, <1>5 DEF SessionTypeOK
    <3> QED BY <3>1, <3>2 DEF Session!str8_from_chunk_list, Messages
  <2> HIDE DEF message
  <2>4. Session!Number(message) = wire.msg /\ Session!Whole(message)
    <3>1. 1 \in 1 .. wire.part
      BY <1>3
    <3>2. Session!Number(message) = wire.msg
      BY <1>5, <2>2, <3>1 DEF Session!Number
    <3> QED BY <1>5, <1>6, <2>2, <3>2 DEF Session!Whole
  <2>5. /\ \A p \in 1 .. Parts : message.chunks[p].read <= reads
        /\ (\A p \in 1 .. Parts : message.chunks[p].read = reads) => message.intact
    <3>1. DOMAIN gathered = 1 .. Parts
      BY <1>5, <1>6
    <3> QED BY <1>5, <1>6, <2>2, <3>1
  <2>6. /\ msg_list' \in Seq(Messages) /\ Len(msg_list') = Len(msg_list) + 1 /\ Len(msg_list) \in Nat
        /\ \A i \in 1 .. Len(msg_list) : msg_list'[i] = msg_list[i]
        /\ msg_list'[Len(msg_list) + 1] = message
    BY <1>2, <2>1, <2>3, AppendAt DEF SessionTypeOK
  <2>7. \A i \in 1 .. Len(msg_list') : i = Len(msg_list) + 1 \/ i \in 1 .. Len(msg_list)
    BY <2>6
  <2>8. wire.msg <= wire'.msg /\ wire.msg < wire'.msg
    BY <1>3, <2>1
  <2>9. WholeInOrder(msg_list)'
    <3>1. \A i \in 1 .. Len(msg_list) : Session!Number(msg_list[i]) \in Nat
      BY <1>2, WholeMessage, SMTT(60) DEF SessionTypeOK, WholeInOrder
    <3>2. \A i \in 1 .. Len(msg_list') : Session!Whole(msg_list'[i]) /\ Session!Number(msg_list'[i]) < wire'.msg
      <4>1. \A i \in 1 .. Len(msg_list) : Session!Number(msg_list[i]) < wire'.msg
        BY <1>2, <1>3, <2>1, <3>1 DEF WholeInOrder
      <4> QED BY <1>2, <2>4, <2>6, <2>7, <2>8, <4>1 DEF WholeInOrder
    <3>3. \A i \in 1 .. Len(msg_list') : \A k \in 1 .. i - 1 :
            Session!Number(msg_list'[k]) < Session!Number(msg_list'[i])
      <4> SUFFICES ASSUME NEW i \in 1 .. Len(msg_list'), NEW k \in 1 .. i - 1
                   PROVE  Session!Number(msg_list'[k]) < Session!Number(msg_list'[i])
        OBVIOUS
      <4>1. k \in 1 .. Len(msg_list) /\ msg_list'[k] = msg_list[k]
        BY <2>6
      <4>2. CASE i = Len(msg_list) + 1
        BY <1>2, <2>4, <2>6, <4>1, <4>2 DEF WholeInOrder
      <4>3. CASE i \in 1 .. Len(msg_list)
        BY <1>2, <2>6, <4>1, <4>3 DEF WholeInOrder
      <4> QED BY <2>7, <4>2, <4>3
    <3>4. \A i \in 1 .. Len(msg_list') :
            /\ \A p \in 1 .. Parts : msg_list'[i].chunks[p].read <= reads
            /\ (\A p \in 1 .. Parts : msg_list'[i].chunks[p].read = reads) => msg_list'[i].intact
      BY <1>2, <2>5, <2>6, <2>7 DEF WholeInOrder
    <3> QED BY <1>1, <3>2, <3>3, <3>4 DEF WholeInOrder
  <2>10. WholeInOrder(latest)'
    <3>1. latest \in Seq(Messages) /\ reads' = reads
      BY <1>1, <1>2 DEF SessionTypeOK
    <3>2. \A i \in 1 .. Len(latest) : Session!Number(latest[i]) < wire.msg /\ Session!Number(latest[i]) \in Nat
      BY <1>2, <3>1, WholeMessage DEF WholeInOrder
    <3>3. \A i \in 1 .. Len(latest) : Session!Number(latest[i]) < wire'.msg
      BY <1>3, <2>1, <3>2
    <3> QED BY <1>1, <1>2, <3>1, <3>3 DEF WholeInOrder
  <2>11. Waiting'
    <3>1. newest < wire.msg /\ newest \in Nat
      BY <1>2 DEF Waiting, SessionTypeOK
    <3>2. newest < wire'.msg
      BY <1>3, <2>1, <3>1
    <3>3. \A i \in 1 .. Len(msg_list') : newest < Session!Number(msg_list'[i]) /\ msg_list'[i].epoch = epoch
      BY <1>2, <2>2, <2>4, <2>6, <2>7, <3>1 DEF Waiting
    <3> QED BY <1>1, <3>2, <3>3 DEF Waiting
  <2>12. GatheredSoFar' /\ UnconfiguredIsSilent'
    <3>1. Len(chunk_list') = 0 /\ wire'.part = 1
      BY <2>1
    <3> QED BY <1>1, <1>2, <3>1 DEF GatheredSoFar, UnconfiguredIsSilent
  <2> QED BY <2>9, <2>10, <2>11, <2>12
<1>7. CASE wire.part # Parts
  <2>1. /\ wire' = [wire EXCEPT !.part = @ + 1] /\ chunk_list' = gathered
        /\ msg_list' = msg_list
    BY <1>7 DEF Session!_libcurl_ws_callback, c, gathered
  <2>2. wire'.msg = wire.msg /\ wire'.part = wire.part + 1
    BY <1>2, <2>1 DEF SessionTypeOK
  <2>3. WholeInOrder(msg_list)' /\ WholeInOrder(latest)'
    BY <1>1, <1>2, <2>1, <2>2 DEF WholeInOrder
  <2>4. Waiting'
    BY <1>1, <1>2, <2>1, <2>2 DEF Waiting
  <2>5. GatheredSoFar'
    <3>1. Len(chunk_list') = wire'.part - 1
      BY <1>3, <1>5, <2>1, <2>2
    <3> QED BY <1>1, <1>5, <2>1, <2>2, <3>1 DEF GatheredSoFar, OfThisRead
  <2>6. UnconfiguredIsSilent'
    BY <1>1, <1>2 DEF UnconfiguredIsSilent
  <2> QED BY <2>3, <2>4, <2>5, <2>6
<1> QED BY <1>6, <1>7

\* The end of a read hands over what waited, and starts again if the connection broke.
LEMMA ReadEndKeepsSession ==
  ASSUME Parts \in Nat \ {0}, SessionInv, SessionTypeOK', Session!ReadEnd
  PROVE  /\ GatheredSoFar' /\ UnconfiguredIsSilent' /\ Waiting'
         /\ WholeInOrder(msg_list)' /\ WholeInOrder(latest)'
<1>1. /\ SessionTypeOK /\ GatheredSoFar /\ UnconfiguredIsSilent /\ Waiting
      /\ WholeInOrder(msg_list)
  BY DEF SessionInv
<1>2. /\ latest' = [i \in DOMAIN msg_list |->
                     [msg_list[i] EXCEPT !.intact = @ /\ msg_list[i].epoch = epoch]]
      /\ msg_list' = <<>> /\ epoch' = epoch + 1
      /\ ws_phase = "performing" /\ ws_phase' = "idle" /\ reads' = reads
      /\ newest' = IF msg_list = <<>> THEN newest ELSE Session!Number(Session!Last(msg_list))
  BY DEF Session!ReadEnd, Session!HandOver, Session!Kept
<1>3. PICK seen \in {"none", "configure", "curl", "http", "disconnected"} :
        /\ Session!_ws_main(seen)
        /\ IF seen # "none" THEN Session!_curl_reset /\ Session!_async_http_configure
                            ELSE UNCHANGED <<chunk_list, error, added_to_multi>>
  BY DEF Session!ReadEnd
<1>4. /\ wire.msg \in Nat /\ wire.part \in 1 .. Parts
      /\ epoch \in Nat /\ reads \in Nat
      /\ chunk_list \in Seq(Chunks) /\ Len(msg_list) \in Nat /\ DOMAIN msg_list = 1 .. Len(msg_list)
  BY <1>1 DEF SessionTypeOK
<1>5. wire.msg <= wire'.msg /\ wire'.msg \in Nat
  BY <1>3, <1>4 DEF Session!_ws_main, SessionTypeOK
<1>6. GatheredSoFar' /\ UnconfiguredIsSilent'
  <2>1. CASE seen = "none"
    <3>1. wire' = wire /\ error = "none" /\ UNCHANGED <<chunk_list, error, added_to_multi>>
      BY <1>3, <2>1 DEF Session!_ws_main
    <3> QED BY <1>1, <1>2, <3>1 DEF GatheredSoFar, UnconfiguredIsSilent, OfThisRead
  <2>2. CASE seen # "none"
    <3>1. chunk_list' = <<>> /\ added_to_multi' = (error' = "none")
      BY <1>3, <2>2 DEF Session!_curl_reset, Session!_async_http_configure
    <3>2. wire'.part = 1
      <4>1. CASE seen = error /\ wire' = wire
        BY <1>1, <2>2, <4>1 DEF UnconfiguredIsSilent
      <4>2. CASE wire' = IF wire.part = 1 THEN wire ELSE [msg |-> wire.msg + 1, part |-> 1]
        BY <4>2
      <4> QED BY <1>3, <4>1, <4>2 DEF Session!_ws_main
    <3>3. Len(chunk_list') = 0
      BY <3>1
    <3>4. error' # "none" => ~added_to_multi'
      BY <3>1, Zenon
    <3> QED BY <1>2, <3>2, <3>3, <3>4 DEF GatheredSoFar, UnconfiguredIsSilent
  <2> QED BY <2>1, <2>2
<1>7. \A i \in 1 .. Len(msg_list) :
        /\ msg_list[i] \in Messages /\ Session!Whole(msg_list[i])
        /\ Session!Number(msg_list[i]) \in Nat /\ msg_list[i].epoch = epoch
  BY <1>1, WholeMessage, SMTT(60) DEF WholeInOrder, Waiting, SessionTypeOK
<1>8. \A i \in 1 .. Len(msg_list) :
        /\ latest'[i].chunks = msg_list[i].chunks
        /\ latest'[i].intact = msg_list[i].intact
  BY <1>2, <1>4, <1>7 DEF Messages
<1>9. Len(latest') = Len(msg_list)
  BY <1>2, <1>4
<1>10. WholeInOrder(latest)'
  <2>1. \A i \in 1 .. Len(msg_list) :
          /\ Session!Number(latest'[i]) = Session!Number(msg_list[i])
          /\ Session!Whole(latest'[i])
    BY <1>7, <1>8 DEF Session!Number, Session!Whole
  <2>2. \A i \in 1 .. Len(msg_list) : Session!Number(msg_list[i]) < wire'.msg
    BY <1>1, <1>4, <1>5, <1>7 DEF WholeInOrder
  <2>3. \A i \in 1 .. Len(msg_list) : \A k \in 1 .. i - 1 :
          Session!Number(latest'[k]) < Session!Number(latest'[i])
    BY <1>1, <1>4, <2>1 DEF WholeInOrder
  <2>4. ASSUME NEW i \in 1 .. Len(msg_list)
        PROVE  /\ \A p \in 1 .. Parts : latest'[i].chunks[p].read <= reads'
               /\ (\A p \in 1 .. Parts : latest'[i].chunks[p].read = reads') => latest'[i].intact
    <3>1. /\ \A p \in 1 .. Parts : msg_list[i].chunks[p].read <= reads
          /\ (\A p \in 1 .. Parts : msg_list[i].chunks[p].read = reads) => msg_list[i].intact
      BY <1>1 DEF WholeInOrder
    <3>2. latest'[i].chunks = msg_list[i].chunks /\ latest'[i].intact = msg_list[i].intact
      BY <1>8
    <3> QED BY <1>2, <3>1, <3>2, Zenon
  <2> QED BY <1>9, <2>1, <2>2, <2>3, <2>4 DEF WholeInOrder
<1>11. WholeInOrder(msg_list)'
  BY <1>2 DEF WholeInOrder
<1>12. Waiting'
  <2>1. newest' < wire'.msg
    <3>1. CASE msg_list = <<>>
      BY <1>1, <1>2, <1>4, <1>5, <3>1 DEF Waiting, SessionTypeOK
    <3>2. CASE msg_list # <<>>
      <4>1. Len(msg_list) \in 1 .. Len(msg_list) /\ Session!Last(msg_list) = msg_list[Len(msg_list)]
        BY <1>1, <3>2 DEF SessionTypeOK, Session!Last
      <4>2. newest' < wire.msg /\ newest' \in Nat
        BY <1>1, <1>2, <1>7, <3>2, <4>1 DEF WholeInOrder
      <4> QED BY <1>4, <1>5, <4>2
    <3> QED BY <3>1, <3>2
  <2> QED BY <1>2, <2>1 DEF Waiting
<1> QED BY <1>6, <1>10, <1>11, <1>12

\* Every step keeps the session's invariant.
LEMMA StepKeepsSession ==
  ASSUME Parts \in Nat \ {0}, SessionInv, [Session!WebsocketNext]_(Session!websocketVars)
  PROVE  SessionInv'
<1>1. SessionTypeOK'
  BY SessionKeepsTypes
<1>2. /\ SessionTypeOK /\ GatheredSoFar /\ UnconfiguredIsSilent /\ Waiting
      /\ WholeInOrder(msg_list) /\ WholeInOrder(latest)
      /\ msg_list \in Seq(Messages) /\ latest \in Seq(Messages)
  BY DEF SessionInv, SessionTypeOK
<1>3. CASE Session!async_websocket_start
  <2>1. /\ ws_phase = "none" /\ ws_phase' = "idle"
        /\ UNCHANGED <<wire, chunk_list, msg_list, epoch, reads, latest, newest>>
    BY <1>3 DEF Session!async_websocket_start
  <2>2. WholeInOrder(msg_list)' /\ WholeInOrder(latest)'
    BY <1>2, <2>1 DEF WholeInOrder
  <2>3. GatheredSoFar' /\ Waiting'
    BY <1>2, <2>1 DEF GatheredSoFar, OfThisRead, Waiting
  <2>4. error' # "none" => ~added_to_multi' \/ (UNCHANGED <<error, added_to_multi>>)
    BY <1>3 DEF Session!async_websocket_start, Session!_async_http_configure
  <2>5. UnconfiguredIsSilent'
    BY <1>2, <2>1, <2>4 DEF UnconfiguredIsSilent
  <2> QED BY <1>1, <2>2, <2>3, <2>5 DEF SessionInv
<1>4. CASE Session!ReadBegin
  <2>1. /\ ws_phase = "idle" /\ ws_phase' = "performing" /\ reads' = reads + 1
        /\ UNCHANGED <<error, added_to_multi, wire, chunk_list, msg_list, epoch, latest, newest>>
    BY <1>4 DEF Session!ReadBegin
  <2>2. wire.msg <= wire'.msg
    BY <1>2, <2>1 DEF SessionTypeOK
  <2>3. WholeInOrder(latest)' /\ WholeInOrder(msg_list)'
    <3>1. PICK s \in Seq(Messages) : s = latest
      BY <1>2
    <3>2. WholeInOrder(s)'
      BY <1>1, <1>2, <2>1, <2>2, <3>1, StaysWhole
    <3>3. WholeInOrder(latest)'
      BY <2>1, <3>1, <3>2 DEF WholeInOrder
    <3>4. msg_list' = <<>>
      BY <1>2, <2>1 DEF Waiting
    <3> QED BY <3>3, <3>4 DEF WholeInOrder
  <2>4. GatheredSoFar'
    <3>1. \A p \in 1 .. Len(chunk_list) : chunk_list[p].read \in Nat
      <4>1. chunk_list \in Seq(Chunks)
        BY <1>2 DEF SessionTypeOK
      <4>2. \A p \in 1 .. Len(chunk_list) : chunk_list[p] \in Chunks
        BY <4>1
      <4> QED BY <4>2 DEF Chunks
    <3>2. reads \in Nat
      BY <1>2 DEF SessionTypeOK
    <3> QED BY <1>2, <2>1, <3>1, <3>2 DEF GatheredSoFar, OfThisRead
  <2>5. Waiting' /\ UnconfiguredIsSilent'
    BY <1>2, <2>1 DEF Waiting, UnconfiguredIsSilent
  <2> QED BY <1>1, <2>3, <2>4, <2>5 DEF SessionInv
<1>5. CASE Session!_libcurl_ws_callback
  BY <1>1, <1>5, CallbackKeepsSession DEF SessionInv
<1>6. CASE Session!ReadEnd
  BY <1>1, <1>6, ReadEndKeepsSession DEF SessionInv
<1>7. CASE Session!_async_http_connection_end
  <2>1. /\ ws_phase = "idle" /\ ws_phase' = "ended" /\ msg_list' = <<>>
        /\ UNCHANGED <<error, added_to_multi, wire, epoch, reads, latest, newest>>
    BY <1>7 DEF Session!_async_http_connection_end
  <2>2. WholeInOrder(msg_list)' /\ WholeInOrder(latest)'
    BY <1>2, <2>1 DEF WholeInOrder
  <2>3. GatheredSoFar' /\ Waiting' /\ UnconfiguredIsSilent'
    BY <1>2, <2>1 DEF GatheredSoFar, Waiting, UnconfiguredIsSilent
  <2> QED BY <1>1, <2>2, <2>3 DEF SessionInv
<1>8. CASE UNCHANGED Session!websocketVars
  <2>1. UNCHANGED <<ws_phase, error, added_to_multi, wire, chunk_list, msg_list, epoch, reads, latest, newest>>
    BY <1>8 DEF Session!websocketVars
  <2>2. WholeInOrder(msg_list)' /\ WholeInOrder(latest)'
    BY <1>2, <2>1 DEF WholeInOrder
  <2>3. GatheredSoFar' /\ Waiting' /\ UnconfiguredIsSilent'
    BY <1>2, <2>1 DEF GatheredSoFar, OfThisRead, Waiting, UnconfiguredIsSilent
  <2> QED BY <1>1, <2>2, <2>3 DEF SessionInv
<1> QED BY <1>3, <1>4, <1>5, <1>6, <1>7, <1>8 DEF Session!WebsocketNext

(***************************************************************************)
(* For messages of any number of chunks, and any number of messages, reads *)
(* and broken connections: what a read returns are messages the server     *)
(* sent, each whole, once and in order, and what came within the read has  *)
(* the bytes that were sent (_async_websocket_read, _libcurl_ws_callback   *)
(* in async/async_websocket.cpp).                                          *)
(***************************************************************************)
THEOREM SessionReadsWhole ==
  ASSUME Parts \in Nat \ {0}
  PROVE  Session!WebsocketInit /\ [][Session!WebsocketNext]_(Session!websocketVars)
           => []ReadsWholeMessages
<1>1. Session!WebsocketInit => SessionInv
  <2> SUFFICES ASSUME Session!WebsocketInit PROVE SessionInv
    OBVIOUS
  <2>1. SessionTypeOK
    <3>1. 1 \in 1 .. Parts
      OBVIOUS
    <3>2. [msg |-> 1, part |-> 1] \in [msg : Nat, part : 1 .. Parts]
      BY <3>1
    <3>3. chunk_list \in Seq(Chunks) /\ msg_list \in Seq(Messages) /\ latest \in Seq(Messages)
      BY DEF Session!WebsocketInit
    <3> QED BY <3>2, <3>3 DEF Session!WebsocketInit, SessionTypeOK
  <2>2. GatheredSoFar /\ UnconfiguredIsSilent /\ Waiting
    BY DEF Session!WebsocketInit, GatheredSoFar, UnconfiguredIsSilent, Waiting
  <2>3. WholeInOrder(msg_list) /\ WholeInOrder(latest)
    BY DEF Session!WebsocketInit, WholeInOrder
  <2> QED BY <2>1, <2>2, <2>3 DEF SessionInv
<1>2. SessionInv /\ [Session!WebsocketNext]_(Session!websocketVars) => SessionInv'
  BY StepKeepsSession
<1>3. SessionInv => ReadsWholeMessages
  <2> SUFFICES ASSUME SessionInv PROVE ReadsWholeMessages
    OBVIOUS
  <2>1. DOMAIN latest = 1 .. Len(latest) /\ DOMAIN msg_list = 1 .. Len(msg_list)
    BY DEF SessionInv, SessionTypeOK
  <2> QED BY <2>1 DEF SessionInv, WholeInOrder, Waiting, ReadsWholeMessages, Session!ReadsWholeMessages
<1> QED BY <1>1, <1>2, <1>3, PTL

-----------------------------------------------------------------------------
(***************************************************************************)
(* ResourcePool.  A handle held has its item's generation, one given back  *)
(* an older one; the handles on the free list are of items nobody holds,   *)
(* each there once.                                                        *)
(***************************************************************************)
Handles == [idx : Nat, gen_id : Nat]
Items   == [gen_id : Nat, in_use : BOOLEAN]

OfItem(h, size) == h \in Handles /\ h.idx > 0 /\ h.idx < size

PoolTypeOK ==
  /\ pool \in Seq(Items) /\ Len(pool) > 0
  /\ freed_handles \in Seq(Handles)
  /\ owned \in SUBSET Handles /\ returned \in SUBSET Handles

HeldAreCurrent ==
  /\ \A h \in owned : /\ OfItem(h, Len(pool))
                      /\ pool[h.idx + 1].in_use /\ pool[h.idx + 1].gen_id = h.gen_id
  /\ \A h \in returned : OfItem(h, Len(pool)) /\ h.gen_id < pool[h.idx + 1].gen_id
  /\ \A g, h \in owned : g.idx = h.idx => g = h

FreedAreNobodys ==
  /\ \A i \in 1 .. Len(freed_handles) :
       /\ OfItem(freed_handles[i], Len(pool))
       /\ \A h \in owned : h.idx # freed_handles[i].idx
  /\ \A i, k \in 1 .. Len(freed_handles) :
       freed_handles[i].idx = freed_handles[k].idx => i = k

InUseAreHeld ==
  ~double_free => \A i \in 1 .. Len(pool) - 1 :
                    pool[i + 1].in_use => \E h \in owned : h.idx = i

PoolInv == PoolTypeOK /\ HeldAreCurrent /\ FreedAreNobodys /\ InUseAreHeld

\* A handle of the pool is marked at its own item, and nothing else changes.
LEMMA MarkedFacts ==
  ASSUME NEW s \in Seq(Items), NEW idx \in Nat, 0 < idx, idx < Len(s)
  PROVE  /\ Pool!Marked(s, idx) \in Seq(Items) /\ Len(Pool!Marked(s, idx)) = Len(s)
         /\ \A j \in 1 .. Len(s) : j # idx + 1 => Pool!Marked(s, idx)[j] = s[j]
         /\ Pool!Marked(s, idx)[idx + 1] = [gen_id |-> s[idx + 1].gen_id, in_use |-> TRUE]
<1> DEFINE m == [s EXCEPT ![idx + 1].in_use = TRUE]
<1>1. Pool!Marked(s, idx) = m
  BY DEF Pool!Marked
<1>2. idx + 1 \in 1 .. Len(s) /\ Len(s) \in Nat /\ DOMAIN s = 1 .. Len(s)
  OBVIOUS
<1>3. s[idx + 1] \in Items /\ s \in [1 .. Len(s) -> Items]
  BY <1>2
<1>4. m[idx + 1] = [gen_id |-> s[idx + 1].gen_id, in_use |-> TRUE]
  BY <1>2, <1>3 DEF Items
<1>5. m \in [1 .. Len(s) -> Items]
  BY <1>2, <1>3 DEF Items
<1>6. m \in Seq(Items) /\ Len(m) = Len(s)
  BY <1>2, <1>5
<1>7. \A j \in 1 .. Len(s) : j # idx + 1 => m[j] = s[j]
  BY <1>2
<1> QED BY <1>1, <1>4, <1>6, <1>7

\* An item handed out is of nobody, freed before or new.
LEMMA GetKeepsPool ==
  ASSUME PoolInv, Pool!resource_pool_array_idx_get
  PROVE  PoolInv'
<1> DEFINE reuse == freed_handles # <<>>
           idx   == IF reuse THEN freed_handles[Len(freed_handles)].idx ELSE Len(pool)
           grown == IF reuse THEN pool ELSE Append(pool, [gen_id |-> 0, in_use |-> FALSE])
           got   == [idx |-> idx, gen_id |-> grown[idx + 1].gen_id]
<1>1. /\ pool' = Pool!Marked(grown, idx) /\ owned' = owned \cup {got}
      /\ freed_handles' = IF reuse THEN SubSeq(freed_handles, 1, Len(freed_handles) - 1)
                                   ELSE freed_handles
      /\ returned' = returned /\ double_free' = double_free
  BY DEF Pool!resource_pool_array_idx_get
<1>2. PoolTypeOK /\ HeldAreCurrent /\ FreedAreNobodys /\ InUseAreHeld
  BY DEF PoolInv
<1>3. pool \in Seq(Items) /\ Len(pool) \in Nat /\ Len(pool) > 0
  BY <1>2 DEF PoolTypeOK
<1>4. freed_handles \in Seq(Handles) /\ Len(freed_handles) \in Nat
  BY <1>2 DEF PoolTypeOK
<1>5. /\ grown \in Seq(Items) /\ Len(grown) >= Len(pool) /\ Len(grown) <= Len(pool) + 1
      /\ \A j \in 1 .. Len(pool) : grown[j] = pool[j]
      /\ idx \in Nat /\ 0 < idx /\ idx < Len(grown)
      /\ Len(grown) = Len(pool) + 1 => idx = Len(pool)
  <2>1. CASE reuse
    <3>1. Len(freed_handles) \in 1 .. Len(freed_handles)
      BY <1>4, <2>1
    <3>2. OfItem(freed_handles[Len(freed_handles)], Len(pool))
      BY <1>2, <3>1 DEF FreedAreNobodys
    <3> QED BY <1>3, <2>1, <3>2 DEF OfItem, Handles
  <2>2. CASE ~reuse
    <3>1. [gen_id |-> 0, in_use |-> FALSE] \in Items
      BY DEF Items
    <3> QED BY <1>3, <2>2, <3>1
  <2> QED BY <2>1, <2>2
<1>6. \A h \in owned : h.idx # idx
  <2>1. CASE reuse
    <3>1. Len(freed_handles) \in 1 .. Len(freed_handles)
      BY <1>4, <2>1
    <3> QED BY <1>2, <2>1, <3>1 DEF FreedAreNobodys
  <2>2. CASE ~reuse
    <3>1. \A h \in owned : h.idx \in Nat /\ h.idx < Len(pool)
      BY <1>2 DEF HeldAreCurrent, OfItem, Handles
    <3> QED BY <1>3, <2>2, <3>1
  <2> QED BY <2>1, <2>2
<1>7. \A i \in 1 .. Len(freed_handles') :
        /\ i \in 1 .. Len(freed_handles) /\ freed_handles'[i] = freed_handles[i]
        /\ freed_handles'[i].idx # idx
  <2>1. CASE reuse
    <3>1. /\ Len(freed_handles) > 0 /\ Len(freed_handles') = Len(freed_handles) - 1
          /\ \A i \in 1 .. Len(freed_handles') : freed_handles'[i] = freed_handles[i]
      <4>1. PICK s \in Seq(Handles) : s = freed_handles
        BY <1>4
      <4> QED BY <1>1, <2>1, <4>1, FrontAt
    <3>2. \A i \in 1 .. Len(freed_handles') :
            i \in 1 .. Len(freed_handles) /\ i # Len(freed_handles)
      BY <1>4, <3>1
    <3>3. Len(freed_handles) \in 1 .. Len(freed_handles)
      BY <1>4, <3>1
    <3>4. idx = freed_handles[Len(freed_handles)].idx
      BY <2>1
    <3> HIDE DEF reuse, idx
    <3> QED BY <1>2, <3>1, <3>2, <3>3, <3>4 DEF FreedAreNobodys
  <2>2. CASE ~reuse
    BY <1>1, <1>4, <2>2
  <2> QED BY <2>1, <2>2
<1>8. freed_handles' \in Seq(Handles)
  BY <1>1, <1>4
<1> HIDE DEF reuse, idx, grown
<1>9. /\ pool' \in Seq(Items) /\ Len(pool') = Len(grown)
      /\ \A j \in 1 .. Len(grown) : j # idx + 1 => pool'[j] = grown[j]
      /\ pool'[idx + 1] = [gen_id |-> grown[idx + 1].gen_id, in_use |-> TRUE]
  BY <1>1, <1>5, MarkedFacts
<1>10. grown[idx + 1] \in Items
  <2>1. idx + 1 \in 1 .. Len(grown)
    BY <1>5
  <2> QED BY <1>5, <2>1
<1>11. got \in Handles /\ got.idx = idx /\ got.gen_id = grown[idx + 1].gen_id
  BY <1>5, <1>10 DEF Handles, Items
<1> HIDE DEF got
<1>12. \A h : OfItem(h, Len(pool)) =>
         /\ OfItem(h, Len(pool'))
         /\ pool'[h.idx + 1].gen_id = pool[h.idx + 1].gen_id
         /\ h.idx # idx => pool'[h.idx + 1] = pool[h.idx + 1]
  <2> SUFFICES ASSUME NEW h, OfItem(h, Len(pool))
               PROVE  /\ OfItem(h, Len(pool')) /\ pool'[h.idx + 1].gen_id = pool[h.idx + 1].gen_id
                      /\ h.idx # idx => pool'[h.idx + 1] = pool[h.idx + 1]
    OBVIOUS
  <2>1. h \in Handles /\ h.idx \in Nat /\ h.idx > 0 /\ h.idx < Len(pool)
    BY DEF OfItem, Handles
  <2>2. h.idx + 1 \in 1 .. Len(pool) /\ h.idx + 1 \in 1 .. Len(grown) /\ h.idx < Len(pool')
    BY <1>3, <1>5, <1>9, <2>1
  <2>3. OfItem(h, Len(pool'))
    BY <2>1, <2>2 DEF OfItem
  <2>4. CASE h.idx = idx
    BY <1>5, <1>9, <2>2, <2>3, <2>4
  <2>5. CASE h.idx # idx
    <3>1. h.idx + 1 # idx + 1
      BY <1>5, <2>1, <2>5
    <3> QED BY <1>5, <1>9, <2>2, <2>3, <3>1
  <2> QED BY <2>4, <2>5
<1>13. PoolTypeOK'
  BY <1>1, <1>2, <1>3, <1>5, <1>8, <1>9, <1>11 DEF PoolTypeOK
<1>14. HeldAreCurrent'
  <2>1. \A h \in owned' : /\ OfItem(h, Len(pool'))
                          /\ pool'[h.idx + 1].in_use /\ pool'[h.idx + 1].gen_id = h.gen_id
    <3>1. \A h \in owned : /\ OfItem(h, Len(pool'))
                           /\ pool'[h.idx + 1].in_use /\ pool'[h.idx + 1].gen_id = h.gen_id
      <4> SUFFICES ASSUME NEW h \in owned
                   PROVE  /\ OfItem(h, Len(pool'))
                          /\ pool'[h.idx + 1].in_use /\ pool'[h.idx + 1].gen_id = h.gen_id
        OBVIOUS
      <4>1. /\ OfItem(h, Len(pool)) /\ h.idx # idx
            /\ pool[h.idx + 1].in_use /\ pool[h.idx + 1].gen_id = h.gen_id
        BY <1>2, <1>6 DEF HeldAreCurrent
      <4>2. pool'[h.idx + 1] = pool[h.idx + 1] /\ OfItem(h, Len(pool'))
        BY <1>12, <4>1 DEF OfItem
      <4> QED BY <4>1, <4>2
    <3>2. /\ OfItem(got, Len(pool'))
          /\ pool'[got.idx + 1].in_use /\ pool'[got.idx + 1].gen_id = got.gen_id
      BY <1>5, <1>9, <1>11 DEF OfItem
    <3> QED BY <1>1, <3>1, <3>2
  <2>2. \A h \in returned : OfItem(h, Len(pool')) /\ h.gen_id < pool'[h.idx + 1].gen_id
    <3> SUFFICES ASSUME NEW h \in returned
                 PROVE  OfItem(h, Len(pool')) /\ h.gen_id < pool'[h.idx + 1].gen_id
      OBVIOUS
    <3>1. OfItem(h, Len(pool)) /\ h.gen_id < pool[h.idx + 1].gen_id
      BY <1>2 DEF HeldAreCurrent
    <3>2. OfItem(h, Len(pool')) /\ pool'[h.idx + 1].gen_id = pool[h.idx + 1].gen_id
      BY <1>12, <3>1 DEF OfItem
    <3> QED BY <3>1, <3>2
  <2>3. \A g, h \in owned' : g.idx = h.idx => g = h
    BY <1>1, <1>2, <1>6, <1>11 DEF HeldAreCurrent
  <2> QED BY <1>1, <2>1, <2>2, <2>3 DEF HeldAreCurrent
<1>15. FreedAreNobodys'
  <2>1. \A i \in 1 .. Len(freed_handles') :
          OfItem(freed_handles'[i], Len(pool')) /\ \A h \in owned' : h.idx # freed_handles'[i].idx
    <3> SUFFICES ASSUME NEW i \in 1 .. Len(freed_handles')
                 PROVE  /\ OfItem(freed_handles'[i], Len(pool'))
                        /\ \A h \in owned' : h.idx # freed_handles'[i].idx
      OBVIOUS
    <3>1. PICK f \in Handles : f = freed_handles[i]
      BY <1>4, <1>7
    <3>2. /\ OfItem(f, Len(pool)) /\ f.idx # idx /\ freed_handles'[i] = f
          /\ \A h \in owned : h.idx # f.idx
      BY <1>2, <1>7, <3>1 DEF FreedAreNobodys
    <3>3. OfItem(f, Len(pool'))
      BY <1>12, <3>2 DEF OfItem
    <3> QED BY <1>1, <1>11, <3>2, <3>3
  <2>2. \A i, k \in 1 .. Len(freed_handles') :
          freed_handles'[i].idx = freed_handles'[k].idx => i = k
    BY <1>2, <1>7 DEF FreedAreNobodys
  <2> QED BY <2>1, <2>2 DEF FreedAreNobodys
<1>16. InUseAreHeld'
  <2> SUFFICES ASSUME ~double_free, NEW i \in 1 .. Len(pool') - 1, pool'[i + 1].in_use
               PROVE  \E h \in owned' : h.idx = i
    BY <1>1 DEF InUseAreHeld
  <2>1. CASE i = idx
    BY <1>1, <1>11, <2>1
  <2>2. CASE i # idx
    <3>1. i \in 1 .. Len(pool) - 1 /\ i + 1 # idx + 1
      BY <1>3, <1>5, <1>9, <2>2
    <3>2. i + 1 \in 1 .. Len(pool) /\ i + 1 \in 1 .. Len(grown)
      BY <1>3, <1>5, <3>1
    <3>3. pool'[i + 1] = pool[i + 1]
      BY <1>5, <1>9, <3>1, <3>2
    <3> QED BY <1>1, <1>2, <3>1, <3>3 DEF InUseAreHeld
  <2> QED BY <2>1, <2>2
<1> QED BY <1>13, <1>14, <1>15, <1>16 DEF PoolInv

\* A handle given back ends one generation; given back twice it ends none.
LEMMA FreeKeepsPool ==
  ASSUME PoolInv, NEW h \in owned \cup returned, Pool!resource_pool_item_free(h)
  PROVE  PoolInv'
<1> DEFINE marked == Pool!Marked(pool, h.idx)
           freed  == [gen_id |-> marked[h.idx + 1].gen_id + 1, in_use |-> FALSE]
           current == marked[h.idx + 1].gen_id = h.gen_id
<1>1. PoolTypeOK /\ HeldAreCurrent /\ FreedAreNobodys /\ InUseAreHeld
  BY DEF PoolInv
<1>2. OfItem(h, Len(pool)) /\ h \in Handles /\ h.idx \in Nat /\ h.gen_id \in Nat /\ h.idx > 0 /\ h.idx < Len(pool)
  BY <1>1 DEF HeldAreCurrent, OfItem, Handles
<1>3. pool \in Seq(Items) /\ Len(pool) \in Nat
  BY <1>1 DEF PoolTypeOK
<1>4. h.idx + 1 \in 1 .. Len(pool) /\ pool[h.idx + 1] \in Items /\ pool[h.idx + 1].gen_id \in Nat
  <2>1. h.idx + 1 \in 1 .. Len(pool)
    BY <1>2, <1>3
  <2>2. pool[h.idx + 1] \in Items
    BY <1>3, <2>1
  <2> QED BY <2>1, <2>2 DEF Items
<1>5. /\ marked \in Seq(Items) /\ Len(marked) = Len(pool)
      /\ \A j \in 1 .. Len(pool) : j # h.idx + 1 => marked[j] = pool[j]
      /\ marked[h.idx + 1] = [gen_id |-> pool[h.idx + 1].gen_id, in_use |-> TRUE]
  BY <1>2, <1>3, MarkedFacts
<1>6. /\ pool' = IF current THEN [marked EXCEPT ![h.idx + 1] =
                                     [gen_id |-> @.gen_id + 1, in_use |-> FALSE]]
                             ELSE marked
      /\ freed_handles' = IF current THEN Append(freed_handles, h) ELSE freed_handles
      /\ owned' = owned \ {h} /\ returned' = returned \cup {h}
      /\ double_free' = (double_free \/ h \in returned)
  BY <1>2 DEF Pool!resource_pool_item_free, Pool!Current
<1> HIDE DEF marked
<1>7. current <=> pool[h.idx + 1].gen_id = h.gen_id
  BY <1>5
<1>8. h \in owned => current
  BY <1>1, <1>7 DEF HeldAreCurrent
<1>9. h \in returned => ~current
  BY <1>1, <1>2, <1>4, <1>7 DEF HeldAreCurrent
<1>10. /\ pool' \in Seq(Items) /\ Len(pool') = Len(pool)
       /\ \A j \in 1 .. Len(pool) : j # h.idx + 1 => pool'[j] = pool[j]
       /\ pool'[h.idx + 1] = IF current
                                THEN [gen_id |-> h.gen_id + 1, in_use |-> FALSE]
                                ELSE [gen_id |-> pool[h.idx + 1].gen_id, in_use |-> TRUE]
  <2>1. CASE current
    <3>1. pool' = [marked EXCEPT ![h.idx + 1] = [gen_id |-> h.gen_id + 1, in_use |-> FALSE]]
      BY <1>6, <2>1
    <3>2. [gen_id |-> h.gen_id + 1, in_use |-> FALSE] \in Items
      BY <1>2 DEF Items
    <3>3. marked \in [1 .. Len(pool) -> Items] /\ h.idx + 1 \in DOMAIN marked
      BY <1>4, <1>5
    <3>4. pool' \in [1 .. Len(pool) -> Items]
      BY <3>1, <3>2, <3>3
    <3>5. pool' \in Seq(Items) /\ Len(pool') = Len(pool)
      BY <1>3, <3>4
    <3> QED BY <1>4, <1>5, <2>1, <3>1, <3>3, <3>5
  <2>2. CASE ~current
    BY <1>5, <1>6, <2>2
  <2> QED BY <2>1, <2>2
<1> HIDE DEF current
<1>11. \A g : OfItem(g, Len(pool)) => OfItem(g, Len(pool')) /\ g.idx \in Nat /\ g.idx + 1 \in 1 .. Len(pool)
  BY <1>3, <1>10 DEF OfItem, Handles
<1>12. CASE h \in owned
  <2>1. current
    BY <1>8, <1>12
  <2>2. \A g \in owned' : g \in owned /\ g.idx # h.idx
    BY <1>1, <1>6, <1>12 DEF HeldAreCurrent
  <2>3. \A g : OfItem(g, Len(pool)) /\ g.idx # h.idx => pool'[g.idx + 1] = pool[g.idx + 1]
    <3> SUFFICES ASSUME NEW g, OfItem(g, Len(pool)), g.idx # h.idx
                 PROVE  pool'[g.idx + 1] = pool[g.idx + 1]
      OBVIOUS
    <3>1. g.idx + 1 # h.idx + 1
      BY <1>2, <1>11
    <3> QED BY <1>10, <1>11, <3>1
  <2>4. /\ freed_handles \in Seq(Handles) /\ freed_handles' = Append(freed_handles, h)
        /\ Len(freed_handles) \in Nat
    BY <1>1, <1>6, <2>1 DEF PoolTypeOK
  <2>5. /\ freed_handles' \in Seq(Handles) /\ Len(freed_handles') = Len(freed_handles) + 1
        /\ \A i \in 1 .. Len(freed_handles') :
             \/ i \in 1 .. Len(freed_handles) /\ freed_handles'[i] = freed_handles[i]
             \/ i = Len(freed_handles) + 1 /\ freed_handles'[i] = h
    BY <1>2, <2>4
  <2>6. \A i \in 1 .. Len(freed_handles) : OfItem(freed_handles[i], Len(pool)) /\ freed_handles[i].idx # h.idx
    BY <1>1, <1>12 DEF FreedAreNobodys
  <2>7. PoolTypeOK'
    BY <1>1, <1>2, <1>3, <1>6, <1>10, <2>5 DEF PoolTypeOK
  <2>8. HeldAreCurrent'
    <3>1. \A g \in owned' : /\ OfItem(g, Len(pool'))
                            /\ pool'[g.idx + 1].in_use /\ pool'[g.idx + 1].gen_id = g.gen_id
      BY <1>1, <1>11, <2>2, <2>3 DEF HeldAreCurrent
    <3>2. \A g \in returned : OfItem(g, Len(pool')) /\ g.gen_id < pool'[g.idx + 1].gen_id
      <4> SUFFICES ASSUME NEW g \in returned PROVE OfItem(g, Len(pool')) /\ g.gen_id < pool'[g.idx + 1].gen_id
        OBVIOUS
      <4>1. OfItem(g, Len(pool)) /\ g.gen_id < pool[g.idx + 1].gen_id /\ g.gen_id \in Nat
        BY <1>1 DEF HeldAreCurrent, OfItem, Handles
      <4>2. OfItem(g, Len(pool'))
        BY <1>11, <4>1
      <4>3. CASE g.idx = h.idx
        <5>1. g.gen_id < h.gen_id
          BY <1>7, <2>1, <4>1, <4>3
        <5> QED BY <1>2, <1>10, <2>1, <4>1, <4>2, <4>3, <5>1
      <4>4. CASE g.idx # h.idx
        BY <2>3, <4>1, <4>2, <4>4
      <4> QED BY <4>3, <4>4
    <3>3. OfItem(h, Len(pool')) /\ h.gen_id < pool'[h.idx + 1].gen_id
      BY <1>2, <1>10, <1>11, <2>1
    <3>4. \A g, k \in owned' : g.idx = k.idx => g = k
      BY <1>1, <2>2 DEF HeldAreCurrent
    <3> QED BY <1>6, <3>1, <3>2, <3>3, <3>4 DEF HeldAreCurrent
  <2>9. FreedAreNobodys'
    <3>1. \A i \in 1 .. Len(freed_handles') :
            OfItem(freed_handles'[i], Len(pool')) /\ \A g \in owned' : g.idx # freed_handles'[i].idx
      BY <1>1, <1>2, <1>11, <2>2, <2>5, <2>6 DEF FreedAreNobodys
    <3>2. \A i, k \in 1 .. Len(freed_handles') :
            freed_handles'[i].idx = freed_handles'[k].idx => i = k
      BY <1>1, <2>5, <2>6 DEF FreedAreNobodys
    <3> QED BY <3>1, <3>2 DEF FreedAreNobodys
  <2>10. InUseAreHeld'
    <3> SUFFICES ASSUME ~double_free, NEW i \in 1 .. Len(pool) - 1, pool'[i + 1].in_use
                 PROVE  \E g \in owned' : g.idx = i
      BY <1>6, <1>10 DEF InUseAreHeld
    <3>1. i # h.idx
      BY <1>10, <2>1
    <3>2. i + 1 # h.idx + 1 /\ i + 1 \in 1 .. Len(pool)
      BY <1>2, <1>3, <3>1
    <3>3. pool'[i + 1] = pool[i + 1]
      BY <1>10, <3>2
    <3>4. PICK g \in owned : g.idx = i
      BY <1>1, <3>3 DEF InUseAreHeld
    <3>5. g # h
      BY <3>1, <3>4
    <3> QED BY <1>6, <3>4, <3>5
  <2> QED BY <2>7, <2>8, <2>9, <2>10 DEF PoolInv
<1>13. CASE h \notin owned
  <2>1. h \in returned /\ ~current
    BY <1>9, <1>13
  <2>2. /\ owned' = owned /\ returned' = returned /\ double_free'
        /\ freed_handles' = freed_handles
    BY <1>6, <1>13, <2>1
  <2>3. \A g : OfItem(g, Len(pool)) =>
          /\ pool'[g.idx + 1].gen_id = pool[g.idx + 1].gen_id
          /\ pool[g.idx + 1].in_use => pool'[g.idx + 1].in_use
    <3> SUFFICES ASSUME NEW g, OfItem(g, Len(pool))
                 PROVE  /\ pool'[g.idx + 1].gen_id = pool[g.idx + 1].gen_id
                        /\ pool[g.idx + 1].in_use => pool'[g.idx + 1].in_use
      OBVIOUS
    <3>1. CASE g.idx = h.idx
      BY <1>10, <2>1, <3>1
    <3>2. CASE g.idx # h.idx
      <4>1. g.idx + 1 # h.idx + 1
        BY <1>2, <1>11, <3>2
      <4> QED BY <1>10, <1>11, <4>1
    <3> QED BY <3>1, <3>2
  <2>4. PoolTypeOK'
    BY <1>1, <1>3, <1>10, <2>2 DEF PoolTypeOK
  <2>5. HeldAreCurrent'
    <3>1. \A g \in owned : /\ OfItem(g, Len(pool'))
                           /\ pool'[g.idx + 1].in_use /\ pool'[g.idx + 1].gen_id = g.gen_id
      <4> SUFFICES ASSUME NEW g \in owned
                   PROVE  /\ OfItem(g, Len(pool'))
                          /\ pool'[g.idx + 1].in_use /\ pool'[g.idx + 1].gen_id = g.gen_id
        OBVIOUS
      <4>1. /\ OfItem(g, Len(pool))
            /\ pool[g.idx + 1].in_use /\ pool[g.idx + 1].gen_id = g.gen_id
        BY <1>1 DEF HeldAreCurrent
      <4>2. /\ OfItem(g, Len(pool'))
            /\ pool'[g.idx + 1].gen_id = pool[g.idx + 1].gen_id
            /\ pool[g.idx + 1].in_use => pool'[g.idx + 1].in_use
        BY <1>11, <2>3, <4>1 DEF OfItem
      <4> QED BY <4>1, <4>2
    <3>2. \A g \in returned : OfItem(g, Len(pool')) /\ g.gen_id < pool'[g.idx + 1].gen_id
      <4> SUFFICES ASSUME NEW g \in returned
                   PROVE  OfItem(g, Len(pool')) /\ g.gen_id < pool'[g.idx + 1].gen_id
        OBVIOUS
      <4>1. OfItem(g, Len(pool)) /\ g.gen_id < pool[g.idx + 1].gen_id
        BY <1>1 DEF HeldAreCurrent
      <4>2. /\ OfItem(g, Len(pool'))
            /\ pool'[g.idx + 1].gen_id = pool[g.idx + 1].gen_id
            /\ pool[g.idx + 1].in_use => pool'[g.idx + 1].in_use
        BY <1>11, <2>3, <4>1 DEF OfItem
      <4> QED BY <4>1, <4>2
    <3> QED BY <1>1, <2>2, <3>1, <3>2 DEF HeldAreCurrent
  <2>6. FreedAreNobodys'
    BY <1>1, <1>11, <2>2 DEF FreedAreNobodys
  <2>7. InUseAreHeld'
    BY <2>2 DEF InUseAreHeld
  <2> QED BY <2>4, <2>5, <2>6, <2>7 DEF PoolInv
<1> QED BY <1>12, <1>13

(***************************************************************************)
(* For a pool of any size and generations of any number, handles freed     *)
(* twice included: a handle finds its item exactly from get to free, no    *)
(* two users hold one item, and the items in use are those held until a    *)
(* handle is freed twice (resource_pool_array_idx_get,                     *)
(* resource_pool_item_free in base/base_container.cpp).                    *)
(***************************************************************************)
THEOREM PoolOwnersExact ==
  Pool!ResourceInit /\ [][Pool!ResourceNext]_(Pool!resourceVars) => []OwnersExact
<1>1. Pool!ResourceInit => PoolInv
  <2> SUFFICES ASSUME Pool!ResourceInit PROVE PoolInv
    OBVIOUS
  <2>1. PoolTypeOK
    <3>1. [gen_id |-> 0, in_use |-> FALSE] \in Items
      BY DEF Items
    <3>2. pool \in Seq(Items) /\ Len(pool) = 1
      BY <3>1 DEF Pool!ResourceInit
    <3>3. freed_handles \in Seq(Handles)
      BY DEF Pool!ResourceInit
    <3> QED BY <3>2, <3>3 DEF Pool!ResourceInit, PoolTypeOK
  <2>2. Len(pool) = 1 /\ Len(freed_handles) = 0 /\ owned = {} /\ returned = {}
    BY DEF Pool!ResourceInit
  <2> QED BY <2>1, <2>2 DEF PoolInv, HeldAreCurrent, FreedAreNobodys, InUseAreHeld
<1>2. PoolInv /\ [Pool!ResourceNext]_(Pool!resourceVars) => PoolInv'
  <2> SUFFICES ASSUME PoolInv, [Pool!ResourceNext]_(Pool!resourceVars) PROVE PoolInv'
    OBVIOUS
  <2>1. CASE Pool!resource_pool_array_idx_get
    BY <2>1, GetKeepsPool
  <2>2. CASE \E h \in owned \cup returned : Pool!resource_pool_item_free(h)
    BY <2>2, FreeKeepsPool
  <2>3. CASE UNCHANGED Pool!resourceVars
    BY <2>3 DEF Pool!resourceVars, PoolInv, PoolTypeOK, HeldAreCurrent, FreedAreNobodys,
                InUseAreHeld, OfItem
  <2> QED BY <2>1, <2>2, <2>3 DEF Pool!ResourceNext
<1>3. PoolInv => OwnersExact
  <2> SUFFICES ASSUME PoolInv PROVE OwnersExact
    OBVIOUS
  <2>1. PoolTypeOK /\ HeldAreCurrent /\ InUseAreHeld
    BY DEF PoolInv
  <2>2. pool \in Seq(Items) /\ Len(pool) \in Nat
    BY <2>1 DEF PoolTypeOK
  <2>3. \A h \in owned : Pool!Finds(h)
    BY <2>1 DEF HeldAreCurrent, OfItem, Pool!Finds, Pool!InRange, Pool!Item
  <2>4. \A h \in returned : ~Pool!Finds(h)
    <3> SUFFICES ASSUME NEW h \in returned, Pool!Finds(h) PROVE FALSE
      OBVIOUS
    <3>1. h.gen_id \in Nat /\ h.gen_id < pool[h.idx + 1].gen_id
      BY <2>1 DEF HeldAreCurrent, OfItem, Handles
    <3> QED BY <3>1 DEF Pool!Finds, Pool!Item
  <2>5. ASSUME ~double_free PROVE Pool!InUse = {h.idx : h \in owned}
    <3>1. \A i \in 1 .. Len(pool) - 1 : pool[i + 1].in_use => i \in {h.idx : h \in owned}
      BY <2>1, <2>5 DEF InUseAreHeld
    <3>2. \A h \in owned : h.idx \in 1 .. Len(pool) - 1 /\ pool[h.idx + 1].in_use
      BY <2>1, <2>2 DEF HeldAreCurrent, OfItem, Handles
    <3> QED BY <3>1, <3>2 DEF Pool!InUse, Pool!Item
  <2> QED BY <2>1, <2>3, <2>4, <2>5 DEF OwnersExact, Pool!OwnersExact, HeldAreCurrent
<1> QED BY <1>1, <1>2, <1>3, PTL

-----------------------------------------------------------------------------
(***************************************************************************)
(* Frames.  The slots in flight are the last ones before current_frame, so *)
(* that no two frames in flight have one; a semaphore is available only to *)
(* a submission that waits for it; what runs draws to an image of its own, *)
(* of the swapchain there is.                                              *)
(***************************************************************************)
Submissions == [list : Recordings, running : BOOLEAN]

FramesTypeOK ==
  /\ current_frame \in 0 .. MaxFramesInFlight - 1
  /\ pending \in Seq(Submissions)
  /\ available \in [0 .. MaxFramesInFlight - 1 -> BOOLEAN]

\* The slot that was current n frames before the last.
SlotAgo(n) == IF current_frame > n THEN current_frame - 1 - n
                                   ELSE current_frame - 1 - n + MaxFramesInFlight

SlotsInTurn ==
  /\ Len(pending) <= MaxFramesInFlight
  /\ \A k \in 1 .. Len(pending) : pending[k].list.slot = SlotAgo(Len(pending) - k)

AvailableIsAwaited ==
  \A f \in 0 .. MaxFramesInFlight - 1 : available[f] =>
    \E k \in 1 .. Len(pending) : pending[k].list.slot = f /\ ~pending[k].running

OwnImages ==
  \A k \in 1 .. Len(pending) :
    /\ pending[k].list.image \in 1 .. swapchain.images
    /\ pending[k].running => /\ pending[k].list.image \notin showing
                             /\ \A j \in 1 .. k - 1 : pending[j].list.image # pending[k].list.image

FramesInv == FramesTypeOK /\ ~clash /\ SlotsInTurn /\ AvailableIsAwaited /\ OwnImages

\* The slot after the last is the first.
LEMMA NextSlot ==
  ASSUME NEW n \in Nat \ {0}, NEW c \in 0 .. n - 1
  PROVE  (c + 1) % n = IF c + 1 = n THEN 0 ELSE c + 1
OBVIOUS

\* The slot a frame is about to take is nobody's while one more may proceed.
LEMMA CurrentSlotIsFree ==
  ASSUME MaxFramesInFlight \in Nat \ {0}, FramesInv, Len(pending) < MaxFramesInFlight
  PROVE  /\ \A k \in 1 .. Len(pending) : pending[k].list.slot # current_frame
         /\ ~available[current_frame]
<1>1. \A k \in 1 .. Len(pending) : SlotAgo(Len(pending) - k) # current_frame
  BY DEF FramesInv, FramesTypeOK, SlotAgo
<1>2. \A k \in 1 .. Len(pending) : pending[k].list.slot # current_frame
  BY <1>1 DEF FramesInv, SlotsInTurn
<1>3. current_frame \in 0 .. MaxFramesInFlight - 1
  BY DEF FramesInv, FramesTypeOK
<1> QED BY <1>2, <1>3 DEF FramesInv, AvailableIsAwaited

\* A frame submitted takes the slot that is nobody's.
LEMMA SubmitKeepsFrames ==
  ASSUME MaxFramesInFlight \in Nat \ {0}, FramesInv, FrameLoop!render_frame, FrameLoop!FrameSubmitted
  PROVE  FramesInv'
<1>1. PICK r \in Recordings :
        /\ r.slot = current_frame /\ r.image \in 1 .. swapchain.images
        /\ pending' = Append(pending, [list |-> r, running |-> FALSE])
  BY DEF FrameLoop!FrameSubmitted
<1>2. /\ available' = [available EXCEPT ![current_frame] = TRUE]
      /\ current_frame' = (current_frame + 1) % MaxFramesInFlight
      /\ swapchain' = swapchain /\ showing' = showing
      /\ Len(pending) < MaxFramesInFlight
      /\ clash' = (clash \/ FrameLoop!HostClash \/ (pending' # pending /\ available[current_frame]))
  BY DEF FrameLoop!FrameSubmitted, FrameLoop!render_frame, FrameLoop!MayProceed
<1>3. /\ FramesTypeOK /\ SlotsInTurn /\ AvailableIsAwaited /\ OwnImages /\ ~clash
      /\ current_frame \in 0 .. MaxFramesInFlight - 1
      /\ pending \in Seq(Submissions) /\ Len(pending) \in Nat /\ DOMAIN pending = 1 .. Len(pending)
  BY DEF FramesInv, FramesTypeOK
<1>4. current_frame' = IF current_frame + 1 = MaxFramesInFlight THEN 0 ELSE current_frame + 1
  BY <1>2, <1>3, NextSlot
<1> DEFINE new == [list |-> r, running |-> FALSE]
<1>5. new \in Submissions /\ new.list = r /\ new.running = FALSE
  BY DEF Submissions
<1>6. /\ pending' \in Seq(Submissions) /\ Len(pending') = Len(pending) + 1
      /\ \A k \in 1 .. Len(pending) : pending'[k] = pending[k]
      /\ pending'[Len(pending) + 1] = new
  BY <1>1, <1>3, <1>5, AppendAt
<1> HIDE DEF new
<1>7. FramesTypeOK'
  <2>1. current_frame' \in 0 .. MaxFramesInFlight - 1
    BY <1>3, <1>4
  <2>2. available' \in [0 .. MaxFramesInFlight - 1 -> BOOLEAN]
    BY <1>2, <1>3, Zenon DEF FramesTypeOK
  <2> QED BY <1>2, <1>3, <1>6, <2>1, <2>2 DEF FramesTypeOK
<1>8. ~clash'
  BY <1>2, <1>3, CurrentSlotIsFree DEF FrameLoop!HostClash
<1>9. SlotsInTurn'
  <2>1. ASSUME NEW k \in 1 .. Len(pending') PROVE pending'[k].list.slot = SlotAgo(Len(pending) - k)'
    <3>1. CASE k \in 1 .. Len(pending)
      <4>1. pending'[k].list.slot = SlotAgo(Len(pending) - k)
        BY <1>3, <1>6, <3>1 DEF SlotsInTurn
      <4>2. PICK n \in Nat : n = Len(pending) - k /\ n + 1 <= MaxFramesInFlight - 1
        <5>1. Len(pending) \in Nat /\ Len(pending) < MaxFramesInFlight /\ k \in 1 .. Len(pending)
          BY <1>2, <1>3, <3>1
        <5>2. Len(pending) - k \in Nat /\ Len(pending) - k + 1 <= MaxFramesInFlight - 1
          BY <5>1
        <5> QED BY <5>2
      <4>3. Len(pending') - k = n + 1
        BY <1>3, <1>6, <4>2
      <4>4. SlotAgo(n) = IF current_frame' > n + 1 THEN current_frame' - 1 - (n + 1)
                         ELSE current_frame' - 1 - (n + 1) + MaxFramesInFlight
        BY <1>3, <1>4, <4>2 DEF SlotAgo
      <4> QED BY <4>1, <4>2, <4>3, <4>4 DEF SlotAgo
    <3>2. CASE k = Len(pending) + 1
      <4>1. pending'[k].list.slot = current_frame
        BY <1>1, <1>5, <1>6, <3>2
      <4> QED BY <1>3, <1>4, <1>6, <3>2, <4>1 DEF SlotAgo
    <3> QED BY <1>3, <1>6, <3>1, <3>2
  <2>2. Len(pending') <= MaxFramesInFlight
    BY <1>2, <1>3, <1>6
  <2> QED BY <2>1, <2>2 DEF SlotsInTurn
<1>10. AvailableIsAwaited'
  <2> SUFFICES ASSUME NEW f \in 0 .. MaxFramesInFlight - 1, available'[f]
               PROVE  \E k \in 1 .. Len(pending') : pending'[k].list.slot = f /\ ~pending'[k].running
    BY DEF AvailableIsAwaited
  <2>1. CASE f = current_frame
    <3>1. Len(pending) + 1 \in 1 .. Len(pending')
      BY <1>3, <1>6
    <3> QED BY <1>1, <1>5, <1>6, <2>1, <3>1
  <2>2. CASE f # current_frame
    <3>1. available[f]
      BY <1>2, <1>3, <2>2 DEF FramesTypeOK
    <3>2. PICK k \in 1 .. Len(pending) : pending[k].list.slot = f /\ ~pending[k].running
      BY <1>3, <3>1 DEF AvailableIsAwaited
    <3>3. k \in 1 .. Len(pending')
      BY <1>3, <1>6
    <3> QED BY <1>6, <3>2, <3>3
  <2> QED BY <2>1, <2>2
<1>11. OwnImages'
  <2> SUFFICES ASSUME NEW k \in 1 .. Len(pending')
               PROVE  /\ pending'[k].list.image \in 1 .. swapchain'.images
                      /\ pending'[k].running =>
                           /\ pending'[k].list.image \notin showing'
                           /\ \A j \in 1 .. k - 1 : pending'[j].list.image # pending'[k].list.image
    BY DEF OwnImages
  <2>1. CASE k \in 1 .. Len(pending)
    <3>1. \A j \in 1 .. k - 1 : j \in 1 .. Len(pending) /\ pending'[j] = pending[j]
      BY <1>3, <1>6, <2>1
    <3> QED BY <1>2, <1>3, <1>6, <2>1, <3>1 DEF OwnImages
  <2>2. CASE k = Len(pending) + 1
    <3>1. pending'[k].list.image \in 1 .. swapchain'.images /\ pending'[k].running = FALSE
      BY <1>1, <1>2, <1>5, <1>6, <2>2, Zenon
    <3> QED BY <3>1, Zenon
  <2> QED BY <1>3, <1>6, <2>1, <2>2
<1> QED BY <1>7, <1>8, <1>9, <1>10, <1>11 DEF FramesInv

\* What submits and finishes nothing keeps the invariant.
LEMMA NoFrameKeepsFrames ==
  ASSUME MaxFramesInFlight \in Nat \ {0}, FramesInv,
         UNCHANGED <<current_frame, pending, available, clash>>,
         \/ UNCHANGED <<swapchain, showing>>
         \/ FrameLoop!CreateIfVisible /\ Len(pending) = 0
         \/ swapchain' = swapchain /\ \E i \in showing : showing' = showing \ {i}
  PROVE  FramesInv'
<1>1. FramesTypeOK /\ SlotsInTurn /\ AvailableIsAwaited /\ OwnImages /\ ~clash
  BY DEF FramesInv
<1>2. OwnImages'
  <2>1. CASE Len(pending) = 0
    BY <2>1 DEF OwnImages
  <2>2. CASE swapchain' = swapchain /\ (showing' = showing \/ \E i \in showing : showing' = showing \ {i})
    BY <1>1, <2>2 DEF OwnImages
  <2> QED BY <2>1, <2>2
<1>3. FramesTypeOK' /\ SlotsInTurn' /\ AvailableIsAwaited'
  BY <1>1 DEF FramesTypeOK, SlotsInTurn, SlotAgo, AvailableIsAwaited
<1> QED BY <1>1, <1>2, <1>3 DEF FramesInv

\* A submission that starts has an image of its own.
LEMMA StartKeepsFrames ==
  ASSUME MaxFramesInFlight \in Nat \ {0}, FramesInv, NEW k \in DOMAIN pending, FrameLoop!Start(k)
  PROVE  FramesInv'
<1>1. /\ FramesTypeOK /\ SlotsInTurn /\ AvailableIsAwaited /\ OwnImages /\ ~clash
      /\ pending \in Seq(Submissions) /\ Len(pending) \in Nat /\ DOMAIN pending = 1 .. Len(pending)
  BY DEF FramesInv, FramesTypeOK
<1>2. /\ FrameLoop!ImageAvailable(k)
      /\ pending' = [pending EXCEPT ![k].running = TRUE]
      /\ available' = [available EXCEPT ![pending[k].list.slot] = FALSE]
      /\ UNCHANGED <<current_frame, swapchain, showing, clash>>
  BY DEF FrameLoop!Start
<1>3. \A j \in 1 .. Len(pending) : pending[j] \in Submissions
  BY <1>1
<1>4. /\ pending' \in Seq(Submissions) /\ Len(pending') = Len(pending)
      /\ \A j \in 1 .. Len(pending) : /\ pending'[j].list = pending[j].list
                                      /\ j # k => pending'[j] = pending[j]
      /\ pending'[k].running
  <2>1. pending' \in [1 .. Len(pending) -> Submissions]
    BY <1>1, <1>2, <1>3 DEF Submissions
  <2>2. pending' \in Seq(Submissions) /\ Len(pending') = Len(pending)
    BY <1>1, <2>1
  <2> QED BY <1>1, <1>2, <1>3, <2>2 DEF Submissions
<1>5. FramesTypeOK'
  <2>1. available' \in [0 .. MaxFramesInFlight - 1 -> BOOLEAN]
    BY <1>1, <1>2, Zenon DEF FramesTypeOK
  <2> QED BY <1>1, <1>2, <1>4, <2>1 DEF FramesTypeOK
<1>6. SlotsInTurn'
  BY <1>1, <1>2, <1>4 DEF SlotsInTurn, SlotAgo
<1>7. AvailableIsAwaited'
  <2> SUFFICES ASSUME NEW f \in 0 .. MaxFramesInFlight - 1, available'[f]
               PROVE  \E j \in 1 .. Len(pending') : pending'[j].list.slot = f /\ ~pending'[j].running
    BY DEF AvailableIsAwaited
  <2>1. f # pending[k].list.slot /\ available[f]
    BY <1>1, <1>2 DEF FramesTypeOK
  <2>2. PICK j \in 1 .. Len(pending) : pending[j].list.slot = f /\ ~pending[j].running
    BY <1>1, <2>1 DEF AvailableIsAwaited
  <2> QED BY <1>4, <2>1, <2>2
<1>8. OwnImages'
  <2> SUFFICES ASSUME NEW m \in 1 .. Len(pending)
               PROVE  /\ pending'[m].list.image \in 1 .. swapchain.images
                      /\ pending'[m].running =>
                           /\ pending'[m].list.image \notin showing
                           /\ \A j \in 1 .. m - 1 : pending'[j].list.image # pending'[m].list.image
    BY <1>2, <1>4 DEF OwnImages
  <2>1. \A j \in 1 .. m : j \in 1 .. Len(pending) /\ pending'[j].list = pending[j].list
    BY <1>1, <1>4
  <2>2. \A j \in 1 .. m - 1 : j \in 1 .. m
    OBVIOUS
  <2>3. pending'[m].list = pending[m].list
    BY <1>4
  <2>4. \A j \in 1 .. m - 1 : pending'[j].list.image = pending[j].list.image
    BY <2>1, <2>2
  <2>5. CASE m = k
    <3>1. /\ pending[k].list.image \in 1 .. swapchain.images
          /\ pending[k].list.image \notin showing
          /\ \A j \in 1 .. k - 1 : pending[j].list.image # pending[k].list.image
      BY <1>1, <1>2, Zenon DEF OwnImages, FrameLoop!ImageAvailable
    <3> QED BY <2>3, <2>4, <2>5, <3>1, Zenon
  <2>6. CASE m # k
    <3>1. pending'[m] = pending[m]
      BY <1>4, <2>6
    <3>2. /\ pending[m].list.image \in 1 .. swapchain.images
          /\ pending[m].running =>
               /\ pending[m].list.image \notin showing
               /\ \A j \in 1 .. m - 1 : pending[j].list.image # pending[m].list.image
      BY <1>1, Zenon DEF OwnImages
    <3> QED BY <2>4, <3>1, <3>2, Zenon
  <2> QED BY <2>5, <2>6
<1> QED BY <1>1, <1>2, <1>5, <1>6, <1>7, <1>8 DEF FramesInv

\* A submission that ends frees its slot and shows its image.
LEMMA FinishKeepsFrames ==
  ASSUME MaxFramesInFlight \in Nat \ {0}, FramesInv, FrameLoop!Finish
  PROVE  FramesInv'
<1>1. /\ FramesTypeOK /\ SlotsInTurn /\ AvailableIsAwaited /\ OwnImages /\ ~clash
      /\ pending \in Seq(Submissions) /\ pending # <<>>
  BY DEF FramesInv, FramesTypeOK, FrameLoop!Finish
<1>2. /\ pending' = Tail(pending) /\ pending[1].running
      /\ showing' = showing \cup {pending[1].list.image}
      /\ UNCHANGED <<current_frame, swapchain, available, clash>>
  <2>1. Head(pending) = pending[1]
    OBVIOUS
  <2> QED BY <2>1 DEF FrameLoop!Finish
<1>3. /\ Len(pending) \in Nat /\ Len(pending) > 0
      /\ pending' \in Seq(Submissions) /\ Len(pending') = Len(pending) - 1
      /\ \A j \in 1 .. Len(pending') : j + 1 \in 1 .. Len(pending) /\ pending'[j] = pending[j + 1]
  BY <1>1, <1>2
<1>4. FramesTypeOK'
  BY <1>1, <1>2, <1>3 DEF FramesTypeOK
<1>5. SlotsInTurn'
  <2>1. ASSUME NEW j \in 1 .. Len(pending') PROVE pending'[j].list.slot = SlotAgo(Len(pending') - j)
    <3>1. Len(pending) - (j + 1) = Len(pending') - j
      BY <1>3
    <3>2. pending[j + 1].list.slot = SlotAgo(Len(pending) - (j + 1))
      BY <1>1, <1>3 DEF SlotsInTurn
    <3> QED BY <1>3, <3>1, <3>2
  <2>2. Len(pending') <= MaxFramesInFlight
    BY <1>1, <1>3 DEF SlotsInTurn
  <2> QED BY <1>2, <2>1, <2>2 DEF SlotsInTurn, SlotAgo
<1>6. AvailableIsAwaited'
  <2> SUFFICES ASSUME NEW f \in 0 .. MaxFramesInFlight - 1, available[f]
               PROVE  \E j \in 1 .. Len(pending') : pending'[j].list.slot = f /\ ~pending'[j].running
    BY <1>2 DEF AvailableIsAwaited
  <2>1. PICK j \in 1 .. Len(pending) : pending[j].list.slot = f /\ ~pending[j].running
    BY <1>1 DEF AvailableIsAwaited
  <2>2. j # 1
    BY <1>2, <2>1
  <2>3. j - 1 \in 1 .. Len(pending') /\ j - 1 + 1 = j
    BY <1>3, <2>2
  <2>4. pending'[j - 1] = pending[j]
    BY <1>3, <2>3
  <2> QED BY <2>1, <2>3, <2>4
<1>7. OwnImages'
  <2> SUFFICES ASSUME NEW m \in 1 .. Len(pending')
               PROVE  /\ pending'[m].list.image \in 1 .. swapchain.images
                      /\ pending'[m].running =>
                           /\ pending'[m].list.image \notin showing'
                           /\ \A j \in 1 .. m - 1 : pending'[j].list.image # pending'[m].list.image
    BY <1>2 DEF OwnImages
  <2>1. m + 1 \in 1 .. Len(pending) /\ pending'[m] = pending[m + 1]
    BY <1>3
  <2>2. 1 \in 1 .. (m + 1) - 1
    OBVIOUS
  <2>3. \A j \in 1 .. m - 1 : j + 1 \in 1 .. (m + 1) - 1 /\ pending'[j] = pending[j + 1]
    <3>1. \A j \in 1 .. m - 1 : j \in 1 .. Len(pending') /\ j + 1 \in 1 .. (m + 1) - 1
      BY <1>3
    <3> QED BY <1>3, <3>1
  <2> QED BY <1>1, <1>2, <2>1, <2>2, <2>3 DEF OwnImages
<1> QED BY <1>1, <1>2, <1>4, <1>5, <1>6, <1>7 DEF FramesInv

\* Every step keeps the invariant of the frames in flight.
LEMMA StepKeepsFrames ==
  ASSUME MaxFramesInFlight \in Nat \ {0}, FramesInv,
         [FrameLoop!FramesNext]_(FrameLoop!frameVars)
  PROVE  FramesInv'
<1>0. pending \in Seq(Submissions) /\ Len(pending) \in Nat /\ DOMAIN pending = 1 .. Len(pending)
  BY DEF FramesInv, FramesTypeOK
<1>1. CASE FrameLoop!framebuffer_resized
  BY <1>1, NoFrameKeepsFrames DEF FrameLoop!framebuffer_resized
<1>2. CASE FrameLoop!render_frame
  <2>1. CASE FrameLoop!FrameSubmitted
    BY <1>2, <2>1, SubmitKeepsFrames
  <2>2. CASE FrameLoop!FrameWithoutSwapchain \/ FrameLoop!FrameOutdated
    <3>1. UNCHANGED <<current_frame, pending, available>> /\ Len(pending) < MaxFramesInFlight
      BY <1>2, <2>2 DEF FrameLoop!FrameWithoutSwapchain, FrameLoop!FrameOutdated, FrameLoop!render_frame, FrameLoop!MayProceed
    <3>2. clash' = clash
      <4>1. ~FrameLoop!HostClash /\ ~clash
        BY <1>0, <3>1, CurrentSlotIsFree DEF FrameLoop!HostClash, FramesInv
      <4>2. clash' = (clash \/ FrameLoop!HostClash \/ (pending' # pending /\ available[current_frame]))
        BY <1>2 DEF FrameLoop!render_frame
      <4>3. clash' = FALSE
        <5>1. pending' = pending
          BY <3>1
        <5> QED BY <4>1, <4>2, <5>1, Zenon
      <4>4. clash = FALSE
        BY DEF FramesInv, FramesTypeOK
      <4> QED BY <4>3, <4>4
    <3>3. CASE FrameLoop!FrameWithoutSwapchain
      <4>1. Len(pending) = 0
        <5>1. swapchain.images = 0
          BY <3>3 DEF FrameLoop!FrameWithoutSwapchain, FrameLoop!Absent
        <5>2. Len(pending) # 0 => 1 \in 1 .. Len(pending)
          BY <1>0
        <5>3. \A k \in 1 .. Len(pending) : pending[k].list.image \in 1 .. 0
          BY <5>1 DEF FramesInv, OwnImages
        <5> QED BY <5>2, <5>3
      <4> QED BY <3>1, <3>2, <3>3, <4>1, NoFrameKeepsFrames DEF FrameLoop!FrameWithoutSwapchain
    <3>4. CASE FrameLoop!FrameOutdated
      BY <3>1, <3>2, <3>4, NoFrameKeepsFrames DEF FrameLoop!FrameOutdated
    <3> QED BY <2>2, <3>3, <3>4
  <2> QED BY <1>2, <2>1, <2>2 DEF FrameLoop!render_frame
<1>3. CASE FrameLoop!swapchain_recreate
  <2>1. Len(pending) = 0
    BY <1>3 DEF FrameLoop!swapchain_recreate, FrameLoop!DeviceIdle
  <2> QED BY <1>3, <2>1, NoFrameKeepsFrames DEF FrameLoop!swapchain_recreate
<1>4. CASE FrameLoop!Finish
  BY <1>4, FinishKeepsFrames
<1>5. CASE \E k \in DOMAIN pending : FrameLoop!Start(k)
  BY <1>5, StartKeepsFrames
<1>6. CASE \E i \in showing : FrameLoop!Shown(i)
  BY <1>6, NoFrameKeepsFrames DEF FrameLoop!Shown
<1>7. CASE UNCHANGED FrameLoop!frameVars
  BY <1>7, NoFrameKeepsFrames DEF FrameLoop!frameVars
<1> QED BY <1>1, <1>2, <1>3, <1>4, <1>5, <1>6, <1>7 DEF FrameLoop!FramesNext

(***************************************************************************)
(* For any number of frames in flight, any surface, and any number of      *)
(* images that the driver adds to those asked for: if each recording is    *)
(* sound and two of different slots and images share only what Unordered   *)
(* names, then with resizes, windows of no size and submissions that       *)
(* overlap, the host and the submissions never touch the same buffer or    *)
(* image, and what is drawn to is an image of the swapchain that is not    *)
(* shown (render_frame, swapchain_recreate in render/vulkan).              *)
(***************************************************************************)
THEOREM FramesStaySound ==
  ASSUME MaxFramesInFlight \in Nat \ {0}, FrameLoop!RecordingsStandAlone
  PROVE  FrameLoop!FramesSpec => []FramesSound
<1>1. FrameLoop!FramesInit => FramesInv
  <2> SUFFICES ASSUME FrameLoop!FramesInit PROVE FramesInv
    OBVIOUS
  <2>1. /\ current_frame = 0 /\ pending = <<>> /\ ~clash
        /\ available = [f \in 0 .. MaxFramesInFlight - 1 |-> FALSE]
    BY DEF FrameLoop!FramesInit
  <2>2. pending \in Seq(Submissions) /\ Len(pending) = 0
    BY <2>1
  <2>3. FramesTypeOK
    BY <2>1, <2>2 DEF FramesTypeOK
  <2>4. AvailableIsAwaited
    BY <2>1 DEF AvailableIsAwaited
  <2> QED BY <2>1, <2>2, <2>3, <2>4 DEF FramesInv, SlotsInTurn, OwnImages
<1>2. FramesInv /\ [FrameLoop!FramesNext]_(FrameLoop!frameVars) => FramesInv'
  BY StepKeepsFrames
<1>3. FramesInv => FramesSound
  <2> SUFFICES ASSUME FramesInv PROVE FramesSound
    OBVIOUS
  <2>1. /\ FramesTypeOK /\ SlotsInTurn /\ OwnImages /\ ~clash
        /\ pending \in Seq(Submissions) /\ Len(pending) \in Nat /\ DOMAIN pending = 1 .. Len(pending)
    BY DEF FramesInv, FramesTypeOK
  <2>2. \A k \in 1 .. Len(pending) : pending[k] \in Submissions /\ pending[k].list \in Recordings
    <3>1. \A k \in 1 .. Len(pending) : pending[k] \in Submissions
      BY <2>1
    <3> QED BY <3>1 DEF Submissions
  <2>3. \A k \in DOMAIN pending : pending[k].list.image \in 1 .. swapchain.images /\ pending[k].list.sound
    BY <2>1, <2>2 DEF OwnImages, FrameLoop!RecordingsStandAlone
  <2>4. ASSUME NEW j \in 1 .. Len(pending), NEW k \in 1 .. Len(pending), j # k
        PROVE  pending[j].list.slot # pending[k].list.slot
    <3>1. SlotAgo(Len(pending) - j) # SlotAgo(Len(pending) - k)
      BY <2>1, <2>4 DEF SlotAgo, FramesTypeOK, SlotsInTurn
    <3> QED BY <2>1, <3>1 DEF SlotsInTurn
  <2>5. ASSUME NEW j \in 1 .. Len(pending), NEW k \in 1 .. Len(pending), j # k,
               pending[j].running, pending[k].running
        PROVE  pending[j].list.image # pending[k].list.image
    <3>1. j \in 1 .. k - 1 \/ k \in 1 .. j - 1
      BY <2>5
    <3> QED BY <2>1, <2>5, <3>1 DEF OwnImages
  <2>6. \A j, k \in {m \in DOMAIN pending : pending[m].running} :
          j # k => pending[j].list.changed \cap pending[k].list.touched \subseteq Unordered
    BY <2>1, <2>2, <2>4, <2>5 DEF FrameLoop!RecordingsStandAlone
  <2> QED BY <2>1, <2>3, <2>6 DEF OwnImages, FramesSound, FrameLoop!FramesSound
<1> QED BY <1>1, <1>2, <1>3, PTL DEF FrameLoop!FramesSpec

-----------------------------------------------------------------------------
(***************************************************************************)
(* DynamicArrays.  Every node is in one array or once in the list of its   *)
(* size, and the capacity of an array tells the size of its node: asking   *)
(* for a node of that capacity again gives the same power of two.  That    *)
(* rests on facts about powers of two, each by its least counterexample.   *)
(***************************************************************************)
\* Exp holds the powers of two, up to the largest exponent the pool may have.
LEMMA ExpIsPowers == Doubles(Dyn!Exp, 62)
  BY PowersDefined DEF Dyn!Exp

\* A power of two is at least twice each one before it.
LEMMA ExpGrows ==
  /\ \A n \in 0 .. 62 : Dyn!Exp[n] \in Nat \ {0}
  /\ \A m, n \in 0 .. 62 : m < n => 2 * Dyn!Exp[m] <= Dyn!Exp[n]
  BY ExpIsPowers, PowersGrow

Powers == {Dyn!Exp[n] : n \in 0 .. MaxIdx}

\* One power of two is at least x and less than 2 * x.
LEMMA UpToPow2Facts ==
  ASSUME Dyn!PoolFits, NEW x \in Nat \ {0}, x <= Dyn!Exp[MaxIdx]
  PROVE  /\ Dyn!UpToPow2(x) \in Powers
         /\ x <= Dyn!UpToPow2(x) /\ Dyn!UpToPow2(x) < 2 * x
<1> DEFINE e == Dyn!Exp
<1>1. /\ \A n \in 0 .. 62 : e[n] \in Nat \ {0}
      /\ \A m, n \in 0 .. 62 : m < n => 2 * e[m] <= e[n]
  BY ExpGrows
<1>2. e[0] = 1 /\ \A n \in 1 .. 62 : e[n] = 2 * e[n - 1]
  BY ExpIsPowers DEF Doubles
<1> HIDE DEF e
<1> DEFINE Enough == {n \in Nat : n <= MaxIdx /\ x <= e[n]}
<1>3. MaxIdx \in Enough /\ Enough \subseteq Nat
  BY DEF Dyn!PoolFits, e
<1>4. PICK n \in Enough : \A k \in Enough : n <= k
  <2> HIDE DEF Enough
  <2> QED BY <1>3, LeastNumber
<1>5. n \in 0 .. MaxIdx /\ n \in 0 .. 62 /\ x <= e[n]
  BY DEF Dyn!PoolFits
<1>6. e[n] < 2 * x
  <2>1. CASE n = 0
    BY <1>2, <2>1
  <2>2. CASE n # 0
    <3>1. n - 1 \in Nat /\ n - 1 <= MaxIdx /\ n - 1 \in 0 .. 62 /\ ~(n <= n - 1) /\ n \in 1 .. 62
      BY <1>5, <2>2 DEF Dyn!PoolFits
    <3>2. ~(x <= e[n - 1])
      <4>1. n - 1 \notin Enough
        <5> HIDE DEF Enough
        <5> QED BY <1>4, <3>1
      <4> QED BY <3>1, <4>1
    <3>3. e[n - 1] \in Nat /\ e[n] = 2 * e[n - 1]
      BY <1>1, <1>2, <3>1
    <3> QED BY <3>2, <3>3
  <2> QED BY <2>1, <2>2
<1>7. e[n] \in Powers
  BY <1>5 DEF Powers, e
<1>8. \E p \in Powers : x <= p /\ 2 * x > p
  BY <1>1, <1>5, <1>6, <1>7
<1>9. Dyn!UpToPow2(x) = CHOOSE p \in Powers : x <= p /\ 2 * x > p
  BY DEF Dyn!UpToPow2, Powers
<1>10. /\ Dyn!UpToPow2(x) \in Powers
       /\ x <= Dyn!UpToPow2(x) /\ 2 * x > Dyn!UpToPow2(x)
  BY <1>8, <1>9
<1>11. Powers \subseteq Nat
  <2>1. \A k \in 0 .. MaxIdx : k \in 0 .. 62
    BY DEF Dyn!PoolFits
  <2> QED BY <1>1, <2>1 DEF Powers, e
<1> QED BY <1>10, <1>11

\* Of two powers of two, the larger is at least twice the other.
LEMMA PowersApart ==
  ASSUME Dyn!PoolFits, NEW p \in Powers, NEW q \in Powers, p < q
  PROVE  2 * p <= q
<1>1. PICK m \in 0 .. MaxIdx, n \in 0 .. MaxIdx : p = Dyn!Exp[m] /\ q = Dyn!Exp[n]
  BY DEF Powers
<1>2. m \in 0 .. 62 /\ n \in 0 .. 62
  BY DEF Dyn!PoolFits
<1> DEFINE e == Dyn!Exp
<1>3. /\ \A k \in 0 .. 62 : e[k] \in Nat \ {0}
      /\ \A j, k \in 0 .. 62 : j < k => 2 * e[j] <= e[k]
  BY ExpGrows
<1>4. p = e[m] /\ q = e[n]
  BY <1>1
<1> HIDE DEF e
<1>5. e[m] \in Nat \ {0} /\ e[n] \in Nat \ {0}
  BY <1>2, <1>3
<1>6. m < n
  <2>1. m = n \/ n < m \/ m < n
    BY <1>2
  <2>2. n < m => 2 * e[n] <= e[m]
    BY <1>2, <1>3
  <2> QED BY <1>4, <1>5, <2>1, <2>2
<1> QED BY <1>2, <1>3, <1>4, <1>6

\* msb_index of a power of two is its exponent.
LEMMA MsbIndexFacts ==
  ASSUME Dyn!PoolFits, NEW n \in 0 .. MaxIdx
  PROVE  Dyn!MsbIndex(Dyn!Exp[n]) = n
<1> DEFINE e == Dyn!Exp
<1>1. /\ \A k \in 0 .. 62 : e[k] \in Nat \ {0}
      /\ \A j, k \in 0 .. 62 : j < k => 2 * e[j] <= e[k]
  BY ExpGrows
<1> HIDE DEF e
<1>2. \A k \in 0 .. MaxIdx : /\ k \in 0 .. 62 /\ k + 1 \in 0 .. 62 /\ k < k + 1
                             /\ e[k] \in Nat \ {0} /\ e[k + 1] \in Nat \ {0}
  <2>1. \A k \in 0 .. MaxIdx : k \in 0 .. 62 /\ k + 1 \in 0 .. 62 /\ k < k + 1
    BY DEF Dyn!PoolFits
  <2> QED BY <1>1, <2>1
<1>0. n \in 0 .. 62 /\ e[n] \in Nat \ {0}
  BY <1>2
<1>3. e[n] <= e[n] /\ e[n] < e[n + 1]
  <2>1. 2 * e[n] <= e[n + 1]
    BY <1>1, <1>2
  <2> QED BY <1>2, <2>1
<1>4. ASSUME NEW k \in 0 .. MaxIdx, e[k] <= e[n], e[n] < e[k + 1]
      PROVE  k = n
  <2>0. k \in 0 .. 62 /\ k + 1 \in 0 .. 62 /\ e[k] \in Nat /\ e[k + 1] \in Nat
    BY <1>2
  <2>1. CASE n < k
    <3>1. 2 * e[n] <= e[k]
      BY <1>0, <1>1, <2>0, <2>1
    <3> QED BY <1>0, <1>4, <2>0, <3>1
  <2>2. CASE k < n
    <3>1. k + 1 = n \/ k + 1 < n
      BY <1>0, <2>0, <2>2
    <3>2. CASE k + 1 = n
      BY <1>0, <1>4, <3>2
    <3>3. CASE k + 1 < n
      <4>1. 2 * e[k + 1] <= e[n]
        BY <1>0, <1>1, <2>0, <3>3
      <4> QED BY <1>0, <1>4, <2>0, <4>1
    <3> QED BY <3>1, <3>2, <3>3
  <2> QED BY <1>0, <2>0, <2>1, <2>2
<1>5. Dyn!MsbIndex(e[n]) = CHOOSE k \in 0 .. MaxIdx : e[k] <= e[n] /\ e[n] < e[k + 1]
  BY DEF Dyn!MsbIndex, e
<1>6. Dyn!MsbIndex(e[n]) = n
  BY <1>3, <1>4, <1>5
<1> QED BY <1>6 DEF e

\* The elements begin a whole number of bytes into the node.
LEMMA OffsetFacts ==
  ASSUME Dyn!PoolFits, NEW T \in Types
  PROVE  Dyn!ArrayOffset(T) \in Nat
<1> DEFINE a == Dyn!Larger(NodeSize, T.align)
           k == (NodeSize + a - 1) \div a
<1>1. a \in Nat \ {0} /\ NodeSize \in Nat \ {0} /\ NodeSize + a - 1 \in Nat
  BY DEF Dyn!Larger, Dyn!PoolFits
<1>2. k \in Nat
  <2> HIDE DEF a
  <2> QED BY <1>1, DivFacts
<1>3. Dyn!ArrayOffset(T) = k * a
  BY DEF Dyn!ArrayOffset
<1> HIDE DEF k, a
<1> QED BY <1>1, <1>2, <1>3

\* Powers of two are positive, and the last is the largest.
LEMMA PowerFacts ==
  ASSUME Dyn!PoolFits
  PROVE  /\ Powers \subseteq Nat \ {0}
         /\ \A p \in Powers : p <= Dyn!Exp[MaxIdx]
<1> DEFINE e == Dyn!Exp
<1>1. /\ \A k \in 0 .. 62 : e[k] \in Nat \ {0}
      /\ \A j, k \in 0 .. 62 : j < k => 2 * e[j] <= e[k]
  BY ExpGrows
<1>2. Powers = {e[k] : k \in 0 .. MaxIdx}
  BY DEF Powers
<1> HIDE DEF e
<1>3. MaxIdx \in 0 .. 62 /\ \A k \in 0 .. MaxIdx : k \in 0 .. 62 /\ (k = MaxIdx \/ k < MaxIdx)
  BY DEF Dyn!PoolFits
<1>4. ASSUME NEW k \in 0 .. MaxIdx PROVE e[k] \in Nat \ {0} /\ e[k] <= e[MaxIdx]
  <2>1. e[k] \in Nat \ {0} /\ e[MaxIdx] \in Nat \ {0}
    BY <1>1, <1>3
  <2>2. k = MaxIdx \/ 2 * e[k] <= e[MaxIdx]
    BY <1>1, <1>3
  <2> QED BY <2>1, <2>2
<1>5. \A p \in Powers : p \in Nat \ {0} /\ p <= e[MaxIdx]
  BY <1>2, <1>4
<1> QED BY <1>5 DEF e

\* The sizes of nodes, and the lists, one for each of them.
NodeSizes == {Dyn!Exp[n] : n \in MinIdx .. MaxIdx}
ListIdx == 0 .. MaxIdx - MinIdx

\* Each size of a node has its own list.
LEMMA FreeListIdxFacts ==
  ASSUME Dyn!PoolFits, NEW a \in NodeSizes
  PROVE  /\ Dyn!FreeListIdx(a) \in ListIdx /\ a \in Powers
         /\ a = Dyn!Exp[MinIdx + Dyn!FreeListIdx(a)]
<1>1. PICK n \in MinIdx .. MaxIdx : a = Dyn!Exp[n]
  BY DEF NodeSizes
<1>2. n \in 0 .. MaxIdx /\ n - MinIdx \in ListIdx /\ MinIdx + (n - MinIdx) = n
  BY DEF Dyn!PoolFits, ListIdx
<1>3. Dyn!MsbIndex(a) = n
  BY <1>1, <1>2, MsbIndexFacts
<1>4. Dyn!FreeListIdx(a) = n - MinIdx
  BY <1>3 DEF Dyn!FreeListIdx
<1> QED BY <1>1, <1>2, <1>4 DEF Powers

\* What _dynamic_array_alloc_size_find asks for holds the elements, and asking
\* again for the capacity that leaves gives the same size.
LEMMA AllocSizeFacts ==
  ASSUME Dyn!PoolFits, NEW T \in Types, NEW n \in Nat \ {0},
         Dyn!ArrayOffset(T) + T.size * n <= Dyn!Exp[MaxIdx]
  PROVE  LET a == Dyn!AllocSizeFind(n, T)
             c == Dyn!CapacityOf(a, T)
         IN  /\ a \in NodeSizes
             /\ c \in Nat \ {0} /\ n <= c
             /\ Dyn!ArrayOffset(T) + c * T.size <= a
             /\ Dyn!AllocSizeFind(c, T) = a
<1> DEFINE o == Dyn!ArrayOffset(T)
           z == T.size
           m == Dyn!Exp[MinIdx]
           top == Dyn!Exp[MaxIdx]
           x == o + z * n
           p == Dyn!UpToPow2(x)
           a == Dyn!AllocSizeFind(n, T)
           c == Dyn!CapacityOf(a, T)
           y == o + z * c
           q == Dyn!UpToPow2(y)
<1>1. o \in Nat /\ z \in Nat \ {0}
  BY OffsetFacts DEF Dyn!PoolFits
<1>2. /\ MinIdx \in 0 .. MaxIdx /\ MinIdx \in MinIdx .. MaxIdx /\ MinIdx \in Nat /\ MaxIdx \in Nat
      /\ m \in Powers
  <2>1. MinIdx \in 0 .. MaxIdx /\ MinIdx \in MinIdx .. MaxIdx /\ MinIdx \in Nat /\ MaxIdx \in Nat
    BY DEF Dyn!PoolFits
  <2> QED BY <2>1 DEF Powers
<1>3. Powers \subseteq Nat \ {0} /\ \A r \in Powers : r <= top
  BY PowerFacts
<1>4. x \in Nat \ {0} /\ x <= top
  <2> HIDE DEF o, z
  <2>1. z * n \in Nat \ {0}
    BY <1>1
  <2> QED BY <1>1, <2>1 DEF o, z
<1>5. p \in Powers /\ x <= p /\ p < 2 * x
  <2> HIDE DEF x
  <2> QED BY <1>4, UpToPow2Facts
<1>6. a = IF m > p THEN m ELSE p
  BY DEF Dyn!AllocSizeFind, Dyn!Larger
<1>7. c = (a - o) \div z
  BY DEF Dyn!CapacityOf
<1>8. y = o + z * c /\ x = o + z * n
  OBVIOUS
<1>9. Dyn!AllocSizeFind(c, T) = IF m > q THEN m ELSE q
  BY DEF Dyn!AllocSizeFind, Dyn!Larger
<1>10. \A r, s \in Powers : r < s => 2 * r <= s
  BY PowersApart
<1>11. a \in NodeSizes
  <2>1. CASE m > p
    BY <1>2, <1>6, <2>1 DEF NodeSizes
  <2>2. CASE ~(m > p)
    <3>1. PICK k \in 0 .. MaxIdx : p = Dyn!Exp[k]
      BY <1>5 DEF Powers
    <3>2. k \in MinIdx .. MaxIdx
      <4>1. k \in 0 .. 62 /\ MinIdx \in 0 .. 62
        BY <1>2 DEF Dyn!PoolFits
      <4>2. k < MinIdx => 2 * p <= m
        BY <3>1, <4>1, ExpGrows
      <4>3. p \in Nat \ {0} /\ m \in Nat
        BY <1>2, <1>3, <1>5
      <4> HIDE DEF p, m
      <4>4. ~(k < MinIdx)
        BY <2>2, <4>2, <4>3
      <4> QED BY <1>2, <4>1, <4>4
    <3> QED BY <1>6, <2>2, <3>1, <3>2 DEF NodeSizes
  <2> QED BY <2>1, <2>2
<1>12. Dyn!Exp[MaxIdx] = top /\ Dyn!CapacityOf(a, T) = c /\ Dyn!ArrayOffset(T) = o /\ T.size = z
  OBVIOUS
<1>13. x = o + z * n
  OBVIOUS
<1>14. q = Dyn!UpToPow2(y)
  OBVIOUS
<1> HIDE DEF o, z, m, top, x, p, a, c, y, q
<1>15. /\ a \in Powers /\ a \in Nat /\ m \in Nat /\ p \in Nat /\ x <= a /\ a <= top /\ top \in Nat
       /\ p \in Powers
  <2>1. m \in Nat /\ p \in Nat /\ a \in Powers
    BY <1>2, <1>3, <1>5, <1>6
  <2>2. top \in Powers
    BY <1>2 DEF top, Powers
  <2> QED BY <1>3, <1>4, <1>5, <1>6, <2>1, <2>2
<1>16. a - o \in Nat /\ z * n <= a - o
  <2>1. z * n \in Nat
    BY <1>1
  <2> QED BY <1>1, <1>8, <1>15, <2>1
<1>17. c \in Nat /\ z * c <= a - o /\ n <= c
  BY <1>1, <1>7, <1>16, DivFacts
<1>18. c \in Nat \ {0} /\ z * c = c * z /\ z * c \in Nat /\ z * n <= z * c
  <2>1. PICK d \in Nat : c = n + d
    BY <1>17
  <2>2. z * c = z * n + z * d /\ z * d \in Nat /\ z * n \in Nat
    BY <1>1, <2>1
  <2>3. z * c = c * z /\ z * c \in Nat
    BY <1>1, <1>17
  <2> QED BY <1>17, <2>2, <2>3
<1>19. y \in Nat \ {0} /\ y <= a /\ x <= y /\ y <= top
  <2>1. z * n \in Nat /\ z * c \in Nat
    BY <1>1, <1>18
  <2> QED BY <1>1, <1>4, <1>8, <1>15, <1>17, <1>18, <2>1
<1>20. q \in Powers /\ y <= q /\ q < 2 * y
  BY <1>14, <1>19, UpToPow2Facts DEF top
<1>21. (IF m > q THEN m ELSE q) = a
  <2>1. q \in Nat
    BY <1>3, <1>20
  <2>2. ~(a < q)
    <3>1. a < q => 2 * a <= q
      BY <1>10, <1>15, <1>20
    <3> QED BY <1>15, <1>19, <1>20, <2>1, <3>1
  <2>3. ~(m > p) => ~(q < p)
    <3>1. q < p => 2 * q <= p
      BY <1>10, <1>15, <1>20
    <3> QED BY <1>4, <1>5, <1>15, <1>19, <1>20, <2>1, <3>1
  <2> QED BY <1>6, <1>15, <2>1, <2>2, <2>3
<1>22. o + c * z <= a
  BY <1>1, <1>15, <1>17, <1>18
<1> QED BY <1>9, <1>11, <1>12, <1>17, <1>18, <1>21, <1>22 DEF a, c, o, z

\* The lists hold each node that no array holds, once, in the list of its size.
ListsKeep(lists, nodes, taken) ==
  /\ nodes \in Seq(NodeSizes)
  /\ lists \in [ListIdx -> Seq(Nat)]
  /\ taken \subseteq 1 .. Len(nodes)
  /\ \A i \in ListIdx :
       /\ IsInjective(lists[i])
       /\ ToSet(lists[i]) \cap taken = {}
       /\ \A n \in ToSet(lists[i]) : n \in 1 .. Len(nodes) /\ Dyn!FreeListIdx(nodes[n]) = i
  /\ \A n \in 1 .. Len(nodes) : n \in taken \/ \E i \in ListIdx : n \in ToSet(lists[i])

\* A node is taken from the list of its size, or made when that is empty.
LEMMA TakeKeepsLists ==
  ASSUME Dyn!PoolFits, NEW lists, NEW nodes, NEW taken, ListsKeep(lists, nodes, taken),
         NEW i \in ListIdx, lists[i] # <<>>
  PROVE  /\ ListsKeep([lists EXCEPT ![i] = Tail(@)], nodes, taken \cup {Head(lists[i])})
         /\ Head(lists[i]) \in 1 .. Len(nodes) \ taken
         /\ Dyn!FreeListIdx(nodes[Head(lists[i])]) = i
<1> DEFINE new == [lists EXCEPT ![i] = Tail(@)]
           h == Head(lists[i])
<1>1. /\ nodes \in Seq(NodeSizes) /\ lists \in [ListIdx -> Seq(Nat)]
      /\ taken \subseteq 1 .. Len(nodes)
  BY DEF ListsKeep
<1>2. \A j \in ListIdx :
        /\ IsInjective(lists[j])
        /\ ToSet(lists[j]) \cap taken = {}
        /\ \A n \in ToSet(lists[j]) : n \in 1 .. Len(nodes) /\ Dyn!FreeListIdx(nodes[n]) = j
  BY DEF ListsKeep
<1>3. \A n \in 1 .. Len(nodes) : n \in taken \/ \E j \in ListIdx : n \in ToSet(lists[j])
  BY DEF ListsKeep
<1>4. /\ Tail(lists[i]) \in Seq(Nat)
      /\ ToSet(lists[i]) = ToSet(Tail(lists[i])) \cup {h}
      /\ IsInjective(Tail(lists[i])) /\ h \notin ToSet(Tail(lists[i]))
  <2>1. lists[i] \in Seq(Nat) /\ IsInjective(lists[i])
    BY <1>1, <1>2
  <2> QED BY <2>1, TailFacts
<1>5. /\ h \in 1 .. Len(nodes) /\ h \notin taken /\ Dyn!FreeListIdx(nodes[h]) = i
      /\ h \in ToSet(lists[i])
  BY <1>2, <1>4
<1>6. /\ new[i] = Tail(lists[i]) /\ new \in [ListIdx -> Seq(Nat)]
      /\ \A j \in ListIdx : j # i => new[j] = lists[j]
  BY <1>1, <1>4
<1> HIDE DEF new, h
<1>7. ASSUME NEW j \in ListIdx
      PROVE  /\ IsInjective(new[j])
             /\ ToSet(new[j]) \cap (taken \cup {h}) = {}
             /\ \A n \in ToSet(new[j]) : n \in 1 .. Len(nodes) /\ Dyn!FreeListIdx(nodes[n]) = j
  <2>1. CASE j = i
    BY <1>2, <1>4, <1>6, <2>1
  <2>2. CASE j # i
    <3>1. h \notin ToSet(lists[j])
      BY <1>2, <1>5, <2>2
    <3> QED BY <1>2, <1>6, <2>2, <3>1
  <2> QED BY <2>1, <2>2
<1>8. ASSUME NEW n \in 1 .. Len(nodes)
      PROVE  n \in taken \cup {h} \/ \E j \in ListIdx : n \in ToSet(new[j])
  BY <1>3, <1>4, <1>6
<1>9. ListsKeep(new, nodes, taken \cup {h})
  BY <1>1, <1>5, <1>6, <1>7, <1>8 DEF ListsKeep
<1> QED BY <1>5, <1>9 DEF new, h

\* A node that is made belongs to whom it was made for.
LEMMA MakeKeepsLists ==
  ASSUME Dyn!PoolFits, NEW lists, NEW nodes, NEW taken, ListsKeep(lists, nodes, taken),
         NEW a \in NodeSizes
  PROVE  /\ ListsKeep(lists, Append(nodes, a), taken \cup {Len(nodes) + 1})
         /\ Len(nodes) + 1 \notin taken
         /\ Len(nodes) \in Nat /\ Len(Append(nodes, a)) = Len(nodes) + 1
         /\ Append(nodes, a)[Len(nodes) + 1] = a
         /\ \A n \in 1 .. Len(nodes) : Append(nodes, a)[n] = nodes[n]
<1> DEFINE more == Append(nodes, a)
           new == taken \cup {Len(nodes) + 1}
<1>1. /\ nodes \in Seq(NodeSizes) /\ lists \in [ListIdx -> Seq(Nat)]
      /\ taken \subseteq 1 .. Len(nodes)
  BY DEF ListsKeep
<1>2. \A j \in ListIdx :
        /\ IsInjective(lists[j])
        /\ ToSet(lists[j]) \cap taken = {}
        /\ \A n \in ToSet(lists[j]) : n \in 1 .. Len(nodes) /\ Dyn!FreeListIdx(nodes[n]) = j
  BY DEF ListsKeep
<1>3. \A n \in 1 .. Len(nodes) : n \in taken \/ \E j \in ListIdx : n \in ToSet(lists[j])
  BY DEF ListsKeep
<1>4. /\ more \in Seq(NodeSizes) /\ Len(nodes) \in Nat /\ Len(more) = Len(nodes) + 1
      /\ more[Len(nodes) + 1] = a
      /\ \A n \in 1 .. Len(nodes) : more[n] = nodes[n]
  BY <1>1, SMT
<1>5. Len(nodes) + 1 \notin 1 .. Len(nodes) /\ 1 .. Len(more) = 1 .. Len(nodes) \cup {Len(nodes) + 1}
  BY <1>4
<1> HIDE DEF more
<1>6. new \subseteq 1 .. Len(more)
  BY <1>1, <1>5
<1>7. ASSUME NEW j \in ListIdx
      PROVE  /\ IsInjective(lists[j])
             /\ ToSet(lists[j]) \cap new = {}
             /\ \A n \in ToSet(lists[j]) : n \in 1 .. Len(more) /\ Dyn!FreeListIdx(more[n]) = j
  <2>1. \A n \in ToSet(lists[j]) : n \in 1 .. Len(nodes) /\ n # Len(nodes) + 1 /\ more[n] = nodes[n]
    BY <1>2, <1>4, <1>5
  <2> QED BY <1>2, <1>5, <2>1
<1>8. ASSUME NEW n \in 1 .. Len(more)
      PROVE  n \in new \/ \E j \in ListIdx : n \in ToSet(lists[j])
  BY <1>3, <1>5
<1> HIDE DEF new
<1>9. ListsKeep(lists, more, new)
  BY <1>1, <1>4, <1>6, <1>7, <1>8 DEF ListsKeep
<1> QED BY <1>1, <1>4, <1>5, <1>9 DEF more, new

\* A node that is given back goes to the list of its size.
LEMMA GiveKeepsLists ==
  ASSUME Dyn!PoolFits, NEW lists, NEW nodes, NEW taken, ListsKeep(lists, nodes, taken),
         NEW n \in taken
  PROVE  LET i == Dyn!FreeListIdx(nodes[n])
         IN  ListsKeep([lists EXCEPT ![i] = <<n>> \o @], nodes, taken \ {n})
<1> DEFINE i == Dyn!FreeListIdx(nodes[n])
           new == [lists EXCEPT ![i] = <<n>> \o @]
<1>1. /\ nodes \in Seq(NodeSizes) /\ lists \in [ListIdx -> Seq(Nat)]
      /\ taken \subseteq 1 .. Len(nodes)
  BY DEF ListsKeep
<1>2. \A j \in ListIdx :
        /\ IsInjective(lists[j])
        /\ ToSet(lists[j]) \cap taken = {}
        /\ \A k \in ToSet(lists[j]) : k \in 1 .. Len(nodes) /\ Dyn!FreeListIdx(nodes[k]) = j
  BY DEF ListsKeep
<1>3. \A k \in 1 .. Len(nodes) : k \in taken \/ \E j \in ListIdx : k \in ToSet(lists[j])
  BY DEF ListsKeep
<1>4. n \in 1 .. Len(nodes) /\ n \in Nat /\ nodes[n] \in NodeSizes
  BY <1>1
<1>5. i \in ListIdx
  BY <1>4, FreeListIdxFacts
<1>6. /\ <<n>> \o lists[i] \in Seq(Nat)
      /\ ToSet(<<n>> \o lists[i]) = {n} \cup ToSet(lists[i])
      /\ IsInjective(<<n>> \o lists[i])
  <2>1. lists[i] \in Seq(Nat) /\ IsInjective(lists[i]) /\ n \notin ToSet(lists[i])
    BY <1>1, <1>2, <1>5
  <2> HIDE DEF i
  <2> QED BY <1>4, <2>1, PushFacts
<1>7. /\ new[i] = <<n>> \o lists[i] /\ new \in [ListIdx -> Seq(Nat)]
      /\ \A j \in ListIdx : j # i => new[j] = lists[j]
  <2> HIDE DEF i
  <2> QED BY <1>1, <1>5, <1>6
<1>8. i = Dyn!FreeListIdx(nodes[n])
  OBVIOUS
<1> HIDE DEF new, i
<1>9. ASSUME NEW j \in ListIdx
      PROVE  /\ IsInjective(new[j])
             /\ ToSet(new[j]) \cap (taken \ {n}) = {}
             /\ \A k \in ToSet(new[j]) : k \in 1 .. Len(nodes) /\ Dyn!FreeListIdx(nodes[k]) = j
  <2>1. CASE j = i
    BY <1>2, <1>4, <1>6, <1>7, <1>8, <2>1
  <2>2. CASE j # i
    BY <1>2, <1>7, <2>2
  <2> QED BY <2>1, <2>2
<1>10. ASSUME NEW k \in 1 .. Len(nodes)
       PROVE  k \in taken \ {n} \/ \E j \in ListIdx : k \in ToSet(new[j])
  <2>1. CASE k = n
    BY <1>5, <1>6, <1>7, <2>1
  <2>2. CASE k # n /\ k \notin taken
    <3>1. PICK j \in ListIdx : k \in ToSet(lists[j])
      BY <1>3, <2>2
    <3>2. k \in ToSet(new[j])
      BY <1>6, <1>7, <3>1
    <3> QED BY <3>2
  <2> QED BY <2>1, <2>2
<1>11. ListsKeep(new, nodes, taken \ {n})
  BY <1>1, <1>7, <1>9, <1>10 DEF ListsKeep
<1> QED BY <1>11 DEF new, i

\* The array fits its node, whose size its capacity tells.
Fits(arr, nodes) ==
  /\ arr.size <= arr.capacity
  /\ arr.node \in 1 .. Len(nodes)
  /\ nodes[arr.node] = Dyn!AllocSizeFind(arr.capacity, arr.type)
  /\ Dyn!ArrayOffset(arr.type) + arr.capacity * arr.type.size <= nodes[arr.node]

\* A new array has a node of its own, with room for what was asked.
LEMMA CreatedFits ==
  ASSUME Dyn!PoolFits, NEW taken, ListsKeep(node_lists, node_size, taken),
         NEW T \in Types, NEW n \in Dyn!Lengths
  PROVE  LET made == Dyn!Created(T, n, node_lists)
             array == made.array
         IN  /\ array = [type |-> T, size |-> 0, node |-> array.node, capacity |-> array.capacity]
             /\ array.capacity \in Nat \ {0} /\ n <= array.capacity
             /\ array.node \in 1 .. Len(made.nodes) \ taken
             /\ made.nodes[array.node] = Dyn!AllocSizeFind(array.capacity, T)
             /\ Dyn!ArrayOffset(T) + array.capacity * T.size <= made.nodes[array.node]
             /\ ListsKeep(made.lists, made.nodes, taken \cup {array.node})
             /\ \A k \in 1 .. Len(node_size) :
                  k \in 1 .. Len(made.nodes) /\ made.nodes[k] = node_size[k]
<1> DEFINE m == Dyn!Larger(n, 1)
           a == Dyn!AllocSizeFind(m, T)
           c == Dyn!CapacityOf(a, T)
           i == Dyn!FreeListIdx(a)
           reuse == node_lists[i] # <<>>
           node == IF reuse THEN Head(node_lists[i]) ELSE Len(node_size) + 1
           made == Dyn!Created(T, n, node_lists)
<1>1. m \in Nat \ {0} /\ n <= m /\ m \in Dyn!Lengths /\ n \in Nat
  <2>1. n \in Nat /\ 1 \in Dyn!Lengths
    BY DEF Dyn!PoolFits, Dyn!Lengths
  <2> QED BY <2>1 DEF Dyn!Larger
<1>2. Dyn!ArrayOffset(T) + T.size * m <= Dyn!Exp[MaxIdx]
  <2> HIDE DEF m
  <2> QED BY <1>1 DEF Dyn!PoolFits
<1>3. /\ a \in NodeSizes
      /\ c \in Nat \ {0} /\ m <= c
      /\ Dyn!ArrayOffset(T) + c * T.size <= a
      /\ Dyn!AllocSizeFind(c, T) = a
  <2> HIDE DEF m
  <2> QED BY <1>1, <1>2, AllocSizeFacts
<1>4. /\ made.array = [type |-> T, size |-> 0, node |-> node, capacity |-> c]
      /\ made.lists = IF reuse THEN [node_lists EXCEPT ![i] = Tail(@)] ELSE node_lists
      /\ made.nodes = IF reuse THEN node_size ELSE Append(node_size, a)
  BY DEF Dyn!Created
<1>5. /\ made.array.node = node /\ made.array.capacity = c
      /\ made.array = [type |-> T, size |-> 0, node |-> made.array.node,
                       capacity |-> made.array.capacity]
  <2> HIDE DEF node, c, made
  <2> QED BY <1>4
<1>6. i \in ListIdx /\ a = Dyn!Exp[MinIdx + i]
  <2> HIDE DEF a
  <2> QED BY <1>3, FreeListIdxFacts
<1>7. n <= c
  <2> HIDE DEF c, m
  <2> QED BY <1>1, <1>3
<1>8. /\ node \in 1 .. Len(made.nodes) \ taken
      /\ made.nodes[node] = a
      /\ ListsKeep(made.lists, made.nodes, taken \cup {node})
      /\ \A k \in 1 .. Len(node_size) :
           k \in 1 .. Len(made.nodes) /\ made.nodes[k] = node_size[k]
  <2>1. CASE reuse
    <3>1. node = Head(node_lists[i]) /\ made.nodes = node_size
          /\ made.lists = [node_lists EXCEPT ![i] = Tail(@)]
      BY <1>4, <2>1
    <3>2. node_lists[i] # <<>>
      BY <2>1
    <3> HIDE DEF node, i, made
    <3>3. /\ ListsKeep(made.lists, node_size, taken \cup {node})
          /\ node \in 1 .. Len(node_size) \ taken
          /\ Dyn!FreeListIdx(node_size[node]) = i
      <4>1. i \in ListIdx
        BY <1>6
      <4>2. /\ ListsKeep([node_lists EXCEPT ![i] = Tail(@)], node_size,
                         taken \cup {Head(node_lists[i])})
            /\ Head(node_lists[i]) \in 1 .. Len(node_size) \ taken
            /\ Dyn!FreeListIdx(node_size[Head(node_lists[i])]) = i
        BY <3>2, <4>1, TakeKeepsLists
      <4> QED BY <3>1, <4>2, Zenon
    <3>4. node_size[node] \in NodeSizes
      BY <3>3 DEF ListsKeep
    <3>5. node_size[node] = a
      BY <1>6, <3>3, <3>4, FreeListIdxFacts
    <3> QED BY <3>1, <3>3, <3>5
  <2>2. CASE ~reuse
    <3>1. node = Len(node_size) + 1 /\ made.nodes = Append(node_size, a)
          /\ made.lists = node_lists
      BY <1>4, <2>2
    <3> HIDE DEF node, i, made, a
    <3>2. /\ ListsKeep(node_lists, Append(node_size, a), taken \cup {Len(node_size) + 1})
          /\ Len(node_size) + 1 \notin taken
          /\ Len(node_size) \in Nat /\ Len(Append(node_size, a)) = Len(node_size) + 1
          /\ Append(node_size, a)[Len(node_size) + 1] = a
          /\ \A k \in 1 .. Len(node_size) : Append(node_size, a)[k] = node_size[k]
      BY <1>3, MakeKeepsLists
    <3> DEFINE more == Append(node_size, a)
    <3>3. made.nodes = more
      BY <3>1
    <3>4. /\ ListsKeep(node_lists, more, taken \cup {Len(node_size) + 1})
          /\ Len(more) = Len(node_size) + 1 /\ more[Len(node_size) + 1] = a
          /\ \A k \in 1 .. Len(node_size) : more[k] = node_size[k]
      BY <3>2
    <3> HIDE DEF more
    <3> QED BY <3>1, <3>2, <3>3, <3>4
  <2> QED BY <2>1, <2>2
<1> HIDE DEF node, made, c, a, i
<1> QED BY <1>3, <1>5, <1>7, <1>8 DEF made

ArrayRecords == [type : Types, size : Nat, node : Nat \ {0}, capacity : Nat \ {0}]
Used(arrs) == {s \in ArraySlots : arrs[s] # Dyn!NoArray}
NodesOf(arrs, S) == {arrs[s].node : s \in S}

ArraysSound(lists, nodes, arrs) ==
  /\ arrs \in [ArraySlots -> ArrayRecords \cup {Dyn!NoArray}]
  /\ \A s \in Used(arrs) : Fits(arrs[s], nodes)
  /\ \A s, t \in Used(arrs) : s # t => arrs[s].node # arrs[t].node
  /\ ListsKeep(lists, nodes, NodesOf(arrs, Used(arrs)))

DynInv == ArraysSound(node_lists, node_size, arrays)

\* A slot without an array is told from one with an array.
LEMMA NoArrayIsNone == Dyn!NoArray \notin ArrayRecords
<1>1. Dyn!NoArray.node = 0 /\ \A r \in ArrayRecords : r.node # 0
  BY DEF Dyn!NoArray, ArrayRecords
<1> QED BY <1>1

\* One slot gets an array that fits a node no other array has.
LEMMA SlotTakesArray ==
  ASSUME NEW lists, NEW nodes, NEW arrs, ArraysSound(lists, nodes, arrs),
         NEW s \in ArraySlots, NEW b \in ArrayRecords,
         NEW lists2, NEW nodes2, Fits(b, nodes2),
         \A k \in 1 .. Len(nodes) : k \in 1 .. Len(nodes2) /\ nodes2[k] = nodes[k],
         b.node \notin NodesOf(arrs, Used(arrs) \ {s}),
         ListsKeep(lists2, nodes2, NodesOf(arrs, Used(arrs) \ {s}) \cup {b.node})
  PROVE  ArraysSound(lists2, nodes2, [arrs EXCEPT ![s] = b])
<1> DEFINE new == [arrs EXCEPT ![s] = b]
<1>1. /\ arrs \in [ArraySlots -> ArrayRecords \cup {Dyn!NoArray}]
      /\ \A t \in Used(arrs) : Fits(arrs[t], nodes)
      /\ \A t, u \in Used(arrs) : t # u => arrs[t].node # arrs[u].node
  BY DEF ArraysSound
<1>2. /\ new[s] = b /\ \A t \in ArraySlots : t # s => new[t] = arrs[t]
      /\ new \in [ArraySlots -> ArrayRecords \cup {Dyn!NoArray}]
  BY <1>1
<1> HIDE DEF new
<1>3. b # Dyn!NoArray
  BY NoArrayIsNone
<1>4. Used(new) = Used(arrs) \cup {s} /\ Used(arrs) \subseteq ArraySlots
  BY <1>2, <1>3 DEF Used
<1>5. ASSUME NEW t \in Used(new) PROVE Fits(new[t], nodes2)
  <2>1. CASE t = s
    BY <1>2, <2>1
  <2>2. CASE t # s
    <3>1. new[t] = arrs[t] /\ Fits(arrs[t], nodes)
      BY <1>1, <1>2, <1>4, <2>2
    <3>2. arrs[t].node \in 1 .. Len(nodes)
      BY <3>1 DEF Fits
    <3> QED BY <3>1, <3>2 DEF Fits
  <2> QED BY <2>1, <2>2
<1>6. \A t \in Used(arrs) \ {s} : new[t].node = arrs[t].node /\ arrs[t].node # b.node
  BY <1>2, <1>4 DEF NodesOf
<1>7. ASSUME NEW t \in Used(new), NEW u \in Used(new), t # u
      PROVE  new[t].node # new[u].node
  <2>1. CASE t = s
    BY <1>2, <1>4, <1>6, <1>7, <2>1
  <2>2. CASE u = s
    BY <1>2, <1>4, <1>6, <1>7, <2>2
  <2>3. CASE t # s /\ u # s
    BY <1>1, <1>4, <1>6, <1>7, <2>3
  <2> QED BY <2>1, <2>2, <2>3
<1>8. NodesOf(new, Used(new)) = NodesOf(arrs, Used(arrs) \ {s}) \cup {b.node}
  BY <1>2, <1>4, <1>6 DEF NodesOf
<1>9. ArraysSound(lists2, nodes2, new)
  BY <1>2, <1>5, <1>7, <1>8 DEF ArraysSound
<1> QED BY <1>9 DEF new

\* The nodes that the slots other than s have.
LEMMA NodesWithout ==
  ASSUME NEW lists, NEW nodes, NEW arrs, ArraysSound(lists, nodes, arrs), NEW s \in ArraySlots
  PROVE  /\ s \in Used(arrs) => /\ arrs[s].node \in NodesOf(arrs, Used(arrs))
                                /\ NodesOf(arrs, Used(arrs) \ {s})
                                     = NodesOf(arrs, Used(arrs)) \ {arrs[s].node}
         /\ s \notin Used(arrs) => NodesOf(arrs, Used(arrs) \ {s}) = NodesOf(arrs, Used(arrs))
<1>1. \A t, u \in Used(arrs) : t # u => arrs[t].node # arrs[u].node
  BY DEF ArraysSound
<1>2. s \notin Used(arrs) => Used(arrs) \ {s} = Used(arrs)
  OBVIOUS
<1> QED BY <1>1, <1>2 DEF NodesOf

\* Creating, appending to, overwriting and destroying keep the nodes apart.
LEMMA StepKeepsArrays ==
  ASSUME Dyn!PoolFits, DynInv, Dyn!DynNext
  PROVE  DynInv'
<1>1. PICK s \in ArraySlots :
        \/ \E T \in Types, n \in Counts : Dyn!dynamic_array_create(s, T, n)
        \/ \E n \in Counts : Dyn!dynamic_array_append(s, n)
        \/ \E n \in Counts : Dyn!dynamic_array_from_buffer_overwrite(s, n)
        \/ Dyn!dynamic_array_destroy(s)
  BY Zenon DEF Dyn!DynNext
<1>2. ArraysSound(node_lists, node_size, arrays)
  BY DEF DynInv
<1> DEFINE others == NodesOf(arrays, Used(arrays) \ {s})
           taken == NodesOf(arrays, Used(arrays))
<1>3. /\ s \in Used(arrays) => arrays[s].node \in taken /\ others = taken \ {arrays[s].node}
      /\ s \notin Used(arrays) => others = taken
  <2>1. \A lists, nodes, arrs : ArraysSound(lists, nodes, arrs) =>
          /\ s \in Used(arrs) => /\ arrs[s].node \in NodesOf(arrs, Used(arrs))
                                 /\ NodesOf(arrs, Used(arrs) \ {s})
                                      = NodesOf(arrs, Used(arrs)) \ {arrs[s].node}
          /\ s \notin Used(arrs) => NodesOf(arrs, Used(arrs) \ {s}) = NodesOf(arrs, Used(arrs))
    BY NodesWithout
  <2> QED BY <1>2, <2>1
<1>4. /\ arrays \in [ArraySlots -> ArrayRecords \cup {Dyn!NoArray}]
      /\ \A t \in Used(arrays) : Fits(arrays[t], node_size)
      /\ ListsKeep(node_lists, node_size, taken)
  BY <1>2 DEF ArraysSound
<1>5. s \in Used(arrays) <=> arrays[s] # Dyn!NoArray
  BY DEF Used
<1> HIDE DEF others, taken
\* What growing leaves, too: the slot has a new array.
<1>6. ASSUME NEW lists, NEW nodes, NEW b, b \in ArrayRecords, Fits(b, nodes),
             \A k \in 1 .. Len(node_size) : k \in 1 .. Len(nodes) /\ nodes[k] = node_size[k],
             b.node \notin others, ListsKeep(lists, nodes, others \cup {b.node})
      PROVE  ArraysSound(lists, nodes, [arrays EXCEPT ![s] = b])
  BY <1>2, <1>6, SlotTakesArray DEF others
<1>7. ASSUME NEW T \in Types, NEW n \in Dyn!Lengths
      PROVE  LET made == Dyn!Created(T, n, node_lists)
                 array == made.array
             IN  /\ array = [type |-> T, size |-> 0, node |-> array.node,
                             capacity |-> array.capacity]
                 /\ array.capacity \in Nat \ {0} /\ n <= array.capacity
                 /\ array.node \in 1 .. Len(made.nodes) \ taken
                 /\ made.nodes[array.node] = Dyn!AllocSizeFind(array.capacity, T)
                 /\ Dyn!ArrayOffset(T) + array.capacity * T.size <= made.nodes[array.node]
                 /\ ListsKeep(made.lists, made.nodes, taken \cup {array.node})
                 /\ \A k \in 1 .. Len(node_size) :
                      k \in 1 .. Len(made.nodes) /\ made.nodes[k] = node_size[k]
  <2>1. PICK h : h = taken
    OBVIOUS
  <2>2. ListsKeep(node_lists, node_size, h)
    BY <1>4, <2>1
  <2> QED BY <2>1, <2>2, CreatedFits, ZenonT(60)
\* An array that keeps its node keeps everything but its size.
<1>8. ASSUME NEW size \in Nat, s \in Used(arrays), size <= arrays[s].capacity,
             NEW b, b = [arrays[s] EXCEPT !.size = size]
      PROVE  ArraysSound(node_lists, node_size, [arrays EXCEPT ![s] = b])
  <2>1. arrays[s] \in ArrayRecords /\ Fits(arrays[s], node_size)
    BY <1>4, <1>5, <1>8
  <2>2. /\ b \in ArrayRecords /\ b.size = size /\ b.node = arrays[s].node
        /\ b.capacity = arrays[s].capacity /\ b.type = arrays[s].type
    BY <1>8, <2>1 DEF ArrayRecords
  <2>3. Fits(b, node_size)
    BY <1>8, <2>1, <2>2 DEF Fits
  <2>4. b.node \notin others /\ others \cup {b.node} = taken
    BY <1>3, <1>8, <2>2
  <2> QED BY <1>4, <1>6, <2>2, <2>3, <2>4
\* The slot's new array has a node that none had, and its size fits.
<1>9. ASSUME NEW T \in Types, NEW n \in Dyn!Lengths, NEW size \in Nat, size <= n,
             NEW lists, NEW made, made = Dyn!Created(T, n, node_lists),
             NEW b, b = [made.array EXCEPT !.size = size],
             ListsKeep(lists, made.nodes, others \cup {b.node})
      PROVE  ArraysSound(lists, made.nodes, [arrays EXCEPT ![s] = b])
  <2>1. /\ made.array = [type |-> T, size |-> 0, node |-> made.array.node,
                         capacity |-> made.array.capacity]
        /\ made.array.capacity \in Nat \ {0} /\ n <= made.array.capacity
        /\ made.array.node \in 1 .. Len(made.nodes) \ taken
        /\ made.nodes[made.array.node] = Dyn!AllocSizeFind(made.array.capacity, T)
        /\ Dyn!ArrayOffset(T) + made.array.capacity * T.size <= made.nodes[made.array.node]
        /\ \A k \in 1 .. Len(node_size) :
             k \in 1 .. Len(made.nodes) /\ made.nodes[k] = node_size[k]
    BY <1>7, <1>9
  <2>2. PICK node, capacity : node = made.array.node /\ capacity = made.array.capacity
    OBVIOUS
  <2>3. node \in Nat \ {0} /\ capacity \in Nat \ {0} /\ n \in Nat
    BY <2>1, <2>2 DEF Dyn!Lengths, Dyn!PoolFits
  <2>4. b = [type |-> T, size |-> size, node |-> node, capacity |-> capacity]
    <3>1. made.array = [type |-> T, size |-> 0, node |-> node, capacity |-> capacity]
      BY <2>1, <2>2
    <3> QED BY <1>9, <3>1
  <2>5. /\ b \in ArrayRecords /\ b.size = size /\ b.node = node
        /\ b.capacity = capacity /\ b.type = T
    BY <2>3, <2>4 DEF ArrayRecords
  <2>6. size <= capacity
    BY <1>9, <2>1, <2>2, <2>3
  <2>7. Fits(b, made.nodes)
    BY <2>1, <2>2, <2>5, <2>6 DEF Fits
  <2>8. b.node \notin others
    BY <1>3, <2>1, <2>2, <2>5
  <2> QED BY <1>6, <1>9, <2>1, <2>5, <2>7, <2>8
<1>10. ASSUME NEW T \in Types, NEW n \in Counts, Dyn!dynamic_array_create(s, T, n)
       PROVE  DynInv'
  <2>1. PICK made : made = Dyn!Created(T, n, node_lists)
    OBVIOUS
  <2>2. /\ arrays[s] = Dyn!NoArray /\ arrays' = [arrays EXCEPT ![s] = made.array]
        /\ node_lists' = made.lists /\ node_size' = made.nodes
    BY <1>10, <2>1 DEF Dyn!dynamic_array_create
  <2>3. n \in Dyn!Lengths /\ others = taken /\ 0 <= n
    BY <1>3, <1>5, <2>2 DEF Dyn!Lengths, Dyn!PoolFits
  <2>4. /\ made.array = [type |-> T, size |-> 0, node |-> made.array.node,
                         capacity |-> made.array.capacity]
        /\ ListsKeep(made.lists, made.nodes, taken \cup {made.array.node})
    BY <1>7, <2>1, <2>3
  <2>5. made.array = [made.array EXCEPT !.size = 0]
    BY <2>4
  <2>6. ArraysSound(made.lists, made.nodes, [arrays EXCEPT ![s] = made.array])
    BY <1>9, <2>1, <2>3, <2>4, <2>5
  <2> QED BY <2>2, <2>6 DEF DynInv
<1>11. ASSUME NEW size \in Nat, NEW n \in Nat, NEW arr, arr = [arrays[s] EXCEPT !.size = size],
              s \in Used(arrays), size + n > arrays[s].capacity => size + n \in Dyn!Lengths,
              Dyn!AppendTo(s, arr, n)
       PROVE  DynInv'
  <2>1. arrays[s] \in ArrayRecords /\ Fits(arrays[s], node_size)
    BY <1>4, <1>5, <1>11
  <2>2. /\ arr \in ArrayRecords /\ arr.size = size /\ arr.node = arrays[s].node
        /\ arr.capacity = arrays[s].capacity /\ arr.type = arrays[s].type
        /\ arr.type \in Types /\ arr.capacity \in Nat
    BY <1>11, <2>1 DEF ArrayRecords
  <2>3. PICK new_size \in Nat : new_size = size + n
    OBVIOUS
  <2>4. CASE new_size > arr.capacity
    <3>1. PICK made : made = Dyn!Created(arr.type, new_size, node_lists)
      OBVIOUS
    <3>2. /\ arrays' = [arrays EXCEPT ![s] = [made.array EXCEPT !.size = new_size]]
          /\ node_lists' = Dyn!Destroyed(arr, made.lists)
          /\ node_size' = made.nodes
      BY <1>11, <2>2, <2>3, <2>4, <3>1 DEF Dyn!AppendTo
    <3>3. new_size \in Dyn!Lengths /\ new_size <= new_size
      BY <1>11, <2>2, <2>3, <2>4
    <3>4. /\ made.array = [type |-> arr.type, size |-> 0, node |-> made.array.node,
                           capacity |-> made.array.capacity]
          /\ made.array.node \in 1 .. Len(made.nodes) \ taken
          /\ ListsKeep(made.lists, made.nodes, taken \cup {made.array.node})
          /\ \A k \in 1 .. Len(node_size) :
               k \in 1 .. Len(made.nodes) /\ made.nodes[k] = node_size[k]
      BY <1>7, <2>2, <3>1, <3>3
    <3>5. PICK b : b = [made.array EXCEPT !.size = new_size]
      OBVIOUS
    <3>6. PICK node : node = made.array.node
      OBVIOUS
    <3>7. b.node = node
      BY <3>4, <3>5, <3>6
    <3>8. PICK old : old = arr.node
      OBVIOUS
    <3>9. PICK h : h = taken
      OBVIOUS
    <3>10. old \in h \cup {node} /\ (h \cup {node}) \ {old} = others \cup {node}
      BY <1>3, <1>11, <2>2, <3>4, <3>6, <3>8, <3>9
    <3>11. made.nodes[old] = Dyn!AllocSizeFind(arr.capacity, arr.type)
      BY <2>1, <2>2, <3>4, <3>8 DEF Fits
    <3>12. Dyn!Destroyed(arr, made.lists)
             = [made.lists EXCEPT ![Dyn!FreeListIdx(made.nodes[old])] = <<old>> \o @]
      BY <3>8, <3>11, Zenon DEF Dyn!Destroyed
    <3>13. ListsKeep(made.lists, made.nodes, h \cup {node})
      BY <3>4, <3>6, <3>9
    <3>14. ListsKeep([made.lists EXCEPT ![Dyn!FreeListIdx(made.nodes[old])] = <<old>> \o @],
                     made.nodes, (h \cup {node}) \ {old})
      BY <3>10, <3>13, GiveKeepsLists
    <3>15. PICK lists : lists = Dyn!Destroyed(arr, made.lists)
      OBVIOUS
    <3>16. ListsKeep(lists, made.nodes, others \cup {b.node})
      BY <3>7, <3>10, <3>12, <3>14, <3>15, Zenon
    <3>17. ArraysSound(lists, made.nodes, [arrays EXCEPT ![s] = b])
      BY <1>9, <2>2, <3>1, <3>3, <3>5, <3>16
    <3> QED BY <3>2, <3>5, <3>15, <3>17 DEF DynInv
  <2>5. CASE ~(new_size > arr.capacity)
    <3>1. /\ arrays' = [arrays EXCEPT ![s] = [arr EXCEPT !.size = new_size]]
          /\ node_lists' = node_lists /\ node_size' = node_size
      BY <1>11, <2>2, <2>3, <2>5 DEF Dyn!AppendTo
    <3>2. PICK b : b = [arr EXCEPT !.size = new_size]
      OBVIOUS
    <3>3. b = [arrays[s] EXCEPT !.size = new_size]
      BY <1>11, <2>1, <3>2 DEF ArrayRecords
    <3>4. new_size <= arrays[s].capacity
      BY <2>2, <2>3, <2>5
    <3>5. ArraysSound(node_lists, node_size, [arrays EXCEPT ![s] = b])
      BY <1>8, <1>11, <3>3, <3>4
    <3> QED BY <3>1, <3>2, <3>5 DEF DynInv
  <2> QED BY <2>4, <2>5
<1>12. ASSUME NEW n \in Counts, Dyn!dynamic_array_append(s, n)
       PROVE  DynInv'
  <2>1. s \in Used(arrays) /\ arrays[s] \in ArrayRecords
    BY <1>4, <1>5, <1>12 DEF Dyn!dynamic_array_append
  <2>2. PICK arr \in ArrayRecords : arr = arrays[s]
    BY <2>1
  <2>3. PICK size \in Nat : size = arr.size
    BY DEF ArrayRecords
  <2>4. arr = [arrays[s] EXCEPT !.size = size] /\ arr.capacity \in Nat \ {0}
    BY <2>2, <2>3 DEF ArrayRecords
  <2>5. Dyn!AppendTo(s, arr, n) /\ size + n <= MaxLength
    BY <1>12, <2>2, <2>3, Zenon DEF Dyn!dynamic_array_append
  <2>6. n \in Nat /\ MaxLength \in Nat
    BY DEF Dyn!PoolFits
  <2>7. size + n > arrays[s].capacity => size + n \in Dyn!Lengths
    BY <2>2, <2>3, <2>4, <2>5, <2>6 DEF Dyn!Lengths
  <2> QED BY <1>11, <2>1, <2>4, <2>5, <2>6, <2>7
<1>13. ASSUME NEW n \in Counts, Dyn!dynamic_array_from_buffer_overwrite(s, n)
       PROVE  DynInv'
  <2>1. s \in Used(arrays)
    BY <1>5, <1>13 DEF Dyn!dynamic_array_from_buffer_overwrite
  <2>2. PICK arr : arr = [arrays[s] EXCEPT !.size = 0]
    OBVIOUS
  <2>3. Dyn!AppendTo(s, arr, n)
    BY <1>13, <2>2, Zenon DEF Dyn!dynamic_array_from_buffer_overwrite
  <2>4. n \in Nat /\ 0 + n = n /\ n \in Dyn!Lengths
    BY DEF Dyn!PoolFits, Dyn!Lengths
  <2> QED BY <1>11, <2>1, <2>2, <2>3, <2>4
<1>14. ASSUME Dyn!dynamic_array_destroy(s)
       PROVE  DynInv'
  <2>1. /\ s \in Used(arrays) /\ arrays' = [arrays EXCEPT ![s] = Dyn!NoArray]
        /\ node_lists' = Dyn!Destroyed(arrays[s], node_lists) /\ node_size' = node_size
    BY <1>5, <1>14 DEF Dyn!dynamic_array_destroy
  <2>2. PICK old : old = arrays[s].node
    OBVIOUS
  <2>3. PICK h : h = taken
    OBVIOUS
  <2>4. node_size[old] = Dyn!AllocSizeFind(arrays[s].capacity, arrays[s].type)
    BY <1>4, <2>1, <2>2 DEF Fits
  <2>5. Dyn!Destroyed(arrays[s], node_lists)
          = [node_lists EXCEPT ![Dyn!FreeListIdx(node_size[old])] = <<old>> \o @]
    BY <2>2, <2>4, Zenon DEF Dyn!Destroyed
  <2>6. ListsKeep(node_lists, node_size, h) /\ old \in h /\ h \ {old} = others
    BY <1>3, <1>4, <2>1, <2>2, <2>3
  <2>7. ListsKeep([node_lists EXCEPT ![Dyn!FreeListIdx(node_size[old])] = <<old>> \o @],
                  node_size, h \ {old})
    BY <2>6, GiveKeepsLists
  <2>8. ListsKeep(node_lists', node_size, others)
    BY <2>1, <2>5, <2>6, <2>7, Zenon
  <2>9. PICK new : new = [arrays EXCEPT ![s] = Dyn!NoArray]
    OBVIOUS
  <2>10. /\ new \in [ArraySlots -> ArrayRecords \cup {Dyn!NoArray}]
         /\ new[s] = Dyn!NoArray /\ \A t \in ArraySlots : t # s => new[t] = arrays[t]
    BY <1>4, <2>9
  <2>11. Used(new) = Used(arrays) \ {s} /\ \A t \in Used(new) : new[t] = arrays[t]
    BY <2>10 DEF Used
  <2>12. NodesOf(new, Used(new)) = others
    BY <2>11 DEF NodesOf, others
  <2>13. \A t, u \in Used(arrays) : t # u => arrays[t].node # arrays[u].node
    BY <1>2 DEF ArraysSound
  <2>14. \A t \in Used(new) : Fits(new[t], node_size)
    BY <1>4, <2>11
  <2>15. \A t, u \in Used(new) : t # u => new[t].node # new[u].node
    BY <2>11, <2>13
  <2>16. PICK lists : lists = node_lists'
    OBVIOUS
  <2>17. ArraysSound(lists, node_size, new)
    BY <2>8, <2>10, <2>12, <2>14, <2>15, <2>16 DEF ArraysSound
  <2> QED BY <2>1, <2>9, <2>16, <2>17 DEF DynInv
<1> QED BY <1>1, <1>10, <1>12, <1>13, <1>14

\* At first there are no nodes.
LEMMA InitialArrays ==
  ASSUME Dyn!PoolFits, Dyn!DynInit
  PROVE  DynInv
<1>1. node_lists = [i \in ListIdx |-> <<>>] /\ node_size = <<>>
      /\ arrays = [s \in ArraySlots |-> Dyn!NoArray]
  BY DEF Dyn!DynInit, ListIdx
<1>2. Used(arrays) = {} /\ NodesOf(arrays, Used(arrays)) = {}
  BY <1>1 DEF Used, NodesOf
<1>3. /\ node_size \in Seq(NodeSizes) /\ Len(node_size) = 0 /\ 1 .. Len(node_size) = {}
      /\ node_lists \in [ListIdx -> Seq(Nat)]
      /\ \A i \in ListIdx : node_lists[i] = <<>>
  BY <1>1
<1>4. ToSet(<<>>) = {} /\ IsInjective(<<>>)
  BY DEF ToSet, IsInjective
<1>5. ListsKeep(node_lists, node_size, {})
  BY <1>3, <1>4 DEF ListsKeep
<1> QED BY <1>1, <1>2, <1>5 DEF DynInv, ArraysSound

\* Then each node is owned once and fits, as the property says.
LEMMA SoundMeansOwnedOnce ==
  ASSUME Dyn!PoolFits, DynInv
  PROVE  Dyn!NodesOwnedOnce
<1>1. /\ \A s \in Used(arrays) : Fits(arrays[s], node_size)
      /\ \A s, t \in Used(arrays) : s # t => arrays[s].node # arrays[t].node
      /\ ListsKeep(node_lists, node_size, NodesOf(arrays, Used(arrays)))
  BY DEF DynInv, ArraysSound
<1>2. Dyn!Live = Used(arrays)
  BY DEF Dyn!Live, Used
<1>3. ASSUME NEW n, NEW p
      PROVE  p \in Dyn!Listed(n) <=> \E i \in ListIdx : \E k \in DOMAIN node_lists[i] :
                                       p = <<i, k>> /\ node_lists[i][k] = n
  BY DEF Dyn!Listed, ListIdx
<1>4. ASSUME NEW n \in 1 .. Len(node_size)
      PROVE  /\ (\E s \in Used(arrays) : arrays[s].node = n) # (Dyn!Listed(n) # {})
             /\ \A s, t \in Used(arrays) : arrays[s].node = n /\ arrays[t].node = n => s = t
             /\ \A p, q \in Dyn!Listed(n) : p = q
             /\ \A p \in Dyn!Listed(n) : p[1] = Dyn!FreeListIdx(node_size[n])
  <2> DEFINE B == Dyn!Listed(n)
  <2>1. \A s, t \in Used(arrays) : arrays[s].node = n /\ arrays[t].node = n => s = t
    BY <1>1
  <2>2. \A i \in ListIdx : \A k \in DOMAIN node_lists[i] : node_lists[i][k] \in ToSet(node_lists[i])
    BY DEF ToSet
  <2>3. ASSUME NEW p \in B
        PROVE  /\ p[1] \in ListIdx /\ p[2] \in DOMAIN node_lists[p[1]] /\ p = <<p[1], p[2]>>
               /\ node_lists[p[1]][p[2]] = n
               /\ p[1] = Dyn!FreeListIdx(node_size[n])
    <3>1. PICK i \in ListIdx : \E k \in DOMAIN node_lists[i] : p = <<i, k>> /\ node_lists[i][k] = n
      BY <1>3
    <3>2. PICK k \in DOMAIN node_lists[i] : p = <<i, k>> /\ node_lists[i][k] = n
      BY <3>1
    <3>3. i = Dyn!FreeListIdx(node_size[n])
      BY <1>1, <2>2, <3>2 DEF ListsKeep
    <3> QED BY <3>2, <3>3
  <2>4. ASSUME NEW p \in B, NEW q \in B PROVE p = q
    <3>1. p[1] = q[1] /\ p[1] \in ListIdx
      BY <2>3
    <3>2. PICK nodes : nodes = node_lists[p[1]]
      OBVIOUS
    <3>3. /\ IsInjective(nodes) /\ p[2] \in DOMAIN nodes /\ q[2] \in DOMAIN nodes
          /\ nodes[p[2]] = n /\ nodes[q[2]] = n
      <4> HIDE DEF B
      <4> QED BY <1>1, <2>3, <3>1, <3>2 DEF ListsKeep
    <3>4. p[2] = q[2]
      BY <3>3, Zenon DEF IsInjective
    <3>5. p = <<p[1], p[2]>> /\ q = <<q[1], q[2]>>
      BY <2>3
    <3> HIDE DEF B
    <3> QED BY <3>1, <3>4, <3>5
  <2>5. (\E s \in Used(arrays) : arrays[s].node = n) # (B # {})
    <3>1. (\E s \in Used(arrays) : arrays[s].node = n) <=> n \in NodesOf(arrays, Used(arrays))
      BY DEF NodesOf
    <3>2. B # {} <=> \E i \in ListIdx : n \in ToSet(node_lists[i])
      <4>1. ASSUME NEW p \in B PROVE \E i \in ListIdx : n \in ToSet(node_lists[i])
        BY <1>3, <4>1 DEF ToSet
      <4>2. ASSUME NEW i \in ListIdx, n \in ToSet(node_lists[i]) PROVE B # {}
        <5>1. PICK k \in DOMAIN node_lists[i] : node_lists[i][k] = n
          BY <4>2 DEF ToSet
        <5>2. <<i, k>> \in B
          BY <1>3, <5>1
        <5> QED BY <5>2
      <4> HIDE DEF B
      <4> QED BY <4>1, <4>2
    <3> HIDE DEF B
    <3>3. n \in NodesOf(arrays, Used(arrays)) \/ \E i \in ListIdx : n \in ToSet(node_lists[i])
      BY <1>1 DEF ListsKeep
    <3>4. \A i \in ListIdx : ToSet(node_lists[i]) \cap NodesOf(arrays, Used(arrays)) = {}
      BY <1>1 DEF ListsKeep
    <3>5. ~(n \in NodesOf(arrays, Used(arrays)) /\ \E i \in ListIdx : n \in ToSet(node_lists[i]))
      BY <3>4
    <3> QED BY <3>1, <3>2, <3>3, <3>5, Zenon
  <2> HIDE DEF B
  <2> QED BY <2>1, <2>3, <2>4, <2>5 DEF B
<1>5. ASSUME NEW s \in Used(arrays)
      PROVE  /\ arrays[s].size <= arrays[s].capacity
             /\ Dyn!ArrayOffset(arrays[s].type) + arrays[s].capacity * arrays[s].type.size
                  <= node_size[arrays[s].node]
  BY <1>1 DEF Fits
<1> QED BY <1>2, <1>4, <1>5, Zenon DEF Dyn!NodesOwnedOnce

\* A node of the pool belongs to one array or waits once in the list of its own size,
\* and every array fits its node, whatever arrays of whatever types came and went:
\* dynamic_array_destroy finds the list the node came from.
THEOREM NodesNeverShared ==
  ASSUME Dyn!PoolFits
  PROVE  Dyn!DynInit /\ [][Dyn!DynNext]_<<node_lists, node_size, arrays>> => []NodesOwnedOnce
<1>1. Dyn!DynInit => DynInv
  BY InitialArrays
<1>2. DynInv /\ [Dyn!DynNext]_<<node_lists, node_size, arrays>> => DynInv'
  <2>1. CASE UNCHANGED <<node_lists, node_size, arrays>>
    BY <2>1 DEF DynInv
  <2> QED BY <2>1, StepKeepsArrays
<1>3. DynInv => NodesOwnedOnce
  BY SoundMeansOwnedOnce DEF NodesOwnedOnce
<1> QED BY <1>1, <1>2, <1>3, PTL

-----------------------------------------------------------------------------
(***************************************************************************)
(* Device.  What is alive stands on what it was made from, because objects *)
(* are made in the order of Creations and go in that of Destructions: the  *)
(* turn of what an object needs never comes before its own.                *)
(***************************************************************************)
Turn(object) ==
  CASE object = "imgui" -> 1
    [] object = "swapchain" -> 2
    [] object \in {"asset_manager", "null_texture", "instance_buffers"} -> 3
    [] object = "command_pool" -> 4
    [] object = "surface" -> 5
    [] object \in {"descriptor_pool", "bindless_set"} -> 6
    [] object = "pipelines" -> 7
    [] object \in {"bindless_layout", "camera_layout"} -> 8
    [] object = "semaphores" -> 9
    [] object = "device" -> 10
    [] object = "messenger" -> 11
    [] OTHER -> 12

Foundations == {"instance", "messenger", "surface", "device"}
Created == {"descriptor_pool", "asset_manager", "swapchain", "command_pool", "bindless_layout",
            "bindless_set", "camera_layout", "null_texture", "pipelines", "semaphores", "imgui"}
Objects == Foundations \cup Created \cup {"instance_buffers"}

\* Each object goes in its turn.
LEMMA TurnIsDestruction ==
  /\ DOMAIN Gpu!Destructions = 1 .. 12
  /\ \A o \in Objects : Turn(o) \in 1 .. 12
  /\ \A o \in Objects, k \in 1 .. 12 : o \in Gpu!Destructions[k] <=> Turn(o) = k
<1> DEFINE D == Gpu!Destructions
<1>1. /\ DOMAIN D = 1 .. 12
      /\ D[1] = {"imgui"} /\ D[2] = {"swapchain"}
      /\ D[3] = {"asset_manager", "null_texture", "instance_buffers"}
      /\ D[4] = {"command_pool"} /\ D[5] = {"surface"}
      /\ D[6] = {"descriptor_pool", "bindless_set"} /\ D[7] = {"pipelines"}
      /\ D[8] = {"bindless_layout", "camera_layout"} /\ D[9] = {"semaphores"}
      /\ D[10] = {"device"} /\ D[11] = {"messenger"} /\ D[12] = {"instance"}
  BY DEF Gpu!Destructions
<1> HIDE DEF D
<1>2. \A k \in 1 .. 12 : \/ k = 1 \/ k = 2 \/ k = 3 \/ k = 4 \/ k = 5 \/ k = 6
                         \/ k = 7 \/ k = 8 \/ k = 9 \/ k = 10 \/ k = 11 \/ k = 12
  OBVIOUS
<1>3. ASSUME NEW o \in Objects
      PROVE  Turn(o) \in 1 .. 12 /\ \A k \in 1 .. 12 : o \in D[k] <=> Turn(o) = k
  <2>1. Turn(o) \in 1 .. 12
    BY DEF Turn
  <2>2. ASSUME NEW k \in 1 .. 12 PROVE o \in D[k] <=> Turn(o) = k
    BY <1>1, <1>2, <2>2, SMTT(60) DEF Turn, Objects, Foundations, Created
  <2> QED BY <2>1, <2>2
<1> QED BY <1>1, <1>3 DEF D

\* What an object needs goes with it or after it.
LEMMA NeedsGoLater ==
  \A o \in Objects : Gpu!Needs(o) \subseteq Objects /\ \A n \in Gpu!Needs(o) : Turn(o) <= Turn(n)
<1> SUFFICES ASSUME NEW o \in Objects
             PROVE  Gpu!Needs(o) \subseteq Objects /\ \A n \in Gpu!Needs(o) : Turn(o) <= Turn(n)
  OBVIOUS
<1>1. Gpu!Needs(o) \subseteq Objects
  BY SMTT(60) DEF Gpu!Needs, Objects, Foundations, Created
<1>2. ASSUME NEW n \in Gpu!Needs(o) PROVE Turn(o) <= Turn(n)
  BY <1>2, SMTT(60) DEF Gpu!Needs, Objects, Foundations, Created, Turn
<1> QED BY <1>1, <1>2

\* What an object of the renderer needs is there before the creations begin, or was
\* created before it.
LEMMA CreatedAfterNeeds ==
  /\ DOMAIN Gpu!Creations = 1 .. 11
  /\ \A k \in 1 .. 11 :
       /\ Gpu!Creations[k] \in Created
       /\ \A n \in Gpu!Needs(Gpu!Creations[k]) :
            n \in {"instance", "surface", "device"} \/ \E j \in 1 .. k - 1 : n = Gpu!Creations[j]
<1> DEFINE C == Gpu!Creations
<1>1. /\ DOMAIN C = 1 .. 11
      /\ C[1] = "descriptor_pool" /\ C[2] = "asset_manager" /\ C[3] = "swapchain"
      /\ C[4] = "command_pool" /\ C[5] = "bindless_layout" /\ C[6] = "bindless_set"
      /\ C[7] = "camera_layout" /\ C[8] = "null_texture" /\ C[9] = "pipelines"
      /\ C[10] = "semaphores" /\ C[11] = "imgui"
  BY DEF Gpu!Creations
<1> HIDE DEF C
<1>2. ASSUME NEW k \in 1 .. 11 PROVE C[k] \in Created
  <2>1. k = 1 \/ k = 2 \/ k = 3 \/ k = 4 \/ k = 5 \/ k = 6 \/ k = 7 \/ k = 8 \/ k = 9 \/ k = 10 \/ k = 11
    OBVIOUS
  <2> QED BY <1>1, <2>1 DEF Created
<1>3. ASSUME NEW k \in 1 .. 11, NEW n \in Gpu!Needs(C[k])
      PROVE  n \in {"instance", "surface", "device"} \/ \E j \in 1 .. k - 1 : n = C[j]
  <2>1. CASE k = 3
    <3>1. 2 \in 1 .. k - 1
      BY <2>1
    <3> QED BY <1>1, <1>3, <2>1, <3>1 DEF Gpu!Needs
  <2>2. CASE k = 6
    <3>1. 1 \in 1 .. k - 1
      BY <2>2
    <3> QED BY <1>1, <1>3, <2>2, <3>1 DEF Gpu!Needs
  <2>3. CASE k = 8
    <3>1. 2 \in 1 .. k - 1
      BY <2>3
    <3> QED BY <1>1, <1>3, <2>3, <3>1 DEF Gpu!Needs
  <2>4. CASE k = 2
    BY <1>1, <1>3, <2>4 DEF Gpu!Needs
  <2>5. CASE k \notin {2, 3, 6, 8}
    <3>1. k = 1 \/ k = 4 \/ k = 5 \/ k = 7 \/ k = 9 \/ k = 10 \/ k = 11
      BY <2>5
    <3> QED BY <1>1, <1>3, <3>1 DEF Gpu!Needs
  <2> QED BY <2>1, <2>2, <2>3, <2>4, <2>5
<1> QED BY <1>1, <1>2, <1>3 DEF C

\* The creations are all there are, each once.
LEMMA CreationsAreAll ==
  /\ \A o \in Created : \E k \in 1 .. 11 : o = Gpu!Creations[k]
  /\ \A j, k \in 1 .. 11 : Gpu!Creations[j] = Gpu!Creations[k] => j = k
<1> DEFINE C == Gpu!Creations
<1>1. /\ C[1] = "descriptor_pool" /\ C[2] = "asset_manager" /\ C[3] = "swapchain"
      /\ C[4] = "command_pool" /\ C[5] = "bindless_layout" /\ C[6] = "bindless_set"
      /\ C[7] = "camera_layout" /\ C[8] = "null_texture" /\ C[9] = "pipelines"
      /\ C[10] = "semaphores" /\ C[11] = "imgui"
  BY DEF Gpu!Creations
<1> HIDE DEF C
<1>2. \A k \in {1, 2, 3, 4, 5, 6, 7, 8, 9, 10, 11} : k \in 1 .. 11
  OBVIOUS
<1>3. \A o \in Created : \E k \in 1 .. 11 : o = C[k]
  BY <1>1, <1>2 DEF Created
<1>4. \A k \in 1 .. 11 : \/ k = 1 \/ k = 2 \/ k = 3 \/ k = 4 \/ k = 5 \/ k = 6
                         \/ k = 7 \/ k = 8 \/ k = 9 \/ k = 10 \/ k = 11
  OBVIOUS
<1>5. \A j, k \in 1 .. 11 : C[j] = C[k] => j = k
  BY <1>1, <1>4, SMTT(60)
<1> QED BY <1>3, <1>5 DEF C

\* Device counts as FiniteSets does.
LEMMA SameCardinality ==
  \A S : Gpu!Cardinality(S) = Cardinality(S) /\ Gpu!IsFiniteSet(S) = IsFiniteSet(S)
BY Zenon DEF Gpu!Cardinality, Cardinality, Gpu!IsFiniteSet, IsFiniteSet

\* The least of a set of numbers is in it.
LEMMA LeastIsIn ==
  ASSUME NEW S, S \subseteq Nat, S # {}
  PROVE  Gpu!Min(S) \in S /\ \A y \in S : Gpu!Min(S) <= y
<1>1. \E x \in S : \A y \in S : x <= y
  BY LeastNumber
<1> QED BY <1>1 DEF Gpu!Min

\* Each of the things has what it needs among them.
Standing(things) == \A o \in things : Gpu!Needs(o) \subseteq things

\* What each step of creation has behind it.
AliveInv ==
  /\ alive \subseteq Objects /\ Standing(alive)
  /\ step = "instance" => alive = {}
  /\ step \in {"pick", "logical", "surface"} => {"instance", "surface"} \subseteq alive /\ alive \subseteq Foundations
  /\ step \in {"surface", "objects", "running"} => {"instance", "surface", "device"} \subseteq alive
  /\ step = "objects" => \E k \in DOMAIN Gpu!Creations : Gpu!Creations[k] \notin alive
  /\ step = "running" => Created \ {"swapchain"} \subseteq alive

\* Each creation finds what it needs.
LEMMA CreationStands ==
  ASSUME AliveInv, Gpu!render_ctx_create
  PROVE  AliveInv'
<1> DEFINE C == Gpu!Creations
           missing == {k \in DOMAIN C : C[k] \notin alive}
<1>1. /\ step = "objects" /\ missing \subseteq 1 .. 11 /\ missing # {} /\ DOMAIN C = 1 .. 11
      /\ {"instance", "surface", "device"} \subseteq alive /\ Standing(alive) /\ alive \subseteq Objects
  BY CreatedAfterNeeds DEF AliveInv, Gpu!render_ctx_create
<1>2. PICK k \in 1 .. 11 : /\ k = Gpu!Min(missing) /\ k \in missing /\ \A j \in missing : k <= j
  <2>1. missing \subseteq Nat
    BY <1>1
  <2> QED BY <1>1, <2>1, LeastIsIn
<1>3. /\ alive' = alive \cup {C[k]}
      /\ step' = IF Cardinality(missing) = 1 THEN "running" ELSE step
  <2>1. /\ alive' = alive \cup {C[Gpu!Min(missing)]}
        /\ step' = IF Cardinality(missing) = 1 THEN "running" ELSE step
    BY SameCardinality, Zenon DEF Gpu!render_ctx_create
  <2> QED BY <1>2, <2>1
<1> HIDE DEF missing
<1>4. \A j \in 1 .. k - 1 : C[j] \in alive
  <2>1. \A j \in 1 .. k - 1 : j \in 1 .. 11 /\ ~(k <= j)
    OBVIOUS
  <2> QED BY <1>1, <1>2, <2>1 DEF missing
<1>5. C[k] \in Created /\ Gpu!Needs(C[k]) \subseteq alive
  BY <1>1, <1>4, CreatedAfterNeeds
<1>6. Standing(alive') /\ alive' \subseteq Objects
  BY <1>1, <1>3, <1>5, Zenon DEF Standing, Objects
<1>7. CASE Cardinality(missing) = 1
  <2>1. \A j \in 1 .. 11 : C[j] \in alive'
    <3>1. PICK x : missing = {x}
      <4>1. IsFiniteSet(missing)
        <5>1. IsFiniteSet(1 .. 11)
          <6>1. 1 \in Int /\ 11 \in Int
            OBVIOUS
          <6> QED BY <6>1, FS_Interval, Zenon
        <5> QED BY <1>1, <5>1, FS_Subset
      <4> QED BY <1>7, <4>1, FS_Singleton
    <3>2. missing = {k}
      BY <1>2, <3>1
    <3> QED BY <1>1, <1>3, <3>2 DEF missing
  <2>2. Created \subseteq alive'
    BY <2>1, CreationsAreAll
  <2> QED BY <1>1, <1>3, <1>6, <1>7, <2>2 DEF AliveInv
<1>8. CASE Cardinality(missing) # 1
  <2>1. missing # {k}
    BY <1>8, FS_Singleton
  <2>2. PICK j \in missing : j # k
    BY <1>2, <2>1
  <2>3. C[j] \notin alive'
    BY <1>1, <1>2, <1>3, <2>2, CreationsAreAll DEF missing
  <2> QED BY <1>1, <1>3, <1>6, <1>8, <2>2, <2>3 DEF AliveInv
<1> QED BY <1>7, <1>8

\* What goes is needed by nothing that stays.
LEMMA DestructionStands ==
  ASSUME AliveInv, Gpu!render_ctx_destroy
  PROVE  AliveInv'
<1> DEFINE D == Gpu!Destructions
           left == {k \in DOMAIN D : D[k] \cap alive # {}}
<1>1. /\ left \subseteq 1 .. 12 /\ left # {} /\ Standing(alive) /\ alive \subseteq Objects
  BY TurnIsDestruction DEF AliveInv, Gpu!render_ctx_destroy
<1>2. PICK k \in 1 .. 12 : /\ k = Gpu!Min(left) /\ \A j \in left : k <= j
  <2>1. left \subseteq Nat
    BY <1>1
  <2> QED BY <1>1, <2>1, LeastIsIn
<1>3. alive' = alive \ D[k] /\ step' \in {"destroying", "crashed"}
  BY <1>2, Zenon DEF Gpu!render_ctx_destroy
<1>4. \A o \in alive : k <= Turn(o) /\ (o \in D[k] <=> Turn(o) = k)
  <2> SUFFICES ASSUME NEW o \in alive PROVE k <= Turn(o) /\ (o \in D[k] <=> Turn(o) = k)
    OBVIOUS
  <2>1. Turn(o) \in 1 .. 12 /\ (o \in D[k] <=> Turn(o) = k) /\ o \in D[Turn(o)]
    BY <1>1, TurnIsDestruction
  <2>2. Turn(o) \in left
    BY <2>1, TurnIsDestruction
  <2> QED BY <1>2, <2>1, <2>2
<1> HIDE DEF left, D
<1>5. \A o \in alive : Turn(o) \in 1 .. 12
  BY <1>1, TurnIsDestruction
<1>6. ASSUME NEW o \in alive', NEW n \in Gpu!Needs(o) PROVE n \in alive'
  <2>1. o \in alive /\ n \in alive /\ o \in Objects
    BY <1>1, <1>3, <1>6 DEF Standing
  <2>2. Turn(o) <= Turn(n) /\ Turn(o) # k
    BY <1>3, <1>4, <1>6, <2>1, NeedsGoLater
  <2>3. Turn(n) # k
    BY <1>4, <1>5, <2>1, <2>2
  <2> QED BY <1>3, <1>4, <2>1, <2>3
<1>7. Standing(alive') /\ alive' \subseteq Objects
  BY <1>1, <1>3, <1>6 DEF Standing
<1> QED BY <1>3, <1>7 DEF AliveInv

\* The objects of the foundations need the instance at most.
LEMMA FoundationsNeed ==
  /\ \A o \in {"surface", "messenger", "device"} : Gpu!Needs(o) = {"instance"}
  /\ Gpu!Needs("instance") = {} /\ Gpu!Needs("instance_buffers") = {"asset_manager", "device"}
BY DEF Gpu!Needs

\* The swapchain comes and goes while the renderer runs, for nothing needs it.
LEMMA RecreationStands ==
  ASSUME AliveInv, Gpu!swapchain_recreate
  PROVE  AliveInv'
<1>1. /\ step = "running" /\ step' = step
      /\ alive' = alive \cup {"swapchain"} \/ alive' = alive \ {"swapchain"}
  BY Zenon DEF Gpu!swapchain_recreate
<1>2. /\ Standing(alive) /\ alive \subseteq Objects /\ {"instance", "surface", "device"} \subseteq alive
      /\ "asset_manager" \in alive /\ Created \ {"swapchain"} \subseteq alive
  BY <1>1 DEF AliveInv, Created
<1>3. /\ Gpu!Needs("swapchain") \subseteq alive
      /\ \A o \in Objects : "swapchain" \notin Gpu!Needs(o)
  <2>1. Gpu!Needs("swapchain") \subseteq alive
    BY <1>2 DEF Gpu!Needs
  <2>2. \A o \in Objects : "swapchain" \notin Gpu!Needs(o)
    BY SMTT(60) DEF Gpu!Needs, Objects, Foundations, Created
  <2> QED BY <2>1, <2>2
<1>4. Standing(alive') /\ alive' \subseteq Objects
  <2>1. CASE alive' = alive \cup {"swapchain"}
    BY <1>2, <1>3, <2>1, Zenon DEF Standing, Objects, Created
  <2>2. CASE alive' = alive \ {"swapchain"}
    <3>1. ASSUME NEW o \in alive', NEW n \in Gpu!Needs(o) PROVE n \in alive'
      <4>1. o \in alive /\ o \in Objects /\ n \in alive
        BY <1>2, <2>2, <3>1 DEF Standing
      <4>2. n # "swapchain"
        BY <1>3, <3>1, <4>1
      <4> QED BY <2>2, <4>1, <4>2
    <3> QED BY <1>2, <2>2, <3>1 DEF Standing
  <2> QED BY <1>1, <2>1, <2>2
<1>5. {"instance", "surface", "device"} \subseteq alive' /\ Created \ {"swapchain"} \subseteq alive'
  BY <1>1, <1>2
<1> QED BY <1>1, <1>4, <1>5 DEF AliveInv

\* Every step leaves each object with what it needs.
LEMMA StepStands == AliveInv /\ [Gpu!DeviceNext]_gpuVars => AliveInv'
<1> SUFFICES ASSUME AliveInv, [Gpu!DeviceNext]_gpuVars PROVE AliveInv'
  OBVIOUS
<1>1. CASE Gpu!create_instance
  <2>1. /\ alive' \subseteq {"instance", "surface", "messenger"} /\ {"instance", "surface"} \subseteq alive'
        /\ step' \in {"pick", "exited"}
    BY <1>1 DEF Gpu!create_instance, Gpu!Continue
  <2>2. Standing(alive') /\ alive' \subseteq Objects /\ alive' \subseteq Foundations
    BY <2>1, FoundationsNeed DEF Standing, Objects, Foundations
  <2> QED BY <2>1, <2>2 DEF AliveInv
<1>2. CASE Gpu!physical_device_pick
  <2>1. step = "pick" /\ step' \in {"logical", "exited"} /\ alive' = alive
    BY <1>2, Zenon DEF Gpu!physical_device_pick, Gpu!Continue
  <2> QED BY <2>1 DEF AliveInv, Standing
<1>3. CASE Gpu!logical_device_create
  <2>1. step = "logical" /\ step' \in {"surface", "exited"} /\ alive' = alive \cup {"device"}
    BY <1>3, Zenon DEF Gpu!logical_device_create, Gpu!Continue
  <2>2. Standing(alive) /\ {"instance", "surface"} \subseteq alive /\ alive \subseteq Foundations
    BY <2>1 DEF AliveInv
  <2>3. Standing(alive') /\ alive' \subseteq Objects /\ alive' \subseteq Foundations
    BY <2>1, <2>2, FoundationsNeed DEF Standing, Objects, Foundations
  <2> QED BY <2>1, <2>2, <2>3 DEF AliveInv
<1>4. CASE Gpu!ChooseSurface
  <2>1. step = "surface" /\ step' \in {"objects", "exited"} /\ alive' = alive
    BY <1>4, Zenon DEF Gpu!ChooseSurface, Gpu!Continue
  <2>2. Gpu!Creations[1] \notin alive /\ 1 \in DOMAIN Gpu!Creations
    <3>1. Gpu!Creations[1] = "descriptor_pool" /\ 1 \in DOMAIN Gpu!Creations
      BY DEF Gpu!Creations
    <3> QED BY <2>1, <3>1 DEF AliveInv, Foundations
  <2> QED BY <2>1, <2>2 DEF AliveInv, Standing
<1>5. CASE Gpu!render_ctx_create
  BY <1>5, CreationStands
<1>6. CASE Gpu!DrawCars
  <2>1. step = "running" /\ step' = step /\ alive' = alive \cup {"instance_buffers"}
    BY <1>6 DEF Gpu!DrawCars
  <2>2. Standing(alive) /\ {"asset_manager", "device"} \subseteq alive /\ alive \subseteq Objects
    BY <2>1 DEF AliveInv, Created
  <2>3. Standing(alive') /\ alive' \subseteq Objects
    BY <2>1, <2>2, FoundationsNeed DEF Standing, Objects
  <2> QED BY <2>1, <2>3 DEF AliveInv
<1>7. CASE Gpu!render_ctx_destroy
  BY <1>7, DestructionStands
<1>8. CASE UNCHANGED gpuVars
  BY <1>8 DEF gpuVars, AliveInv, Standing
<1>9. CASE Gpu!swapchain_recreate
  BY <1>9, RecreationStands
<1> QED BY <1>1, <1>2, <1>3, <1>4, <1>5, <1>6, <1>7, <1>8, <1>9 DEF Gpu!DeviceNext

-----------------------------------------------------------------------------
\* A device that the renderer can run on.
Fitting(d) ==
  /\ Required.device \subseteq d.extensions /\ d.formats # <<>> /\ d.modes # {}
  /\ "samplerAnisotropy" \in d.features
  /\ \E i, j \in DOMAIN d.families : "graphics" \in d.families[i] /\ "present" \in d.families[j]

\* The least of one number is that number.
LEMMA LeastOfOne == ASSUME NEW n \in Nat PROVE Gpu!Min({n}) = n
<1>1. {n} \subseteq Nat /\ {n} # {}
  OBVIOUS
<1>2. Gpu!Min({n}) \in {n}
  BY <1>1, LeastIsIn
<1> QED BY <1>2

\* LowestBit keeps one of the bits, if there is one.
LEMMA LowestBitIsOne ==
  ASSUME NEW B, B \subseteq Nat
  PROVE  /\ B = {} => Gpu!LowestBit(B) = {}
         /\ B # {} => \E b \in B : Gpu!LowestBit(B) = {b} /\ Gpu!Min(Gpu!LowestBit(B)) = b
<1>1. CASE B = {}
  BY <1>1 DEF Gpu!LowestBit
<1>2. CASE B # {}
  <2>1. PICK b \in B : b = Gpu!Min(B)
    BY <1>2, LeastIsIn
  <2>2. Gpu!LowestBit(B) = {b}
    BY <1>2, <2>1 DEF Gpu!LowestBit
  <2>3. Gpu!Min({b}) = b
    BY LeastOfOne
  <2> QED BY <1>2, <2>2, <2>3
<1> QED BY <1>1, <1>2

\* The families chosen do their work, and are one where one family does both.
LEMMA FamiliesChosen ==
  ASSUME NEW d, Gpu!Conforms(d)
  PROVE  LET bits == Gpu!queue_families_find(d)
             chosen == Gpu!queue_family_indices_from_bit_fields(bits)
         IN  /\ Gpu!queue_family_is_complete(bits) <=>
                  \E i, j \in DOMAIN d.families : "graphics" \in d.families[i] /\ "present" \in d.families[j]
             /\ Gpu!queue_family_is_complete(bits) =>
                  /\ chosen[1] \in DOMAIN d.families /\ "graphics" \in d.families[chosen[1]]
                  /\ chosen[2] \in DOMAIN d.families /\ "present" \in d.families[chosen[2]]
                  /\ (\E i \in DOMAIN d.families : {"graphics", "present"} \subseteq d.families[i])
                       => chosen[1] = chosen[2]
<1> DEFINE bits == Gpu!queue_families_find(d)
           G == Gpu!Families(d, "graphics")
           P == Gpu!Families(d, "present")
           same == Gpu!LowestBit(G \cap P)
           chosen == Gpu!queue_family_indices_from_bit_fields(bits)
<1>1. /\ \A i : i \in G <=> i \in DOMAIN d.families /\ "graphics" \in d.families[i]
      /\ \A i : i \in P <=> i \in DOMAIN d.families /\ "present" \in d.families[i]
  BY Zenon DEF Gpu!Families
<1>2. DOMAIN d.families \subseteq Nat
  BY DEF Gpu!Conforms, Gpu!IsList
<1>3. G \subseteq Nat /\ P \subseteq Nat /\ G \cap P \subseteq Nat
  BY <1>1, <1>2, Zenon
<1>4. bits = IF same # {} THEN [graphics |-> same, present |-> same]
             ELSE [graphics |-> Gpu!LowestBit(G), present |-> Gpu!LowestBit(P)]
  BY Zenon DEF Gpu!queue_families_find
<1>5. chosen = <<Gpu!Min(bits.graphics), Gpu!Min(bits.present)>>
  BY Zenon DEF Gpu!queue_family_indices_from_bit_fields
<1>6. Gpu!queue_family_is_complete(bits) <=> bits.graphics # {} /\ bits.present # {}
  BY Zenon DEF Gpu!queue_family_is_complete
<1> HIDE DEF bits, G, P, same, chosen
<1>7. (\E i, j \in DOMAIN d.families : "graphics" \in d.families[i] /\ "present" \in d.families[j])
        <=> G # {} /\ P # {}
  BY <1>1, Zenon
<1>8. (\E i \in DOMAIN d.families : {"graphics", "present"} \subseteq d.families[i]) <=> G \cap P # {}
  BY <1>1
<1>9. CASE G \cap P # {}
  <2>1. PICK b \in G \cap P : same = {b} /\ Gpu!Min(same) = b
    BY <1>3, <1>9, LowestBitIsOne DEF same
  <2>2. bits.graphics = same /\ bits.present = same
    BY <1>4, <2>1
  <2>3. chosen[1] = b /\ chosen[2] = b
    BY <1>5, <2>1, <2>2
  <2>4. G # {} /\ P # {} /\ b \in G /\ b \in P
    BY <2>1
  <2> QED BY <1>1, <1>6, <1>7, <2>1, <2>2, <2>3, <2>4 DEF bits, chosen
<1>10. CASE G \cap P = {}
  <2>1. same = {}
    BY <1>10, LowestBitIsOne DEF same
  <2>2. bits.graphics = Gpu!LowestBit(G) /\ bits.present = Gpu!LowestBit(P)
    BY <1>4, <2>1
  <2>3. CASE G # {} /\ P # {}
    <3>1. PICK g \in G : Gpu!LowestBit(G) = {g} /\ Gpu!Min(Gpu!LowestBit(G)) = g
      BY <1>3, <2>3, LowestBitIsOne
    <3>2. PICK p \in P : Gpu!LowestBit(P) = {p} /\ Gpu!Min(Gpu!LowestBit(P)) = p
      BY <1>3, <2>3, LowestBitIsOne
    <3>3. chosen[1] = g /\ chosen[2] = p
      BY <1>5, <2>2, <3>1, <3>2
    <3> QED BY <1>1, <1>6, <1>7, <1>8, <1>10, <2>2, <2>3, <3>1, <3>2, <3>3 DEF bits, chosen
  <2>4. CASE ~(G # {} /\ P # {})
    <3>1. Gpu!LowestBit(G) = {} \/ Gpu!LowestBit(P) = {}
      BY <1>3, <2>4, LowestBitIsOne
    <3> QED BY <1>6, <1>7, <2>2, <2>4, <3>1 DEF bits
  <2> QED BY <2>3, <2>4
<1> QED BY <1>9, <1>10

\* A device has all the extensions asked for exactly when none of them is left.
LEMMA ExtensionsSupported ==
  ASSUME IsFiniteSet(Required.device), NEW d
  PROVE  Gpu!check_device_extension_support(d) <=> Required.device \subseteq d.extensions
<1> DEFINE R == Required.device
           S == {e \in d.extensions : e \in R}
<1>1. S \subseteq R /\ (S = R <=> R \subseteq d.extensions)
  OBVIOUS
<1>2. Gpu!check_device_extension_support(d) <=> Cardinality(R) - Cardinality(S) = 0
  BY SameCardinality, Zenon DEF Gpu!check_device_extension_support
<1>3. Cardinality(R) \in Nat /\ Cardinality(S) \in Nat /\ (Cardinality(R) = Cardinality(S) => S = R)
  <2>1. S \in SUBSET R
    BY <1>1
  <2>2. IsFiniteSet(S) /\ (Cardinality(R) = Cardinality(S) => R = S)
    BY <2>1, FS_Subset, Zenon
  <2> QED BY <2>2, FS_CardinalityType
<1> HIDE DEF S, R
<1> QED BY <1>1, <1>2, <1>3 DEF R

\* is_device_suitable finds what the renderer can run on.
LEMMA SuitableIsFitting ==
  ASSUME IsFiniteSet(Required.device), NEW d, Gpu!Conforms(d)
  PROVE  Gpu!is_device_suitable(d) <=> Fitting(d)
BY FamiliesChosen, ExtensionsSupported, Zenon DEF Gpu!is_device_suitable, Fitting

\* The number of samples is one the device has for colors and for depth.
LEMMA SamplesPossible ==
  ASSUME NEW d, Gpu!Conforms(d)
  PROVE  Gpu!Min({4, Gpu!max_usable_sample_count_get(d)}) \in d.color_samples \cap d.depth_samples
<1> DEFINE S == d.color_samples \cap d.depth_samples
           m == Gpu!max_usable_sample_count_get(d)
<1>1. S \subseteq 1 .. 64 /\ 1 \in S /\ ((\E n \in S : n > 4) => 4 \in S)
  BY DEF Gpu!Conforms
<1>2. m = Gpu!Max(S)
  BY DEF Gpu!max_usable_sample_count_get
<1> HIDE DEF S, m
<1>3. \E x \in S : \A y \in S : x >= y
  <2> DEFINE T == {64 - x : x \in S}
  <2>1. T \subseteq Nat /\ T # {}
    BY <1>1
  <2>2. PICK t \in T : \A u \in T : t <= u
    BY <2>1, LeastNumber
  <2>3. PICK x \in S : t = 64 - x
    BY <2>2
  <2>4. ASSUME NEW y \in S PROVE x >= y
    <3>1. 64 - y \in T
      OBVIOUS
    <3>2. 64 - x <= 64 - y
      BY <2>2, <2>3, <3>1, Zenon
    <3>3. x \in Nat /\ y \in Nat
      BY <1>1
    <3> QED BY <3>2, <3>3
  <2> QED BY <2>4
<1>4. m \in S
  BY <1>2, <1>3 DEF Gpu!Max
<1>5. {4, m} \subseteq Nat /\ {4, m} # {} /\ m \in Nat
  BY <1>1, <1>4
<1>6. Gpu!Min({4, m}) \in {4, m} /\ Gpu!Min({4, m}) <= m
  BY <1>5, LeastIsIn
<1>7. Gpu!Min({4, m}) = m \/ (Gpu!Min({4, m}) = 4 /\ m > 4)
  BY <1>5, <1>6
<1> QED BY <1>1, <1>4, <1>7 DEF S, m

\* What makes p the right pick of machine m.
PickFits(m, p) ==
  LET d == m.devices[p.device]
  IN  /\ p.device \in DOMAIN m.devices /\ Fitting(d)
      /\ p.families[1] \in DOMAIN d.families /\ "graphics" \in d.families[p.families[1]]
      /\ p.families[2] \in DOMAIN d.families /\ "present" \in d.families[p.families[2]]
      /\ (\E i \in DOMAIN d.families : {"graphics", "present"} \subseteq d.families[i])
           => p.families[1] = p.families[2]
      /\ p.samples \in d.color_samples \cap d.depth_samples
      /\ \A i \in 1 .. p.device - 1 : ~Fitting(m.devices[i])

\* The choices of the swapchain are the device's to give.
SurfaceFits(d, s) ==
  /\ s.format \in {d.formats[i] : i \in DOMAIN d.formats}
  /\ s.mode \in d.modes
  /\ s.width \in d.extent.min .. d.extent.max

\* Why render_ctx_create may give up before a device is chosen.
NothingFits(m) ==
  \/ ~(Required.instance \subseteq m.extensions)
  \/ Validation /\ ~(Required.layers \subseteq m.layers /\ "debug_utils" \in m.extensions)
  \/ \A i \in DOMAIN m.devices : ~Fitting(m.devices[i])

\* The reasons of each choice, from the step that makes it on.
ChoiceInv ==
  /\ machine \in Machines
  /\ step \in {"instance", "pick"} => picked = Gpu!NoDevice
  /\ step \in {"logical", "surface", "objects", "running"} => picked # Gpu!NoDevice
  /\ picked # Gpu!NoDevice => PickFits(machine, picked)
  /\ step \in {"surface", "objects", "running"} => Gpu!Enabled \subseteq Gpu!Chosen.features
  /\ step \in {"objects", "running"} => SurfaceFits(Gpu!Chosen, surface)
  /\ step = "exited" /\ picked = Gpu!NoDevice => NothingFits(machine)

\* An instance is refused for what the machine lacks.
LEMMA RefusalJustified ==
  ASSUME ~(/\ Validation => Gpu!check_validation_layer_support
           /\ Gpu!AllFound(Gpu!required_extensions_get, machine.extensions))
  PROVE  NothingFits(machine)
BY DEF Gpu!check_validation_layer_support, Gpu!AllFound, Gpu!required_extensions_get, NothingFits

\* The first device that is suitable is the right pick, and there is none to pick
\* only if none fits.
LEMMA PickStands ==
  ASSUME Gpu!MachinesConform, ChoiceInv, Gpu!physical_device_pick
  PROVE  ChoiceInv'
<1> DEFINE L == machine.devices
           suitable == {i \in DOMAIN L : Gpu!is_device_suitable(L[i])}
           m == Gpu!Min(suitable)
           d == L[m]
           p == [device |-> m,
                 families |-> Gpu!queue_family_indices_from_bit_fields(Gpu!queue_families_find(d)),
                 samples |-> Gpu!Min({4, Gpu!max_usable_sample_count_get(d)})]
<1>1. /\ step = "pick" /\ step' = (IF suitable # {} THEN "logical" ELSE "exited")
      /\ picked' = IF suitable = {} THEN picked ELSE p
      /\ machine' = machine /\ surface' = surface
  BY Zenon DEF Gpu!physical_device_pick, Gpu!Continue
<1>2. machine \in Machines /\ picked = Gpu!NoDevice
  BY <1>1 DEF ChoiceInv
<1>3. /\ IsFiniteSet(Required.device) /\ DOMAIN L \subseteq Nat \ {0}
      /\ \A k \in DOMAIN L : \A i \in 1 .. k - 1 : i \in DOMAIN L
      /\ \A k \in DOMAIN L : Gpu!Conforms(L[k])
  <2>1. IsFiniteSet(Required.device) /\ Gpu!IsList(L) /\ \A k \in DOMAIN L : Gpu!Conforms(L[k])
    BY <1>2, SameCardinality, Zenon DEF Gpu!MachinesConform
  <2> QED BY <2>1 DEF Gpu!IsList
<1>4. \A i \in DOMAIN L : i \in suitable <=> Fitting(L[i])
  BY <1>3, SuitableIsFitting, Zenon
<1>5. CASE suitable = {}
  <2>1. picked' = Gpu!NoDevice /\ step' = "exited"
    BY <1>1, <1>2, <1>5
  <2>2. NothingFits(machine)
    BY <1>4, <1>5, Zenon DEF NothingFits
  <2> QED BY <1>1, <1>2, <2>1, <2>2 DEF ChoiceInv
<1>6. CASE suitable # {}
  <2>1. suitable \subseteq Nat /\ suitable \subseteq DOMAIN L
    BY <1>3
  <2>2. m \in suitable /\ \A i \in suitable : m <= i
    BY <1>6, <2>1, LeastIsIn
  <2> HIDE DEF suitable, m
  <2>3. m \in DOMAIN L /\ Fitting(d) /\ Gpu!Conforms(d)
    BY <1>3, <1>4, <2>1, <2>2, Zenon
  <2>4. \A i \in 1 .. m - 1 : ~Fitting(L[i])
    <3>1. SUFFICES ASSUME NEW i \in 1 .. m - 1, Fitting(L[i]) PROVE FALSE
      OBVIOUS
    <3>2. i \in suitable
      BY <1>3, <1>4, <2>3, <3>1, Zenon
    <3>3. m <= i /\ m \in Nat
      BY <1>3, <2>2, <2>3, <3>2
    <3> QED BY <3>3
  <2>5. Gpu!queue_family_is_complete(Gpu!queue_families_find(d))
    BY <2>3, FamiliesChosen, Zenon DEF Fitting
  <2> DEFINE bits == Gpu!queue_families_find(d)
             chosen == Gpu!queue_family_indices_from_bit_fields(bits)
             samples == Gpu!Min({4, Gpu!max_usable_sample_count_get(d)})
  <2>6. /\ chosen[1] \in DOMAIN d.families /\ "graphics" \in d.families[chosen[1]]
        /\ chosen[2] \in DOMAIN d.families /\ "present" \in d.families[chosen[2]]
        /\ (\E i \in DOMAIN d.families : {"graphics", "present"} \subseteq d.families[i])
             => chosen[1] = chosen[2]
    BY <2>3, <2>5, FamiliesChosen, Zenon
  <2>7. samples \in d.color_samples \cap d.depth_samples
    BY <2>3, SamplesPossible, Zenon
  <2>8. picked' = p /\ p.device = m /\ p.families = chosen /\ p.samples = samples
    BY <1>1, <1>6
  <2>9. PickFits(machine, p)
    BY <2>3, <2>4, <2>6, <2>7, <2>8, Zenon DEF PickFits
  <2>10. p # Gpu!NoDevice
    BY <1>3, <2>3, <2>8 DEF Gpu!NoDevice
  <2> HIDE DEF p
  <2> QED BY <1>1, <1>2, <1>6, <2>8, <2>9, <2>10 DEF ChoiceInv
<1> QED BY <1>5, <1>6

\* The surface's format, mode and width are among those the device has for it.
LEMMA SurfaceStands ==
  ASSUME NEW d, Gpu!Conforms(d), Fitting(d), NEW dim \in Nat,
         NEW s, s = [format |-> Gpu!choose_swap_surface_format(d.formats),
                     mode |-> Gpu!choose_swap_present_mode(d.modes),
                     width |-> Gpu!choose_swap_extent(dim, d.extent)]
  PROVE  SurfaceFits(d, s)
<1>1. s.format \in {d.formats[i] : i \in DOMAIN d.formats}
  <2> DEFINE formats == d.formats
  <2>1. Len(formats) \in Nat /\ formats = [i \in 1 .. Len(formats) |-> formats[i]] /\ formats # <<>>
    BY Zenon DEF Gpu!Conforms, Gpu!IsList, Fitting
  <2>2. s.format = Gpu!choose_swap_surface_format(formats)
    OBVIOUS
  <2> HIDE DEF formats
  <2>3. DOMAIN formats = 1 .. Len(formats) /\ 1 \in DOMAIN formats
    BY <2>1
  <2>4. s.format \in {formats[i] : i \in DOMAIN formats}
    BY <2>2, <2>3 DEF Gpu!choose_swap_surface_format
  <2> QED BY <2>4 DEF formats
<1>2. s.mode \in d.modes
  <2>1. d.modes # {} /\ (d.modes # {} => "fifo" \in d.modes)
    BY DEF Gpu!Conforms, Fitting
  <2> QED BY <2>1 DEF Gpu!choose_swap_present_mode
<1>3. s.width \in d.extent.min .. d.extent.max
  <2> DEFINE e == d.extent
             w == Gpu!Min({dim, e.max})
  <2>1. /\ e.min \in Nat /\ e.max \in Nat /\ e.min <= e.max
        /\ e.current # Gpu!Undecided => e.current \in e.min .. e.max
    BY Zenon DEF Gpu!Conforms
  <2>2. s.width = IF e.current # Gpu!Undecided THEN e.current ELSE Gpu!Max({e.min, w})
    BY DEF Gpu!choose_swap_extent
  <2>3. w \in {dim, e.max} /\ w <= e.max
    <3>1. {dim, e.max} \subseteq Nat /\ {dim, e.max} # {}
      BY <2>1
    <3> HIDE DEF e
    <3> QED BY <3>1, LeastIsIn
  <2> HIDE DEF e, w
  <2>4. \E x \in {e.min, w} : \A y \in {e.min, w} : x >= y
    <3>1. e.min \in Nat /\ w \in Nat
      BY <2>1, <2>3
    <3>2. CASE e.min <= w
      BY <3>1, <3>2
    <3>3. CASE w <= e.min
      BY <3>1, <3>3
    <3> QED BY <3>1, <3>2, <3>3
  <2>5. Gpu!Max({e.min, w}) \in {e.min, w} /\ \A y \in {e.min, w} : Gpu!Max({e.min, w}) >= y
    BY <2>4 DEF Gpu!Max
  <2>6. Gpu!Max({e.min, w}) \in e.min .. e.max
    BY <2>1, <2>3, <2>5
  <2> QED BY <2>1, <2>2, <2>6 DEF e
<1> QED BY <1>1, <1>2, <1>3 DEF SurfaceFits

\* Every step of the renderer keeps its choices justified.
LEMMA StepChooses ==
  ASSUME Gpu!MachinesConform, ChoiceInv, [Gpu!DeviceNext]_gpuVars
  PROVE  ChoiceInv'
<1>1. CASE Gpu!create_instance
  <2> DEFINE ok == /\ Validation => Gpu!check_validation_layer_support
                   /\ Gpu!AllFound(Gpu!required_extensions_get, machine.extensions)
  <2>1. /\ step = "instance" /\ step' = (IF ok THEN "pick" ELSE "exited")
        /\ machine' = machine /\ picked' = picked /\ surface' = surface
    BY <1>1, Zenon DEF Gpu!create_instance, Gpu!Continue
  <2>2. ~ok => NothingFits(machine)
    BY RefusalJustified
  <2> HIDE DEF ok
  <2> QED BY <2>1, <2>2 DEF ChoiceInv
<1>2. CASE Gpu!physical_device_pick
  BY <1>2, PickStands
<1>3. CASE Gpu!logical_device_create
  <2> DEFINE ok == Gpu!Enabled \subseteq Gpu!Chosen.features
  <2>1. /\ step = "logical" /\ step' = (IF ok THEN "surface" ELSE "exited")
        /\ machine' = machine /\ picked' = picked /\ surface' = surface
    BY <1>3, Zenon DEF Gpu!logical_device_create, Gpu!Continue
  <2>2. Gpu!Chosen' = Gpu!Chosen /\ Gpu!Enabled' = Gpu!Enabled
    BY <2>1 DEF Gpu!Chosen, Gpu!Enabled
  <2> QED BY <2>1, <2>2 DEF ChoiceInv
<1>4. CASE Gpu!ChooseSurface
  <2>1. /\ step = "surface" /\ step' \in {"objects", "exited"}
        /\ machine' = machine /\ picked' = picked
    BY <1>4, Zenon DEF Gpu!ChooseSurface, Gpu!Continue
  <2>2. PICK dim \in FramebufferDims :
          surface' = [format |-> Gpu!choose_swap_surface_format(Gpu!Chosen.formats),
                      mode |-> Gpu!choose_swap_present_mode(Gpu!Chosen.modes),
                      width |-> Gpu!choose_swap_extent(dim, Gpu!Chosen.extent)]
    BY <1>4, Zenon DEF Gpu!ChooseSurface, Gpu!SurfaceOf
  <2>3. machine \in Machines /\ PickFits(machine, picked)
    BY <2>1 DEF ChoiceInv
  <2>4. Gpu!Conforms(Gpu!Chosen) /\ Fitting(Gpu!Chosen) /\ dim \in Nat
    BY <2>3, Zenon DEF Gpu!MachinesConform, PickFits, Gpu!Chosen
  <2>5. SurfaceFits(Gpu!Chosen, surface')
    BY <2>2, <2>4, SurfaceStands, Zenon
  <2>6. Gpu!Chosen' = Gpu!Chosen /\ Gpu!Enabled' = Gpu!Enabled
    BY <2>1 DEF Gpu!Chosen, Gpu!Enabled
  <2> QED BY <2>1, <2>5, <2>6 DEF ChoiceInv
<1>5. CASE Gpu!render_ctx_create
  <2>1. /\ step = "objects" /\ step' \in {"objects", "running"}
        /\ machine' = machine /\ picked' = picked /\ surface' = surface
    BY <1>5, Zenon DEF Gpu!render_ctx_create
  <2>2. Gpu!Chosen' = Gpu!Chosen /\ Gpu!Enabled' = Gpu!Enabled
    BY <2>1 DEF Gpu!Chosen, Gpu!Enabled
  <2> QED BY <2>1, <2>2 DEF ChoiceInv
<1>6. CASE Gpu!DrawCars \/ UNCHANGED gpuVars
  <2>1. step' = step /\ machine' = machine /\ picked' = picked /\ surface' = surface
    BY <1>6 DEF Gpu!DrawCars, gpuVars
  <2>2. Gpu!Chosen' = Gpu!Chosen /\ Gpu!Enabled' = Gpu!Enabled
    BY <2>1 DEF Gpu!Chosen, Gpu!Enabled
  <2> QED BY <2>1, <2>2 DEF ChoiceInv
<1>7. CASE Gpu!render_ctx_destroy
  <2>1. /\ step' \in {"destroying", "crashed"}
        /\ machine' = machine /\ picked' = picked /\ surface' = surface
    BY <1>7, Zenon DEF Gpu!render_ctx_destroy
  <2> QED BY <2>1 DEF ChoiceInv
<1>8. CASE Gpu!swapchain_recreate
  <2>1. step = "running" /\ step' = step /\ machine' = machine /\ picked' = picked
    BY <1>8, Zenon DEF Gpu!swapchain_recreate
  <2>2. PICK dim \in FramebufferDims, extent \in {Gpu!Chosen.extent, Gpu!Minimised} :
          IF Gpu!SurfaceOf(dim, extent).width # 0 THEN surface' = Gpu!SurfaceOf(dim, extent)
          ELSE surface' = surface
    BY <1>8, Zenon DEF Gpu!swapchain_recreate
  <2>3. machine \in Machines /\ PickFits(machine, picked) /\ SurfaceFits(Gpu!Chosen, surface)
    BY <2>1 DEF ChoiceInv
  <2>4. Gpu!Conforms(Gpu!Chosen) /\ Fitting(Gpu!Chosen) /\ dim \in Nat
    BY <2>3, Zenon DEF Gpu!MachinesConform, PickFits, Gpu!Chosen
  <2>5. Gpu!SurfaceOf(dim, Gpu!Minimised).width = 0
    BY DEF Gpu!SurfaceOf, Gpu!choose_swap_extent, Gpu!Minimised, Gpu!Undecided
  <2>6. SurfaceFits(Gpu!Chosen, Gpu!SurfaceOf(dim, Gpu!Chosen.extent))
    BY <2>4, SurfaceStands, Zenon DEF Gpu!SurfaceOf
  <2>7. SurfaceFits(Gpu!Chosen, surface')
    BY <2>2, <2>3, <2>5, <2>6, Zenon
  <2>8. Gpu!Chosen' = Gpu!Chosen /\ Gpu!Enabled' = Gpu!Enabled
    BY <2>1 DEF Gpu!Chosen, Gpu!Enabled
  <2> QED BY <2>1, <2>7, <2>8 DEF ChoiceInv
<1> QED BY <1>1, <1>2, <1>3, <1>4, <1>5, <1>6, <1>7, <1>8 DEF Gpu!DeviceNext

\* The two parts of the invariant give what the run checks.
LEMMA StandsAndFits == AliveInv /\ ChoiceInv => DeviceFits
<1> SUFFICES ASSUME AliveInv, ChoiceInv PROVE DeviceFits
  OBVIOUS
<1> DEFINE d == Gpu!Chosen
<1>1. \A object \in alive : Gpu!Needs(object) \subseteq alive
  BY DEF AliveInv, Standing
<1>2. picked # Gpu!NoDevice => PickFits(machine, picked)
  BY DEF ChoiceInv
<1>3. CASE step \in {"objects", "running"}
  <2>1. PickFits(machine, picked) /\ Gpu!Enabled \subseteq d.features /\ SurfaceFits(d, surface)
    BY <1>3 DEF ChoiceInv
  <2>2. d = machine.devices[picked.device]
    BY DEF Gpu!Chosen
  <2>3. Gpu!Cardinality(Gpu!QueueFamilies) = 2 => picked.families[1] # picked.families[2]
    <3>1. SUFFICES ASSUME picked.families[1] = picked.families[2] PROVE Cardinality(Gpu!QueueFamilies) # 2
      BY SameCardinality, Zenon
    <3>2. Gpu!QueueFamilies = {picked.families[1]}
      BY <3>1 DEF Gpu!QueueFamilies
    <3>3. Cardinality(Gpu!QueueFamilies) = 1
      BY <3>2, FS_Singleton, Zenon
    <3> QED BY <3>3
  <2>4. /\ Fitting(d) /\ "graphics" \in d.families[picked.families[1]]
        /\ "present" \in d.families[picked.families[2]]
        /\ (\E i \in DOMAIN d.families : {"graphics", "present"} \subseteq d.families[i])
             => picked.families[1] = picked.families[2]
        /\ picked.samples \in d.color_samples \cap d.depth_samples
        /\ \A i \in 1 .. picked.device - 1 : ~Fitting(machine.devices[i])
    BY <2>1, <2>2, Zenon DEF PickFits
  <2>5. step # "exited"
    BY <1>3
  <2> HIDE DEF d
  <2> QED BY <1>1, <1>3, <2>1, <2>3, <2>4, <2>5, Zenon DEF DeviceFits, Gpu!DeviceFits, d, Fitting, SurfaceFits
<1>4. CASE step \notin {"objects", "running"}
  <2>1. step = "exited" /\ picked = Gpu!NoDevice => NothingFits(machine)
    BY DEF ChoiceInv
  <2>2. picked # Gpu!NoDevice => \A i \in 1 .. picked.device - 1 : ~Fitting(machine.devices[i])
    BY <1>2, Zenon DEF PickFits
  <2> QED BY <1>1, <1>4, <2>1, <2>2, Zenon DEF DeviceFits, Gpu!DeviceFits, Fitting, NothingFits
<1> QED BY <1>3, <1>4

\* A renderer that runs runs on a device with all it uses, picked as the first that
\* fits, with the surface choices the device allows; render_ctx_create gives up for
\* want of one only; and at every moment what is alive stands on what it was made
\* from.  All of it for any machine, provided that the machine is what Vulkan
\* guarantees of it.
THEOREM DeviceStaysFit ==
  ASSUME Gpu!MachinesConform
  PROVE  Gpu!DeviceInit /\ [][Gpu!DeviceNext]_gpuVars => []DeviceFits
<1>1. Gpu!DeviceInit => AliveInv /\ ChoiceInv
  <2> SUFFICES ASSUME Gpu!DeviceInit PROVE AliveInv /\ ChoiceInv
    OBVIOUS
  <2>1. machine \in Machines /\ step = "instance" /\ picked = Gpu!NoDevice /\ alive = {}
    BY DEF Gpu!DeviceInit
  <2> QED BY <2>1 DEF AliveInv, ChoiceInv, Standing
<1>2. (AliveInv /\ ChoiceInv) /\ [Gpu!DeviceNext]_gpuVars => (AliveInv /\ ChoiceInv)'
  BY StepStands, StepChooses
<1>3. AliveInv /\ ChoiceInv => DeviceFits
  BY StandsAndFits
<1> QED BY <1>1, <1>2, <1>3, PTL
=============================================================================
