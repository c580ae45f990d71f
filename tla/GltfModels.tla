------------------------------ MODULE GltfModels ------------------------------
(***************************************************************************)
(* glTF models made into buffers.  The agents' model: its nodes are walked *)
(* by an iterator that keeps a stack (gltfw/gltfw.cpp), every primitive    *)
(* becomes a mesh, and all are moved together to stand on the ground       *)
(* (agents_create of city/city.cpp).  A tile: its primitives are merged    *)
(* into one vertex and one index buffer for each material                  *)
(* (tile_render_data_from_gltf of cesium/cesium_tileset.cpp).              *)
(*                                                                         *)
(* A position is its height.  A vertex of a tile is the node, mesh and     *)
(* primitive it comes from and its number there.                           *)
(***************************************************************************)
EXTENDS Integers, Sequences, FiniteSets, SequencesExt, FiniteSetsExt

CONSTANTS Models, \* [roots, children, prims, textures]: prims of a node, as [heights, indices, tex]
          Tiles   \* [nodes, meshes, materials, image]: see TilePrimitives

VARIABLES model, tile, \* what is read
          root,        \* the root under way
          cur,         \* the node the iterator is at, or none
          stack,       \* node_stack: [node, child], the last on top
          visited,     \* nodes in the order they were at
          primitives,  \* gltfw_PrimitiveList
          sim,         \* meshes and agent_center_offset
          parts,       \* TileRenderDataList
          stage        \* how far each of the two is

gltfVars == <<model, tile, root, cur, stack, visited, primitives, sim, parts, stage>>

None == 0
NoTexture == 0

GltfInit ==
  /\ model \in Models /\ tile \in Tiles
  /\ root = 1 /\ cur = model.roots[1]
  /\ stack = <<>> /\ visited = <<>> /\ primitives = <<>>
  /\ sim = <<>> /\ parts = <<>>
  /\ stage = [sim |-> "reading", parts |-> "reading"]

-----------------------------------------------------------------------------
\* Mutant: a node without further children is left, but not its parent.
MutantClimb(s) == IF s # <<>> /\ Last(s).child >= Len(model.children[Last(s).node]) THEN <<>> ELSE s

\* The stack without the nodes whose children are all done.
RECURSIVE Climb(_)
Climb(s) == IF s # <<>> /\ Last(s).child >= Len(model.children[Last(s).node]) THEN Climb(Front(s)) ELSE s

\* The iterator's next node: the first child, or the next child of the nearest node
\* of the stack that has one.
ChildrenNodesDepthFirstPreOrder ==
  IF model.children[cur] # <<>>
    THEN /\ stack' = Append(stack, [node |-> cur, child |-> 1])
         /\ cur' = model.children[cur][1]
    ELSE LET s == Climb(stack)
             top == Last(s)
         IN  IF s = <<>> THEN stack' = <<>> /\ cur' = None
             ELSE /\ stack' = [s EXCEPT ![Len(s)].child = top.child + 1]
                  /\ cur' = model.children[top.node][top.child + 1]

\* gltfw_primitives_read, one node: gltfw_primitive_create for its primitives.
VisitNode ==
  /\ stage.sim = "reading" /\ cur # None
  /\ visited' = Append(visited, cur)
  /\ primitives' = primitives \o model.prims[cur]
  /\ ChildrenNodesDepthFirstPreOrder
  /\ UNCHANGED <<model, tile, root, sim, parts, stage>>

NextRoot ==
  /\ stage.sim = "reading" /\ cur = None /\ root < Len(model.roots)
  /\ root' = root + 1 /\ cur' = model.roots[root + 1]
  /\ UNCHANGED <<model, tile, stack, visited, primitives, sim, parts, stage>>

\* Between the lowest vertex of a buffer and its highest, or 0.
car_center_height_offset(heights) ==
  LET highest == FoldLeft(LAMBDA m, h : Max({m, h}), 0, heights)
  IN  [min |-> FoldLeft(LAMBDA m, h : Min({m, h}), highest, heights), max |-> highest]

\* Mutant: each mesh is moved by its own lowest vertex.
MutantPivot(heights, all) == Min(ToSet(heights) \cup {0})

\* model_pivot
Pivot(heights, all) == IF all = {} THEN 0 ELSE Min(all)

\* agents_create, once the file is read: a primitive without a texture is read
\* through a null pointer, and a file without primitives ends the program.
agents_create ==
  /\ stage.sim = "reading" /\ cur = None /\ root = Len(model.roots)
  /\ IF primitives = <<>> \/ \E p \in ToSet(primitives) : p.tex = NoTexture
       THEN stage' = [stage EXCEPT !.sim = "crashed"] /\ UNCHANGED sim
       ELSE LET all == UNION {ToSet(p.heights) : p \in ToSet(primitives)}
                meshes == [i \in DOMAIN primitives |->
                             [vertices |-> [v \in DOMAIN primitives[i].heights |->
                                              primitives[i].heights[v] - Pivot(primitives[i].heights, all)],
                              indices |-> primitives[i].indices,
                              texture_handle_idx |-> primitives[i].tex]]
                offsets == {car_center_height_offset(m.vertices) : m \in ToSet(meshes)}
            IN  /\ stage' = [stage EXCEPT !.sim = "done"]
                /\ sim' = [meshes |-> meshes,
                           agent_center_offset |-> [min |-> Min({o.min : o \in offsets}),
                                                    max |-> Max({o.max : o \in offsets})]]
  /\ UNCHANGED <<model, tile, root, cur, stack, visited, primitives, parts>>

-----------------------------------------------------------------------------
\* The primitives that are kept, for every node and every mesh of the file.  One has
\* the number of its positions or none, its indices if it is indexed, its material or
\* none, and perhaps coordinates for the overlay.
TilePrimitives ==
  LET of(n, m) == [p \in DOMAIN tile.meshes[m] |->
                     [from |-> <<n, m, p>>, data |-> tile.meshes[m][p]]]
      all == FlattenSeq([k \in 1 .. tile.nodes * Len(tile.meshes) |->
               of((k - 1) \div Len(tile.meshes) + 1, ((k - 1) % Len(tile.meshes)) + 1)])
  IN  SelectSeq(all, LAMBDA p : p.data.count # None)

\* Mutant: the indices are copied as they are.
MutantMerge(acc, p) ==
  [vertices |-> acc.vertices \o [i \in 1 .. p.data.count |-> <<p.from, i>>],
   indices |-> acc.indices \o p.data.indices]

\* A primitive is appended to the buffers of its material.
Merge(acc, p) ==
  [vertices |-> acc.vertices \o [i \in 1 .. p.data.count |-> <<p.from, i>>],
   indices |-> acc.indices \o [i \in DOMAIN p.data.indices |->
                                 p.data.indices[i] + Len(acc.vertices)]]

\* _cesium_image_rgba8_prepare: the pixels as four bytes each, or none.
_cesium_image_rgba8_prepare(image) ==
  LET pixels == image.width * image.height
      at(i, c) == image.data[i * image.channels + c]
      pixel(i) == CASE image.channels = 1 -> <<at(i, 1), at(i, 1), at(i, 1), 255>>
                    [] image.channels = 2 -> <<at(i, 1), at(i, 1), at(i, 1), at(i, 2)>>
                    [] image.channels = 3 -> <<at(i, 1), at(i, 2), at(i, 3), 255>>
                    [] image.channels = 4 -> [c \in 1 .. 4 |-> at(i, c)]
  IN  IF \/ pixels = 0 \/ image.channels \notin 1 .. 4 \/ image.bytes # 1
         \/ Len(image.data) < pixels * image.channels
      THEN <<>> ELSE FlattenSeq([i \in 1 .. pixels |-> pixel(i - 1)])

\* A primitive that is not indexed is read through a null accessor.
tile_render_data_from_gltf ==
  /\ stage.parts = "reading"
  /\ IF \E p \in ToSet(TilePrimitives) : ~p.data.indexed
       THEN stage' = [stage EXCEPT !.parts = "crashed"] /\ UNCHANGED parts
       ELSE /\ stage' = [stage EXCEPT !.parts = "done"]
            /\ parts' = [mat \in 1 .. tile.materials |->
                      LET own == SelectSeq(TilePrimitives, LAMBDA p : p.data.material = mat)
                          merged == FoldLeft(Merge, [vertices |-> <<>>, indices |-> <<>>], own)
                      IN  [vertices |-> merged.vertices, indices |-> merged.indices,
                           overlay |-> \E p \in ToSet(own) : p.data.overlay,
                           texture |-> _cesium_image_rgba8_prepare(tile.image)]]
  /\ UNCHANGED <<model, tile, root, cur, stack, visited, primitives, sim>>

GltfNext == VisitNode \/ NextRoot \/ agents_create \/ tile_render_data_from_gltf

-----------------------------------------------------------------------------
(* Samplers.  A filter is how texels and how mip levels are read.          *)

Filters == {"nearest", "linear", "nearest_mipmap_nearest", "linear_mipmap_nearest",
            "nearest_mipmap_linear", "linear_mipmap_linear"}
Wraps == {"clamp_to_edge", "repeat", "mirrored_repeat"}

LinearTexels(f) == f \in {"linear", "linear_mipmap_nearest", "linear_mipmap_linear"}
LinearLevels(f) == f \in {"nearest_mipmap_linear", "linear_mipmap_linear"}

\* The min filter decides the mag filter too, until one is given that differs.
sampler_from_cgltf_sampler(min, mag, wrap) ==
  [min |-> LinearTexels(min), mip |-> LinearLevels(min),
   mag |-> IF mag # min /\ mag \in Filters THEN LinearTexels(mag) ELSE LinearTexels(min),
   wrap |-> IF wrap \in Wraps THEN wrap ELSE "repeat"]

\* A filter that is not given is linear.
sampler_info_from_cesium_sampler(min, mag, wrap) ==
  [min |-> min \notin Filters \/ LinearTexels(min), mip |-> min \notin Filters \/ LinearLevels(min),
   mag |-> mag \notin Filters \/ LinearTexels(mag), wrap |-> wrap]

-----------------------------------------------------------------------------
RECURSIVE PreOrder(_)
PreOrder(node) ==
  <<node>> \o FlattenSeq([i \in DOMAIN model.children[node] |-> PreOrder(model.children[node][i])])

\* The iterator is at every node once, a node before its children, in order.
WalksInOrder ==
  /\ cur = None => visited = FlattenSeq([r \in 1 .. root |-> PreOrder(model.roots[r])])
  /\ cur # None => cur \notin ToSet(visited)

\* However the primitives lie, the agents' model keeps its shape and its lowest
\* vertex is on the ground: the offset it is drawn with starts at 0 and is as high
\* as the model.
StandsOnGround ==
  stage.sim = "done" =>
    LET all == UNION {ToSet(p.heights) : p \in ToSet(primitives)}
    IN  /\ all # {} => sim.agent_center_offset = [min |-> 0, max |-> Max(all) - Min(all)]
        /\ \A i \in DOMAIN sim.meshes :
             /\ \A k \in ToSet(sim.meshes[i].indices) : k < Len(sim.meshes[i].vertices)
             /\ sim.meshes[i].texture_handle_idx <= model.textures
             /\ \A v \in DOMAIN sim.meshes[i].vertices :
                  sim.meshes[i].vertices[v] = primitives[i].heights[v] - Min(all)

\* The buffers of a material hold every primitive of it once for each node, with
\* every index naming the vertex it named in its primitive.  A primitive without a
\* material is in no buffer.
TileMerged ==
  stage.parts = "done" =>
    \A mat \in DOMAIN parts :
      LET part == parts[mat]
          named == [i \in DOMAIN part.indices |-> part.vertices[part.indices[i] + 1]]
          own == SelectSeq(TilePrimitives, LAMBDA p : p.data.material = mat)
      IN  /\ named = FlattenSeq([p \in DOMAIN own |-> [i \in DOMAIN own[p].data.indices |->
                                                         <<own[p].from, own[p].data.indices[i] + 1>>]])
          /\ Len(part.texture) \in {0, 4 * tile.image.width * tile.image.height}

\* A sampler with both filters is the same one, whichever way it is read.
SamplersAgree ==
  \A min \in Filters, mag \in {"nearest", "linear"}, wrap \in Wraps :
    sampler_from_cgltf_sampler(min, mag, wrap) = sampler_info_from_cesium_sampler(min, mag, wrap)

GltfExact == WalksInOrder /\ StandsOnGround /\ TileMerged /\ SamplersAgree
=============================================================================
