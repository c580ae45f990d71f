--------------------------- MODULE RoadIntersection ---------------------------
(***************************************************************************)
(* From road segments to painted tiles: bvh_create (city/city.cpp) sorts   *)
(* the segments into a tree, flattened into an array of nodes, and the     *)
(* compute shader road_intersection.comp walks that array for every face   *)
(* of a tile, to write the road under the face into the face's vertices.   *)
(* Faces share vertices, and their invocations run side by side.           *)
(*                                                                         *)
(* Positions are points of a small grid.  A center is the sum of the four  *)
(* corners instead of their mean, so that it stays an integer.             *)
(***************************************************************************)
EXTENDS Integers, Sequences, FiniteSets, SequencesExt, FiniteSetsExt

CONSTANTS Quads,      \* corner sequences a segment may have
          MaxRoads,   \* bound: segments
          LeafMax,    \* leaf_bb_max
          StackSlots, \* the shader's stack
          Faces,      \* faces of the tile, each a set of vertices
          Centers     \* where the middle of a face may be

VARIABLES roads,  \* road_segment_buffer: the quad of each segment
          center, \* the middle of each face
          bvh,    \* [sorted, nodes]; sorted has the place of each segment in roads
          phase,  \* how far each face's invocation is
          vertex  \* each vertex's [id, overlay]: the places of segments, or none

roadVars == <<roads, center, bvh, phase, vertex>>

NoBvh == [sorted |-> <<>>, nodes |-> <<>>]
None == 0
Vertices == UNION Faces

RoadsInit ==
  /\ roads \in UNION {[1 .. n -> Quads] : n \in 1 .. MaxRoads}
  /\ center \in [Faces -> Centers]
  /\ bvh = NoBvh
  /\ phase = [f \in Faces |-> "start"]
  /\ vertex = [v \in Vertices |-> [id |-> None, overlay |-> None]]

-----------------------------------------------------------------------------
Axes == {1, 2}

\* The midpoint of a segment along an axis, times four.
CenterOf(i, axis) == FoldLeft(LAMBDA sum, corner : sum + corner[axis], 0, roads[i])

Coordinates(rs, axis) == {c[axis] : c \in UNION {ToSet(roads[i]) : i \in rs}}

bounds_union(rs) ==
  [min |-> [x \in Axes |-> Min(Coordinates(rs, x))], max |-> [x \in Axes |-> Max(Coordinates(rs, x))]]

\* In all of these order is the bb_buffer and lo .. hi - 1 the range looked at.
split_axis_find(order, lo, hi) ==
  LET extent(x) == LET cs == {CenterOf(order[i], x) : i \in lo .. hi - 1} IN Max(cs) - Min(cs)
  IN  IF extent(1) > extent(2) THEN 1 ELSE 2

Swapped(s, i, j) == [s EXCEPT ![i] = s[j], ![j] = s[i]]

\* Partitions around the last element until the one at k is in its place.
RECURSIVE quick_select(_, _, _, _, _)
quick_select(order, axis, lo, hi, k) ==
  IF lo >= hi THEN order ELSE
  LET pivot == CenterOf(order[hi - 1], axis)
      parted == FoldLeft(LAMBDA acc, i : IF CenterOf(acc.s[i], axis) < pivot
                                           THEN [s |-> Swapped(acc.s, i, acc.div), div |-> acc.div + 1]
                                           ELSE acc,
                         [s |-> order, div |-> lo], [i \in 1 .. hi - 1 - lo |-> lo + i - 1])
      div == parted.div
      s == Swapped(parted.s, div, hi - 1)
  IN  IF div = k THEN s
      ELSE IF div < k THEN quick_select(s, axis, div + 1, hi, k)
      ELSE quick_select(s, axis, lo, div, k)

SplitIdx(lo, hi) == lo + (hi - lo) \div 2

\* Mutant: the nodes of the first child are not counted.
MutantSecondChild(at, first) == at + 1

\* Where the second child lands in the array: after the first one's nodes.
SecondChild(at, first) == at + 1 + Len(first)

\* The subtree of a range, whose first node is placed at at: its nodes in the order
\* the second loop gives them, and the range as the first loop leaves it.
RECURSIVE Subtree(_, _, _, _)
Subtree(order, lo, hi, at) ==
  LET bounds == bounds_union({order[i] : i \in lo .. hi - 1})
  IN  IF hi - lo <= LeafMax
      THEN [order |-> order,
            nodes |-> <<[bounds |-> bounds, leaf |-> TRUE, data |-> <<lo, hi>>]>>]
      ELSE LET axis == split_axis_find(order, lo, hi)
               mid == SplitIdx(lo, hi)
               selected == quick_select(order, axis, lo, hi, mid)
               first == Subtree(selected, lo, mid, at + 1)
               second == Subtree(first.order, mid, hi, SecondChild(at, first.nodes))
               node == [bounds |-> bounds, leaf |-> FALSE, axis |-> axis,
                        value |-> CenterOf(selected[mid], axis),
                        data |-> <<at + 1, SecondChild(at, first.nodes)>>]
           IN  [order |-> second.order, nodes |-> <<node>> \o first.nodes \o second.nodes]

bvh_create ==
  /\ bvh = NoBvh
  /\ LET tree == Subtree([i \in 1 .. Len(roads) |-> i], 1, Len(roads) + 1, 1)
     IN  bvh' = [sorted |-> tree.order, nodes |-> tree.nodes]
  /\ UNCHANGED <<roads, center, phase, vertex>>

-----------------------------------------------------------------------------
in_bounds(b, p) == \A x \in Axes : b.min[x] <= p[x] /\ p[x] <= b.max[x]

\* The point is strictly on one side of all four edges.
is_face_inside_road_segment(quad, p) ==
  LET side(i) == LET a == quad[i]
                     b == quad[(i % 4) + 1]
                 IN  (b[1] - a[1]) * (p[2] - a[2]) - (b[2] - a[2]) * (p[1] - a[1])
  IN  (\A i \in 1 .. 4 : side(i) > 0) \/ (\A i \in 1 .. 4 : side(i) < 0)

\* The walk of main() from a stack of nodes: the segment found, or none, and the
\* most the stack held.
RECURSIVE Walk(_, _)
Walk(stack, p) ==
  IF stack = <<>> THEN [found |-> None, deepest |-> 0] ELSE
  LET node == bvh.nodes[Last(stack)]
      rest == Front(stack)
      hits == {i \in node.data[1] .. node.data[2] - 1 :
                 is_face_inside_road_segment(roads[bvh.sorted[i]], p)}
      next == IF ~in_bounds(node.bounds, p) \/ node.leaf THEN rest
              ELSE IF 4 * p[node.axis] < node.value THEN rest \o <<node.data[2], node.data[1]>>
              ELSE rest \o node.data
      walked == IF in_bounds(node.bounds, p) /\ node.leaf /\ hits # {}
                  THEN [found |-> bvh.sorted[Min(hits)], deepest |-> 0]
                  ELSE Walk(next, p)
  IN  [walked EXCEPT !.deepest = Max({@, Len(stack)})]

Found(f) == Walk(<<1>>, center[f]).found

\* An invocation that finds a segment writes its id into the three vertices, then
\* its value of the overlay; the other faces' invocations go on meanwhile.
main(f) ==
  /\ bvh # NoBvh
  /\ \/ /\ phase[f] = "start" /\ Found(f) = None
        /\ phase' = [phase EXCEPT ![f] = "end"]
        /\ UNCHANGED vertex
     \/ /\ phase[f] = "start" /\ Found(f) # None
        /\ phase' = [phase EXCEPT ![f] = "id"]
        /\ vertex' = [v \in Vertices |-> IF v \in f THEN [vertex[v] EXCEPT !.id = Found(f)]
                                                    ELSE vertex[v]]
     \/ /\ phase[f] = "id"
        /\ phase' = [phase EXCEPT ![f] = "end"]
        /\ vertex' = [v \in Vertices |-> IF v \in f THEN [vertex[v] EXCEPT !.overlay = Found(f)]
                                                    ELSE vertex[v]]
  /\ UNCHANGED <<roads, center, bvh>>

RoadsNext == bvh_create \/ \E f \in Faces : main(f)

-----------------------------------------------------------------------------
Under(f) == {i \in DOMAIN roads : is_face_inside_road_segment(roads[i], center[f])}

\* The tree loses no segment: it is sorted into a permutation, of which the leaves
\* are the consecutive ranges, and a face that is in a segment finds one, although
\* the walk prunes by boxes that the selection may have mixed; its stack never
\* grows past the array it has.
TreeExact ==
  bvh # NoBvh =>
    /\ ToSet(bvh.sorted) = DOMAIN roads
    /\ FoldLeft(LAMBDA next, n : IF n.leaf /\ n.data[1] = next THEN n.data[2] ELSE next,
                1, bvh.nodes) = Len(roads) + 1
    /\ \A f \in Faces :
         LET w == Walk(<<1>>, center[f])
         IN  /\ w.deepest <= StackSlots
             /\ IF Under(f) = {} THEN w.found = None ELSE w.found \in Under(f)

\* When all invocations are done, a vertex has the id and the overlay of segments
\* under its faces (not always of one segment: two faces' writes may interleave).
PaintExact ==
  (\A f \in Faces : phase[f] = "end") =>
    \A v \in Vertices :
      LET over == UNION {Under(f) : f \in {g \in Faces : v \in g}}
      IN  IF over = {} THEN vertex[v] = [id |-> None, overlay |-> None]
          ELSE vertex[v].id \in over /\ vertex[v].overlay \in over

RoadsExact == TreeExact /\ PaintExact
=============================================================================
