------------------------------ MODULE RoadStrips ------------------------------
(***************************************************************************)
(* The quads of the roads (city/city.cpp, road_segment_build): each edge   *)
(* of a way becomes a quad, in a loop step of its own, that must meet the  *)
(* quads of the edges before and after it, and goes into the vertex and    *)
(* index buffers.                                                          *)
(*                                                                         *)
(* Positions are points of a grid.  A corner is what it is computed from:  *)
(* the node it stands at, the directions averaged, the width, and the side *)
(* of the road; corners of the same record are the same point.             *)
(***************************************************************************)
EXTENDS Integers, Sequences, FiniteSets, SequencesExt, FiniteSetsExt

CONSTANTS WayLists,    \* the ways of an area: sequences of [nodes, width], nodes being
                       \* positions; width is NoTag when the tag is missing or no number
          NoTag,
          DefaultWidth \* road->default_road_width

VARIABLES ways,
          corner_buffer, \* [start, end] of the edges done, each [top, btm]
          vertices,      \* [corner, edge]
          indices        \* places of vertices, from 0

stripVars == <<ways, corner_buffer, vertices, indices>>

StripsInit ==
  /\ ways \in WayLists
  /\ corner_buffer = <<>> /\ vertices = <<>> /\ indices = <<>>

-----------------------------------------------------------------------------
\* What stands for a width: of the fixed offset of an edge along an axis, and of a
\* corner that is not a number.
Small == -1
NoPoint == -2

\* network->edge_structure.edges: the edge from the place-th node of a way to the next.
Edges ==
  FlattenSeq([w \in DOMAIN ways |->
    [p \in 1 .. Len(ways[w].nodes) - 1 |-> [way |-> w, place |-> p]]])

Nodes(e) == <<ways[e.way].nodes[e.place], ways[e.way].nodes[e.place + 1]>>

\* tag_value_get
tag_value_get(e) == IF ways[e.way].width = NoTag THEN DefaultWidth ELSE ways[e.way].width

Neighbours(e) == {n \in ToSet(Edges) : n.way = e.way /\ n.place \in {e.place - 1, e.place + 1}}

\* The greatest common divisor.
Divisor(x, y) == Max({d \in 1 .. Max({x, -x, y, -y}) : x % d = 0 /\ y % d = 0})

\* The direction across the edge; one along an axis, or of no length, has the same
\* small offset whatever its width is.
Across(e) ==
  LET dx == Nodes(e)[2][1] - Nodes(e)[1][1]
      dy == Nodes(e)[2][2] - Nodes(e)[1][2]
  IN  IF dx = 0 \/ dy = 0 THEN <<1, 1>> ELSE <<dy \div Divisor(dx, dy), -dx \div Divisor(dx, dy)>>
OnAxis(e) == \E i \in 1 .. 2 : Nodes(e)[1][i] = Nodes(e)[2][i]

Side(corner) == [top |-> corner, btm |-> [corner EXCEPT !.left = FALSE]]

\* road_segment_from_road_nodes: an end of the edge alone.
road_segment_from_road_nodes(e, node) ==
  Side([at |-> node, across |-> {Across(e)}, width |-> IF OnAxis(e) THEN Small ELSE DefaultWidth,
        left |-> TRUE])

\* Mutant: the end an edge shares with the one after it has its own width.
MutantJoinWidth(e, n) == IF n.place > e.place THEN DefaultWidth ELSE tag_value_get(e)

JoinWidth(e, n) == tag_value_get(e)

Opposite(v, w) == v[1] = -w[1] /\ v[2] = -w[2]

\* road_segments_coalesce: the end an edge shares with a neighbour, made again with
\* the way's width.  A way that turns back on itself, or is of no width, has no such
\* point.
road_segments_coalesce(e, n) ==
  LET both == {Across(e), Across(n)}
      none == \/ Opposite(Across(e), Across(n))
              \/ tag_value_get(n) = 0 /\ ~OnAxis(n)
      node == Nodes(IF n.place > e.place THEN n ELSE e)[1]
  IN  Side([at |-> node, across |-> IF none THEN {} ELSE both,
            width |-> IF none THEN NoPoint ELSE JoinWidth(e, n), left |-> TRUE])

\* The start or the end of the quad of an edge.
End(e, place, node) ==
  LET there == {n \in Neighbours(e) : n.place = place}
  IN  IF there = {} THEN road_segment_from_road_nodes(e, node)
      ELSE road_segments_coalesce(e, CHOOSE n \in there : TRUE)

\* quad_to_buffer_add
QuadVertices(i, start, end) ==
  [v \in 1 .. 4 |-> [corner |-> <<start.top, start.btm, end.top, end.btm>>[v], edge |-> i]]
QuadIndices(i) == [k \in 1 .. 6 |-> 4 * (i - 1) + <<0, 1, 2, 1, 2, 3>>[k]]

\* A step of the loop of road_segment_build.
BuildEdge ==
  LET i == Len(corner_buffer) + 1
      e == Edges[i]
      start == End(e, e.place - 1, Nodes(e)[1])
      end == End(e, e.place + 1, Nodes(e)[2])
  IN  /\ i <= Len(Edges)
      /\ corner_buffer' = Append(corner_buffer, [start |-> start, end |-> end])
      /\ vertices' = vertices \o QuadVertices(i, start, end)
      /\ indices' = indices \o QuadIndices(i)
      /\ UNCHANGED ways

-----------------------------------------------------------------------------
\* A road has no gap and no step: where an edge ends the next one of its way begins,
\* with the same two corners, up to rounding, although each was computed without the
\* other; unless the way's tag says that it has no width.
Joined ==
  \A i, j \in DOMAIN corner_buffer :
    (Edges[j] = [Edges[i] EXCEPT !.place = @ + 1] /\ tag_value_get(Edges[i]) # 0)
      => corner_buffer[i].end = corner_buffer[j].start

\* The triangles of an edge are its own, share one diagonal and use all four of its
\* corners; the buffers, made for the number of edges, are never exceeded.
QuadsCovered ==
  /\ Len(vertices) = 4 * Len(corner_buffer) /\ Len(indices) = 6 * Len(corner_buffer)
  /\ Len(corner_buffer) <= Len(Edges)
  /\ \A i \in DOMAIN corner_buffer :
       LET triangle(t) == {indices[6 * (i - 1) + 3 * t + k] + 1 : k \in 1 .. 3}
           at(v) == vertices[v].corner
       IN  /\ \A v \in triangle(0) \cup triangle(1) : vertices[v].edge = i
           /\ {at(v) : v \in triangle(0) \cup triangle(1)}
                = UNION {{c.top, c.btm} : c \in {corner_buffer[i].start, corner_buffer[i].end}}
           /\ Cardinality(triangle(0)) = 3 /\ Cardinality(triangle(1)) = 3
           /\ {at(v) : v \in triangle(0) \cap triangle(1)}
                = {corner_buffer[i].start.btm, corner_buffer[i].end.top}

StripsExact == Joined /\ QuadsCovered
=============================================================================
