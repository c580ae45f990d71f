----------------------------- MODULE BuildingMesh -----------------------------
(***************************************************************************)
(* The mesh of the buildings (buildings_buffers_create and EarClipping of  *)
(* city/city.cpp): one vertex and one index buffer for all of them, the    *)
(* walls first and the roofs after, each roof an outline without its       *)
(* straight corners cut into triangles by clipping ears.                   *)
(*                                                                         *)
(* Positions are points of a small grid, so that areas are exact; a vertex *)
(* is the building, the point and whether it is at roof height.            *)
(***************************************************************************)
EXTENDS Integers, Sequences, FiniteSets, SequencesExt, FiniteSetsExt

CONSTANTS Outlines, \* outlines a building may have, without the closing node
          MaxWays   \* bound: buildings

VARIABLES ways,  \* the outline of each building
          mesh   \* [vertices, indices, roof_base], or none

buildingVars == <<ways, mesh>>

NoMesh == [vertices |-> <<>>, indices |-> <<>>, roof_base |-> 0]

BuildingsInit ==
  /\ ways \in UNION {[1 .. n -> Outlines] : n \in 1 .. MaxWays}
  /\ mesh = NoMesh

-----------------------------------------------------------------------------
Minus(a, b) == <<a[1] - b[1], a[2] - b[2]>>
Cross(a, b) == a[1] * b[2] - a[2] * b[1]

Cyclic(s, i) == s[((i - 1) % Len(s)) + 1]

AreTwoConnectedLineSegmentsCollinear(prev, cur, next) == Cross(Minus(prev, cur), Minus(next, prev)) = 0

\* The nodes of an outline that are not on a line with their neighbours.
Corners(outline) ==
  LET n == Len(outline)
      corner(i) == ~AreTwoConnectedLineSegmentsCollinear(
                      Cyclic(outline, n + i - 1), outline[i], Cyclic(outline, i + 1))
  IN  [j \in 1 .. Cardinality({i \in 1 .. n : corner(i)}) |->
         outline[CHOOSE i \in 1 .. n : corner(i) /\ Cardinality({h \in 1 .. i : corner(h)}) = j]]

\* Twice the area, negative when the outline runs clockwise.
SignedArea(s) == FoldLeft(LAMBDA sum, i : sum + Cross(s[i], Cyclic(s, i + 1)), 0,
                          [i \in 1 .. Len(s) |-> i])

ClockWiseTest(s) == IF SignedArea(s) > 0 THEN "ccw" ELSE IF SignedArea(s) < 0 THEN "cw" ELSE "undefined"

\* The corners in clockwise order.
IndexBufferCreate(n, direction) ==
  [i \in 1 .. n |-> IF direction = "cw" THEN i ELSE n - i + 1]

PointInTriangle(p1, p2, p3, p) ==
  LET d == {Cross(Minus(p, p1), Minus(p2, p1)), Cross(Minus(p, p2), Minus(p3, p2)),
            Cross(Minus(p, p3), Minus(p1, p3))}
  IN  ~((\E x \in d : x < 0) /\ (\E x \in d : x > 0))

\* The corner at i of those left can be cut off.
IsEar(corners, left, i) ==
  LET prev == Cyclic(left, Len(left) + i - 1)
      next == Cyclic(left, i + 1)
      a == corners[prev]
      b == corners[left[i]]
      c == corners[next]
  IN  /\ Cross(Minus(b, a), Minus(c, b)) < 0
      /\ \A h \in 2 .. Len(left) - 2 : ~PointInTriangle(a, b, c, corners[Cyclic(left, i + h)])

\* Mutant: only the neighbours are looked at.
MutantIsEar(corners, left, i) ==
  LET prev == Cyclic(left, Len(left) + i - 1)
  IN  Cross(Minus(corners[left[i]], corners[prev]),
            Minus(corners[Cyclic(left, i + 1)], corners[left[i]])) < 0

\* The loop, from the start again after each ear.
RECURSIVE Clip(_, _)
Clip(corners, left) ==
  LET ears == {i \in DOMAIN left : IsEar(corners, left, i)}
      ear == Min(ears)
  IN  IF Len(left) < 3 \/ ears = {} THEN <<>>
      ELSE <<Cyclic(left, Len(left) + ear - 1), left[ear], Cyclic(left, ear + 1)>>
             \o Clip(corners, RemoveAt(left, ear))

EarClipping(corners) ==
  LET direction == ClockWiseTest(corners)
  IN  IF direction = "undefined" THEN <<>>
      ELSE Clip(corners, IndexBufferCreate(Len(corners), direction))

-----------------------------------------------------------------------------
Vertex(way, pos, top) == [way |-> way, pos |-> pos, top |-> top]

\* A wall: its four vertices, and its two triangles.
WithWall(m, way, i) ==
  LET a == ways[way][i]
      b == Cyclic(ways[way], i + 1)
      base == Len(m.vertices)
  IN  [m EXCEPT !.vertices = @ \o <<Vertex(way, a, FALSE), Vertex(way, a, TRUE),
                                    Vertex(way, b, FALSE), Vertex(way, b, TRUE)>>,
                !.indices = @ \o <<base + 1, base + 2, base + 3, base + 2, base + 3, base + 4>>]

WithWalls(m, way) ==
  FoldLeft(LAMBDA w, i : WithWall(w, way, i), m, [i \in 1 .. Len(ways[way]) |-> i])

\* A roof; a building that has no triangles adds no vertices either.
WithRoof(m, way) ==
  LET corners == Corners(ways[way])
      triangles == EarClipping(corners)
      base == Len(m.vertices)
  IN  IF triangles = <<>> THEN m
      ELSE [m EXCEPT !.vertices = @ \o [i \in DOMAIN corners |-> Vertex(way, corners[i], TRUE)],
                     !.indices = @ \o [i \in DOMAIN triangles |-> triangles[i] + base]]

buildings_buffers_create ==
  /\ mesh = NoMesh
  /\ LET order == [w \in 1 .. Len(ways) |-> w]
         walls == FoldLeft(WithWalls, NoMesh, order)
         based == [walls EXCEPT !.roof_base = Len(walls.indices)]
     IN  mesh' = FoldLeft(WithRoof, based, order)
  /\ UNCHANGED ways

BuildingsNext == buildings_buffers_create

-----------------------------------------------------------------------------
\* What the two buffers are allocated for, from the node counts (closing node
\* included).
RoomFor(perNode, less) ==
  FoldLeft(LAMBDA sum, o : sum + perNode * Len(o) - less, 0, ways)

Side(a, b, p) == Cross(Minus(b, a), Minus(p, a))

\* Two walls without a common end cross or touch.
Cut(a, b, c, d) ==
  \/ /\ Side(a, b, c) * Side(a, b, d) < 0 /\ Side(c, d, a) * Side(c, d, b) < 0
  \/ \E t \in {<<a, b, c>>, <<a, b, d>>, <<c, d, a>>, <<c, d, b>>} :
       /\ Side(t[1], t[2], t[3]) = 0
       /\ \A x \in {1, 2} : Min({t[1][x], t[2][x]}) <= t[3][x] /\ t[3][x] <= Max({t[1][x], t[2][x]})

\* The outline of a real building: it does not meet itself.
Simple(s) ==
  /\ Len(s) >= 3 /\ IsInjective(s) /\ SignedArea(s) # 0
  /\ \A i, j \in 1 .. Len(s) :
       i < j /\ j # i + 1 /\ ~(i = 1 /\ j = Len(s)) =>
         ~Cut(s[i], Cyclic(s, i + 1), s[j], Cyclic(s, j + 1))

Triangle(i) == [k \in 1 .. 3 |-> mesh.vertices[mesh.indices[3 * i - 3 + k]]]
Roof(way) == {i \in mesh.roof_base \div 3 + 1 .. Len(mesh.indices) \div 3 : Triangle(i)[1].way = way}

\* Whatever the outlines, the buffers hold what is written, an index names a vertex
\* of its own building, and only roofs are in the roof's part.  The roof of an
\* outline that does not meet itself covers it exactly: as many triangles as an
\* outline with so many corners has, all turned the same way, of its whole area.
MeshExact ==
  mesh # NoMesh =>
    /\ Len(mesh.vertices) <= RoomFor(6, 0)
    /\ Len(mesh.indices) <= RoomFor(9, 3)
    /\ \A i \in 1 .. Len(mesh.indices) \div 3 :
         /\ Cardinality({Triangle(i)[k].way : k \in 1 .. 3}) = 1
         /\ i > mesh.roof_base \div 3 => \A k \in 1 .. 3 : Triangle(i)[k].top
    /\ \A w \in DOMAIN ways :
         Simple(ways[w]) =>
           LET areas == {<<i, SignedArea([k \in 1 .. 3 |-> Triangle(i)[k].pos])>> : i \in Roof(w)}
           IN  /\ Cardinality(Roof(w)) = Len(Corners(ways[w])) - 2
               /\ \A a \in areas : a[2] < 0
               /\ MapThenSumSet(LAMBDA a : -a[2], areas) \in {SignedArea(ways[w]), -SignedArea(ways[w])}
=============================================================================
