------------------------------ MODULE OsmNetwork ------------------------------
(***************************************************************************)
(* The road network an area is built from: parsing OSM's answer            *)
(* (lib_wrappers/json.cpp, osm/osm.cpp), the edges of its roads, the       *)
(* NetAScore values of each edge (city/neta.cpp, city/city.cpp), and the   *)
(* cars that are put onto it (agents_create).                              *)
(*                                                                         *)
(* Hash tables are functions from their keys.  A node is its id and its    *)
(* position, a point of a line; an edge's random id is its place in the    *)
(* edge buffer, so two edges never have the same one.                      *)
(***************************************************************************)
EXTENDS Integers, Sequences, FiniteSets, SequencesExt, FiniteSetsExt, TLC

CONSTANTS Documents, \* OSM answers: [nodes, ways, broken], a way being [id, nodes, tags]
          FeatureLists, \* NetAScore answers: sequences of [osm_id, coords, flaw]
          BBox,      \* positions inside the area
          AgentCount \* agent_count

VARIABLES doc,      \* the OSM answer
          features, \* the NetAScore answer
          state,    \* "fetched", "parsed", "built", "ready", "error" or "crashed"
          network,  \* [queue, node_ids, ways, edges]
          road_info_map, \* the feature that gives an edge its values
          cars      \* [source, target] of each

osmVars == <<doc, features, state, network, road_info_map, cars>>

WayTypes == <<"building", "highway">>

EmptyNetwork ==
  [queue |-> <<>>,    \* each node's ways, in the order they were inserted
   node_ids |-> [t \in ToSet(WayTypes) |-> <<>>],
   ways |-> [t \in ToSet(WayTypes) |-> <<>>],
   edges |-> <<>>, missing |-> FALSE]

OsmInit ==
  /\ doc \in Documents /\ features \in FeatureLists
  /\ state = "fetched"
  /\ network = EmptyNetwork
  /\ road_info_map = <<>>
  /\ cars = <<>>

Put(f, k, v) == (k :> v) @@ f

-----------------------------------------------------------------------------
\* Mutant: the node is listed under every type that uses it.
MutantNodeListed(net, n) == TRUE

NodeListed(net, n) == n \notin DOMAIN net.queue

\* _node_hashmap_insert, and what _parse_osm_data does with a node that is new; one
\* that the answer does not describe is read through a null pointer.
InsertNode(net, way, n, type) ==
  [net EXCEPT !.queue = Put(@, n, (IF n \in DOMAIN @ THEN @[n] ELSE <<>>) \o <<way>>),
              !.node_ids[type] = IF NodeListed(net, n) THEN Append(@, n) ELSE @,
              !.missing = @ \/ n \notin doc.nodes]

InsertWay(net, way, type) ==
  IF type \notin way.tags THEN net
  ELSE FoldLeft(LAMBDA m, n : InsertNode(m, way, n, type),
                [net EXCEPT !.ways[type] = Append(@, way)], way.nodes)

\* _road_edge_structure_create: prev and next are places of edges, or 0.
RoadEdges(ways) ==
  FoldLeft(LAMBDA es, way :
             es \o [i \in 1 .. Max({Len(way.nodes) - 1, 0}) |->
                      [way |-> way.id, from |-> way.nodes[i], to |-> way.nodes[i + 1],
                       prev |-> IF i = 1 THEN 0 ELSE Len(es) + i - 1,
                       next |-> IF i = Len(way.nodes) - 1 THEN 0 ELSE Len(es) + i + 1]],
           <<>>, ways)

_parse_osm_data ==
  LET inserted == FoldLeft(LAMBDA net, type :
                             FoldLeft(LAMBDA m, way : InsertWay(m, way, type), net, doc.ways),
                           EmptyNetwork, WayTypes)
  IN  /\ state = "fetched"
      /\ IF doc.broken
           THEN state' = "error" /\ UNCHANGED network
           ELSE /\ state' = IF inserted.missing THEN "crashed" ELSE "parsed"
                /\ network' = [inserted EXCEPT !.edges = RoadEdges(inserted.ways["highway"])]
      /\ UNCHANGED <<doc, features, road_info_map, cars>>

\* way_find: the way was hashed when its nodes were inserted.
way_find(id) == \E n \in DOMAIN network.queue :
                  \E i \in DOMAIN network.queue[n] : network.queue[n][i].id = id

-----------------------------------------------------------------------------
\* Mutant: a value that is null is an error.
MutantTolerated == {}

\* Errors that the mask ~INCORRECT_TYPE lets pass.
Tolerated == {"null_osm_id", "null_index"}

\* _edge_in_osm_area, for one feature.  An error of the osm_id stays set when the
\* feature is skipped, to be found by the next one or at the end.
ReadFeature(acc, i) ==
  LET feature == features[i]
      err == acc.err \cup (IF feature.flaw = "none" THEN {} ELSE {feature.flaw})
      known == feature.flaw \notin {"null_osm_id", "no_osm_id"} /\ way_find(feature.osm_id)
      coords == SelectSeq(feature.coords, LAMBDA c : c \in BBox)
  IN  IF acc.stop THEN acc
      ELSE IF ~known THEN [acc EXCEPT !.err = err \cap {"null_osm_id", "no_osm_id"}]
      ELSE IF ~(err \subseteq Tolerated \cup {"no_geometry", "bad_point"})
        THEN [acc EXCEPT !.err = err, !.stop = TRUE]
      ELSE IF feature.flaw \in {"no_geometry", "bad_point"}
        THEN [acc EXCEPT !.err = {feature.flaw}, !.stop = TRUE]
      ELSE [acc EXCEPT !.err = {}, !.edges = Append(@, [feature |-> i, osm_id |-> feature.osm_id,
                                                        coords |-> coords])]

\* osm_way_to_edges_map_create: nothing is kept of an answer with an error.
NetaEdges ==
  LET read == FoldLeft(ReadFeature, [edges |-> <<>>, err |-> {}, stop |-> FALSE],
                       [i \in 1 .. Len(features) |-> i])
  IN  IF read.err = {} THEN read.edges ELSE <<>>

Distance(a, b) == IF a < b THEN b - a ELSE a - b

\* The distance of the nearer end of a road edge to a point of a feature.
Closest(edge, c) == Min({Distance(c, edge.from), Distance(c, edge.to)})

Points(edges, way) ==
  {p \in (DOMAIN edges) \X (1 .. 3) : edges[p[1]].osm_id = way /\ p[2] \in DOMAIN edges[p[1]].coords}

\* edge_from_road_edge: the first of the nearest, or 0.
edge_from_road_edge(edge, edges) ==
  LET points == Points(edges, edge.way)
      dist(p) == Closest(edge, edges[p[1]].coords[p[2]])
      least == Min({dist(p) : p \in points})
  IN  IF points = {} THEN 0
      ELSE edges[Min({p[1] : p \in {q \in points : dist(q) = least}})].feature

road_info_from_edge_id ==
  /\ state = "parsed"
  /\ LET edges == NetaEdges
         chosen == [e \in DOMAIN network.edges |-> edge_from_road_edge(network.edges[e], edges)]
     IN  road_info_map' = [e \in {x \in DOMAIN chosen : chosen[x] # 0} |-> chosen[e]]
  /\ state' = "built"
  /\ UNCHANGED <<doc, features, network, cars>>

-----------------------------------------------------------------------------
\* Mutant: the last node of a way has no neighbour before it.
MutantNeighbourPlace(i, n) == IF i + 1 > n THEN 1 ELSE i + 1

\* The node after the i-th of a way of n nodes, or before it at the way's end.
NeighbourPlace(i, n) == IF i + 1 > n THEN Max({1, i - 1}) ELSE i + 1

random_neighbour_node_get(node) ==
  {LET nodes == network.queue[node][w].nodes
       place == Min({i \in DOMAIN nodes : nodes[i] = node})
   IN  nodes[NeighbourPlace(place, Len(nodes))] : w \in DOMAIN network.queue[node]}

\* agents_create: a random road node, and a random neighbour of it; without a road
\* node the choice divides by zero.
agents_create ==
  LET nodes == network.node_ids["highway"]
  IN  /\ state = "built" /\ Len(cars) < AgentCount
      /\ IF nodes = <<>>
           THEN state' = "crashed" /\ UNCHANGED cars
           ELSE /\ \E source \in ToSet(nodes) : \E target \in random_neighbour_node_get(source) :
                     cars' = Append(cars, [source |-> source, target |-> target])
                /\ state' = IF Len(cars') = AgentCount THEN "ready" ELSE state
      /\ UNCHANGED <<doc, features, network, road_info_map>>

OsmNext == _parse_osm_data \/ road_info_from_edge_id \/ agents_create

-----------------------------------------------------------------------------
Adjacent(way, a, b) ==
  \E i \in 1 .. Len(way.nodes) - 1 : {way.nodes[i], way.nodes[i + 1]} = {a, b}

\* The edges of the roads are the pairs of nodes that follow each other, in a chain
\* for each way, and a node is listed once, whatever ways share it.
EdgesExact ==
  LET edges == network.edges
      nodes == network.node_ids["building"] \o network.node_ids["highway"]
  IN  /\ \A e \in DOMAIN edges :
           /\ \E w \in ToSet(doc.ways) : w.id = edges[e].way /\ Adjacent(w, edges[e].from, edges[e].to)
           /\ way_find(edges[e].way)
           /\ edges[e].next # 0 => /\ edges[edges[e].next].prev = e
                                   /\ edges[edges[e].next].from = edges[e].to
      /\ ToSet(nodes) = DOMAIN network.queue /\ IsInjective(nodes)

\* A car stands on a road and looks along one to the next node, never along the
\* wall of a building that shares nodes with a road, unless the road has one node.
CarsOnRoads ==
  \A i \in DOMAIN cars :
    \E w \in ToSet(doc.ways) :
      /\ "highway" \in w.tags
      /\ \/ Adjacent(w, cars[i].source, cars[i].target)
         \/ Len(w.nodes) = 1 /\ {cars[i].source, cars[i].target} = ToSet(w.nodes)

\* An edge has the values of a feature of its own way that has a point in the area,
\* and none of its way's is nearer; and it has values when there is such a feature,
\* if the answer has no worse flaw than a value that is null.
InfoNearest ==
  \A e \in DOMAIN network.edges :
    LET near(i) == {Closest(network.edges[e], features[i].coords[c]) :
                      c \in {d \in DOMAIN features[i].coords : features[i].coords[d] \in BBox}}
        own == {i \in DOMAIN features : features[i].osm_id = network.edges[e].way /\ near(i) # {}}
    IN  IF e \in DOMAIN road_info_map
          THEN /\ road_info_map[e] \in own
               /\ \A i \in own : Min(near(road_info_map[e])) <= Min(near(i))
          ELSE own = {} \/ \E i \in DOMAIN features : features[i].flaw \notin {"none", "null_index"}

NetworkExact ==
  state \in {"parsed", "built", "ready"} =>
    EdgesExact /\ CarsOnRoads /\ (state # "parsed" => InfoNearest)
=============================================================================
