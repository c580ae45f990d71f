-------------------------------- MODULE OsmJson --------------------------------
(***************************************************************************)
(* The two readers of OSM's answer (lib_wrappers/json.cpp), which          *)
(* OsmNetwork takes as one step: the nodes, put into a hash table element  *)
(* by element, and after them the ways.                                    *)
(*                                                                         *)
(* The reader of the nodes goes through the text as it is and meets an     *)
(* error where it is; the reader of the ways parses all of it first.  An   *)
(* element of another type than these two is skipped.                      *)
(***************************************************************************)
EXTENDS Integers, Sequences, FiniteSets, SequencesExt

CONSTANTS Answers, \* sequences of [type, id, nodes, flaw]
          Slots    \* node_hashmap_size

VARIABLES answer,
          next,        \* the element the reader of the nodes looks at
          road_nodes,  \* the ids in each slot of the table
          way_buffer,  \* [id, nodes] of each way
          json         \* "nodes", "ways", "parsed", "error" or "thrown"

jsonVars == <<answer, next, road_nodes, way_buffer, json>>

JsonInit ==
  /\ answer \in Answers
  /\ next = 1 /\ road_nodes = [s \in 0 .. Slots - 1 |-> <<>>]
  /\ way_buffer = <<>> /\ json = "nodes"

-----------------------------------------------------------------------------
\* Flaws of an element: the text breaks off there, it has no type, or it has the type
\* but not all else that is read of it.
Fails(e) == e.flaw \in {"broken", "untyped"}

\* Mutant: every id goes to the first slot but one.
MutantSlotOf(id) == IF id = Slots THEN 1 ELSE id % Slots

SlotOf(id) == id % Slots

\* node_buffer_from_simd_json, for one element.  After an error the table keeps what
\* was put into it, and is not used.
ReadNode ==
  LET e == answer[next]
      node == ~Fails(e) /\ e.type = "node"
  IN  /\ json = "nodes" /\ next <= Len(answer)
      /\ json' = IF Fails(e) \/ (node /\ e.flaw = "incomplete") THEN "error" ELSE json
      /\ road_nodes' = IF node /\ e.flaw = "none"
                         THEN [road_nodes EXCEPT ![SlotOf(e.id)] = Append(@, e.id)] ELSE road_nodes
      /\ next' = next + 1
      /\ UNCHANGED <<answer, way_buffer>>

NodesRead ==
  /\ json = "nodes" /\ next > Len(answer)
  /\ json' = "ways"
  /\ UNCHANGED <<answer, next, road_nodes, way_buffer>>

\* way_buffer_from_simd_json: counted first, so that the buffer has their number.  A
\* way without its id, nodes or tags throws.
way_buffer_from_simd_json ==
  LET ways == SelectSeq(answer, LAMBDA e : e.type = "way")
  IN  /\ json = "ways"
      /\ IF \E i \in DOMAIN ways : ways[i].flaw = "incomplete"
           THEN json' = "thrown" /\ UNCHANGED way_buffer
           ELSE /\ json' = "parsed"
                /\ way_buffer' = [i \in DOMAIN ways |-> [id |-> ways[i].id, nodes |-> ways[i].nodes]]
      /\ UNCHANGED <<answer, next, road_nodes>>

JsonNext == ReadNode \/ NodesRead \/ way_buffer_from_simd_json

-----------------------------------------------------------------------------
\* _wgs_node_find (osm.cpp) looks in the slot of the id only.
Found(id) == id \in ToSet(road_nodes[id % Slots])

\* An answer is parsed whole or not at all: what is parsed has every node where it is
\* looked for, and nothing else, and every way in order; what has a flaw is never
\* parsed, wherever the flaw is, unless it is in an element of no interest.
JsonExact ==
  LET of(type) == {i \in DOMAIN answer : answer[i].type = type}
  IN  /\ json = "parsed" =>
           /\ {id \in UNION {ToSet(road_nodes[s]) : s \in DOMAIN road_nodes} : Found(id)}
                = {answer[i].id : i \in of("node")}
           /\ \A s \in DOMAIN road_nodes : \A i \in DOMAIN road_nodes[s] : Found(road_nodes[s][i])
           /\ Len(way_buffer) = Cardinality(of("way"))
           /\ \A i \in of("way") :
                LET k == Cardinality({j \in of("way") : j <= i})
                IN  way_buffer[k] = [id |-> answer[i].id, nodes |-> answer[i].nodes]
           /\ \A i \in DOMAIN answer : answer[i].flaw = "none" \/ answer[i].type = "relation"
      /\ json = "thrown" => \E i \in of("way") : answer[i].flaw = "incomplete"
=============================================================================
