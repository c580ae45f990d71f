-------------------------------- MODULE Agents ---------------------------------
(***************************************************************************)
(* The agents of the live traffic (city/city.cpp): agent_sim_update takes  *)
(* the coordinates that the websocket brought since the last frame, which  *)
(* may name an agent twice, and city_update draws the agents heard of in   *)
(* the last two seconds.  An agent is found through agent_map, whose entry *)
(* points into the array of agents; agents are never removed.              *)
(*                                                                         *)
(* Positions are integers; a move counts when it is longer than Still.     *)
(***************************************************************************)
EXTENDS Integers, Sequences, FiniteSets, SequencesExt

CONSTANTS Ids,       \* websocket ids
          Places,    \* coordinates
          Still,     \* the distance below which an agent has not moved
          MaxAgents, \* max_agent_count
          FrameRate, \* frame_rate
          MaxFrames  \* bound: frames

VARIABLES agents_active, \* sequence of [ecef_coord, ecef_dir, latest_update_frame, model]
          agent_map,     \* each id's place in it
          frame_count,
          drawn,         \* places of the agents drawn in this frame
          heard,         \* each id's last coordinate and the frame it came in
          aborted        \* an assertion failed

agentVars == <<agents_active, agent_map, frame_count, drawn, heard, aborted>>

East == 100 \* the direction of an agent that has not moved yet

AgentsInit ==
  /\ agents_active = <<>>
  /\ agent_map = [i \in {} |-> 0]
  /\ frame_count = 1
  /\ drawn = {}
  /\ heard = [i \in {} |-> 0]
  /\ aborted = FALSE

Insert(f, k, v) == [x \in DOMAIN f \cup {k} |-> IF x = k THEN v ELSE f[x]]

\* Mutant: a move is measured from the last coordinate, not from the last move.
MutantMoved(agent, coord) ==
  LET d == coord - agent.model IN d > Still \/ -d > Still

Moved(agent, coord) ==
  LET d == coord - agent.ecef_coord IN d > Still \/ -d > Still

\* agent_sim_update, for one coordinate [id, pos]: an agent that is known moves, a new
\* one is pushed; the matrix is made from the coordinate in any case.
Updated(acc, c) ==
  LET known == c.id \in DOMAIN acc.map
      old == acc.agents[acc.map[c.id]]
      agent == IF ~known THEN [ecef_coord |-> c.pos, ecef_dir |-> East]
               ELSE IF Moved(old, c.pos)
                 THEN [ecef_coord |-> c.pos, ecef_dir |-> c.pos - old.ecef_coord]
               ELSE [ecef_coord |-> old.ecef_coord, ecef_dir |-> old.ecef_dir]
      full == [ecef_coord |-> agent.ecef_coord, ecef_dir |-> agent.ecef_dir,
               latest_update_frame |-> frame_count, model |-> c.pos]
  IN  IF acc.aborted THEN acc
      ELSE IF known THEN [acc EXCEPT !.agents[acc.map[c.id]] = full]
      ELSE IF Len(acc.agents) = MaxAgents THEN [acc EXCEPT !.aborted = TRUE]
      ELSE [acc EXCEPT !.agents = Append(@, full),
                       !.map = Insert(@, c.id, Len(acc.agents) + 1)]

\* A frame of city_update: the coordinates, then what is drawn.
Frame(coords) ==
  LET result == FoldLeft(Updated, [agents |-> agents_active, map |-> agent_map, aborted |-> FALSE],
                         coords)
  IN  /\ ~aborted /\ frame_count < MaxFrames
      /\ agents_active' = result.agents /\ agent_map' = result.map /\ aborted' = result.aborted
      /\ heard' = FoldLeft(LAMBDA h, c : Insert(h, c.id, [pos |-> c.pos, frame |-> frame_count]),
                           heard, coords)
      /\ drawn' = {i \in DOMAIN result.agents :
                     frame_count - result.agents[i].latest_update_frame < FrameRate * 2}
      /\ frame_count' = frame_count + 1

Coordinates == [id : Ids, pos : Places]

AgentsNext ==
  \/ Frame(<<>>)
  \/ \E c \in Coordinates : Frame(<<c>>)
  \/ \E c, d \in Coordinates : Frame(<<c, d>>)

-----------------------------------------------------------------------------
\* Each id has one agent, drawn where it was last heard of and only while that was
\* in the last two seconds; the coordinate that moves are measured from never lags
\* behind by more than what counts as standing still.  More ids than max_agent_count,
\* over the whole session, end the program.
AgentsExact ==
  IF aborted THEN Cardinality(DOMAIN heard) > MaxAgents
  ELSE /\ DOMAIN agent_map = DOMAIN heard
       /\ IsInjective(agent_map)
       /\ {agent_map[i] : i \in DOMAIN agent_map} = DOMAIN agents_active
       /\ \A i \in DOMAIN heard :
            LET agent == agents_active[agent_map[i]]
                lag == heard[i].pos - agent.ecef_coord
            IN  /\ agent.model = heard[i].pos
                /\ -Still <= lag /\ lag <= Still
                /\ agent_map[i] \in drawn <=>
                     frame_count - 1 - heard[i].frame < FrameRate * 2
=============================================================================
