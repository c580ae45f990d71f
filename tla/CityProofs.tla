------------------------------ MODULE CityProofs -------------------------------
(***************************************************************************)
(* Proofs about City for every number of areas, tiles and overlays.        *)
(***************************************************************************)
EXTENDS City, SequenceFacts

Places   == {"frame", "poll", "tiles", "cars", "render", "stopping", "ended"}
Outcomes == {"none", "queued", "success", "error"}

CityTypeOK ==
  /\ pc \in Places /\ area \in Areas /\ option \in Options /\ cur \in Nat \ {0}
  /\ task_list \in [Areas -> Seq(Kinds)]
  /\ status \in [Areas -> [Kinds -> Outcomes]]
  /\ flags \in [Areas -> SUBSET Flags]
  /\ overlay_option_cur \in [Areas -> Options]
  /\ shown \in SUBSET Tiles /\ missed \in SUBSET Tiles
  /\ scheduled \in [Tiles -> BOOLEAN]
  /\ bucket \in SUBSET (Tiles \X Options)
  /\ painted \in [Tiles -> Options \cup {Unpainted}]
  /\ hovered \in Areas \cup {None}

(***************************************************************************)
(* The invariant of the builds: a city's flags never run ahead of the      *)
(* tasks.  A done flag is set after the task succeeded, a started flag     *)
(* before a build is queued and with its sources' flags set, and a task is *)
(* in the list from its start until its end has been seen.                 *)
(***************************************************************************)
FlagsFollowTasks(a) ==
  /\ \A k \in Kinds \cap flags[a] : status[a][k] = "success"
  /\ status[a]["road"] # "none" => "road_started" \in flags[a]
  /\ status[a]["cars"] # "none" => "cars_started" \in flags[a]
  /\ "road_started" \in flags[a] => {"neta", "osm"} \subseteq flags[a]
  /\ "cars_started" \in flags[a] => "osm" \in flags[a]

ListedOnce(a) ==
  /\ IsInjective(task_list[a])
  /\ \A k \in ToSet(task_list[a]) : k \notin flags[a] /\ status[a][k] # "none"

\* A road is drawn, and can be under the mouse, only in a city that has it.
PaintedFromRoad ==
  /\ hovered \in Areas => "road" \in flags[hovered]
  /\ bucket # {} \/ (\E t \in Tiles : painted[t] # Unpainted) => "road" \in flags[area]

BuildsInv ==
  /\ \A a \in Areas : FlagsFollowTasks(a) /\ ListedOnce(a)
  /\ PaintedFromRoad

(***************************************************************************)
(* The invariant of the overlays: a tile that had its pass shows the       *)
(* city's overlay, or a pass with that overlay is in this frame's bucket.  *)
(***************************************************************************)
AfterTiles == pc \in {"cars", "render"}

OverlaysInv ==
  /\ AfterTiles => \A p \in bucket : p[2] = overlay_option_cur[area]
  /\ \A t \in Tiles \ missed :
       scheduled[t] => (AfterTiles /\ Passed(t)) \/ painted[t] = overlay_option_cur[area]
-----------------------------------------------------------------------------

\* A city starts with its types.
LEMMA CityInitTyped == CityInit => CityTypeOK
<1> SUFFICES ASSUME CityInit PROVE CityTypeOK
  OBVIOUS
<1>1. PICK cached \in SUBSET Areas : status = [a \in Areas |-> [k \in Kinds |->
            IF k = "osm" \/ (k = "neta" /\ a \notin cached) THEN "queued"
            ELSE IF k = "neta" THEN "success" ELSE "none"]]
  BY DEF CityInit
<1>2. status \in [Areas -> [Kinds -> Outcomes]]
  BY <1>1 DEF Outcomes
<1>3. task_list \in [Areas -> Seq(Kinds)]
  <2>1. <<"neta", "osm">> \in Seq(Kinds)
    BY DEF Kinds
  <2> QED BY <2>1 DEF CityInit
<1> QED BY <1>2, <1>3, CityAssumption DEF CityInit, CityTypeOK, Places, Flags

\* Starting a task keeps the types of the flags, the outcomes and the task list.
LEMMA StartKeepsTypes ==
  ASSUME CityTypeOK, NEW k \in Kinds, NEW started \in Flags, Start(k, started)
  PROVE  /\ flags' \in [Areas -> SUBSET Flags]
         /\ status' \in [Areas -> [Kinds -> Outcomes]]
         /\ task_list' \in [Areas -> Seq(Kinds)]
<1>1. flags' \in [Areas -> SUBSET Flags]
  BY DEF CityTypeOK, Start
<1>2. status' \in [Areas -> [Kinds -> Outcomes]]
  BY DEF CityTypeOK, Start, Outcomes
<1>3. task_list' \in [Areas -> Seq(Kinds)]
  <2>1. Append(task_list[area], k) \in Seq(Kinds)
    BY DEF CityTypeOK
  <2> QED BY <2>1 DEF CityTypeOK, Start
<1> QED BY <1>1, <1>2, <1>3

\* What UpdateTiles does, with names for the tiles that want a pass and those whose
\* overlay changes while they are hidden.
TilesUpdated(show, reloaded, loaded, wanted, hidden) ==
  /\ wanted = {t \in show : /\ "road" \in flags[area]
                            /\ \/ ~(scheduled[t] /\ t \notin reloaded)
                               \/ option # overlay_option_cur[area]}
  /\ hidden = {t \in Tiles \ show : /\ "road" \in flags[area]
                                     /\ option # overlay_option_cur[area]
                                     /\ scheduled[t] /\ t \notin reloaded}
  /\ shown' = show
  /\ scheduled' = [t \in Tiles |-> IF t \in wanted THEN t \in loaded
                                   ELSE scheduled[t] /\ t \notin reloaded]
  /\ bucket' = {<<t, option>> : t \in wanted \cap loaded}
  /\ painted' = [t \in Tiles |-> IF t \in reloaded THEN Unpainted ELSE painted[t]]
  /\ missed' = ((missed \ reloaded) \ wanted) \cup hidden
  /\ overlay_option_cur' = IF "road" \in flags[area]
                             THEN [overlay_option_cur EXCEPT ![area] = option]
                             ELSE overlay_option_cur

\* An update of the tiles with its sets named.
LEMMA UpdateTilesFacts ==
  ASSUME UpdateTiles
  PROVE  \E show \in SUBSET Tiles, reloaded \in SUBSET Tiles, loaded \in SUBSET Tiles,
            wanted \in SUBSET Tiles, hidden \in SUBSET Tiles :
           TilesUpdated(show, reloaded, loaded, wanted, hidden)
<1> DEFINE changed == option # overlay_option_cur[area]
           done == "road" \in flags[area]
           before(r) == [t \in Tiles |-> scheduled[t] /\ t \notin r]
           wanted(s, r) == {t \in s : done /\ WantsPass(before(r)[t], changed)}
           hidden(s, r) == {t \in Tiles \ s : done /\ changed /\ before(r)[t]}
<1>1. PICK show \in SUBSET Tiles, reloaded \in SUBSET (Tiles \ shown), loaded \in SUBSET Tiles :
        /\ shown' = show
        /\ scheduled' = [t \in Tiles |-> IF t \in wanted(show, reloaded) THEN t \in loaded
                                         ELSE before(reloaded)[t]]
        /\ bucket' = {<<t, option>> : t \in wanted(show, reloaded) \cap loaded}
        /\ painted' = [t \in Tiles |-> IF t \in reloaded THEN Unpainted ELSE painted[t]]
        /\ missed' = ((missed \ reloaded) \ wanted(show, reloaded)) \cup hidden(show, reloaded)
        /\ overlay_option_cur' =
             IF done THEN [overlay_option_cur EXCEPT ![area] = option] ELSE overlay_option_cur
  BY DEF UpdateTiles
<1>2. \A t \in Tiles : before(reloaded)[t] = (scheduled[t] /\ t \notin reloaded)
  OBVIOUS
<1>3. wanted(show, reloaded) = {t \in show : /\ done
                            /\ \/ ~(scheduled[t] /\ t \notin reloaded)
                               \/ changed}
  BY <1>2 DEF WantsPass
<1>4. hidden(show, reloaded) = {t \in Tiles \ show : /\ done
                                     /\ changed
                                     /\ scheduled[t] /\ t \notin reloaded}
  BY <1>2
<1>5. scheduled' = [t \in Tiles |-> IF t \in wanted(show, reloaded) THEN t \in loaded
                                   ELSE scheduled[t] /\ t \notin reloaded]
  BY <1>1, <1>2
<1>6. /\ reloaded \in SUBSET Tiles
      /\ wanted(show, reloaded) \in SUBSET Tiles /\ hidden(show, reloaded) \in SUBSET Tiles
  OBVIOUS
<1>7. TilesUpdated(show, reloaded, loaded, wanted(show, reloaded), hidden(show, reloaded))
  BY <1>1, <1>3, <1>4, <1>5 DEF TilesUpdated
<1> HIDE DEF changed, done, before, wanted, hidden
<1> QED BY <1>6, <1>7

\* Every step keeps the types.
LEMMA StepKeepsTypes == CityTypeOK /\ [CityNext]_cityVars => CityTypeOK'
<1> SUFFICES ASSUME CityTypeOK, [CityNext]_cityVars PROVE CityTypeOK'
  OBVIOUS
<1>1. CASE \E a \in Areas, k \in Kinds : TaskEnds(a, k)
  <2>1. PICK a \in Areas, k \in Kinds : TaskEnds(a, k)
    BY <1>1
  <2>2. PICK s \in Outcomes : status' = [status EXCEPT ![a][k] = s]
    BY <2>1 DEF TaskEnds, Outcomes
  <2>3. status' \in [Areas -> [Kinds -> Outcomes]]
    BY <2>2 DEF CityTypeOK
  <2> QED BY <2>1, <2>3 DEF TaskEnds, CityTypeOK
<1>2. CASE FrameBegin
  <2>1. /\ pc' \in Places /\ area' \in Areas /\ option' \in Options /\ cur' \in Nat \ {0}
        /\ UNCHANGED <<task_list, status, flags, overlay_option_cur, hovered>>
    BY <1>2 DEF FrameBegin, Places
  <2>2. /\ shown' \in SUBSET Tiles /\ missed' \in SUBSET Tiles
        /\ scheduled' \in [Tiles -> BOOLEAN]
        /\ bucket' \in SUBSET (Tiles \X Options)
        /\ painted' \in [Tiles -> Options \cup {Unpainted}]
    <3>1. CASE area' = area
      BY <1>2, <3>1 DEF FrameBegin, CityTypeOK
    <3>2. CASE area' # area
      BY <1>2, <3>2 DEF FrameBegin, NewTileset
    <3> QED BY <3>1, <3>2
  <2> QED BY <2>1, <2>2 DEF CityTypeOK
<1>3. CASE PollTask
  <2>1. /\ UNCHANGED <<pc, area, option, status, overlay_option_cur, shown, scheduled, bucket,
                       painted, hovered, missed>>
    BY <1>3 DEF PollTask
  <2>2. CASE status[area][task_list[area][cur]] \in {"success", "error"}
    <3>1. cur \in 1 .. Len(task_list[area]) /\ task_list[area] \in Seq(Kinds)
      BY <1>3 DEF PollTask, CityTypeOK
    <3>2. RemoveAt(task_list[area], cur) \in Seq(Kinds) /\ task_list[area][cur] \in Kinds
      BY <3>1, RemoveAtFacts
    <3>3. task_list' \in [Areas -> Seq(Kinds)]
      BY <1>3, <2>2, <3>2 DEF PollTask, CityTypeOK
    <3>4. flags' \in [Areas -> SUBSET Flags] /\ cur' = cur
      <4>1. flags' = flags \/ flags' = [flags EXCEPT ![area] = @ \cup {task_list[area][cur]}]
        BY <1>3, <2>2 DEF PollTask
      <4>2. flags[area] \cup {task_list[area][cur]} \in SUBSET Flags
        BY <3>2 DEF CityTypeOK, Flags
      <4>3. cur' = cur
        BY <1>3, <2>2 DEF PollTask
      <4> QED BY <4>1, <4>2, <4>3 DEF CityTypeOK
    <3> QED BY <2>1, <3>3, <3>4 DEF CityTypeOK
  <2>3. CASE status[area][task_list[area][cur]] \notin {"success", "error"}
    <3>1. cur' \in Nat \ {0} /\ UNCHANGED <<task_list, flags>>
      BY <1>3, <2>3 DEF PollTask, CityTypeOK
    <3> QED BY <2>1, <3>1 DEF CityTypeOK
  <2> QED BY <2>2, <2>3
<1>4. CASE StartRoad
  <2>1. /\ flags' \in [Areas -> SUBSET Flags]
        /\ status' \in [Areas -> [Kinds -> Outcomes]]
        /\ task_list' \in [Areas -> Seq(Kinds)]
    <3>1. "road" \in Kinds /\ "road_started" \in Flags
      BY DEF Kinds, Flags
    <3>2. CASE Start("road", "road_started")
      BY <3>1, <3>2, StartKeepsTypes
    <3>3. CASE UNCHANGED <<flags, status, task_list>>
      BY <3>3 DEF CityTypeOK
    <3> QED BY <1>4, <3>2, <3>3 DEF StartRoad
  <2> QED BY <1>4, <2>1 DEF StartRoad, CityTypeOK, Places
<1>5. CASE UpdateTiles
  <2>1. PICK show \in SUBSET Tiles, reloaded \in SUBSET Tiles, loaded \in SUBSET Tiles,
             wanted \in SUBSET Tiles, hidden \in SUBSET Tiles :
          TilesUpdated(show, reloaded, loaded, wanted, hidden)
    BY <1>5, UpdateTilesFacts
  <2>2. scheduled' \in [Tiles -> BOOLEAN]
    <3>1. scheduled' = [t \in Tiles |-> IF t \in wanted THEN t \in loaded
                                       ELSE scheduled[t] /\ t \notin reloaded]
      BY <2>1 DEF TilesUpdated
    <3>2. \A t \in Tiles : (t \in loaded) \in BOOLEAN
      OBVIOUS
    <3>3. \A t \in Tiles : (scheduled[t] /\ t \notin reloaded) \in BOOLEAN
      BY Zenon
    <3>4. \A t \in Tiles : (IF t \in wanted THEN t \in loaded
                              ELSE scheduled[t] /\ t \notin reloaded) \in BOOLEAN
      BY <3>2, <3>3, Zenon
    <3> QED BY <3>1, <3>4, Zenon
  <2>3. /\ shown' \in SUBSET Tiles /\ missed' \in SUBSET Tiles
        /\ bucket' \in SUBSET (Tiles \X Options)
    <3>1. shown' = show /\ missed' = ((missed \ reloaded) \ wanted) \cup hidden
      BY <2>1 DEF TilesUpdated
    <3>2. bucket' = {<<t, option>> : t \in wanted \cap loaded}
      BY <2>1 DEF TilesUpdated
    <3>3. bucket' \in SUBSET (Tiles \X Options)
      BY <3>2 DEF CityTypeOK
    <3> QED BY <3>1, <3>3 DEF CityTypeOK
  <2>4. painted' \in [Tiles -> Options \cup {Unpainted}]
    BY <2>1 DEF TilesUpdated, CityTypeOK
  <2>5. overlay_option_cur' \in [Areas -> Options]
    BY <2>1 DEF TilesUpdated, CityTypeOK
  <2> QED BY <1>5, <2>2, <2>3, <2>4, <2>5 DEF UpdateTiles, CityTypeOK, Places
<1>6. CASE StartCars
  <2>1. /\ flags' \in [Areas -> SUBSET Flags]
        /\ status' \in [Areas -> [Kinds -> Outcomes]]
        /\ task_list' \in [Areas -> Seq(Kinds)]
    <3>1. "cars" \in Kinds /\ "cars_started" \in Flags
      BY DEF Kinds, Flags
    <3>2. CASE Start("cars", "cars_started")
      BY <3>1, <3>2, StartKeepsTypes
    <3>3. CASE UNCHANGED <<flags, status, task_list>>
      BY <3>3 DEF CityTypeOK
    <3> QED BY <1>6, <3>2, <3>3 DEF StartCars
  <2> QED BY <1>6, <2>1 DEF StartCars, CityTypeOK, Places
<1>7. CASE RenderFrame
  <2>1. \A t \in Tiles : Passed(t) => (CHOOSE p \in bucket : p[1] = t)[2] \in Options
    <3> SUFFICES ASSUME NEW t \in Tiles, Passed(t)
                 PROVE  (CHOOSE p \in bucket : p[1] = t)[2] \in Options
      OBVIOUS
    <3>1. \E p \in bucket : p[1] = t
      BY DEF Passed
    <3>2. (CHOOSE p \in bucket : p[1] = t) \in bucket
      BY <3>1
    <3> QED BY <3>2 DEF CityTypeOK
  <2>2. missed' \in SUBSET Tiles
    BY <1>7 DEF RenderFrame, CityTypeOK
  <2>3. painted' \in [Tiles -> Options \cup {Unpainted}]
    BY <1>7, <2>1 DEF RenderFrame, CityTypeOK
  <2>4. hovered' \in Areas \cup {None}
    BY <1>7 DEF RenderFrame, CityTypeOK
  <2> QED BY <1>7, <2>2, <2>3, <2>4 DEF RenderFrame, CityTypeOK, Places
<1>8. CASE city_release
  BY <1>8 DEF city_release, CityTypeOK, Places
<1>9. CASE UNCHANGED cityVars
  BY <1>9 DEF cityVars, CityTypeOK
<1> QED BY <1>1, <1>2, <1>3, <1>4, <1>5, <1>6, <1>7, <1>8, <1>9 DEF CityNext
(***************************************************************************)
(* With any number of areas, tiles and overlays the frame loop and the     *)
(* workers keep each city's tasks, flags and settings within their types   *)
(* (City in city.hpp, city_update in city.cpp).                            *)
(***************************************************************************)
THEOREM CityTyped == CitySpec => []CityTypeOK
BY CityInitTyped, StepKeepsTypes, PTL DEF CitySpec

-----------------------------------------------------------------------------
(***************************************************************************)
(* The builds.                                                             *)
(***************************************************************************)
LEMMA StartKeepsBuilds ==
  ASSUME CityTypeOK, BuildsInv, NEW k \in {"road", "cars"}, NEW started \in {"road_started", "cars_started"},
         k = "road" <=> started = "road_started",
         started \notin flags[area],
         k = "road" => {"neta", "osm"} \subseteq flags[area],
         k = "cars" => "osm" \in flags[area],
         Start(k, started)
  PROVE  \A a \in Areas : FlagsFollowTasks(a)' /\ ListedOnce(a)'
<1> USE DEF Kinds
<1>1. SUFFICES ASSUME NEW a \in Areas PROVE FlagsFollowTasks(a)' /\ ListedOnce(a)'
  OBVIOUS
<1>2. CASE a # area
  <2>1. flags'[a] = flags[a] /\ status'[a] = status[a] /\ task_list'[a] = task_list[a]
    BY <1>2 DEF CityTypeOK, Start
  <2> QED BY <2>1 DEF BuildsInv, FlagsFollowTasks, ListedOnce
<1>3. CASE a = area
  <2>1. /\ flags'[a] = flags[a] \cup {started}
        /\ status'[a] = [status[a] EXCEPT ![k] = "queued"]
        /\ task_list'[a] = Append(task_list[a], k)
    BY <1>3 DEF CityTypeOK, Start
  <2>2. /\ status[a] \in [Kinds -> Outcomes] /\ task_list[a] \in Seq(Kinds)
        /\ FlagsFollowTasks(a) /\ ListedOnce(a)
    BY DEF CityTypeOK, BuildsInv
  <2>3. status[a][k] = "none" /\ k \notin flags[a]
    BY <1>3, <2>2 DEF FlagsFollowTasks
  <2>4. \A l \in Kinds : status'[a][l] = IF l = k THEN "queued" ELSE status[a][l]
    BY <2>1, <2>2
  <2>5. FlagsFollowTasks(a)'
    BY <1>3, <2>1, <2>2, <2>3, <2>4 DEF FlagsFollowTasks
  <2>6. /\ ToSet(task_list'[a]) = ToSet(task_list[a]) \cup {k}
        /\ IsInjective(task_list[a]) /\ k \notin ToSet(task_list[a])
    BY <2>1, <2>2, <2>3, AppendFacts DEF ListedOnce
  <2>7. IsInjective(task_list'[a])
    BY <2>1, <2>2, <2>6, AppendFacts
  <2>8. ToSet(task_list[a]) \subseteq Kinds
    BY <2>2 DEF ToSet
  <2>9. \A l \in ToSet(task_list'[a]) : l \notin flags'[a] /\ status'[a][l] # "none"
    BY <2>1, <2>2, <2>3, <2>4, <2>6, <2>8 DEF ListedOnce
  <2> QED BY <2>5, <2>7, <2>9 DEF ListedOnce
<1> QED BY <1>2, <1>3

\* Every step keeps what the builds and the passes have read.
LEMMA StepKeepsBuilds == CityTypeOK /\ BuildsInv /\ [CityNext]_cityVars => BuildsInv'
<1> SUFFICES ASSUME CityTypeOK, BuildsInv, [CityNext]_cityVars PROVE BuildsInv'
  OBVIOUS
<1> USE DEF Kinds
\* Steps that leave the cities' tasks and flags alone.
<1> DEFINE Rest == UNCHANGED <<status, flags, task_list>>
<1>0. Rest => \A a \in Areas : FlagsFollowTasks(a)' /\ ListedOnce(a)'
  BY DEF BuildsInv, FlagsFollowTasks, ListedOnce
<1>1. CASE \E a \in Areas, k \in Kinds : TaskEnds(a, k)
  <2>1. PICK b \in Areas, k \in Kinds : TaskEnds(b, k)
    BY <1>1
  <2>2. PICK s \in {"success", "error"} : status' = [status EXCEPT ![b][k] = s]
    BY <2>1 DEF TaskEnds
  <2>3. UNCHANGED <<area, flags, task_list, bucket, painted, hovered>> /\ status[b][k] = "queued"
    BY <2>1 DEF TaskEnds
  <2>4. ASSUME NEW a \in Areas PROVE FlagsFollowTasks(a)' /\ ListedOnce(a)'
    <3>1. \A l \in Kinds : status'[a][l] = IF a = b /\ l = k THEN s ELSE status[a][l]
      BY <2>2 DEF CityTypeOK
    <3>2. FlagsFollowTasks(a) /\ ListedOnce(a) /\ ToSet(task_list[a]) \subseteq Kinds
      <4>1. task_list[a] \in Seq(Kinds)
        BY DEF CityTypeOK
      <4> QED BY <4>1 DEF BuildsInv, ToSet
    <3>3. FlagsFollowTasks(a)'
      BY <2>3, <3>1, <3>2 DEF FlagsFollowTasks
    <3>4. ListedOnce(a)'
      BY <2>3, <3>1, <3>2 DEF ListedOnce
    <3> QED BY <3>3, <3>4
  <2>5. PaintedFromRoad'
    BY <2>3 DEF BuildsInv, PaintedFromRoad
  <2> QED BY <2>4, <2>5 DEF BuildsInv
<1>2. CASE FrameBegin
  <2>1. Rest /\ hovered' = hovered /\ area' \in Areas
    BY <1>2 DEF FrameBegin
  <2>2. PaintedFromRoad'
    <3>1. CASE area' = area
      BY <1>2, <2>1, <3>1 DEF FrameBegin, BuildsInv, PaintedFromRoad
    <3>2. CASE area' # area
      BY <1>2, <2>1, <3>2 DEF FrameBegin, NewTileset, BuildsInv, PaintedFromRoad
    <3> QED BY <3>1, <3>2
  <2> QED BY <1>0, <2>1, <2>2 DEF BuildsInv
<1>3. CASE PollTask
  <2> DEFINE list == task_list[area]
             k == list[cur]
  <2>1. UNCHANGED <<area, status, bucket, painted, hovered>>
    BY <1>3 DEF PollTask
  <2>2. CASE status[area][k] \notin {"success", "error"}
    <3>1. Rest
      BY <1>3, <2>2 DEF PollTask
    <3>2. PaintedFromRoad'
      BY <2>1, <3>1 DEF BuildsInv, PaintedFromRoad
    <3> QED BY <1>0, <3>1, <3>2 DEF BuildsInv
  <2>3. CASE status[area][k] \in {"success", "error"}
    <3>1. list \in Seq(Kinds) /\ cur \in 1 .. Len(list) /\ area \in Areas
      BY <1>3 DEF PollTask, CityTypeOK
    <3>2. /\ k \in Kinds
          /\ ToSet(list) = ToSet(RemoveAt(list, cur)) \cup {k}
          /\ IsInjective(list) => IsInjective(RemoveAt(list, cur)) /\ k \notin ToSet(RemoveAt(list, cur))
      BY <3>1, RemoveAtFacts
    <3>3. /\ task_list' = [task_list EXCEPT ![area] = RemoveAt(list, cur)]
          /\ flags' = IF status[area][k] = "success"
                        THEN [flags EXCEPT ![area] = @ \cup {k}] ELSE flags
      BY <1>3, <2>3 DEF PollTask
    <3> HIDE DEF list, k
    <3>4. ASSUME NEW a \in Areas PROVE FlagsFollowTasks(a)' /\ ListedOnce(a)'
      <4>1. FlagsFollowTasks(a) /\ ListedOnce(a)
        BY DEF BuildsInv
      <4>2. CASE a # area
        <5>1. flags'[a] = flags[a] /\ status'[a] = status[a] /\ task_list'[a] = task_list[a]
          BY <2>1, <3>3, <4>2 DEF CityTypeOK
        <5> QED BY <4>1, <5>1 DEF FlagsFollowTasks, ListedOnce
      <4>3. CASE a = area
        <5>1. /\ task_list'[a] = RemoveAt(list, cur) /\ status' = status
              /\ flags'[a] = IF status[a][k] = "success" THEN flags[a] \cup {k} ELSE flags[a]
          BY <2>1, <3>3, <4>3 DEF CityTypeOK
        <5>2. FlagsFollowTasks(a)'
          BY <3>2, <4>1, <5>1 DEF FlagsFollowTasks
        <5>3. list = task_list[a]
          BY <4>3 DEF list
        <5>4. ListedOnce(a)'
          BY <3>2, <4>1, <5>1, <5>3 DEF ListedOnce
        <5> QED BY <5>2, <5>4
      <4> QED BY <4>2, <4>3
    <3>5. \A a \in Areas : flags[a] \subseteq flags'[a]
      BY <3>3 DEF CityTypeOK
    <3>6. PaintedFromRoad'
      BY <2>1, <3>1, <3>5 DEF BuildsInv, PaintedFromRoad
    <3> QED BY <3>4, <3>6 DEF BuildsInv
  <2> QED BY <2>2, <2>3
<1>4. CASE StartRoad
  <2>1. UNCHANGED <<area, bucket, painted, hovered>>
    BY <1>4 DEF StartRoad
  <2>2. CASE Rest
    <3>1. PaintedFromRoad'
      BY <2>1, <2>2 DEF BuildsInv, PaintedFromRoad
    <3> QED BY <1>0, <2>2, <3>1 DEF BuildsInv
  <2>3. CASE /\ SourcesReady(flags[area]) /\ "road_started" \notin flags[area]
             /\ Start("road", "road_started")
    <3>1. \A a \in Areas : FlagsFollowTasks(a)' /\ ListedOnce(a)'
      BY <2>3, StartKeepsBuilds DEF SourcesReady
    <3>2. \A a \in Areas : flags[a] \subseteq flags'[a]
      BY <2>3 DEF Start, CityTypeOK
    <3>3. PaintedFromRoad'
      BY <2>1, <3>2 DEF BuildsInv, PaintedFromRoad, CityTypeOK
    <3> QED BY <3>1, <3>3 DEF BuildsInv
  <2> QED BY <1>4, <2>2, <2>3 DEF StartRoad
<1>5. CASE UpdateTiles
  <2>1. PICK show \in SUBSET Tiles, reloaded \in SUBSET Tiles, loaded \in SUBSET Tiles,
             wanted \in SUBSET Tiles, hidden \in SUBSET Tiles :
          TilesUpdated(show, reloaded, loaded, wanted, hidden)
    BY <1>5, UpdateTilesFacts
  <2>2. Rest /\ UNCHANGED <<area, hovered>>
    BY <1>5 DEF UpdateTiles
  <2>3. bucket' # {} => "road" \in flags[area]
    BY <2>1 DEF TilesUpdated
  <2>4. \A t \in Tiles : painted'[t] # Unpainted => painted[t] # Unpainted
    BY <2>1 DEF TilesUpdated
  <2>5. PaintedFromRoad'
    BY <2>2, <2>3, <2>4 DEF BuildsInv, PaintedFromRoad
  <2> QED BY <1>0, <2>2, <2>5 DEF BuildsInv
<1>6. CASE StartCars
  <2>1. UNCHANGED <<area, bucket, painted, hovered>>
    BY <1>6 DEF StartCars
  <2>2. CASE Rest
    <3>1. PaintedFromRoad'
      BY <2>1, <2>2 DEF BuildsInv, PaintedFromRoad
    <3> QED BY <1>0, <2>2, <3>1 DEF BuildsInv
  <2>3. CASE /\ "osm" \in flags[area] /\ "cars_started" \notin flags[area]
             /\ Start("cars", "cars_started")
    <3>1. \A a \in Areas : FlagsFollowTasks(a)' /\ ListedOnce(a)'
      BY <2>3, StartKeepsBuilds
    <3>2. \A a \in Areas : flags[a] \subseteq flags'[a]
      BY <2>3 DEF Start, CityTypeOK
    <3>3. PaintedFromRoad'
      BY <2>1, <3>2 DEF BuildsInv, PaintedFromRoad, CityTypeOK
    <3> QED BY <3>1, <3>3 DEF BuildsInv
  <2> QED BY <1>6, <2>2, <2>3 DEF StartCars
<1>7. CASE RenderFrame
  <2>1. Rest /\ UNCHANGED <<area, bucket>>
    BY <1>7 DEF RenderFrame
  <2>2. \A t \in Tiles : Passed(t) => bucket # {}
    BY DEF Passed
  <2>3. \A t \in Tiles : painted'[t] # Unpainted => Passed(t) \/ painted[t] # Unpainted
    BY <1>7 DEF RenderFrame
  <2>4. hovered' = hovered \/ hovered' = None \/
          (hovered' = area /\ \E t \in Tiles : painted'[t] # Unpainted)
    BY <1>7 DEF RenderFrame, CityTypeOK, Unpainted
  <2>5. PaintedFromRoad'
    BY <2>1, <2>2, <2>3, <2>4, CityAssumption DEF BuildsInv, PaintedFromRoad
  <2> QED BY <1>0, <2>1, <2>5 DEF BuildsInv
<1>8. CASE city_release
  <2>1. Rest /\ UNCHANGED <<area, bucket, painted, hovered>>
    BY <1>8 DEF city_release
  <2>2. PaintedFromRoad'
    BY <2>1 DEF BuildsInv, PaintedFromRoad
  <2> QED BY <1>0, <2>1, <2>2 DEF BuildsInv
<1>9. CASE UNCHANGED cityVars
  <2>1. Rest /\ UNCHANGED <<area, bucket, painted, hovered>>
    BY <1>9 DEF cityVars
  <2>2. PaintedFromRoad'
    BY <2>1 DEF BuildsInv, PaintedFromRoad
  <2> QED BY <1>0, <2>1, <2>2 DEF BuildsInv
<1> QED BY <1>1, <1>2, <1>3, <1>4, <1>5, <1>6, <1>7, <1>8, <1>9 DEF CityNext
(***************************************************************************)
(* With any number of areas, tiles and overlays, and whichever area the    *)
(* user looks at while the tasks of the others end: a build runs on        *)
(* finished sources, is queued once, and only a built road is painted or   *)
(* found under the mouse (city_update in city.cpp, where each task is      *)
(* looked at on its own and the info window checks osm_task_done only).    *)
(***************************************************************************)
THEOREM BuildsReadFinished == CitySpec => []BuildsSeeFinishedData
<1>1. CityInit => BuildsInv
  <2> SUFFICES ASSUME CityInit PROVE BuildsInv
    OBVIOUS
  <2>1. \A a \in Areas : status[a]["road"] = "none" /\ status[a]["cars"] = "none"
    BY DEF CityInit, Kinds
  <2>2. \A a \in Areas : status[a]["osm"] # "none" /\ status[a]["neta"] # "none"
    BY DEF CityInit, Kinds
  <2>3. \A a \in Areas : FlagsFollowTasks(a)
    BY <2>1 DEF CityInit, FlagsFollowTasks
  <2>4. ASSUME NEW a \in Areas PROVE ListedOnce(a)
    <3>1. /\ DOMAIN task_list[a] = 1 .. 2 /\ task_list[a][1] = "neta" /\ task_list[a][2] = "osm"
          /\ flags[a] = {}
      BY DEF CityInit
    <3>2. IsInjective(task_list[a])
      BY <3>1 DEF IsInjective
    <3>3. \A k \in ToSet(task_list[a]) : k \in {"neta", "osm"}
      BY <3>1 DEF ToSet
    <3> QED BY <2>2, <3>1, <3>2, <3>3 DEF ListedOnce
  <2>5. PaintedFromRoad
    BY CityAssumption DEF CityInit, PaintedFromRoad
  <2> QED BY <2>3, <2>4, <2>5 DEF BuildsInv
<1>2. CityTypeOK /\ BuildsInv => BuildsSeeFinishedData
  <2> SUFFICES ASSUME CityTypeOK, BuildsInv, NEW a \in Areas
               PROVE  /\ status[a]["road"] # "none" =>
                           status[a]["osm"] = "success" /\ status[a]["neta"] = "success"
                      /\ status[a]["cars"] # "none" => status[a]["osm"] = "success"
                      /\ hovered = a => status[a]["road"] = "success"
                      /\ a = area /\ bucket # {} => status[a]["road"] = "success"
                      /\ \A k \in Kinds : Cardinality({i \in DOMAIN task_list[a] : task_list[a][i] = k})
                                             <= IF k \in flags[a] THEN 0 ELSE 1
    BY DEF BuildsSeeFinishedData
  <2>1. FlagsFollowTasks(a) /\ ListedOnce(a) /\ PaintedFromRoad
    BY DEF BuildsInv
  <2>2. /\ status[a]["road"] # "none" =>
             status[a]["osm"] = "success" /\ status[a]["neta"] = "success"
        /\ status[a]["cars"] # "none" => status[a]["osm"] = "success"
    BY <2>1 DEF FlagsFollowTasks, Kinds
  <2>3. /\ hovered = a => status[a]["road"] = "success"
        /\ a = area /\ bucket # {} => status[a]["road"] = "success"
    BY <2>1 DEF FlagsFollowTasks, PaintedFromRoad, Kinds
  <2>4. ASSUME NEW k \in Kinds
        PROVE  Cardinality({i \in DOMAIN task_list[a] : task_list[a][i] = k})
                 <= IF k \in flags[a] THEN 0 ELSE 1
    <3> DEFINE S == {i \in DOMAIN task_list[a] : task_list[a][i] = k}
    <3>1. \A i, j \in S : i = j
      BY <2>1 DEF ListedOnce, IsInjective
    <3>2. k \in flags[a] => S = {}
      BY <2>1 DEF ListedOnce, ToSet
    <3> HIDE DEF S
    <3>3. Cardinality(S) \in 0 .. 1 /\ (S = {} => Cardinality(S) = 0)
      BY <3>1, AtMostOne
    <3>4. Cardinality(S) <= IF k \in flags[a] THEN 0 ELSE 1
      BY <3>2, <3>3
    <3> QED BY <3>4 DEF S
  <2> QED BY <2>2, <2>3, <2>4
<1> QED BY <1>1, <1>2, StepKeepsBuilds, CityTyped, PTL DEF CitySpec

-----------------------------------------------------------------------------
(***************************************************************************)
(* The overlays.                                                           *)
(***************************************************************************)
LEMMA StepKeepsOverlays == CityTypeOK /\ OverlaysInv /\ [CityNext]_cityVars => OverlaysInv'
<1> SUFFICES ASSUME CityTypeOK, OverlaysInv, [CityNext]_cityVars PROVE OverlaysInv'
  OBVIOUS
\* Steps that change neither the tiles nor where the frame loop is with them.
<1> DEFINE Rest == /\ UNCHANGED <<area, overlay_option_cur, scheduled, bucket, painted, missed>>
                   /\ AfterTiles' <=> AfterTiles
<1>0. Rest => OverlaysInv'
  BY DEF OverlaysInv, Passed
<1>1. CASE \E a \in Areas, k \in Kinds : TaskEnds(a, k)
  <2>1. PICK a \in Areas, k \in Kinds : TaskEnds(a, k)
    BY <1>1
  <2>2. Rest
    BY <2>1 DEF TaskEnds, AfterTiles
  <2> QED BY <1>0, <2>2
<1>2. CASE FrameBegin
  <2>1. ~AfterTiles /\ ~AfterTiles'
    BY <1>2 DEF FrameBegin, AfterTiles
  <2>2. CASE area' = area
    BY <1>2, <2>1, <2>2 DEF FrameBegin, OverlaysInv
  <2>3. CASE area' # area
    <3>1. \A t \in Tiles : ~scheduled'[t]
      BY <1>2, <2>3 DEF FrameBegin, NewTileset
    <3> QED BY <2>1, <3>1 DEF OverlaysInv
  <2> QED BY <2>2, <2>3
<1>3. CASE PollTask
  <2>1. Rest
    BY <1>3 DEF PollTask, AfterTiles
  <2> QED BY <1>0, <2>1
<1>4. CASE StartRoad
  <2>1. Rest
    BY <1>4 DEF StartRoad, AfterTiles
  <2> QED BY <1>0, <2>1
<1>5. CASE UpdateTiles
  <2>1. PICK show \in SUBSET Tiles, reloaded \in SUBSET Tiles, loaded \in SUBSET Tiles,
             wanted \in SUBSET Tiles, hidden \in SUBSET Tiles :
          TilesUpdated(show, reloaded, loaded, wanted, hidden)
    BY <1>5, UpdateTilesFacts
  <2>2. AfterTiles' /\ ~AfterTiles /\ area' = area
    BY <1>5 DEF UpdateTiles, AfterTiles
  <2>3. wanted # {} => overlay_option_cur'[area] = option
    BY <2>1 DEF TilesUpdated, CityTypeOK
  <2>4. \A p \in bucket' : p[2] = overlay_option_cur'[area]
    BY <2>1, <2>3 DEF TilesUpdated
  <2>5. ASSUME NEW t \in Tiles \ missed', scheduled'[t]
        PROVE  Passed(t)' \/ painted'[t] = overlay_option_cur'[area]
    <3>1. CASE t \in wanted
      <4>1. <<t, option>> \in bucket'
        BY <2>1, <2>5, <3>1 DEF TilesUpdated
      <4> QED BY <4>1 DEF Passed, CityTypeOK
    <3>2. CASE t \notin wanted
      <4>1. scheduled[t] /\ t \notin reloaded /\ t \notin missed /\ t \notin hidden
        BY <2>1, <2>5, <3>2 DEF TilesUpdated
      <4>2. painted'[t] = painted[t] /\ painted[t] = overlay_option_cur[area]
        BY <2>1, <2>2, <4>1 DEF TilesUpdated, OverlaysInv
      <4>3. "road" \notin flags[area] \/ option = overlay_option_cur[area]
        BY <2>1, <3>2, <4>1 DEF TilesUpdated
      <4>4. overlay_option_cur'[area] = overlay_option_cur[area]
        BY <2>1, <4>3 DEF TilesUpdated, CityTypeOK
      <4> QED BY <4>2, <4>4
    <3> QED BY <3>1, <3>2
  <2> QED BY <2>2, <2>4, <2>5 DEF OverlaysInv
<1>6. CASE StartCars
  <2>1. Rest
    BY <1>6 DEF StartCars, AfterTiles
  <2> QED BY <1>0, <2>1
<1>7. CASE RenderFrame
  <2>1. /\ AfterTiles /\ ~AfterTiles'
        /\ UNCHANGED <<area, overlay_option_cur, scheduled, bucket>>
    BY <1>7 DEF RenderFrame, AfterTiles
  <2>2. CASE missed' = missed \cup {t \in Tiles : Passed(t)} /\ painted' = painted
    BY <2>1, <2>2 DEF OverlaysInv
  <2>3. CASE /\ painted' = [t \in Tiles |-> IF Passed(t) THEN (CHOOSE p \in bucket : p[1] = t)[2]
                                             ELSE painted[t]]
             /\ missed' = missed
    <3>1. ASSUME NEW t \in Tiles, Passed(t)
          PROVE  painted'[t] = overlay_option_cur[area]
      <4>1. \E p \in bucket : p[1] = t
        BY <3>1 DEF Passed
      <4>2. (CHOOSE p \in bucket : p[1] = t) \in bucket
        BY <4>1
      <4> QED BY <2>1, <2>3, <3>1, <4>2 DEF OverlaysInv
    <3>2. \A t \in Tiles : ~Passed(t) => painted'[t] = painted[t]
      BY <2>3
    <3> QED BY <2>1, <2>3, <3>1, <3>2 DEF OverlaysInv
  <2> QED BY <1>7, <2>2, <2>3 DEF RenderFrame
<1>8. CASE city_release
  <2>1. Rest
    BY <1>8 DEF city_release, AfterTiles
  <2> QED BY <1>0, <2>1
<1>9. CASE UNCHANGED cityVars
  <2>1. Rest
    BY <1>9 DEF cityVars, AfterTiles
  <2> QED BY <1>0, <2>1
<1> QED BY <1>1, <1>2, <1>3, <1>4, <1>5, <1>6, <1>7, <1>8, <1>9 DEF CityNext

(***************************************************************************)
(* With any number of areas, tiles and overlays: after each frame a tile   *)
(* that is shown has the roads of the city's overlay, unless the overlay   *)
(* changed while the tile was hidden or the tile's pass was dropped with   *)
(* its frame (city_update, draw_road_intersection_compute).                *)
(***************************************************************************)
THEOREM TilesFollowOverlay == CitySpec => []OverlayFollowsOption
<1>1. CityInit => OverlaysInv
  BY DEF CityInit, OverlaysInv, AfterTiles
<1>2. CityTypeOK /\ OverlaysInv => OverlayFollowsOption
  BY DEF CityTypeOK, OverlaysInv, AfterTiles, OverlayFollowsOption
<1> QED BY <1>1, <1>2, StepKeepsOverlays, CityTyped, PTL DEF CitySpec
=============================================================================
