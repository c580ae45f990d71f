--------------------------------- MODULE City ----------------------------------
(***************************************************************************)
(* city/city.cpp under the frame loop of entrypoint.cpp: every area loads  *)
(* its OSM network and NetAScore file in the background, but only the area *)
(* the user looks at has a tileset and has its tasks looked at.  From both *)
(* sources a task builds the roads, from the network another the cars; the *)
(* roads are painted onto the tiles by a compute pass that a tile gets     *)
(* once, and again when the user picks another overlay.                    *)
(*                                                                         *)
(* AsyncHttp and ThreadPool model how a task runs, Cache where its answer  *)
(* comes from, Assets how a buffer is loaded.                              *)
(***************************************************************************)
EXTENDS Integers, Sequences, FiniteSets, SequencesExt

CONSTANTS Areas,
          Tiles,   \* tiles of a tileset that are loaded
          Options  \* road_overlay_option; 0 paints nothing

None == "none"
ASSUME CityAssumption == 0 \in Options /\ Options \subseteq Nat /\ None \notin Areas

VARIABLES pc,        \* where the frame loop is
          area,      \* the area looked at, which has the tileset
          option,    \* neta_overlay_option
          task_list, \* each city's tasks not known to be done
          cur,       \* the task the loop over task_list looks at next
          status,    \* each task: "none", "queued", "success", "error"
          flags,     \* each city's *_done and *_started
          overlay_option_cur,
          shown,     \* tile_to_show
          scheduled, \* compute_scheduled of each tile
          bucket,    \* the compute passes of this frame, as <<tile, option>>
          painted,   \* the overlay in each tile's buffer
          hovered,   \* the city whose road was under the mouse, or none
          missed     \* tiles that were hidden when the overlay changed or whose
                     \* compute pass was dropped with its frame

cityVars == <<pc, area, option, task_list, cur, status, flags, overlay_option_cur, shown,
              scheduled, bucket, painted, hovered, missed>>

Kinds == {"osm", "neta", "road", "cars"}
Flags == Kinds \cup {"road_started", "cars_started"}
Unpainted == -1

NewTileset ==
  /\ shown' = {} /\ bucket' = {} /\ missed' = {}
  /\ scheduled' = [t \in Tiles |-> FALSE]
  /\ painted' = [t \in Tiles |-> Unpainted]

\* city_init and city_build for every area, and city_area_streaming_begin for the
\* first; a NetAScore file from the cache needs no task to run.
CityInit ==
  /\ pc = "frame"
  /\ area \in Areas /\ option = 0
  /\ \E cached \in SUBSET Areas :
       /\ status = [a \in Areas |-> [k \in Kinds |->
            IF k = "osm" \/ (k = "neta" /\ a \notin cached) THEN "queued"
            ELSE IF k = "neta" THEN "success" ELSE "none"]]
  /\ task_list = [a \in Areas |-> <<"neta", "osm">>]
  /\ cur = 1
  /\ flags = [a \in Areas |-> {}]
  /\ overlay_option_cur = [a \in Areas |-> 0]
  /\ shown = {} /\ bucket = {} /\ missed = {}
  /\ scheduled = [t \in Tiles |-> FALSE]
  /\ painted = [t \in Tiles |-> Unpainted]
  /\ hovered = None

\* A worker ends a task; NetAScore's and OSM's may fail.
TaskEnds(a, k) ==
  /\ pc # "ended" /\ status[a][k] = "queued"
  /\ \E s \in IF k \in {"osm", "neta"} THEN {"success", "error"} ELSE {"success"} :
       status' = [status EXCEPT ![a][k] = s]
  /\ UNCHANGED <<pc, area, option, task_list, cur, flags, overlay_option_cur, shown, scheduled,
                 bucket, painted, hovered, missed>>

\* render::new_frame clears the buckets; the user picks an overlay or an area,
\* whose tileset takes the place of the other's (city_area_streaming_end, _begin).
FrameBegin ==
  /\ pc = "frame"
  /\ option' \in Options
  /\ area' \in Areas
  /\ IF area' = area THEN bucket' = {} /\ UNCHANGED <<shown, missed, scheduled, painted>>
                     ELSE NewTileset
  /\ cur' = 1
  /\ pc' = "poll"
  /\ UNCHANGED <<task_list, status, flags, overlay_option_cur, hovered>>

\* city_update, the loop over task_list: async_task_is_done of one task.
PollTask ==
  LET list == task_list[area]
      k == list[cur]
  IN  /\ pc = "poll" /\ cur <= Len(list)
      /\ IF status[area][k] \in {"success", "error"}
           THEN /\ task_list' = [task_list EXCEPT ![area] = RemoveAt(@, cur)]
                /\ flags' = IF status[area][k] = "success"
                              THEN [flags EXCEPT ![area] = @ \cup {k}] ELSE flags
                /\ UNCHANGED cur
           ELSE /\ cur' = cur + 1
                /\ UNCHANGED <<task_list, flags>>
      /\ UNCHANGED <<pc, area, option, status, overlay_option_cur, shown, scheduled, bucket,
                     painted, hovered, missed>>

\* The task k is queued and appended to the list.
Start(k, started) ==
  /\ flags' = [flags EXCEPT ![area] = @ \cup {started}]
  /\ status' = [status EXCEPT ![area][k] = "queued"]
  /\ task_list' = [task_list EXCEPT ![area] = Append(@, k)]

\* Mutant: the road does not wait for the NetAScore file.
MutantSourcesReady(f) == "osm" \in f

SourcesReady(f) == {"neta", "osm"} \subseteq f

\* ... the road build, once, when both sources are there.
StartRoad ==
  /\ pc = "poll" /\ cur > Len(task_list[area])
  /\ IF SourcesReady(flags[area]) /\ "road_started" \notin flags[area]
       THEN Start("road", "road_started")
       ELSE UNCHANGED <<flags, status, task_list>>
  /\ pc' = "tiles"
  /\ UNCHANGED <<area, option, cur, overlay_option_cur, shown, scheduled, bucket, painted,
                 hovered, missed>>

\* Mutant: a tile gets its pass once.
MutantWantsPass(before, changed) == ~before

WantsPass(before, changed) == ~before \/ changed

\* ... the tiles to show, and the compute pass of those that want one, if their
\* buffers and the road's are loaded (draw_road_intersection_compute).  A tile the
\* tileset has freed and loaded again starts afresh.
UpdateTiles ==
  /\ pc = "tiles"
  /\ \E show \in SUBSET Tiles, reloaded \in SUBSET (Tiles \ shown), loaded \in SUBSET Tiles :
       LET changed == option # overlay_option_cur[area]
           done == "road" \in flags[area]
           before == [t \in Tiles |-> scheduled[t] /\ t \notin reloaded]
           wanted == {t \in show : done /\ WantsPass(before[t], changed)}
       IN  /\ shown' = show
           /\ scheduled' = [t \in Tiles |-> IF t \in wanted THEN t \in loaded ELSE before[t]]
           /\ bucket' = {<<t, option>> : t \in wanted \cap loaded}
           /\ painted' = [t \in Tiles |-> IF t \in reloaded THEN Unpainted ELSE painted[t]]
           /\ missed' = ((missed \ reloaded) \ wanted)
                          \cup {t \in Tiles \ show : done /\ changed /\ before[t]}
           /\ overlay_option_cur' =
                IF done THEN [overlay_option_cur EXCEPT ![area] = option] ELSE overlay_option_cur
  /\ pc' = "cars"
  /\ UNCHANGED <<area, option, task_list, cur, status, flags, hovered>>

\* ... the car simulation, once, when the network is there.
StartCars ==
  /\ pc = "cars"
  /\ IF "osm" \in flags[area] /\ "cars_started" \notin flags[area]
       THEN Start("cars", "cars_started")
       ELSE UNCHANGED <<flags, status, task_list>>
  /\ pc' = "render"
  /\ UNCHANGED <<area, option, cur, overlay_option_cur, shown, scheduled, bucket, painted,
                 hovered, missed>>

Passed(t) == \E o \in Options : <<t, o>> \in bucket

\* render_frame: returns early when the swapchain has to be made again, and the
\* buckets are cleared by the next frame; otherwise the passes run, and the object
\* under the mouse may be a painted road.
RenderFrame ==
  /\ pc = "render"
  /\ \/ /\ missed' = missed \cup {t \in Tiles : Passed(t)}
        /\ UNCHANGED <<painted, hovered>>
     \/ /\ painted' = [t \in Tiles |-> IF Passed(t) THEN (CHOOSE p \in bucket : p[1] = t)[2]
                                       ELSE painted[t]]
        /\ hovered' \in {None} \cup (IF \E t \in shown : painted'[t] > 0
                                       THEN {area} ELSE {})
        /\ UNCHANGED missed
  /\ pc' \in {"frame", "stopping"}
  /\ UNCHANGED <<area, option, task_list, cur, status, flags, overlay_option_cur, shown,
                 scheduled, bucket>>

\* The end of the loop: no task is left when city_release frees what they use.
city_release ==
  /\ pc = "stopping"
  /\ \A a \in Areas, k \in Kinds : status[a][k] # "queued"
  /\ pc' = "ended"
  /\ UNCHANGED <<area, option, task_list, cur, status, flags, overlay_option_cur, shown,
                 scheduled, bucket, painted, hovered, missed>>

CityNext ==
  \/ \E a \in Areas, k \in Kinds : TaskEnds(a, k)
  \/ FrameBegin \/ PollTask \/ StartRoad \/ UpdateTiles \/ StartCars \/ RenderFrame
  \/ city_release

CitySpec == CityInit /\ [][CityNext]_cityVars

-----------------------------------------------------------------------------
\* What a task or the frame loop reads is finished, although the tasks of an area
\* go on while the user looks at another and each is looked at on its own: the
\* road and car builds read the sources, the paint passes the road's buffers, and
\* the info window (city_update) reads road_info_map of a hovered road with only
\* osm_task_done checked.  A build is never started twice.
BuildsSeeFinishedData ==
  \A a \in Areas :
    /\ status[a]["road"] # "none" => status[a]["osm"] = "success" /\ status[a]["neta"] = "success"
    /\ status[a]["cars"] # "none" => status[a]["osm"] = "success"
    /\ hovered = a => status[a]["road"] = "success"
    /\ a = area /\ bucket # {} => status[a]["road"] = "success"
    /\ \A k \in Kinds : Cardinality({i \in DOMAIN task_list[a] : task_list[a][i] = k})
                          <= IF k \in flags[a] THEN 0 ELSE 1

\* After a frame the roads on a tile that is shown are those of the overlay the
\* city has, however the option, the area and the tiles shown changed before the
\* road was built (city_update).  Two cases break this and are left out by missed:
\* the overlay changed while the tile was hidden, or its pass was dropped with a
\* frame; the code never paints such a tile again.
OverlayFollowsOption ==
  pc = "frame" => \A t \in shown \ missed :
                    scheduled[t] => painted[t] = overlay_option_cur[area]
=============================================================================
