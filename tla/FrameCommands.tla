---------------------------- MODULE FrameCommands ----------------------------
(***************************************************************************)
(* render/vulkan: what a frame records.  A command list is a sequence of   *)
(* accesses to resources and of barriers between them; a draw is checked   *)
(* against the pipeline it is made for.  The assets a frame draws (module  *)
(* Assets) come loaded or not.                                             *)
(***************************************************************************)
EXTENDS Naturals, Sequences, FiniteSets, SequencesExt

CONSTANTS MaxFramesInFlight,
          Images,        \* of the swapchain
          LoadedSets,    \* the assets that may be loaded when a frame is built
          NodesPerList   \* nodes of a non-empty draw list

Slots == 0 .. MaxFramesInFlight - 1

-----------------------------------------------------------------------------
\* Accesses and barriers.  A buffer has one layout.
Use(res, stage, layout, write) ==
  [op |-> "use", res |-> res, stage |-> stage, layout |-> layout, write |-> write]
Barrier(res, old, new, src, dst) ==
  [op |-> "barrier", res |-> res, old |-> old, new |-> new, src |-> src, dst |-> dst]
Read(res, stage) == Use(res, stage, "buffer", FALSE)
Write(res, stage) == Use(res, stage, "buffer", TRUE)
Attach(res) == Use(res, "color_output", "color", TRUE)
BufferBarrier(res, src, dst) == Barrier(res, "buffer", "buffer", src, dst)

\* State commands and draws, of the graphics and the compute bind point.
Bind(pipeline) == [op |-> "bind", pipeline |-> pipeline]
Dynamic(states) == [op |-> "dynamic", states |-> states]
Descriptors(set, bindings) == [op |-> "descriptors", set |-> set, bindings |-> bindings]
PushConstants(stages) == [op |-> "push", stages |-> stages]
VertexBuffers(n) == [op |-> "vertices", count |-> n]
DrawCall == [op |-> "draw"]

-----------------------------------------------------------------------------
\* What each pipeline is created with: its dynamic states, the bindings of its
\* descriptor sets, the stages of its push constants and its vertex bindings.
Graphics(dynamic, push, vertices) ==
  [dynamic |-> dynamic, sets |-> <<1, 1>>, push |-> push, vertices |-> vertices]
Compute(bindings) ==
  [dynamic |-> {}, sets |-> <<bindings>>, push |-> {"compute"}, vertices |-> 0]

car_instance_pipeline_create == Graphics({"viewport", "scissor"}, {"fragment"}, 2)
model_3d_pipeline_create ==
  Graphics({"viewport", "scissor", "depth_write", "depth_compare", "color_write", "depth_bias"},
           {"fragment", "vertex"}, 1)
blend_3d_pipeline_create ==
  Graphics({"viewport", "scissor", "depth_write", "depth_compare", "color_write"},
           {"fragment"}, 1)
road_intersection_pipeline_create == Compute(4)
car_instance_compute_pipeline_create == Compute(3)

-----------------------------------------------------------------------------
\* The draw lists of a frame, from what is loaded.  A tile's compute pass paints
\* its vertices; the cars' one moves the cars onto the tiles.
road_intersection_compute_add(loaded) == {"tile", "road"} \subseteq loaded
agent_instance_render_bucket_add(loaded) == "car" \in loaded
agent_instance_compute_bucket_add(loaded) ==
  agent_instance_render_bucket_add(loaded) /\ "tile" \in loaded
tile_pipeline_add(loaded) == {"tile", "texture"} \subseteq loaded
blend_3d_draw(loaded) == {"building", "texture"} \subseteq loaded

Nodes(listed, Commands(_)) ==
  IF listed THEN FlattenSeq([n \in 1 .. NodesPerList |-> Commands(n)]) ELSE <<>>
BindIf(listed, pipeline) == IF listed THEN <<Bind(pipeline)>> ELSE <<>>

ToVertexInput(res) == BufferBarrier(res, {"compute"}, {"vertex_input"})

road_intersection_compute(loaded) ==
  BindIf(road_intersection_compute_add(loaded), road_intersection_pipeline_create) \o
  Nodes(road_intersection_compute_add(loaded),
        LAMBDA n : <<PushConstants({"compute"}), Descriptors(1, 4),
                     Write(<<"paint", n>>, "compute"), DrawCall, ToVertexInput(<<"paint", n>>)>>)

car_instance_compute(loaded, f) ==
  BindIf(agent_instance_compute_bucket_add(loaded), car_instance_compute_pipeline_create) \o
  Nodes(agent_instance_compute_bucket_add(loaded),
        LAMBDA n : <<PushConstants({"compute"}), Descriptors(1, 3), DrawCall>>) \o
  (IF agent_instance_compute_bucket_add(loaded)
   THEN <<Write(<<"instances", f>>, "compute")>> ELSE <<>>)

\* Mutant: the cars' heights are not waited for.
MutantInstanceBarrier(loaded, f) == <<>>

InstanceBarrier(loaded, f) ==
  Nodes(agent_instance_render_bucket_add(loaded),
        LAMBDA n : <<ToVertexInput(<<"instances", f>>)>>)

Viewport == Dynamic({"viewport", "scissor"})

car_instance_rendering(loaded, f) ==
  <<Viewport, Bind(car_instance_pipeline_create)>> \o
  Nodes(agent_instance_render_bucket_add(loaded),
        LAMBDA n : <<Read(<<"camera", f>>, "vertex_shader"), Descriptors(1, 1),
                     Descriptors(2, 1), PushConstants({"fragment"}), VertexBuffers(2),
                     Read(<<"instances", f>>, "vertex_input"), DrawCall>>)

model_3d_rendering(loaded, f) ==
  <<Bind(model_3d_pipeline_create), Viewport>> \o
  Nodes(tile_pipeline_add(loaded),
        LAMBDA n : <<Read(<<"camera", f>>, "vertex_shader"), Descriptors(1, 1),
                     Dynamic({"depth_bias"}), PushConstants({"vertex", "fragment"}),
                     Descriptors(2, 1), VertexBuffers(1), Read(<<"paint", n>>, "vertex_input"),
                     Dynamic({"depth_compare", "color_write", "depth_write"}), DrawCall>>)

draw_indexed_separate_depth_and_color_calls ==
  <<Dynamic({"depth_compare"})>> \o
  FlattenSeq([pass \in 1 .. 2 |-> <<Dynamic({"depth_write", "color_write"}), DrawCall>>])

blend_3d_rendering(loaded, f) ==
  <<Bind(blend_3d_pipeline_create), Viewport>> \o
  Nodes(blend_3d_draw(loaded),
        LAMBDA n : <<Read(<<"camera", f>>, "vertex_shader"), Descriptors(1, 1),
                     PushConstants({"fragment"}), Descriptors(2, 1), VertexBuffers(1)>> \o
                   draw_indexed_separate_depth_and_color_calls)

swapchain_image_barrier_between_rendering(i) ==
  <<Barrier(<<"swapchain", i>>, "color", "color", {"color_output"}, {"color_output"})>>

\* The attachments of the render pass: without multisampling it draws into the
\* resolve images themselves.
Attachments(samples, i) ==
  LET resolved == <<Attach(<<"swapchain", i>>), Attach(<<"resolve", i>>)>>
      sampled == <<Attach(<<"color">>), Attach(<<"object_id", i>>)>>
  IN (IF samples THEN sampled \o resolved ELSE resolved) \o
     <<Use(<<"depth">>, "depth", "depth", TRUE)>>

PreRender(res) == Barrier(res, "undefined", "color", {}, {"color_output"})

\* The object id under the mouse goes to the slot's readback buffer.
Readback(f, i, mouse) ==
  IF mouse
  THEN <<BufferBarrier(<<"readback", f>>, {"transfer"}, {"transfer"}),
         Use(<<"resolve", i>>, "transfer", "transfer_src", FALSE),
         Write(<<"readback", f>>, "transfer")>>
  ELSE <<>>

command_buffer_record(s) ==
  LET f == s.slot  i == s.image  loaded == s.loaded IN
  <<PreRender(<<"object_id", i>>), PreRender(<<"swapchain", i>>), PreRender(<<"resolve", i>>)>> \o
  road_intersection_compute(loaded) \o car_instance_compute(loaded, f) \o
  InstanceBarrier(loaded, f) \o
  Attachments(s.samples, i) \o
  car_instance_rendering(loaded, f) \o model_3d_rendering(loaded, f) \o
  blend_3d_rendering(loaded, f) \o
  swapchain_image_barrier_between_rendering(i) \o
  <<Attach(<<"swapchain", i>>),
    Barrier(<<"swapchain", i>>, "color", "present", {"color_output"}, {}),
    Barrier(<<"resolve", i>>, "color", "transfer_src", {"color_output"}, {"transfer"})>> \o
  Readback(f, i, s.mouse) \o
  <<Barrier(<<"resolve", i>>, "transfer_src", "color", {"transfer"}, {})>>

-----------------------------------------------------------------------------
\* What Vulkan makes of a command list: the layout of a resource, its last
\* writer, the stages that see what was written, and those that used it since.
Untouched(layout) ==
  [layout |-> layout, writer |-> {}, visible |-> {}, users |-> {}, ok |-> TRUE]

Access(state, c) ==
  IF c.op = "use"
  THEN [state EXCEPT
          !.ok = /\ @ /\ state.layout = c.layout
                 /\ state.writer = {} \/ c.stage \in state.visible
                 /\ c.write => state.users \subseteq {c.stage},
          !.users = @ \cup {c.stage},
          !.writer = IF c.write THEN {c.stage} ELSE @,
          !.visible = IF c.write THEN {} ELSE @]
  ELSE LET covered == IF state.users # {} THEN state.users \subseteq c.src
                      ELSE state.writer = {} \/ state.visible \cap c.src # {}
           transition == c.old # c.new
       IN [state EXCEPT
             !.ok = /\ @ /\ c.old \in {"undefined", state.layout}
                    /\ transition => covered,
             !.layout = c.new,
             !.writer = IF transition THEN {"transition"} ELSE @,
             !.users = IF covered THEN {} ELSE @,
             !.visible = IF transition THEN c.dst
                         ELSE IF covered THEN @ \cup c.dst ELSE @]

OnResource(c) == c.op \in {"use", "barrier"}
Resources(commands) == {c.res : c \in {d \in ToSet(commands) : OnResource(d)}}
IsBuffer(res) == res[1] \in {"paint", "instances", "camera", "readback"}
Final(commands, res) ==
  FoldLeft(Access, Untouched(IF IsBuffer(res) THEN "buffer" ELSE "undefined"),
           SelectSeq(commands, LAMBDA c : OnResource(c) /\ c.res = res))
Written(commands) ==
  {c.res : c \in {d \in ToSet(commands) : OnResource(d) /\ (d.op = "barrier" \/ d.write)}}

\* A bound pipeline keeps the states it has dynamic, and the descriptor sets and
\* push constants if its layout is the one before.
Unbound == [pipeline |-> Compute(0), dynamic |-> {}, sets |-> <<0, 0>>, push |-> {},
            vertices |-> 0, ok |-> TRUE]

Complete(d) ==
  /\ d.pipeline.dynamic \subseteq d.dynamic
  /\ \A k \in DOMAIN d.pipeline.sets : d.sets[k] = d.pipeline.sets[k]
  /\ d.push = d.pipeline.push
  /\ d.vertices >= d.pipeline.vertices

DrawStep(d, c) ==
  CASE c.op = "bind" ->
         LET same == /\ c.pipeline.sets = d.pipeline.sets
                     /\ c.pipeline.push = d.pipeline.push
         IN [d EXCEPT !.pipeline = c.pipeline,
                      !.dynamic = @ \cap c.pipeline.dynamic,
                      !.sets = IF same THEN @ ELSE <<0, 0>>,
                      !.push = IF same THEN @ ELSE {}]
    [] c.op = "dynamic" -> [d EXCEPT !.dynamic = @ \cup c.states]
    [] c.op = "descriptors" -> [d EXCEPT !.sets[c.set] = c.bindings]
    [] c.op = "push" -> [d EXCEPT !.push = c.stages]
    [] c.op = "vertices" -> [d EXCEPT !.vertices = c.count]
    [] c.op = "draw" -> [d EXCEPT !.ok = @ /\ Complete(d)]
    [] OTHER -> d

DrawsComplete(commands) == FoldLeft(DrawStep, Unbound, commands).ok

-----------------------------------------------------------------------------
\* Left unordered by the code: the multisampled color image and the depth image,
\* which the frames in flight share and nothing brings into their layout, and the
\* paint of a tile, which a frame may renew while the one before draws it.
Shared == {<<"color">>, <<"depth">>}
Unordered == Shared \cup {<<"paint", n>> : n \in 1 .. NodesPerList}

SoundlyRecorded(commands, i) ==
  /\ \A res \in Resources(commands) \ Shared : Final(commands, res).ok
  /\ Final(commands, <<"swapchain", i>>).layout = "present"
  /\ DrawsComplete(commands)

\* What a frame may record: whether it is sound, and the resources it uses.
Recordings ==
  {LET commands == command_buffer_record(s)
   IN [slot |-> s.slot, image |-> s.image, samples |-> s.samples,
       sound |-> SoundlyRecorded(commands, s.image),
       touched |-> Resources(commands), changed |-> Written(commands)] :
   s \in [slot : Slots, image : Images, samples : BOOLEAN, loaded : LoadedSets, mouse : BOOLEAN]}
=============================================================================
