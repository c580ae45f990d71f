---------------------------- MODULE MCComponents ----------------------------
(***************************************************************************)
(* The data structures of base/ and async/, the components of module       *)
(* Components, the areas under the frame loop (City), the machines a       *)
(* device is chosen on, and the city's data, each an instance of its own,  *)
(* checked in one run: every state belongs to the system named by system,  *)
(* whose steps are the only ones, while the others stay as they start.     *)
(* The systems share no state.                                             *)
(*                                                                         *)
(* Inputs are chosen for the cases that meet.  MpmcQueue: a ring requested *)
(* with size 0, 1 or 3 grows at least once with the read position at any   *)
(* slot.  Arena: pushes that fit a block and one that needs a block of its *)
(* own.  Allocator: objects that meet the destructor records in the middle *)
(* of the block.  Frames: a driver that makes two images or three where    *)
(* two are asked for, and two frames in flight.  City's data: machines of  *)
(* up to two devices that lack one thing or another, overlapping road      *)
(* quads on two levels of the tree, outlines with concave and collinear    *)
(* corners, ways that share nodes, pictures with uneven halves, texts that *)
(* contain what is searched for more than once.                            *)
(***************************************************************************)
EXTENDS MpmcQueue, ArrayResourcePool, SpmcQueue, MinHeap, City, Components, TLC

VARIABLES system,
          roads, center, bvh, rd_phase, rd_vertex,
          strip_ways, corner_buffer, strip_vertices, strip_indices,
          outlines, mesh,
          doc, neta_features, net_state, network, road_info_map, cars,
          func, request, neta_queue, neta_listed, tries, starts, polls, saved,
          agents_active, agent_map, frame_count, drawn, heard, agents_aborted,
          model, gltf_tile, root, node, stack, visited, primitives, sim, parts, gl_stage,
          picture, up_commands, up_levels, misused, up_texture, up_slot, up_instances, retired, needed, up_frames,
          text, needle, env_files, environ, text_result,
          os_windows, file, before, call, calls, os_tree, visit, good,
          answer, at_element, road_nodes, way_buffer, json

NeededExtensions ==
  [instance |-> {"surface"}, layers |-> {"validation"}, device |-> {"swapchain", "dynamic"}]

AllFeatures == {"samplerAnisotropy", "shaderInt64", "timelineSemaphore", "dynamicRendering"}

\* What a device may differ in, one thing from the usual device at a time.
UsualDevice ==
  [families |-> <<{"graphics", "present"}>>, extensions |-> {"swapchain", "dynamic", "other"},
   formats |-> <<"unorm", "srgb">>, modes |-> {"fifo", "mailbox"}, features |-> AllFeatures,
   color_samples |-> {1, 4, 8}, depth_samples |-> {1, 4, 8},
   attachments |-> {"d32", "r32g32", "rgba8_blit"},
   extent |-> [current |-> 3, min |-> 2, max |-> 4]]
DeviceKinds ==
  {UsualDevice}
  \cup {[UsualDevice EXCEPT !.families = f] :
          f \in {<<{"graphics"}, {"present"}, {"graphics", "present"}>>,
                 <<{"present"}, {}, {"graphics"}>>, <<{"graphics"}>>}}
  \cup {[UsualDevice EXCEPT !.extensions = {"swapchain", "other"}],
        [UsualDevice EXCEPT !.formats = <<"unorm">>], [UsualDevice EXCEPT !.formats = <<>>],
        [UsualDevice EXCEPT !.modes = {"fifo"}],
        [UsualDevice EXCEPT !.color_samples = {1, 2, 4}, !.depth_samples = {1, 2}],
        [UsualDevice EXCEPT !.attachments = {"d24s8", "d16", "r32g32", "rgba8_blit"}],
        [UsualDevice EXCEPT !.attachments = {"d32", "rgba8_blit"}],
        [UsualDevice EXCEPT !.extent.current = 65535]}
  \cup {[UsualDevice EXCEPT !.features = AllFeatures \ {f}] : f \in AllFeatures}

UsualMachine == [extensions |-> {"surface"}, layers |-> {"validation"}, devices |-> <<UsualDevice>>]

MCMachines ==
  [extensions : {{"surface"}, {"surface", "debug_utils"}}, layers : {{"validation"}, {}},
   devices : {<<>>} \cup {<<d>> : d \in DeviceKinds} \cup {<<d, e>> : d, e \in DeviceKinds}]

Box(west, south, east, north) ==
  <<<<west, north>>, <<east, north>>, <<east, south>>, <<west, south>>>>
Roads == INSTANCE RoadIntersection WITH
           Quads <- {Box(0, 0, 2, 2), Box(1, 1, 5, 3), Box(3, 0, 5, 6),
                     <<<<0, 3>>, <<3, 0>>, <<6, 3>>, <<3, 6>>>>},
           MaxRoads <- 3, LeafMax <- 1, StackSlots <- 3,
           Faces <- {{1, 2, 3}, {2, 3, 4}}, Centers <- {<<1, 1>>, <<4, 2>>, <<2, 2>>, <<4, 5>>},
           phase <- rd_phase, vertex <- rd_vertex

\* Ways of three nodes on points that lie along an axis or not, and pairs of short ones.
GridPoints == {<<0, 0>>, <<1, 2>>, <<2, 1>>, <<0, 4>>, <<3, 4>>}
LongWays == [nodes : [1 .. 3 -> GridPoints], width : {-3, 0, 6}]
ShortWays == {[nodes |-> n, width |-> 6] : n \in {<<<<0, 0>>>>, <<<<1, 2>>, <<0, 0>>>>, <<<<1, 2>>, <<3, 4>>>>}}
Strips == INSTANCE RoadStrips WITH
            WayLists <- {<<w>> : w \in LongWays} \cup {<<v, w>> : v, w \in ShortWays},
            NoTag <- -3, DefaultWidth <- 10, ways <- strip_ways, vertices <- strip_vertices, indices <- strip_indices

\* The corners of a square grid in any order, and shapes with dents and straight walls.
MCOutlines ==
  {<<a, b, c, d>> : a \in {<<0, 0>>}, b, c, d \in {<<0, 2>>, <<1, 1>>, <<2, 0>>}}
  \cup {<<<<0, 0>>, <<0, 1>>, <<0, 2>>, <<2, 2>>, <<2, 0>>>>,
        <<<<0, 0>>, <<2, 0>>, <<1, 1>>, <<2, 2>>, <<0, 2>>>>,
        <<<<0, 0>>, <<0, 2>>, <<1, 2>>, <<1, 1>>, <<2, 1>>, <<2, 0>>>>,
        <<<<0, 0>>, <<2, 0>>, <<2, 1>>, <<1, 1>>, <<1, 2>>, <<0, 2>>>>}
Buildings == INSTANCE BuildingMesh WITH Outlines <- MCOutlines, MaxWays <- 2, ways <- outlines

\* Two ways that share nodes, in part or in the other direction; a node the answer lacks.
FirstWays == [id : {1}, nodes : {<<1, 2, 3>>, <<2, 3, 2>>, <<2>>},
              tags : {{"highway"}, {"building", "highway"}}]
SecondWays == [id : {2}, nodes : {<<3, 2, 1>>, <<1, 3, 4, 1>>}, tags : {{"highway"}, {"building"}}]
MCDocuments ==
  [nodes : {1 .. 4}, broken : {FALSE},
   ways : {<<w>> : w \in FirstWays} \cup {<<v, w>> : v \in FirstWays, w \in SecondWays}]
  \cup [nodes : {1 .. 3}, broken : BOOLEAN, ways : {<<>>} \cup {<<w>> : w \in SecondWays}]
MCFeatures ==
  [osm_id : {1, 2, 3}, coords : {<<3>>, <<2, 4>>}, flaw : {"none"}]
  \cup [osm_id : {1}, coords : {<<1>>},
        flaw : {"none", "null_osm_id", "no_osm_id", "null_index", "no_index", "no_geometry"}]
Osm == INSTANCE OsmNetwork WITH
         Documents <- MCDocuments,
         FeatureLists <- {<<f>> : f \in MCFeatures} \cup {<<f, g>> : f, g \in MCFeatures},
         BBox <- 2 .. 4, AgentCount <- 1, state <- net_state, features <- neta_features

Neta == INSTANCE Netascore WITH MaxHttp <- 1, MaxTask <- 1, MaxPolls <- 1, queue <- neta_queue, listed <- neta_listed
Traffic == INSTANCE Agents WITH
             Ids <- {1, 2, 3}, Places <- 1 .. 3, Still <- 1, MaxAgents <- 2, FrameRate <- 1,
             MaxFrames <- 4, aborted <- agents_aborted

\* Trees of five nodes with none to two primitives each; tiles of three primitives.
Primitive(heights, image) ==
  [heights |-> heights, indices |-> [i \in DOMAIN heights |-> Len(heights) - i], tex |-> image]
NodePrims == {<<>>, <<Primitive(<<-1, 2>>, 1)>>, <<Primitive(<<3>>, 2), Primitive(<<0, 5>>, 1)>>,
              <<Primitive(<<1>>, 0)>>}
NodeTrees == {[roots |-> <<1>>, children |-> <<<<2, 5>>, <<3, 4>>, <<>>, <<>>, <<>>>>],
              [roots |-> <<1, 4>>, children |-> <<<<2>>, <<3>>, <<>>, <<5>>, <<>>>>]}
MCModels == {[roots |-> t.roots, children |-> t.children, textures |-> 2,
              prims |-> <<a, <<>>, b, <<>>, c>>] : t \in NodeTrees, a, b, c \in NodePrims}
TilePrimitive(n, places, material) ==
  [count |-> n, indices |-> places, material |-> material, indexed |-> TRUE, overlay |-> FALSE]
MCPrimitives == {TilePrimitive(2, <<1, 0, 1>>, 1), TilePrimitive(3, <<2, 0>>, 2),
                 [TilePrimitive(1, <<>>, 1) EXCEPT !.indexed = FALSE],
                 TilePrimitive(0, <<0>>, 1), TilePrimitive(2, <<1>>, 0)}
ImageOf(width, channels, bytes) ==
  [width |-> width, height |-> 1, channels |-> channels, bytes |-> bytes, data |-> <<1, 2, 3, 4, 5, 6>>]
MCTiles ==
  [nodes : {1, 2}, meshes : {<<<<a>>, <<b, c>>>> : a, b, c \in MCPrimitives}, materials : {2},
   image : {ImageOf(2, 3, 1)}]
  \cup [nodes : {1}, meshes : {<<>>}, materials : {1},
        image : {ImageOf(w, c, b) : w \in {0, 2}, c \in 1 .. 5, b \in {1, 2}}]
Gltf == INSTANCE GltfModels WITH Models <- MCModels, Tiles <- MCTiles, cur <- node, tile <- gltf_tile, stage <- gl_stage

Pictures == [kind : {"stb"}, width : {1, 5}, height : {1, 4}, levels : {0}]
            \cup {[kind |-> "ktx2", width |-> 6, height |-> 3, levels |-> n] : n \in {1, 3}}
            \cup {[kind |-> k, width |-> 1, height |-> 1, levels |-> 0] : k \in {"null", "broken"}}
Uploads == INSTANCE GpuUploads WITH
             Pictures <- Pictures, Requests <- {0, 1, 2}, FrameSlots <- 2, MaxFrames <- 4,
             frames <- up_frames, levels <- up_levels, instances <- up_instances, texture <- up_texture, slot <- up_slot, commands <- up_commands

\* Texts of up to three characters, and .env files with trimmed, blank and long-named lines.
NoEnv == <<<<"no file">>, <<"no file">>>>
EnvTexts == {<<"no file">>, <<"k", "=", "1", "\n", "n", "=", "2">>,
             <<" ", "k", "=", "3", "\r", "\n", "\r", "\n", "k", "2", "=", "4", "\n">>,
             <<"n", "=", "k", "\n", "\n", "k", "=", "=", "\n">>}
Strings == INSTANCE Text WITH
             Texts <- UNION {[1 .. n -> {"a", "A", "/", "\n"}] : n \in 0 .. 3}
                      \cup {<<"a", "/", "a", "A">>, <<"\\", "a", "\r", "\"", "\t">>},
             Needles <- {<<>>, <<"a">>, <<"A">>, <<"/">>, <<"/", "a">>, <<"A", "a">>},
             EnvFiles <- EnvTexts,
             Environs <- {<<>>, <<<<"n", "=">>, <<"k", "=", "5">>>>, <<<<"k", "2", "=">>>>,
                          <<<<"k", "=", "6">>, <<"k", "=", "7">>>>},
             Depth <- 2, Key <- <<"k">>, result <- text_result

\* A folder with a file, and a file, a folder or a link beside it; a link next to the folder.
Folders == {<<>>} \cup {(<<"a">> :> "folder") @@ (<<"a", "b">> :> kind) @@ (<<"a", "c">> :> "file")
                          @@ (<<"d">> :> "link") : kind \in {"file", "folder", "link"}}
OsFile == INSTANCE OsFiles WITH
            Contents <- {<<>>, <<"x">>, <<"p", "q", "r">>}, Trees <- Folders, MaxCalls <- 1,
            windows <- os_windows, tree <- os_tree

Elements ==
  [type : {"node"}, id : {1, 3}, nodes : {<<>>}, flaw : {"none"}]
  \cup [type : {"node"}, id : {2}, nodes : {<<>>}, flaw : {"none", "incomplete", "untyped", "broken"}]
  \cup [type : {"way"}, id : {7}, nodes : {<<1, 2>>}, flaw : {"none", "incomplete"}]
  \cup [type : {"relation"}, id : {9}, nodes : {<<>>}, flaw : {"incomplete"}]
Reader == INSTANCE OsmJson WITH
            Answers <- UNION {[1 .. n -> Elements] : n \in 0 .. 3}, Slots <- 2, next <- at_element

roadVars == <<roads, center, bvh, rd_phase, rd_vertex>>
stripVars == <<strip_ways, corner_buffer, strip_vertices, strip_indices>>
buildingVars == <<outlines, mesh>>
networkVars == <<doc, neta_features, net_state, network, road_info_map, cars>>
netaVars == <<func, request, neta_queue, neta_listed, tries, starts, polls, saved>>
trafficVars == <<agents_active, agent_map, frame_count, drawn, heard, agents_aborted>>
gltfVars == <<model, gltf_tile, root, node, stack, visited, primitives, sim, parts, gl_stage>>
uploadVars == <<picture, up_commands, up_levels, misused, up_texture, up_slot, up_instances, retired, needed,
                up_frames>>
textVars == <<text, needle, env_files, environ, text_result>>
fileVars == <<os_windows, file, before, call, calls, os_tree, visit, good>>
readerVars == <<answer, at_element, road_nodes, way_buffer, json>>
contentVars == <<cityVars, gpuVars, roadVars, stripVars, buildingVars, networkVars, netaVars,
                 trafficVars, gltfVars, uploadVars, textVars, fileVars, readerVars>>

ContentSystems == {"city", "device", "roads", "strips", "buildings", "network", "neta", "traffic",
                   "gltf", "uploads", "text", "files", "reader"}

\* A variable of a system whose turn it is not.
Asleep(v) == v = "asleep"

\* An input of one kind is looked at with one of the other kind.
OneModel == CHOOSE x \in MCModels : TRUE
OneTile == CHOOSE x \in MCTiles : TRUE

ContentInit ==
  /\ CityInit
  /\ system # "city" => area = CHOOSE a \in Areas : TRUE
  /\ system # "city" => \A a \in Areas : status[a]["neta"] = "queued"
  /\ Gpu!DeviceInit /\ (system # "device" => machine = UsualMachine)
  /\ IF system = "roads" THEN Roads!RoadsInit
     ELSE Asleep(roads) /\ Asleep(center) /\ Asleep(bvh) /\ Asleep(rd_phase) /\ Asleep(rd_vertex)
  /\ IF system = "strips" THEN Strips!StripsInit
     ELSE Asleep(strip_ways) /\ Asleep(corner_buffer) /\ Asleep(strip_vertices) /\ Asleep(strip_indices)
  /\ IF system = "buildings" THEN Buildings!BuildingsInit ELSE Asleep(outlines) /\ Asleep(mesh)
  /\ IF system = "network" THEN Osm!OsmInit
     ELSE Asleep(doc) /\ Asleep(neta_features) /\ Asleep(net_state) /\ Asleep(network)
            /\ Asleep(road_info_map) /\ Asleep(cars)
  /\ IF system = "neta" THEN Neta!NetaInit
     ELSE Asleep(func) /\ Asleep(request) /\ Asleep(neta_queue) /\ Asleep(neta_listed)
            /\ Asleep(tries) /\ Asleep(starts) /\ Asleep(polls) /\ Asleep(saved)
  /\ IF system = "traffic" THEN Traffic!AgentsInit
     ELSE Asleep(agents_active) /\ Asleep(agent_map) /\ Asleep(frame_count) /\ Asleep(drawn)
            /\ Asleep(heard) /\ Asleep(agents_aborted)
  /\ IF system = "gltf"
       THEN /\ \/ model \in MCModels /\ gltf_tile = OneTile
               \/ model = OneModel /\ gltf_tile \in MCTiles
            /\ Gltf!GltfInit
     ELSE Asleep(model) /\ Asleep(gltf_tile) /\ Asleep(root) /\ Asleep(node) /\ Asleep(stack)
            /\ Asleep(visited) /\ Asleep(primitives) /\ Asleep(sim) /\ Asleep(parts) /\ Asleep(gl_stage)
  /\ IF system = "uploads" THEN Uploads!UploadsInit
     ELSE Asleep(picture) /\ Asleep(up_commands) /\ Asleep(up_levels) /\ Asleep(misused)
            /\ Asleep(up_texture) /\ Asleep(up_slot) /\ Asleep(up_instances) /\ Asleep(retired)
            /\ Asleep(needed) /\ Asleep(up_frames)
  /\ IF system = "text"
       THEN /\ \/ needle = <<>> /\ text = <<>>
               \/ env_files = NoEnv /\ environ = <<>>
            /\ Strings!TextInit
     ELSE Asleep(text) /\ Asleep(needle) /\ Asleep(env_files) /\ Asleep(environ) /\ Asleep(text_result)
  /\ IF system = "files" THEN (os_tree = <<>> \/ file = <<>>) /\ OsFile!FilesInit
     ELSE Asleep(os_windows) /\ Asleep(file) /\ Asleep(before) /\ Asleep(call) /\ Asleep(calls)
            /\ Asleep(os_tree) /\ Asleep(visit) /\ Asleep(good)
  /\ IF system = "reader" THEN Reader!JsonInit
     ELSE Asleep(answer) /\ Asleep(at_element) /\ Asleep(road_nodes) /\ Asleep(way_buffer) /\ Asleep(json)

ContentOthers ==
  /\ IF system = "city" THEN TRUE ELSE UNCHANGED cityVars
  /\ IF system = "device" THEN TRUE ELSE UNCHANGED gpuVars
  /\ IF system = "roads" THEN TRUE ELSE UNCHANGED roadVars
  /\ IF system = "strips" THEN TRUE ELSE UNCHANGED stripVars
  /\ IF system = "buildings" THEN TRUE ELSE UNCHANGED buildingVars
  /\ IF system = "network" THEN TRUE ELSE UNCHANGED networkVars
  /\ IF system = "neta" THEN TRUE ELSE UNCHANGED netaVars
  /\ IF system = "traffic" THEN TRUE ELSE UNCHANGED trafficVars
  /\ IF system = "gltf" THEN TRUE ELSE UNCHANGED gltfVars
  /\ IF system = "uploads" THEN TRUE ELSE UNCHANGED uploadVars
  /\ IF system = "text" THEN TRUE ELSE UNCHANGED textVars
  /\ IF system = "files" THEN TRUE ELSE UNCHANGED fileVars
  /\ IF system = "reader" THEN TRUE ELSE UNCHANGED readerVars

ContentNext ==
  \/ system = "city" /\ CityNext
  \/ system = "device" /\ Gpu!DeviceNext
  \/ system = "roads" /\ Roads!RoadsNext
  \/ system = "strips" /\ Strips!BuildEdge
  \/ system = "buildings" /\ Buildings!BuildingsNext
  \/ system = "network" /\ Osm!OsmNext
  \/ system = "neta" /\ Neta!NetaNext
  \/ system = "traffic" /\ Traffic!AgentsNext
  \/ system = "gltf" /\ Gltf!GltfNext
  \/ system = "uploads" /\ Uploads!UploadsNext
  \/ system = "text" /\ Strings!TextNext
  \/ system = "files" /\ OsFile!FilesNext
  \/ system = "reader" /\ Reader!JsonNext

-----------------------------------------------------------------------------
\* The content of a city is what its sources describe: each road meets its faces and
\* its own next edge, each building is closed, each car stands on a road, each edge has
\* the nearest values, each file is of its job, each agent is where it was last heard
\* of, and models and tiles have their triangles.
CityContentSound ==
  /\ system = "roads" => Roads!RoadsExact
  /\ system = "strips" => Strips!StripsExact
  /\ system = "buildings" => Buildings!MeshExact
  /\ system = "network" => Osm!NetworkExact
  /\ system = "neta" => Neta!FileOfItsJob
  /\ system = "traffic" => Traffic!AgentsExact
  /\ system = "gltf" => Gltf!GltfExact

\* What the content is made with does what it is used for: an upload leaves every level
\* readable, texts and files come back as they were, and an answer is parsed
\* whole or not at all.
ConversionsSound ==
  /\ system = "uploads" => Uploads!UploadsExact
  /\ system = "text" => Strings!TextExact
  /\ system = "files" => OsFile!FilesExact
  /\ system = "reader" => Reader!JsonExact

-----------------------------------------------------------------------------
MCRequestedSizes == {0, 1, 3}

MCTypes == {[size |-> 1, align |-> 1], [size |-> 8, align |-> 32]}
MCCapabilities == [minImageCount |-> 1, maxImageCount |-> 0]

\* Every value of the deque and item of the heap has a slot, the array pool's largest
\* node has room for the lengths asked for, which the code asserts
\* (base_container.cpp:91), the sizes and alignments of the arena, the allocator and the
\* containers are ones they are right for, what module FrameCommands makes of a frame is what
\* Frames needs of a recording, and the machines are what Vulkan allows.
ASSUME DequeAssumption == QueueFits
ASSUME HeapAssumption == HeapFits
ASSUME ArraysAssumption == Dyn!PoolFits
ASSUME ArenaAssumption == Ar!ArenaFits
ASSUME AllocatorAssumption == Al!AllocatorFits
ASSUME ContainersAssumption == Con!ContainersFit
ASSUME RecordingsAssumption == FrameLoop!RecordingsStandAlone
ASSUME MachinesAssumption == Gpu!MachinesConform

allVars == <<system, vars, poolVars, spmcVars, heapVars, arenaVars, allocatorVars, containerVars,
             tileVars, cacheVars, websocketVars, resourceVars, framesVars, arraysVars, contentVars>>

Systems == {"mpmc", "pool", "spmc", "heap", "arena", "allocator", "containers", "tiles", "cache",
            "websocket", "resources", "frames", "arrays"} \cup ContentSystems

ComponentsInit ==
  /\ system \in Systems
  /\ Init /\ (system # "mpmc" => queue_size = 1)
  /\ PoolInit /\ SpmcInit /\ HeapInit /\ Ar!Init /\ Al!AllocatorInit /\ Con!ContainersInit
  /\ TileInit
  /\ Files!CacheInit /\ (system # "cache" => asked = "a" /\ windows)
  /\ Session!WebsocketInit /\ Pool!ResourceInit
  /\ FrameLoop!FramesInit /\ (system # "frames" => ~msaa /\ swapchain.images = swapchain.ids)
  /\ Dyn!DynInit
  /\ ContentInit

Others ==
  /\ UNCHANGED system
  /\ IF system = "mpmc" THEN TRUE ELSE UNCHANGED vars
  /\ IF system = "pool" THEN TRUE ELSE UNCHANGED poolVars
  /\ IF system = "spmc" THEN TRUE ELSE UNCHANGED spmcVars
  /\ IF system = "heap" THEN TRUE ELSE UNCHANGED heapVars
  /\ IF system = "arena" THEN TRUE ELSE UNCHANGED arenaVars
  /\ IF system = "allocator" THEN TRUE ELSE UNCHANGED allocatorVars
  /\ IF system = "containers" THEN TRUE ELSE UNCHANGED containerVars
  /\ IF system = "tiles" THEN TRUE ELSE UNCHANGED tileVars
  /\ IF system = "cache" THEN TRUE ELSE UNCHANGED cacheVars
  /\ IF system = "websocket" THEN TRUE ELSE UNCHANGED websocketVars
  /\ IF system = "resources" THEN TRUE ELSE UNCHANGED resourceVars
  /\ IF system = "frames" THEN TRUE ELSE UNCHANGED framesVars
  /\ IF system = "arrays" THEN TRUE ELSE UNCHANGED arraysVars
  /\ ContentOthers

ComponentsNext ==
  /\ Others
  /\ \/ system = "mpmc" /\ Next
     \/ system = "pool" /\ PoolNext
     \/ system = "spmc" /\ SpmcNext
     \/ system = "heap" /\ HeapNext
     \/ system = "arena" /\ Ar!Next
     \/ system = "allocator" /\ Al!AllocatorNext
     \/ system = "containers" /\ Con!ContainersNext
     \/ system = "tiles" /\ TileNext
     \/ system = "cache" /\ Files!CacheNext
     \/ system = "websocket" /\ Session!WebsocketNext
     \/ system = "resources" /\ Pool!ResourceNext
     \/ system = "frames" /\ FrameLoop!FramesNext
     \/ system = "arrays" /\ Dyn!DynNext
     \/ ContentNext

ComponentsSpec == ComponentsInit /\ [][ComponentsNext]_allVars
=============================================================================
