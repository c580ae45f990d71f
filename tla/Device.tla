------------------------------- MODULE Device -------------------------------
(***************************************************************************)
(* render/vulkan: from a machine to a device, its queues and the surface   *)
(* choices of the swapchain, or to exit_with_error, and the life of what   *)
(* is made from them until render_ctx_destroy, with the swapchain made     *)
(* again or absent in between.  A machine is the instance                  *)
(* extensions and layers it has and its devices in the order the instance  *)
(* lists them; bit fields of queue families are sets of indices.           *)
(***************************************************************************)
EXTENDS Integers, Sequences, FiniteSets, FiniteSetsExt

CONSTANTS Machines, Validation,  \* whether the build asks for validation layers
          Required,              \* instance extensions, layers and device extensions
          FramebufferDims

VARIABLES machine, step,   \* the next part of render_ctx_create, "running", "destroying",
                           \* "exited" or "crashed"
          picked,          \* [device, families, samples]; device 0 for none
          surface,         \* [format, mode, width] of the swapchain
          alive            \* the objects created and not destroyed

deviceVars == <<machine, step, picked, surface, alive>>

Undecided == 65535   \* widths of 16 bits here

\* What Vulkan guarantees of every implementation: lists are lists, a surface that can
\* be presented to at all has the mode "fifo", one sample is always possible and four
\* are where more are, and the current extent, if there is one, is allowed.
IsList(s) == Len(s) \in Nat /\ s = [i \in 1 .. Len(s) |-> s[i]]
Conforms(d) ==
  LET samples == d.color_samples \cap d.depth_samples
      extent == d.extent
  IN  /\ IsList(d.families) /\ IsList(d.formats)
      /\ d.modes # {} => "fifo" \in d.modes
      /\ samples \subseteq 1 .. 64 /\ 1 \in samples /\ ((\E n \in samples : n > 4) => 4 \in samples)
      /\ extent.min \in Nat /\ extent.max \in Nat /\ extent.min <= extent.max
      /\ extent.current # Undecided => extent.current \in extent.min .. extent.max
MachinesConform ==
  /\ IsFiniteSet(Required.device) /\ FramebufferDims \subseteq Nat
  /\ \A m \in Machines : IsList(m.devices) /\ \A i \in DOMAIN m.devices : Conforms(m.devices[i])

NoDevice == [device |-> 0, families |-> <<>>, samples |-> 1]
NoSurface == [format |-> "none", mode |-> "none", width |-> 0]

DeviceInit ==
  /\ machine \in Machines
  /\ step = "instance" /\ picked = NoDevice /\ surface = NoSurface /\ alive = {}

Continue(ok, next) == step' = IF ok THEN next ELSE "exited"

-----------------------------------------------------------------------------
\* Each required extension or layer is looked for in what is there.
AllFound(required, available) == required \subseteq available

check_validation_layer_support == AllFound(Required.layers, machine.layers)
required_extensions_get ==
  Required.instance \cup (IF Validation THEN {"debug_utils"} ELSE {})

create_instance ==
  /\ step = "instance"
  /\ Continue(/\ Validation => check_validation_layer_support
              /\ AllFound(required_extensions_get, machine.extensions), "pick")
  /\ alive' = {"instance", "surface"} \cup (IF Validation THEN {"messenger"} ELSE {})
  /\ UNCHANGED <<machine, picked, surface>>

-----------------------------------------------------------------------------
Families(d, purpose) == {i \in DOMAIN d.families : purpose \in d.families[i]}
LowestBit(bits) == IF bits = {} THEN {} ELSE {Min(bits)}

\* Mutant: a family that does both is not looked for.
MutantFamiliesFind(d) ==
  [graphics |-> LowestBit(Families(d, "graphics")), present |-> LowestBit(Families(d, "present"))]

\* One family for both if there is one, otherwise the first of each.
queue_families_find(d) ==
  LET same == LowestBit(Families(d, "graphics") \cap Families(d, "present"))
  IN IF same # {} THEN [graphics |-> same, present |-> same]
     ELSE [graphics |-> LowestBit(Families(d, "graphics")),
           present |-> LowestBit(Families(d, "present"))]

queue_family_is_complete(bits) == bits.graphics # {} /\ bits.present # {}

\* Each listed extension that is required counts one down.
check_device_extension_support(d) ==
  Cardinality(Required.device) - Cardinality({e \in d.extensions : e \in Required.device}) = 0

is_device_suitable(d) ==
  /\ queue_family_is_complete(queue_families_find(d))
  /\ check_device_extension_support(d)
  /\ d.formats # <<>> /\ d.modes # {}
  /\ "samplerAnisotropy" \in d.features

max_usable_sample_count_get(d) == Max(d.color_samples \cap d.depth_samples)

queue_family_indices_from_bit_fields(bits) == <<Min(bits.graphics), Min(bits.present)>>

physical_device_pick ==
  LET suitable == {i \in DOMAIN machine.devices : is_device_suitable(machine.devices[i])}
  IN /\ step = "pick"
     /\ Continue(suitable # {}, "logical")
     /\ picked' = IF suitable = {} THEN picked
                  ELSE LET d == machine.devices[Min(suitable)] IN
                       [device |-> Min(suitable),
                        families |-> queue_family_indices_from_bit_fields(queue_families_find(d)),
                        samples |-> Min({4, max_usable_sample_count_get(d)})]
     /\ UNCHANGED <<machine, surface, alive>>

\* shaderInt64 and timeline semaphores are asked for before; the creation itself
\* fails for any other feature that is missing.
Enabled == {"samplerAnisotropy", "shaderInt64", "timelineSemaphore", "dynamicRendering"}

Chosen == machine.devices[picked.device]

\* The queues asked for, one per family.
QueueFamilies == {picked.families[1], picked.families[2]}

logical_device_create ==
  /\ step = "logical"
  /\ Continue(Enabled \subseteq Chosen.features, "surface")
  /\ alive' = alive \cup {"device"}
  /\ UNCHANGED <<machine, picked, surface>>

-----------------------------------------------------------------------------
choose_swap_surface_format(formats) ==
  IF \E i \in DOMAIN formats : formats[i] = "srgb" THEN "srgb" ELSE formats[1]

choose_swap_present_mode(modes) == IF "mailbox" \in modes THEN "mailbox" ELSE "fifo"

\* The surface's extent, unless the swapchain is to decide (0xFFFFFFFF there): then
\* that of the framebuffer, clamped.
choose_swap_extent(dim, extent) ==
  IF extent.current # Undecided THEN extent.current
  ELSE Max({extent.min, Min({dim, extent.max})})

supported_format(d, candidates) ==
  LET supported == {i \in DOMAIN candidates : candidates[i] \in d.attachments}
  IN IF supported = {} THEN "none" ELSE candidates[Min(supported)]

DepthFormats == <<"d32", "d24s8", "d16">>

\* swapchain_create's choices.
SurfaceOf(dim, extent) ==
  [format |-> choose_swap_surface_format(Chosen.formats),
   mode |-> choose_swap_present_mode(Chosen.modes),
   width |-> choose_swap_extent(dim, extent)]

\* The first swapchain, with the formats of its depth and object id images.
ChooseSurface ==
  /\ step = "surface"
  /\ Continue(/\ {"rgba8_blit", "r32g32"} \subseteq Chosen.attachments
              /\ supported_format(Chosen, DepthFormats) # "none", "objects")
  /\ \E dim \in FramebufferDims : surface' = SurfaceOf(dim, Chosen.extent)
  /\ UNCHANGED <<machine, picked, alive>>

-----------------------------------------------------------------------------
\* What each object is made from, or freed with.
Needs(object) ==
  CASE object = "instance" -> {}
    [] object \in {"messenger", "surface", "device"} -> {"instance"}
    [] object = "asset_manager" -> {"instance", "device"}
    [] object = "swapchain" -> {"device", "surface", "asset_manager"}
    [] object = "bindless_set" -> {"descriptor_pool", "device"}
    [] object = "null_texture" -> {"asset_manager", "device"}
    [] object = "instance_buffers" -> {"asset_manager", "device"}
    [] OTHER -> {"device"}

\* The order of the creations of render_ctx_create, and of dt_imgui_setup after it.
Creations ==
  <<"descriptor_pool", "asset_manager", "swapchain", "command_pool", "bindless_layout",
    "bindless_set", "camera_layout", "null_texture", "pipelines", "semaphores", "imgui">>

\* Mutant: the asset manager goes before the swapchain, whose images are freed with its
\* allocator; the comment above the calls asks for the manager "first".
MutantDestructions ==
  <<{"imgui"}, {"asset_manager", "null_texture", "instance_buffers"}, {"swapchain"},
    {"command_pool"}, {"surface"}, {"descriptor_pool", "bindless_set"}, {"pipelines"},
    {"bindless_layout", "camera_layout"}, {"semaphores"}, {"device"}, {"messenger"}, {"instance"}>>

\* The calls of render_ctx_destroy; handle_destroy leaves a handle to the asset
\* manager, and a descriptor set goes with its pool.
Destructions ==
  <<{"imgui"}, {"swapchain"}, {"asset_manager", "null_texture", "instance_buffers"},
    {"command_pool"}, {"surface"}, {"descriptor_pool", "bindless_set"}, {"pipelines"},
    {"bindless_layout", "camera_layout"}, {"semaphores"}, {"device"}, {"messenger"}, {"instance"}>>

render_ctx_create ==
  LET missing == {k \in DOMAIN Creations : Creations[k] \notin alive}
  IN /\ step = "objects"
     /\ alive' = alive \cup {Creations[Min(missing)]}
     /\ step' = IF Cardinality(missing) = 1 THEN "running" ELSE step
     /\ UNCHANGED <<machine, picked, surface>>

\* buffer_alloc_create_or_resize for the cars of a frame.
DrawCars ==
  /\ step = "running" /\ alive' = alive \cup {"instance_buffers"}
  /\ UNCHANGED <<machine, step, picked, surface>>

\* What the window system says of a minimised window.
Minimised == [current |-> 0, min |-> 0, max |-> 0]

\* After a resize, or in a frame that finds no swapchain: one that fits the surface as it is
\* now, or none while the surface has no extent.
swapchain_recreate ==
  /\ step = "running"
  /\ \E dim \in FramebufferDims, extent \in {Chosen.extent, Minimised} :
       IF SurfaceOf(dim, extent).width # 0
       THEN surface' = SurfaceOf(dim, extent) /\ alive' = alive \cup {"swapchain"}
       ELSE surface' = surface /\ alive' = alive \ {"swapchain"}
  /\ UNCHANGED <<machine, step, picked>>

\* The second call, swapchain_cleanup, does not ask whether there is a swapchain: without one
\* the program ends there.
render_ctx_destroy ==
  LET left == {k \in DOMAIN Destructions : Destructions[k] \cap alive # {}}
  IN /\ step \in {"running", "destroying"} /\ left # {}
     /\ alive' = alive \ Destructions[Min(left)]
     /\ step' = IF step = "running" /\ "swapchain" \notin alive THEN "crashed" ELSE "destroying"
     /\ UNCHANGED <<machine, picked, surface>>

DeviceNext ==
  \/ create_instance \/ physical_device_pick \/ logical_device_create \/ ChooseSurface
  \/ render_ctx_create \/ DrawCars \/ swapchain_recreate \/ render_ctx_destroy

-----------------------------------------------------------------------------
\* A running renderer has a device with all it uses, on queues that can do their
\* work and are one queue where the device has such a family, and a surface the
\* device supports.  It exits only if no device fits or, which the choice of the
\* device does not look at, the first that fits lacks a feature.  Nothing is made
\* before or outlives what it is made from, with the swapchain made again or absent; a
\* renderer that is taken down while it is absent crashes with the rest alive.
DeviceFits ==
  LET d == Chosen
      Fits(e) ==
        /\ Required.device \subseteq e.extensions /\ e.formats # <<>> /\ e.modes # {}
        /\ "samplerAnisotropy" \in e.features
        /\ \E i, j \in DOMAIN e.families : "graphics" \in e.families[i] /\ "present" \in e.families[j]
  IN /\ \A object \in alive : Needs(object) \subseteq alive
     /\ step \in {"objects", "running"} =>
          /\ Fits(d) /\ Enabled \subseteq d.features
          /\ "graphics" \in d.families[picked.families[1]]
          /\ "present" \in d.families[picked.families[2]]
          /\ Cardinality(QueueFamilies) = 2 =>
               ~ \E i \in DOMAIN d.families : {"graphics", "present"} \subseteq d.families[i]
          /\ picked.samples \in d.color_samples \cap d.depth_samples
          /\ surface.format \in {d.formats[i] : i \in DOMAIN d.formats}
          /\ surface.mode \in d.modes
          /\ surface.width \in d.extent.min .. d.extent.max
     /\ step = "exited" /\ picked = NoDevice =>
          \/ ~(Required.instance \subseteq machine.extensions)
          \/ Validation /\ ~(Required.layers \subseteq machine.layers /\ "debug_utils" \in machine.extensions)
          \/ \A i \in DOMAIN machine.devices : ~Fits(machine.devices[i])
     /\ picked # NoDevice => \A i \in 1 .. picked.device - 1 : ~Fits(machine.devices[i])
=============================================================================
