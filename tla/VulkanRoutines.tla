--------------------------- MODULE VulkanRoutines ---------------------------
(***************************************************************************)
(* The constructors of the Vulkan back end (vulkan/impl.c:211-565,         *)
(* 763-1166, vulkan/drm.c, vulkan/wl.c, vulkan/x11.c) as Routines.  An     *)
(* image is a "target" (BLT_IMAGE_DST), a "texture" (BLT_IMAGE_SRC) or     *)
(* neither ("dmabuf"); a surface has an image for each of SurfaceImages.   *)
(***************************************************************************)
EXTENDS Routines

SurfaceImages == <<"image 1", "image 2">>

Kinds == {"target", "texture", "dmabuf"}
Parts == Kinds \cup {SurfaceImages[i] : i \in DOMAIN SurfaceImages}

Viewed(p) == p # "dmabuf"
Drawn(p)  == p \notin {"texture", "dmabuf"}

\* Mistake: the memory is not released when it cannot be bound.
AllocBufferKeeps(p) ==
    [steps |-> <<Make("vkCreateBuffer", Of(p, {"vertex_buffer"}), 0),
                 Check("find_memory_type", 1),
                 Make("vkAllocateMemory", Of(p, {"vertex_memory"}), 1),
                 Check("vkBindBufferMemory", 1)>>,
     exits |-> <<{}, Of(p, {"vertex_buffer"}), Of(p, {"vertex_memory"})>>,
     gives |-> Of(p, {"vertex_buffer", "vertex_memory"})]

AllocBuffer(p) ==
    [steps |-> <<Make("vkCreateBuffer", Of(p, {"vertex_buffer"}), 0),
                 Check("find_memory_type", 1),
                 Make("vkAllocateMemory", Of(p, {"vertex_memory"}), 1),
                 Check("vkBindBufferMemory", 2)>>,
     exits |-> <<{}, Of(p, {"vertex_buffer"}), Of(p, {"vertex_memory"})>>,
     gives |-> Of(p, {"vertex_buffer", "vertex_memory"})]

\* What struct draw_context refers to (impl.c:47-55), with itself.
DrawContext == {"draw_ctx", "cmd", "vertex_buffer", "vertex_memory", "vertex", "semaphore"}

\* Mistake: the labels are one too high from the buffer on.
MakeDrawContextHigh(p) ==
    [steps |-> <<Make("malloc", Of(p, {"draw_ctx"}), 0),
                 Make("vkAllocateCommandBuffers", Of(p, {"cmd"}), 1),
                 Call(<<"alloc_buffer", p>>, 3),
                 Make("vkMapMemory", Of(p, {"vertex"}), 4),
                 Make("vkCreateSemaphore", Of(p, {"semaphore"}), 4)>>,
     exits |-> <<{}, Of(p, {"draw_ctx"}), Of(p, {"cmd"}),
                 Of(p, {"vertex_buffer", "vertex_memory"}), Of(p, {"vertex"})>>,
     gives |-> Of(p, DrawContext)]

MakeDrawContext(p) ==
    [steps |-> <<Make("malloc", Of(p, {"draw_ctx"}), 0),
                 Make("vkAllocateCommandBuffers", Of(p, {"cmd"}), 1),
                 Call(<<"alloc_buffer", p>>, 2),
                 Make("vkMapMemory", Of(p, {"vertex"}), 3),
                 Make("vkCreateSemaphore", Of(p, {"semaphore"}), 4)>>,
     exits |-> <<{}, Of(p, {"draw_ctx"}), Of(p, {"cmd"}),
                 Of(p, {"vertex_buffer", "vertex_memory"}), Of(p, {"vertex"})>>,
     gives |-> Of(p, DrawContext)]

InitImage(p) ==
    [steps |-> (IF Viewed(p) THEN <<Make("vkCreateImageView", Of(p, {"view"}), 0)>> ELSE <<>>)
               \o (IF Drawn(p) THEN <<Call(<<"make_draw_context", p>>, 1)>> ELSE <<>>),
     exits |-> <<{}, IF Viewed(p) THEN Of(p, {"view"}) ELSE {}>>,
     gives |-> (IF Viewed(p) THEN Of(p, {"view"}) ELSE {})
               \cup (IF Drawn(p) THEN Of(p, DrawContext) ELSE {})]

\* find_memory_type says -1 if there is no such memory, and that is passed on.
NewImage(p) ==
    [steps |-> <<Check("vulkan_format", 0),
                 Make("malloc", Of(p, {"img"}), 0),
                 Make("vkCreateImage", Of(p, {"vk"}), 1),
                 Check("find_memory_type", Unseen),
                 Make("vkAllocateMemory", Of(p, {"memory"}), 2),
                 Check("vkBindImageMemory", 3),
                 Call(<<"init_image", p>>, 3)>>,
     exits |-> <<{}, Of(p, {"img"}), Of(p, {"vk"}), Of(p, {"memory"})>>,
     gives |-> Of(p, {"img", "vk", "memory"}) \cup InitImage(p).gives]

\* A successful vkGetMemoryFdKHR makes a file descriptor for the client.
ImageExportDmabuf ==
    [steps |-> <<Make("vkGetMemoryFdKHR", Of("plane", {"fd"}), 0),
                 Check("vkGetImageDrmFormatModifierPropertiesEXT", 0)>>,
     exits |-> <<{}>>,
     gives |-> Of("plane", {"fd"})]

Srf(names) == Of("surface", names)

\* Mistake: the formats are not freed when they have been searched.
SurfaceFormatsKept ==
    <<Check("vkGetPhysicalDeviceSurfaceFormatsKHR of NULL", 0),
      Make("reallocarray of formats", Srf({"formats"}), 0),
      CheckUndo("vkGetPhysicalDeviceSurfaceFormatsKHR", Srf({"formats"}), 0),
      Check("i == formats_len", 0)>>

\* The formats of the surface are searched for the one asked for.
SurfaceFormats ==
    <<Check("vkGetPhysicalDeviceSurfaceFormatsKHR of NULL", 0),
      Make("reallocarray of formats", Srf({"formats"}), 0),
      CheckUndo("vkGetPhysicalDeviceSurfaceFormatsKHR", Srf({"formats"}), 0),
      Drop("free of formats", Srf({"formats"})),
      Check("i == formats_len", 0)>>

NewSurface ==
    [steps |-> <<Check("vkGetPhysicalDeviceSurfaceSupportKHR", 0), Check("vulkan_format", 0)>>
               \o SurfaceFormats
               \o <<Make("malloc", Srf({"srf"}), 0),
                 Check("vkGetPhysicalDeviceSurfaceCapabilitiesKHR", 1),
                 Check("currentExtent", 1),
                 Make("vkCreateSwapchainKHR", Srf({"swapchain"}), 1),
                 Check("vkGetSwapchainImagesKHR of NULL", 2),
                 Make("reallocarray of img", Srf({"img"}), 2),
                 Make("reallocarray of age", Srf({"age"}), 3),
                 Make("reallocarray of vkimg", Srf({"vkimg"}), 4),
                 Check("vkGetSwapchainImagesKHR", 5)>>
               \o [i \in DOMAIN SurfaceImages |-> Call(<<"init_image", SurfaceImages[i]>>, 6)]
               \o <<Drop("free of vkimg", Srf({"vkimg"}))>>,
     exits |-> <<{}, Srf({"srf"}), Srf({"swapchain"}), Srf({"img"}), Srf({"age"}),
                 Srf({"vkimg"}), {}>>,
     gives |-> Srf({"srf", "swapchain", "img", "age"})
               \cup UNION {InitImage(SurfaceImages[i]).gives : i \in DOMAIN SurfaceImages}]

-----------------------------------------------------------------------------
(* Contexts.                                                               *)

Ctx(names) == Of("context", names)

MakePipeline ==
    [steps |-> <<Make("vkCreateDescriptorSetLayout", Ctx({"desc_layout"}), 0),
                 Make("vkCreateDescriptorPool", Ctx({"desc_pool"}), 1),
                 Make("vkAllocateDescriptorSets", Ctx({"desc"}), 2),
                 Make("vkCreatePipelineLayout of fill", Ctx({"fill layout"}), 3),
                 Make("vkCreatePipelineLayout of copy", Ctx({"copy layout"}), 4),
                 Make("vkCreateGraphicsPipelines", Ctx({"fill", "copy"}), 5)>>,
     exits |-> <<{}, Ctx({"desc_layout"}), Ctx({"desc_pool"}), Ctx({"desc"}),
                 Ctx({"fill layout"}), Ctx({"copy layout"})>>,
     gives |-> Ctx({"desc_layout", "desc_pool", "desc", "fill layout", "copy layout",
                    "fill", "copy"})]

\* What struct context refers to (impl.c:29-45), with itself.
Context == Ctx({"ctx", "instance", "dev", "vert_shader", "fill_shader", "copy_shader",
                "rgb_sampler", "cmd_pool"}) \cup MakePipeline.gives

\* The first turn of the loop over the devices (impl.c:1019-1051), and a later one:
\* when its reallocarray fails ext_prop is NULL and error4 frees that, so that only
\* what is behind error3 is released; and ext is read at the device's index, which
\* may be past what was set (1044).
FirstDevice ==
    <<Check("vkEnumerateDeviceExtensionProperties of NULL", 4),
      Make("reallocarray of ext_prop", Ctx({"ext_prop"}), 4),
      Check("vkEnumerateDeviceExtensionProperties", 4)>>

LaterDevice ==
    <<Check("vkEnumerateDeviceExtensionProperties of NULL", 4),
      Make("reallocarray of ext_prop again", Ctx({"ext_prop"}), 3),
      Check("vkEnumerateDeviceExtensionProperties", 4),
      CheckAny("ext[i]", {Unseen})>>

\* Which device is chosen is left open; if none, ctx->phys is what malloc left
\* there (impl.c:1052).
BltVulkanNew ==
    [steps |-> <<Make("malloc", Ctx({"ctx"}), 0),
                 Make("vkCreateInstance", Ctx({"instance"}), 1),
                 Check("vkEnumeratePhysicalDevices of NULL", 1),
                 Make("reallocarray of phys", Ctx({"phys"}), 2),
                 Check("vkEnumeratePhysicalDevices", 3)>>
               \o FirstDevice \o LaterDevice
               \o <<CheckAny("ctx->phys == VK_NULL_HANDLE", {4, Unseen}),
                 Make("reallocarray of family", Ctx({"family"}), 4),
                 Check("i == family_len", 5),
                 Make("vkCreateDevice", Ctx({"dev"}), 5),
                 Make("vkCreateShaderModule of vert", Ctx({"vert_shader"}), 6),
                 Make("vkCreateShaderModule of fill", Ctx({"fill_shader"}), 7),
                 Make("vkCreateShaderModule of copy", Ctx({"copy_shader"}), 8),
                 Make("vkCreateSampler", Ctx({"rgb_sampler"}), 9),
                 Call(<<"make_pipeline", "">>, 10),
                 Make("vkCreateCommandPool", Ctx({"cmd_pool"}), 11),
                 Drop("free", Ctx({"family", "ext_prop", "phys"}))>>,
     exits |-> <<{}, Ctx({"ctx"}), Ctx({"instance"}), Ctx({"phys"}), Ctx({"ext_prop"}),
                 Ctx({"family"}), Ctx({"dev"}), Ctx({"vert_shader"}), Ctx({"fill_shader"}),
                 Ctx({"copy_shader"}), Ctx({"fill layout"}), Ctx({"fill", "copy"})>>,
     gives |-> Context]

-----------------------------------------------------------------------------
(* The platforms: a window of Wayland or X11 becomes a VkSurfaceKHR.       *)

BltVulkanDrmNew ==
    [steps |-> <<Check("fstat", 0), Call(<<"blt_vulkan_new", "">>, 0)>>,
     exits |-> <<{}>>,
     gives |-> Context]

BltVulkanWlNew ==
    [steps |-> <<Make("malloc", Ctx({"wl"}), 0), Call(<<"blt_vulkan_new", "">>, 1)>>,
     exits |-> <<{}, Ctx({"wl"})>>,
     gives |-> Context \cup Ctx({"wl"})]

BltVulkanX11New ==
    [steps |-> <<Make("malloc", Ctx({"x11"}), 0), Call(<<"blt_vulkan_new", "">>, 1)>>,
     exits |-> <<{}, Ctx({"x11"})>>,
     gives |-> Context \cup Ctx({"x11"})]

WlNewSurface ==
    [steps |-> <<Make("vkCreateWaylandSurfaceKHR", Srf({"vk"}), 0),
                 Call(<<"blt_vulkan_new_surface", "">>, 1)>>,
     exits |-> <<{}, Srf({"vk"})>>,
     gives |-> Srf({"vk"}) \cup NewSurface.gives]

X11NewSurface ==
    [steps |-> <<Make("vkCreateXcbSurfaceKHR", Srf({"vk"}), 0),
                 Call(<<"blt_vulkan_new_surface", "">>, 1)>>,
     exits |-> <<{}, Srf({"vk"})>>,
     gives |-> Srf({"vk"}) \cup NewSurface.gives]

-----------------------------------------------------------------------------
(* What the destroy functions release (impl.c:87-101, 142-150).            *)

DestroyReleases        == Ctx({"ctx"})
ImageDestroyReleases(p) == Of(p, {"img"})
SurfaceDestroyReleases == Srf({"img", "age", "srf"})

-----------------------------------------------------------------------------
(* What lives in what: releasing the right of a pair before the left is    *)
(* not allowed (the valid usage of vkDestroyDevice and its like).  Things  *)
(* that live in each other go together: the pool is made without           *)
(* FREE_DESCRIPTOR_SET_BIT (impl.c:806), so that no set of it is freed     *)
(* alone.                                                                  *)

VulkanOwns ==
    {<<c, <<"context", "dev">>>> : c \in Context \ Ctx({"ctx", "instance", "dev"})}
    \cup {<<<<"context", "dev">>, <<"context", "instance">>>>,
          <<<<"context", "desc">>, <<"context", "desc_pool">>>>,
          <<<<"context", "desc_pool">>, <<"context", "desc">>>>,
          <<<<"surface", "swapchain">>, <<"surface", "vk">>>>}
    \cup {<<<<p, "view">>, <<p, "vk">>>> : p \in Kinds}
    \cup {<<<<p, "view">>, <<"surface", "swapchain">>>> : p \in Parts \ Kinds}

VulkanRoutines ==
    LET parts == {"alloc_buffer", "make_draw_context", "init_image"} \X Parts
        whole == {"blt_vulkan_new_surface", "make_pipeline", "blt_vulkan_new",
                  "blt_vulkan_drm_new", "blt_vulkan_wl_new", "blt_vulkan_x11_new",
                  "wl new_surface", "x11 new_surface", "image_export_dmabuf"} \X {""}
    IN  [r \in parts \cup whole \cup ({"vulkan new_image"} \X Kinds) |->
            CASE r[1] = "alloc_buffer"           -> AllocBuffer(r[2])
              [] r[1] = "make_draw_context"      -> MakeDrawContext(r[2])
              [] r[1] = "init_image"             -> InitImage(r[2])
              [] r[1] = "vulkan new_image"       -> NewImage(r[2])
              [] r[1] = "image_export_dmabuf"    -> ImageExportDmabuf
              [] r[1] = "blt_vulkan_new_surface" -> NewSurface
              [] r[1] = "make_pipeline"          -> MakePipeline
              [] r[1] = "blt_vulkan_new"         -> BltVulkanNew
              [] r[1] = "blt_vulkan_drm_new"     -> BltVulkanDrmNew
              [] r[1] = "blt_vulkan_wl_new"      -> BltVulkanWlNew
              [] r[1] = "blt_vulkan_x11_new"     -> BltVulkanX11New
              [] r[1] = "wl new_surface"         -> WlNewSurface
              [] r[1] = "x11 new_surface"        -> X11NewSurface]
=============================================================================
