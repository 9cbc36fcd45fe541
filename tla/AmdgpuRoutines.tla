--------------------------- MODULE AmdgpuRoutines ---------------------------
(***************************************************************************)
(* The constructors of the amdgpu back end (amdgpu/impl.c:338-508,         *)
(* 1057-1156) as Routines.  A buffer has an address range, a handle and a  *)
(* mapping of the one to the other; one that is written is mapped for the  *)
(* CPU as well.  An image made with BLT_IMAGE_DST can be drawn on.         *)
(***************************************************************************)
EXTENDS Routines

\* Where the buffers are (amdgpu/impl.c:47-88).
ImageBuffers == {"image", "cmd", "vert"}
Shaders      == {"shader.fill", "shader.vert", "shader.copy"}
Buffers      == ImageBuffers \cup Shaders \cup {"init"}

Bo(p) == Of(p, {"va", "handle", "mapping"})
Map(p) == Of(p, {"map"})

\* Mistake: a buffer that cannot be mapped keeps its address range.
BoAllocKeeps(p) ==
    [steps |-> <<Make("amdgpu_va_range_alloc", Of(p, {"va"}), 0),
                 Make("amdgpu_bo_alloc", Of(p, {"handle"}), 1),
                 Make("amdgpu_bo_va_op", Of(p, {"mapping"}), 2)>>,
     exits |-> <<{}, {}, Of(p, {"handle"})>>,
     gives |-> Bo(p)]

BoAlloc(p) ==
    [steps |-> <<Make("amdgpu_va_range_alloc", Of(p, {"va"}), 0),
                 Make("amdgpu_bo_alloc", Of(p, {"handle"}), 1),
                 Make("amdgpu_bo_va_op", Of(p, {"mapping"}), 2)>>,
     exits |-> <<{}, Of(p, {"va"}), Of(p, {"handle"})>>,
     gives |-> Bo(p)]

Draw == Of("image", {"draw"})

NewDraw ==
    [steps |-> <<Make("malloc", Draw, 0),
                 Call(<<"bo_alloc", "cmd">>, 1),
                 Make("amdgpu_bo_cpu_map of cmd", Map("cmd"), 2),
                 Call(<<"bo_alloc", "vert">>, 3),
                 Make("amdgpu_bo_cpu_map of vert", Map("vert"), 4)>>,
     exits |-> <<{}, Draw, Bo("cmd"), Map("cmd"), Bo("vert")>>,
     gives |-> Draw \cup Bo("cmd") \cup Map("cmd") \cup Bo("vert") \cup Map("vert")]

Img == Of("image", {"img"})

\* The result of malloc is used as it is.
AmdgpuNewImage(kind) ==
    [steps |-> <<Make("malloc", Img, Unseen),
                 Call(<<"bo_alloc", "image">>, 0),
                 Check("amdgpu_bo_set_metadata", 1)>>
               \o (IF kind = "target" THEN <<Call(<<"new_draw", "">>, 1)>> ELSE <<>>),
     exits |-> <<Img, Bo("image")>>,
     gives |-> Img \cup Bo("image") \cup (IF kind = "target" THEN NewDraw.gives ELSE {})]

\* The planes are filled in with one file descriptor for the client.
ExportDmabuf ==
    [steps |-> <<Make("amdgpu_bo_export", Of("plane", {"fd"}), 0)>>,
     exits |-> <<{}>>,
     gives |-> Of("plane", {"fd"})]

-----------------------------------------------------------------------------
Gpu(names) == Of("gpu", names)

\* One shader: its buffer, and a mapping while it is written.
Shader(p, e, m) ==
    <<Call(<<"bo_alloc", p>>, e), Make("amdgpu_bo_cpu_map of " \o p, Map(p), m),
      Drop("amdgpu_bo_cpu_unmap", Map(p))>>

\* The file descriptor is the client's, or the render node opened here.
BltAmdgpuNew(fd) ==
    [steps |-> (IF fd = "opened" THEN <<Make("open", Gpu({"fd"}), 0)>> ELSE <<>>)
               \o <<Make("malloc", Gpu({"ctx"}), 1),
                    Make("amdgpu_device_initialize", Gpu({"dev"}), 2),
                    Make("amdgpu_cs_ctx_create", Gpu({"cs"}), 3),
                    Check("amdgpu_query_gpu_info", 3),
                    Check("family_id", 4)>>
               \o Shader("shader.fill", 4, 5)
               \o Shader("shader.vert", 4, 5)
               \o Shader("shader.copy", 4, 5)
               \o Shader("init", 6, 6),
     exits |-> <<{}, Gpu({"fd"}), Gpu({"ctx"}), Gpu({"dev"}), Gpu({"cs"}), {}, Bo("shader.vert")>>,
     gives |-> Gpu({"ctx", "dev", "cs"}) \cup (IF fd = "opened" THEN Gpu({"fd"}) ELSE {})
               \cup Bo("shader.fill") \cup Bo("shader.vert") \cup Bo("shader.copy") \cup Bo("init")]

\* image_destroy does nothing (amdgpu/impl.c:290-302).
AmdgpuDestroyReleases == Gpu({"ctx"})

\* What lives in what.
AmdgpuOwns ==
    {<<c, <<"gpu", "dev">>>> : c \in Gpu({"cs"}) \cup UNION {Bo(p) : p \in Buffers}}
    \cup {<<<<p, "mapping">>, <<p, "va">>>> : p \in Buffers}
    \cup {<<<<"gpu", "dev">>, <<"gpu", "fd">>>>}

AmdgpuRoutines ==
    [r \in ({"bo_alloc"} \X Buffers) \cup {<<"new_draw", "">>, <<"export_dmabuf", "">>}
           \cup ({"amdgpu new_image"} \X {"target", "texture"})
           \cup ({"blt_amdgpu_new"} \X {"opened", "passed"}) |->
        CASE r[1] = "bo_alloc"         -> BoAlloc(r[2])
          [] r[1] = "new_draw"         -> NewDraw
          [] r[1] = "export_dmabuf"    -> ExportDmabuf
          [] r[1] = "amdgpu new_image" -> AmdgpuNewImage(r[2])
          [] r[1] = "blt_amdgpu_new"   -> BltAmdgpuNew(r[2])]
=============================================================================
