------------------------------ MODULE Backends ------------------------------
(***************************************************************************)
(* The interface over the back ends (drm.c, wl.c, x11.c, image.c:36-40 and *)
(* the new_image and new_surface of include/blt.h and wl.h, x11.h): what a *)
(* client may call, and which back ends are tried.  Both back ends and all *)
(* platforms are compiled in.                                              *)
(***************************************************************************)
EXTENDS VulkanRoutines, AmdgpuRoutines

\* Mistake: the loop tries the null pointer behind the table as well.
BltDrmNewLonger ==
    [steps |-> <<Try(<<"blt_vulkan_drm_new", "">>), Try(<<"blt_vulkan_drm_new", "">>),
                 Try(NoRoutine), Fail>>,
     exits |-> <<{}>>,
     gives |-> {}]

\* One turn for each back end, each with impls[0] (drm.c:27).
BltDrmNew ==
    [steps |-> <<Try(<<"blt_vulkan_drm_new", "">>), Try(<<"blt_vulkan_drm_new", "">>), Fail>>,
     exits |-> <<{}>>,
     gives |-> {}]

BltWlNew ==
    [steps |-> <<Try(<<"blt_vulkan_wl_new", "">>), Fail>>, exits |-> <<{}>>, gives |-> {}]

BltX11New ==
    [steps |-> <<Try(<<"blt_vulkan_x11_new", "">>), Fail>>, exits |-> <<{}>>, gives |-> {}]

Chosen == [r \in {"blt_drm_new", "blt_wl_new", "blt_x11_new"} \X {""} |->
              CASE r[1] = "blt_drm_new" -> BltDrmNew
                [] r[1] = "blt_wl_new"  -> BltWlNew
                [] r[1] = "blt_x11_new" -> BltX11New]

\* The back ends in the table impls of each (drm.c:14-22, wl.c, x11.c).
BackendImpls == [r \in DOMAIN Chosen |->
             CASE r[1] = "blt_drm_new" -> {<<"blt_vulkan_drm_new", "">>, <<"blt_amdgpu_new", "passed">>}
               [] r[1] = "blt_wl_new"  -> {<<"blt_vulkan_wl_new", "">>}
               [] r[1] = "blt_x11_new" -> {<<"blt_vulkan_x11_new", "">>}]

BackendRoutines ==
    [r \in DOMAIN VulkanRoutines \cup DOMAIN AmdgpuRoutines \cup DOMAIN Chosen |->
        IF r \in DOMAIN VulkanRoutines THEN VulkanRoutines[r]
        ELSE IF r \in DOMAIN AmdgpuRoutines THEN AmdgpuRoutines[r]
        ELSE Chosen[r]]

-----------------------------------------------------------------------------
(* What a client may make, and in what it is made.                         *)

VulkanContexts == {"blt_vulkan_drm_new", "blt_vulkan_wl_new", "blt_vulkan_x11_new"} \X {""}
AmdgpuContexts == {"blt_amdgpu_new"} \X {"opened", "passed"}
VulkanImages   == {"vulkan new_image"} \X Kinds
AmdgpuImages   == {"amdgpu new_image"} \X {"target", "texture"}
Surfaces       == {"wl new_surface", "x11 new_surface"} \X {""}
Exports        == {"image_export_dmabuf", "export_dmabuf"} \X {""}

\* blt_amdgpu_new is called by drm.c only, or by a client who links to it.
BackendEntries ==
    DOMAIN Chosen \cup {<<"blt_amdgpu_new", "opened">>}
    \cup VulkanImages \cup AmdgpuImages \cup Surfaces \cup Exports

\* The objects one of which has to be there; a context needs none.
BackendWithin ==
    [r \in BackendEntries |->
        CASE r \in VulkanImages               -> VulkanContexts
          [] r \in AmdgpuImages               -> AmdgpuContexts
          [] r[1] = "wl new_surface"          -> {<<"blt_vulkan_wl_new", "">>}
          [] r[1] = "x11 new_surface"         -> {<<"blt_vulkan_x11_new", "">>}
          [] r[1] = "image_export_dmabuf"     -> {<<"vulkan new_image", "dmabuf">>}
          [] r[1] = "export_dmabuf"           -> AmdgpuImages
          [] OTHER                            -> {}]

\* What destroying an object releases; a file descriptor is closed by the client.
BackendReleases ==
    [r \in VulkanContexts \cup AmdgpuContexts \cup VulkanImages \cup AmdgpuImages
           \cup Surfaces \cup Exports |->
        CASE r \in VulkanContexts -> DestroyReleases
          [] r \in AmdgpuContexts -> AmdgpuDestroyReleases
          [] r \in VulkanImages   -> ImageDestroyReleases(r[2])
          [] r \in AmdgpuImages   -> {}
          [] r \in Surfaces       -> SurfaceDestroyReleases
          [] r \in Exports        -> Of("plane", {"fd"})]
=============================================================================
