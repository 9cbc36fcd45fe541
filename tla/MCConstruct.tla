---------------------------- MODULE MCConstruct ----------------------------
(* The constructors of libblit, with every step that may fail but those    *)
(* that the code does not take back as it should (KnownFlaws).             *)
EXTENDS Construct, Backends

MCObjects == {"first", "second", "third"}
MCNullSafe == {<<"context", "ext_prop">>}
MCOwns == VulkanOwns \cup AmdgpuOwns

KnownFlaws ==
    {<<"vulkan new_image", "find_memory_type">>,                            \* impl.c:425
     <<"image_export_dmabuf", "vkGetImageDrmFormatModifierPropertiesEXT">>, \* impl.c:123
     <<"blt_vulkan_new_surface", "init_imageimage 2">>,                     \* impl.c:545
     <<"blt_vulkan_new", "vkEnumeratePhysicalDevices of NULL">>,            \* impl.c:1010
     <<"blt_vulkan_new", "reallocarray of ext_prop again">>,                \* impl.c:1023
     <<"blt_vulkan_new", "ext[i]">>,                                        \* impl.c:1044
     <<"blt_vulkan_new", "ctx->phys == VK_NULL_HANDLE">>,                   \* impl.c:1052
     <<"make_pipeline", "vkCreatePipelineLayout of fill">>,                 \* impl.c:951
     <<"make_pipeline", "vkCreatePipelineLayout of copy">>,                 \* impl.c:951
     <<"make_pipeline", "vkCreateGraphicsPipelines">>,                      \* impl.c:951
     <<"blt_vulkan_new", "make_pipeline">>,                                 \* impl.c:1125
     <<"blt_vulkan_new", "vkCreateCommandPool">>,                           \* impl.c:1132
     <<"amdgpu new_image", "malloc">>,                                      \* amdgpu/impl.c:448
     <<"blt_amdgpu_new", "amdgpu_query_gpu_info">>,                         \* amdgpu/impl.c:1087
     <<"blt_amdgpu_new", "amdgpu_bo_cpu_map of shader.fill">>,              \* amdgpu/impl.c:1104
     <<"blt_amdgpu_new", "bo_allocshader.vert">>,                           \* amdgpu/impl.c:1110
     <<"blt_amdgpu_new", "amdgpu_bo_cpu_map of shader.vert">>,              \* amdgpu/impl.c:1113
     <<"blt_amdgpu_new", "bo_allocshader.copy">>,                           \* amdgpu/impl.c:1119
     <<"blt_amdgpu_new", "amdgpu_bo_cpu_map of shader.copy">>,              \* amdgpu/impl.c:1122
     <<"blt_amdgpu_new", "bo_allocinit">>,                                  \* amdgpu/impl.c:1128
     <<"blt_amdgpu_new", "amdgpu_bo_cpu_map of init">>}                     \* amdgpu/impl.c:1131

AllSteps == UNION {{<<r[1], BackendRoutines[r].steps[k].op>> : k \in DOMAIN BackendRoutines[r].steps}
                   : r \in DOMAIN BackendRoutines}

Sound == AllSteps \ KnownFlaws
=============================================================================
