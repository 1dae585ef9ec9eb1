------------------------------ MODULE MCSurfaces ------------------------------
(* What an output's picture is drawn into and what draws it: the buffers of    *)
(* its surface, and the compute engine's notes of the GL context. Nothing is   *)
(* shared between the two, so only one of them moves in a behaviour.           *)
EXTENDS SurfaceBuffers, GpuCaches, TLC

VARIABLE part

MCSize == [t |-> 1, o |-> 2]
MCScratchName == <<"scratch1">>
MCExtent == [p \in Pictures |-> 1]
MCSymmetry == Permutations(Places) \cup Permutations(Pictures) \cup Permutations(Sizes)

SurfacesInit == part \in {"surface", "engine"} /\ SurfInit /\ CacheInit

SurfacesNext ==
    /\ UNCHANGED part
    /\ \/ part = "surface" /\ SurfNext /\ UNCHANGED cacheVars
       \/ part = "engine" /\ CacheNext /\ UNCHANGED surfVars

SurfacesSpec == SurfacesInit /\ [][SurfacesNext]_<<part, surfVars, cacheVars>>
=============================================================================
