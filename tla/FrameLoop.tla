------------------------------ MODULE FrameLoop ------------------------------
(***************************************************************************)
(* A client that repaints only what changed: the surface of the Vulkan     *)
(* back end (Surface) hands out an image with its age, the damage tracker  *)
(* (Damage) says what to repaint in an image of that age, and after the    *)
(* image is presented the tracker is cycled.  The client is the one both   *)
(* interfaces are made for (include/blt.h:10-13, 76-81); the examples      *)
(* repaint everything and pass no age.                                     *)
(***************************************************************************)
EXTENDS Surface

CONSTANTS
    Cells, NumRegions, InfiniteDamage, NoRegion, \* of Damage
    Distrusted  \* the ages the client takes for an age that is not tracked

ASSUME RingAssumption == NumRegions \in Nat \ {0}

VARIABLES
    offset, regions, asked, returned,   \* of Damage
    stale,      \* the cells of each image that differ from the scene
    painted     \* the images repainted since they were acquired

D == INSTANCE Damage WITH Ages <- IntMin .. IntMax

surface == vars
damage  == <<offset, regions, asked, returned>>

loop == <<surface, damage, stale, painted>>

LoopInit ==
    /\ Init
    /\ D!Init
    /\ stale = [i \in Images |-> Cells]
    /\ painted = {}

-----------------------------------------------------------------------------
(* Steps of the surface and of the display.                                *)

OnSurface(step) == step /\ UNCHANGED <<damage, stale, painted>>

AsksForImage    == OnSurface(Acquire)
IsGiven(i)      == OnSurface(AcquireSuccess(i))
IsGivenNothing  == OnSurface(AcquireError)
LosesImage(i)   == OnSurface(AcquireSuboptimal(i))
PresentFails(i) == i \in painted /\ OnSurface(PresentError(i))
IsDisplayed     == OnSurface(Display)

-----------------------------------------------------------------------------
(* Steps of the client.                                                    *)

PassedAge(i) == IF age[i] \in Distrusted THEN NumRegions + 1 ELSE age[i]

\* The region behind the pointer blt_damage returns.  Beside the array lies
\* whatever lies there.
Region(slot, region) ==
    IF slot = InfiniteDamage THEN region = D!Infinite
    ELSE IF slot \in D!Slots THEN region = regions'[slot]
    ELSE region \in SUBSET Cells

\* The scene changes, and the client repaints what blt_damage returns.
Repaint(i, new) ==
    /\ i \in client
    /\ D!BltDamage(PassedAge(i), new)
    /\ \E region \in SUBSET Cells :
          /\ Region(returned', region)
          /\ stale' = [j \in Images |->
                          IF j = i THEN (stale[j] \cup new) \ region ELSE stale[j] \cup new]
    /\ painted' = painted \cup {i}
    /\ UNCHANGED surface

\* blt_present, and blt_cycle_damage once it succeeded.
PresentFrame(i) ==
    /\ i \in painted
    /\ PresentSuccess(i)
    /\ D!BltCycleDamage
    /\ painted' = painted \ {i}
    /\ UNCHANGED stale

\* A frame that is shown all the same, although blt_present says -1: the
\* tracker is not cycled, and the ages stay as well.  Bound: not when the image
\* has waited MaxWait frames, or its age would never be reset.
PresentUnsaid(i) ==
    /\ i \in painted
    /\ Waited(i) < MaxWait
    /\ PresentSuboptimal(i)
    /\ painted' = painted \ {i}
    /\ UNCHANGED <<damage, stale>>

LoopNext ==
    \/ AsksForImage
    \/ \E i \in Images : IsGiven(i) \/ LosesImage(i)
    \/ IsGivenNothing
    \/ \E i \in Images, new \in SUBSET Cells : Repaint(i, new)
    \/ \E i \in Images : PresentFrame(i) \/ PresentFails(i) \/ PresentUnsaid(i)
    \/ IsDisplayed

\* What Surface asks of the display and of vkAcquireNextImageKHR.
LoopSpec ==
    /\ LoopInit
    /\ [][LoopNext]_loop
    /\ WF_loop(IsDisplayed)
    /\ WF_loop(\E i \in Images : IsGiven(i))

-----------------------------------------------------------------------------
\* A frame on its way to the display shows the scene: no cell that changed
\* since the image was last on screen is left out of the region blt_damage
\* returned for the age blt_acquire gave (damage.c:44, vulkan/impl.c:165).
FramesUpToDate == \A i \in painted : stale[i] = {}

\* Behind it: the tracker keeps for each image whose age it tracks, and that is
\* not lost, at least the cells that are stale in it, whatever Vulkan answered.
TrackedDamageCovers ==
    \A i \in Images \ lost : age[i] \in D!Slots => stale[i] \subseteq D!RegionOf(age[i])

\* An image in circulation is presented again before its age has gone once
\* round the int: from -1 it would become 0, which is tracked, and the region
\* of the newest image would be repainted in it (vulkan/impl.c:187-189).
AgesGoOn == \A i \in Images \ lost : age[i] # -1

\* blt_damage never points beside its array, whatever the age.
PointsIntoRing == returned \in D!Slots \cup {InfiniteDamage, NoRegion}
=============================================================================
