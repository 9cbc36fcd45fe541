------------------------------ MODULE MCVulkan ------------------------------
(* Two targets, one of which is a texture of the other and may be a mask,  *)
(* an image that is a texture only, and a solid colour.                    *)
EXTENDS VulkanPaints

CONSTANTS t1, t2, pic, red, r1, r2

MCImages  == {t1, t2, pic}
MCTargets == {t1, t2}
MCTextures == {t1, pic}
MCSolids  == {red}
MCRects   == {r1, r2}
MCMasks   == {t1}

\* A client that chooses all at once.
MCSetups ==
    {[dst |-> t1, dorg |-> 0, src |-> red, sorg |-> 0, msk |-> NoImage],
     [dst |-> t2, dorg |-> 1, src |-> t1, sorg |-> 0, msk |-> NoImage]}

\* A client that goes from one to the other, moves the origin of t2 without its
\* image, names what cannot be drawn on, and leaves its destination.
MCDsts ==
    {[dst |-> t1, dorg |-> 0], [dst |-> t2, dorg |-> 0],
     [dst |-> red, dorg |-> 0], [dst |-> NoImage, dorg |-> 0]}

AllRules    == {"declared", "idle", "settled", "texture", "origin", "source", "room", "slots"}
AllFailures == {"begin", "submit"}
=============================================================================
