----------------------------- MODULE MCFrameLoop -----------------------------
(* Three images and a tracker of two regions, so that an age grows past    *)
(* what is tracked.                                                        *)
EXTENDS FrameLoop

CONSTANTS a, b, c

MCImages == {a, b, c}

\* The client knows that an age can be negative, and that the age
\* num_regions is answered with the region of age 0.
NegativeAndLast == (IntMin .. -1) \cup {NumRegions}
LastOnly == {NumRegions}
=============================================================================
