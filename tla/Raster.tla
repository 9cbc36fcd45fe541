-------------------------------- MODULE Raster --------------------------------
(***************************************************************************)
(* What drawing does to an image.  A rectangle is a set of cells before    *)
(* it is moved by the origin of the destination; a stroke [rect, dorg,     *)
(* sorg, src] covers cells of its image with what its source shows there.  *)
(* Blending is off in both back ends: a stroke hides what is below it.     *)
(***************************************************************************)
EXTENDS Integers, Sequences

CONSTANTS
    Cells,      \* the cells of an image
    Blank       \* what a cell of a new image holds

Covered(stroke) == {c \in Cells : c - stroke.dorg \in stroke.rect}

Paint(stroke) == [dorg |-> stroke.dorg, sorg |-> stroke.sorg, src |-> stroke.src]

BlankImage == [c \in Cells |-> Blank]

Last(over) == CHOOSE i \in over : \A j \in over : j <= i

\* The image under the strokes: each cell shows the last one that covers it.
Under(image, strokes) ==
    [c \in Cells |->
        LET over == {i \in 1 .. Len(strokes) : c \in Covered(strokes[i])}
        IN  IF over = {} THEN image[c]
            ELSE Paint(strokes[Last(over)])]
=============================================================================
