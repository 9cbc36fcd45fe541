-------------------------------- MODULE Canvas --------------------------------
(***************************************************************************)
(* What a client of blt.h relies on, seen on the images: the strokes asked *)
(* for on an image are carried out on it once each, in their order, with   *)
(* the source and the origins chosen last before them, some time later.    *)
(***************************************************************************)
EXTENDS Raster

CONSTANTS
    Targets,    \* the images drawn on
    Pens,       \* the records [dst, dorg, src, sorg, rects] of what a client chose
    Calls       \* the sequences of rectangles of its calls

VARIABLES
    pen,        \* what the client chose last, and its last rectangles
    asked,      \* for each target the strokes asked for and not carried out
    canvas      \* what each target shows

vars == <<pen, asked, canvas>>

Strokes(p) ==
    [i \in 1 .. Len(p.rects) |->
        [rect |-> p.rects[i], dorg |-> p.dorg, sorg |-> p.sorg, src |-> p.src]]

Choose ==
    /\ pen' \in Pens
    /\ pen'.rects = pen.rects
    /\ UNCHANGED <<asked, canvas>>

Ask(rects) ==
    /\ pen.dst \in Targets
    /\ pen' = [pen EXCEPT !.rects = rects]
    /\ asked' = [asked EXCEPT ![pen.dst] = @ \o Strokes(pen')]
    /\ UNCHANGED canvas

CarryOut(t, n) ==
    /\ canvas' = [canvas EXCEPT ![t] = Under(@, SubSeq(asked[t], 1, n))]
    /\ asked' = [asked EXCEPT ![t] = SubSeq(@, n + 1, Len(@))]
    /\ UNCHANGED pen

Init ==
    /\ pen \in Pens
    /\ asked = [t \in Targets |-> <<>>]
    /\ canvas = [t \in Targets |-> BlankImage]

Next ==
    \/ Choose
    \/ \E rects \in Calls : Ask(rects)
    \/ \E t \in Targets : \E n \in 0 .. Len(asked[t]) : CarryOut(t, n)

Spec == Init /\ [][Next]_vars
=============================================================================
