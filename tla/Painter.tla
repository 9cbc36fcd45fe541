------------------------------- MODULE Painter -------------------------------
(***************************************************************************)
(* What a client of blt.h relies on: every rectangle is painted once, as   *)
(* it was asked for, with the destination, the source and the origins      *)
(* chosen last before it, some time after the destination was left, and    *)
(* never so early or late that its order with another could be seen.       *)
(***************************************************************************)
EXTENDS Integers, Sequences

CONSTANTS
    Pens,       \* the records [dst, dorg, src, sorg, rect, refused] of what a client
                \* chose, and whether strokes were refused at that
    Rects       \* the rectangles it paints

VARIABLES
    pen,        \* what the client chose last, and its last rectangle
    asked       \* the strokes asked for and not painted yet

vars == <<pen, asked>>

Stroke(p) ==
    [target |-> p.dst, rect |-> p.rect, dorg |-> p.dorg, sorg |-> p.sorg, src |-> p.src]

\* A refusal loses the last strokes for the destination that is left.
Choose ==
    /\ pen' \in Pens
    /\ pen'.rect = pen.rect
    /\ \/ asked' = asked
       \/ /\ pen'.refused
          /\ \E n \in 0 .. Len(asked) :
                /\ asked' = SubSeq(asked, 1, n)
                /\ \A i \in n + 1 .. Len(asked) : asked[i].target = pen.dst

Ask(r) ==
    /\ pen' = [pen EXCEPT !.rect = r, !.refused = FALSE]
    /\ asked' = Append(asked, Stroke(pen'))

\* The images show which of two strokes was first, if both draw on one image, or
\* one draws on what the other copies from.
Conflict(a, b) == a.target \in {b.target, b.src} \/ b.target = a.src

Paint(i) ==
    /\ \A j \in 1 .. i - 1 : ~Conflict(asked[j], asked[i])
    /\ asked' = SubSeq(asked, 1, i - 1) \o SubSeq(asked, i + 1, Len(asked))
    /\ UNCHANGED pen

Init ==
    /\ pen \in Pens
    /\ asked = <<>>

Next ==
    \/ Choose
    \/ \E r \in Rects : Ask(r)
    \/ \E i \in 1 .. Len(asked) : Paint(i)

Spec == Init /\ [][Next]_vars
=============================================================================
