----------------------------- MODULE AmdgpuPaints -----------------------------
(***************************************************************************)
(* The amdgpu back end implements Canvas: the strokes not yet carried out  *)
(* on a target are those of its stream, as far as no submission executed   *)
(* so far reached, and of its vertices not drawn.                          *)
(***************************************************************************)
EXTENDS Amdgpu

AllStrokes(t) ==
    Strokes(t, drw[t].draws \o (IF t = ctx.dst THEN Undrawn(drw[t], ctx) ELSE <<>>))

AsAsked == INSTANCE Canvas WITH
    Pens <- [dst : Sources \cup {NoImage}, dorg : Origins, src : Sources \cup {NoImage},
             sorg : Origins, rects : Calls \cup {NoCall}],
    asked <- [t \in Targets |->
                 SubSeq(AllStrokes(t), done[t] + 1, Len(AllStrokes(t)))]

\* Every image comes to show what was asked for on it, in order and with the
\* sources and origins of the time, though each submission executes the ones
\* before it again, and though a refused one is executed only with the next.
PaintsAsAsked == AsAsked!Spec

\* When the client has left its destination and makes no other, all strokes
\* come to be carried out.
EverythingPainted ==
    (ctx.dst = NoImage)
        ~> \/ ctx.dst # NoImage
           \/ \A t \in Targets : done[t] = Len(drw[t].vert)
=============================================================================
