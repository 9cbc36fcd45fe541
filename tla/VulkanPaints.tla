---------------------------- MODULE VulkanPaints ----------------------------
(***************************************************************************)
(* The Vulkan back end implements Painter: the strokes not yet painted are *)
(* those the GPU would paint if it executed everything now.  This is about *)
(* a GPU that goes on after one of KnownMisuses as the code expects: an    *)
(* update of the descriptor set takes effect at once, a semaphore that is  *)
(* signalled stays so, and what was painted is there to be copied.         *)
(***************************************************************************)
EXTENDS Vulkan

\* The strokes recorded for t and not submitted: the draws, then the vertices
\* a flush would draw.
Unsubmitted(t) ==
    IF dc[t].recording THEN Strokes(t, dc[t].draws \o Draw(dc[t], ctx)) ELSE <<>>

Together(batches) ==
    Seqs!FlattenSeq([k \in 1 .. Len(batches) |->
                        Strokes(batches[k].target, batches[k].draws)])

AskedStrokes ==
    Together(queue)
        \o (IF ctx.dst = NoImage THEN <<>> ELSE Unsubmitted(ctx.dst))

AsAsked == INSTANCE Painter WITH
    Pens <- [dst : Sources \cup {NoImage}, dorg : Origins,
             src : Sources \cup {NoImage}, sorg : Origins, rect : Rects \cup {NoRect},
             refused : BOOLEAN],
    asked <- AskedStrokes

\* Every rectangle of blt_rect is painted once, with the target, source and
\* origins in force when it was asked for: whatever is flushed, bound, submitted or
\* overwritten afterwards changes no stroke that waits.  Though the GPU executes
\* batches side by side, no stroke overtakes one on the same image, or one that
\* draws on what it copies from, or copies from what it draws on.  A refused
\* submission loses the last strokes of the target that is left.
PaintsAsAsked == AsAsked!Spec

\* When the client has left its destination (blt_dst(ctx, NULL, 0, 0)) and
\* makes no other, all its strokes that no refusal lost come to be painted:
\* submit leaves nothing in a buffer that is not handed to the GPU.
EverythingPainted ==
    (ctx.dst = NoImage)
        ~> \/ ctx.dst # NoImage
           \/ queue = <<>> /\ \A t \in Targets : dc[t].draws = <<>> /\ dc[t].pos = dc[t].len
=============================================================================
