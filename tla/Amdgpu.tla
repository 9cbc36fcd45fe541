-------------------------------- MODULE Amdgpu --------------------------------
(***************************************************************************)
(* The amdgpu back end (amdgpu/impl.c): setup, draw, submit and rect, the  *)
(* command stream and the vertex buffer of each destination image, and the *)
(* GPU that executes what was submitted while the client goes on.          *)
(*                                                                         *)
(* Neither buffer of an image is ever reset: a submission hands the GPU    *)
(* the whole stream from its start, what earlier ones held included.  The  *)
(* client and the GPU take turns as in Vulkan.  Lengths of streams count   *)
(* 32-bit words, those of vertex buffers rectangles (six words each).      *)
(***************************************************************************)
EXTENDS Blt, Raster

CONSTANTS
    Targets,        \* images made with BLT_IMAGE_DST: they have a struct draw
    Textures,       \* images made with BLT_IMAGE_SRC
    Calls,          \* the sequences of rectangles a client passes to blt_rect
    NoCall,         \* no such call yet
    StreamCap,      \* cmd.cap
    VertexCap,      \* vert.cap, after the buffer descriptor at its start
    PreambleLen, BindLen, DrawLen,  \* words of a preamble, a source, a draw
    Align,          \* a submission is padded to this many words
    RingCap,        \* so many submissions wait in the kernel, a next one blocks
    Failures,       \* "submit": the kernel may refuse a submission; "garbage":
                    \* memory that was not initialized may not be NULL
    Rules           \* what the client takes care of (see MayCall)

ASSUME TargetsAssumption == Targets \subseteq Images /\ Textures \subseteq Images
ASSUME CallsAssumption == \A rects \in Calls : rects \in Seq(SUBSET Cells) /\ rects # <<>>
ASSUME LengthsAssumption ==
    /\ StreamCap \in Nat /\ VertexCap \in Nat /\ Align \in Nat \ {0}
    /\ PreambleLen \in Nat /\ BindLen \in Nat /\ DrawLen \in Nat

VARIABLES
    ctx,        \* the base of struct context
    drw,        \* the struct draw of each target: its stream and its vertices
    queue,      \* the submissions not yet executed
    misuse,     \* what the code did that C or the hardware gives no meaning to
    pen,        \* what the client asked for with its calls that succeeded
    canvas,     \* what each target shows
    done        \* how many strokes of each target's stream were ever executed

vars == <<ctx, drw, queue, misuse, pen, canvas, done>>

\* bound is the source the stream leaves in the registers of the pixel shader.
NewDraw == [len |-> 0, draws |-> <<>>, vert |-> <<>>, pos |-> 0, bound |-> NoImage]

Init ==
    /\ ctx = NewContext
    /\ drw = [t \in Targets |-> NewDraw]
    /\ queue = <<>>
    /\ misuse = {}
    /\ pen = [dst |-> NoImage, dorg |-> 0, src |-> NoImage, sorg |-> 0, rects |-> NoCall]
    /\ canvas = [t \in Targets |-> BlankImage]
    /\ done = [t \in Targets |-> 0]

-----------------------------------------------------------------------------
(* The functions of impl.c take the state of the back end and return it    *)
(* changed.  Before some of them stands what a mistake would make of them, *)
(* for the checks that the properties notice it.                           *)

State == [ctx |-> ctx, drw |-> drw, queue |-> queue, misuse |-> misuse]

Misuses == {"stream overrun", "vertex overrun", "no shader", "NULL source", "wild draw"}

Blame(m, what, wrong) == [m EXCEPT !.misuse = IF wrong THEN @ \cup {what} ELSE @]

DrawOf(m, t, d) == [m EXCEPT !.drw[t] = d]

\* n words more in t's stream, asserted to be there.
Emit(m, t, n) ==
    Blame(DrawOf(m, t, [m.drw[t] EXCEPT !.len = @ + n]),
          "stream overrun", m.drw[t].len + n > StreamCap)

\* The vertices no draw has drawn, with the origins of ctx and the source bound.
Undrawn(d, c) ==
    [i \in 1 .. Len(d.vert) - d.pos |->
        [slot |-> d.pos + i, dorg |-> c.dorg, sorg |-> c.sorg, with |-> d.bound]]

\* Mistake: the next draw draws these vertices again.
DrawKeepsPos(m) ==
    LET t  == m.ctx.dst
        m1 == Emit(m, t, DrawLen)
        d  == m1.drw[t]
    IN  DrawOf(m1, t, [d EXCEPT !.draws = @ \o Undrawn(d, m.ctx)])

\* A draw is recorded, of no vertices if there are none.
Draw(m) ==
    LET t  == m.ctx.dst
        m1 == Emit(m, t, DrawLen)
        d  == m1.drw[t]
        m2 == DrawOf(m1, t, [d EXCEPT !.draws = @ \o Undrawn(d, m.ctx), !.pos = Len(d.vert)])
    IN  Blame(m2, "no shader", d.pos < Len(d.vert) /\ d.bound = NoImage)

Pad(m, t) == Emit(m, t, (Align - (m.drw[t].len % Align)) % Align)

\* The images among the six buffers a submission names.
Listed(t) == {t}

\* Mistake: the destination is left without a submission.
SubmitNothing(m, fails) == m

\* Mistake: the stream starts anew after a submission.
SubmitResets(m, fails) ==
    LET t  == m.ctx.dst
        m1 == Pad(Draw(m), t)
    IN  [m1 EXCEPT !.queue = Append(@, [target |-> t, size |-> Len(m1.drw[t].draws),
                                        images |-> Listed(t)]),
                   !.drw[t] = NewDraw]

\* The stream up to here goes to the queue.  If the kernel refuses it, it
\* stays for the next submission: the caller ignores what submit returns.
Submit(m, fails) ==
    LET t  == m.ctx.dst
        m1 == Pad(Draw(m), t)
    IN  IF "submit" \in fails THEN m1
        ELSE [m1 EXCEPT !.queue = Append(@, [target |-> t, size |-> Len(m1.drw[t].draws),
                                             images |-> Listed(t)])]

\* Mistake: the stream of a target is thought to have the source of the last one.
ForgetNothing(m) == m

ForgetSource(m) == [m EXCEPT !.ctx.src = NoImage]

\* All state of the pipeline but the source.
Preamble(m, t) == Emit(m, t, PreambleLen)

Bind(m, t, src) ==
    LET m1 == Emit(m, t, BindLen)
    IN  DrawOf(m1, t, [m1.drw[t] EXCEPT !.bound = src])

Return(m, ret) == [m |-> m, ret |-> ret]

\* Mistake: the vertices of the old source wait for the next draw.
SelectSourceUndrawn(m, t, src) ==
    IF src \in {m.ctx.src, NoImage} THEN Return(m, 0) ELSE Return(Bind(m, t, src), 0)

\* The draw goes to the destination of ctx, which may still be the old one.
SelectSource(m, t, src) ==
    IF src = m.ctx.src THEN Return(m, 0)
    ELSE LET m1 == IF m.ctx.dst # NoImage THEN Draw(m) ELSE m
         IN  IF src = NoImage THEN Return(Blame(m1, "NULL source", TRUE), -1)
             ELSE Return(Bind(m1, t, src), 0)

\* new_image leaves the pointer img->draw uninitialized in an image that is no
\* target; setup takes one that is not NULL for a struct draw.
Setup(dst, src, msk, fails) ==
    LET m1 == IF ctx.dst # NoImage /\ dst # ctx.dst THEN Submit(State, fails) ELSE State
    IN  IF msk # NoImage THEN Return(State, -1)
        ELSE IF dst = NoImage THEN Return(m1, 0)
        ELSE IF dst \notin Targets THEN
            Return(Blame(m1, "wild draw", dst \in Images /\ "garbage" \in fails), -1)
        ELSE IF dst = ctx.dst THEN SelectSource(m1, dst, src)
        ELSE SelectSource(Preamble(ForgetSource(m1), dst), dst, src)

\* The end of a call of blt.c: assigned is ctx, chosen the client's pen if
\* setup succeeded.
Finish(r, assigned, chosen) ==
    /\ pen' = IF r.ret < 0 THEN pen ELSE chosen
    /\ ctx' = IF r.ret < 0 THEN r.m.ctx ELSE assigned
    /\ drw' = r.m.drw
    /\ queue' = r.m.queue
    /\ misuse' = r.m.misuse
    /\ UNCHANGED <<canvas, done>>

-----------------------------------------------------------------------------
(* The calls of blt.h.                                                     *)

BltSetup(dst, dorg, src, sorg, msk) ==
    \E fails \in SUBSET Failures :
        LET r == Setup(dst, src, msk, fails)
        IN  Finish(r, AfterSetup(r.m.ctx, dst, dorg, src, sorg, msk),
                    [pen EXCEPT !.dst = dst, !.dorg = dorg, !.src = src, !.sorg = sorg])

BltOp(op) ==
    LET r == Setup(ctx.dst, ctx.src, ctx.msk, {})
    IN  Finish(r, AfterOp(r.m.ctx, op), pen)

BltDst(dst, dorg) ==
    \E fails \in SUBSET Failures :
        LET r == Setup(dst, ctx.src, ctx.msk, fails)
        IN  Finish(r, AfterDst(r.m.ctx, dst, dorg), [pen EXCEPT !.dst = dst, !.dorg = dorg])

BltSrc(src, sorg) ==
    LET r == Setup(ctx.dst, src, ctx.msk, {})
    IN  Finish(r, AfterSrc(r.m.ctx, src, sorg), [pen EXCEPT !.src = src, !.sorg = sorg])

BltMask(msk) ==
    LET r == Setup(ctx.dst, ctx.src, msk, {})
    IN  Finish(r, AfterMask(r.m.ctx, msk), pen)

\* The loop of rect counts len down and does not move rect on: the first
\* rectangle is written len times.  Nothing compares vert->len with its cap.
BltRect(rects) ==
    LET t  == ctx.dst
        d  == [drw[t] EXCEPT !.vert = @ \o [i \in 1 .. Len(rects) |-> rects[1]]]
        m1 == Blame(DrawOf(State, t, d), "vertex overrun", Len(d.vert) > VertexCap)
    IN  Finish(Return(m1, 0), ctx, [pen EXCEPT !.rects = rects])

-----------------------------------------------------------------------------
(* The GPU executes the submissions in their order.                        *)

\* What a draw paints, read from the vertex buffer.
Stroke(t, d) ==
    [rect |-> drw[t].vert[d.slot], dorg |-> d.dorg, sorg |-> d.sorg, src |-> d.with]

Strokes(t, draws) == [i \in 1 .. Len(draws) |-> Stroke(t, draws[i])]

\* The stream is read when it is executed, from its start to its length at
\* the submission: strokes executed before are executed again.
Execute ==
    /\ queue # <<>>
    /\ LET t == Head(queue).target
           n == Head(queue).size
       IN  /\ canvas' = [canvas EXCEPT ![t] = Under(@, Strokes(t, SubSeq(drw[t].draws, 1, n)))]
           /\ done' = [done EXCEPT ![t] = n]
    /\ queue' = Tail(queue)
    /\ UNCHANGED <<ctx, drw, misuse, pen>>

-----------------------------------------------------------------------------
(* The client.  It never draws without a destination or passes a NULL      *)
(* source with a destination.  After something without a meaning (a failed *)
(* assertion ends the program) it makes no call.                           *)

Pending == ctx.dst # NoImage /\ drw[ctx.dst].pos < Len(drw[ctx.dst].vert)

\* Words that one call and leaving its destination after it emit at most.
Reserve == PreambleLen + BindLen + 3 * DrawLen + 2 * Align

MayCall(dst, dorg, src, sorg) ==
    /\ misuse = {}
    /\ dst # ctx.dst => Len(queue) < RingCap
    /\ src = NoImage => dst = NoImage \/ dst # ctx.dst \/ ctx.src = NoImage
    \* an image is used as it was declared, not copied onto itself
    /\ "declared" \in Rules => /\ src \in (Textures \ {dst}) \cup Solids \cup {NoImage}
                               /\ dst \in Targets \cup Solids \cup {NoImage}
    \* an image copied from is not drawn on: the copy is made again later
    /\ "steady" \in Rules => src \notin Targets
    \* an origin changes only together with its image, or with nothing pending
    /\ "origin" \in Rules =>
          \/ <<dorg, sorg>> = <<ctx.dorg, ctx.sorg>>
          \/ dst # ctx.dst \/ src # ctx.src \/ ~Pending
    \* a stream with no room left is left for good
    /\ "stream" \in Rules =>
          \/ dst = NoImage
          \/ \A t \in {dst, ctx.dst} \cap Targets : drw[t].len + Reserve <= StreamCap

MayRect(rects) ==
    /\ misuse = {}
    /\ ctx.dst # NoImage
    /\ "source" \in Rules => pen.src # NoImage
    /\ "room" \in Rules => Len(drw[ctx.dst].vert) + Len(rects) <= VertexCap
    \* one call draws one rectangle, however often
    /\ "alike" \in Rules => \A i \in 1 .. Len(rects) : rects[i] = rects[1]

Client ==
    \/ \E dst \in Sources \cup {NoImage}, src \in Sources \cup {NoImage},
          dorg \in Origins, sorg \in Origins, msk \in Masks \cup {NoImage} :
            /\ MayCall(dst, dorg, src, sorg)
            /\ BltSetup(dst, dorg, src, sorg, msk)
    \/ \E op \in Ops : misuse = {} /\ BltOp(op)
    \/ \E dst \in Sources \cup {NoImage}, dorg \in Origins :
            /\ MayCall(dst, dorg, ctx.src, ctx.sorg)
            \* blt_dst forgets the source: it is named again before the next one
            /\ "source" \in Rules => dst = ctx.dst \/ ctx.src = pen.src
            /\ BltDst(dst, dorg)
    \/ \E src \in Sources \cup {NoImage}, sorg \in Origins :
            MayCall(ctx.dst, ctx.dorg, src, sorg) /\ BltSrc(src, sorg)
    \/ \E msk \in Masks \cup {NoImage} : misuse = {} /\ BltMask(msk)
    \/ \E rects \in Calls : MayRect(rects) /\ BltRect(rects)

Next == Client \/ Execute

\* The GPU works on whatever the client does.
Spec == Init /\ [][Next]_vars /\ WF_vars(Execute)

-----------------------------------------------------------------------------
(* Correctness.                                                            *)

Draws == [slot : Nat, dorg : Origins, sorg : Origins, with : Sources \cup {NoImage}]

DrawStates ==
    [len : Nat, draws : Seq(Draws), vert : Seq(SUBSET Cells), pos : Nat,
     bound : Sources \cup {NoImage}]

Batches == [target : Targets, size : Nat, images : SUBSET Images]

\* Types: the destination always has a struct draw (draw dereferences
\* dst->draw, impl.c:593), and a submission ends within its stream.
TypeOK ==
    /\ ctx \in Contexts
    /\ ctx.dst \in Targets \cup {NoImage}
    /\ drw \in [Targets -> DrawStates]
    /\ queue \in Seq(Batches)
    /\ \A k \in 1 .. Len(queue) : queue[k].size <= Len(drw[queue[k].target].draws)
    /\ misuse \subseteq Misuses
    /\ done \in [Targets -> Nat]
    /\ \A t \in Targets : done[t] <= Len(drw[t].draws)

\* The draws up to pos draw the vertices in their order, each once.
Tiled(d) ==
    /\ Len(d.draws) = d.pos
    /\ \A i \in 1 .. Len(d.draws) : d.draws[i].slot = i
    /\ d.pos <= Len(d.vert)

Drawn(d) == d.pos = Len(d.vert)

\* Every vertex is drawn exactly once and in order, and only the destination
\* has vertices not drawn yet: what is left is drawn first (impl.c:629), a
\* change of source draws with the old one (impl.c:889).
DrawsTile ==
    \A t \in Targets : Tiled(drw[t]) /\ (t # ctx.dst => Drawn(drw[t]))

Extends(new, old) == Len(old) <= Len(new) /\ SubSeq(new, 1, Len(old)) = old

\* What a submission may still read is never written again: the stream and
\* the vertices only grow.  This is what makes it safe to wait for nothing
\* between submissions (impl.c:622-661).
AppendOnly ==
    [][\A t \in Targets :
          /\ Extends(drw'[t].draws, drw[t].draws)
          /\ Extends(drw'[t].vert, drw[t].vert)]_vars

\* Nothing is done that C or the hardware gives no meaning to: no stream or
\* vertex buffer is overrun, no vertices are drawn before a source was bound,
\* no NULL source or uninitialized pointer is dereferenced.
NoMisuse == misuse = {}

\* The assertion of emit (impl.c:513), cmd->len < cmd->cap, holds.
StreamFits == "stream overrun" \notin misuse

\* The images a submission reads are among those it names to the kernel.
SourcesListed ==
    \A k \in 1 .. Len(queue) : \A i \in 1 .. queue[k].size :
        drw[queue[k].target].draws[i].with \in Images
            => drw[queue[k].target].draws[i].with \in queue[k].images
=============================================================================
