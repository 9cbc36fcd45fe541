------------------------------- MODULE Vulkan -------------------------------
(***************************************************************************)
(* The Vulkan back end (vulkan/impl.c): setup, flush, submit and rect, the *)
(* draw context of each destination image, and the GPU that executes what  *)
(* was submitted while the client goes on.                                 *)
(*                                                                         *)
(* One call of the client is one step; the GPU's steps fall between calls. *)
(* Lengths count rectangles (12 ints of the vertex buffer each).  Nothing  *)
(* in the code waits for the GPU or orders its batches: they are executed  *)
(* side by side, and read the vertex memory and the descriptor set as they *)
(* are by then.                                                            *)
(***************************************************************************)
EXTENDS Blt, Sequences

Seqs == INSTANCE SequencesExt

CONSTANTS
    Targets,        \* images made with BLT_IMAGE_DST: they have a draw_ctx
    Textures,       \* images made with BLT_IMAGE_SRC
    Rects,          \* the rectangles a client draws
    NoRect,         \* vertex memory nobody wrote
    VertexCap,      \* dc->vertex_cap
    CopyPipeline,   \* ctx->copy_rgb_pipeline
    NoPipeline,     \* no pipeline bound yet
    Setups,         \* the arguments a client passes to blt_setup, as records
    Dsts,           \* the arguments it passes to blt_dst, as records
    SrcOrigins,     \* the origins it passes to blt_src
    Failures,       \* the Vulkan calls that may fail: "begin", "submit"
    Rules           \* what the client takes care of (see MayCall)

ASSUME TargetsAssumption == Targets \subseteq Images /\ Textures \subseteq Images
ASSUME SetupsAssumption ==
    Setups \subseteq [dst : Sources \cup {NoImage}, dorg : Origins,
                      src : Sources \cup {NoImage}, sorg : Origins, msk : Masks \cup {NoImage}]
ASSUME DstsAssumption == Dsts \subseteq [dst : Sources \cup {NoImage}, dorg : Origins]
ASSUME SrcOriginsAssumption == SrcOrigins \subseteq Origins
ASSUME RectsAssumption == NoRect \notin Rects
ASSUME VertexCapAssumption == VertexCap \in Nat \ {0}
ASSUME PipelinesAssumption ==
    /\ CopyPipeline \notin Solids
    /\ NoPipeline \notin Sources \cup {CopyPipeline}

VARIABLES
    ctx,        \* the base of struct context
    dc,         \* the draw context of each target
    desc,       \* the image in copy_rgb_pipeline.desc, the only descriptor set
    queue,      \* the batches submitted to ctx->queue, with the draws not yet executed
    misuse,     \* what the code did that Vulkan or C gives no meaning to
    pen         \* what the client asked for with its calls that succeeded, and
                \* whether the submission of its last call was refused

vars == <<ctx, dc, desc, queue, misuse, pen>>

Slots == 0 .. VertexCap - 1

NewDrawContext ==
    [recording |-> FALSE, vertex |-> [i \in Slots |-> NoRect],
     len |-> 0, pos |-> 0, bound |-> NoPipeline, set |-> FALSE, draws |-> <<>>,
     submitted |-> FALSE]

Init ==
    /\ ctx = NewContext
    /\ dc = [t \in Targets |-> NewDrawContext]
    /\ desc = NoImage
    /\ queue = <<>>
    /\ misuse = {}
    /\ pen = [dst |-> NoImage, dorg |-> 0, src |-> NoImage, sorg |-> 0, rect |-> NoRect,
              refused |-> FALSE]

-----------------------------------------------------------------------------
(* The functions of impl.c take the state of the back end and return it    *)
(* changed.  Before some of them stands what a mistake would make of them, *)
(* for the checks that the properties notice it.                           *)

State == [ctx |-> ctx, dc |-> dc, desc |-> desc, queue |-> queue, misuse |-> misuse]

\* What the code does whoever calls it: no barrier puts an image into the layout
\* that is named for it (impl.c:658, 697) or orders the batches that use it, the
\* descriptor set is updated in a recording that has it bound (688), and a
\* semaphore that nothing waits for is signalled by each submission (602).
KnownMisuses == {"no barrier", "bound set updated", "signalled again"}

Misuses == KnownMisuses \cup
           {"not recording", "no pipeline", "begun while pending", "pending set updated",
            "NULL source", "vertex overrun"}

Blame(m, what, wrong) == [m EXCEPT !.misuse = IF wrong THEN @ \cup {what} ELSE @]

\* A command recorded into t's buffer, which has to be recording.
Command(m, t) == Blame(m, "not recording", ~m.dc[t].recording)

Busy(m, t) == \E i \in 1 .. Len(m.queue) : m.queue[i].target = t

\* The vertices pos .. len-1 with the origins of ctx and what is bound.
Draw(d, c) ==
    [i \in 1 .. d.len - d.pos |->
        [slot |-> d.pos + i - 1, dorg |-> c.dorg, sorg |-> c.sorg, with |-> d.bound]]

DrawContextOf(m, t, d) == [m EXCEPT !.dc[t] = d]

Flush(m) ==
    LET t == m.ctx.dst
        d == m.dc[t]
        m1 == DrawContextOf(m, t, [d EXCEPT !.draws = @ \o Draw(d, m.ctx), !.pos = d.len])
    IN  IF d.pos = d.len THEN m
        ELSE Blame(Command(m1, t), "no pipeline", d.bound = NoPipeline)

EndBuffer(m) ==
    LET t == m.ctx.dst
        m1 == Command(Flush(m), t)
    IN  DrawContextOf(m1, t, [m1.dc[t] EXCEPT !.recording = FALSE])

Enqueue(m, t, draws, set) ==
    [m EXCEPT !.queue = Append(@, [target |-> t, draws |-> draws, set |-> set])]

\* Mistake: the destination is left without a submission.
SubmitNothing(m, fails) == m

\* Mistake: vertex_pos survives the submission.
SubmitKeepsPos(m, fails) ==
    LET t == m.ctx.dst
        m1 == EndBuffer(m)
    IN  Enqueue(DrawContextOf(m1, t, [m1.dc[t] EXCEPT !.len = 0]),
                t, m1.dc[t].draws, m1.dc[t].set)

\* What the buffer holds goes to the queue, or is lost: the caller ignores
\* what submit returns.
Submit(m, fails) ==
    LET t  == m.ctx.dst
        m1 == EndBuffer(m)
        d  == [m1.dc[t] EXCEPT !.draws = <<>>, !.bound = NoPipeline, !.set = FALSE]
        m2 == Blame(m1, "signalled again", d.submitted)
    IN  IF "submit" \in fails THEN DrawContextOf(m1, t, d)
        ELSE Enqueue(DrawContextOf(m2, t, [d EXCEPT !.len = 0, !.pos = 0, !.submitted = TRUE]),
                     t, m1.dc[t].draws, m1.dc[t].set)

\* Mistake: a new recording is thought to have the pipeline of the last one.
ForgetNothing(m) == m

ForgetSource(m) == [m EXCEPT !.ctx.src = NoImage]

Begin(m, t) ==
    DrawContextOf(Blame(Blame(m, "begun while pending", Busy(m, t)), "no barrier", TRUE), t,
                  [m.dc[t] EXCEPT !.recording = TRUE])

\* Some batch not completed yet has the descriptor set bound.
SetPending(m) == \E i \in 1 .. Len(m.queue) : m.queue[i].set

\* An image goes into the one descriptor set, once that is bound in t's recording.
Update(m, t, src) ==
    LET m1 == Blame(Blame(m, "no barrier", TRUE), "bound set updated", m.dc[t].set)
    IN  [Blame(m1, "pending set updated", SetPending(m)) EXCEPT !.desc = src]

\* The pipeline of a source.
Bind(m, t, src) ==
    LET copy == src \in Images
        d    == [m.dc[t] EXCEPT !.bound = IF copy THEN CopyPipeline ELSE src,
                                !.set = @ \/ copy]
        m1   == DrawContextOf(Command(m, t), t, d)
    IN  IF copy THEN Update(m1, t, src) ELSE m1

Return(m, ret) == [m |-> m, ret |-> ret]

\* Mistake: the vertices of the old source wait for the next flush.
SelectSourceUnflushed(m, dst, src) ==
    IF src \in {m.ctx.src, NoImage} THEN Return(m, 0) ELSE Return(Bind(m, dst, src), 0)

SelectSource(m, dst, src) ==
    IF src = m.ctx.src THEN Return(m, 0)
    ELSE LET m1 == IF m.ctx.dst # NoImage THEN Flush(m) ELSE m
         IN  IF src = NoImage THEN Return(Blame(m1, "NULL source", TRUE), -1)
             ELSE Return(Bind(m1, dst, src), 0)

Setup(dst, src, msk, fails) ==
    LET retarget == dst # ctx.dst
        m1 == IF ctx.dst # NoImage /\ retarget THEN Submit(State, fails) ELSE State
        m2 == ForgetSource(m1)
    IN  IF dst = NoImage THEN Return(m1, 0)
        ELSE IF dst \notin Targets \/ msk # NoImage THEN Return(m1, -1)
        ELSE IF ~retarget THEN SelectSource(m1, dst, src)
        ELSE IF "begin" \in fails THEN Return(m2, -1)
        ELSE SelectSource(Begin(m2, dst), dst, src)

\* The end of a call of blt.c: assigned is ctx, chosen the client's pen if
\* setup succeeded.
Finish(r, assigned, chosen, fails) ==
    /\ pen' = [IF r.ret < 0 THEN pen ELSE chosen EXCEPT !.refused = "submit" \in fails]
    /\ ctx' = IF r.ret < 0 THEN r.m.ctx ELSE assigned
    /\ dc' = r.m.dc
    /\ desc' = r.m.desc
    /\ queue' = r.m.queue
    /\ misuse' = r.m.misuse

-----------------------------------------------------------------------------
(* The calls of blt.h.                                                     *)

\* A call that leaves a destination submits, one that takes another begins.
Faces(dst, f) ==
    /\ dst # ctx.dst
    /\ \/ f = "submit" /\ ctx.dst # NoImage
       \/ f = "begin" /\ dst \in Targets

\* Bound: one failure in a call.
Faced(dst) == {{}} \cup {{f} : f \in {g \in Failures : Faces(dst, g)}}

BltSetup(dst, dorg, src, sorg, msk) ==
    \E fails \in Faced(dst) :
        LET r == Setup(dst, src, msk, fails)
        IN  Finish(r, AfterSetup(r.m.ctx, dst, dorg, src, sorg, msk),
                    [pen EXCEPT !.dst = dst, !.dorg = dorg, !.src = src, !.sorg = sorg], fails)

BltOp(op) ==
    LET r == Setup(ctx.dst, ctx.src, ctx.msk, {})
    IN  Finish(r, AfterOp(r.m.ctx, op), pen, {})

BltDst(dst, dorg) ==
    \E fails \in Faced(dst) :
        LET r == Setup(dst, ctx.src, ctx.msk, fails)
        IN  Finish(r, AfterDst(r.m.ctx, dst, dorg),
                    [pen EXCEPT !.dst = dst, !.dorg = dorg], fails)

BltSrc(src, sorg) ==
    LET r == Setup(ctx.dst, src, ctx.msk, {})
    IN  Finish(r, AfterSrc(r.m.ctx, src, sorg), [pen EXCEPT !.src = src, !.sorg = sorg], {})

BltMask(msk) ==
    LET r == Setup(ctx.dst, ctx.src, msk, {})
    IN  Finish(r, AfterMask(r.m.ctx, msk), pen, {})

\* One turn of the loop of rect: cap - len is unsigned, so past the end of
\* the buffer it is no longer small.
BltRect(r) ==
    LET t  == ctx.dst
        m1 == IF dc[t].len = VertexCap THEN Flush(State) ELSE State
        m2 == Blame(m1, "vertex overrun", dc[t].len >= VertexCap)
        d  == m2.dc[t]
        m3 == DrawContextOf(m2, t, [d EXCEPT !.vertex = [@ EXCEPT ![d.len] = r],
                                             !.len = @ + 1])
    IN  Finish(Return(m3, 0), ctx, [pen EXCEPT !.rect = r], {})

-----------------------------------------------------------------------------
(* The GPU begins the batches in the order of their submission and has no  *)
(* reason to finish one before it begins another: no barrier, semaphore or *)
(* fence is between them.  Within a batch the draws of one rendering are   *)
(* carried out in their order.                                             *)

\* What a recorded draw paints when it is executed in the present state.
Stroke(t, d) ==
    [target |-> t, rect |-> dc[t].vertex[d.slot], dorg |-> d.dorg, sorg |-> d.sorg,
     src |-> IF d.with = CopyPipeline THEN desc ELSE d.with]

Strokes(t, draws) == [i \in 1 .. Len(draws) |-> Stroke(t, draws[i])]

ExecuteDraw(i) ==
    /\ queue[i].draws # <<>>
    /\ queue' = [queue EXCEPT ![i].draws = Tail(@)]
    /\ UNCHANGED <<ctx, dc, desc, misuse, pen>>

Complete(i) ==
    /\ queue[i].draws = <<>>
    /\ queue' = Seqs!RemoveAt(queue, i)
    /\ UNCHANGED <<ctx, dc, desc, misuse, pen>>

Execute == \E i \in 1 .. Len(queue) : ExecuteDraw(i) \/ Complete(i)

-----------------------------------------------------------------------------
(* The client.  It never draws without a destination or passes a NULL      *)
(* source with a destination, and stops once a failed call has left the    *)
(* destination without a recording.  The rest of what impl.c relies on is  *)
(* in Rules.                                                               *)

Stopped == ctx.dst # NoImage /\ ~dc[ctx.dst].recording

Pending == ctx.dst # NoImage /\ dc[ctx.dst].pos < dc[ctx.dst].len

SetRecorded == ctx.dst # NoImage /\ dc[ctx.dst].set

\* The image in the descriptor set is copied from by something not executed yet.
SetInUse == SetPending(State) \/ SetRecorded

\* The call puts an image into the descriptor set.
Updates(dst, src) ==
    dst # NoImage /\ src \in Images /\ ~(dst = ctx.dst /\ src = ctx.src)

MayCall(dst, dorg, src, sorg) ==
    /\ ~Stopped
    /\ src = NoImage => dst = NoImage \/ dst # ctx.dst \/ ctx.src = NoImage
    \* an image is used as a source if it was declared as one, not onto itself
    /\ "declared" \in Rules => src \in (Textures \ {dst}) \cup Solids \cup {NoImage}
    \* a destination is left alone until its last batch is executed
    /\ "idle" \in Rules => dst = ctx.dst \/ ~Busy(State, dst)
    \* what draws on an image, or copies from it, is executed before the next that
    \* copies from it, or draws on it, is recorded
    /\ "settled" \in Rules =>
          /\ Updates(dst, src) => src \notin {ctx.dst, dst} /\ ~Busy(State, src)
          /\ dst # ctx.dst /\ dst = desc => ~SetInUse
    \* an image is chosen as the source when no copy waits, save in this recording
    \* and from that image
    /\ "texture" \in Rules /\ Updates(dst, src) =>
          \/ ~SetInUse
          \/ dst = ctx.dst /\ src = desc /\ ~SetPending(State)
    \* an origin changes only together with its image, or with nothing pending
    /\ "origin" \in Rules =>
          \/ <<dorg, sorg>> = <<ctx.dorg, ctx.sorg>>
          \/ dst # ctx.dst \/ src # ctx.src \/ ~Pending

MayRect ==
    /\ ~Stopped
    /\ ctx.dst # NoImage
    /\ "source" \in Rules => pen.src # NoImage
    /\ "room" \in Rules => dc[ctx.dst].len < VertexCap

\* Bounds: a rectangle keeps to one slot, in all buffers, and which one is the
\* first makes no difference.
KeepsSlot(r) ==
    "slots" \in Rules =>
        /\ \A t \in Targets, i \in Slots \ {dc[ctx.dst].len} : dc[t].vertex[i] # r
        /\ pen.rect = NoRect => r = CHOOSE first \in Rects : TRUE

Client ==
    \/ \E s \in Setups :
            /\ MayCall(s.dst, s.dorg, s.src, s.sorg)
            /\ BltSetup(s.dst, s.dorg, s.src, s.sorg, s.msk)
    \/ \E op \in Ops : ~Stopped /\ BltOp(op)
    \/ \E d \in Dsts :
            /\ MayCall(d.dst, d.dorg, ctx.src, ctx.sorg)
            \* blt_dst forgets the source: it is named again before the next one
            /\ "source" \in Rules => d.dst = ctx.dst \/ ctx.src = pen.src
            /\ BltDst(d.dst, d.dorg)
    \/ \E src \in Sources \cup {NoImage}, sorg \in SrcOrigins :
            MayCall(ctx.dst, ctx.dorg, src, sorg) /\ BltSrc(src, sorg)
    \/ \E msk \in Masks \cup {NoImage} : ~Stopped /\ BltMask(msk)
    \/ \E r \in Rects : MayRect /\ KeepsSlot(r) /\ BltRect(r)

Next == Client \/ Execute

\* The GPU works on whatever the client does.
Spec == Init /\ [][Next]_vars /\ WF_vars(Execute)

-----------------------------------------------------------------------------
(* Correctness.                                                            *)

Pipelines == Solids \cup {CopyPipeline, NoPipeline}

Draws == Seq([slot : Nat, dorg : Origins, sorg : Origins, with : Pipelines])

Batches == [target : Targets, draws : Draws, set : BOOLEAN]

DrawContexts ==
    [recording : BOOLEAN, vertex : [Slots -> Rects \cup {NoRect}], len : Nat, pos : Nat,
     bound : Pipelines, set : BOOLEAN, draws : Draws, submitted : BOOLEAN]

\* Types: the destination always has a draw context (flush dereferences
\* dst->draw_ctx, impl.c:570), and vertex_pos never passes vertex_len.
TypeOK ==
    /\ ctx \in Contexts
    /\ ctx.dst \in Targets \cup {NoImage}
    /\ dc \in [Targets -> DrawContexts]
    /\ \A t \in Targets : dc[t].pos <= dc[t].len
    /\ desc \in Images \cup {NoImage}
    /\ queue \in Seq(Batches)
    /\ misuse \subseteq Misuses

\* At most one command buffer is recording, that of the destination: every
\* buffer begun is ended and submitted before another is begun.
OneRecording == \A t \in Targets : dc[t].recording => t = ctx.dst

\* But for the KnownMisuses, nothing is asked of Vulkan or C that they give no
\* meaning to: commands go to a recording buffer with a pipeline bound, no pending
\* buffer is begun again, no descriptor set that a pending one reads is updated
\* (impl.c:688), no vertex lands outside the buffer, no NULL source is dereferenced.
NoOtherMisuse == misuse \subseteq KnownMisuses

\* Vertices wait for a draw only in the buffer that is recording: those of a
\* target that is left were drawn before it was submitted (impl.c:604).
NothingLeftBehind ==
    \A t \in Targets : dc[t].pos < dc[t].len => t = ctx.dst /\ dc[t].recording
=============================================================================
