-------------------------- MODULE VulkanRules_proofs --------------------------
(***************************************************************************)
(* The Vulkan back end under a client that keeps the rules: but for the    *)
(* KnownMisuses the code asks nothing of Vulkan that has no meaning,       *)
(* whatever fails, and what a GPU paints that goes on after those is what  *)
(* was asked for, although it executes the batches side by side.           *)
(***************************************************************************)
EXTENDS Vulkan_proofs, VulkanPaints, WellFoundedInduction

\* It names the source again, leaves a pending target alone, adds no more rectangles
\* than there is room for, and chooses no image while a copy waits.
Careful == {"source", "idle", "room", "texture"} \subseteq Rules

Pens ==
    [dst : Sources \cup {NoImage}, dorg : Origins, src : Sources \cup {NoImage},
     sorg : Origins, rect : Rects \cup {NoRect}, refused : BOOLEAN]

\* A buffer that records has a pipeline bound if vertices wait in it, or are
\* wanted.
Ready(m, wanted) ==
    \A t \in Targets :
        m.dc[t].recording /\ (wanted \/ m.dc[t].pos < m.dc[t].len) => m.dc[t].bound # NoPipeline

\* The source may be known to the client alone: blt_dst makes setup bind it and
\* leaves it forgotten in ctx (impl.c:642, blt.c:52-61).
Rule == pen.src # NoImage \/ ctx.src # NoImage

RInv ==
    /\ IInv
    /\ pen \in Pens
    /\ misuse \subseteq KnownMisuses
    /\ Ready(State, Rule)

-----------------------------------------------------------------------------
(* The functions of impl.c, where nothing else is wrong.                   *)

Clean(m) == m.misuse \subseteq KnownMisuses

LEMMA BlameNothing ==
  ASSUME NEW m \in Machines, NEW what
  PROVE  Blame(m, what, FALSE) = m
  BY DEF Blame, Machines

LEMMA BlameKnown ==
  ASSUME NEW m \in Machines, NEW what \in KnownMisuses, NEW wrong
  PROVE  Clean(m) => Clean(Blame(m, what, wrong))
  BY DEF Blame, Machines, Clean

LEMMA CommandRecorded ==
  ASSUME NEW m \in Machines, NEW t \in Targets, m.dc[t].recording
  PROVE  Command(m, t) = m
  BY BlameNothing DEF Command

LEMMA DrawContextOfClean ==
  ASSUME NEW m \in Machines, NEW t \in Targets, NEW d \in DrawContexts
  PROVE  /\ DrawContextOf(m, t, d).misuse = m.misuse
         /\ DrawContextOf(m, t, d).queue = m.queue
         /\ DrawContextOf(m, t, d).dc[t] = d
  BY DEF DrawContextOf, Machines

\* What flush needs: a destination that records, with a pipeline.
Drawable(m) ==
    /\ m.dc[m.ctx.dst].recording
    /\ m.dc[m.ctx.dst].pos < m.dc[m.ctx.dst].len => m.dc[m.ctx.dst].bound # NoPipeline

LEMMA FlushClean ==
  ASSUME NEW m, Sound(m), m.ctx.dst \in Targets, Drawable(m)
  PROVE  /\ Flush(m).misuse = m.misuse /\ Flush(m).queue = m.queue
         /\ Flush(m).dc[m.ctx.dst].set = m.dc[m.ctx.dst].set
<1>. DEFINE t == m.ctx.dst
            d == m.dc[t]
            d1 == [d EXCEPT !.draws = @ \o Draw(d, m.ctx), !.pos = d.len]
            m1 == DrawContextOf(m, t, d1)
<1>1. d \in DrawContexts /\ m.ctx \in Contexts /\ d.pos <= d.len /\ m \in Machines
  BY DEF Sound, Machines
<1>2. CASE d.pos = d.len
  BY <1>2 DEF Flush
<1>3. CASE d.pos # d.len
  <2>1. d.draws \o Draw(d, m.ctx) \in Draws
    BY <1>1, DrawType, ConcatProperties DEF DrawContexts, Draws
  <2>2. d1 \in DrawContexts /\ d1.recording = d.recording /\ d1.set = d.set
    BY <1>1, <2>1 DEF DrawContexts
  <2>3. d.recording /\ d.bound # NoPipeline
    <3>1. d.pos < d.len
      BY <1>1, <1>3 DEF DrawContexts
    <3>. QED  BY <3>1 DEF Drawable
  <2>. HIDE DEF d1
  <2>4. m1 \in Machines /\ m1.dc[t] = d1 /\ m1.misuse = m.misuse /\ m1.queue = m.queue
    BY <1>1, <2>2, DrawContextOfSound, DrawContextOfClean
  <2>. HIDE DEF m1
  <2>5. Command(m1, t) = m1
    BY <2>2, <2>3, <2>4, CommandRecorded
  <2>6. Blame(m1, "no pipeline", FALSE) = m1
    BY <2>4, BlameNothing
  <2>7. Flush(m) = Blame(Command(m1, t), "no pipeline", d.bound = NoPipeline)
    BY <1>3 DEF Flush, m1, d1
  <2>8. (d.bound = NoPipeline) = FALSE
    BY <2>3
  <2>. QED  BY <2>2, <2>4, <2>5, <2>6, <2>7, <2>8
<1>. QED  BY <1>2, <1>3

LEMMA SubmitClean ==
  ASSUME NEW m, NEW fails, Sound(m), m.ctx.dst \in Targets, Drawable(m)
  PROVE  /\ Clean(m) => Clean(Submit(m, fails))
         /\ \A u \in Targets \ {m.ctx.dst} : Busy(Submit(m, fails), u) => Busy(m, u)
         /\ SetPending(Submit(m, fails)) => SetPending(m) \/ m.dc[m.ctx.dst].set
<1>. DEFINE t  == m.ctx.dst
            f  == Flush(m)
            d0 == [f.dc[t] EXCEPT !.recording = FALSE]
            m1 == EndBuffer(m)
            d1 == [m1.dc[t] EXCEPT !.draws = <<>>, !.bound = NoPipeline, !.set = FALSE]
            d2 == [d1 EXCEPT !.len = 0, !.pos = 0, !.submitted = TRUE]
            mb == Blame(m1, "signalled again", d1.submitted)
<1>1. /\ f \in Machines /\ f.dc[t].recording /\ f.misuse = m.misuse /\ f.queue = m.queue
      /\ f.dc[t].set = m.dc[t].set
  BY FlushSound, FlushClean DEF Sound, Drawable
<1>2. Command(f, t) = f
  <2>. HIDE DEF f
  <2>. QED  BY <1>1, CommandRecorded
<1>3. m1 = DrawContextOf(f, t, d0)
  BY <1>2 DEF EndBuffer
<1>. HIDE DEF f, m1
<1>4. d0 \in DrawContexts /\ d0.set = m.dc[t].set
  BY <1>1 DEF Machines, DrawContexts
<1>. HIDE DEF d0
<1>5. m1 \in Machines /\ m1.dc[t] = d0 /\ m1.misuse = m.misuse /\ m1.queue = m.queue
  BY <1>1, <1>3, <1>4, DrawContextOfSound, DrawContextOfClean
<1>. DEFINE draws == m1.dc[t].draws
            set == m1.dc[t].set
<1>6. d1 \in DrawContexts /\ d2 \in DrawContexts
  <2>1. <<>> \in Draws
    BY DEF Draws
  <2>2. NoPipeline \in Pipelines
    BY DEF Pipelines
  <2>. QED  BY <1>4, <1>5, <2>1, <2>2 DEF DrawContexts
<1>7. CASE "submit" \in fails
  <2>1. Submit(m, fails) = DrawContextOf(m1, t, d1)
    BY <1>7 DEF Submit, m1
  <2>. HIDE DEF d1
  <2>. QED  BY <1>5, <1>6, <2>1, DrawContextOfClean DEF Busy, SetPending, Clean
<1>8. CASE "submit" \notin fails
  <2>. DEFINE m2 == DrawContextOf(mb, t, d2)
              b == [target |-> t, draws |-> draws, set |-> set]
              q == Append(m2.queue, b)
  <2>1. Submit(m, fails) = Enqueue(m2, t, draws, set)
    BY <1>8 DEF Submit, m1
  <2>2. "signalled again" \in KnownMisuses /\ KnownMisuses \subseteq Misuses
    BY DEF KnownMisuses, Misuses
  <2>3. /\ mb \in Machines /\ mb.queue = m.queue
        /\ Clean(m) => Clean(mb)
    <3>1. Clean(m) => Clean(m1)
      BY <1>5 DEF Clean
    <3>. HIDE DEF d1
    <3>2. Clean(m1) => Clean(mb)
      BY <1>5, <2>2, BlameKnown
    <3>3. mb \in Machines /\ mb.queue = m1.queue
      BY <1>5, <2>2, BlameSound
    <3>. QED  BY <1>5, <3>1, <3>2, <3>3
  <2>. HIDE DEF d2, draws, mb
  <2>4. m2.misuse = mb.misuse /\ m2.queue = m.queue
    BY <1>6, <2>3, DrawContextOfClean
  <2>5. m2 = [mb EXCEPT !.dc = [mb.dc EXCEPT ![t] = d2]]
    BY DEF DrawContextOf
  <2>6. /\ Enqueue(m2, t, draws, set).misuse = m2.misuse
        /\ Enqueue(m2, t, draws, set).queue = q
    BY <2>3, <2>5 DEF Enqueue, Machines
  <2>7. m.queue \in Seq(Batches)
    BY DEF Sound, Machines
  <2>8. b.target = t /\ b.set = m.dc[t].set
    BY <1>4, <1>5
  <2>. HIDE DEF m2, b
  <2>9. \A i \in 1 .. Len(q) :
          \/ q[i].target = t /\ q[i].set = m.dc[t].set
          \/ i \in 1 .. Len(m.queue) /\ q[i] = m.queue[i]
    BY <2>4, <2>7, <2>8
  <2>. QED  BY <2>1, <2>3, <2>4, <2>6, <2>9 DEF Busy, SetPending, Clean
<1>. QED  BY <1>7, <1>8

LEMMA BeginClean ==
  ASSUME NEW m, Sound(m), NEW t \in Targets, ~Busy(m, t)
  PROVE  /\ Clean(m) => Clean(Begin(m, t))
         /\ Begin(m, t).dc[t].recording
         /\ Begin(m, t).queue = m.queue
<1>. DEFINE d  == [m.dc[t] EXCEPT !.recording = TRUE]
            mb == Blame(m, "no barrier", TRUE)
<1>1. m \in Machines /\ m.dc[t] \in DrawContexts
  BY DEF Sound, Machines
<1>2. Begin(m, t) = DrawContextOf(mb, t, d)
  <2>1. Blame(m, "begun while pending", FALSE) = m
    BY <1>1, BlameNothing
  <2>2. Busy(m, t) = FALSE
    BY DEF Busy
  <2>3. Blame(m, "begun while pending", Busy(m, t)) = m
    BY <2>1, <2>2
  <2>. QED  BY <2>3 DEF Begin
<1>3. d \in DrawContexts /\ d.recording
  BY <1>1 DEF DrawContexts
<1>4. "no barrier" \in KnownMisuses /\ KnownMisuses \subseteq Misuses
  BY DEF KnownMisuses, Misuses
<1>5. mb \in Machines /\ mb.queue = m.queue /\ (Clean(m) => Clean(mb))
  BY <1>1, <1>4, BlameSound, BlameKnown
<1>. HIDE DEF d, mb
<1>. QED  BY <1>2, <1>3, <1>5, DrawContextOfClean DEF Clean

LEMMA UpdateClean ==
  ASSUME NEW m \in Machines, NEW t \in Targets, NEW src \in Images, ~SetPending(m)
  PROVE  Clean(m) => Clean(Update(m, t, src))
<1>. DEFINE m1 == Blame(m, "no barrier", TRUE)
            m2 == Blame(m1, "bound set updated", m.dc[t].set)
<1>1. /\ "no barrier" \in KnownMisuses /\ "bound set updated" \in KnownMisuses
      /\ KnownMisuses \subseteq Misuses
  BY DEF Misuses, KnownMisuses
<1>2. m1 \in Machines /\ (Clean(m) => Clean(m1))
  BY <1>1, BlameSound, BlameKnown
<1>3. Update(m, t, src) = [Blame(m2, "pending set updated", SetPending(m)) EXCEPT !.desc = src]
  BY DEF Update
<1>. HIDE DEF m1
<1>4. m2 \in Machines /\ (Clean(m1) => Clean(m2))
  BY <1>1, <1>2, BlameSound, BlameKnown
<1>. HIDE DEF m2
<1>5. SetPending(m) = FALSE
  BY DEF SetPending
<1>6. Update(m, t, src) = [m2 EXCEPT !.desc = src]
  BY <1>3, <1>4, <1>5, BlameNothing
<1>. QED  BY <1>2, <1>4, <1>6 DEF Machines, Clean

LEMMA BindClean ==
  ASSUME NEW m, Sound(m), NEW t \in Targets, NEW src \in Sources, m.dc[t].recording,
         src \in Images => ~SetPending(m)
  PROVE  /\ Clean(m) => Clean(Bind(m, t, src))
         /\ Bind(m, t, src).dc[t].bound # NoPipeline
<1>. DEFINE bound == IF src \in Images THEN CopyPipeline ELSE src
            d  == [m.dc[t] EXCEPT !.bound = bound, !.set = @ \/ src \in Images]
            m2 == DrawContextOf(m, t, d)
<1>1. m \in Machines /\ m.dc[t] \in DrawContexts
  BY DEF Sound, Machines
<1>2. bound \in Pipelines /\ bound # NoPipeline
  BY PipelinesAssumption DEF Pipelines, Sources
<1>3. Command(m, t) = m
  BY <1>1, CommandRecorded
<1>4. Bind(m, t, src) = IF src \in Images THEN Update(m2, t, src) ELSE m2
  BY <1>3 DEF Bind
<1>5. d \in DrawContexts /\ d.bound # NoPipeline
  <2>. HIDE DEF bound
  <2>. QED  BY <1>1, <1>2 DEF DrawContexts
<1>. HIDE DEF d
<1>6. m2 \in Machines /\ m2.misuse = m.misuse /\ m2.dc[t].bound # NoPipeline /\ m2.queue = m.queue
  BY <1>1, <1>5, DrawContextOfSound, DrawContextOfClean
<1>. HIDE DEF m2
<1>7. CASE src \in Images
  <2>1. ~SetPending(m2)
    BY <1>6, <1>7 DEF SetPending
  <2>. QED  BY <1>4, <1>6, <1>7, <2>1, UpdateSound, UpdateClean DEF Clean
<1>8. CASE src \notin Images
  BY <1>4, <1>6, <1>8 DEF Clean
<1>. QED  BY <1>7, <1>8

-----------------------------------------------------------------------------
(* setup.                                                                  *)

\* Choosing a source other than the one remembered leaves its pipeline bound.
LEMMA SelectSourceClean ==
  ASSUME NEW m, Sound(m), NEW dst \in Targets, NEW src \in Sources \cup {NoImage},
         m.dc[dst].recording,
         m.ctx.dst # NoImage => Drawable(m) \/ m.dc[m.ctx.dst].pos = m.dc[m.ctx.dst].len,
         src = NoImage => m.ctx.src = NoImage,
         src \in Images /\ src # m.ctx.src => ~SetPending(m)
  PROVE  LET r == SelectSource(m, dst, src)
         IN  /\ r.ret = 0
             /\ Clean(m) => Clean(r.m)
             /\ src = m.ctx.src => r.m = m
             /\ src # m.ctx.src => r.m.dc[dst].bound # NoPipeline
<1>. DEFINE r == SelectSource(m, dst, src)
            m1 == IF m.ctx.dst # NoImage THEN Flush(m) ELSE m
<1>1. CASE src = m.ctx.src
  BY <1>1 DEF SelectSource, Return
<1>2. CASE src # m.ctx.src
  <2>1. src \in Sources
    BY <1>2
  <2>2. Sound(m1) /\ m1.dc[dst].recording /\ m1.misuse = m.misuse /\ m1.queue = m.queue
    <3>1. CASE m.ctx.dst = NoImage
      BY <3>1
    <3>2. CASE m.ctx.dst # NoImage
      <4>1. m.ctx.dst \in Targets
        BY <3>2 DEF Sound
      <4>2. CASE Drawable(m)
        BY <3>2, <4>1, <4>2, FlushSound, FlushClean
      <4>3. CASE m.dc[m.ctx.dst].pos = m.dc[m.ctx.dst].len
        BY <3>2, <4>3 DEF Flush
      <4>. QED  BY <3>2, <4>2, <4>3
    <3>. QED  BY <3>1, <3>2
  <2>3. r = Return(Bind(m1, dst, src), 0)
    BY <1>2 DEF SelectSource
  <2>. HIDE DEF m1, r
  <2>4. r.m = Bind(m1, dst, src) /\ r.ret = 0
    BY <2>3 DEF Return
  <2>5. src \in Images => ~SetPending(m1)
    BY <1>2, <2>2 DEF SetPending
  <2>6. /\ Clean(m1) => Clean(Bind(m1, dst, src))
        /\ Bind(m1, dst, src).dc[dst].bound # NoPipeline
    BY <2>1, <2>2, <2>5, BindClean
  <2>. QED  BY <1>2, <2>2, <2>4, <2>6 DEF r, Clean
<1>. QED  BY <1>1, <1>2

\* What the client sees to before a call that ends in setup.
Allowed(dst, src) ==
    /\ ~Stopped
    /\ dst = ctx.dst \/ ~Busy(State, dst)
    /\ src = NoImage => dst = NoImage \/ dst # ctx.dst \/ ctx.src = NoImage
    /\ Updates(dst, src) => ~SetPending(State) /\ (dst = ctx.dst \/ ~SetRecorded)

\* What it gets.
Served(dst, src, r) ==
    /\ Clean(r.m)
    /\ r.m.ctx.src \in {ctx.src, NoImage}
    /\ r.ret = 0 => Ready(r.m, src # NoImage)
    /\ r.ret = 0 /\ dst = ctx.dst /\ Rule => Ready(r.m, TRUE)
    /\ r.ret = -1 => r.m.dc = dc \/ Ready(r.m, TRUE)

LEMMA RestingReady ==
  ASSUME NEW m, \A t \in Targets : Resting(m.dc[t]), NEW wanted
  PROVE  Ready(m, wanted)
  BY DEF Ready, Resting

LEMMA SetupClean ==
  ASSUME RInv, NEW dst \in Sources \cup {NoImage}, NEW src \in Sources \cup {NoImage},
         NEW msk, NEW fails, Allowed(dst, src)
  PROVE  Served(dst, src, Setup(dst, src, msk, fails))
<1>. DEFINE retarget == dst # ctx.dst
            m1 == IF ctx.dst # NoImage /\ retarget THEN Submit(State, fails) ELSE State
            m2 == ForgetSource(m1)
            r  == Setup(dst, src, msk, fails)
<1>. SUFFICES Served(dst, src, r)
  OBVIOUS
<1>1. /\ Sound(State) /\ State.ctx = ctx /\ State.dc = dc /\ Clean(State)
      /\ Kept(State, ctx.dst)
      /\ Ready(State, Rule)
      /\ ctx.dst \in Targets \cup {NoImage}
  BY IInvSound DEF RInv, IInv, TypeOK, State, Clean
<1>2. ctx.dst # NoImage => Drawable(State)
  BY <1>1 DEF Allowed, Stopped, Ready, Drawable
<1>3. /\ Sound(m1) /\ m1.ctx = ctx /\ Clean(m1)
      /\ retarget /\ dst \in Targets => ~Busy(m1, dst)
      /\ Updates(dst, src) => ~SetPending(m1)
  <2>1. CASE ctx.dst # NoImage /\ retarget
    <3>1. /\ Sound(m1) /\ m1.ctx = ctx /\ Clean(m1)
          /\ \A u \in Targets \ {ctx.dst} : Busy(m1, u) => Busy(State, u)
          /\ SetPending(m1) => SetPending(State) \/ dc[ctx.dst].set
      BY <1>1, <1>2, <2>1, SubmitSound, SubmitClean
    <3>. HIDE DEF m1
    <3>. QED  BY <2>1, <3>1 DEF Allowed, SetRecorded
  <2>2. CASE ~(ctx.dst # NoImage /\ retarget)
    BY <1>1, <2>2 DEF Allowed
  <2>. QED  BY <2>1, <2>2
<1>4. retarget \/ ctx.dst = NoImage => \A t \in Targets : Resting(m1.dc[t])
  <2>1. CASE ctx.dst # NoImage /\ retarget
    <3>1. \A t \in Targets \ {ctx.dst} : Resting(dc[t])
      BY <1>1 DEF Kept
    <3>. QED  BY <1>1, <2>1, <3>1, SubmitSound
  <2>2. CASE ctx.dst = NoImage
    <3>1. \A t \in Targets : t # ctx.dst
      BY <2>2, ImagesAssumption, TargetsAssumption
    <3>. QED  BY <1>1, <2>2, <3>1 DEF Kept
  <2>. QED  BY <2>1, <2>2
<1>5. r =
        IF dst = NoImage THEN Return(m1, 0)
        ELSE IF dst \notin Targets \/ msk # NoImage THEN Return(m1, -1)
        ELSE IF ~retarget THEN SelectSource(m1, dst, src)
        ELSE IF "begin" \in fails THEN Return(m2, -1)
        ELSE SelectSource(Begin(m2, dst), dst, src)
  BY DEF Setup
<1>6. ~retarget => m1 = State
  OBVIOUS
<1>7. /\ Sound(m2) /\ m2.ctx.dst = ctx.dst /\ m2.ctx.src = NoImage
      /\ m2.dc = m1.dc /\ Clean(m2) /\ m2.queue = m1.queue
  <2>. HIDE DEF m1
  <2>. QED  BY <1>3 DEF ForgetSource, Sound, Machines, Contexts, Clean
<1>. HIDE DEF m1, m2, r
<1>8. CASE dst = NoImage
  <2>1. r.m = m1 /\ r.ret = 0
    BY <1>5, <1>8 DEF Return
  <2>2. \A wanted : Ready(m1, wanted)
    BY <1>4, <1>8, RestingReady
  <2>. QED  BY <1>3, <2>1, <2>2 DEF Served, Ready
<1>9. CASE dst # NoImage /\ (dst \notin Targets \/ msk # NoImage)
  <2>1. r.m = m1 /\ r.ret = -1
    BY <1>5, <1>9 DEF Return
  <2>2. m1.dc = dc \/ Ready(m1, TRUE)
    BY <1>1, <1>4, <1>6, RestingReady
  <2>. QED  BY <1>3, <2>1, <2>2 DEF Served, Ready
<1>10. CASE dst \in Targets /\ msk = NoImage /\ dst # NoImage /\ ~retarget
  <2>1. r = SelectSource(State, dst, src)
    BY <1>5, <1>6, <1>10
  <2>2. dc[dst].recording /\ src = NoImage => ctx.src = NoImage
    BY <1>10 DEF Allowed
  <2>3. dc[dst].recording
    BY <1>10 DEF Allowed, Stopped
  <2>9. src \in Images /\ src # ctx.src => ~SetPending(State)
    BY <1>10 DEF Allowed, Updates
  <2>4. /\ r.ret = 0
        /\ Clean(r.m)
        /\ src = ctx.src => r.m = State
        /\ src # ctx.src => r.m.dc[dst].bound # NoPipeline
    BY <1>1, <1>2, <1>10, <2>1, <2>2, <2>3, <2>9, SelectSourceClean
  <2>5. /\ r.m.ctx = ctx
        /\ \A t \in Targets : r.m.dc[t].recording = dc[t].recording
    <3>1. Selected(State, src, r)
      BY <1>1, <1>10, <2>1, SelectSourceSound
    <3>. QED  BY <1>1, <3>1 DEF Selected
  <2>6. src # ctx.src => Ready(r.m, TRUE)
    BY <1>1, <1>10, <2>4, <2>5 DEF Ready, Kept, Resting
  <2>7. src = ctx.src => Ready(r.m, src # NoImage) /\ (Rule => Ready(r.m, TRUE))
    BY <1>1, <2>4 DEF Ready, Rule
  <2>. QED  BY <2>4, <2>5, <2>6, <2>7 DEF Served, Ready
<1>11. CASE dst \in Targets /\ msk = NoImage /\ dst # NoImage /\ retarget
  <2>1. \A t \in Targets : Resting(m2.dc[t])
    BY <1>4, <1>7, <1>11
  <2>2. CASE "begin" \in fails
    <3>1. r.m = m2 /\ r.ret = -1
      BY <1>5, <1>11, <2>2 DEF Return
    <3>2. Ready(m2, TRUE)
      BY <2>1, RestingReady
    <3>. QED  BY <1>7, <3>1, <3>2 DEF Served, Ready
  <2>3. CASE "begin" \notin fails
    <3>. DEFINE m3 == Begin(m2, dst)
    <3>1. r = SelectSource(m3, dst, src)
      BY <1>5, <1>11, <2>3
    <3>2. /\ Sound(m3) /\ m3.ctx = m2.ctx
          /\ m3.dc[dst].pos = m3.dc[dst].len
          /\ \A t \in Targets \ {dst} : Resting(m3.dc[t])
      BY <1>7, <1>11, <2>1, BeginSound DEF Resting
    <3>3. /\ Clean(m3) /\ m3.dc[dst].recording
          /\ src \in Images => ~SetPending(m3)
      <4>1. ~Busy(m2, dst)
        BY <1>3, <1>7, <1>11 DEF Busy
      <4>2. Clean(m3) /\ m3.dc[dst].recording /\ m3.queue = m1.queue
        BY <1>7, <1>11, <4>1, BeginClean
      <4>3. src \in Images => Updates(dst, src)
        BY <1>11 DEF Updates
      <4>. HIDE DEF m3
      <4>. QED  BY <1>3, <4>2, <4>3 DEF SetPending
    <3>. HIDE DEF m3
    <3>4. m3.ctx.dst # NoImage => m3.dc[m3.ctx.dst].pos = m3.dc[m3.ctx.dst].len
      BY <1>1, <1>7, <1>11, <3>2 DEF Resting
    <3>5. /\ r.ret = 0
          /\ Clean(r.m)
          /\ src = NoImage => r.m = m3
          /\ src # NoImage => r.m.dc[dst].bound # NoPipeline
      BY <1>7, <1>11, <3>1, <3>2, <3>3, <3>4, SelectSourceClean
    <3>6. /\ r.m.ctx = m3.ctx
          /\ \A t \in Targets : r.m.dc[t].recording = m3.dc[t].recording
      <4>1. Selected(m3, src, r)
        BY <1>11, <3>1, <3>2, SelectSourceSound
      <4>. QED  BY <4>1 DEF Selected
    <3>7. Ready(r.m, src # NoImage)
      <4>1. CASE src = NoImage
        <5>1. ~(m3.dc[dst].pos < m3.dc[dst].len)
          BY <1>11, <3>2 DEF Sound, Machines, DrawContexts
        <5>. QED  BY <3>2, <3>5, <4>1, <5>1 DEF Ready, Resting
      <4>2. CASE src # NoImage
        BY <3>2, <3>5, <3>6, <4>2 DEF Ready, Resting
      <4>. QED  BY <4>1, <4>2
    <3>. QED  BY <1>7, <1>11, <3>2, <3>5, <3>6, <3>7 DEF Served, Ready
  <2>. QED  BY <2>2, <2>3
<1>. QED  BY <1>8, <1>9, <1>10, <1>11

-----------------------------------------------------------------------------
(* The calls of blt.h.                                                     *)

LEMMA FinishPen ==
  ASSUME pen \in Pens, NEW r, NEW assigned, NEW chosen \in Pens, NEW fails,
         Finish(r, assigned, chosen, fails)
  PROVE  pen' \in Pens /\ pen'.src = IF r.ret < 0 THEN pen.src ELSE chosen.src
<1>. DEFINE last == IF r.ret < 0 THEN pen ELSE chosen
            no == "submit" \in fails
<1>1. last \in Pens /\ no \in BOOLEAN
  OBVIOUS
<1>2. pen' = [last EXCEPT !.refused = no]
  BY DEF Finish
<1>. HIDE DEF last, no
<1>3. [last EXCEPT !.refused = no] \in Pens /\ [last EXCEPT !.refused = no].src = last.src
  BY <1>1 DEF Pens
<1>. QED  BY <1>2, <1>3 DEF last

LEMMA FinishClean ==
  ASSUME RInv, IInv', NEW r, NEW assigned, NEW chosen \in Pens, NEW fails, NEW dst, NEW src,
         Served(dst, src, r), r.ret \in {0, -1}, r.m.ctx.src \in {ctx.src, NoImage},
         r.ret = 0 /\ (chosen.src # NoImage \/ assigned.src # NoImage)
             => src # NoImage \/ (dst = ctx.dst /\ Rule),
         Finish(r, assigned, chosen, fails)
  PROVE  RInv'
<1>1. /\ ctx' = IF r.ret < 0 THEN r.m.ctx ELSE assigned
      /\ dc' = r.m.dc /\ misuse' = r.m.misuse
  BY DEF Finish
<1>2. pen \in Pens /\ Ready(State, Rule)
  BY DEF RInv
<1>3. pen' \in Pens /\ pen'.src = IF r.ret < 0 THEN pen.src ELSE chosen.src
  BY <1>2, FinishPen
<1>4. misuse' \subseteq KnownMisuses
  BY <1>1 DEF Served, Clean
<1>5. Ready(State, Rule)'
  <2>1. CASE r.ret = 0
    <3>1. Rule' = (chosen.src # NoImage \/ assigned.src # NoImage)
      BY <1>1, <1>3, <2>1 DEF Rule
    <3>2. CASE ~Rule'
      BY <1>1, <2>1, <3>2 DEF Served, Ready, State
    <3>3. CASE Rule'
      BY <1>1, <2>1, <3>1, <3>3 DEF Served, Ready, State
    <3>. QED  BY <3>2, <3>3
  <2>2. CASE r.ret = -1
    <3>1. ctx'.src \in {ctx.src, NoImage} /\ pen'.src = pen.src
      BY <1>1, <1>3, <2>2
    <3>2. Rule' => Rule
      BY <3>1 DEF Rule
    <3>. QED  BY <1>1, <1>2, <2>2, <3>2 DEF Served, Ready, State
  <2>. QED  BY <2>1, <2>2
<1>. QED  BY <1>3, <1>4, <1>5 DEF RInv

\* What SetupSound and SetupClean say together.
LEMMA SetupBoth ==
  ASSUME RInv, NEW dst \in Sources \cup {NoImage}, NEW src \in Sources \cup {NoImage},
         NEW msk, NEW fails, Allowed(dst, src), NEW r, r = Setup(dst, src, msk, fails)
  PROVE  /\ Served(dst, src, r)
         /\ r.ret \in {0, -1}
         /\ r.m.ctx \in Contexts
         /\ r.m.ctx.src \in {ctx.src, NoImage}
<1>1. IInv
  BY DEF RInv
<1>2. Chosen(dst, r)
  BY <1>1, SetupSound
<1>3. Served(dst, src, r)
  BY SetupClean
<1>. QED  BY <1>2, <1>3 DEF Chosen, Served, Sound, Machines

LEMMA BltSetupClean ==
  ASSUME RInv, NEW dst \in Sources \cup {NoImage}, NEW src \in Sources \cup {NoImage},
         NEW dorg \in Origins, NEW sorg \in Origins, NEW msk \in Masks \cup {NoImage},
         Allowed(dst, src), BltSetup(dst, dorg, src, sorg, msk)
  PROVE  RInv'
<1>. DEFINE chosen == [pen EXCEPT !.dst = dst, !.dorg = dorg, !.src = src, !.sorg = sorg]
<1>1. PICK fails \in Faced(dst) :
        LET r == Setup(dst, src, msk, fails)
        IN  Finish(r, AfterSetup(r.m.ctx, dst, dorg, src, sorg, msk), chosen, fails)
  BY DEF BltSetup
<1>. DEFINE r == Setup(dst, src, msk, fails)
            assigned == AfterSetup(r.m.ctx, dst, dorg, src, sorg, msk)
<1>2. /\ Served(dst, src, r) /\ r.ret \in {0, -1}
      /\ r.m.ctx \in Contexts /\ r.m.ctx.src \in {ctx.src, NoImage}
  BY SetupBoth
<1>3. IInv'
  BY BltSetupStep DEF RInv
<1>4. chosen \in Pens /\ chosen.src = src
  BY DEF RInv, Pens
<1>5. Finish(r, assigned, chosen, fails)
  BY <1>1
<1>. HIDE DEF r, chosen
<1>6. assigned.src = src
  BY <1>2 DEF AfterSetup, Contexts
<1>. QED  BY <1>2, <1>3, <1>4, <1>5, <1>6, FinishClean

LEMMA BltOpClean ==
  ASSUME RInv, NEW op \in Ops, ~Stopped, BltOp(op)
  PROVE  RInv'
<1>. DEFINE r == Setup(ctx.dst, ctx.src, ctx.msk, {})
            assigned == AfterOp(r.m.ctx, op)
<1>1. /\ ctx.dst \in Sources \cup {NoImage} /\ ctx.src \in Sources \cup {NoImage}
      /\ pen \in Pens
  BY DEF RInv, IInv, TypeOK, Contexts, Sources
<1>2. Allowed(ctx.dst, ctx.src)
  BY DEF Allowed, Updates
<1>3. /\ Served(ctx.dst, ctx.src, r) /\ r.ret \in {0, -1}
      /\ r.m.ctx \in Contexts /\ r.m.ctx.src \in {ctx.src, NoImage}
  BY <1>1, <1>2, SetupBoth
<1>4. IInv'
  BY BltOpStep DEF RInv
<1>5. Finish(r, assigned, pen, {})
  BY DEF BltOp
<1>. HIDE DEF r
<1>6. assigned.src = r.m.ctx.src
  BY <1>3 DEF AfterOp, Contexts
<1>7. pen.src # NoImage \/ assigned.src # NoImage => Rule
  BY <1>3, <1>6 DEF Rule
<1>. QED  BY <1>1, <1>3, <1>4, <1>5, <1>7, FinishClean

LEMMA BltMaskClean ==
  ASSUME RInv, NEW msk \in Masks \cup {NoImage}, ~Stopped, BltMask(msk)
  PROVE  RInv'
<1>. DEFINE r == Setup(ctx.dst, ctx.src, msk, {})
            assigned == AfterMask(r.m.ctx, msk)
<1>1. /\ ctx.dst \in Sources \cup {NoImage} /\ ctx.src \in Sources \cup {NoImage}
      /\ pen \in Pens
  BY DEF RInv, IInv, TypeOK, Contexts, Sources
<1>2. Allowed(ctx.dst, ctx.src)
  BY DEF Allowed, Updates
<1>3. /\ Served(ctx.dst, ctx.src, r) /\ r.ret \in {0, -1}
      /\ r.m.ctx \in Contexts /\ r.m.ctx.src \in {ctx.src, NoImage}
  BY <1>1, <1>2, SetupBoth
<1>4. IInv'
  BY BltMaskStep DEF RInv
<1>5. Finish(r, assigned, pen, {})
  BY DEF BltMask
<1>. HIDE DEF r
<1>6. assigned.src = r.m.ctx.src
  BY <1>3 DEF AfterMask, Contexts
<1>7. pen.src # NoImage \/ assigned.src # NoImage => Rule
  BY <1>3, <1>6 DEF Rule
<1>. QED  BY <1>1, <1>3, <1>4, <1>5, <1>7, FinishClean

\* The source that setup binds is the one the client has in mind.
LEMMA BltDstClean ==
  ASSUME RInv, NEW dst \in Sources \cup {NoImage}, NEW dorg \in Origins,
         Allowed(dst, ctx.src), dst = ctx.dst \/ ctx.src = pen.src, BltDst(dst, dorg)
  PROVE  RInv'
<1>. DEFINE chosen == [pen EXCEPT !.dst = dst, !.dorg = dorg]
<1>1. PICK fails \in Faced(dst) :
        LET r == Setup(dst, ctx.src, ctx.msk, fails)
        IN  Finish(r, AfterDst(r.m.ctx, dst, dorg), chosen, fails)
  BY DEF BltDst
<1>. DEFINE r == Setup(dst, ctx.src, ctx.msk, fails)
            assigned == AfterDst(r.m.ctx, dst, dorg)
<1>2. ctx.src \in Sources \cup {NoImage}
  BY DEF RInv, IInv, TypeOK, Contexts
<1>3. /\ Served(dst, ctx.src, r) /\ r.ret \in {0, -1}
      /\ r.m.ctx \in Contexts /\ r.m.ctx.src \in {ctx.src, NoImage}
  BY <1>2, SetupBoth
<1>4. IInv'
  BY BltDstStep DEF RInv
<1>5. chosen \in Pens /\ chosen.src = pen.src
  BY DEF RInv, Pens
<1>6. Finish(r, assigned, chosen, fails)
  BY <1>1
<1>. HIDE DEF r, chosen
<1>7. assigned.src = r.m.ctx.src
  BY <1>3 DEF AfterDst, Contexts
<1>8. chosen.src # NoImage \/ assigned.src # NoImage
          => ctx.src # NoImage \/ (dst = ctx.dst /\ Rule)
  BY <1>3, <1>5, <1>7 DEF Rule
<1>. QED  BY <1>3, <1>4, <1>5, <1>6, <1>8, FinishClean

LEMMA BltSrcClean ==
  ASSUME RInv, NEW src \in Sources \cup {NoImage}, NEW sorg \in Origins,
         Allowed(ctx.dst, src), BltSrc(src, sorg)
  PROVE  RInv'
<1>. DEFINE chosen == [pen EXCEPT !.src = src, !.sorg = sorg]
            r == Setup(ctx.dst, src, ctx.msk, {})
            assigned == AfterSrc(r.m.ctx, src, sorg)
<1>1. ctx.dst \in Sources \cup {NoImage}
  BY DEF RInv, IInv, TypeOK, Contexts, Sources
<1>2. /\ Served(ctx.dst, src, r) /\ r.ret \in {0, -1}
      /\ r.m.ctx \in Contexts /\ r.m.ctx.src \in {ctx.src, NoImage}
  BY <1>1, SetupBoth
<1>3. IInv'
  BY BltSrcStep DEF RInv
<1>4. chosen \in Pens /\ chosen.src = src
  BY DEF RInv, Pens
<1>5. Finish(r, assigned, chosen, {})
  BY DEF BltSrc
<1>. HIDE DEF r, chosen
<1>6. assigned.src = src
  BY <1>2 DEF AfterSrc, Contexts
<1>. QED  BY <1>2, <1>3, <1>4, <1>5, <1>6, FinishClean

\* A rectangle of a source, in a buffer that has room.
LEMMA BltRectClean ==
  ASSUME RInv, Careful, MayRect, NEW rect \in Rects, BltRect(rect)
  PROVE  RInv'
<1>. DEFINE t  == ctx.dst
            d  == dc[t]
            d1 == [d EXCEPT !.vertex = [@ EXCEPT ![d.len] = rect], !.len = @ + 1]
            m3 == DrawContextOf(State, t, d1)
            r  == Return(m3, 0)
            chosen == [pen EXCEPT !.rect = rect]
<1>1. /\ t \in Targets /\ d.recording /\ d.len < VertexCap /\ pen.src # NoImage
      /\ d \in DrawContexts
  BY DEF Careful, MayRect, Stopped, RInv, IInv, TypeOK
<1>2. State \in Machines /\ State.dc = dc /\ Clean(State) /\ ctx = State.ctx
  BY IInvSound DEF RInv, Sound, State, Clean
<1>3. /\ (IF dc[t].len = VertexCap THEN Flush(State) ELSE State) = State
      /\ Blame(State, "vertex overrun", dc[t].len >= VertexCap) = State
  <2>1. d.len \in Nat /\ VertexCap \in Nat /\ d.len # VertexCap /\ ~(d.len >= VertexCap)
    BY <1>1, VertexCapAssumption DEF DrawContexts
  <2>2. (dc[t].len >= VertexCap) = FALSE
    BY <2>1
  <2>. QED  BY <1>2, <2>1, <2>2, BlameNothing
<1>4. Finish(r, ctx, chosen, {})
  BY <1>2, <1>3 DEF BltRect
<1>5. d1.recording = d.recording /\ d1.bound = d.bound
  BY <1>1 DEF DrawContexts
<1>6. Clean(m3) /\ m3.dc = [dc EXCEPT ![t] = d1]
  <2>. HIDE DEF d1
  <2>. QED  BY <1>2 DEF DrawContextOf, Machines, Clean
<1>7. dc \in [Targets -> DrawContexts] /\ Ready(State, TRUE)
  BY <1>1 DEF RInv, IInv, TypeOK, Ready, Rule
<1>8. IInv'
  BY <1>1, BltRectStep DEF RInv, MayRect
<1>9. chosen \in Pens
  BY DEF RInv, Pens
<1>10. dc' = m3.dc /\ misuse' = m3.misuse /\ pen' \in Pens
  <2>1. pen' \in Pens
    BY <1>4, <1>9, FinishPen DEF RInv
  <2>. HIDE DEF chosen, m3
  <2>. QED  BY <1>4, <2>1 DEF Finish, Return
<1>. HIDE DEF d1, m3
<1>11. Ready(State, Rule)'
  BY <1>1, <1>2, <1>5, <1>6, <1>7, <1>10 DEF Ready, State
<1>. QED  BY <1>6, <1>8, <1>10, <1>11 DEF RInv, Clean

-----------------------------------------------------------------------------
LEMMA RInvInit == Init => RInv
<1>. SUFFICES ASSUME Init PROVE RInv
  OBVIOUS
<1>1. pen \in Pens
  BY OriginsAssumption DEF Init, Pens
<1>2. Ready(State, Rule)
  BY DEF Init, NewDrawContext, Ready, State
<1>. QED  BY <1>1, <1>2, IInvInit DEF RInv, Init

LEMMA CarefulAllowed ==
  ASSUME Careful, NEW dst, NEW src, NEW dorg, NEW sorg, MayCall(dst, dorg, src, sorg)
  PROVE  Allowed(dst, src)
<1>1. Updates(dst, src) => ~SetPending(State) /\ (dst = ctx.dst \/ ~SetRecorded)
  BY DEF Careful, MayCall, SetInUse
<1>. QED  BY <1>1 DEF Careful, MayCall, Allowed

LEMMA RInvNext == RInv /\ Careful /\ [Next]_vars => RInv'
<1>. SUFFICES ASSUME RInv, Careful, [Next]_vars PROVE RInv'
  OBVIOUS
<1>1. CASE Client
  <2>1. ASSUME NEW s \in Setups, MayCall(s.dst, s.dorg, s.src, s.sorg),
               BltSetup(s.dst, s.dorg, s.src, s.sorg, s.msk)
        PROVE  RInv'
    <3>1. /\ s.dst \in Sources \cup {NoImage} /\ s.src \in Sources \cup {NoImage}
          /\ s.dorg \in Origins /\ s.sorg \in Origins /\ s.msk \in Masks \cup {NoImage}
      BY SetupsAssumption
    <3>2. Allowed(s.dst, s.src)
      BY <2>1, CarefulAllowed
    <3>. QED  BY <2>1, <3>1, <3>2, BltSetupClean
  <2>2. ASSUME NEW op \in Ops, ~Stopped, BltOp(op)
        PROVE  RInv'
    BY <2>2, BltOpClean
  <2>3. ASSUME NEW d \in Dsts,
               MayCall(d.dst, d.dorg, ctx.src, ctx.sorg),
               "source" \in Rules => d.dst = ctx.dst \/ ctx.src = pen.src,
               BltDst(d.dst, d.dorg)
        PROVE  RInv'
    <3>1. Allowed(d.dst, ctx.src)
      BY <2>3, CarefulAllowed
    <3>2. d.dst \in Sources \cup {NoImage} /\ d.dorg \in Origins
      BY DstsAssumption
    <3>. QED  BY <2>3, <3>1, <3>2, BltDstClean DEF Careful
  <2>4. ASSUME NEW src \in Sources \cup {NoImage}, NEW sorg \in SrcOrigins,
               MayCall(ctx.dst, ctx.dorg, src, sorg), BltSrc(src, sorg)
        PROVE  RInv'
    <3>1. Allowed(ctx.dst, src)
      BY <2>4, CarefulAllowed
    <3>. QED  BY <2>4, <3>1, SrcOriginsAssumption, BltSrcClean
  <2>5. ASSUME NEW msk \in Masks \cup {NoImage}, ~Stopped, BltMask(msk)
        PROVE  RInv'
    BY <2>5, BltMaskClean
  <2>6. ASSUME NEW rect \in Rects, MayRect, BltRect(rect)
        PROVE  RInv'
    BY <2>6, BltRectClean
  <2>. QED  BY <1>1, <2>1, <2>2, <2>3, <2>4, <2>5, <2>6 DEF Client
<1>2. CASE Execute
  <2>1. IInv'
    BY <1>2, ExecuteStep DEF RInv
  <2>2. UNCHANGED <<ctx, dc, misuse, pen>>
    BY <1>2 DEF Execute, ExecuteDraw, Complete
  <2>. QED  BY <2>1, <2>2 DEF RInv, Ready, Rule, State
<1>3. CASE UNCHANGED vars
  <2>1. IInv'
    BY <1>3, IInvNext DEF RInv
  <2>. QED  BY <1>3, <2>1 DEF RInv, vars, Ready, Rule, State
<1>. QED  BY <1>1, <1>2, <1>3 DEF Next

(* A client that names the source again after a change of destination,     *)
(* leaves a target alone while its batch is pending, adds no more than     *)
(* there is room for and chooses no image while a copy waits, makes impl.c *)
(* ask nothing of Vulkan that has no meaning besides what it asks of it    *)
(* whoever calls (KnownMisuses), also when calls of Vulkan fail            *)
(* (impl.c:567-751).                                                       *)
THEOREM VulkanNoOtherMisuse == Careful => (Spec => []NoOtherMisuse)
<1>. SUFFICES ASSUME Careful PROVE Spec => []NoOtherMisuse
  OBVIOUS
<1>1. Init => RInv
  BY RInvInit
<1>2. RInv /\ [Next]_vars => RInv'
  BY RInvNext
<1>3. RInv => NoOtherMisuse
  BY DEF RInv, NoOtherMisuse
<1>. QED  BY <1>1, <1>2, <1>3, PTL DEF Spec

-----------------------------------------------------------------------------
(* Sequences.                                                              *)

LEMMA AppendLast ==
  ASSUME NEW M, NEW a \in Seq(M), NEW b \in Seq(M), NEW x \in M
  PROVE  a \o Append(b, x) = Append(a \o b, x)
<1>1. <<x>> \in Seq(M)
  OBVIOUS
<1>2. Append(b, x) = b \o <<x>>
  BY AppendIsConcat
<1>3. a \o b \in Seq(M)
  BY ConcatProperties
<1>4. Append(a \o b, x) = (a \o b) \o <<x>>
  BY <1>3, AppendIsConcat
<1>. QED  BY <1>1, <1>2, <1>4, ConcatAssociative

LEMMA PartOf ==
  ASSUME NEW M, NEW c \in Seq(M), NEW m \in Nat, NEW n \in Nat, m <= n, n <= Len(c)
  PROVE  /\ SubSeq(c, m + 1, n) \in Seq(M)
         /\ Len(SubSeq(c, m + 1, n)) = n - m
         /\ \A i \in 1 .. n - m : SubSeq(c, m + 1, n)[i] = c[m + i]
<1>1. Len(c) \in Nat
  BY LenProperties
<1>2. \A i \in m + 1 .. n : i \in 1 .. Len(c)
  BY <1>1
<1>3. \A i \in m + 1 .. n : c[i] \in M
  BY <1>2, ElementOfSeq
<1>4. m + 1 \in Int /\ n \in Int /\ n - (m + 1) + 1 = n - m
  OBVIOUS
<1>5. /\ SubSeq(c, m + 1, n) \in Seq(M)
      /\ Len(SubSeq(c, m + 1, n)) = IF m + 1 <= n THEN n - (m + 1) + 1 ELSE 0
      /\ \A i \in 1 .. n - (m + 1) + 1 : SubSeq(c, m + 1, n)[i] = c[(m + 1) + i - 1]
  BY <1>3, <1>4, SubSeqProperties
<1>6. Len(SubSeq(c, m + 1, n)) = n - m
  BY <1>5
<1>7. ASSUME NEW i \in 1 .. n - m PROVE SubSeq(c, m + 1, n)[i] = c[m + i]
  <2>1. (m + 1) + i - 1 = m + i
    OBVIOUS
  <2>. QED  BY <1>4, <1>5, <2>1
<1>. QED  BY <1>5, <1>6, <1>7

LEMMA SplitConcat ==
  ASSUME NEW M, NEW a \in Seq(M), NEW b \in Seq(M)
  PROVE  LET c == a \o b
         IN  /\ Len(a) \in Nat /\ Len(a) <= Len(c) /\ Len(c) \in Nat
             /\ SubSeq(c, 1, Len(a)) = a
             /\ SubSeq(c, Len(a) + 1, Len(c)) = b
             /\ \A i \in 1 .. Len(a) : c[i] = a[i]
             /\ \A i \in Len(a) + 1 .. Len(c) : \E j \in 1 .. Len(b) : c[i] = b[j]
<1>. DEFINE n == Len(a)
            k == Len(b)
            c == a \o b
            x == SubSeq(c, 0 + 1, n)
            y == SubSeq(c, n + 1, n + k)
<1>1. n \in Nat /\ k \in Nat
  BY LenProperties
<1>2. /\ c \in Seq(M) /\ Len(c) = n + k
      /\ \A i \in 1 .. n + k : c[i] = IF i <= n THEN a[i] ELSE b[i - n]
  BY ConcatProperties
<1>. HIDE DEF n, k, c
<1>3. \A i \in 1 .. n : c[i] = a[i]
  BY <1>1, <1>2
<1>4. ASSUME NEW i \in n + 1 .. n + k PROVE c[i] = b[i - n] /\ i - n \in 1 .. k
  BY <1>1, <1>2
<1>5. x = a
  <2>1. 0 <= n /\ n <= Len(c) /\ n - 0 = n /\ \A i \in 1 .. n : 0 + i = i
    BY <1>1, <1>2
  <2>2. /\ x \in Seq(M) /\ Len(x) = n - 0
        /\ \A i \in 1 .. n - 0 : x[i] = c[0 + i]
    BY <1>1, <1>2, <2>1, PartOf
  <2>. HIDE DEF x
  <2>3. Len(x) = n /\ \A i \in 1 .. n : x[i] = a[i]
    BY <1>3, <2>1, <2>2
  <2>. QED  BY <2>2, <2>3, SeqEqual DEF n
<1>6. y = b
  <2>1. n <= n + k /\ n + k <= Len(c) /\ (n + k) - n = k /\ n + k \in Nat
    BY <1>1, <1>2
  <2>2. /\ y \in Seq(M) /\ Len(y) = (n + k) - n
        /\ \A i \in 1 .. (n + k) - n : y[i] = c[n + i]
    BY <1>1, <1>2, <2>1, PartOf
  <2>. HIDE DEF y
  <2>3. ASSUME NEW i \in 1 .. k PROVE y[i] = b[i]
    <3>1. n + i \in n + 1 .. n + k /\ (n + i) - n = i
      BY <1>1
    <3>2. c[n + i] = b[(n + i) - n]
      BY <1>4, <3>1
    <3>. QED  BY <2>1, <2>2, <3>1, <3>2
  <2>4. Len(y) = k
    BY <2>1, <2>2
  <2>. QED  BY <2>2, <2>3, <2>4, SeqEqual DEF k
<1>7. n <= Len(c) /\ Len(c) \in Nat /\ 0 + 1 = 1
  BY <1>1, <1>2
<1>8. SubSeq(c, 1, n) = a /\ SubSeq(c, n + 1, Len(c)) = b
  BY <1>2, <1>5, <1>6, <1>7
<1>9. \A i \in n + 1 .. Len(c) : \E j \in 1 .. k : c[i] = b[j]
  BY <1>2, <1>4
<1>. QED  BY <1>1, <1>3, <1>7, <1>8, <1>9 DEF n, k, c

LEMMA Around ==
  ASSUME NEW M, NEW s \in Seq(M), NEW i \in 1 .. Len(s)
  PROVE  /\ SubSeq(s, 1, i - 1) \in Seq(M) /\ SubSeq(s, i + 1, Len(s)) \in Seq(M)
         /\ s = Append(SubSeq(s, 1, i - 1), s[i]) \o SubSeq(s, i + 1, Len(s))
<1>1. Len(s) \in Nat /\ s[i] \in M
  BY LenProperties, ElementOfSeq
<1>. DEFINE before == SubSeq(s, 1, i - 1)
            after == SubSeq(s, i + 1, Len(s))
<1>2. before \in Seq(M) /\ after \in Seq(M)
  <2>1. i - 1 \in Nat /\ 0 \in Nat /\ 0 <= i - 1 /\ i - 1 <= Len(s)
        /\ i <= Len(s) /\ i \in Nat /\ 0 + 1 = 1
    BY <1>1
  <2>2. SubSeq(s, 0 + 1, i - 1) \in Seq(M)
    BY <2>1, PartOf
  <2>3. after \in Seq(M)
    BY <1>1, <2>1, PartOf
  <2>. QED  BY <2>1, <2>2, <2>3
<1>3. SubSeq(s, 1, i) = Append(before, s[i])
  <2>1. 1 \in 1 .. Len(s) /\ i \in 1 .. Len(s)
    BY <1>1
  <2>2. SubSeq(s, 1, i) = before \o <<s[i]>>
    BY <2>1, SubSeqRecursiveSecond
  <2>. HIDE DEF before
  <2>. QED  BY <1>1, <1>2, <2>2, AppendIsConcat
<1>4. SubSeq(s, 1, i) \o after = s
  <2>1. /\ 1 \in 1 .. Len(s) + 1 /\ i \in 1 - 1 .. Len(s) /\ Len(s) \in i .. Len(s)
    BY <1>1
  <2>. QED  BY <2>1, ConcatAdjacentSubSeq, SubSeqFull
<1>. QED  BY <1>2, <1>3, <1>4

\* Only the element between them differs.
LEMMA SameAround ==
  ASSUME NEW M, NEW s \in Seq(M), NEW r \in Seq(M), NEW i \in 1 .. Len(s),
         Len(r) = Len(s), \A j \in 1 .. Len(s) : j # i => r[j] = s[j]
  PROVE  /\ SubSeq(r, 1, i - 1) = SubSeq(s, 1, i - 1)
         /\ SubSeq(r, i + 1, Len(r)) = SubSeq(s, i + 1, Len(s))
<1>. DEFINE n == Len(s)
<1>1. Len(r) = n /\ \A j \in 1 .. n : j # i => r[j] = s[j]
  OBVIOUS
<1>2. n \in Nat /\ i \in Nat /\ i - 1 \in Nat /\ i <= n /\ i - 1 <= n /\ 0 + 1 = 1
  BY LenProperties
<1>. HIDE DEF n
<1>3. SubSeq(r, 1, i - 1) = SubSeq(s, 1, i - 1)
  <2>. DEFINE x == SubSeq(r, 0 + 1, i - 1)
              y == SubSeq(s, 0 + 1, i - 1)
  <2>1. /\ x \in Seq(M) /\ Len(x) = (i - 1) - 0 /\ \A j \in 1 .. (i - 1) - 0 : x[j] = r[0 + j]
    BY <1>1, <1>2, PartOf
  <2>2. /\ y \in Seq(M) /\ Len(y) = (i - 1) - 0 /\ \A j \in 1 .. (i - 1) - 0 : y[j] = s[0 + j]
    BY <1>2, PartOf DEF n
  <2>. HIDE DEF x, y
  <2>3. \A j \in 1 .. (i - 1) - 0 : r[0 + j] = s[0 + j]
    BY <1>1, <1>2
  <2>4. x = y
    BY <2>1, <2>2, <2>3, SeqEqual
  <2>. QED  BY <1>2, <2>4 DEF x, y
<1>4. SubSeq(r, i + 1, n) = SubSeq(s, i + 1, n)
  <2>. DEFINE x == SubSeq(r, i + 1, n)
              y == SubSeq(s, i + 1, n)
  <2>1. /\ x \in Seq(M) /\ Len(x) = n - i /\ \A j \in 1 .. n - i : x[j] = r[i + j]
    BY <1>1, <1>2, PartOf
  <2>2. /\ y \in Seq(M) /\ Len(y) = n - i /\ \A j \in 1 .. n - i : y[j] = s[i + j]
    BY <1>2, PartOf DEF n
  <2>. HIDE DEF x, y
  <2>3. \A j \in 1 .. n - i : r[i + j] = s[i + j]
    BY <1>1, <1>2
  <2>4. x = y
    BY <2>1, <2>2, <2>3, SeqEqual
  <2>. QED  BY <2>4 DEF x, y
<1>. QED  BY <1>1, <1>3, <1>4 DEF n

LEMMA RemovedAt ==
  ASSUME NEW M, NEW s \in Seq(M), NEW i \in 1 .. Len(s)
  PROVE  LET r == Seqs!RemoveAt(s, i)
         IN  /\ r \in Seq(M) /\ Len(r) = Len(s) - 1 /\ Len(s) \in Nat
             /\ \A j \in 1 .. Len(r) : r[j] = IF j < i THEN s[j] ELSE s[j + 1]
<1>. DEFINE n == Len(s)
            x == SubSeq(s, 0 + 1, i - 1)
            y == SubSeq(s, i + 1, n)
<1>1. n \in Nat /\ i \in Nat /\ i - 1 \in Nat /\ i <= n /\ i - 1 <= n /\ 0 + 1 = 1
  BY LenProperties
<1>2. /\ x \in Seq(M) /\ Len(x) = (i - 1) - 0 /\ \A j \in 1 .. (i - 1) - 0 : x[j] = s[0 + j]
  BY <1>1, PartOf
<1>3. /\ y \in Seq(M) /\ Len(y) = n - i /\ \A j \in 1 .. n - i : y[j] = s[i + j]
  BY <1>1, PartOf
<1>4. Seqs!RemoveAt(s, i) = x \o y
  BY <1>1 DEF Seqs!RemoveAt
<1>. HIDE DEF x, y, n
<1>5. /\ x \o y \in Seq(M) /\ Len(x \o y) = Len(x) + Len(y)
      /\ \A j \in 1 .. Len(x) + Len(y) :
            (x \o y)[j] = IF j <= Len(x) THEN x[j] ELSE y[j - Len(x)]
  BY <1>2, <1>3, ConcatProperties
<1>6. ASSUME NEW j \in 1 .. n - 1 PROVE (x \o y)[j] = IF j < i THEN s[j] ELSE s[j + 1]
  <2>1. j \in 1 .. Len(x) + Len(y) /\ Len(x) = i - 1
    BY <1>1, <1>2, <1>3
  <2>2. CASE j < i
    <3>1. j \in 1 .. (i - 1) - 0 /\ j <= Len(x) /\ 0 + j = j
      BY <1>1, <2>1, <2>2
    <3>. QED  BY <1>2, <1>5, <2>1, <2>2, <3>1
  <2>3. CASE ~(j < i)
    <3>1. ~(j <= Len(x)) /\ j - Len(x) \in 1 .. n - i /\ i + (j - Len(x)) = j + 1
      BY <1>1, <2>1, <2>3
    <3>2. (x \o y)[j] = y[j - Len(x)] /\ y[j - Len(x)] = s[i + (j - Len(x))]
      BY <1>3, <1>5, <2>1, <3>1
    <3>. QED  BY <2>3, <3>1, <3>2
  <2>. QED  BY <2>2, <2>3
<1>7. Len(x \o y) = n - 1
  BY <1>1, <1>2, <1>3, <1>5
<1>. QED  BY <1>1, <1>4, <1>5, <1>6, <1>7 DEF n

\* One element is taken away.
LEMMA Dropped ==
  ASSUME NEW M, NEW p \in Seq(M), NEW e \in M, NEW t \in Seq(M), NEW w,
         w = p \o (<<e>> \o t)
  PROVE  /\ Len(p) + 1 \in 1 .. Len(w) /\ w[Len(p) + 1] = e /\ Len(p) \in Nat
         /\ \A j \in 1 .. Len(p) : w[j] = p[j]
         /\ SubSeq(w, 1, Len(p)) = p
         /\ SubSeq(w, Len(p) + 2, Len(w)) = t
<1>. DEFINE x == <<e>>
            px == p \o x
            n == Len(p) + 1
<1>1. x \in Seq(M) /\ Len(x) = 1 /\ x[1] = e
  OBVIOUS
<1>. HIDE DEF x
<1>2. x \o t \in Seq(M) /\ px \in Seq(M)
  BY <1>1, ConcatProperties
<1>3. w = px \o t
  BY <1>1, ConcatAssociative DEF x
<1>4. /\ Len(p) \in Nat
      /\ SubSeq(w, 1, Len(p)) = p /\ \A j \in 1 .. Len(p) : w[j] = p[j]
  <2>1. w = p \o (x \o t)
    BY DEF x
  <2>. QED  BY <1>2, <2>1, SplitConcat
<1>5. Len(px) = n /\ px[n] = e
  <2>1. /\ Len(px) = Len(p) + Len(x)
        /\ \A i \in 1 .. Len(p) + Len(x) : px[i] = IF i <= Len(p) THEN p[i] ELSE x[i - Len(p)]
    BY <1>1, ConcatProperties
  <2>. HIDE DEF px
  <2>2. n \in 1 .. Len(p) + Len(x) /\ ~(n <= Len(p)) /\ n - Len(p) = 1 /\ Len(p) + Len(x) = n
    BY <1>1, <1>4
  <2>. QED  BY <1>1, <2>1, <2>2
<1>. HIDE DEF px
<1>6. /\ Len(px) <= Len(w) /\ Len(w) \in Nat /\ SubSeq(w, Len(px) + 1, Len(w)) = t
      /\ \A j \in 1 .. Len(px) : w[j] = px[j]
  <2>1. px \in Seq(M)
    BY <1>2
  <2>2. /\ Len(px) <= Len(px \o t) /\ Len(px \o t) \in Nat
        /\ SubSeq(px \o t, Len(px) + 1, Len(px \o t)) = t
        /\ \A j \in 1 .. Len(px) : (px \o t)[j] = px[j]
    BY <2>1, SplitConcat
  <2>. QED  BY <1>3, <2>2
<1>7. n \in 1 .. Len(w) /\ n \in 1 .. Len(px) /\ n + 1 = Len(p) + 2
  BY <1>4, <1>5, <1>6
<1>. QED  BY <1>4, <1>5, <1>6, <1>7

LEMMA FirstAndRest ==
  ASSUME NEW M, NEW s \in Seq(M), s # <<>>, NEW z \in Seq(M)
  PROVE  /\ Tail(s) \in Seq(M) /\ s[1] \in M
         /\ s \o z = <<s[1]>> \o (Tail(s) \o z)
<1>. DEFINE x == <<s[1]>>
            y == Tail(s)
<1>1. Tail(s) \in Seq(M) /\ Len(s) \in Nat \ {0}
  BY HeadTailProperties, EmptySeq
<1>2. 1 \in 1 .. Len(s) /\ Len(s) \in 1 .. Len(s) /\ 1 + 1 = 2
  BY <1>1
<1>3. s[1] \in M /\ x \in Seq(M)
  BY <1>2, ElementOfSeq
<1>4. s = x \o y
  <2>1. SubSeq(s, 1, Len(s)) = <<s[1]>> \o SubSeq(s, 1 + 1, Len(s))
    BY <1>2, SubSeqRecursiveFirst
  <2>. QED  BY <1>2, <2>1, SubSeqFull, TailIsSubSeq
<1>. HIDE DEF x, y
<1>5. (x \o y) \o z = x \o (y \o z)
  <2>1. x \in Seq(M) /\ y \in Seq(M)
    BY <1>1, <1>3 DEF y
  <2>. QED  BY <2>1, ConcatAssociative
<1>6. s \o z = x \o (y \o z)
  BY <1>4, <1>5
<1>. QED  BY <1>1, <1>3, <1>6 DEF x, y

-----------------------------------------------------------------------------
(* Sequences of sequences one behind the other.  FlattenSeq is a recursive *)
(* function: what it is follows from the least counterexample.             *)

LessThan == {ss \in Nat \X Nat : ss[1] < ss[2]}

LEMMA LessThanWellFounded == IsWellFoundedOn(LessThan, Nat)
  BY NatLessThanWellFounded DEF OpToRel, LessThan

LEMMA NatSet ==
  ASSUME NEW N, 0 \in N, \A n \in Nat : n \in N => n + 1 \in N
  PROVE  Nat \subseteq N
<1>. DEFINE T == Nat \ N
<1>1. SUFFICES ASSUME T # {} PROVE FALSE
  OBVIOUS
<1>2. PICK x \in T : \A y \in T : ~ (<<y, x>> \in LessThan)
  BY <1>1, LessThanWellFounded, WFMin
<1>3. \A y \in T : ~(y < x)
  BY <1>2 DEF LessThan
<1>4. x # 0 /\ x - 1 \in Nat
  OBVIOUS
<1>5. x - 1 \in N
  BY <1>3, <1>4
<1>. QED  BY <1>4, <1>5

\* f[i] is the first i sequences of ss, one behind the other.
Flattens(f, ss) ==
    f = [i \in 1 .. Len(ss) |-> IF i = 1 THEN ss[i] ELSE f[i - 1] \o ss[i]]

LEMMA FlattenChoice ==
  ASSUME NEW ss, Len(ss) # 0
  PROVE  Seqs!FlattenSeq(ss) = (CHOOSE f : Flattens(f, ss))[Len(ss)]
  BY DEF Seqs!FlattenSeq, Flattens

Built(f, ss, n) ==
    /\ n # 0 => f[1] = ss[1]
    /\ \A i \in 1 .. n - 1 : f[i + 1] = f[i] \o ss[i + 1]

LEMMA FlattensBuilt ==
  ASSUME NEW f, NEW ss, Len(ss) \in Nat
  PROVE  Flattens(f, ss) <=> /\ f = [i \in 1 .. Len(ss) |-> f[i]]
                             /\ Built(f, ss, Len(ss))
<1>. DEFINE n == Len(ss)
<1>1. ASSUME Flattens(f, ss)
      PROVE  f = [i \in 1 .. n |-> f[i]] /\ Built(f, ss, n)
  <2>1. f = [i \in 1 .. n |-> IF i = 1 THEN ss[i] ELSE f[i - 1] \o ss[i]]
    BY <1>1 DEF Flattens
  <2>. HIDE DEF n
  <2>2. \A i \in 1 .. n : f[i] = IF i = 1 THEN ss[i] ELSE f[i - 1] \o ss[i]
    BY <2>1
  <2>3. f = [i \in 1 .. n |-> f[i]]
    BY <2>1
  <2>4. n \in Nat
    BY DEF n
  <2>5. n # 0 => f[1] = ss[1]
    BY <2>2, <2>4
  <2>6. ASSUME NEW i \in 1 .. n - 1 PROVE f[i + 1] = f[i] \o ss[i + 1]
    <3>1. i + 1 \in 1 .. n /\ i + 1 # 1 /\ (i + 1) - 1 = i
      BY <2>4
    <3>2. f[i + 1] = f[(i + 1) - 1] \o ss[i + 1]
      BY <2>2, <3>1
    <3>. QED  BY <3>1, <3>2
  <2>. QED  BY <2>3, <2>5, <2>6 DEF Built
<1>2. ASSUME f = [i \in 1 .. n |-> f[i]], Built(f, ss, n)
      PROVE  Flattens(f, ss)
  <2>1. n \in Nat
    OBVIOUS
  <2>. HIDE DEF n
  <2>2. ASSUME NEW i \in 1 .. n
        PROVE  f[i] = IF i = 1 THEN ss[i] ELSE f[i - 1] \o ss[i]
    <3>1. CASE i = 1
      BY <1>2, <2>1, <3>1 DEF Built
    <3>2. CASE i # 1
      <4>1. i - 1 \in 1 .. n - 1 /\ (i - 1) + 1 = i
        BY <2>1, <3>2
      <4>2. f[(i - 1) + 1] = f[i - 1] \o ss[(i - 1) + 1]
        BY <1>2, <4>1 DEF Built
      <4>. QED  BY <3>2, <4>1, <4>2
    <3>. QED  BY <3>1, <3>2
  <2>3. f = [i \in 1 .. n |-> IF i = 1 THEN ss[i] ELSE f[i - 1] \o ss[i]]
    BY <1>2, <2>2
  <2>. QED  BY <2>3 DEF Flattens, n
<1>. QED  BY <1>1, <1>2

\* One step more.
LEMMA BuiltOn ==
  ASSUME NEW n \in Nat, NEW f, NEW ss, NEW tt, NEW g, Built(f, ss, n),
         \A i \in 1 .. n : tt[i] = ss[i] /\ g[i] = f[i],
         g[n + 1] = IF n = 0 THEN tt[n + 1] ELSE f[n] \o tt[n + 1]
  PROVE  Built(g, tt, n + 1)
<1>2. g[1] = tt[1]
  <2>1. CASE n = 0
    BY <2>1
  <2>2. CASE n # 0
    <3>1. 1 \in 1 .. n
      BY <2>2
    <3>. QED  BY <2>2, <3>1 DEF Built
  <2>. QED  BY <2>1, <2>2
<1>3. ASSUME NEW i \in 1 .. n PROVE g[i + 1] = g[i] \o tt[i + 1]
  <2>1. CASE i = n
    <3>1. n # 0 /\ g[n] = f[n]
      BY <2>1
    <3>. QED  BY <2>1, <3>1
  <2>2. CASE i # n
    <3>1. i \in 1 .. n - 1 /\ i + 1 \in 1 .. n
      BY <2>2
    <3>2. f[i + 1] = f[i] \o ss[i + 1]
      BY <3>1 DEF Built
    <3>. QED  BY <3>1, <3>2
  <2>. QED  BY <2>1, <2>2
<1>4. (n + 1) - 1 = n
  OBVIOUS
<1>. QED  BY <1>2, <1>3, <1>4 DEF Built

LEMMA FlattenExists ==
  ASSUME NEW M, NEW ss \in Seq(Seq(M))
  PROVE  \E f \in [1 .. Len(ss) -> Seq(M)] : Flattens(f, ss)
<1>. DEFINE N == {n \in Nat : n <= Len(ss) => \E f \in [1 .. n -> Seq(M)] : Built(f, ss, n)}
<1>1. Len(ss) \in Nat /\ \A i \in 1 .. Len(ss) : ss[i] \in Seq(M)
  BY LenProperties, ElementOfSeq
<1>2. 0 \in N
  <2>1. [i \in 1 .. 0 |-> <<>>] \in [1 .. 0 -> Seq(M)]
    OBVIOUS
  <2>2. \A f : Built(f, ss, 0)
    BY DEF Built
  <2>. QED  BY <2>1, <2>2
<1>3. ASSUME NEW n \in Nat, n \in N PROVE n + 1 \in N
  <2>1. SUFFICES ASSUME n + 1 <= Len(ss)
                 PROVE  \E f \in [1 .. n + 1 -> Seq(M)] : Built(f, ss, n + 1)
    BY <1>3
  <2>2. \E f \in [1 .. n -> Seq(M)] : Built(f, ss, n)
    <3>1. n <= Len(ss)
      BY <1>1, <2>1
    <3>. QED  BY <1>3, <3>1
  <2>3. PICK f \in [1 .. n -> Seq(M)] : Built(f, ss, n)
    BY <2>2
  <2>. DEFINE last == IF n = 0 THEN ss[n + 1] ELSE f[n] \o ss[n + 1]
              g == [i \in 1 .. n + 1 |-> IF i <= n THEN f[i] ELSE last]
  <2>4. last \in Seq(M)
    <3>1. ss[n + 1] \in Seq(M)
      BY <1>1, <2>1
    <3>2. CASE n = 0
      BY <3>1, <3>2
    <3>3. CASE n # 0
      <4>1. f[n] \in Seq(M)
        BY <2>3, <3>3
      <4>. QED  BY <3>1, <3>3, <4>1, ConcatProperties
    <3>. QED  BY <3>2, <3>3
  <2>5. g \in [1 .. n + 1 -> Seq(M)]
    <3>. HIDE DEF last
    <3>1. \A i \in 1 .. n + 1 : i <= n => f[i] \in Seq(M)
      OBVIOUS
    <3>. QED  BY <2>4, <3>1
  <2>6. (\A i \in 1 .. n : g[i] = f[i]) /\ g[n + 1] = last
    <3>. HIDE DEF last
    <3>. QED  OBVIOUS
  <2>. HIDE DEF g
  <2>7. Built(g, ss, n + 1)
    BY <2>3, <2>6, BuiltOn
  <2>. QED  BY <2>5, <2>7
<1>. HIDE DEF N
<1>4. Len(ss) \in N
  BY <1>1, <1>2, <1>3, NatSet
<1>5. PICK f \in [1 .. Len(ss) -> Seq(M)] : Built(f, ss, Len(ss))
  BY <1>1, <1>4 DEF N
<1>6. f = [i \in 1 .. Len(ss) |-> f[i]]
  BY <1>5
<1>. QED  BY <1>1, <1>5, <1>6, FlattensBuilt

LEMMA FlattenUnique ==
  ASSUME NEW ss, Len(ss) \in Nat, NEW f, NEW g, Flattens(f, ss), Flattens(g, ss)
  PROVE  f = g
<1>. DEFINE n == Len(ss)
            N == {k \in Nat : k + 1 \in 1 .. n => f[k + 1] = g[k + 1]}
<1>1. /\ f = [i \in 1 .. n |-> f[i]] /\ Built(f, ss, n)
      /\ g = [i \in 1 .. n |-> g[i]] /\ Built(g, ss, n)
      /\ n \in Nat
  BY FlattensBuilt
<1>. HIDE DEF n
<1>2. 0 \in N
  BY <1>1 DEF Built
<1>3. ASSUME NEW k \in Nat, k \in N PROVE k + 1 \in N
  <2>1. SUFFICES ASSUME (k + 1) + 1 \in 1 .. n PROVE f[(k + 1) + 1] = g[(k + 1) + 1]
    OBVIOUS
  <2>2. f[k + 1] = g[k + 1] /\ k + 1 \in 1 .. n - 1
    BY <1>1, <1>3, <2>1
  <2>3. /\ f[(k + 1) + 1] = f[k + 1] \o ss[(k + 1) + 1]
        /\ g[(k + 1) + 1] = g[k + 1] \o ss[(k + 1) + 1]
    BY <1>1, <2>2 DEF Built
  <2>. QED  BY <2>2, <2>3
<1>. HIDE DEF N
<1>4. ASSUME NEW i \in 1 .. n PROVE f[i] = g[i]
  <2>1. i - 1 \in Nat /\ (i - 1) + 1 = i
    OBVIOUS
  <2>2. i - 1 \in N
    BY <1>2, <1>3, <2>1, NatSet
  <2>. QED  BY <2>1, <2>2 DEF N
<1>. QED  BY <1>1, <1>4

LEMMA FlattenIs ==
  ASSUME NEW ss, Len(ss) \in Nat \ {0}, NEW f, Flattens(f, ss)
  PROVE  Seqs!FlattenSeq(ss) = f[Len(ss)]
<1>1. Flattens(CHOOSE g : Flattens(g, ss), ss)
  OBVIOUS
<1>2. (CHOOSE g : Flattens(g, ss)) = f
  BY <1>1, FlattenUnique
<1>. QED  BY <1>2, FlattenChoice

\* Nothing, and one sequence more at the end.
LEMMA FlattenEmpty == Seqs!FlattenSeq(<<>>) = <<>>
<1>1. Len(<<>>) = 0
  OBVIOUS
<1>. QED  BY <1>1 DEF Seqs!FlattenSeq

LEMMA FlattenType ==
  ASSUME NEW M, NEW ss \in Seq(Seq(M))
  PROVE  Seqs!FlattenSeq(ss) \in Seq(M)
<1>1. CASE Len(ss) = 0
  <2>1. ss = <<>>
    BY <1>1, EmptySeq
  <2>2. <<>> \in Seq(M)
    BY EmptySeq
  <2>. QED  BY <2>1, <2>2, FlattenEmpty
<1>2. CASE Len(ss) # 0
  <2>1. Len(ss) \in Nat \ {0}
    BY <1>2, LenProperties
  <2>2. PICK f \in [1 .. Len(ss) -> Seq(M)] : Flattens(f, ss)
    BY FlattenExists
  <2>3. Len(ss) \in 1 .. Len(ss)
    BY <2>1
  <2>4. f[Len(ss)] \in Seq(M)
    BY <2>2, <2>3
  <2>5. Seqs!FlattenSeq(ss) = f[Len(ss)]
    BY <2>1, <2>2, FlattenIs
  <2>. QED  BY <2>4, <2>5
<1>. QED  BY <1>1, <1>2

LEMMA FlattenAppend ==
  ASSUME NEW M, NEW ss \in Seq(Seq(M)), NEW s \in Seq(M)
  PROVE  Seqs!FlattenSeq(Append(ss, s)) = Seqs!FlattenSeq(ss) \o s
<1>. DEFINE n == Len(ss)
            tt == Append(ss, s)
<1>1. n \in Nat
  BY LenProperties
<1>2. /\ Len(tt) = n + 1 /\ tt[n + 1] = s
      /\ \A i \in 1 .. n : tt[i] = ss[i]
  OBVIOUS
<1>3. PICK f \in [1 .. n -> Seq(M)] : Flattens(f, ss)
  BY FlattenExists
<1>4. Built(f, ss, n)
  BY <1>1, <1>3, FlattensBuilt
<1>. DEFINE last == IF n = 0 THEN s ELSE f[n] \o s
            g == [i \in 1 .. n + 1 |-> IF i <= n THEN f[i] ELSE last]
<1>. HIDE DEF tt, n
<1>5. (\A i \in 1 .. n : g[i] = f[i]) /\ g[n + 1] = last
  <2>. HIDE DEF last
  <2>. QED  BY <1>1
<1>7. g = [i \in 1 .. n + 1 |-> g[i]]
  OBVIOUS
<1>. HIDE DEF g
<1>6. Built(g, tt, n + 1)
  BY <1>1, <1>2, <1>4, <1>5, BuiltOn
<1>. HIDE DEF last
<1>8. Seqs!FlattenSeq(tt) = last
  <2>1. Len(tt) \in Nat \ {0} /\ Len(tt) = n + 1
    BY <1>1, <1>2
  <2>2. Flattens(g, tt)
    BY <1>6, <1>7, <2>1, FlattensBuilt
  <2>. QED  BY <1>5, <2>1, <2>2, FlattenIs
<1>9. CASE n = 0
  <2>1. ss = <<>>
    BY <1>9, EmptySeq DEF n
  <2>2. Seqs!FlattenSeq(ss) \o s = s
    BY <2>1, FlattenEmpty, ConcatEmptySeq
  <2>. QED  BY <1>8, <1>9, <2>2 DEF tt, last
<1>10. CASE n # 0
  <2>1. Seqs!FlattenSeq(ss) = f[n]
    BY <1>1, <1>3, <1>10, FlattenIs DEF n
  <2>. QED  BY <1>8, <1>10, <2>1 DEF tt, last
<1>. QED  BY <1>9, <1>10

LEMMA FlattenConcat ==
  ASSUME NEW M, NEW a \in Seq(Seq(M)), NEW b \in Seq(Seq(M))
  PROVE  Seqs!FlattenSeq(a \o b) = Seqs!FlattenSeq(a) \o Seqs!FlattenSeq(b)
<1>. DEFINE F(s) == Seqs!FlattenSeq(s)
            N == {n \in Nat : \A c \in Seq(Seq(M)) : Len(c) = n => F(a \o c) = F(a) \o F(c)}
<1>1. F(a) \in Seq(M)
  BY FlattenType
<1>2. 0 \in N
  <2>1. ASSUME NEW c \in Seq(Seq(M)), Len(c) = 0 PROVE F(a \o c) = F(a) \o F(c)
    <3>1. c = <<>>
      BY <2>1, EmptySeq
    <3>2. a \o c = a /\ F(a) \o F(c) = F(a)
      <4>1. a \o <<>> = a
        BY ConcatEmptySeq
      <4>2. F(c) = <<>>
        BY <3>1, FlattenEmpty
      <4>. HIDE DEF F
      <4>3. F(a) \o <<>> = F(a)
        BY <1>1, ConcatEmptySeq
      <4>. QED  BY <3>1, <4>1, <4>2, <4>3
    <3>. QED  BY <3>2
  <2>. QED  BY <2>1
<1>3. ASSUME NEW n \in Nat, n \in N PROVE n + 1 \in N
  <2>1. ASSUME NEW c \in Seq(Seq(M)), Len(c) = n + 1 PROVE F(a \o c) = F(a) \o F(c)
    <3>1. c # <<>>
      <4>1. Len(<<>>) = 0 /\ n + 1 # 0
        OBVIOUS
      <4>. QED  BY <2>1, <4>1
    <3>2. PICK x \in Seq(Seq(M)), s \in Seq(M) : c = Append(x, s)
      BY <3>1, SequenceEmptyOrAppend
    <3>3. Len(x) = n
      <4>1. Len(c) = Len(x) + 1 /\ Len(x) \in Nat
        BY <3>2, AppendProperties, LenProperties
      <4>. QED  BY <2>1, <4>1
    <3>4. F(a \o x) = F(a) \o F(x)
      BY <1>3, <3>3
    <3>5. a \o x \in Seq(Seq(M)) /\ F(x) \in Seq(M)
      BY ConcatProperties, FlattenType
    <3>6. a \o c = Append(a \o x, s)
      BY <3>2, AppendLast
    <3>7. F(a \o c) = F(a \o x) \o s /\ F(c) = F(x) \o s
      BY <3>2, <3>5, <3>6, FlattenAppend
    <3>. HIDE DEF F
    <3>8. (F(a) \o F(x)) \o s = F(a) \o (F(x) \o s)
      BY <1>1, <3>5, ConcatAssociative
    <3>. QED  BY <3>4, <3>7, <3>8
  <2>. QED  BY <2>1
<1>4. Len(b) \in Nat
  BY LenProperties
<1>. HIDE DEF N
<1>5. Len(b) \in N
  BY <1>2, <1>3, <1>4, NatSet
<1>. QED  BY <1>5 DEF N

\* One sequence between others.
LEMMA FlattenAround ==
  ASSUME NEW M, NEW a \in Seq(Seq(M)), NEW s \in Seq(M), NEW c \in Seq(Seq(M))
  PROVE  Seqs!FlattenSeq(Append(a, s) \o c)
            = (Seqs!FlattenSeq(a) \o s) \o Seqs!FlattenSeq(c)
<1>1. Append(a, s) \in Seq(Seq(M))
  BY AppendProperties
<1>2. Seqs!FlattenSeq(Append(a, s) \o c) = Seqs!FlattenSeq(Append(a, s)) \o Seqs!FlattenSeq(c)
  BY <1>1, FlattenConcat
<1>3. Seqs!FlattenSeq(Append(a, s)) = Seqs!FlattenSeq(a) \o s
  BY FlattenAppend
<1>. QED  BY <1>2, <1>3

-----------------------------------------------------------------------------
(* The strokes that wait, of a state inside a call as well.                *)

StrokeOf(m, t, d) ==
    [target |-> t, rect |-> m.dc[t].vertex[d.slot], dorg |-> d.dorg, sorg |-> d.sorg,
     src |-> IF d.with = CopyPipeline THEN m.desc ELSE d.with]

StrokesOf(m, t, draws) == [i \in 1 .. Len(draws) |-> StrokeOf(m, t, draws[i])]

Batched(m) == [k \in 1 .. Len(m.queue) |-> StrokesOf(m, m.queue[k].target, m.queue[k].draws)]

Submitted(m) == Seqs!FlattenSeq(Batched(m))

\* The draws of a buffer after a flush.
AllDraws(d, c) == d.draws \o Draw(d, c)

Open(m, c) ==
    IF c.dst = NoImage THEN <<>>
    ELSE IF m.dc[c.dst].recording THEN StrokesOf(m, c.dst, AllDraws(m.dc[c.dst], c))
    ELSE <<>>

Waiting(m, c) == Submitted(m) \o Open(m, c)

LEMMA AskedIsWaiting == AskedStrokes = Waiting(State, ctx)
  BY DEF AskedStrokes, Together, Unsubmitted, Waiting, Submitted, Batched, Open, StrokesOf,
         StrokeOf, Strokes, Stroke, AllDraws, State

\* What a stroke can be, in a state.
DrawRecords == [slot : Nat, dorg : Origins, sorg : Origins, with : Pipelines]

Marks(m) == {StrokeOf(m, t, d) : t \in Targets, d \in DrawRecords}

LEMMA StrokesType ==
  ASSUME NEW m, NEW t \in Targets, NEW draws \in Draws
  PROVE  /\ StrokesOf(m, t, draws) \in Seq(Marks(m))
         /\ Len(StrokesOf(m, t, draws)) = Len(draws)
         /\ \A i \in 1 .. Len(draws) : StrokesOf(m, t, draws)[i].target = t
<1>1. Len(draws) \in Nat /\ \A i \in 1 .. Len(draws) : draws[i] \in DrawRecords
  BY LenProperties, ElementOfSeq DEF Draws, DrawRecords
<1>2. StrokesOf(m, t, draws) \in [1 .. Len(draws) -> Marks(m)]
  BY <1>1 DEF StrokesOf, Marks
<1>3. StrokesOf(m, t, draws) \in Seq(Marks(m))
  BY <1>1, <1>2, SeqDef
<1>4. Len(StrokesOf(m, t, draws)) = Len(draws)
  BY <1>1, <1>2, <1>3, LenProperties
<1>. QED  BY <1>3, <1>4 DEF StrokesOf, StrokeOf

LEMMA BatchedType ==
  ASSUME NEW m \in Machines
  PROVE  /\ Batched(m) \in Seq(Seq(Marks(m))) /\ Len(Batched(m)) = Len(m.queue)
         /\ Len(m.queue) \in Nat
         /\ \A k \in 1 .. Len(m.queue) : m.queue[k].target \in Targets /\ m.queue[k].draws \in Draws
<1>1. m.queue \in Seq(Batches)
  BY DEF Machines
<1>2. Len(m.queue) \in Nat /\ \A k \in 1 .. Len(m.queue) : m.queue[k] \in Batches
  BY <1>1, LenProperties, ElementOfSeq
<1>3. \A k \in 1 .. Len(m.queue) : m.queue[k].target \in Targets /\ m.queue[k].draws \in Draws
  BY <1>2 DEF Batches
<1>4. Batched(m) \in [1 .. Len(m.queue) -> Seq(Marks(m))]
  BY <1>3, StrokesType DEF Batched
<1>5. Batched(m) \in Seq(Seq(Marks(m)))
  BY <1>2, <1>4, SeqDef
<1>. QED  BY <1>2, <1>3, <1>4, <1>5, LenProperties

LEMMA SubmittedType ==
  ASSUME NEW m \in Machines
  PROVE  Submitted(m) \in Seq(Marks(m))
  BY BatchedType, FlattenType DEF Submitted

LEMMA AllDrawsType ==
  ASSUME NEW d \in DrawContexts, NEW c \in Contexts, d.pos <= d.len
  PROVE  AllDraws(d, c) \in Draws
<1>1. Draw(d, c) \in Draws /\ d.draws \in Draws
  BY DrawType DEF DrawContexts
<1>. QED  BY <1>1, ConcatProperties DEF AllDraws, Draws

\* Where all is drawn it does not matter what is chosen.
LEMMA AllDrawn ==
  ASSUME NEW d \in DrawContexts, NEW c, d.pos = d.len
  PROVE  Draw(d, c) = <<>> /\ AllDraws(d, c) = d.draws
<1>1. d.pos \in Nat /\ d.len \in Nat /\ d.draws \in Draws
  BY DEF DrawContexts
<1>2. d.len - d.pos = 0
  BY <1>1
<1>3. Draw(d, c) = <<>>
  BY <1>2 DEF Draw
<1>. QED  BY <1>1, <1>3, ConcatEmptySeq DEF AllDraws, Draws

LEMMA OpenType ==
  ASSUME NEW m, Sound(m), NEW c \in Contexts, c.dst \in Targets \cup {NoImage}
  PROVE  /\ Open(m, c) \in Seq(Marks(m))
         /\ \A i \in 1 .. Len(Open(m, c)) : Open(m, c)[i].target = c.dst
<1>1. CASE c.dst = NoImage \/ ~m.dc[c.dst].recording
  <2>1. Open(m, c) = <<>>
    BY <1>1 DEF Open
  <2>. QED  BY <2>1, EmptySeq
<1>2. CASE c.dst # NoImage /\ m.dc[c.dst].recording
  <2>. DEFINE draws == AllDraws(m.dc[c.dst], c)
  <2>1. c.dst \in Targets /\ draws \in Draws
    BY <1>2, AllDrawsType DEF Sound, Machines
  <2>2. Open(m, c) = StrokesOf(m, c.dst, draws)
    BY <1>2 DEF Open
  <2>. HIDE DEF draws
  <2>3. /\ Open(m, c) \in Seq(Marks(m)) /\ Len(Open(m, c)) = Len(draws)
        /\ \A i \in 1 .. Len(draws) : Open(m, c)[i].target = c.dst
    BY <2>1, <2>2, StrokesType
  <2>. QED  BY <2>3
<1>. QED  BY <1>1, <1>2

Copies(draws) == \E i \in 1 .. Len(draws) : draws[i].with = CopyPipeline

\* Only the draws, the vertices and the descriptor set matter.
LEMMA StrokesSame ==
  ASSUME NEW m, NEW n, NEW t, NEW draws,
         \A i \in 1 .. Len(draws) : n.dc[t].vertex[draws[i].slot] = m.dc[t].vertex[draws[i].slot],
         n.desc = m.desc \/ ~Copies(draws)
  PROVE  StrokesOf(n, t, draws) = StrokesOf(m, t, draws)
<1>1. ASSUME NEW i \in 1 .. Len(draws)
      PROVE  StrokeOf(n, t, draws[i]) = StrokeOf(m, t, draws[i])
  BY DEF StrokeOf, Copies
<1>. QED  BY <1>1 DEF StrokesOf

\* No submitted draw reads the descriptor set.
Blind(m) == \A k \in 1 .. Len(m.queue) : ~Copies(m.queue[k].draws)

LEMMA SubmittedSame ==
  ASSUME NEW m, NEW n, n.queue = m.queue,
         \A k \in 1 .. Len(m.queue) :
            n.dc[m.queue[k].target].vertex = m.dc[m.queue[k].target].vertex,
         n.desc = m.desc \/ Blind(m)
  PROVE  Submitted(n) = Submitted(m)
<1>1. ASSUME NEW k \in 1 .. Len(m.queue)
      PROVE  StrokesOf(n, m.queue[k].target, m.queue[k].draws)
                = StrokesOf(m, m.queue[k].target, m.queue[k].draws)
  BY StrokesSame DEF Blind
<1>2. Batched(n) = Batched(m)
  BY <1>1 DEF Batched
<1>. QED  BY <1>2 DEF Submitted

LEMMA WaitingSame ==
  ASSUME NEW m, NEW n, n.queue = m.queue, n.dc = m.dc, n.desc = m.desc, NEW c
  PROVE  Waiting(n, c) = Waiting(m, c) /\ Submitted(n) = Submitted(m)
  BY DEF Waiting, Submitted, Batched, Open, StrokesOf, StrokeOf

LEMMA AllDrawsAt ==
  ASSUME NEW d \in DrawContexts, NEW c \in Contexts, d.pos <= d.len
  PROVE  LET n == Len(d.draws)
         IN  /\ n \in Nat /\ d.pos \in Nat /\ d.len \in Nat
             /\ Len(AllDraws(d, c)) = n + (d.len - d.pos)
             /\ \A i \in 1 .. n : AllDraws(d, c)[i] = d.draws[i]
             /\ \A j \in 1 .. d.len - d.pos :
                   AllDraws(d, c)[n + j] =
                       [slot |-> d.pos + j - 1, dorg |-> c.dorg, sorg |-> c.sorg, with |-> d.bound]
<1>. DEFINE n == Len(d.draws)
            w == Draw(d, c)
            k == d.len - d.pos
<1>1. /\ n \in Nat /\ d.pos \in Nat /\ d.len \in Nat /\ k \in Nat
      /\ d.draws \in Draws /\ w \in Draws
  <2>1. d.draws \in Draws /\ w \in Draws /\ d.pos \in Nat /\ d.len \in Nat
    BY DrawType DEF DrawContexts
  <2>2. n \in Nat
    BY <2>1, LenProperties DEF Draws
  <2>. QED  BY <2>1, <2>2
<1>2. w = [i \in 1 .. k |->
             [slot |-> d.pos + i - 1, dorg |-> c.dorg, sorg |-> c.sorg, with |-> d.bound]]
  BY DEF Draw
<1>3. Len(w) = k
  <2>1. DOMAIN w = 1 .. k
    BY <1>2
  <2>. HIDE DEF w, k
  <2>2. w \in Seq(DrawRecords)
    BY <1>1 DEF Draws, DrawRecords
  <2>. QED  BY <1>1, <2>1, <2>2, LenProperties
<1>. HIDE DEF w, k, n
<1>4. /\ Len(d.draws \o w) = n + k
      /\ \A i \in 1 .. n + k : (d.draws \o w)[i] = IF i <= n THEN d.draws[i] ELSE w[i - n]
  <2>1. d.draws \in Seq(DrawRecords) /\ w \in Seq(DrawRecords)
    BY <1>1 DEF Draws, DrawRecords
  <2>. QED  BY <1>3, <2>1, ConcatProperties DEF n
<1>5. \A i \in 1 .. n : (d.draws \o w)[i] = d.draws[i]
  BY <1>1, <1>4
<1>6. ASSUME NEW j \in 1 .. k PROVE (d.draws \o w)[n + j] = w[j]
  <2>1. n + j \in 1 .. n + k /\ ~(n + j <= n) /\ (n + j) - n = j
    BY <1>1
  <2>. QED  BY <1>4, <2>1
<1>7. AllDraws(d, c) = d.draws \o w
  BY DEF AllDraws, w
<1>8. \A j \in 1 .. k : w[j] =
         [slot |-> d.pos + j - 1, dorg |-> c.dorg, sorg |-> c.sorg, with |-> d.bound]
  BY <1>2
<1>. QED  BY <1>1, <1>4, <1>5, <1>6, <1>7, <1>8 DEF n, k

\* The draws of a buffer are of vertices before vertex_pos, and a buffer that
\* is not recording has none.
TidyDraws(d) ==
    /\ d.len <= VertexCap
    /\ ~d.recording => d.draws = <<>>
    /\ \A i \in 1 .. Len(d.draws) : d.draws[i].slot < d.pos

Tidy(m) == \A t \in Targets : TidyDraws(m.dc[t])

LEMMA AllDrawsTidy ==
  ASSUME NEW d \in DrawContexts, NEW c \in Contexts, d.pos <= d.len, TidyDraws(d)
  PROVE  /\ \A i \in 1 .. Len(AllDraws(d, c)) : AllDraws(d, c)[i].slot < d.len
         /\ ~Copies(d.draws) /\ (d.pos < d.len => d.bound # CopyPipeline)
                => ~Copies(AllDraws(d, c))
<1>. DEFINE n == Len(d.draws)
            w == AllDraws(d, c)
<1>1. /\ n \in Nat /\ d.pos \in Nat /\ d.len \in Nat
      /\ Len(w) = n + (d.len - d.pos)
      /\ \A i \in 1 .. n : w[i] = d.draws[i]
      /\ \A j \in 1 .. d.len - d.pos :
            w[n + j] = [slot |-> d.pos + j - 1, dorg |-> c.dorg, sorg |-> c.sorg, with |-> d.bound]
  BY AllDrawsAt
<1>2. \A i \in 1 .. n : d.draws[i].slot \in Nat
  <2>1. d.draws \in Seq(DrawRecords)
    BY DEF DrawContexts, Draws, DrawRecords
  <2>2. \A i \in 1 .. n : d.draws[i] \in DrawRecords
    BY <2>1, ElementOfSeq
  <2>. QED  BY <2>2 DEF DrawRecords
<1>. HIDE DEF n, w
<1>3. ASSUME NEW i \in 1 .. Len(w)
      PROVE  /\ w[i].slot < d.len
             /\ ~Copies(d.draws) /\ (d.pos < d.len => d.bound # CopyPipeline)
                  => w[i].with # CopyPipeline
  <2>1. CASE i <= n
    <3>1. i \in 1 .. n /\ w[i] = d.draws[i]
      BY <1>1, <2>1
    <3>2. d.draws[i].slot < d.pos
      BY <3>1 DEF TidyDraws, n
    <3>3. d.draws[i].slot < d.len
      BY <1>1, <1>2, <3>1, <3>2
    <3>. QED  BY <3>1, <3>3 DEF Copies, n
  <2>2. CASE ~(i <= n)
    <3>1. i - n \in 1 .. d.len - d.pos /\ n + (i - n) = i
      BY <1>1, <2>2
    <3>2. w[n + (i - n)] =
            [slot |-> d.pos + (i - n) - 1, dorg |-> c.dorg, sorg |-> c.sorg, with |-> d.bound]
      BY <1>1, <3>1
    <3>3. w[i].slot = d.pos + (i - n) - 1 /\ w[i].with = d.bound
      BY <3>1, <3>2
    <3>4. d.pos + (i - n) - 1 < d.len /\ d.pos < d.len
      BY <1>1, <3>1
    <3>. QED  BY <3>3, <3>4
  <2>. QED  BY <2>1, <2>2
<1>. QED  BY <1>3 DEF w, Copies

-----------------------------------------------------------------------------
(* What the functions of impl.c do to what waits.                          *)

\* Nothing that a recorded draw reads changes.
Still(m, n) ==
    /\ n.desc = m.desc
    /\ \A u \in Targets : n.dc[u].vertex = m.dc[u].vertex /\ n.dc[u].len <= m.dc[u].len

LEMMA FlushMoves ==
  ASSUME NEW m, Sound(m), m.ctx.dst \in Targets
  PROVE  /\ Still(m, Flush(m))
         /\ Flush(m).queue = m.queue
         /\ Flush(m).dc[m.ctx.dst].draws = AllDraws(m.dc[m.ctx.dst], m.ctx)
         /\ Flush(m).dc[m.ctx.dst].len = m.dc[m.ctx.dst].len
         /\ Flush(m).dc[m.ctx.dst].set = m.dc[m.ctx.dst].set
         /\ Flush(m).dc[m.ctx.dst].bound = m.dc[m.ctx.dst].bound
<1>. DEFINE t == m.ctx.dst
            d == m.dc[t]
            d1 == [d EXCEPT !.draws = @ \o Draw(d, m.ctx), !.pos = d.len]
            m1 == DrawContextOf(m, t, d1)
            m2 == Command(m1, t)
            wrong == d.bound = NoPipeline
<1>1. /\ d \in DrawContexts /\ m.ctx \in Contexts /\ d.pos <= d.len /\ m \in Machines
      /\ \A u \in Targets : m.dc[u].len \in Nat
  BY DEF Sound, Machines, DrawContexts
<1>2. CASE d.pos = d.len
  <2>1. AllDraws(d, m.ctx) = d.draws
    BY <1>1, <1>2, AllDrawn
  <2>2. Flush(m) = m
    BY <1>2 DEF Flush
  <2>3. \A u \in Targets : m.dc[u].len <= m.dc[u].len
    BY <1>1
  <2>. QED  BY <2>1, <2>2, <2>3 DEF Still
<1>3. CASE d.pos # d.len
  <2>1. d.draws \o Draw(d, m.ctx) \in Draws
    BY <1>1, AllDrawsType DEF AllDraws
  <2>2. /\ d1 \in DrawContexts
        /\ d1.draws = AllDraws(d, m.ctx) /\ d1.vertex = d.vertex /\ d1.len = d.len
        /\ d1.set = d.set /\ d1.bound = d.bound
    BY <1>1, <2>1 DEF DrawContexts, AllDraws
  <2>3. Flush(m) = Blame(m2, "no pipeline", wrong)
    BY <1>3 DEF Flush
  <2>4. "no pipeline" \in Misuses
    BY DEF Misuses
  <2>. HIDE DEF d1, wrong
  <2>5. /\ m1 \in Machines /\ m1.queue = m.queue /\ m1.desc = m.desc
        /\ m1.dc = [m.dc EXCEPT ![t] = d1]
    BY <1>1, <2>2, DrawContextOfSound
  <2>. HIDE DEF m1
  <2>6. /\ m2 \in Machines /\ m2.queue = m.queue /\ m2.desc = m.desc
        /\ m2.dc = [m.dc EXCEPT ![t] = d1]
    BY <2>5, CommandSound
  <2>. HIDE DEF m2
  <2>7. /\ Flush(m).queue = m.queue /\ Flush(m).desc = m.desc
        /\ Flush(m).dc = [m.dc EXCEPT ![t] = d1]
    BY <2>3, <2>4, <2>6 DEF Blame, Machines
  <2>8. \A u \in Targets : /\ Flush(m).dc[u].vertex = m.dc[u].vertex
                           /\ Flush(m).dc[u].len = m.dc[u].len
    BY <1>1, <2>2, <2>7 DEF Machines
  <2>9. Flush(m).dc[t] = d1
    BY <1>1, <2>7 DEF Machines
  <2>10. \A u \in Targets : Flush(m).dc[u].len <= m.dc[u].len
    BY <1>1, <2>8
  <2>. QED  BY <2>2, <2>7, <2>8, <2>9, <2>10 DEF Still
<1>. QED  BY <1>2, <1>3

\* A buffer that was handed over, or lost.
Rested(d) == d.draws = <<>> /\ d.bound = NoPipeline /\ ~d.set

LEMMA SubmitMoves ==
  ASSUME NEW m, NEW fails, Sound(m), m.ctx.dst \in Targets
  PROVE  LET t == m.ctx.dst
             r == Submit(m, fails)
         IN  /\ Still(m, r)
             /\ Rested(r.dc[t])
             /\ \/ "submit" \in fails /\ r.queue = m.queue
                \/ r.queue = Append(m.queue,
                                    [target |-> t, draws |-> AllDraws(m.dc[t], m.ctx),
                                     set |-> m.dc[t].set])
<1>. DEFINE t  == m.ctx.dst
            f  == Flush(m)
            m0 == Command(f, t)
            d0 == [m0.dc[t] EXCEPT !.recording = FALSE]
            m1 == EndBuffer(m)
            d1 == [m1.dc[t] EXCEPT !.draws = <<>>, !.bound = NoPipeline, !.set = FALSE]
            d2 == [d1 EXCEPT !.len = 0, !.pos = 0, !.submitted = TRUE]
            mb == Blame(m1, "signalled again", d1.submitted)
            draws == AllDraws(m.dc[t], m.ctx)
<1>1. /\ f \in Machines /\ Still(m, f) /\ f.queue = m.queue /\ f.dc[t].draws = draws
      /\ \A u \in Targets : m.dc[u].len \in Nat
      /\ \A u \in Targets \ {t} : f.dc[u] = m.dc[u]
      /\ f.dc[t].len = m.dc[t].len /\ f.dc[t].set = m.dc[t].set
  BY FlushMoves, FlushSound DEF Sound, Machines, DrawContexts
<1>2. m1 = DrawContextOf(m0, t, d0)
  BY DEF EndBuffer
<1>. HIDE DEF f, m1, draws
<1>3. m0 \in Machines /\ m0.dc = f.dc /\ m0.desc = f.desc /\ m0.queue = f.queue
  BY <1>1, CommandSound
<1>. HIDE DEF m0
<1>4. /\ d0 \in DrawContexts /\ d0.draws = draws /\ d0.len = m.dc[t].len
      /\ d0.vertex = m.dc[t].vertex /\ d0.set = m.dc[t].set
  <2>1. m0.dc[t] \in DrawContexts /\ m0.dc[t].vertex = m.dc[t].vertex
    BY <1>1, <1>3 DEF Machines, Still
  <2>. QED  BY <1>1, <1>3, <2>1 DEF DrawContexts
<1>. HIDE DEF d0
<1>5. /\ m1 \in Machines /\ m1.dc = [f.dc EXCEPT ![t] = d0]
      /\ m1.desc = m.desc /\ m1.queue = m.queue
  BY <1>1, <1>2, <1>3, <1>4, DrawContextOfSound DEF Still
<1>6. m1.dc[t] = d0 /\ \A u \in Targets \ {t} : m1.dc[u] = m.dc[u]
  BY <1>1, <1>5 DEF Machines
<1>7. /\ d1 \in DrawContexts /\ Rested(d1) /\ d1.vertex = m.dc[t].vertex
      /\ d1.len = m.dc[t].len
      /\ d2 \in DrawContexts /\ Rested(d2) /\ d2.vertex = m.dc[t].vertex /\ d2.len = 0
  <2>1. <<>> \in Draws /\ NoPipeline \in Pipelines
    BY DEF Draws, Pipelines
  <2>. QED  BY <1>4, <1>6, <2>1 DEF DrawContexts, Rested
<1>8. ASSUME NEW r, NEW d, Rested(d), d.vertex = m.dc[t].vertex, d.len \in {0, m.dc[t].len},
             r.desc = m.desc, r.dc = [m1.dc EXCEPT ![t] = d]
      PROVE  Still(m, r) /\ Rested(r.dc[t])
  <2>1. \A u \in Targets : r.dc[u] = IF u = t THEN d ELSE m.dc[u]
    BY <1>5, <1>6, <1>8 DEF Machines
  <2>2. \A u \in Targets : r.dc[u].vertex = m.dc[u].vertex
    BY <1>8, <2>1
  <2>3. \A u \in Targets : r.dc[u].len <= m.dc[u].len
    BY <1>1, <1>8, <2>1
  <2>. QED  BY <1>8, <2>1, <2>2, <2>3 DEF Still
<1>9. CASE "submit" \in fails
  <2>1. Submit(m, fails) = DrawContextOf(m1, t, d1)
    BY <1>9 DEF Submit, m1
  <2>. HIDE DEF d1
  <2>2. /\ Submit(m, fails).dc = [m1.dc EXCEPT ![t] = d1]
        /\ Submit(m, fails).desc = m.desc /\ Submit(m, fails).queue = m.queue
    BY <1>5, <1>7, <2>1, DrawContextOfSound
  <2>. QED  BY <1>7, <1>8, <1>9, <2>2
<1>10. CASE "submit" \notin fails
  <2>. DEFINE m2 == DrawContextOf(mb, t, d2)
              b == [target |-> t, draws |-> draws, set |-> m.dc[t].set]
  <2>1. Submit(m, fails) = Enqueue(m2, t, m1.dc[t].draws, m1.dc[t].set)
    BY <1>10 DEF Submit, m1
  <2>2. Submit(m, fails) = [m2 EXCEPT !.queue = Append(m2.queue, b)]
    BY <1>4, <1>6, <2>1 DEF Enqueue
  <2>5. "signalled again" \in Misuses
    BY DEF Misuses, KnownMisuses
  <2>. HIDE DEF d1, d2, b
  <2>6. mb \in Machines /\ mb.dc = m1.dc /\ mb.desc = m1.desc /\ mb.queue = m1.queue
    BY <1>5, <2>5, BlameSound
  <2>. HIDE DEF mb
  <2>3. /\ m2 \in Machines /\ m2.dc = [m1.dc EXCEPT ![t] = d2]
        /\ m2.desc = m.desc /\ m2.queue = m.queue
    BY <1>5, <1>7, <2>6, DrawContextOfSound
  <2>. HIDE DEF m2
  <2>4. /\ Submit(m, fails).dc = [m1.dc EXCEPT ![t] = d2]
        /\ Submit(m, fails).desc = m.desc
        /\ Submit(m, fails).queue = Append(m.queue, b)
    BY <2>2, <2>3 DEF Machines
  <2>. QED  BY <1>7, <1>8, <2>4 DEF b, draws
<1>. QED  BY <1>9, <1>10

LEMMA BeginMoves ==
  ASSUME NEW m, Sound(m), NEW t \in Targets
  PROVE  /\ Still(m, Begin(m, t)) /\ Begin(m, t).queue = m.queue
         /\ Begin(m, t).dc[t].draws = m.dc[t].draws
         /\ Begin(m, t).dc[t].recording
         /\ Begin(m, t).dc[t].set = m.dc[t].set
         /\ Begin(m, t).dc[t].bound = m.dc[t].bound
<1>. DEFINE d  == [m.dc[t] EXCEPT !.recording = TRUE]
            m0 == Blame(m, "begun while pending", Busy(m, t))
            m1 == Blame(m0, "no barrier", TRUE)
<1>1. m \in Machines /\ m.dc[t] \in DrawContexts /\ \A u \in Targets : m.dc[u].len \in Nat
  BY DEF Sound, Machines, DrawContexts
<1>2. /\ d \in DrawContexts /\ d.draws = m.dc[t].draws /\ d.vertex = m.dc[t].vertex
      /\ d.len = m.dc[t].len /\ d.recording
      /\ d.set = m.dc[t].set /\ d.bound = m.dc[t].bound
  BY <1>1 DEF DrawContexts
<1>3. "begun while pending" \in Misuses /\ "no barrier" \in Misuses
  BY DEF Misuses, KnownMisuses
<1>4. m1 \in Machines /\ m1.dc = m.dc /\ m1.desc = m.desc /\ m1.queue = m.queue
  <2>1. m0 \in Machines /\ m0.dc = m.dc /\ m0.desc = m.desc /\ m0.queue = m.queue
    BY <1>1, <1>3, BlameSound
  <2>. HIDE DEF m0
  <2>. QED  BY <1>3, <2>1, BlameSound
<1>5. Begin(m, t) = DrawContextOf(m1, t, d)
  BY DEF Begin
<1>. HIDE DEF d, m1
<1>6. /\ Begin(m, t).dc = [m.dc EXCEPT ![t] = d]
      /\ Begin(m, t).desc = m.desc /\ Begin(m, t).queue = m.queue
  BY <1>2, <1>4, <1>5, DrawContextOfSound
<1>7. \A u \in Targets : Begin(m, t).dc[u] = IF u = t THEN d ELSE m.dc[u]
  BY <1>1, <1>6 DEF Machines
<1>8. \A u \in Targets : /\ Begin(m, t).dc[u].vertex = m.dc[u].vertex
                         /\ Begin(m, t).dc[u].len <= m.dc[u].len
  BY <1>1, <1>2, <1>7
<1>. QED  BY <1>2, <1>6, <1>7, <1>8 DEF Still

\* The pipeline for a source, and the image where it reads one.
PipelineOf(src) == IF src \in Images THEN CopyPipeline ELSE src

BoundTo(m, t, src) ==
    /\ m.dc[t].bound = PipelineOf(src)
    /\ src \in Images => m.desc = src

LEMMA BindMoves ==
  ASSUME NEW m, Sound(m), NEW t \in Targets, NEW src \in Sources
  PROVE  LET r == Bind(m, t, src)
         IN  /\ r.queue = m.queue
             /\ r.desc = IF src \in Images THEN src ELSE m.desc
             /\ BoundTo(r, t, src)
             /\ \A u \in Targets : /\ r.dc[u].vertex = m.dc[u].vertex
                                   /\ r.dc[u].draws = m.dc[u].draws
                                   /\ r.dc[u].len = m.dc[u].len
                                   /\ r.dc[u].pos = m.dc[u].pos
                                   /\ r.dc[u].recording = m.dc[u].recording
             /\ r.dc[t].set = (m.dc[t].set \/ src \in Images)
             /\ \A u \in Targets \ {t} : r.dc[u] = m.dc[u]
<1>. DEFINE bound == PipelineOf(src)
            d  == [m.dc[t] EXCEPT !.bound = bound, !.set = @ \/ src \in Images]
            m1 == Command(m, t)
            m2 == DrawContextOf(m1, t, d)
<1>1. m \in Machines /\ m.dc[t] \in DrawContexts
  BY DEF Sound, Machines
<1>2. bound \in Pipelines
  BY DEF Pipelines, Sources, PipelineOf
<1>3. Bind(m, t, src) = IF src \in Images THEN Update(m2, t, src) ELSE m2
  BY DEF Bind, PipelineOf
<1>. HIDE DEF bound
<1>4. /\ d \in DrawContexts /\ d.bound = bound /\ d.vertex = m.dc[t].vertex
      /\ d.draws = m.dc[t].draws /\ d.len = m.dc[t].len /\ d.pos = m.dc[t].pos
      /\ d.recording = m.dc[t].recording /\ d.set = (m.dc[t].set \/ src \in Images)
  BY <1>1, <1>2 DEF DrawContexts
<1>5. m1 \in Machines /\ m1.dc = m.dc /\ m1.desc = m.desc /\ m1.queue = m.queue
  BY <1>1, CommandSound
<1>. HIDE DEF m1, d
<1>6. /\ m2 \in Machines /\ m2.dc = [m.dc EXCEPT ![t] = d] /\ m2.desc = m.desc
      /\ m2.queue = m.queue
  BY <1>4, <1>5, DrawContextOfSound
<1>. HIDE DEF m2
<1>7. /\ Bind(m, t, src).dc = [m.dc EXCEPT ![t] = d]
      /\ Bind(m, t, src).desc = IF src \in Images THEN src ELSE m.desc
      /\ Bind(m, t, src).queue = m.queue
  BY <1>3, <1>6, UpdateSound
<1>8. \A u \in Targets : Bind(m, t, src).dc[u] = IF u = t THEN d ELSE m.dc[u]
  BY <1>1, <1>7 DEF Machines
<1>9. Bind(m, t, src).dc[t].bound = PipelineOf(src)
  BY <1>4, <1>8 DEF bound
<1>. QED  BY <1>4, <1>7, <1>8, <1>9 DEF BoundTo

-----------------------------------------------------------------------------
(* What keeps the batches apart.                                           *)

\* Where the descriptor set is bound is known.
Marked(m) ==
    /\ \A k \in 1 .. Len(m.queue) : Copies(m.queue[k].draws) => m.queue[k].set
    /\ \A t \in Targets :
          /\ Copies(m.dc[t].draws) \/ m.dc[t].bound = CopyPipeline => m.dc[t].set
          /\ m.dc[t].set => m.dc[t].recording

\* A target has one batch, and none while it is recorded again.
Lone(m) ==
    /\ \A j \in 1 .. Len(m.queue), k \in 1 .. Len(m.queue) :
          m.queue[j].target = m.queue[k].target => j = k
    /\ \A t \in Targets : m.dc[t].recording => ~Busy(m, t)

InUse(m) == SetPending(m) \/ \E t \in Targets : m.dc[t].set

\* Nothing draws on the image that is copied from.
Free(m) ==
    InUse(m) => /\ ~Busy(m, m.desc)
                /\ \A t \in Targets : m.dc[t].recording => t # m.desc

Apart(m) == Marked(m) /\ Lone(m) /\ Free(m)

LEMMA ApartSame ==
  ASSUME NEW m, NEW n, n.queue = m.queue, n.dc = m.dc, n.desc = m.desc
  PROVE  (Apart(n) <=> Apart(m)) /\ (InUse(n) <=> InUse(m)) /\ \A u : Busy(n, u) <=> Busy(m, u)
  BY DEF Apart, Marked, Lone, Free, InUse, SetPending, Busy

LEMMA UnusedBlind ==
  ASSUME NEW m, Apart(m), ~InUse(m)
  PROVE  /\ Blind(m)
         /\ \A t \in Targets : ~Copies(m.dc[t].draws) /\ m.dc[t].bound # CopyPipeline
  BY DEF Apart, Marked, InUse, SetPending, Blind

LEMMA FlushApart ==
  ASSUME NEW m, Sound(m), m.ctx.dst \in Targets, Tidy(m), Apart(m)
  PROVE  Apart(Flush(m))
<1>. DEFINE t == m.ctx.dst
            d == m.dc[t]
            f == Flush(m)
<1>1. /\ f.queue = m.queue /\ f.desc = m.desc /\ f.dc[t].recording = d.recording
      /\ f.dc[t].draws = AllDraws(d, m.ctx) /\ f.dc[t].set = d.set /\ f.dc[t].bound = d.bound
      /\ \A u \in Targets \ {t} : f.dc[u] = m.dc[u]
  BY FlushSound, FlushMoves DEF Still
<1>2. Copies(f.dc[t].draws) => d.set
  <2>1. d \in DrawContexts /\ m.ctx \in Contexts /\ d.pos <= d.len /\ TidyDraws(d)
    BY DEF Sound, Machines, Tidy
  <2>2. Copies(AllDraws(d, m.ctx)) => Copies(d.draws) \/ d.bound = CopyPipeline
    BY <2>1, AllDrawsTidy
  <2>. QED  BY <1>1, <2>2 DEF Apart, Marked
<1>. HIDE DEF f
<1>3. \A u \in Targets : /\ f.dc[u].set = m.dc[u].set
                         /\ f.dc[u].recording = m.dc[u].recording
                         /\ f.dc[u].bound = m.dc[u].bound
                         /\ Copies(f.dc[u].draws) => m.dc[u].set
  BY <1>1, <1>2 DEF Apart, Marked
<1>4. Marked(f)
  BY <1>1, <1>3 DEF Apart, Marked
<1>5. Lone(f)
  BY <1>1, <1>3 DEF Apart, Lone, Busy
<1>6. Free(f)
  BY <1>1, <1>3 DEF Apart, Free, InUse, SetPending, Busy
<1>. QED  BY <1>4, <1>5, <1>6 DEF Apart, f

\* What goes to the queue is of a target that has nothing there, and has the
\* descriptor set bound if the buffer had.
LEMMA SubmitApart ==
  ASSUME NEW m, NEW fails, Sound(m), m.ctx.dst \in Targets, Tidy(m), Apart(m),
         m.dc[m.ctx.dst].recording
  PROVE  /\ Apart(Submit(m, fails))
         /\ InUse(Submit(m, fails)) => InUse(m)
         /\ \A u : Busy(Submit(m, fails), u) => Busy(m, u) \/ u = m.ctx.dst
<1>. DEFINE t == m.ctx.dst
            d == m.dc[t]
            r == Submit(m, fails)
            b == [target |-> t, draws |-> AllDraws(d, m.ctx), set |-> d.set]
            n == Len(m.queue)
<1>1. /\ r.desc = m.desc /\ Rested(r.dc[t]) /\ ~r.dc[t].recording
      /\ \A u \in Targets \ {t} : r.dc[u] = m.dc[u]
      /\ r.queue = m.queue \/ r.queue = Append(m.queue, b)
  BY SubmitSound, SubmitMoves DEF Still, Resting
<1>2. Copies(b.draws) => d.set
  <2>1. d \in DrawContexts /\ m.ctx \in Contexts /\ d.pos <= d.len /\ TidyDraws(d)
    BY DEF Sound, Machines, Tidy
  <2>2. Copies(AllDraws(d, m.ctx)) => Copies(d.draws) \/ d.bound = CopyPipeline
    BY <2>1, AllDrawsTidy
  <2>. QED  BY <2>2 DEF Apart, Marked
<1>3. b.target = t /\ b.set = d.set /\ m.queue \in Seq(Batches) /\ n \in Nat
  BY DEF Sound, Machines
<1>. HIDE DEF r, b
<1>4. \A u \in Targets : /\ r.dc[u].set => m.dc[u].set
                         /\ r.dc[u].recording => m.dc[u].recording /\ u # t
                         /\ Copies(r.dc[u].draws) \/ r.dc[u].bound = CopyPipeline => r.dc[u].set
                         /\ r.dc[u].set => r.dc[u].recording
  <2>1. ~Copies(<<>>) /\ NoPipeline # CopyPipeline
    <3>1. Len(<<>>) = 0
      OBVIOUS
    <3>. QED  BY <3>1, PipelinesAssumption DEF Copies
  <2>. QED  BY <1>1, <2>1 DEF Rested, Apart, Marked
<1>5. ~Busy(m, t) /\ (d.set => InUse(m))
  BY DEF Apart, Lone, InUse
<1>6. CASE r.queue = m.queue
  <2>1. \A u : Busy(r, u) <=> Busy(m, u)
    BY <1>6 DEF Busy
  <2>2. InUse(r) => InUse(m)
    BY <1>4, <1>6 DEF InUse, SetPending
  <2>3. Marked(r) /\ Lone(r)
    BY <1>4, <1>6, <2>1 DEF Apart, Marked, Lone
  <2>4. Free(r)
    BY <1>1, <1>4, <2>1, <2>2 DEF Apart, Free
  <2>. QED  BY <2>1, <2>2, <2>3, <2>4 DEF Apart, r
<1>7. CASE r.queue = Append(m.queue, b)
  <2>1. /\ Len(r.queue) = n + 1 /\ r.queue[n + 1] = b
        /\ \A k \in 1 .. n : r.queue[k] = m.queue[k]
    BY <1>3, <1>7
  <2>2. \A k \in 1 .. n + 1 : k \in 1 .. n \/ k = n + 1
    BY <1>3
  <2>3. \A u : Busy(r, u) => Busy(m, u) \/ u = t
    BY <1>3, <2>1, <2>2 DEF Busy
  <2>4. InUse(r) => InUse(m)
    BY <1>3, <1>4, <1>5, <2>1, <2>2 DEF InUse, SetPending
  <2>5. Marked(r)
    <3>1. \A k \in 1 .. n + 1 : Copies(r.queue[k].draws) => r.queue[k].set
      BY <1>2, <1>3, <2>1, <2>2 DEF Apart, Marked
    <3>. QED  BY <1>4, <2>1, <3>1 DEF Marked
  <2>6. Lone(r)
    <3>1. \A k \in 1 .. n : m.queue[k].target # t
      BY <1>5 DEF Busy
    <3>2. \A j \in 1 .. n + 1, k \in 1 .. n + 1 :
             r.queue[j].target = r.queue[k].target => j = k
      BY <1>3, <2>1, <2>2, <3>1 DEF Apart, Lone
    <3>3. \A u \in Targets : r.dc[u].recording => ~Busy(r, u)
      BY <1>4, <2>3 DEF Apart, Lone
    <3>. QED  BY <2>1, <3>2, <3>3 DEF Lone
  <2>7. Free(r)
    <3>1. InUse(m) => ~Busy(m, m.desc) /\ t # m.desc
      BY DEF Apart, Free
    <3>. QED  BY <1>1, <1>4, <2>3, <2>4, <3>1 DEF Apart, Free
  <2>. QED  BY <2>3, <2>4, <2>5, <2>6, <2>7 DEF Apart, r
<1>. QED  BY <1>1, <1>6, <1>7

LEMMA BeginApart ==
  ASSUME NEW m, Sound(m), Apart(m), NEW t \in Targets, ~Busy(m, t), InUse(m) => t # m.desc
  PROVE  Apart(Begin(m, t)) /\ (InUse(Begin(m, t)) => InUse(m))
<1>. DEFINE r == Begin(m, t)
<1>1. /\ r.desc = m.desc /\ r.queue = m.queue
      /\ r.dc[t].draws = m.dc[t].draws /\ r.dc[t].recording
      /\ r.dc[t].set = m.dc[t].set /\ r.dc[t].bound = m.dc[t].bound
      /\ \A u \in Targets \ {t} : r.dc[u] = m.dc[u]
  BY BeginSound, BeginMoves DEF Still
<1>. HIDE DEF r
<1>2. \A u \in Targets : /\ r.dc[u].set = m.dc[u].set /\ r.dc[u].bound = m.dc[u].bound
                         /\ r.dc[u].draws = m.dc[u].draws
                         /\ r.dc[u].recording <=> (u = t \/ m.dc[u].recording)
  BY <1>1
<1>3. Marked(r)
  BY <1>1, <1>2 DEF Apart, Marked
<1>4. Lone(r)
  BY <1>1, <1>2 DEF Apart, Lone, Busy
<1>5. InUse(r) => InUse(m)
  BY <1>1, <1>2 DEF InUse, SetPending
<1>6. Free(r)
  BY <1>1, <1>2, <1>5 DEF Apart, Free, Busy
<1>. QED  BY <1>3, <1>4, <1>5, <1>6 DEF Apart, r

LEMMA BindApart ==
  ASSUME NEW m, Sound(m), Apart(m), NEW t \in Targets, m.dc[t].recording, NEW src \in Sources,
         src \in Images => /\ ~Busy(m, src)
                           /\ \A u \in Targets : m.dc[u].recording => u # src
  PROVE  Apart(Bind(m, t, src))
<1>. DEFINE r == Bind(m, t, src)
<1>1. /\ r.queue = m.queue /\ r.desc = (IF src \in Images THEN src ELSE m.desc)
      /\ r.dc[t].bound = PipelineOf(src)
      /\ r.dc[t].set = (m.dc[t].set \/ src \in Images)
      /\ r.dc[t].draws = m.dc[t].draws /\ r.dc[t].recording
      /\ \A u \in Targets \ {t} : r.dc[u] = m.dc[u]
  BY BindMoves DEF BoundTo
<1>. HIDE DEF r
<1>2. PipelineOf(src) = CopyPipeline => src \in Images
  BY PipelinesAssumption DEF PipelineOf, Sources
<1>3. \A u \in Targets : r.dc[u].recording <=> m.dc[u].recording
  BY <1>1
<1>4. Marked(r)
  BY <1>1, <1>2 DEF Apart, Marked
<1>5. Lone(r)
  BY <1>1, <1>3 DEF Apart, Lone, Busy
<1>6. Free(r)
  <2>1. CASE src \in Images
    BY <1>1, <1>3, <2>1 DEF Free, Busy
  <2>2. CASE src \notin Images
    <3>1. InUse(r) => InUse(m)
      BY <1>1, <2>2 DEF InUse, SetPending
    <3>. QED  BY <1>1, <1>3, <2>2, <3>1 DEF Apart, Free, Busy
  <2>. QED  BY <2>1, <2>2
<1>. QED  BY <1>4, <1>5, <1>6 DEF Apart, r

-----------------------------------------------------------------------------
(* What holds between the calls.                                           *)

\* What a call finds in the back end, and what it may leave.
Mine ==
    /\ pen.dst = ctx.dst /\ pen.dorg = ctx.dorg /\ pen.sorg = ctx.sorg
    /\ ctx.src \in {pen.src, NoImage}

\* The source that the client has in mind is bound.
Follows ==
    ctx.dst \in Targets =>
        (dc[ctx.dst].recording /\ pen.src # NoImage => BoundTo(State, ctx.dst, pen.src))

PInv ==
    /\ RInv
    /\ Mine
    /\ Follows
    /\ Tidy(State)
    /\ Apart(State)

\* The rules that take care of what is read later.
Attentive == {"source", "idle", "settled", "room", "texture", "origin"} \subseteq Rules

LEMMA SubmittedMore ==
  ASSUME NEW m \in Machines, NEW r, Still(m, r), NEW t \in Targets, NEW draws \in Draws,
         NEW set \in BOOLEAN,
         r.queue = Append(m.queue, [target |-> t, draws |-> draws, set |-> set])
  PROVE  Submitted(r) = Submitted(m) \o StrokesOf(m, t, draws)
<1>. DEFINE n == Len(m.queue)
            b == [target |-> t, draws |-> draws, set |-> set]
            s == StrokesOf(m, t, draws)
<1>1. /\ Batched(m) \in Seq(Seq(Marks(m))) /\ Len(Batched(m)) = n /\ n \in Nat
      /\ m.queue \in Seq(Batches) /\ s \in Seq(Marks(m))
      /\ \A k \in 1 .. n : m.queue[k].target \in Targets
  BY BatchedType, StrokesType DEF Machines
<1>2. r.queue = Append(m.queue, b) /\ b.target = t /\ b.draws = draws
  OBVIOUS
<1>. HIDE DEF b, n
<1>3. /\ Len(r.queue) = n + 1 /\ r.queue[n + 1] = b
      /\ \A k \in 1 .. n : r.queue[k] = m.queue[k]
  BY <1>1, <1>2 DEF n
<1>4. StrokesOf(r, t, draws) = s
  BY StrokesSame DEF Still
<1>5. ASSUME NEW k \in 1 .. n
      PROVE  StrokesOf(r, r.queue[k].target, r.queue[k].draws) = Batched(m)[k]
  <2>1. Batched(m)[k] = StrokesOf(m, m.queue[k].target, m.queue[k].draws)
    BY DEF Batched, n
  <2>2. StrokesOf(r, m.queue[k].target, m.queue[k].draws)
            = StrokesOf(m, m.queue[k].target, m.queue[k].draws)
    <3>1. \A w : \A u \in Targets : StrokesOf(r, u, w) = StrokesOf(m, u, w)
      BY StrokesSame DEF Still
    <3>. QED  BY <1>1, <3>1
  <2>. QED  BY <1>3, <2>1, <2>2
<1>6. Batched(r) = Append(Batched(m), s)
  <2>. DEFINE x == Batched(m)
              y == Append(x, s)
  <2>1. Batched(r) = [k \in 1 .. n + 1 |-> StrokesOf(r, r.queue[k].target, r.queue[k].draws)]
    BY <1>3 DEF Batched
  <2>. HIDE DEF x, s
  <2>2. y = [k \in 1 .. n + 1 |-> IF k = n + 1 THEN s ELSE x[k]]
    <3>1. y \in Seq(Seq(Marks(m))) /\ Len(y) = n + 1
      BY <1>1 DEF x
    <3>2. \A k \in 1 .. n + 1 : y[k] = IF k = n + 1 THEN s ELSE x[k]
      BY <1>1 DEF x
    <3>. QED  BY <3>1, <3>2, LenProperties
  <2>3. ASSUME NEW k \in 1 .. n + 1
        PROVE  StrokesOf(r, r.queue[k].target, r.queue[k].draws) = IF k = n + 1 THEN s ELSE x[k]
    <3>1. CASE k = n + 1
      BY <1>2, <1>3, <1>4, <3>1
    <3>2. CASE k # n + 1
      <4>1. k \in 1 .. n
        BY <1>1, <3>2
      <4>. QED  BY <1>5, <3>2, <4>1 DEF x
    <3>. QED  BY <3>1, <3>2
  <2>. QED  BY <2>1, <2>2, <2>3 DEF x, s
<1>. HIDE DEF s
<1>. QED  BY <1>1, <1>6, FlattenAppend DEF Submitted, s

\* Nothing is recorded or waits in a buffer.
Empty(m) == \A t \in Targets : Resting(m.dc[t]) /\ m.dc[t].draws = <<>>

LEMMA EmptyIsTidy ==
  ASSUME NEW m, Empty(m), \A t \in Targets : m.dc[t].len <= VertexCap
  PROVE  Tidy(m)
<1>1. Len(<<>>) = 0
  OBVIOUS
<1>. QED  BY <1>1 DEF Empty, Tidy, TidyDraws, Resting

\* A target that is left: its strokes come to the queue, or are lost.
Left(m, fails) ==
    \/ Submitted(m) = Waiting(State, ctx)
    \/ "submit" \in fails /\ Submitted(m) = Submitted(State)

LEMMA StateInUse ==
  ASSUME PInv
  PROVE  /\ InUse(State) => SetInUse
         /\ \A t \in Targets : dc[t].recording => t = ctx.dst
<1>1. Kept(State, ctx.dst) /\ State.dc = dc /\ Apart(State)
  BY DEF PInv, RInv, IInv, State
<1>2. \A t \in Targets : dc[t].recording => t = ctx.dst
  BY <1>1 DEF Kept, Resting
<1>3. \A t \in Targets : dc[t].set => dc[t].recording
  BY <1>1 DEF Apart, Marked
<1>4. \A t \in Targets : t # NoImage
  BY ImagesAssumption, TargetsAssumption
<1>. QED  BY <1>1, <1>2, <1>3, <1>4 DEF InUse, SetInUse, SetRecorded

LEMMA LeaveMoves ==
  ASSUME PInv, ~Stopped, NEW dst, NEW fails, dst # ctx.dst \/ ctx.dst = NoImage, NEW m,
         m = IF ctx.dst # NoImage /\ dst # ctx.dst THEN Submit(State, fails) ELSE State
  PROVE  /\ Sound(m) /\ m.ctx = ctx /\ m.desc = desc
         /\ Empty(m) /\ Tidy(m)
         /\ Left(m, fails)
         /\ Apart(m) /\ (InUse(m) => SetInUse)
         /\ \A u : Busy(m, u) => Busy(State, u) \/ (ctx.dst # NoImage /\ u = ctx.dst)
<1>1. /\ Sound(State) /\ State.ctx = ctx /\ State.dc = dc /\ State.desc = desc
      /\ State.queue = queue /\ Kept(State, ctx.dst) /\ Tidy(State)
      /\ State \in Machines /\ ctx \in Contexts
      /\ \A t \in Targets : dc[t] \in DrawContexts /\ dc[t].pos <= dc[t].len
  BY IInvSound DEF PInv, RInv, IInv, State, TypeOK, Sound
<1>2. Apart(State) /\ (InUse(State) => SetInUse)
  BY StateInUse DEF PInv
<1>3. \A t \in Targets : t # ctx.dst => Resting(dc[t]) /\ dc[t].draws = <<>>
  BY <1>1 DEF Kept, Tidy, TidyDraws, Resting
<1>4. CASE ctx.dst = NoImage
  <2>1. m = State
    BY <1>4
  <2>2. \A t \in Targets : t # ctx.dst
    BY <1>4, ImagesAssumption, TargetsAssumption
  <2>3. Empty(m)
    BY <1>1, <1>3, <2>1, <2>2 DEF Empty
  <2>4. Open(State, ctx) = <<>>
    BY <1>4 DEF Open
  <2>5. Submitted(m) = Waiting(State, ctx)
    BY <1>1, <2>1, <2>4, SubmittedType, ConcatEmptySeq DEF Waiting
  <2>. QED  BY <1>1, <1>2, <2>1, <2>3, <2>5 DEF Left
<1>5. CASE ctx.dst # NoImage
  <2>. DEFINE t == ctx.dst
              draws == AllDraws(dc[t], ctx)
              strokes == StrokesOf(State, t, draws)
  <2>1. m = Submit(State, fails) /\ t \in Targets
    BY <1>5 DEF PInv, RInv, IInv, TypeOK
  <2>2. dc[t].recording
    BY <1>5 DEF Stopped
  <2>3. /\ Sound(m) /\ m.ctx = ctx /\ Resting(m.dc[t])
        /\ \A u \in Targets \ {t} : m.dc[u] = dc[u]
    BY <1>1, <2>1, SubmitSound
  <2>4. /\ Still(State, m) /\ Rested(m.dc[t])
        /\ \/ "submit" \in fails /\ m.queue = queue
           \/ m.queue = Append(queue, [target |-> t, draws |-> draws, set |-> dc[t].set])
    BY <1>1, <2>1, SubmitMoves
  <2>5. draws \in Draws
    BY <1>1, <2>1, AllDrawsType
  <2>6. Open(State, ctx) = strokes
    BY <1>1, <1>5, <2>2 DEF Open
  <2>. HIDE DEF draws, strokes
  <2>7. Empty(m)
    BY <1>3, <2>3, <2>4 DEF Empty, Rested
  <2>8. \A u \in Targets : m.dc[u].len <= VertexCap
    <3>1. \A u \in Targets : m.dc[u].len <= dc[u].len /\ dc[u].len <= VertexCap
      BY <1>1, <2>4 DEF Still, Tidy, TidyDraws
    <3>2. \A u \in Targets : m.dc[u].len \in Nat /\ dc[u].len \in Nat
      BY <1>1, <2>3 DEF Sound, Machines, DrawContexts
    <3>. QED  BY <3>1, <3>2, VertexCapAssumption
  <2>9. Left(m, fails)
    <3>1. CASE "submit" \in fails /\ m.queue = queue
      <4>1. Submitted(m) = Submitted(State)
        <5>1. \A k \in 1 .. Len(State.queue) : State.queue[k].target \in Targets
          BY <1>1, BatchedType
        <5>. QED  BY <1>1, <2>4, <3>1, <5>1, SubmittedSame DEF Still
      <4>. QED  BY <3>1, <4>1 DEF Left
    <3>2. CASE m.queue = Append(queue, [target |-> t, draws |-> draws, set |-> dc[t].set])
      <4>1. Submitted(m) = Submitted(State) \o strokes
        <5>1. dc[t].set \in BOOLEAN
          BY <1>1, <2>1 DEF DrawContexts
        <5>. QED  BY <1>1, <2>1, <2>4, <2>5, <3>2, <5>1, SubmittedMore DEF strokes
      <4>. QED  BY <2>6, <4>1 DEF Left, Waiting
    <3>. QED  BY <2>4, <3>1, <3>2
  <2>10. /\ Apart(m) /\ (InUse(m) => SetInUse)
         /\ \A u : Busy(m, u) => Busy(State, u) \/ u = t
    BY <1>1, <1>2, <2>1, <2>2, SubmitApart
  <2>11. m.desc = desc
    BY <1>1, <2>4 DEF Still
  <2>. QED  BY <1>5, <2>3, <2>7, <2>8, <2>9, <2>10, <2>11, EmptyIsTidy
<1>. QED  BY <1>4, <1>5

\* Another source for a destination that stays (impl.c:673-715): the vertices
\* of the old one are drawn before.
LEMMA SwitchMoves ==
  ASSUME PInv, ~Stopped, ctx.dst \in Targets, NEW src \in Sources,
         src \in Images =>
            src # ctx.dst /\ ~Busy(State, src) /\ (src = desc \/ ~SetInUse),
         NEW r, r = Bind(Flush(State), ctx.dst, src)
  PROVE  /\ Tidy(r) /\ BoundTo(r, ctx.dst, src) /\ Apart(r)
         /\ \A c \in Contexts : c.dst = ctx.dst => Waiting(r, c) = Waiting(State, ctx)
<1>. DEFINE t == ctx.dst
            d == dc[t]
            f == Flush(State)
            w == AllDraws(d, ctx)
<1>1. /\ Sound(State) /\ State.ctx = ctx /\ State.dc = dc /\ State.desc = desc
      /\ State.queue = queue /\ Tidy(State)
      /\ State \in Machines /\ ctx \in Contexts /\ d \in DrawContexts /\ d.pos <= d.len
      /\ t \in Targets /\ t # NoImage /\ d.recording /\ Apart(State)
  <2>1. t # NoImage
    BY ImagesAssumption, TargetsAssumption
  <2>2. d.recording
    BY <2>1 DEF Stopped
  <2>. QED  BY <2>1, <2>2, IInvSound DEF PInv, RInv, IInv, State, TypeOK, Sound
<1>2. /\ Sound(f) /\ Still(State, f) /\ f.queue = queue
      /\ f.dc[t].draws = w /\ f.dc[t].len = d.len /\ f.dc[t].pos = d.len
      /\ f.dc[t].recording
      /\ \A u \in Targets \ {t} : f.dc[u] = dc[u]
  BY <1>1, FlushSound, FlushMoves
<1>. HIDE DEF f, w
<1>3. /\ Sound(r) /\ r.queue = queue /\ BoundTo(r, t, src)
      /\ r.desc = IF src \in Images THEN src ELSE desc
      /\ \A u \in Targets : /\ r.dc[u].vertex = dc[u].vertex
                            /\ r.dc[u].draws = f.dc[u].draws
                            /\ r.dc[u].len = f.dc[u].len
                            /\ r.dc[u].pos = f.dc[u].pos
                            /\ r.dc[u].recording = f.dc[u].recording
  BY <1>1, <1>2, BindSound, BindMoves DEF Still, f
<1>4. r.desc = desc \/ (Blind(State) /\ ~Copies(w))
  <2>1. CASE src \notin Images \/ src = desc
    BY <1>3, <2>1
  <2>2. CASE ~SetInUse
    <3>1. Blind(State) /\ ~Copies(d.draws) /\ d.bound # CopyPipeline
      BY <1>1, <2>2, StateInUse, UnusedBlind
    <3>2. TidyDraws(d)
      BY <1>1 DEF Tidy
    <3>3. ~Copies(w)
      BY <1>1, <3>1, <3>2, AllDrawsTidy DEF w
    <3>. QED  BY <3>1, <3>3
  <2>. QED  BY <2>1, <2>2
<1>5. Submitted(r) = Submitted(State)
  <2>1. \A k \in 1 .. Len(queue) : queue[k].target \in Targets
    BY <1>1, BatchedType
  <2>. QED  BY <1>1, <1>3, <1>4, <2>1, SubmittedSame
<1>6. ASSUME NEW c \in Contexts, c.dst = t PROVE Open(r, c) = Open(State, ctx)
  <2>1. AllDraws(r.dc[t], c) = w
    <3>1. r.dc[t] \in DrawContexts /\ r.dc[t].pos = r.dc[t].len
      BY <1>1, <1>2, <1>3 DEF Sound, Machines
    <3>. QED  BY <1>1, <1>2, <1>3, <3>1, AllDrawn
  <2>2. StrokesOf(r, t, w) = StrokesOf(State, t, w)
    BY <1>1, <1>3, <1>4, StrokesSame
  <2>3. r.dc[t].recording
    BY <1>1, <1>2, <1>3
  <2>. QED  BY <1>1, <1>6, <2>1, <2>2, <2>3 DEF Open, w
<1>7. \A c \in Contexts : c.dst = t => Waiting(r, c) = Waiting(State, ctx)
  BY <1>5, <1>6 DEF Waiting
<1>8. ASSUME NEW u \in Targets PROVE TidyDraws(r.dc[u])
  <2>1. CASE u # t
    BY <1>1, <1>2, <1>3, <2>1 DEF Tidy, TidyDraws
  <2>2. CASE u = t
    <3>1. r.dc[u].len = d.len /\ r.dc[u].pos = d.len /\ r.dc[u].draws = w /\ r.dc[u].recording
      BY <1>2, <1>3, <2>2
    <3>2. TidyDraws(d)
      BY <1>1 DEF Tidy
    <3>3. \A i \in 1 .. Len(w) : w[i].slot < d.len
      BY <1>1, <3>2, AllDrawsTidy DEF w
    <3>. QED  BY <3>1, <3>2, <3>3 DEF TidyDraws
  <2>. QED  BY <2>1, <2>2
<1>9. Apart(r)
  <2>1. Apart(f) /\ (\A u : Busy(f, u) <=> Busy(State, u))
    BY <1>1, <1>2, FlushApart DEF f, Busy
  <2>2. \A u \in Targets : f.dc[u].recording => u = t
    BY <1>2, StateInUse
  <2>. QED  BY <1>1, <1>2, <2>1, <2>2, BindApart DEF f
<1>. QED  BY <1>3, <1>7, <1>8, <1>9 DEF Tidy

\* A new destination that begins (impl.c:639-715).
LEMMA BeginsMoves ==
  ASSUME PInv, NEW dst \in Targets, NEW src \in Sources \cup {NoImage},
         dst = desc => ~SetInUse,
         NEW m, Sound(m), Empty(m), Tidy(m), m.desc = desc, m.ctx.src = NoImage, ~Busy(m, dst),
         Apart(m), InUse(m) => SetInUse,
         src \in Images => src # dst /\ ~Busy(m, src) /\ (src = desc \/ ~SetInUse),
         NEW r, r = SelectSource(Begin(m, dst), dst, src)
  PROVE  /\ r.ret = 0 /\ Tidy(r.m) /\ Apart(r.m)
         /\ src # NoImage => BoundTo(r.m, dst, src)
         /\ \A c \in Contexts : c.dst = dst => Waiting(r.m, c) = Submitted(m)
<1>. DEFINE b == Begin(m, dst)
<1>1. /\ Sound(b) /\ b.ctx = m.ctx /\ b.queue = m.queue /\ Still(m, b)
      /\ b.dc[dst].pos = b.dc[dst].len /\ b.dc[dst].draws = <<>> /\ b.dc[dst].recording
      /\ \A u \in Targets \ {dst} : b.dc[u] = m.dc[u]
  BY BeginSound, BeginMoves DEF Empty, Resting
<1>2. \A u \in Targets : b.dc[u].pos = b.dc[u].len /\ b.dc[u].draws = <<>>
  BY <1>1 DEF Empty, Resting
<1>3. b.ctx.dst # NoImage => Flush(b) = b
  <2>1. b.ctx.dst # NoImage => b.ctx.dst \in Targets
    BY <1>1 DEF Sound
  <2>. HIDE DEF b
  <2>. QED  BY <1>2, <2>1 DEF Flush
<1>4. r = IF src = NoImage THEN Return(b, 0) ELSE Return(Bind(b, dst, src), 0)
  <2>. HIDE DEF b
  <2>1. r = SelectSource(b, dst, src)
    BY DEF b
  <2>2. CASE src = NoImage
    BY <1>1, <2>1, <2>2 DEF SelectSource
  <2>3. CASE src # NoImage
    <3>1. (IF b.ctx.dst # NoImage THEN Flush(b) ELSE b) = b
      BY <1>3
    <3>. QED  BY <1>1, <2>1, <2>3, <3>1 DEF SelectSource
  <2>. QED  BY <2>2, <2>3
<1>. HIDE DEF b
<1>5. r.ret = 0 /\ r.m = IF src = NoImage THEN b ELSE Bind(b, dst, src)
  BY <1>4 DEF Return
<1>6. /\ Sound(r.m) /\ r.m.queue = m.queue
      /\ src # NoImage => BoundTo(r.m, dst, src)
      /\ r.m.desc = IF src \in Images THEN src ELSE desc
      /\ \A u \in Targets : /\ r.m.dc[u].vertex = m.dc[u].vertex
                            /\ r.m.dc[u].draws = <<>>
                            /\ r.m.dc[u].len = b.dc[u].len
                            /\ r.m.dc[u].pos = b.dc[u].len
                            /\ r.m.dc[u].recording = b.dc[u].recording
  <2>1. CASE src = NoImage
    BY <1>1, <1>2, <1>5, <2>1, ImagesAssumption DEF Still
  <2>2. CASE src # NoImage
    <3>1. src \in Sources
      BY <2>2
    <3>. QED  BY <1>1, <1>2, <1>5, <2>2, <3>1, BindSound, BindMoves DEF Still
  <2>. QED  BY <2>1, <2>2
<1>7. r.m.desc = m.desc \/ Blind(m)
  BY <1>6, UnusedBlind
<1>8. Submitted(r.m) = Submitted(m)
  <2>1. \A k \in 1 .. Len(m.queue) : m.queue[k].target \in Targets
    BY BatchedType DEF Sound
  <2>. QED  BY <1>6, <1>7, <2>1, SubmittedSame
<1>9. ASSUME NEW c \in Contexts, c.dst = dst PROVE Open(r.m, c) = <<>>
  <2>1. r.m.dc[dst] \in DrawContexts /\ r.m.dc[dst].pos = r.m.dc[dst].len
    BY <1>6 DEF Sound, Machines
  <2>2. AllDraws(r.m.dc[dst], c) = <<>>
    BY <1>6, <2>1, AllDrawn
  <2>3. StrokesOf(r.m, dst, <<>>) = <<>>
    <3>1. Len(<<>>) = 0
      OBVIOUS
    <3>. QED  BY <3>1 DEF StrokesOf
  <2>. QED  BY <1>9, <2>2, <2>3 DEF Open
<1>10. \A c \in Contexts : c.dst = dst => Waiting(r.m, c) = Submitted(m)
  <2>1. Submitted(m) \o <<>> = Submitted(m)
    BY SubmittedType, ConcatEmptySeq DEF Sound
  <2>. QED  BY <1>8, <1>9, <2>1 DEF Waiting
<1>11. Tidy(r.m)
  <2>1. Len(<<>>) = 0
    OBVIOUS
  <2>2. \A u \in Targets : r.m.dc[u].len <= VertexCap
    <3>1. \A u \in Targets : /\ b.dc[u].len <= m.dc[u].len /\ m.dc[u].len <= VertexCap
                             /\ b.dc[u].len \in Nat /\ m.dc[u].len \in Nat
      BY <1>1 DEF Tidy, TidyDraws, Still, Sound, Machines, DrawContexts
    <3>. QED  BY <1>6, <3>1, VertexCapAssumption
  <2>. QED  BY <1>6, <2>1, <2>2 DEF Tidy, TidyDraws
<1>12. Apart(r.m)
  <2>1. Apart(b) /\ \A u : Busy(b, u) <=> Busy(m, u)
    BY <1>1, BeginApart DEF b, Busy
  <2>2. \A u \in Targets : b.dc[u].recording => u = dst
    BY <1>1 DEF Empty, Resting
  <2>. QED  BY <1>1, <1>5, <2>1, <2>2, BindApart
<1>. QED  BY <1>5, <1>6, <1>10, <1>11, <1>12

\* The origins stay, or nothing is drawn with them.
Keeps(dst, src, c) ==
    \/ dst # ctx.dst \/ src # ctx.src \/ ~Pending
    \/ c.dorg = ctx.dorg /\ c.sorg = ctx.sorg

\* No image is drawn on and copied from by what waits.
Fits(dst, src) ==
    /\ Updates(dst, src) =>
          src \notin {ctx.dst, dst} /\ ~Busy(State, src) /\ (src = desc \/ ~SetInUse)
    /\ dst # ctx.dst /\ dst = desc => ~SetInUse

\* What setup does to what waits, for what blt.c makes of the context.
Moved(dst, src, fails, r) ==
    /\ \E s \in {ctx.src, NoImage} : r.m.ctx = [ctx EXCEPT !.src = s]
    /\ Tidy(r.m)
    /\ r.ret = -1 => r.m = State \/ \A t \in Targets : ~r.m.dc[t].recording
    /\ Apart(r.m)
    /\ r.ret = 0 /\ dst \in Targets /\ src # NoImage /\ (dst # ctx.dst \/ src # ctx.src)
           => BoundTo(r.m, dst, src)
    /\ r.ret = 0 /\ dst = ctx.dst /\ src = ctx.src => r.m = State
    /\ \A c \in Contexts :
          \/ r.ret = 0 /\ c.dst = dst /\ Keeps(dst, src, c)
          \/ r.ret = -1 /\ c.dst = ctx.dst /\ c.dorg = ctx.dorg /\ c.sorg = ctx.sorg
          => \/ Waiting(r.m, c) = Waiting(State, ctx)
             \/ "submit" \in fails /\ Waiting(r.m, c) = Submitted(State)

LEMMA WaitingAt ==
  ASSUME Sound(State), NEW c \in Contexts, c.dst = ctx.dst,
         ~Pending \/ (c.dorg = ctx.dorg /\ c.sorg = ctx.sorg)
  PROVE  Waiting(State, c) = Waiting(State, ctx)
<1>1. CASE c.dst = NoImage
  BY <1>1 DEF Waiting, Open
<1>2. CASE c.dst # NoImage
  <2>. DEFINE d == dc[ctx.dst]
  <2>1. d \in DrawContexts /\ d.pos <= d.len
    BY <1>2 DEF Sound, Machines, State
  <2>2. Draw(d, c) = Draw(d, ctx)
    <3>1. CASE d.pos = d.len
      BY <2>1, <3>1, AllDrawn
    <3>2. CASE d.pos # d.len
      <4>1. Pending
        BY <1>2, <2>1, <3>2 DEF Pending, DrawContexts
      <4>. QED  BY <4>1 DEF Draw
    <3>. QED  BY <3>1, <3>2
  <2>. QED  BY <1>2, <2>2 DEF Waiting, Open, AllDraws, State
<1>. QED  BY <1>1, <1>2

LEMMA SetupMoves ==
  ASSUME PInv, NEW dst \in Sources \cup {NoImage}, NEW src \in Sources \cup {NoImage},
         NEW msk, NEW fails, Allowed(dst, src), Fits(dst, src)
  PROVE  Moved(dst, src, fails, Setup(dst, src, msk, fails))
<1>. DEFINE retarget == dst # ctx.dst
            m1 == IF ctx.dst # NoImage /\ retarget THEN Submit(State, fails) ELSE State
            m2 == ForgetSource(m1)
            r  == Setup(dst, src, msk, fails)
<1>. SUFFICES Moved(dst, src, fails, r)
  OBVIOUS
<1>1. /\ Sound(State) /\ State.ctx = ctx /\ State.dc = dc /\ Tidy(State) /\ ctx \in Contexts
      /\ ~Stopped /\ ctx.dst \in Targets \cup {NoImage}
      /\ State \in Machines /\ State.queue = queue /\ Apart(State)
  BY IInvSound DEF PInv, RInv, IInv, State, TypeOK, Allowed, Sound
<1>2. retarget \/ ctx.dst = NoImage =>
         /\ Sound(m1) /\ m1.ctx = ctx /\ m1.desc = desc /\ Empty(m1) /\ Tidy(m1)
         /\ Left(m1, fails)
         /\ Apart(m1) /\ (InUse(m1) => SetInUse)
         /\ \A u : Busy(m1, u) => Busy(State, u) \/ (ctx.dst # NoImage /\ u = ctx.dst)
  BY <1>1, LeaveMoves
<1>3. r =
        IF dst = NoImage THEN Return(m1, 0)
        ELSE IF dst \notin Targets \/ msk # NoImage THEN Return(m1, -1)
        ELSE IF ~retarget THEN SelectSource(m1, dst, src)
        ELSE IF "begin" \in fails THEN Return(m2, -1)
        ELSE SelectSource(Begin(m2, dst), dst, src)
  BY DEF Setup
<1>4. ~retarget => m1 = State
  OBVIOUS
<1>5. retarget /\ dst \in Targets => ~Busy(m1, dst)
  <2>. HIDE DEF m1
  <2>. QED  BY <1>2 DEF Allowed
<1>6. retarget => /\ Sound(m2) /\ m2.ctx = [ctx EXCEPT !.src = NoImage] /\ m2.ctx.src = NoImage
                  /\ m2.dc = m1.dc /\ m2.queue = m1.queue /\ m2.desc = m1.desc
                  /\ Submitted(m2) = Submitted(m1)
                  /\ Apart(m2) /\ (InUse(m2) => SetInUse)
                  /\ \A u : Busy(m2, u) <=> Busy(m1, u)
  <2>. HIDE DEF m1
  <2>1. retarget => /\ Sound(m2) /\ m2.ctx = [ctx EXCEPT !.src = NoImage] /\ m2.ctx.src = NoImage
                    /\ m2.dc = m1.dc /\ m2.queue = m1.queue /\ m2.desc = m1.desc
    BY <1>2 DEF ForgetSource, Sound, Machines, Contexts
  <2>. QED  BY <1>2, <2>1, WaitingSame, ApartSame
<1>7. ctx = [ctx EXCEPT !.src = ctx.src]
  BY <1>1 DEF Contexts
<1>8. Submitted(m1) \o <<>> = Submitted(m1)
  <2>. HIDE DEF m1
  <2>1. m1 \in Machines
    BY <1>1, <1>2, <1>4 DEF Sound
  <2>. QED  BY <2>1, SubmittedType, ConcatEmptySeq
<1>. HIDE DEF m1, m2, r
<1>9. CASE dst = NoImage
  <2>1. r.m = m1 /\ r.ret = 0
    BY <1>3, <1>9 DEF Return
  <2>2. retarget \/ ctx.dst = NoImage
    BY <1>9
  <2>3. ASSUME NEW c \in Contexts, c.dst = dst PROVE Waiting(m1, c) = Submitted(m1)
    BY <1>8, <1>9, <2>3 DEF Waiting, Open
  <2>4. dst \notin Targets
    BY <1>9, ImagesAssumption, TargetsAssumption
  <2>. QED  BY <1>2, <1>4, <1>7, <2>1, <2>2, <2>3, <2>4 DEF Moved, Left
<1>10. CASE dst # NoImage /\ (dst \notin Targets \/ msk # NoImage)
  <2>1. r.m = m1 /\ r.ret = -1
    BY <1>3, <1>10 DEF Return
  <2>2. CASE ~retarget
    <3>1. \A c \in Contexts : c.dst = ctx.dst /\ c.dorg = ctx.dorg /\ c.sorg = ctx.sorg
             => Waiting(State, c) = Waiting(State, ctx)
      BY <1>1, WaitingAt
    <3>. QED  BY <1>1, <1>4, <1>7, <2>1, <2>2, <3>1 DEF Moved
  <2>3. CASE retarget
    <3>1. \A t \in Targets : ~m1.dc[t].recording
      BY <1>2, <2>3 DEF Empty, Resting
    <3>2. ASSUME NEW c \in Contexts, c.dst = ctx.dst PROVE Waiting(m1, c) = Submitted(m1)
      BY <1>1, <1>8, <3>1, <3>2 DEF Waiting, Open
    <3>. QED  BY <1>2, <1>7, <2>1, <2>3, <3>1, <3>2 DEF Moved, Left
  <2>. QED  BY <2>2, <2>3
<1>11. CASE dst \in Targets /\ msk = NoImage /\ dst # NoImage /\ ~retarget
  <2>1. r = SelectSource(State, dst, src)
    BY <1>3, <1>4, <1>11
  <2>2. CASE src = ctx.src
    <3>1. r.m = State /\ r.ret = 0
      BY <1>1, <2>1, <2>2 DEF SelectSource, Return
    <3>2. \A c \in Contexts : c.dst = ctx.dst /\ Keeps(dst, src, c)
             => Waiting(State, c) = Waiting(State, ctx)
      BY <1>1, <1>11, <2>2, WaitingAt DEF Keeps
    <3>. QED  BY <1>1, <1>7, <1>11, <2>2, <3>1, <3>2 DEF Moved
  <2>3. CASE src # ctx.src
    <3>1. src \in Sources
      BY <1>11, <2>3 DEF Allowed
    <3>2. r = Return(Bind(Flush(State), dst, src), 0)
      BY <1>1, <1>11, <2>1, <2>3, <3>1, ImagesAssumption DEF SelectSource, Sources
    <3>3. r.ret = 0 /\ r.m = Bind(Flush(State), ctx.dst, src)
      BY <1>11, <3>2 DEF Return
    <3>4. /\ Tidy(r.m) /\ BoundTo(r.m, ctx.dst, src) /\ Apart(r.m)
          /\ \A c \in Contexts : c.dst = ctx.dst => Waiting(r.m, c) = Waiting(State, ctx)
      <4>1. src \in Images =>
               src # ctx.dst /\ ~Busy(State, src) /\ (src = desc \/ ~SetInUse)
        BY <1>11, <2>3 DEF Fits, Updates
      <4>. QED  BY <1>1, <1>11, <3>1, <3>3, <4>1, SwitchMoves
    <3>5. r.m.ctx = ctx
      BY <1>1, <1>11, <3>1, <3>3, FlushSound, BindSound
    <3>. QED  BY <1>7, <1>11, <2>3, <3>3, <3>4, <3>5 DEF Moved
  <2>. QED  BY <2>2, <2>3
<1>12. CASE dst \in Targets /\ msk = NoImage /\ dst # NoImage /\ retarget
  <2>1. Empty(m2) /\ Tidy(m2) /\ Left(m2, fails)
    BY <1>2, <1>6, <1>12 DEF Empty, Tidy, Left
  <2>2. CASE "begin" \in fails
    <3>1. r.m = m2 /\ r.ret = -1
      BY <1>3, <1>12, <2>2 DEF Return
    <3>2. \A t \in Targets : ~m2.dc[t].recording
      BY <2>1 DEF Empty, Resting
    <3>3. ASSUME NEW c \in Contexts, c.dst = ctx.dst PROVE Waiting(m2, c) = Submitted(m2)
      BY <1>1, <1>6, <1>8, <1>12, <3>2, <3>3 DEF Waiting, Open
    <3>. QED  BY <1>6, <1>12, <2>1, <3>1, <3>2, <3>3 DEF Moved, Left
  <2>3. CASE "begin" \notin fails
    <3>1. r = SelectSource(Begin(m2, dst), dst, src)
      BY <1>3, <1>12, <2>3
    <3>2. ~Busy(m2, dst)
      BY <1>5, <1>6, <1>12 DEF Busy
    <3>3. m2.desc = desc
      BY <1>2, <1>6, <1>12
    <3>4. /\ r.ret = 0 /\ Tidy(r.m) /\ Apart(r.m)
          /\ src # NoImage => BoundTo(r.m, dst, src)
          /\ \A c \in Contexts : c.dst = dst => Waiting(r.m, c) = Submitted(m2)
      <4>1. src \in Images => src # dst /\ ~Busy(m2, src) /\ (src = desc \/ ~SetInUse)
        BY <1>2, <1>6, <1>12 DEF Fits, Updates
      <4>2. dst = desc => ~SetInUse
        BY <1>12 DEF Fits
      <4>. QED  BY <1>6, <1>12, <2>1, <3>1, <3>2, <3>3, <4>1, <4>2, BeginsMoves
    <3>5. r.m.ctx = m2.ctx
      <4>. DEFINE b == Begin(m2, dst)
      <4>1. Sound(b) /\ b.ctx = m2.ctx
        BY <1>6, <1>12, BeginSound
      <4>. HIDE DEF b
      <4>2. Selected(b, src, r)
        BY <1>12, <3>1, <4>1, SelectSourceSound DEF b
      <4>. QED  BY <4>1, <4>2 DEF Selected
    <3>. QED  BY <1>6, <1>12, <2>1, <3>4, <3>5 DEF Moved, Left
  <2>. QED  BY <2>2, <2>3
<1>. QED  BY <1>9, <1>10, <1>11, <1>12

\* What a call of blt.c that succeeds makes of the context and of the pen.
Picks(dst, src, assigned, chosen) ==
    /\ assigned \in Contexts /\ chosen \in Pens
    /\ assigned.dst = dst /\ chosen.dst = dst
    /\ chosen.dorg = assigned.dorg /\ chosen.sorg = assigned.sorg
    /\ assigned.src \in {chosen.src, NoImage}
    /\ chosen.rect = pen.rect
    /\ Keeps(dst, src, assigned)
    /\ chosen.src # NoImage => IF dst # ctx.dst \/ src # ctx.src THEN chosen.src = src
                               ELSE chosen.src = pen.src

\* What the client sees of such a call.
Chooses ==
    /\ pen' \in Pens
    /\ pen'.rect = pen.rect
    /\ \/ Waiting(State', ctx') = Waiting(State, ctx)
       \/ pen'.refused /\ Waiting(State', ctx') = Submitted(State)

LEMMA ChosenMoves ==
  ASSUME PInv, RInv', NEW dst, NEW src, NEW fails, NEW r, Moved(dst, src, fails, r),
         r.ret \in {0, -1}, NEW assigned, NEW chosen,
         r.ret = 0 => Picks(dst, src, assigned, chosen),
         Finish(r, assigned, chosen, fails)
  PROVE  Chooses /\ PInv'
<1>. DEFINE last == IF r.ret < 0 THEN pen ELSE chosen
            no == "submit" \in fails
<1>1. /\ ctx' = IF r.ret < 0 THEN r.m.ctx ELSE assigned
      /\ dc' = r.m.dc /\ desc' = r.m.desc /\ queue' = r.m.queue
      /\ pen' = [last EXCEPT !.refused = no]
  BY DEF Finish
<1>2. pen \in Pens /\ ctx \in Contexts
  BY DEF PInv, RInv, IInv, TypeOK
<1>3. last \in Pens /\ no \in BOOLEAN
  BY <1>2 DEF Picks
<1>4. /\ pen' \in Pens /\ pen'.refused = no
      /\ pen'.dst = last.dst /\ pen'.dorg = last.dorg /\ pen'.sorg = last.sorg
      /\ pen'.src = last.src /\ pen'.rect = last.rect
  <2>. HIDE DEF last, no
  <2>. QED  BY <1>1, <1>3 DEF Pens
<1>5. \A c : Waiting(State', c) = Waiting(r.m, c)
  <2>1. /\ (State').queue = r.m.queue /\ (State').dc = r.m.dc /\ (State').desc = r.m.desc
    BY <1>1 DEF State
  <2>. QED  BY <2>1, WaitingSame
<1>6. Tidy(State') /\ Apart(State')
  <2>1. /\ (State').queue = r.m.queue /\ (State').dc = r.m.dc /\ (State').desc = r.m.desc
    BY <1>1 DEF State
  <2>. QED  BY <1>1, <2>1, ApartSame DEF Moved, Tidy, State
<1>7. PICK s \in {ctx.src, NoImage} : r.m.ctx = [ctx EXCEPT !.src = s]
  BY DEF Moved
<1>8. CASE r.ret = -1
  <2>1. /\ ctx' = [ctx EXCEPT !.src = s] /\ last = pen
    BY <1>1, <1>7, <1>8
  <2>2. /\ ctx' \in Contexts /\ ctx'.dst = ctx.dst /\ ctx'.dorg = ctx.dorg
        /\ ctx'.sorg = ctx.sorg /\ ctx'.src = s
    BY <1>2, <2>1 DEF Contexts
  <2>3. \/ Waiting(r.m, ctx') = Waiting(State, ctx)
        \/ no /\ Waiting(r.m, ctx') = Submitted(State)
    BY <1>8, <2>2 DEF Moved
  <2>4. Chooses
    BY <1>4, <1>5, <2>1, <2>3 DEF Chooses
  <2>5. Mine'
    BY <1>4, <2>1, <2>2 DEF PInv, Mine
  <2>6. CASE r.m = State
    <3>1. dc' = dc /\ desc' = desc /\ queue' = queue
      BY <1>1, <2>6 DEF State
    <3>2. Follows'
      BY <1>4, <2>1, <2>2, <3>1 DEF PInv, Follows, BoundTo, State
    <3>. QED  BY <1>6, <2>4, <2>5, <3>2 DEF PInv
  <2>7. CASE \A t \in Targets : ~r.m.dc[t].recording
    <3>1. Follows'
      BY <1>1, <2>7, <2>2 DEF Follows
    <3>. QED  BY <1>6, <2>4, <2>5, <3>1 DEF PInv
  <2>. QED  BY <1>8, <2>6, <2>7 DEF Moved
<1>9. CASE r.ret = 0
  <2>1. ctx' = assigned /\ last = chosen /\ Picks(dst, src, assigned, chosen)
    BY <1>1, <1>9
  <2>2. \/ Waiting(r.m, ctx') = Waiting(State, ctx)
        \/ no /\ Waiting(r.m, ctx') = Submitted(State)
    BY <1>9, <2>1 DEF Moved, Picks
  <2>3. Chooses
    BY <1>4, <1>5, <2>1, <2>2 DEF Chooses, Picks
  <2>4. Mine'
    BY <1>4, <2>1 DEF Mine, Picks
  <2>5. ASSUME dst \in Targets, chosen.src # NoImage, dc'[dst].recording
        PROVE  BoundTo(r.m, dst, chosen.src)
    <3>1. CASE dst # ctx.dst \/ src # ctx.src
      <4>1. chosen.src = src
        BY <2>1, <2>5, <3>1 DEF Picks
      <4>. QED  BY <1>9, <2>5, <3>1, <4>1 DEF Moved
    <3>2. CASE dst = ctx.dst /\ src = ctx.src
      <4>1. chosen.src = pen.src /\ r.m = State
        BY <1>9, <2>1, <2>5, <3>2 DEF Picks, Moved
      <4>. QED  BY <1>1, <2>5, <3>2, <4>1 DEF PInv, Follows, State
    <3>. QED  BY <3>1, <3>2
  <2>6. Follows'
    BY <1>1, <1>4, <2>1, <2>5 DEF Follows, BoundTo, State, Picks
  <2>. QED  BY <1>6, <2>3, <2>4, <2>6 DEF PInv
<1>. QED  BY <1>8, <1>9

-----------------------------------------------------------------------------
(* The calls.                                                              *)

\* What MayCall grants.
Granted(dst, dorg, src, sorg) ==
    /\ Allowed(dst, src)
    /\ Fits(dst, src)
    /\ \/ dorg = ctx.dorg /\ sorg = ctx.sorg
       \/ dst # ctx.dst \/ src # ctx.src \/ ~Pending

LEMMA CallGranted ==
  ASSUME Attentive, NEW dst, NEW dorg, NEW src, NEW sorg, MayCall(dst, dorg, src, sorg)
  PROVE  Granted(dst, dorg, src, sorg)
<1>1. Updates(dst, src) => \/ ~SetInUse
                           \/ dst = ctx.dst /\ src = desc /\ ~SetPending(State)
  BY DEF Attentive, MayCall
<1>2. Updates(dst, src) => ~SetPending(State) /\ (dst = ctx.dst \/ ~SetRecorded)
  BY <1>1 DEF SetInUse
<1>3. Fits(dst, src)
  BY <1>1 DEF Attentive, MayCall, Fits
<1>. QED  BY <1>2, <1>3 DEF Attentive, MayCall, Granted, Allowed

\* Nothing new is asked for, and the source is no other.
LEMMA SameGranted ==
  ASSUME PInv, ~Stopped
  PROVE  Granted(ctx.dst, ctx.dorg, ctx.src, ctx.sorg)
  BY DEF Granted, Allowed, Fits, Updates

LEMMA GrantedMoves ==
  ASSUME PInv, NEW dst \in Sources \cup {NoImage}, NEW src \in Sources \cup {NoImage},
         NEW dorg, NEW sorg, NEW msk, NEW fails, Granted(dst, dorg, src, sorg),
         NEW r, r = Setup(dst, src, msk, fails)
  PROVE  /\ Moved(dst, src, fails, r)
         /\ r.ret \in {0, -1}
         /\ r.ret = 0 => dst \in Images \cup {NoImage}
         /\ \E s \in {ctx.src, NoImage} : r.m.ctx = [ctx EXCEPT !.src = s]
<1>1. Moved(dst, src, fails, r)
  BY SetupMoves DEF Granted
<1>2. Chosen(dst, r)
  BY SetupSound DEF PInv, RInv
<1>3. /\ r.ret \in {0, -1}
      /\ r.ret = 0 => dst \in Images \cup {NoImage}
  BY <1>2, TargetsAssumption DEF Chosen
<1>. QED  BY <1>1, <1>3 DEF Moved

\* Without a new destination nothing fails.
LEMMA StayMoves ==
  ASSUME PInv, NEW src \in Sources \cup {NoImage}, NEW sorg, NEW msk, NEW r,
         r = Setup(ctx.dst, src, msk, {}), Granted(ctx.dst, ctx.dorg, src, sorg)
  PROVE  /\ Moved(ctx.dst, src, {}, r) /\ r.ret \in {0, -1}
         /\ \E s \in {ctx.src, NoImage} : r.m.ctx = [ctx EXCEPT !.src = s]
<1>1. ctx.dst \in Sources \cup {NoImage}
  BY DEF PInv, RInv, IInv, TypeOK, Contexts, Sources
<1>2. \A dst \in Sources \cup {NoImage} : \A dorg :
        Granted(dst, dorg, src, sorg) /\ r = Setup(dst, src, msk, {}) =>
           /\ Moved(dst, src, {}, r) /\ r.ret \in {0, -1}
           /\ \E s \in {ctx.src, NoImage} : r.m.ctx = [ctx EXCEPT !.src = s]
  BY GrantedMoves
<1>. QED  BY <1>1, <1>2

\* With the source that ctx has.
LEMMA TurnMoves ==
  ASSUME PInv, NEW dst \in Sources \cup {NoImage}, NEW dorg, NEW msk, NEW fails,
         Granted(dst, dorg, ctx.src, ctx.sorg), NEW r, r = Setup(dst, ctx.src, msk, fails)
  PROVE  /\ Moved(dst, ctx.src, fails, r)
         /\ r.ret \in {0, -1}
         /\ r.ret = 0 => dst \in Images \cup {NoImage}
         /\ \E s \in {ctx.src, NoImage} : r.m.ctx = [ctx EXCEPT !.src = s]
<1>1. ctx.src \in Sources \cup {NoImage}
  BY DEF PInv, RInv, IInv, TypeOK, Contexts
<1>2. \A src \in Sources \cup {NoImage} : \A sorg :
        Granted(dst, dorg, src, sorg) /\ r = Setup(dst, src, msk, fails) =>
           /\ Moved(dst, src, fails, r) /\ r.ret \in {0, -1}
           /\ r.ret = 0 => dst \in Images \cup {NoImage}
           /\ \E s \in {ctx.src, NoImage} : r.m.ctx = [ctx EXCEPT !.src = s]
  BY GrantedMoves
<1>. QED  BY <1>1, <1>2

\* The contexts and pens that are left.
LEMMA ContextLeft ==
  ASSUME PInv, NEW c, NEW s \in {ctx.src, NoImage}, c = [ctx EXCEPT !.src = s]
  PROVE  /\ c \in Contexts /\ c.dst = ctx.dst /\ c.dorg = ctx.dorg /\ c.sorg = ctx.sorg
         /\ c.src = s
  BY DEF PInv, RInv, IInv, TypeOK, Contexts

LEMMA BltSetupMoves ==
  ASSUME PInv, RInv', NEW dst \in Sources \cup {NoImage}, NEW src \in Sources \cup {NoImage},
         NEW dorg \in Origins, NEW sorg \in Origins, NEW msk \in Masks \cup {NoImage},
         Granted(dst, dorg, src, sorg), BltSetup(dst, dorg, src, sorg, msk)
  PROVE  Chooses /\ PInv'
<1>. DEFINE chosen == [pen EXCEPT !.dst = dst, !.dorg = dorg, !.src = src, !.sorg = sorg]
<1>1. PICK fails \in Faced(dst) :
        LET r == Setup(dst, src, msk, fails)
        IN  Finish(r, AfterSetup(r.m.ctx, dst, dorg, src, sorg, msk), chosen, fails)
  BY DEF BltSetup
<1>. DEFINE r == Setup(dst, src, msk, fails)
            assigned == AfterSetup(r.m.ctx, dst, dorg, src, sorg, msk)
<1>2. /\ Moved(dst, src, fails, r) /\ r.ret \in {0, -1}
      /\ r.ret = 0 => dst \in Images \cup {NoImage}
      /\ \E s \in {ctx.src, NoImage} : r.m.ctx = [ctx EXCEPT !.src = s]
  BY GrantedMoves
<1>3. /\ chosen \in Pens /\ chosen.dst = dst /\ chosen.dorg = dorg /\ chosen.src = src
      /\ chosen.sorg = sorg /\ chosen.rect = pen.rect
  BY DEF PInv, RInv, Pens
<1>4. Finish(r, assigned, chosen, fails)
  BY <1>1
<1>. HIDE DEF r, chosen
<1>5. r.m.ctx \in Contexts
  BY <1>2, ContextLeft
<1>6. r.ret = 0 => /\ assigned \in Contexts /\ assigned.dst = dst /\ assigned.dorg = dorg
                   /\ assigned.sorg = sorg /\ assigned.src = src
  BY <1>2, <1>5 DEF AfterSetup, Contexts
<1>7. Keeps(dst, src, [dorg |-> dorg, sorg |-> sorg])
  BY DEF Granted, Keeps
<1>8. dst = ctx.dst /\ src = ctx.src /\ src # NoImage => src = pen.src
  BY DEF PInv, Mine
<1>9. r.ret = 0 => Picks(dst, src, assigned, chosen)
  BY <1>3, <1>6, <1>7, <1>8 DEF Picks, Keeps
<1>. QED  BY <1>2, <1>4, <1>9, ChosenMoves

LEMMA SamePicks ==
  ASSUME PInv, NEW s \in {ctx.src, NoImage}, NEW c \in Contexts,
         c.dst = ctx.dst, c.dorg = ctx.dorg, c.sorg = ctx.sorg, c.src = s
  PROVE  Picks(ctx.dst, ctx.src, c, pen)
  BY DEF PInv, RInv, Mine, Picks, Keeps

LEMMA BltOpMoves ==
  ASSUME PInv, RInv', NEW op \in Ops, ~Stopped, BltOp(op)
  PROVE  Chooses /\ PInv'
<1>. DEFINE r == Setup(ctx.dst, ctx.src, ctx.msk, {})
            assigned == AfterOp(r.m.ctx, op)
<1>1. /\ ctx.dst \in Sources \cup {NoImage} /\ ctx.src \in Sources \cup {NoImage}
  BY DEF PInv, RInv, IInv, TypeOK, Contexts, Sources
<1>2. /\ Moved(ctx.dst, ctx.src, {}, r) /\ r.ret \in {0, -1}
      /\ \E s \in {ctx.src, NoImage} : r.m.ctx = [ctx EXCEPT !.src = s]
  <2>1. Granted(ctx.dst, ctx.dorg, ctx.src, ctx.sorg)
    BY SameGranted
  <2>. HIDE DEF r
  <2>2. r = Setup(ctx.dst, ctx.src, ctx.msk, {})
    BY DEF r
  <2>. QED  BY <1>1, <2>1, <2>2, StayMoves
<1>3. Finish(r, assigned, pen, {})
  BY DEF BltOp
<1>. HIDE DEF r
<1>4. PICK s \in {ctx.src, NoImage} : r.m.ctx = [ctx EXCEPT !.src = s]
  BY <1>2
<1>5. /\ r.m.ctx \in Contexts /\ r.m.ctx.dst = ctx.dst /\ r.m.ctx.dorg = ctx.dorg
      /\ r.m.ctx.sorg = ctx.sorg /\ r.m.ctx.src = s
  BY <1>4, ContextLeft
<1>6. /\ assigned \in Contexts /\ assigned.dst = ctx.dst /\ assigned.dorg = ctx.dorg
      /\ assigned.sorg = ctx.sorg /\ assigned.src = s
  BY <1>5 DEF AfterOp, Contexts
<1>7. Picks(ctx.dst, ctx.src, assigned, pen)
  BY <1>6, SamePicks
<1>. QED  BY <1>2, <1>3, <1>7, ChosenMoves

LEMMA BltMaskMoves ==
  ASSUME PInv, RInv', NEW msk \in Masks \cup {NoImage}, ~Stopped, BltMask(msk)
  PROVE  Chooses /\ PInv'
<1>. DEFINE r == Setup(ctx.dst, ctx.src, msk, {})
            assigned == AfterMask(r.m.ctx, msk)
<1>1. /\ ctx.dst \in Sources \cup {NoImage} /\ ctx.src \in Sources \cup {NoImage}
  BY DEF PInv, RInv, IInv, TypeOK, Contexts, Sources
<1>2. /\ Moved(ctx.dst, ctx.src, {}, r) /\ r.ret \in {0, -1}
      /\ \E s \in {ctx.src, NoImage} : r.m.ctx = [ctx EXCEPT !.src = s]
  <2>1. Granted(ctx.dst, ctx.dorg, ctx.src, ctx.sorg)
    BY SameGranted
  <2>. HIDE DEF r
  <2>2. r = Setup(ctx.dst, ctx.src, msk, {})
    BY DEF r
  <2>. QED  BY <1>1, <2>1, <2>2, StayMoves
<1>3. Finish(r, assigned, pen, {})
  BY DEF BltMask
<1>. HIDE DEF r
<1>4. PICK s \in {ctx.src, NoImage} : r.m.ctx = [ctx EXCEPT !.src = s]
  BY <1>2
<1>5. /\ r.m.ctx \in Contexts /\ r.m.ctx.dst = ctx.dst /\ r.m.ctx.dorg = ctx.dorg
      /\ r.m.ctx.sorg = ctx.sorg /\ r.m.ctx.src = s
  BY <1>4, ContextLeft
<1>6. /\ assigned \in Contexts /\ assigned.dst = ctx.dst /\ assigned.dorg = ctx.dorg
      /\ assigned.sorg = ctx.sorg /\ assigned.src = s
  BY <1>5 DEF AfterMask, Contexts
<1>7. Picks(ctx.dst, ctx.src, assigned, pen)
  BY <1>6, SamePicks
<1>. QED  BY <1>2, <1>3, <1>7, ChosenMoves

\* The source of the new destination is the one that the client named.
LEMMA BltDstMoves ==
  ASSUME PInv, RInv', NEW dst \in Sources \cup {NoImage}, NEW dorg \in Origins,
         Granted(dst, dorg, ctx.src, ctx.sorg), dst = ctx.dst \/ ctx.src = pen.src,
         BltDst(dst, dorg)
  PROVE  Chooses /\ PInv'
<1>. DEFINE chosen == [pen EXCEPT !.dst = dst, !.dorg = dorg]
<1>1. PICK fails \in Faced(dst) :
        LET r == Setup(dst, ctx.src, ctx.msk, fails)
        IN  Finish(r, AfterDst(r.m.ctx, dst, dorg), chosen, fails)
  BY DEF BltDst
<1>. DEFINE r == Setup(dst, ctx.src, ctx.msk, fails)
            assigned == AfterDst(r.m.ctx, dst, dorg)
<1>2. /\ ctx.src \in Sources \cup {NoImage}
  BY DEF PInv, RInv, IInv, TypeOK, Contexts
<1>3. /\ Moved(dst, ctx.src, fails, r) /\ r.ret \in {0, -1}
      /\ r.ret = 0 => dst \in Images \cup {NoImage}
      /\ \E s \in {ctx.src, NoImage} : r.m.ctx = [ctx EXCEPT !.src = s]
  <2>. HIDE DEF r
  <2>1. r = Setup(dst, ctx.src, ctx.msk, fails)
    BY DEF r
  <2>. QED  BY <2>1, TurnMoves
<1>4. /\ chosen \in Pens /\ chosen.dst = dst /\ chosen.dorg = dorg /\ chosen.src = pen.src
      /\ chosen.sorg = ctx.sorg /\ chosen.rect = pen.rect
  BY DEF PInv, RInv, Pens, Mine
<1>5. Finish(r, assigned, chosen, fails)
  BY <1>1
<1>. HIDE DEF r, chosen
<1>6. PICK s \in {ctx.src, NoImage} : r.m.ctx = [ctx EXCEPT !.src = s]
  BY <1>3
<1>7. /\ r.m.ctx \in Contexts /\ r.m.ctx.sorg = ctx.sorg /\ r.m.ctx.src = s
  BY <1>6, ContextLeft
<1>8. r.ret = 0 => /\ assigned \in Contexts /\ assigned.dst = dst /\ assigned.dorg = dorg
                   /\ assigned.sorg = ctx.sorg /\ assigned.src = s
  BY <1>3, <1>7 DEF AfterDst, Contexts
<1>9. /\ s \in {pen.src, NoImage}
      /\ \/ dst # ctx.dst \/ ctx.src # ctx.src \/ ~Pending
         \/ dorg = ctx.dorg /\ ctx.sorg = ctx.sorg
  BY DEF Granted, PInv, Mine
<1>10. r.ret = 0 => Picks(dst, ctx.src, assigned, chosen)
  BY <1>4, <1>8, <1>9 DEF Picks, Keeps
<1>. QED  BY <1>3, <1>5, <1>10, ChosenMoves

LEMMA BltSrcMoves ==
  ASSUME PInv, RInv', NEW src \in Sources \cup {NoImage}, NEW sorg \in Origins,
         Granted(ctx.dst, ctx.dorg, src, sorg), BltSrc(src, sorg)
  PROVE  Chooses /\ PInv'
<1>. DEFINE chosen == [pen EXCEPT !.src = src, !.sorg = sorg]
            r == Setup(ctx.dst, src, ctx.msk, {})
            assigned == AfterSrc(r.m.ctx, src, sorg)
<1>1. ctx.dst \in Sources \cup {NoImage}
  BY DEF PInv, RInv, IInv, TypeOK, Contexts, Sources
<1>2. /\ Moved(ctx.dst, src, {}, r) /\ r.ret \in {0, -1}
      /\ \E s \in {ctx.src, NoImage} : r.m.ctx = [ctx EXCEPT !.src = s]
  BY <1>1, StayMoves
<1>3. /\ chosen \in Pens /\ chosen.dst = ctx.dst /\ chosen.dorg = ctx.dorg /\ chosen.src = src
      /\ chosen.sorg = sorg /\ chosen.rect = pen.rect
  BY DEF PInv, RInv, Pens, Mine
<1>4. Finish(r, assigned, chosen, {})
  BY DEF BltSrc
<1>. HIDE DEF r, chosen
<1>5. /\ r.m.ctx \in Contexts /\ r.m.ctx.dst = ctx.dst /\ r.m.ctx.dorg = ctx.dorg
  BY <1>2, ContextLeft
<1>6. /\ assigned \in Contexts /\ assigned.dst = ctx.dst /\ assigned.dorg = ctx.dorg
      /\ assigned.sorg = sorg /\ assigned.src = src
  BY <1>5 DEF AfterSrc, Contexts
<1>7. src = ctx.src /\ src # NoImage => src = pen.src
  BY DEF PInv, Mine
<1>8. Picks(ctx.dst, src, assigned, chosen)
  BY <1>3, <1>6, <1>7 DEF Picks, Keeps, Granted
<1>. QED  BY <1>2, <1>4, <1>8, ChosenMoves

-----------------------------------------------------------------------------
(* A rectangle waits behind all others.                                    *)

\* One vertex more is one draw more.
LEMMA OneMoreDraw ==
  ASSUME NEW d \in DrawContexts, NEW e \in DrawContexts, NEW c \in Contexts, d.pos <= d.len,
         e.draws = d.draws, e.pos = d.pos, e.bound = d.bound, e.len = d.len + 1
  PROVE  /\ Len(AllDraws(d, c)) \in Nat
         /\ Len(AllDraws(e, c)) = Len(AllDraws(d, c)) + 1
         /\ \A i \in 1 .. Len(AllDraws(d, c)) : AllDraws(e, c)[i] = AllDraws(d, c)[i]
         /\ AllDraws(e, c)[Len(AllDraws(d, c)) + 1] =
               [slot |-> d.len, dorg |-> c.dorg, sorg |-> c.sorg, with |-> d.bound]
<1>. DEFINE n == Len(d.draws)
            w == AllDraws(d, c)
            v == AllDraws(e, c)
            k == d.len - d.pos
<1>1. /\ n \in Nat /\ d.pos \in Nat /\ d.len \in Nat /\ Len(w) = n + k
      /\ \A i \in 1 .. n : w[i] = d.draws[i]
      /\ \A j \in 1 .. k :
            w[n + j] = [slot |-> d.pos + j - 1, dorg |-> c.dorg, sorg |-> c.sorg, with |-> d.bound]
  BY AllDrawsAt
<1>2. e.pos <= e.len /\ e.len - e.pos = k + 1
  BY <1>1
<1>3. /\ Len(v) = n + (k + 1)
      /\ \A i \in 1 .. n : v[i] = d.draws[i]
      /\ \A j \in 1 .. k + 1 :
            v[n + j] = [slot |-> d.pos + j - 1, dorg |-> c.dorg, sorg |-> c.sorg, with |-> d.bound]
  <2>1. /\ Len(v) = Len(e.draws) + (e.len - e.pos)
        /\ \A i \in 1 .. Len(e.draws) : v[i] = e.draws[i]
        /\ \A j \in 1 .. e.len - e.pos :
              v[Len(e.draws) + j] =
                 [slot |-> e.pos + j - 1, dorg |-> c.dorg, sorg |-> c.sorg, with |-> e.bound]
    BY <1>2, AllDrawsAt
  <2>. HIDE DEF v, k
  <2>. QED  BY <1>2, <2>1
<1>4. k \in Nat /\ d.pos + (k + 1) - 1 = d.len
  BY <1>1
<1>. HIDE DEF n, w, v, k
<1>5. ASSUME NEW i \in 1 .. Len(w) PROVE v[i] = w[i]
  <2>1. CASE i <= n
    <3>1. i \in 1 .. n
      BY <1>1, <2>1
    <3>. QED  BY <1>1, <1>3, <3>1
  <2>2. CASE ~(i <= n)
    <3>1. i - n \in 1 .. k /\ i - n \in 1 .. k + 1 /\ n + (i - n) = i
      BY <1>1, <1>4, <2>2
    <3>2. w[n + (i - n)] = v[n + (i - n)]
      BY <1>1, <1>3, <3>1
    <3>. QED  BY <3>1, <3>2
  <2>. QED  BY <2>1, <2>2
<1>6. v[n + (k + 1)] = [slot |-> d.len, dorg |-> c.dorg, sorg |-> c.sorg, with |-> d.bound]
  <2>1. k + 1 \in 1 .. k + 1
    BY <1>4
  <2>2. v[n + (k + 1)] =
          [slot |-> d.pos + (k + 1) - 1, dorg |-> c.dorg, sorg |-> c.sorg, with |-> d.bound]
    BY <1>3, <2>1
  <2>. QED  BY <1>4, <2>2
<1>7. Len(w) \in Nat /\ Len(v) = Len(w) + 1 /\ Len(w) + 1 = n + (k + 1)
  BY <1>1, <1>3, <1>4
<1>8. v[Len(w) + 1] = [slot |-> d.len, dorg |-> c.dorg, sorg |-> c.sorg, with |-> d.bound]
  BY <1>6, <1>7
<1>. QED  BY <1>5, <1>7, <1>8 DEF w, v

\* What blt_rect asks for.
Token(p) ==
    [target |-> p.dst, rect |-> p.rect, dorg |-> p.dorg, sorg |-> p.sorg, src |-> p.src]

Asks(rect) ==
    /\ pen' = [pen EXCEPT !.rect = rect, !.refused = FALSE]
    /\ Waiting(State', ctx') = Append(Waiting(State, ctx), Token(pen'))

LEMMA RectDoes ==
  ASSUME PInv, Attentive, MayRect, NEW rect \in Rects, BltRect(rect)
  PROVE  /\ ctx.dst \in Targets /\ dc[ctx.dst].recording
         /\ dc[ctx.dst].len < VertexCap /\ pen.src # NoImage
         /\ ctx' = ctx /\ desc' = desc /\ queue' = queue
         /\ dc' = [dc EXCEPT ![ctx.dst] =
                     [dc[ctx.dst] EXCEPT
                         !.vertex = [dc[ctx.dst].vertex EXCEPT ![dc[ctx.dst].len] = rect],
                         !.len = dc[ctx.dst].len + 1]]
         /\ pen' = [pen EXCEPT !.rect = rect, !.refused = FALSE]
<1>. DEFINE t  == ctx.dst
            d  == dc[t]
            d1 == [d EXCEPT !.vertex = [d.vertex EXCEPT ![d.len] = rect], !.len = d.len + 1]
            m3 == DrawContextOf(State, t, d1)
            chosen == [pen EXCEPT !.rect = rect]
<1>1. /\ t \in Targets /\ d.recording /\ d.len < VertexCap /\ pen.src # NoImage
      /\ d \in DrawContexts /\ pen \in Pens
  BY DEF Attentive, MayRect, Stopped, PInv, RInv, IInv, TypeOK
<1>2. State \in Machines /\ State.dc = dc /\ State.desc = desc /\ State.queue = queue
  BY IInvSound DEF PInv, RInv, Sound, State
<1>3. /\ (IF dc[t].len = VertexCap THEN Flush(State) ELSE State) = State
      /\ Blame(State, "vertex overrun", dc[t].len >= VertexCap) = State
  <2>1. d.len \in Nat /\ VertexCap \in Nat /\ d.len # VertexCap /\ ~(d.len >= VertexCap)
    BY <1>1, VertexCapAssumption DEF DrawContexts
  <2>2. (dc[t].len >= VertexCap) = FALSE
    BY <2>1
  <2>. QED  BY <1>2, <2>1, <2>2, BlameNothing
<1>4. Finish(Return(m3, 0), ctx, chosen, {})
  BY <1>2, <1>3 DEF BltRect
<1>5. m3.dc = [dc EXCEPT ![t] = d1] /\ m3.desc = desc /\ m3.queue = queue
  <2>. HIDE DEF d1
  <2>. QED  BY <1>2 DEF DrawContextOf, Machines
<1>. HIDE DEF m3, d1
<1>6. ctx' = ctx /\ dc' = m3.dc /\ desc' = m3.desc /\ queue' = m3.queue
  BY <1>4 DEF Finish, Return
<1>7. pen' = [pen EXCEPT !.rect = rect, !.refused = FALSE]
  <2>. DEFINE r == Return(m3, 0)
              last == IF r.ret < 0 THEN pen ELSE chosen
              no == "submit" \in {}
  <2>1. pen' = [last EXCEPT !.refused = no]
    BY <1>4 DEF Finish
  <2>2. no = FALSE
    OBVIOUS
  <2>. HIDE DEF chosen, no
  <2>3. last = chosen
    BY DEF Return
  <2>. HIDE DEF last
  <2>. QED  BY <1>1, <2>1, <2>2, <2>3 DEF Pens, chosen
<1>. QED  BY <1>1, <1>5, <1>6, <1>7 DEF d1

Longer(d, y) == [d EXCEPT !.vertex = y, !.len = d.len + 1]

LEMMA OneMoreVertex ==
  ASSUME NEW d \in DrawContexts, NEW y \in [Slots -> Rects \cup {NoRect}],
         NEW e, e = Longer(d, y)
  PROVE  /\ e \in DrawContexts /\ e.draws = d.draws /\ e.pos = d.pos /\ e.bound = d.bound
         /\ e.len = d.len + 1 /\ e.recording = d.recording /\ e.set = d.set /\ e.vertex = y
<1>1. d.len + 1 \in Nat
  BY DEF DrawContexts
<1>. QED  BY <1>1 DEF DrawContexts, Longer

LEMMA RectMoves ==
  ASSUME PInv, RInv', Attentive, MayRect, NEW rect \in Rects, BltRect(rect)
  PROVE  Asks(rect) /\ PInv'
<1>. DEFINE t  == ctx.dst
            d  == dc[t]
            cells == [d.vertex EXCEPT ![d.len] = rect]
            e  == [d EXCEPT !.vertex = cells, !.len = d.len + 1]
<1>1. /\ t \in Targets /\ d.recording /\ d.len < VertexCap /\ pen.src # NoImage
      /\ ctx' = ctx /\ desc' = desc /\ queue' = queue
      /\ dc' = [dc EXCEPT ![t] = e]
      /\ pen' = [pen EXCEPT !.rect = rect, !.refused = FALSE]
  BY RectDoes
<1>2. /\ State \in Machines /\ State.dc = dc /\ State.desc = desc /\ State.queue = queue
      /\ Sound(State) /\ ctx \in Contexts /\ d \in DrawContexts /\ d.pos <= d.len
      /\ pen \in Pens /\ Mine /\ Follows /\ ~Busy(State, t) /\ Tidy(State) /\ Apart(State)
      /\ d.len \in Nat /\ d.pos \in Nat /\ dc \in [Targets -> DrawContexts]
  BY <1>1, IInvSound
     DEF PInv, RInv, IInv, TypeOK, Sound, Machines, State, DrawContexts, Apart, Lone
<1>3. /\ e \in DrawContexts /\ e.draws = d.draws /\ e.pos = d.pos /\ e.bound = d.bound
      /\ e.len = d.len + 1 /\ e.recording = d.recording /\ e.set = d.set
      /\ e.vertex = [d.vertex EXCEPT ![d.len] = rect]
      /\ e.vertex[d.len] = rect /\ \A i \in Nat : i < d.len => e.vertex[i] = d.vertex[i]
  <2>1. d.len \in Slots /\ \A i \in Nat : i < d.len => i \in Slots /\ i # d.len
    BY <1>1, <1>2, VertexCapAssumption DEF Slots
  <2>2. d.vertex \in [Slots -> Rects \cup {NoRect}]
    BY <1>2 DEF DrawContexts
  <2>3. cells \in [Slots -> Rects \cup {NoRect}]
    BY <2>1, <2>2
  <2>. HIDE DEF cells
  <2>4. /\ e \in DrawContexts /\ e.draws = d.draws /\ e.pos = d.pos /\ e.bound = d.bound
        /\ e.len = d.len + 1 /\ e.recording = d.recording /\ e.set = d.set
        /\ e.vertex = cells
    <3>. HIDE DEF e
    <3>1. e = Longer(d, cells)
      BY DEF e, Longer
    <3>2. d \in DrawContexts
      BY <1>2
    <3>. HIDE DEF d
    <3>. QED  BY <2>3, <3>1, <3>2, OneMoreVertex
  <2>. HIDE DEF e
  <2>. QED  BY <2>1, <2>2, <2>4 DEF cells
<1>. HIDE DEF e
<1>4. /\ (State').dc = [dc EXCEPT ![t] = e] /\ (State').desc = desc /\ (State').queue = queue
      /\ dc'[t] = e /\ \A u \in Targets \ {t} : dc'[u] = dc[u]
  BY <1>1, <1>2 DEF State
<1>5. pen' = [pen EXCEPT !.rect = rect, !.refused = FALSE] /\ pen'.src = pen.src
      /\ pen'.dst = pen.dst /\ pen'.dorg = pen.dorg /\ pen'.sorg = pen.sorg /\ pen'.rect = rect
  BY <1>1, <1>2 DEF Pens
<1>. DEFINE w == AllDraws(d, ctx)
            v == AllDraws(e, ctx)
            n == Len(w)
            x == [target |-> t, rect |-> rect, dorg |-> ctx.dorg, sorg |-> ctx.sorg,
                  src |-> pen.src]
            s == StrokesOf(State, t, w)
            z == StrokesOf(State', t, v)
<1>6. /\ n \in Nat /\ Len(v) = n + 1
      /\ \A i \in 1 .. n : v[i] = w[i]
      /\ v[n + 1] = [slot |-> d.len, dorg |-> ctx.dorg, sorg |-> ctx.sorg, with |-> d.bound]
  BY <1>2, <1>3, OneMoreDraw
<1>7. w \in Draws /\ \A i \in 1 .. n : w[i].slot \in Nat /\ w[i].slot < d.len
  <2>1. w \in Draws
    BY <1>2, AllDrawsType
  <2>2. TidyDraws(d)
    BY <1>1, <1>2 DEF Tidy
  <2>3. \A i \in 1 .. n : w[i].slot < d.len
    BY <1>2, <2>2, AllDrawsTidy
  <2>. HIDE DEF w
  <2>4. w \in Seq(DrawRecords)
    BY <2>1 DEF Draws, DrawRecords
  <2>5. \A i \in 1 .. n : w[i] \in DrawRecords
    BY <2>4, ElementOfSeq
  <2>. QED  BY <2>1, <2>3, <2>5 DEF DrawRecords
<1>8. s \in Seq(Marks(State)) /\ Len(s) = n
  <2>. HIDE DEF w
  <2>. QED  BY <1>1, <1>7, StrokesType
<1>. HIDE DEF w, v
<1>9. ASSUME NEW i \in 1 .. n PROVE StrokeOf(State', t, v[i]) = StrokeOf(State, t, w[i])
  <2>1. dc'[t].vertex[w[i].slot] = dc[t].vertex[w[i].slot]
    BY <1>3, <1>4, <1>7
  <2>. QED  BY <1>1, <1>6, <2>1 DEF StrokeOf, State
<1>10. StrokeOf(State', t, v[n + 1]) = x
  <2>1. BoundTo(State, t, pen.src)
    BY <1>1, <1>2 DEF Follows
  <2>2. d.bound = PipelineOf(pen.src) /\ (pen.src \in Images => desc = pen.src)
    BY <2>1 DEF BoundTo, State
  <2>3. pen.src \in Sources
    BY <1>1, <1>2 DEF Pens
  <2>4. (IF d.bound = CopyPipeline THEN desc ELSE d.bound) = pen.src
    BY <2>2, <2>3, PipelinesAssumption DEF PipelineOf, Sources
  <2>5. v[n + 1].slot = d.len /\ v[n + 1].dorg = ctx.dorg /\ v[n + 1].sorg = ctx.sorg
        /\ v[n + 1].with = d.bound
    BY <1>6
  <2>6. dc'[t].vertex[d.len] = rect
    BY <1>3, <1>4
  <2>. QED  BY <1>1, <2>4, <2>5, <2>6 DEF StrokeOf, State
<1>11. z = Append(s, x)
  <2>1. z = [i \in 1 .. n + 1 |-> StrokeOf(State', t, v[i])]
    BY <1>6 DEF StrokesOf
  <2>2. s = [i \in 1 .. n |-> StrokeOf(State, t, w[i])]
    BY DEF StrokesOf
  <2>. HIDE DEF x, s
  <2>3. Append(s, x) = [i \in 1 .. n + 1 |-> IF i = n + 1 THEN x ELSE s[i]]
    <3>. DEFINE y == Append(s, x)
                M == Marks(State) \cup {x}
    <3>1. s \in Seq(M)
      <4>1. \A i \in 1 .. Len(s) : s[i] \in Marks(State)
        BY <1>8, ElementOfSeq
      <4>2. s \in [1 .. Len(s) -> M]
        BY <1>8, <4>1, LenProperties
      <4>. QED  BY <1>6, <1>8, <4>2, SeqDef
    <3>. HIDE DEF M
    <3>2. y \in Seq(M) /\ Len(y) = n + 1
      <4>1. x \in M
        BY DEF M
      <4>. QED  BY <1>8, <3>1, <4>1
    <3>3. \A k \in 1 .. n + 1 : y[k] = IF k = n + 1 THEN x ELSE s[k]
      BY <1>8, <3>1
    <3>. QED  BY <3>2, <3>3, LenProperties
  <2>4. \A i \in 1 .. n + 1 : StrokeOf(State', t, v[i]) = IF i = n + 1 THEN x ELSE s[i]
    <3>1. \A i \in 1 .. n + 1 : i # n + 1 => i \in 1 .. n
      BY <1>6
    <3>. QED  BY <1>9, <1>10, <2>2, <3>1
  <2>. QED  BY <2>1, <2>3, <2>4
<1>12. Open(State, ctx) = s /\ Open(State', ctx') = z
  <2>1. t # NoImage
    BY <1>1, ImagesAssumption, TargetsAssumption
  <2>2. Open(State, ctx) = s
    BY <1>1, <1>2, <2>1 DEF Open, w
  <2>3. (State').dc[t] = e /\ e.recording
    BY <1>1, <1>2, <1>3, <1>4
  <2>. QED  BY <1>1, <2>1, <2>2, <2>3 DEF Open, v
<1>13. Submitted(State') = Submitted(State)
  <2>1. \A k \in 1 .. Len(queue) : queue[k].target \in Targets /\ queue[k].target # t
    BY <1>2, BatchedType DEF Busy
  <2>2. \A k \in 1 .. Len(queue) :
           (State').dc[queue[k].target].vertex = State.dc[queue[k].target].vertex
    BY <1>2, <1>4, <2>1
  <2>. QED  BY <1>2, <1>4, <2>2, SubmittedSame
<1>. HIDE DEF s, z, x
<1>14. Waiting(State', ctx') = Append(Waiting(State, ctx), x)
  <2>. DEFINE M == Marks(State) \cup {x}
              a == Submitted(State)
  <2>1. a \in Seq(Marks(State))
    BY <1>2, SubmittedType
  <2>2. \A q \in Seq(Marks(State)) : q \in Seq(M)
    <3>1. \A q \in Seq(Marks(State)) : /\ Len(q) \in Nat /\ q \in [1 .. Len(q) -> Marks(State)]
      BY LenProperties
    <3>2. \A q \in Seq(Marks(State)) : q \in [1 .. Len(q) -> M]
      BY <3>1
    <3>. HIDE DEF M
    <3>. QED  BY <3>1, <3>2, SeqDef
  <2>3. x \in M
    OBVIOUS
  <2>. HIDE DEF M, a
  <2>4. a \o Append(s, x) = Append(a \o s, x)
    BY <1>8, <2>1, <2>2, <2>3, AppendLast
  <2>. QED  BY <1>11, <1>12, <1>13, <2>4 DEF Waiting, a
<1>15. Asks(rect)
  BY <1>2, <1>5, <1>14 DEF Asks, Token, x, Mine
<1>16. Mine'
  BY <1>1, <1>2, <1>5 DEF Mine
<1>17. Follows'
  BY <1>1, <1>2, <1>3, <1>4, <1>5 DEF Follows, BoundTo, State
<1>18. Apart(State')
  <2>1. \A u \in Targets : /\ (State').dc[u].set = dc[u].set
                           /\ (State').dc[u].bound = dc[u].bound
                           /\ (State').dc[u].draws = dc[u].draws
                           /\ (State').dc[u].recording = dc[u].recording
    BY <1>2, <1>3, <1>4
  <2>. QED  BY <1>2, <1>4, <2>1 DEF Apart, Marked, Lone, Free, InUse, SetPending, Busy
<1>19. Tidy(State')
  <2>1. TidyDraws(e)
    <3>1. TidyDraws(d)
      BY <1>1, <1>2 DEF Tidy
    <3>. QED  BY <1>1, <1>2, <1>3, <3>1, VertexCapAssumption DEF TidyDraws
  <2>. QED  BY <1>2, <1>4, <2>1 DEF Tidy, State
<1>. QED  BY <1>15, <1>16, <1>17, <1>18, <1>19 DEF PInv

-----------------------------------------------------------------------------
(* The GPU.                                                                *)

\* The images show which was first (AsAsked!Conflict).
Clash(a, b) == a.target \in {b.target, b.src} \/ b.target = a.src

\* One stroke goes, though others may have waited longer.
Goes(w, v) ==
    \E k \in 1 .. Len(w) :
        /\ \A j \in 1 .. k - 1 : ~Clash(w[j], w[k])
        /\ v = SubSeq(w, 1, k - 1) \o SubSeq(w, k + 1, Len(w))

\* The first stroke of the second part goes.
LEMMA OneGoes ==
  ASSUME NEW M, NEW p \in Seq(M), NEW s \in Seq(M), NEW q \in Seq(M), NEW o \in Seq(M),
         s # <<>>, \A j \in 1 .. Len(p) : ~Clash(p[j], s[1])
  PROVE  Goes(((p \o s) \o q) \o o, ((p \o Tail(s)) \o q) \o o)
<1>. DEFINE y == Tail(s)
            x == <<s[1]>>
            z == q \o o
            t == y \o z
            n == Len(p) + 1
<1>1. z \in Seq(M)
  BY ConcatProperties
<1>. HIDE DEF z
<1>2. y \in Seq(M) /\ s[1] \in M /\ s \o z = x \o t
  BY <1>1, FirstAndRest
<1>3. x \in Seq(M)
  BY <1>2
<1>. HIDE DEF x, y
<1>4. ASSUME NEW a \in Seq(M)
      PROVE  a \o q \in Seq(M) /\ (a \o q) \o o = a \o z
  BY ConcatAssociative, ConcatProperties DEF z
<1>5. t \in Seq(M) /\ p \o s \in Seq(M) /\ p \o y \in Seq(M)
  BY <1>2, <1>1, ConcatProperties
<1>6. ((p \o s) \o q) \o o = p \o (x \o t)
  <2>1. ((p \o s) \o q) \o o = (p \o s) \o z
    BY <1>4, <1>5
  <2>2. (p \o s) \o z = p \o (s \o z)
    BY <1>1, ConcatAssociative
  <2>. QED  BY <1>2, <2>1, <2>2
<1>7. ((p \o y) \o q) \o o = p \o t
  <2>1. ((p \o y) \o q) \o o = (p \o y) \o z
    BY <1>4, <1>5
  <2>2. y \in Seq(M)
    BY <1>2
  <2>3. (p \o y) \o z = p \o (y \o z)
    BY <1>1, <2>2, ConcatAssociative
  <2>. QED  BY <2>1, <2>3
<1>. HIDE DEF t
<1>. DEFINE w == ((p \o s) \o q) \o o
<1>8. /\ n \in 1 .. Len(w) /\ w[n] = s[1] /\ Len(p) \in Nat
      /\ \A j \in 1 .. Len(p) : w[j] = p[j]
      /\ SubSeq(w, 1, Len(p)) = p
      /\ SubSeq(w, Len(p) + 2, Len(w)) = t
  <2>1. w = p \o (<<s[1]>> \o t)
    BY <1>6 DEF x
  <2>. HIDE DEF w
  <2>. QED  BY <1>2, <1>5, <2>1, Dropped
<1>. HIDE DEF w
<1>9. n - 1 = Len(p) /\ n + 1 = Len(p) + 2 /\ \A j \in 1 .. n - 1 : ~Clash(w[j], w[n])
  BY <1>8
<1>10. p \o t = SubSeq(w, 1, n - 1) \o SubSeq(w, n + 1, Len(w))
  BY <1>8, <1>9
<1>. HIDE DEF n
<1>11. Goes(w, p \o t)
  BY <1>8, <1>9, <1>10 DEF Goes
<1>. QED  BY <1>7, <1>11 DEF y, w

Paints == UNCHANGED pen /\ Goes(Waiting(State, ctx), Waiting(State', ctx'))

Idles == UNCHANGED pen /\ Waiting(State', ctx') = Waiting(State, ctx)

\* What is submitted draws on targets with batches and copies from none.
Painted(m) == {x \in Marks(m) : Busy(m, x.target) /\ ~Busy(m, x.src)}

LEMMA BatchPainted ==
  ASSUME NEW m \in Machines, Apart(m), NEW k \in 1 .. Len(m.queue)
  PROVE  /\ Batched(m)[k] = StrokesOf(m, m.queue[k].target, m.queue[k].draws)
         /\ \A i \in 1 .. Len(Batched(m)[k]) :
                Batched(m)[k][i] \in Painted(m) /\ Batched(m)[k][i].target = m.queue[k].target
<1>. DEFINE t == m.queue[k].target
            draws == m.queue[k].draws
            s == StrokesOf(m, t, draws)
<1>1. t \in Targets /\ draws \in Draws /\ Batched(m)[k] = s
  BY BatchedType DEF Batched
<1>2. /\ Len(s) = Len(draws) /\ s \in Seq(Marks(m))
      /\ \A i \in 1 .. Len(draws) : s[i] = StrokeOf(m, t, draws[i])
  BY <1>1, StrokesType DEF StrokesOf
<1>3. \A i \in 1 .. Len(draws) : draws[i] \in DrawRecords
  BY <1>1, ElementOfSeq DEF Draws, DrawRecords
<1>4. Busy(m, t)
  BY DEF Busy
<1>5. Copies(draws) => ~Busy(m, m.desc)
  BY DEF Apart, Marked, Free, InUse, SetPending
<1>6. \A u : Busy(m, u) => u \in Targets
  BY BatchedType DEF Busy
<1>. HIDE DEF t, draws, s
<1>7. ASSUME NEW i \in 1 .. Len(draws)
      PROVE  s[i] \in Painted(m) /\ s[i].target = t
  <2>1. s[i] = StrokeOf(m, t, draws[i]) /\ s[i] \in Marks(m)
    BY <1>2, ElementOfSeq
  <2>2. s[i].target = t /\ s[i].src = IF draws[i].with = CopyPipeline THEN m.desc ELSE draws[i].with
    BY <2>1 DEF StrokeOf
  <2>3. ~Busy(m, s[i].src)
    <3>1. CASE draws[i].with = CopyPipeline
      BY <1>5, <2>2, <3>1 DEF Copies
    <3>2. CASE draws[i].with # CopyPipeline
      <4>1. draws[i].with \in Solids \cup {NoPipeline}
        BY <1>3, <3>2 DEF DrawRecords, Pipelines
      <4>2. draws[i].with \notin Targets
        BY <4>1, ImagesAssumption, TargetsAssumption, PipelinesAssumption DEF Sources
      <4>. QED  BY <1>6, <2>2, <3>2, <4>2
    <3>. QED  BY <3>1, <3>2
  <2>. QED  BY <1>4, <2>1, <2>2, <2>3 DEF Painted
<1>8. \A i \in 1 .. Len(Batched(m)[k]) :
         Batched(m)[k][i] \in Painted(m) /\ Batched(m)[k][i].target = t
  BY <1>1, <1>2, <1>7
<1>. QED  BY <1>1, <1>8 DEF t, draws, s

\* What is in the batches before one clashes with nothing in it.
LEMMA BeforeApart ==
  ASSUME NEW m \in Machines, Apart(m), NEW i \in 1 .. Len(m.queue)
  PROVE  LET f == Seqs!FlattenSeq(SubSeq(Batched(m), 1, i - 1))
         IN  \A j \in 1 .. Len(f), k \in 1 .. Len(Batched(m)[i]) : ~Clash(f[j], Batched(m)[i][k])
<1>. DEFINE b == Batched(m)
            pre == SubSeq(b, 0 + 1, i - 1)
            f == Seqs!FlattenSeq(pre)
            N == {x \in Painted(m) : x.target # m.queue[i].target}
<1>1. b \in Seq(Seq(Marks(m))) /\ Len(b) = Len(m.queue) /\ Len(b) \in Nat /\ i \in Nat
  BY BatchedType
<1>2. /\ pre \in Seq(Seq(Marks(m))) /\ Len(pre) = i - 1
      /\ \A k \in 1 .. i - 1 : pre[k] = b[k]
  <2>. HIDE DEF b
  <2>1. 0 <= i - 1 /\ i - 1 <= Len(b) /\ i - 1 \in Nat /\ (i - 1) - 0 = i - 1
        /\ \A k \in 1 .. i - 1 : 0 + k = k
    BY <1>1
  <2>2. /\ pre \in Seq(Seq(Marks(m))) /\ Len(pre) = (i - 1) - 0
        /\ \A k \in 1 .. (i - 1) - 0 : pre[k] = b[0 + k]
    BY <1>1, <2>1, PartOf
  <2>. QED  BY <2>1, <2>2
<1>3. ASSUME NEW k \in 1 .. i - 1 PROVE b[k] \in Seq(N)
  <2>1. k \in 1 .. Len(m.queue) /\ k # i
    BY <1>1
  <2>2. m.queue[k].target # m.queue[i].target
    BY <2>1 DEF Apart, Lone
  <2>3. \A j \in 1 .. Len(b[k]) : b[k][j] \in N
    BY <2>1, <2>2, BatchPainted
  <2>4. b[k] \in Seq(Marks(m))
    <3>. HIDE DEF b
    <3>. QED  BY <1>1, <2>1, ElementOfSeq
  <2>. HIDE DEF b, N
  <2>5. Len(b[k]) \in Nat /\ b[k] = [j \in 1 .. Len(b[k]) |-> b[k][j]]
    BY <2>4, LenProperties
  <2>6. b[k] \in [1 .. Len(b[k]) -> N]
    BY <2>3, <2>5
  <2>. QED  BY <2>5, <2>6, SeqDef
<1>4. pre \in Seq(Seq(N))
  <2>. HIDE DEF b, pre, N
  <2>1. Len(pre) \in Nat /\ pre = [j \in 1 .. Len(pre) |-> pre[j]]
    BY <1>2, LenProperties
  <2>2. pre \in [1 .. Len(pre) -> Seq(N)]
    BY <1>2, <1>3, <2>1
  <2>. QED  BY <2>1, <2>2, SeqDef
<1>5. f \in Seq(N)
  <2>. HIDE DEF pre, N
  <2>. QED  BY <1>4, FlattenType
<1>6. ASSUME NEW j \in 1 .. Len(f), NEW k \in 1 .. Len(b[i]) PROVE ~Clash(f[j], b[i][k])
  <2>1. f[j] \in N
    <3>. HIDE DEF f, N
    <3>. QED  BY <1>5, ElementOfSeq
  <2>2. b[i][k] \in Painted(m) /\ b[i][k].target = m.queue[i].target
    BY BatchPainted
  <2>. HIDE DEF b, f
  <2>. QED  BY <2>1, <2>2 DEF Clash, Painted
<1>7. 0 + 1 = 1
  OBVIOUS
<1>. QED  BY <1>6, <1>7

LEMMA TailStrokes ==
  ASSUME NEW m, NEW t \in Targets, NEW draws \in Draws, draws # <<>>
  PROVE  /\ StrokesOf(m, t, Tail(draws)) = Tail(StrokesOf(m, t, draws))
         /\ StrokesOf(m, t, draws) # <<>>
         /\ Tail(draws) \in Draws
<1>. DEFINE s == StrokesOf(m, t, draws)
            n == Len(draws)
<1>1. /\ Tail(draws) \in Draws /\ Len(Tail(draws)) = n - 1 /\ n \in Nat \ {0}
      /\ \A j \in 1 .. n - 1 : Tail(draws)[j] = draws[j + 1]
  BY HeadTailProperties, EmptySeq DEF Draws
<1>2. s \in Seq(Marks(m)) /\ Len(s) = n
  BY StrokesType
<1>3. s # <<>>
  BY <1>1, <1>2, EmptySeq
<1>4. /\ Tail(s) \in Seq(Marks(m)) /\ Len(Tail(s)) = n - 1
      /\ \A j \in 1 .. n - 1 : Tail(s)[j] = s[j + 1]
  <2>. HIDE DEF s
  <2>. QED  BY <1>1, <1>2, <1>3, HeadTailProperties
<1>5. \A j \in 1 .. n - 1 : s[j + 1] = StrokeOf(m, t, draws[j + 1])
  BY <1>1 DEF StrokesOf
<1>6. /\ StrokesOf(m, t, Tail(draws)) \in Seq(Marks(m))
      /\ Len(StrokesOf(m, t, Tail(draws))) = n - 1
  BY <1>1, StrokesType
<1>7. \A j \in 1 .. n - 1 : StrokesOf(m, t, Tail(draws))[j] = StrokeOf(m, t, draws[j + 1])
  BY <1>1 DEF StrokesOf
<1>. HIDE DEF s
<1>. QED  BY <1>1, <1>3, <1>4, <1>5, <1>6, <1>7, SeqEqual DEF s

\* Fewer draws, or batches: j is what was g[j].
Less(n, m, g) ==
    /\ \A j \in 1 .. Len(n.queue) :
          /\ g[j] \in 1 .. Len(m.queue)
          /\ n.queue[j].target = m.queue[g[j]].target
          /\ n.queue[j].set = m.queue[g[j]].set
          /\ Copies(n.queue[j].draws) => Copies(m.queue[g[j]].draws)
    /\ \A j \in 1 .. Len(n.queue), k \in 1 .. Len(n.queue) : g[j] = g[k] => j = k

LEMMA ApartLess ==
  ASSUME NEW m, NEW n, NEW g, Apart(m), n.dc = m.dc, n.desc = m.desc, Less(n, m, g)
  PROVE  Apart(n)
<1>. USE DEF Less
<1>1. \A u : Busy(n, u) => Busy(m, u)
  BY DEF Busy
<1>2. InUse(n) => InUse(m)
  BY DEF InUse, SetPending
<1>3. Marked(n)
  BY DEF Apart, Marked
<1>4. Lone(n)
  <2>1. ASSUME NEW j \in 1 .. Len(n.queue), NEW k \in 1 .. Len(n.queue),
               n.queue[j].target = n.queue[k].target
        PROVE  j = k
    <3>1. g[j] = g[k]
      BY <2>1 DEF Apart, Lone
    <3>. QED  BY <3>1
  <2>. QED  BY <1>1, <2>1 DEF Apart, Lone
<1>5. Free(n)
  BY <1>1, <1>2 DEF Apart, Free
<1>. QED  BY <1>3, <1>4, <1>5 DEF Apart

LEMMA DrawExecuted ==
  ASSUME NEW m, Sound(m), Apart(m), NEW i \in 1 .. Len(m.queue), m.queue[i].draws # <<>>,
         NEW n, n.dc = m.dc, n.desc = m.desc,
         n.queue = [m.queue EXCEPT ![i].draws = Tail(@)],
         NEW c \in Contexts, c.dst \in Targets \cup {NoImage}
  PROVE  Goes(Waiting(m, c), Waiting(n, c)) /\ Apart(n)
<1>. DEFINE b == Batched(m)
            s == b[i]
            pre == SubSeq(b, 1, i - 1)
            post == SubSeq(b, i + 1, Len(b))
            P == Seqs!FlattenSeq(pre)
            Q == Seqs!FlattenSeq(post)
            o == Open(m, c)
            M == Marks(m)
            e == [m.queue[i] EXCEPT !.draws = Tail(@)]
<1>1. m \in Machines /\ m.queue \in Seq(Batches) /\ m.queue[i] \in Batches
  BY ElementOfSeq DEF Sound, Machines
<1>2. /\ b \in Seq(Seq(M)) /\ Len(b) = Len(m.queue) /\ i \in 1 .. Len(b)
      /\ s = StrokesOf(m, m.queue[i].target, m.queue[i].draws)
      /\ m.queue[i].target \in Targets /\ m.queue[i].draws \in Draws
  BY <1>1, BatchedType DEF Batched
<1>3. s \in Seq(M) /\ s # <<>> /\ Tail(s) \in Seq(M)
      /\ StrokesOf(m, m.queue[i].target, Tail(m.queue[i].draws)) = Tail(s)
  <2>1. s \in Seq(M) /\ s # <<>>
        /\ StrokesOf(m, m.queue[i].target, Tail(m.queue[i].draws)) = Tail(s)
    <3>. DEFINE t == m.queue[i].target
                d == m.queue[i].draws
    <3>1. t \in Targets /\ d \in Draws /\ d # <<>> /\ s = StrokesOf(m, t, d)
      BY <1>2
    <3>. HIDE DEF t, d, s
    <3>2. StrokesOf(m, t, d) \in Seq(Marks(m))
      BY <3>1, StrokesType
    <3>3. StrokesOf(m, t, Tail(d)) = Tail(StrokesOf(m, t, d)) /\ StrokesOf(m, t, d) # <<>>
      BY <3>1, TailStrokes
    <3>. QED  BY <3>1, <3>2, <3>3 DEF t, d
  <2>. HIDE DEF s, M
  <2>. QED  BY <2>1, HeadTailProperties
<1>4. /\ n.queue = [m.queue EXCEPT ![i] = e]
      /\ e.target = m.queue[i].target /\ e.set = m.queue[i].set
      /\ e.draws = Tail(m.queue[i].draws) /\ e \in Batches
  <2>1. Tail(m.queue[i].draws) \in Draws
    BY <1>2, TailStrokes
  <2>. QED  BY <1>1, <2>1 DEF Batches
<1>. HIDE DEF e
<1>5. /\ Len(n.queue) = Len(m.queue)
      /\ \A j \in 1 .. Len(m.queue) : n.queue[j] = IF j = i THEN e ELSE m.queue[j]
  <2>. DEFINE r == [m.queue EXCEPT ![i] = e]
  <2>1. e \in Batches /\ n.queue = r
    BY <1>4
  <2>2. /\ Len(r) = Len(m.queue)
        /\ \A j \in 1 .. Len(m.queue) : r[j] = IF j = i THEN e ELSE m.queue[j]
    BY <1>1, <2>1, ExceptSeq
  <2>. HIDE DEF r
  <2>. QED  BY <2>1, <2>2
<1>6. /\ Batched(n) \in Seq(Seq(M)) /\ Len(Batched(n)) = Len(b)
      /\ \A j \in 1 .. Len(b) : Batched(n)[j] = IF j = i THEN Tail(s) ELSE b[j]
  <2>1. \A t, draws : StrokesOf(n, t, draws) = StrokesOf(m, t, draws)
    BY DEF StrokesOf, StrokeOf
  <2>2. Batched(n) = [j \in 1 .. Len(m.queue) |-> IF j = i THEN Tail(s) ELSE b[j]]
    <3>1. ASSUME NEW j \in 1 .. Len(m.queue)
          PROVE  StrokesOf(n, n.queue[j].target, n.queue[j].draws)
                    = IF j = i THEN Tail(s) ELSE b[j]
      <4>1. CASE j = i
        <5>. HIDE DEF s, b
        <5>. QED  BY <1>3, <1>4, <1>5, <2>1, <4>1
      <4>2. CASE j # i
        BY <1>5, <2>1, <4>2 DEF Batched
      <4>. QED  BY <4>1, <4>2
    <3>. QED  BY <1>5, <3>1 DEF Batched
  <2>3. \A j \in 1 .. Len(b) : b[j] \in Seq(M)
    <3>. HIDE DEF b
    <3>. QED  BY <1>2, ElementOfSeq
  <2>4. Len(b) \in Nat /\ Len(m.queue) = Len(b)
    BY <1>1, BatchedType
  <2>. HIDE DEF b, s
  <2>5. Batched(n) \in [1 .. Len(b) -> Seq(M)]
    BY <1>3, <2>2, <2>3, <2>4
  <2>6. Batched(n) \in Seq(Seq(M)) /\ Len(Batched(n)) = Len(b)
    <3>. HIDE DEF M
    <3>1. Batched(n) \in Seq(Seq(M))
      BY <2>4, <2>5, SeqDef
    <3>. QED  BY <2>4, <2>5, <3>1, LenProperties
  <2>. QED  BY <2>2, <2>4, <2>6
<1>7. Open(n, c) = o /\ o \in Seq(M)
  <2>1. Open(n, c) = o
    BY DEF Open, StrokesOf, StrokeOf
  <2>. QED  BY <2>1, OpenType
<1>8. /\ pre \in Seq(Seq(M)) /\ post \in Seq(Seq(M))
      /\ b = Append(pre, s) \o post
      /\ Batched(n) = Append(pre, Tail(s)) \o post
  <2>. HIDE DEF b, M
  <2>1. /\ pre \in Seq(Seq(M)) /\ post \in Seq(Seq(M))
        /\ b = Append(pre, s) \o post
    BY <1>2, Around
  <2>. DEFINE r == Batched(n)
  <2>. HIDE DEF s, r
  <2>2. /\ SubSeq(r, 1, i - 1) = pre
        /\ SubSeq(r, i + 1, Len(r)) = post
    <3>1. \A j \in 1 .. Len(b) : j # i => r[j] = b[j]
      BY <1>6 DEF r
    <3>2. r \in Seq(Seq(M)) /\ b \in Seq(Seq(M)) /\ Len(r) = Len(b) /\ i \in 1 .. Len(b)
      BY <1>2, <1>6 DEF r
    <3>. QED  BY <3>1, <3>2, SameAround
  <2>3. r = Append(SubSeq(r, 1, i - 1), r[i]) \o SubSeq(r, i + 1, Len(r))
    <3>1. r \in Seq(Seq(M)) /\ i \in 1 .. Len(r)
      BY <1>2, <1>6 DEF r
    <3>. QED  BY <3>1, Around
  <2>4. r[i] = Tail(s)
    BY <1>2, <1>6 DEF r
  <2>. QED  BY <2>1, <2>2, <2>3, <2>4 DEF r
<1>9. /\ P \in Seq(M) /\ Q \in Seq(M)
      /\ Submitted(m) = (P \o s) \o Q
      /\ Submitted(n) = (P \o Tail(s)) \o Q
  <2>. HIDE DEF pre, post, s, M
  <2>1. P \in Seq(M) /\ Q \in Seq(M)
    BY <1>8, FlattenType
  <2>2. ASSUME NEW x \in Seq(M)
        PROVE  Seqs!FlattenSeq(Append(pre, x) \o post) = (P \o x) \o Q
    <3>1. pre \in Seq(Seq(M)) /\ post \in Seq(Seq(M))
      BY <1>8
    <3>. QED  BY <3>1, FlattenAround
  <2>3. Submitted(m) = (P \o s) \o Q /\ Submitted(n) = (P \o Tail(s)) \o Q
    <3>1. s \in Seq(M) /\ Tail(s) \in Seq(M)
      BY <1>3
    <3>. HIDE DEF P, Q
    <3>. QED  BY <1>8, <2>2, <3>1 DEF Submitted
  <2>. QED  BY <2>1, <2>3
<1>10. 1 \in 1 .. Len(s) /\ \A j \in 1 .. Len(P) : ~Clash(P[j], s[1])
  <2>1. Len(s) \in Nat \ {0}
    <3>. HIDE DEF s
    <3>. QED  BY <1>3, EmptySeq
  <2>. QED  BY <1>1, <2>1, BeforeApart
<1>11. Waiting(m, c) = ((P \o s) \o Q) \o o /\ Waiting(n, c) = ((P \o Tail(s)) \o Q) \o o
  BY <1>7, <1>9 DEF Waiting
<1>12. Goes(Waiting(m, c), Waiting(n, c))
  <2>1. P \in Seq(M) /\ s \in Seq(M) /\ Q \in Seq(M) /\ o \in Seq(M) /\ s # <<>>
    BY <1>3, <1>7, <1>9
  <2>. HIDE DEF P, Q, s, o, M
  <2>2. Goes(((P \o s) \o Q) \o o, ((P \o Tail(s)) \o Q) \o o)
    BY <1>10, <2>1, OneGoes
  <2>. QED  BY <1>11, <2>2
<1>13. Apart(n)
  <2>. DEFINE g == [j \in 1 .. Len(m.queue) |-> j]
  <2>1. Copies(e.draws) => Copies(m.queue[i].draws)
    <3>. DEFINE d == m.queue[i].draws
    <3>1. /\ Len(Tail(d)) = Len(d) - 1 /\ Len(d) \in Nat
          /\ \A j \in 1 .. Len(Tail(d)) : Tail(d)[j] = d[j + 1]
      BY <1>2, HeadTailProperties, LenProperties DEF Draws
    <3>2. \A j \in 1 .. Len(Tail(d)) : j + 1 \in 1 .. Len(d)
      BY <3>1
    <3>. QED  BY <1>4, <3>1, <3>2 DEF Copies
  <2>2. \A j \in 1 .. Len(n.queue) :
            /\ g[j] \in 1 .. Len(m.queue) /\ g[j] = j
            /\ n.queue[j].target = m.queue[g[j]].target
            /\ n.queue[j].set = m.queue[g[j]].set
            /\ Copies(n.queue[j].draws) => Copies(m.queue[g[j]].draws)
    BY <1>4, <1>5, <2>1
  <2>. HIDE DEF g
  <2>3. \A j \in 1 .. Len(n.queue), k \in 1 .. Len(n.queue) : g[j] = g[k] => j = k
    BY <2>2
  <2>4. Less(n, m, g)
    BY <2>2, <2>3 DEF Less
  <2>. QED  BY <2>4, ApartLess
<1>. QED  BY <1>12, <1>13

\* A batch of which everything is painted goes.
LEMMA BatchCompleted ==
  ASSUME NEW m, Sound(m), Apart(m), NEW i \in 1 .. Len(m.queue), m.queue[i].draws = <<>>,
         NEW n, n.dc = m.dc, n.desc = m.desc, n.queue = Seqs!RemoveAt(m.queue, i),
         NEW c \in Contexts, c.dst \in Targets \cup {NoImage}
  PROVE  Waiting(n, c) = Waiting(m, c) /\ Apart(n)
<1>. DEFINE b == Batched(m)
            s == b[i]
            pre == SubSeq(b, 1, i - 1)
            post == SubSeq(b, i + 1, Len(b))
            P == Seqs!FlattenSeq(pre)
            Q == Seqs!FlattenSeq(post)
            M == Marks(m)
            l == Len(m.queue)
<1>1. m \in Machines /\ m.queue \in Seq(Batches) /\ l \in Nat
  BY LenProperties DEF Sound, Machines
<1>2. /\ b \in Seq(Seq(M)) /\ Len(b) = l /\ i \in 1 .. Len(b)
      /\ s = StrokesOf(m, m.queue[i].target, m.queue[i].draws)
  BY <1>1, BatchedType DEF Batched
<1>3. s = <<>>
  <2>1. Len(<<>>) = 0
    OBVIOUS
  <2>. QED  BY <1>2, <2>1 DEF StrokesOf
<1>4. /\ Len(n.queue) = l - 1
      /\ \A j \in 1 .. l - 1 : n.queue[j] = IF j < i THEN m.queue[j] ELSE m.queue[j + 1]
  BY <1>1, RemovedAt
<1>5. Batched(n) = Seqs!RemoveAt(b, i)
  <2>. DEFINE r == Seqs!RemoveAt(b, i)
  <2>1. /\ r \in Seq(Seq(M)) /\ Len(r) = l - 1
        /\ \A j \in 1 .. l - 1 : r[j] = IF j < i THEN b[j] ELSE b[j + 1]
    <3>. HIDE DEF b, M
    <3>. QED  BY <1>2, RemovedAt
  <2>2. \A t, draws : StrokesOf(n, t, draws) = StrokesOf(m, t, draws)
    BY DEF StrokesOf, StrokeOf
  <2>3. ASSUME NEW j \in 1 .. l - 1
        PROVE  StrokesOf(n, n.queue[j].target, n.queue[j].draws)
                  = IF j < i THEN b[j] ELSE b[j + 1]
    <3>1. j \in 1 .. l /\ j + 1 \in 1 .. l
      BY <1>1
    <3>2. \A k \in 1 .. l : b[k] = StrokesOf(m, m.queue[k].target, m.queue[k].draws)
      BY DEF Batched
    <3>. HIDE DEF b, l
    <3>. QED  BY <1>4, <2>2, <3>1, <3>2
  <2>4. Batched(n) = [j \in 1 .. l - 1 |-> IF j < i THEN b[j] ELSE b[j + 1]]
    <3>. HIDE DEF b, l
    <3>. QED  BY <1>4, <2>3 DEF Batched
  <2>. HIDE DEF r, b, l, M
  <2>5. r = [j \in 1 .. l - 1 |-> r[j]]
    BY <2>1, LenProperties
  <2>. QED  BY <2>1, <2>4, <2>5 DEF r
<1>6. /\ pre \in Seq(Seq(M)) /\ post \in Seq(Seq(M))
      /\ b = Append(pre, <<>>) \o post
      /\ Batched(n) = pre \o post
  <2>. HIDE DEF b, M
  <2>1. /\ pre \in Seq(Seq(M)) /\ post \in Seq(Seq(M))
        /\ b = Append(pre, s) \o post
    BY <1>2, Around
  <2>2. Seqs!RemoveAt(b, i) = pre \o post
    BY <1>2 DEF Seqs!RemoveAt
  <2>. QED  BY <1>3, <1>5, <2>1, <2>2
<1>7. Submitted(n) = Submitted(m)
  <2>. HIDE DEF pre, post, M
  <2>1. <<>> \in Seq(M) /\ P \in Seq(M)
    BY <1>6, FlattenType
  <2>2. Submitted(m) = (P \o <<>>) \o Q
    <3>1. pre \in Seq(Seq(M)) /\ post \in Seq(Seq(M))
      BY <1>6
    <3>2. \A x \in Seq(M) : Seqs!FlattenSeq(Append(pre, x) \o post) = (P \o x) \o Q
      BY <3>1, FlattenAround
    <3>. HIDE DEF P, Q
    <3>3. Seqs!FlattenSeq(Append(pre, <<>>) \o post) = (P \o <<>>) \o Q
      BY <2>1, <3>2
    <3>. QED  BY <1>6, <3>3 DEF Submitted
  <2>3. Submitted(n) = P \o Q
    BY <1>6, FlattenConcat DEF Submitted
  <2>4. P \o <<>> = P
    <3>. HIDE DEF P
    <3>. QED  BY <2>1, ConcatEmptySeq
  <2>. QED  BY <2>2, <2>3, <2>4
<1>8. Waiting(n, c) = Waiting(m, c)
  <2>1. Open(n, c) = Open(m, c)
    BY DEF Open, StrokesOf, StrokeOf
  <2>. QED  BY <1>7, <2>1 DEF Waiting
<1>9. Apart(n)
  <2>. DEFINE g == [j \in 1 .. l |-> IF j < i THEN j ELSE j + 1]
  <2>. HIDE DEF l
  <2>1. \A j \in 1 .. l - 1 :
            /\ g[j] = IF j < i THEN j ELSE j + 1
            /\ g[j] \in 1 .. l
            /\ n.queue[j] = m.queue[g[j]]
    BY <1>1, <1>4
  <2>. HIDE DEF g
  <2>2. \A j \in 1 .. l - 1, k \in 1 .. l - 1 : g[j] = g[k] => j = k
    BY <1>1, <2>1
  <2>3. \A j \in 1 .. Len(n.queue) :
            /\ g[j] \in 1 .. Len(m.queue)
            /\ n.queue[j] = m.queue[g[j]]
    BY <1>4, <2>1 DEF l
  <2>4. \A j \in 1 .. Len(n.queue), k \in 1 .. Len(n.queue) : g[j] = g[k] => j = k
    BY <1>4, <2>2
  <2>5. Less(n, m, g)
    BY <2>3, <2>4 DEF Less
  <2>. QED  BY <2>5, ApartLess
<1>. QED  BY <1>8, <1>9

LEMMA ExecuteMoves ==
  ASSUME PInv, RInv', Execute
  PROVE  (Paints \/ Idles) /\ PInv'
<1>1. PICK i \in 1 .. Len(queue) : ExecuteDraw(i) \/ Complete(i)
  BY DEF Execute
<1>2. ctx' = ctx /\ dc' = dc /\ desc' = desc /\ pen' = pen
  BY <1>1 DEF ExecuteDraw, Complete
<1>3. /\ Sound(State) /\ State.queue = queue /\ Apart(State)
      /\ ctx \in Contexts /\ ctx.dst \in Targets \cup {NoImage}
      /\ State'.dc = State.dc /\ State'.desc = State.desc /\ State'.queue = queue'
  BY <1>2, IInvSound DEF PInv, RInv, IInv, TypeOK, State
<1>4. CASE ExecuteDraw(i)
  <2>1. queue[i].draws # <<>> /\ queue' = [queue EXCEPT ![i].draws = Tail(@)]
    BY <1>4 DEF ExecuteDraw
  <2>2. Goes(Waiting(State, ctx), Waiting(State', ctx)) /\ Apart(State')
    BY <1>3, <2>1, DrawExecuted
  <2>. QED  BY <1>2, <2>2 DEF Paints, PInv, Mine, Follows, BoundTo, Tidy, State
<1>5. CASE Complete(i)
  <2>1. queue[i].draws = <<>> /\ queue' = Seqs!RemoveAt(queue, i)
    BY <1>5 DEF Complete
  <2>2. Waiting(State', ctx) = Waiting(State, ctx) /\ Apart(State')
    BY <1>3, <2>1, BatchCompleted
  <2>. QED  BY <1>2, <2>2 DEF Idles, PInv, Mine, Follows, BoundTo, Tidy, State
<1>. QED  BY <1>1, <1>4, <1>5

-----------------------------------------------------------------------------
(* Every step is one of the painter's.                                     *)

LEMMA PInvInit == Init => PInv /\ Waiting(State, ctx) = <<>>
<1>. SUFFICES ASSUME Init PROVE PInv /\ Waiting(State, ctx) = <<>>
  OBVIOUS
<1>1. RInv
  BY RInvInit
<1>2. /\ ctx.dst = NoImage /\ ctx.dorg = 0 /\ ctx.sorg = 0 /\ ctx.src = NoImage
      /\ pen.dst = NoImage /\ pen.dorg = 0 /\ pen.sorg = 0 /\ pen.src = NoImage
      /\ queue = <<>> /\ dc = [t \in Targets |-> NewDrawContext]
  BY DEF Init, NewContext
<1>3. NoImage \notin Targets
  BY ImagesAssumption, TargetsAssumption
<1>4. Len(<<>>) = 0
  OBVIOUS
<1>5. Tidy(State)
  <2>1. NewDrawContext.draws = <<>> /\ NewDrawContext.len = 0 /\ NewDrawContext.pos = 0
    BY DEF NewDrawContext
  <2>2. TidyDraws(NewDrawContext)
    BY <1>4, <2>1, VertexCapAssumption DEF TidyDraws
  <2>. QED  BY <1>2, <2>2 DEF Tidy, State
<1>6. Mine /\ Follows
  BY <1>2, <1>3 DEF Mine, Follows
<1>7. Apart(State)
  <2>1. /\ NewDrawContext.draws = <<>> /\ NewDrawContext.bound = NoPipeline
        /\ ~NewDrawContext.set /\ ~NewDrawContext.recording
    BY DEF NewDrawContext
  <2>2. ~Copies(<<>>) /\ NoPipeline # CopyPipeline
    BY <1>4, PipelinesAssumption DEF Copies
  <2>3. State.queue = <<>> /\ \A t \in Targets : State.dc[t] = NewDrawContext
    BY <1>2 DEF State
  <2>. QED  BY <1>4, <2>1, <2>2, <2>3 DEF Apart, Marked, Lone, Free, InUse, SetPending, Busy
<1>8. Waiting(State, ctx) = <<>>
  <2>1. Open(State, ctx) = <<>>
    BY <1>2 DEF Open
  <2>2. Batched(State) = <<>>
    BY <1>2, <1>4 DEF Batched, State
  <2>3. Submitted(State) = <<>>
    BY <2>2, FlattenEmpty DEF Submitted
  <2>4. <<>> \o <<>> = <<>>
    OBVIOUS
  <2>. QED  BY <2>1, <2>3, <2>4 DEF Waiting
<1>. QED  BY <1>1, <1>5, <1>6, <1>8, <1>7 DEF PInv

Step ==
    \/ Chooses
    \/ \E rect \in Rects : Asks(rect)
    \/ Paints
    \/ Idles
    \/ UNCHANGED vars

LEMMA EveryStep == PInv /\ Attentive /\ [Next]_vars => Step /\ PInv'
<1>. SUFFICES ASSUME PInv, Attentive, [Next]_vars PROVE Step /\ PInv'
  OBVIOUS
<1>1. RInv'
  <2>1. Careful
    BY DEF Attentive, Careful
  <2>. QED  BY <2>1, RInvNext DEF PInv
<1>2. CASE Client
  <2>1. ASSUME NEW s \in Setups, MayCall(s.dst, s.dorg, s.src, s.sorg),
               BltSetup(s.dst, s.dorg, s.src, s.sorg, s.msk)
        PROVE  Step /\ PInv'
    <3>1. /\ s.dst \in Sources \cup {NoImage} /\ s.src \in Sources \cup {NoImage}
          /\ s.dorg \in Origins /\ s.sorg \in Origins /\ s.msk \in Masks \cup {NoImage}
      BY SetupsAssumption
    <3>2. Granted(s.dst, s.dorg, s.src, s.sorg)
      BY <2>1, CallGranted
    <3>. QED  BY <1>1, <2>1, <3>1, <3>2, BltSetupMoves DEF Step
  <2>2. ASSUME NEW op \in Ops, ~Stopped, BltOp(op)
        PROVE  Step /\ PInv'
    BY <1>1, <2>2, BltOpMoves DEF Step
  <2>3. ASSUME NEW d \in Dsts,
               MayCall(d.dst, d.dorg, ctx.src, ctx.sorg),
               "source" \in Rules => d.dst = ctx.dst \/ ctx.src = pen.src,
               BltDst(d.dst, d.dorg)
        PROVE  Step /\ PInv'
    <3>1. Granted(d.dst, d.dorg, ctx.src, ctx.sorg)
      BY <2>3, CallGranted
    <3>2. d.dst = ctx.dst \/ ctx.src = pen.src
      BY <2>3 DEF Attentive
    <3>3. d.dst \in Sources \cup {NoImage} /\ d.dorg \in Origins
      BY DstsAssumption
    <3>. QED  BY <1>1, <2>3, <3>1, <3>2, <3>3, BltDstMoves DEF Step
  <2>4. ASSUME NEW src \in Sources \cup {NoImage}, NEW sorg \in SrcOrigins,
               MayCall(ctx.dst, ctx.dorg, src, sorg), BltSrc(src, sorg)
        PROVE  Step /\ PInv'
    <3>1. Granted(ctx.dst, ctx.dorg, src, sorg)
      BY <2>4, CallGranted
    <3>2. sorg \in Origins
      BY SrcOriginsAssumption
    <3>. QED  BY <1>1, <2>4, <3>1, <3>2, BltSrcMoves DEF Step
  <2>5. ASSUME NEW msk \in Masks \cup {NoImage}, ~Stopped, BltMask(msk)
        PROVE  Step /\ PInv'
    BY <1>1, <2>5, BltMaskMoves DEF Step
  <2>6. ASSUME NEW rect \in Rects, MayRect, BltRect(rect)
        PROVE  Step /\ PInv'
    BY <1>1, <2>6, RectMoves DEF Step
  <2>. QED  BY <1>2, <2>1, <2>2, <2>3, <2>4, <2>5, <2>6 DEF Client
<1>3. CASE Execute
  BY <1>1, <1>3, ExecuteMoves DEF Step
<1>4. CASE UNCHANGED vars
  <2>1. State' = State /\ ctx' = ctx /\ pen' = pen /\ dc' = dc
    BY <1>4 DEF vars, State
  <2>2. Apart(State')
    BY <2>1 DEF PInv
  <2>. QED  BY <1>1, <1>4, <2>1, <2>2 DEF Step, PInv, Mine, Follows, Tidy, BoundTo
<1>. QED  BY <1>2, <1>3, <1>4 DEF Next

LEMMA AskedWaits == AskedStrokes = Waiting(State, ctx) /\ AskedStrokes' = Waiting(State', ctx')
<1>1. (AskedStrokes = Waiting(State, ctx))'
  BY AskedIsWaiting, PTL
<1>. QED  BY <1>1, AskedIsWaiting

LEMMA InitPainter == Init => AsAsked!Init
<1>. SUFFICES ASSUME Init PROVE AsAsked!Init
  OBVIOUS
<1>1. AskedStrokes = <<>> /\ pen \in Pens
  BY PInvInit, AskedWaits DEF PInv, RInv
<1>. QED  BY <1>1 DEF AsAsked!Init, Pens

LEMMA StepPainter == PInv /\ PInv' /\ Step => [AsAsked!Next]_AsAsked!vars
<1>. SUFFICES ASSUME PInv, PInv', Step PROVE [AsAsked!Next]_AsAsked!vars
  OBVIOUS
<1>. DEFINE asked == AskedStrokes
            w == Waiting(State, ctx)
            v == Waiting(State', ctx')
<1>1. asked = w /\ asked' = v
  BY AskedWaits
<1>2. State \in Machines /\ Sound(State) /\ ctx \in Contexts /\ ctx.dst \in Targets \cup {NoImage}
      /\ pen.dst = ctx.dst
  BY IInvSound DEF PInv, RInv, IInv, TypeOK, Sound, Mine
<1>3. CASE Chooses
  <2>1. CASE v = w
    <3>1. asked' = asked
      BY <1>1, <2>1
    <3>2. pen' \in Pens /\ pen'.rect = pen.rect
      BY <1>3 DEF Chooses
    <3>3. AsAsked!Choose
      BY <3>1, <3>2 DEF AsAsked!Choose, Pens
    <3>. QED  BY <3>3 DEF AsAsked!Next
  <2>2. CASE pen'.refused /\ v = Submitted(State)
    <3>. DEFINE a == Submitted(State)
                b == Open(State, ctx)
                n == Len(a)
    <3>1. /\ a \in Seq(Marks(State)) /\ b \in Seq(Marks(State)) /\ w = a \o b
          /\ \A j \in 1 .. Len(b) : b[j].target = pen.dst
      BY <1>2, SubmittedType, OpenType DEF Waiting
    <3>. HIDE DEF a, b, w, v
    <3>2. /\ n \in Nat /\ n <= Len(w) /\ Len(w) \in Nat /\ SubSeq(w, 1, n) = a
          /\ \A i \in n + 1 .. Len(w) : \E j \in 1 .. Len(b) : w[i] = b[j]
      BY <3>1, SplitConcat
    <3>3. \A i \in n + 1 .. Len(w) : w[i].target = pen.dst
      BY <3>1, <3>2
    <3>4. n \in 0 .. Len(w) /\ v = SubSeq(w, 1, n)
      BY <2>2, <3>2 DEF a
    <3>5. \E k \in 0 .. Len(asked) :
             /\ asked' = SubSeq(asked, 1, k)
             /\ \A i \in k + 1 .. Len(asked) : asked[i].target = pen.dst
      BY <1>1, <3>3, <3>4
    <3>6. pen' \in Pens /\ pen'.rect = pen.rect
      BY <1>3 DEF Chooses
    <3>7. AsAsked!Choose
      BY <2>2, <3>5, <3>6 DEF AsAsked!Choose, Pens
    <3>. QED  BY <3>7 DEF AsAsked!Next
  <2>. QED  BY <1>3, <2>1, <2>2 DEF Chooses
<1>4. ASSUME NEW rect \in Rects, Asks(rect) PROVE [AsAsked!Next]_AsAsked!vars
  <2>1. Token(pen') = AsAsked!Stroke(pen')
    BY DEF Token, AsAsked!Stroke
  <2>2. asked' = Append(asked, AsAsked!Stroke(pen'))
    BY <1>1, <1>4, <2>1 DEF Asks
  <2>3. pen' = [pen EXCEPT !.rect = rect, !.refused = FALSE]
    BY <1>4 DEF Asks
  <2>4. AsAsked!Ask(rect)
    BY <2>2, <2>3 DEF AsAsked!Ask
  <2>. QED  BY <2>4 DEF AsAsked!Next
<1>5. CASE Paints
  <2>1. PICK n \in 1 .. Len(w) :
          /\ \A j \in 1 .. n - 1 : ~Clash(w[j], w[n])
          /\ v = SubSeq(w, 1, n - 1) \o SubSeq(w, n + 1, Len(w))
    BY <1>5 DEF Paints, Goes
  <2>. HIDE DEF w, v
  <2>2. \A a, b : AsAsked!Conflict(a, b) <=> Clash(a, b)
    BY DEF AsAsked!Conflict, Clash
  <2>3. /\ n \in 1 .. Len(asked)
        /\ \A j \in 1 .. n - 1 : ~AsAsked!Conflict(asked[j], asked[n])
        /\ asked' = SubSeq(asked, 1, n - 1) \o SubSeq(asked, n + 1, Len(asked))
    BY <1>1, <2>1, <2>2
  <2>4. pen' = pen
    BY <1>5 DEF Paints
  <2>5. AsAsked!Paint(n)
    BY <2>3, <2>4 DEF AsAsked!Paint
  <2>. QED  BY <2>3, <2>5 DEF AsAsked!Next
<1>6. CASE Idles
  <2>1. asked' = asked /\ pen' = pen
    BY <1>1, <1>6 DEF Idles
  <2>. QED  BY <2>1 DEF AsAsked!vars
<1>7. CASE UNCHANGED vars
  <2>1. ctx' = ctx /\ State' = State /\ pen' = pen
    BY <1>7 DEF vars, State
  <2>2. v = w
    BY <2>1
  <2>3. asked' = asked
    BY <1>1, <2>2
  <2>. QED  BY <2>1, <2>3 DEF AsAsked!vars
<1>. QED  BY <1>3, <1>4, <1>5, <1>7, <1>6 DEF Step

(* Under a client that keeps the six rules, a GPU that goes on after a      *)
(* KnownMisuse paints what was asked for: every rectangle once, on the      *)
(* destination and with the source and the origins of its time, though it   *)
(* reads the vertices and the descriptor set when it executes a draw, and   *)
(* executes the batches side by side; what it paints out of order does not  *)
(* touch what it overtakes.  Only a refused submission loses strokes, the   *)
(* last ones of the target that is left (impl.c:567-751).                   *)
THEOREM VulkanPaintsAsAsked == Attentive => (Spec => PaintsAsAsked)
<1>. SUFFICES ASSUME Attentive PROVE Spec => PaintsAsAsked
  OBVIOUS
<1>1. Init => PInv /\ AsAsked!Init
  BY PInvInit, InitPainter
<1>2. PInv /\ [Next]_vars => PInv' /\ [AsAsked!Next]_AsAsked!vars
  BY EveryStep, StepPainter
<1>. QED  BY <1>1, <1>2, PTL DEF Spec, PaintsAsAsked, AsAsked!Spec
=============================================================================
