---------------------------- MODULE Vulkan_proofs ----------------------------
(***************************************************************************)
(* The recording discipline of the Vulkan back end, for any images, any    *)
(* size of the vertex buffer, any failures and any rules of the client.    *)
(***************************************************************************)
EXTENDS Vulkan, SequenceTheorems, TLAPS

Machines ==
    [ctx : Contexts, dc : [Targets -> DrawContexts], desc : Images \cup {NoImage},
     queue : Seq(Batches), misuse : SUBSET Misuses]

\* A state of the back end between or inside calls: its destination has a
\* draw context, and no draw context has drawn more than it holds.
Sound(m) ==
    /\ m \in Machines
    /\ m.ctx.dst \in Targets \cup {NoImage}
    /\ \A t \in Targets : m.dc[t].pos <= m.dc[t].len

\* Neither recording nor left with undrawn vertices.
Resting(d) == ~d.recording /\ d.pos = d.len

-----------------------------------------------------------------------------
(* The small helpers.                                                      *)

LEMMA BlameSound ==
  ASSUME NEW m \in Machines, NEW what \in Misuses, NEW wrong
  PROVE  /\ Blame(m, what, wrong) \in Machines
         /\ Blame(m, what, wrong).ctx = m.ctx
         /\ Blame(m, what, wrong).dc = m.dc
         /\ Blame(m, what, wrong).desc = m.desc
         /\ Blame(m, what, wrong).queue = m.queue
  BY DEF Blame, Machines

LEMMA CommandSound ==
  ASSUME NEW m \in Machines, NEW t \in Targets
  PROVE  /\ Command(m, t) \in Machines
         /\ Command(m, t).ctx = m.ctx
         /\ Command(m, t).dc = m.dc
         /\ Command(m, t).desc = m.desc
         /\ Command(m, t).queue = m.queue
<1>. DEFINE wrong == ~m.dc[t].recording
<1>1. "not recording" \in Misuses
  BY DEF Misuses
<1>2. Command(m, t) = Blame(m, "not recording", wrong)
  BY DEF Command
<1>. HIDE DEF wrong
<1>. DEFINE b == Blame(m, "not recording", wrong)
<1>3. b \in Machines /\ b.ctx = m.ctx /\ b.dc = m.dc /\ b.desc = m.desc /\ b.queue = m.queue
  BY <1>1, BlameSound
<1>. HIDE DEF b
<1>4. Command(m, t) = b
  BY <1>2 DEF b
<1>. QED  BY <1>3, <1>4

LEMMA DrawContextOfSound ==
  ASSUME NEW m \in Machines, NEW t \in Targets, NEW d \in DrawContexts
  PROVE  /\ DrawContextOf(m, t, d) \in Machines
         /\ DrawContextOf(m, t, d).ctx = m.ctx
         /\ DrawContextOf(m, t, d).dc = [m.dc EXCEPT ![t] = d]
         /\ DrawContextOf(m, t, d).desc = m.desc
         /\ DrawContextOf(m, t, d).queue = m.queue
  BY DEF DrawContextOf, Machines

LEMMA EnqueueSound ==
  ASSUME NEW m \in Machines, NEW t \in Targets, NEW draws \in Draws, NEW set \in BOOLEAN
  PROVE  /\ Enqueue(m, t, draws, set) \in Machines
         /\ Enqueue(m, t, draws, set).ctx = m.ctx
         /\ Enqueue(m, t, draws, set).dc = m.dc
<1>1. [target |-> t, draws |-> draws, set |-> set] \in Batches
  BY DEF Batches
<1>2. Append(m.queue, [target |-> t, draws |-> draws, set |-> set]) \in Seq(Batches)
  BY <1>1 DEF Machines
<1>. QED  BY <1>2 DEF Enqueue, Machines

LEMMA DrawType ==
  ASSUME NEW d \in DrawContexts, NEW c \in Contexts, d.pos <= d.len
  PROVE  Draw(d, c) \in Draws
<1>. DEFINE Draws1 == [slot : Nat, dorg : Origins, sorg : Origins, with : Pipelines]
<1>1. d.len - d.pos \in Nat /\ d.pos \in Nat /\ d.len \in Nat
  BY DEF DrawContexts
<1>2. \A i \in 1 .. d.len - d.pos :
        [slot |-> d.pos + i - 1, dorg |-> c.dorg, sorg |-> c.sorg, with |-> d.bound] \in Draws1
  BY <1>1 DEF DrawContexts, Contexts
<1>. HIDE DEF Draws1
<1>3. Draw(d, c) \in [1 .. d.len - d.pos -> Draws1]
  BY <1>2 DEF Draw
<1>4. Draw(d, c) \in Seq(Draws1)
  BY <1>1, <1>3, SeqDef
<1>. QED  BY <1>4 DEF Draws, Draws1

-----------------------------------------------------------------------------
(* flush (impl.c:567-589) draws all vertices of the destination and        *)
(* touches no other target.                                                *)
LEMMA FlushSound ==
  ASSUME NEW m, Sound(m), m.ctx.dst \in Targets
  PROVE  /\ Sound(Flush(m))
         /\ Flush(m).ctx = m.ctx
         /\ Flush(m).dc[m.ctx.dst].recording = m.dc[m.ctx.dst].recording
         /\ Flush(m).dc[m.ctx.dst].pos = Flush(m).dc[m.ctx.dst].len
         /\ \A t \in Targets \ {m.ctx.dst} : Flush(m).dc[t] = m.dc[t]
<1>. DEFINE t == m.ctx.dst
            d == m.dc[t]
            d1 == [d EXCEPT !.draws = @ \o Draw(d, m.ctx), !.pos = d.len]
            m1 == DrawContextOf(m, t, d1)
<1>1. d \in DrawContexts /\ m.ctx \in Contexts /\ d.pos <= d.len /\ m \in Machines
  BY DEF Sound, Machines
<1>2. CASE d.pos = d.len
  BY <1>2 DEF Flush
<1>3. CASE d.pos # d.len
  <2>1. d.draws \o Draw(d, m.ctx) \in Draws
    BY <1>1, DrawType, ConcatProperties DEF DrawContexts, Draws
  <2>2. /\ d1 \in DrawContexts
        /\ d1.recording = d.recording
        /\ d1.pos = d1.len
    BY <1>1, <2>1 DEF DrawContexts
  <2>3. Flush(m) = Blame(Command(m1, t), "no pipeline", d.bound = NoPipeline)
    BY <1>3 DEF Flush
  <2>4. "no pipeline" \in Misuses
    BY DEF Misuses
  <2>. HIDE DEF d1
  <2>5. /\ m1 \in Machines
        /\ m1.ctx = m.ctx
        /\ m1.dc = [m.dc EXCEPT ![t] = d1]
    BY <1>1, <2>2, DrawContextOfSound
  <2>. HIDE DEF m1
  <2>6. /\ Flush(m) \in Machines
        /\ Flush(m).ctx = m.ctx
        /\ Flush(m).dc = [m.dc EXCEPT ![t] = d1]
    <3>. DEFINE m2 == Command(m1, t)
                wrong == d.bound = NoPipeline
    <3>1. m2 \in Machines /\ m2.ctx = m.ctx /\ m2.dc = [m.dc EXCEPT ![t] = d1]
      BY <2>5, CommandSound
    <3>2. Flush(m) = Blame(m2, "no pipeline", wrong)
      BY <2>3
    <3>. HIDE DEF m2
    <3>3. /\ Blame(m2, "no pipeline", wrong) \in Machines
          /\ Blame(m2, "no pipeline", wrong).ctx = m2.ctx
          /\ Blame(m2, "no pipeline", wrong).dc = m2.dc
      BY <2>4, <3>1 DEF Blame, Machines
    <3>. QED  BY <3>1, <3>2, <3>3
  <2>7. d1.pos <= d1.len
    BY <2>2 DEF DrawContexts
  <2>. QED  BY <2>2, <2>6, <2>7 DEF Sound, Machines
<1>. QED  BY <1>2, <1>3

(* submit (impl.c:591-617) leaves the destination at rest whether or not   *)
(* Vulkan took the batch, and touches no other target.                     *)
LEMMA SubmitSound ==
  ASSUME NEW m, NEW fails, Sound(m), m.ctx.dst \in Targets
  PROVE  /\ Sound(Submit(m, fails))
         /\ Submit(m, fails).ctx = m.ctx
         /\ Resting(Submit(m, fails).dc[m.ctx.dst])
         /\ \A t \in Targets \ {m.ctx.dst} : Submit(m, fails).dc[t] = m.dc[t]
<1>. DEFINE t  == m.ctx.dst
            m0 == Command(Flush(m), t)
            d0 == [m0.dc[t] EXCEPT !.recording = FALSE]
            m1 == EndBuffer(m)
            d1 == [m1.dc[t] EXCEPT !.draws = <<>>, !.bound = NoPipeline, !.set = FALSE]
            d2 == [d1 EXCEPT !.len = 0, !.pos = 0, !.submitted = TRUE]
            mb == Blame(m1, "signalled again", d1.submitted)
<1>1. m0 \in Machines /\ m0.ctx = m.ctx /\ m0.dc = Flush(m).dc
  BY FlushSound, CommandSound DEF Sound
<1>2. d0 \in DrawContexts /\ ~d0.recording /\ d0.pos = d0.len
  <2>. HIDE DEF m0
  <2>1. m0.dc[t] \in DrawContexts /\ m0.dc[t].pos = m0.dc[t].len
    BY <1>1, FlushSound DEF Machines
  <2>. QED  BY <2>1 DEF DrawContexts
<1>3. m1 \in Machines /\ m1.ctx = m.ctx /\ m1.dc = [m0.dc EXCEPT ![t] = d0]
  <2>1. m1 = DrawContextOf(m0, t, d0)
    BY DEF EndBuffer
  <2>. HIDE DEF m0, d0, m1
  <2>. QED  BY <1>1, <1>2, <2>1, DrawContextOfSound
<1>4. m1.dc[t] = d0 /\ \A u \in Targets \ {t} : m1.dc[u] = m.dc[u]
  <2>. HIDE DEF d0, m0, m1
  <2>. QED  BY <1>1, <1>3, FlushSound DEF Machines
<1>5. /\ d1 \in DrawContexts /\ Resting(d1)
      /\ d2 \in DrawContexts /\ Resting(d2)
      /\ m1.dc[t].draws \in Draws /\ m1.dc[t].set \in BOOLEAN
  <2>1. <<>> \in Draws
    BY DEF Draws
  <2>2. NoPipeline \in Pipelines
    BY DEF Pipelines
  <2>. HIDE DEF d0, m1
  <2>. QED  BY <1>2, <1>4, <2>1, <2>2 DEF DrawContexts, Resting
<1>6. \E d \in DrawContexts :
        /\ Resting(d)
        /\ Submit(m, fails) \in Machines
        /\ Submit(m, fails).ctx = m.ctx
        /\ Submit(m, fails).dc = [m1.dc EXCEPT ![t] = d]
  <2>1. CASE "submit" \in fails
    <3>1. Submit(m, fails) = DrawContextOf(m1, t, d1)
      BY <2>1 DEF Submit
    <3>. HIDE DEF m1, d1
    <3>. QED  BY <1>3, <1>5, <3>1, DrawContextOfSound
  <2>2. CASE "submit" \notin fails
    <3>1. Submit(m, fails)
            = Enqueue(DrawContextOf(mb, t, d2), t, m1.dc[t].draws, m1.dc[t].set)
      BY <2>2 DEF Submit
    <3>. DEFINE m2 == DrawContextOf(mb, t, d2)
                draws == m1.dc[t].draws
                set == m1.dc[t].set
    <3>2. "signalled again" \in Misuses
      BY DEF Misuses, KnownMisuses
    <3>. HIDE DEF m1, d1, d2
    <3>3. mb \in Machines /\ mb.ctx = m.ctx /\ mb.dc = m1.dc
      BY <1>3, <3>2, BlameSound
    <3>. HIDE DEF mb
    <3>4. m2 \in Machines /\ m2.ctx = m.ctx /\ m2.dc = [m1.dc EXCEPT ![t] = d2]
      BY <1>5, <3>3, DrawContextOfSound
    <3>5. draws \in Draws /\ set \in BOOLEAN /\ Submit(m, fails) = Enqueue(m2, t, draws, set)
      BY <1>5, <3>1
    <3>. HIDE DEF m2, draws, set
    <3>. QED  BY <1>5, <3>4, <3>5, EnqueueSound
  <2>. QED  BY <2>1, <2>2
<1>. HIDE DEF m1, m0, d0
<1>7. PICK d \in DrawContexts :
        /\ Resting(d)
        /\ Submit(m, fails) \in Machines
        /\ Submit(m, fails).ctx = m.ctx
        /\ Submit(m, fails).dc = [m1.dc EXCEPT ![t] = d]
  BY <1>6
<1>8. d.pos <= d.len
  BY <1>7 DEF Resting, DrawContexts
<1>. QED  BY <1>3, <1>4, <1>7, <1>8 DEF Sound, Machines

(* vkBeginCommandBuffer (impl.c:641) and the binding of a source           *)
(* (impl.c:677-714) only change whether and with what t records.           *)
LEMMA BeginSound ==
  ASSUME NEW m, Sound(m), NEW t \in Targets
  PROVE  /\ Sound(Begin(m, t))
         /\ Begin(m, t).ctx = m.ctx
         /\ Begin(m, t).dc[t].pos = m.dc[t].pos
         /\ Begin(m, t).dc[t].len = m.dc[t].len
         /\ \A u \in Targets \ {t} : Begin(m, t).dc[u] = m.dc[u]
<1>. DEFINE d  == [m.dc[t] EXCEPT !.recording = TRUE]
            m0 == Blame(m, "begun while pending", Busy(m, t))
            m1 == Blame(m0, "no barrier", TRUE)
<1>1. m \in Machines /\ m.dc[t] \in DrawContexts
  BY DEF Sound, Machines
<1>2. d \in DrawContexts /\ d.pos = m.dc[t].pos /\ d.len = m.dc[t].len
  BY <1>1 DEF DrawContexts
<1>3. "begun while pending" \in Misuses /\ "no barrier" \in Misuses
  BY DEF Misuses, KnownMisuses
<1>4. m1 \in Machines /\ m1.ctx = m.ctx /\ m1.dc = m.dc
  <2>1. m0 \in Machines /\ m0.ctx = m.ctx /\ m0.dc = m.dc
    BY <1>1, <1>3, BlameSound
  <2>. HIDE DEF m0
  <2>. QED  BY <1>3, <2>1, BlameSound
<1>5. Begin(m, t) = DrawContextOf(m1, t, d)
  BY DEF Begin
<1>. HIDE DEF d, m1
<1>6. /\ Begin(m, t) \in Machines
      /\ Begin(m, t).ctx = m.ctx
      /\ Begin(m, t).dc = [m.dc EXCEPT ![t] = d]
  BY <1>2, <1>4, <1>5, DrawContextOfSound
<1>. QED  BY <1>1, <1>2, <1>6 DEF Sound, Machines

LEMMA UpdateSound ==
  ASSUME NEW m \in Machines, NEW t \in Targets, NEW src \in Images
  PROVE  /\ Update(m, t, src) \in Machines
         /\ Update(m, t, src).ctx = m.ctx
         /\ Update(m, t, src).dc = m.dc
         /\ Update(m, t, src).queue = m.queue
         /\ Update(m, t, src).desc = src
<1>. DEFINE m1 == Blame(m, "no barrier", TRUE)
            m2 == Blame(m1, "bound set updated", m.dc[t].set)
            m3 == Blame(m2, "pending set updated", SetPending(m))
<1>1. /\ "no barrier" \in Misuses /\ "bound set updated" \in Misuses
      /\ "pending set updated" \in Misuses
  BY DEF Misuses, KnownMisuses
<1>2. m1 \in Machines /\ m1.ctx = m.ctx /\ m1.dc = m.dc /\ m1.queue = m.queue
  BY <1>1, BlameSound
<1>3. Update(m, t, src) = [m3 EXCEPT !.desc = src]
  BY DEF Update
<1>. HIDE DEF m1
<1>4. m2 \in Machines /\ m2.ctx = m.ctx /\ m2.dc = m.dc /\ m2.queue = m.queue
  BY <1>1, <1>2, BlameSound
<1>. HIDE DEF m2
<1>5. m3 \in Machines /\ m3.ctx = m.ctx /\ m3.dc = m.dc /\ m3.queue = m.queue
  BY <1>1, <1>4, BlameSound
<1>. HIDE DEF m3
<1>. QED  BY <1>3, <1>5 DEF Machines

LEMMA BindSound ==
  ASSUME NEW m, Sound(m), NEW t \in Targets, NEW src \in Sources
  PROVE  /\ Sound(Bind(m, t, src))
         /\ Bind(m, t, src).ctx = m.ctx
         /\ \A u \in Targets :
              /\ Bind(m, t, src).dc[u].recording = m.dc[u].recording
              /\ Bind(m, t, src).dc[u].pos = m.dc[u].pos
              /\ Bind(m, t, src).dc[u].len = m.dc[u].len
<1>. DEFINE bound == IF src \in Images THEN CopyPipeline ELSE src
            d  == [m.dc[t] EXCEPT !.bound = bound, !.set = @ \/ src \in Images]
            m1 == Command(m, t)
            m2 == DrawContextOf(m1, t, d)
<1>1. m \in Machines /\ m.dc[t] \in DrawContexts
  BY DEF Sound, Machines
<1>2. bound \in Pipelines
  BY DEF Pipelines, Sources
<1>3. /\ d \in DrawContexts
      /\ d.recording = m.dc[t].recording /\ d.pos = m.dc[t].pos /\ d.len = m.dc[t].len
  <2>. HIDE DEF bound
  <2>. QED  BY <1>1, <1>2 DEF DrawContexts
<1>4. m1 \in Machines /\ m1.ctx = m.ctx /\ m1.dc = m.dc
  BY <1>1, CommandSound
<1>5. m2 \in Machines /\ m2.ctx = m.ctx /\ m2.dc = [m.dc EXCEPT ![t] = d]
  <2>. HIDE DEF d, m1
  <2>. QED  BY <1>3, <1>4, DrawContextOfSound
<1>6. Bind(m, t, src) = IF src \in Images THEN Update(m2, t, src) ELSE m2
  BY DEF Bind
<1>. HIDE DEF d, m2
<1>7. /\ Bind(m, t, src) \in Machines
      /\ Bind(m, t, src).ctx = m.ctx
      /\ Bind(m, t, src).dc = [m.dc EXCEPT ![t] = d]
  BY <1>5, <1>6, UpdateSound
<1>. QED  BY <1>1, <1>3, <1>7 DEF Sound, Machines

(* Selecting a source (impl.c:673-715) changes neither what records nor    *)
(* what rests, and fails only on a NULL one.                               *)
Selected(m, src, r) ==
    /\ Sound(r.m)
    /\ r.m.ctx = m.ctx
    /\ r.ret = 0 \/ (r.ret = -1 /\ src = NoImage /\ m.ctx.src # NoImage)
    /\ \A t \in Targets :
         /\ r.m.dc[t].recording = m.dc[t].recording
         /\ m.dc[t].pos = m.dc[t].len => r.m.dc[t].pos = r.m.dc[t].len

LEMMA SelectSourceSound ==
  ASSUME NEW m, Sound(m), NEW dst \in Targets, NEW src \in Sources \cup {NoImage}
  PROVE  Selected(m, src, SelectSource(m, dst, src))
<1>. DEFINE r == SelectSource(m, dst, src)
<1>. SUFFICES /\ Sound(r.m)
              /\ r.m.ctx = m.ctx
              /\ r.ret = 0 \/ (r.ret = -1 /\ src = NoImage /\ m.ctx.src # NoImage)
              /\ \A t \in Targets :
                   /\ r.m.dc[t].recording = m.dc[t].recording
                   /\ m.dc[t].pos = m.dc[t].len => r.m.dc[t].pos = r.m.dc[t].len
  BY DEF Selected
<1>1. CASE src = m.ctx.src
  BY <1>1 DEF SelectSource, Return
<1>2. CASE src # m.ctx.src
  <2>. DEFINE m1 == IF m.ctx.dst # NoImage THEN Flush(m) ELSE m
  <2>1. /\ Sound(m1)
        /\ m1.ctx = m.ctx
        /\ \A t \in Targets :
             /\ m1.dc[t].recording = m.dc[t].recording
             /\ m.dc[t].pos = m.dc[t].len => m1.dc[t].pos = m1.dc[t].len
    <3>1. CASE m.ctx.dst = NoImage
      BY <3>1
    <3>2. CASE m.ctx.dst # NoImage
      <4>1. m.ctx.dst \in Targets
        BY <3>2 DEF Sound
      <4>. QED  BY <3>2, <4>1, FlushSound
    <3>. QED  BY <3>1, <3>2
  <2>2. CASE src = NoImage
    <3>1. r = Return(Blame(m1, "NULL source", TRUE), -1)
      BY <1>2, <2>2 DEF SelectSource
    <3>2. "NULL source" \in Misuses
      BY DEF Misuses
    <3>. HIDE DEF m1, r
    <3>3. /\ Blame(m1, "NULL source", TRUE) \in Machines
          /\ Blame(m1, "NULL source", TRUE).ctx = m1.ctx
          /\ Blame(m1, "NULL source", TRUE).dc = m1.dc
      BY <2>1, <3>2, BlameSound DEF Sound
    <3>4. r.m = Blame(m1, "NULL source", TRUE) /\ r.ret = -1
      BY <3>1 DEF Return
    <3>. QED  BY <1>2, <2>1, <2>2, <3>3, <3>4 DEF Sound
  <2>3. CASE src # NoImage
    <3>1. r = Return(Bind(m1, dst, src), 0)
      BY <1>2, <2>3 DEF SelectSource
    <3>. HIDE DEF m1, r
    <3>2. r.m = Bind(m1, dst, src) /\ r.ret = 0
      BY <3>1 DEF Return
    <3>. QED  BY <2>1, <2>3, <3>2, BindSound
  <2>. QED  BY <2>2, <2>3
<1>. QED  BY <1>1, <1>2

-----------------------------------------------------------------------------
(* Every target rests, save the destination while it is recording.         *)
Kept(m, dst) ==
    \A t \in Targets : t # dst \/ ~m.dc[t].recording => Resting(m.dc[t])

IInv == TypeOK /\ Kept(State, ctx.dst)

LEMMA IInvSound == IInv => Sound(State)
  BY DEF IInv, TypeOK, Sound, State, Machines

LEMMA IInvImplies == IInv => OneRecording /\ NothingLeftBehind
<1>. SUFFICES ASSUME IInv, NEW t \in Targets
             PROVE  /\ dc[t].recording => t = ctx.dst
                    /\ dc[t].pos < dc[t].len => t = ctx.dst /\ dc[t].recording
  BY DEF OneRecording, NothingLeftBehind
<1>1. t # ctx.dst \/ ~dc[t].recording => Resting(dc[t])
  BY DEF IInv, Kept, State
<1>2. dc[t] \in DrawContexts
  BY DEF IInv, TypeOK
<1>. QED  BY <1>1, <1>2 DEF Resting, DrawContexts

(* setup (impl.c:619-717), whatever it is given and whatever fails: the    *)
(* destination that is left rests; a new one records only if setup agreed  *)
(* to it, and blt.c makes it ctx->dst exactly then.                        *)
Chosen(dst, r) ==
    /\ Sound(r.m)
    /\ r.m.ctx.dst = ctx.dst
    /\ \/ r.ret = 0 /\ dst \in Targets \cup {NoImage} /\ Kept(r.m, dst)
       \/ r.ret = -1 /\ Kept(r.m, ctx.dst)

LEMMA SetupSound ==
  ASSUME IInv, NEW dst \in Sources \cup {NoImage}, NEW src \in Sources \cup {NoImage},
         NEW msk, NEW fails
  PROVE  Chosen(dst, Setup(dst, src, msk, fails))
<1>. DEFINE retarget == dst # ctx.dst
            m1 == IF ctx.dst # NoImage /\ retarget THEN Submit(State, fails) ELSE State
            m2 == ForgetSource(m1)
            r  == Setup(dst, src, msk, fails)
<1>. SUFFICES /\ Sound(r.m)
              /\ r.m.ctx.dst = ctx.dst
              /\ \/ r.ret = 0 /\ dst \in Targets \cup {NoImage} /\ Kept(r.m, dst)
                 \/ r.ret = -1 /\ Kept(r.m, ctx.dst)
  BY DEF Chosen
<1>1. Sound(State) /\ State.ctx = ctx /\ State.dc = dc /\ Kept(State, ctx.dst)
  BY IInvSound DEF IInv, State
<1>2. Sound(m1) /\ m1.ctx = ctx /\ Kept(m1, ctx.dst)
  <2>1. CASE ctx.dst # NoImage /\ retarget
    <3>1. ctx.dst \in Targets
      BY <1>1, <2>1 DEF Sound
    <3>. QED  BY <1>1, <2>1, <3>1, SubmitSound DEF Kept
  <2>2. CASE ~(ctx.dst # NoImage /\ retarget)
    BY <1>1, <2>2
  <2>. QED  BY <2>1, <2>2
<1>3. retarget \/ ctx.dst = NoImage => \A t \in Targets : Resting(m1.dc[t])
  <2>1. CASE ctx.dst # NoImage /\ retarget
    <3>1. ctx.dst \in Targets
      BY <1>1, <2>1 DEF Sound
    <3>. QED  BY <1>1, <2>1, <3>1, SubmitSound DEF Kept
  <2>2. CASE ctx.dst = NoImage
    <3>1. \A t \in Targets : t # ctx.dst
      BY <2>2, ImagesAssumption, TargetsAssumption
    <3>. QED  BY <1>1, <2>2, <3>1 DEF Kept
  <2>. QED  BY <2>1, <2>2
<1>4. r =
        IF dst = NoImage THEN Return(m1, 0)
        ELSE IF dst \notin Targets \/ msk # NoImage THEN Return(m1, -1)
        ELSE IF ~retarget THEN SelectSource(m1, dst, src)
        ELSE IF "begin" \in fails THEN Return(m2, -1)
        ELSE SelectSource(Begin(m2, dst), dst, src)
  BY DEF Setup
<1>5. /\ Sound(m2)
      /\ m2.ctx.dst = ctx.dst
      /\ m2.ctx.src = NoImage
      /\ m2.dc = m1.dc
  <2>. HIDE DEF m1
  <2>. QED  BY <1>2 DEF ForgetSource, Sound, Machines, Contexts
<1>. HIDE DEF m1, m2, r
<1>6. CASE dst = NoImage
  <2>1. r.m = m1 /\ r.ret = 0
    BY <1>4, <1>6 DEF Return
  <2>. QED  BY <1>2, <1>3, <1>6, <2>1 DEF Kept
<1>7. CASE dst # NoImage /\ (dst \notin Targets \/ msk # NoImage)
  <2>1. r.m = m1 /\ r.ret = -1
    BY <1>4, <1>7 DEF Return
  <2>. QED  BY <1>2, <2>1
<1>8. CASE dst \in Targets /\ msk = NoImage /\ dst # NoImage /\ ~retarget
  <2>1. r = SelectSource(m1, dst, src)
    BY <1>4, <1>8
  <2>2. /\ Sound(r.m) /\ r.m.ctx = m1.ctx /\ (r.ret = 0 \/ r.ret = -1)
        /\ \A t \in Targets :
             /\ r.m.dc[t].recording = m1.dc[t].recording
             /\ m1.dc[t].pos = m1.dc[t].len => r.m.dc[t].pos = r.m.dc[t].len
    <3>1. Selected(m1, src, r)
      BY <1>2, <1>8, <2>1, SelectSourceSound
    <3>. QED  BY <3>1 DEF Selected
  <2>3. Kept(r.m, ctx.dst)
    BY <1>2, <2>2 DEF Kept, Resting
  <2>. QED  BY <1>2, <1>8, <2>2, <2>3
<1>9. CASE dst \in Targets /\ msk = NoImage /\ dst # NoImage /\ retarget
  <2>1. CASE "begin" \in fails
    <3>1. r.m = m2 /\ r.ret = -1
      BY <1>4, <1>9, <2>1 DEF Return
    <3>. QED  BY <1>3, <1>5, <1>9, <3>1 DEF Kept
  <2>2. CASE "begin" \notin fails
    <3>. DEFINE m3 == Begin(m2, dst)
    <3>1. r = SelectSource(m3, dst, src)
      BY <1>4, <1>9, <2>2
    <3>2. /\ Sound(m3) /\ m3.ctx.dst = ctx.dst /\ m3.ctx.src = NoImage
          /\ m3.dc[dst].pos = m3.dc[dst].len
          /\ \A t \in Targets \ {dst} : Resting(m3.dc[t])
      BY <1>3, <1>5, <1>9, BeginSound DEF Resting
    <3>. HIDE DEF m3
    <3>3. /\ Sound(r.m) /\ r.m.ctx = m3.ctx /\ r.ret = 0
          /\ \A t \in Targets :
               /\ r.m.dc[t].recording = m3.dc[t].recording
               /\ m3.dc[t].pos = m3.dc[t].len => r.m.dc[t].pos = r.m.dc[t].len
      <4>1. Selected(m3, src, r)
        BY <1>9, <3>1, <3>2, SelectSourceSound
      <4>. QED  BY <3>2, <4>1 DEF Selected
    <3>. QED  BY <1>9, <3>2, <3>3 DEF Kept, Resting
  <2>. QED  BY <2>1, <2>2
<1>. QED  BY <1>6, <1>7, <1>8, <1>9

(* What blt.c makes of it (blt.c:23-83).                                   *)
LEMMA FinishSound ==
  ASSUME NEW r, NEW assigned, NEW chosen, NEW fails, NEW dst,
         Sound(r.m),
         \/ /\ r.ret = 0 /\ dst \in Targets \cup {NoImage} /\ Kept(r.m, dst)
            /\ assigned \in Contexts /\ assigned.dst = dst
         \/ r.ret = -1 /\ Kept(r.m, r.m.ctx.dst),
         Finish(r, assigned, chosen, fails)
  PROVE  IInv'
<1>1. /\ ctx' = IF r.ret < 0 THEN r.m.ctx ELSE assigned
      /\ dc' = r.m.dc /\ desc' = r.m.desc /\ queue' = r.m.queue /\ misuse' = r.m.misuse
  BY DEF Finish
<1>2. TypeOK'
  BY <1>1 DEF TypeOK, Sound, Machines
<1>3. Kept(State, ctx.dst)'
  BY <1>1 DEF Kept, State
<1>. QED  BY <1>2, <1>3 DEF IInv

-----------------------------------------------------------------------------
(* The calls of blt.h, one by one.                                         *)

LEMMA BltSetupStep ==
  ASSUME IInv, NEW dst \in Sources \cup {NoImage}, NEW src \in Sources \cup {NoImage},
         NEW dorg \in Origins, NEW sorg \in Origins, NEW msk \in Masks \cup {NoImage},
         BltSetup(dst, dorg, src, sorg, msk)
  PROVE  IInv'
<1>1. PICK fails \in Faced(dst) :
        LET r == Setup(dst, src, msk, fails)
        IN  Finish(r, AfterSetup(r.m.ctx, dst, dorg, src, sorg, msk),
                   [pen EXCEPT !.dst = dst, !.dorg = dorg, !.src = src, !.sorg = sorg], fails)
  BY DEF BltSetup
<1>. DEFINE r == Setup(dst, src, msk, fails)
            assigned == AfterSetup(r.m.ctx, dst, dorg, src, sorg, msk)
<1>2. /\ Sound(r.m) /\ r.m.ctx.dst = ctx.dst
      /\ \/ r.ret = 0 /\ dst \in Targets \cup {NoImage} /\ Kept(r.m, dst)
         \/ r.ret = -1 /\ Kept(r.m, ctx.dst)
  <2>1. Chosen(dst, r)
    BY SetupSound
  <2>. HIDE DEF r
  <2>. QED  BY <2>1 DEF Chosen
<1>. HIDE DEF r
<1>3. dst \in Targets \cup {NoImage} => assigned \in Contexts /\ assigned.dst = dst
  BY <1>2, TargetsAssumption DEF AfterSetup, Sound, Machines, Contexts
<1>. QED  BY <1>1, <1>2, <1>3, FinishSound DEF r

LEMMA BltOpStep ==
  ASSUME IInv, NEW op \in Ops, BltOp(op)
  PROVE  IInv'
<1>1. LET r == Setup(ctx.dst, ctx.src, ctx.msk, {})
      IN  Finish(r, AfterOp(r.m.ctx, op), pen, {})
  BY DEF BltOp
<1>. DEFINE r == Setup(ctx.dst, ctx.src, ctx.msk, {})
            assigned == AfterOp(r.m.ctx, op)
<1>2. /\ ctx.dst \in Sources \cup {NoImage} /\ ctx.src \in Sources \cup {NoImage}
      /\ ctx.dst \in Targets \cup {NoImage}
  BY DEF IInv, TypeOK, Contexts, Sources
<1>3. /\ Sound(r.m) /\ r.m.ctx.dst = ctx.dst
      /\ \/ r.ret = 0 /\ Kept(r.m, ctx.dst)
         \/ r.ret = -1 /\ Kept(r.m, ctx.dst)
  <2>1. Chosen(ctx.dst, r)
    BY <1>2, SetupSound
  <2>. HIDE DEF r
  <2>. QED  BY <2>1 DEF Chosen
<1>. HIDE DEF r
<1>4. assigned \in Contexts /\ assigned.dst = ctx.dst
  BY <1>3 DEF AfterOp, Sound, Machines, Contexts
<1>. QED  BY <1>1, <1>2, <1>3, <1>4, FinishSound DEF r

LEMMA BltDstStep ==
  ASSUME IInv, NEW dst \in Sources \cup {NoImage}, NEW dorg \in Origins, BltDst(dst, dorg)
  PROVE  IInv'
<1>1. PICK fails \in Faced(dst) :
        LET r == Setup(dst, ctx.src, ctx.msk, fails)
        IN  Finish(r, AfterDst(r.m.ctx, dst, dorg), [pen EXCEPT !.dst = dst, !.dorg = dorg], fails)
  BY DEF BltDst
<1>. DEFINE r == Setup(dst, ctx.src, ctx.msk, fails)
            assigned == AfterDst(r.m.ctx, dst, dorg)
<1>2. ctx.src \in Sources \cup {NoImage}
  BY DEF IInv, TypeOK, Contexts
<1>3. /\ Sound(r.m) /\ r.m.ctx.dst = ctx.dst
      /\ \/ r.ret = 0 /\ dst \in Targets \cup {NoImage} /\ Kept(r.m, dst)
         \/ r.ret = -1 /\ Kept(r.m, ctx.dst)
  <2>1. Chosen(dst, r)
    BY <1>2, SetupSound
  <2>. HIDE DEF r
  <2>. QED  BY <2>1 DEF Chosen
<1>. HIDE DEF r
<1>4. dst \in Targets \cup {NoImage} => assigned \in Contexts /\ assigned.dst = dst
  BY <1>3, TargetsAssumption DEF AfterDst, Sound, Machines, Contexts
<1>. QED  BY <1>1, <1>3, <1>4, FinishSound DEF r

LEMMA BltSrcStep ==
  ASSUME IInv, NEW src \in Sources \cup {NoImage}, NEW sorg \in Origins, BltSrc(src, sorg)
  PROVE  IInv'
<1>1. LET r == Setup(ctx.dst, src, ctx.msk, {})
      IN  Finish(r, AfterSrc(r.m.ctx, src, sorg), [pen EXCEPT !.src = src, !.sorg = sorg], {})
  BY DEF BltSrc
<1>. DEFINE r == Setup(ctx.dst, src, ctx.msk, {})
            assigned == AfterSrc(r.m.ctx, src, sorg)
<1>2. ctx.dst \in Sources \cup {NoImage} /\ ctx.dst \in Targets \cup {NoImage}
  BY DEF IInv, TypeOK, Contexts, Sources
<1>3. /\ Sound(r.m) /\ r.m.ctx.dst = ctx.dst
      /\ \/ r.ret = 0 /\ Kept(r.m, ctx.dst)
         \/ r.ret = -1 /\ Kept(r.m, ctx.dst)
  <2>1. Chosen(ctx.dst, r)
    BY <1>2, SetupSound
  <2>. HIDE DEF r
  <2>. QED  BY <2>1 DEF Chosen
<1>. HIDE DEF r
<1>4. assigned \in Contexts /\ assigned.dst = ctx.dst
  BY <1>3 DEF AfterSrc, Sound, Machines, Contexts
<1>. QED  BY <1>1, <1>2, <1>3, <1>4, FinishSound DEF r

LEMMA BltMaskStep ==
  ASSUME IInv, NEW msk \in Masks \cup {NoImage}, BltMask(msk)
  PROVE  IInv'
<1>1. LET r == Setup(ctx.dst, ctx.src, msk, {})
      IN  Finish(r, AfterMask(r.m.ctx, msk), pen, {})
  BY DEF BltMask
<1>. DEFINE r == Setup(ctx.dst, ctx.src, msk, {})
            assigned == AfterMask(r.m.ctx, msk)
<1>2. /\ ctx.dst \in Sources \cup {NoImage} /\ ctx.src \in Sources \cup {NoImage}
      /\ ctx.dst \in Targets \cup {NoImage}
  BY DEF IInv, TypeOK, Contexts, Sources
<1>3. /\ Sound(r.m) /\ r.m.ctx.dst = ctx.dst
      /\ \/ r.ret = 0 /\ Kept(r.m, ctx.dst)
         \/ r.ret = -1 /\ Kept(r.m, ctx.dst)
  <2>1. Chosen(ctx.dst, r)
    BY <1>2, SetupSound
  <2>. HIDE DEF r
  <2>. QED  BY <2>1 DEF Chosen
<1>. HIDE DEF r
<1>4. assigned \in Contexts /\ assigned.dst = ctx.dst
  BY <1>3 DEF AfterMask, Sound, Machines, Contexts
<1>. QED  BY <1>1, <1>2, <1>3, <1>4, FinishSound DEF r

(* A rectangle (impl.c:719-743) is added to the buffer that is recording,  *)
(* after a flush that frees no room when the buffer is full.               *)
LEMMA BltRectStep ==
  ASSUME IInv, ctx.dst # NoImage, dc[ctx.dst].recording, NEW rect \in Rects, BltRect(rect)
  PROVE  IInv'
<1>. DEFINE t  == ctx.dst
            m1 == IF dc[t].len = VertexCap THEN Flush(State) ELSE State
            wrong == dc[t].len >= VertexCap
            m2 == Blame(m1, "vertex overrun", wrong)
            d  == m2.dc[t]
            d1 == [d EXCEPT !.vertex = [@ EXCEPT ![d.len] = rect], !.len = @ + 1]
            m3 == DrawContextOf(m2, t, d1)
            r  == Return(m3, 0)
<1>1. /\ Sound(State) /\ State.ctx = ctx /\ State.dc = dc /\ Kept(State, ctx.dst)
      /\ t \in Targets /\ t # NoImage
  BY IInvSound DEF IInv, TypeOK, State
<1>2. /\ Sound(m1)
      /\ m1.ctx = ctx
      /\ m1.dc[t].recording
      /\ \A u \in Targets \ {t} : m1.dc[u] = dc[u]
  BY <1>1, FlushSound
<1>3. "vertex overrun" \in Misuses
  BY DEF Misuses
<1>4. m2 \in Machines /\ m2.ctx = ctx /\ m2.dc = m1.dc
  <2>. HIDE DEF m1
  <2>1. m1 \in Machines
    BY <1>2 DEF Sound
  <2>. QED  BY <1>2, <1>3, <2>1 DEF Blame, Machines
<1>. HIDE DEF m1, m2
<1>5. /\ d1 \in DrawContexts
      /\ d1.recording
      /\ d1.pos <= d1.len
  <2>1. d \in DrawContexts /\ d.pos <= d.len /\ d.recording
    BY <1>1, <1>2, <1>4 DEF Sound, Machines
  <2>2. [d.vertex EXCEPT ![d.len] = rect] \in [Slots -> Rects \cup {NoRect}]
    BY <2>1 DEF DrawContexts
  <2>. DEFINE v == [d.vertex EXCEPT ![d.len] = rect]
  <2>3. d1 = [d EXCEPT !.vertex = v, !.len = d.len + 1]
    OBVIOUS
  <2>4. d.len \in Nat /\ d.pos \in Nat /\ d.len + 1 \in Nat /\ d.pos <= d.len + 1
    BY <2>1 DEF DrawContexts
  <2>. HIDE DEF d, v, d1
  <2>5. d1 \in DrawContexts /\ d1.recording = d.recording /\ d1.pos = d.pos
        /\ d1.len = d.len + 1
    BY <2>1, <2>2, <2>3, <2>4 DEF DrawContexts, v
  <2>. QED  BY <2>1, <2>4, <2>5
<1>. HIDE DEF d1
<1>6. m3 \in Machines /\ m3.ctx = ctx /\ m3.dc = [m1.dc EXCEPT ![t] = d1]
  BY <1>1, <1>4, <1>5, DrawContextOfSound
<1>7. Sound(m3) /\ Kept(m3, t)
  <2>. HIDE DEF m3
  <2>. QED  BY <1>1, <1>2, <1>5, <1>6 DEF Sound, Kept, Machines
<1>8. Finish(r, ctx, [pen EXCEPT !.rect = rect], {})
  BY DEF BltRect, m1, m2, d1
<1>9. r.m = m3 /\ r.ret = 0
  BY DEF Return
<1>10. ctx \in Contexts /\ t \in Targets \cup {NoImage}
  BY <1>1 DEF IInv, TypeOK
<1>. HIDE DEF m3, r
<1>. QED  BY <1>1, <1>6, <1>7, <1>8, <1>9, <1>10, FinishSound

LEMMA ExecuteStep ==
  ASSUME IInv, Execute
  PROVE  IInv'
<1>1. PICK i \in 1 .. Len(queue) : ExecuteDraw(i) \/ Complete(i)
  BY DEF Execute
<1>2. queue \in Seq(Batches) /\ queue[i] \in Batches
  BY <1>1, ElementOfSeq DEF IInv, TypeOK
<1>3. CASE ExecuteDraw(i)
  <2>. DEFINE b == [queue[i] EXCEPT !.draws = Tail(@)]
  <2>1. queue' = [queue EXCEPT ![i] = b] /\ UNCHANGED <<ctx, dc, desc, misuse, pen>>
    BY <1>3 DEF ExecuteDraw
  <2>2. Tail(queue[i].draws) \in Draws
    BY <1>2, <1>3, HeadTailProperties DEF ExecuteDraw, Batches, Draws
  <2>3. b \in Batches
    BY <1>2, <2>2 DEF Batches
  <2>. HIDE DEF b
  <2>4. queue' \in Seq(Batches)
    BY <1>1, <1>2, <2>1, <2>3, ExceptSeq
  <2>. QED  BY <2>1, <2>4 DEF IInv, TypeOK, Kept, State
<1>4. CASE Complete(i)
  <2>1. queue' \in Seq(Batches)
    BY <1>1, <1>2, <1>4, SubSeqProperties, ConcatProperties DEF Complete, Seqs!RemoveAt
  <2>. QED  BY <1>4, <2>1 DEF Complete, IInv, TypeOK, Kept, State
<1>. QED  BY <1>1, <1>3, <1>4

-----------------------------------------------------------------------------
LEMMA IInvInit == Init => IInv
<1>. SUFFICES ASSUME Init PROVE IInv
  OBVIOUS
<1>1. NewDrawContext \in DrawContexts
  BY DEF NewDrawContext, DrawContexts, Draws, Pipelines
<1>2. TypeOK
  BY <1>1, ImagesAssumption, OriginsAssumption, OpsAssumption
     DEF Init, NewContext, NewDrawContext, TypeOK, Contexts
<1>3. Kept(State, ctx.dst)
  BY DEF Init, NewDrawContext, Kept, State, Resting
<1>. QED  BY <1>2, <1>3 DEF IInv

LEMMA IInvNext == IInv /\ [Next]_vars => IInv'
<1>. SUFFICES ASSUME IInv, [Next]_vars PROVE IInv'
  OBVIOUS
<1>1. CASE Client
  <2>. USE <1>1
  <2>1. ASSUME NEW rect \in Rects, MayRect, BltRect(rect)
        PROVE  IInv'
    BY <2>1, BltRectStep DEF MayRect, Stopped
  <2>2. ASSUME NEW s \in Setups, BltSetup(s.dst, s.dorg, s.src, s.sorg, s.msk)
        PROVE  IInv'
    <3>1. /\ s.dst \in Sources \cup {NoImage} /\ s.src \in Sources \cup {NoImage}
          /\ s.dorg \in Origins /\ s.sorg \in Origins /\ s.msk \in Masks \cup {NoImage}
      BY SetupsAssumption
    <3>. QED  BY <2>2, <3>1, BltSetupStep
  <2>3. ASSUME NEW d \in Dsts, BltDst(d.dst, d.dorg)
        PROVE  IInv'
    BY <2>3, DstsAssumption, BltDstStep
  <2>. QED
    BY <2>1, <2>2, <2>3, SrcOriginsAssumption, BltOpStep, BltSrcStep, BltMaskStep DEF Client
<1>2. CASE Execute
  BY <1>2, ExecuteStep
<1>3. CASE UNCHANGED vars
  BY <1>3 DEF vars, IInv, TypeOK, Kept, State
<1>. QED  BY <1>1, <1>2, <1>3 DEF Next

LEMMA IInvAlways == Spec => []IInv
  BY IInvInit, IInvNext, PTL DEF Spec

(* Type correctness: no call, however it fails, makes an image without a   *)
(* draw context the destination, or draws more than was given.             *)
THEOREM VulkanTypeOK == Spec => []TypeOK
<1>1. IInv => TypeOK
  BY DEF IInv
<1>. QED  BY <1>1, IInvAlways, PTL

(* At most one command buffer records, that of ctx->dst, whatever fails in *)
(* between (impl.c:619-717).                                               *)
THEOREM VulkanOneRecording == Spec => []OneRecording
  BY IInvAlways, IInvImplies, PTL

(* No vertex is forgotten in the buffer of a target that was left          *)
(* (impl.c:591-617).                                                       *)
THEOREM VulkanNothingLeftBehind == Spec => []NothingLeftBehind
  BY IInvAlways, IInvImplies, PTL
=============================================================================
