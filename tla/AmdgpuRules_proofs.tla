-------------------------- MODULE AmdgpuRules_proofs --------------------------
(***************************************************************************)
(* The amdgpu back end under a client that keeps some of the rules.  With  *)
(* four of them no buffer is overrun and nothing without a meaning is      *)
(* done, whatever the kernel refuses.  With three the back end implements  *)
(* Canvas: every image comes to show the strokes asked for on it.          *)
(***************************************************************************)
EXTENDS Amdgpu_proofs, AmdgpuPaints, WellFoundedInduction

\* It takes targets for destinations, names the source again, and leaves an
\* image for good when its stream or its vertex buffer is nearly full.
Careful == {"declared", "source", "stream", "room"} \subseteq Rules

Pens ==
    [dst : Sources \cup {NoImage}, dorg : Origins, src : Sources \cup {NoImage},
     sorg : Origins, rects : Calls \cup {NoCall}]

\* The stream of t has a source bound if vertices wait, or are wanted.
Ready(m, t, wanted) ==
    t \in Targets /\ (wanted \/ ~Drawn(m.drw[t])) => m.drw[t].bound # NoImage

\* There is room to leave t: for a draw and the padding of a submission.
Room(m, t) == t \in Targets => m.drw[t].len + DrawLen + Align <= StreamCap

\* The source may be known to the client alone: blt_dst makes setup bind it and
\* leaves it forgotten in ctx (amdgpu/impl.c:684, blt.c:52-61).
Rule == pen.src # NoImage \/ ctx.src # NoImage

RInv ==
    /\ IInv
    /\ pen \in Pens
    /\ misuse = {}
    /\ Ready(State, ctx.dst, Rule)
    /\ Room(State, ctx.dst)

-----------------------------------------------------------------------------
(* The functions of impl.c, where there is room.                           *)

\* At most n words more in t's stream, and nothing wrong.
Spent(m, r, t, n) ==
    /\ r.misuse = m.misuse
    /\ \A u \in Targets : r.drw[u].bound = m.drw[u].bound
    /\ \A u \in Targets \ {t} : r.drw[u].len = m.drw[u].len
    /\ r.drw[t].len <= m.drw[t].len + n

LEMMA BlameNothing ==
  ASSUME NEW m \in Machines, NEW what
  PROVE  Blame(m, what, FALSE) = m
  BY DEF Blame, Machines

LEMMA DrawOfClean ==
  ASSUME NEW m \in Machines, NEW t \in Targets, NEW d \in DrawStates
  PROVE  DrawOf(m, t, d).misuse = m.misuse
  BY DEF DrawOf, Machines

LEMMA OnlyWords ==
  ASSUME NEW d \in DrawStates, NEW n \in Nat
  PROVE  LET e == [d EXCEPT !.len = @ + n] IN e.len = d.len + n /\ e.bound = d.bound
  BY DEF DrawStates

LEMMA EmitClean ==
  ASSUME NEW m, Sound(m), NEW t \in Targets, NEW n \in Nat, m.drw[t].len + n <= StreamCap
  PROVE  /\ Spent(m, Emit(m, t, n), t, n)
         /\ Emit(m, t, n).drw[t].vert = m.drw[t].vert
         /\ Emit(m, t, n).drw[t].pos = m.drw[t].pos
         /\ Emit(m, t, n).drw[t].draws = m.drw[t].draws
<1>. DEFINE d == m.drw[t]
            e == [d EXCEPT !.len = @ + n]
            r == DrawOf(m, t, e)
<1>1. m \in Machines /\ d \in DrawStates /\ m.drw \in [Targets -> DrawStates]
  BY DEF Sound, Machines
<1>2. e \in DrawStates /\ e.len = d.len + n /\ e.bound = d.bound
      /\ e.vert = d.vert /\ e.pos = d.pos /\ e.draws = d.draws
  <2>. HIDE DEF d
  <2>. QED  BY <1>1, MoreWords, OnlyWords
<1>3. d.len \in Nat
  BY <1>1 DEF DrawStates
<1>4. (d.len + n > StreamCap) = FALSE
  BY <1>3, LengthsAssumption
<1>. HIDE DEF e
<1>5. r \in Machines /\ r.drw = [m.drw EXCEPT ![t] = e] /\ r.misuse = m.misuse
  BY <1>1, <1>2, DrawOfMachine, DrawOfClean
<1>6. Emit(m, t, n) = r
  <2>1. Emit(m, t, n) = Blame(r, "stream overrun", d.len + n > StreamCap)
    BY DEF Emit, e
  <2>2. Blame(r, "stream overrun", FALSE) = r
    BY <1>5, BlameNothing
  <2>. QED  BY <1>4, <2>1, <2>2
<1>. HIDE DEF r
<1>. QED  BY <1>1, <1>2, <1>3, <1>5, <1>6 DEF Spent

LEMMA SpentTransitive ==
  ASSUME NEW m, NEW q, NEW r, NEW t \in Targets, NEW n \in Nat, NEW o \in Nat,
         Sound(m), Sound(q), Sound(r), Spent(m, q, t, n), Spent(q, r, t, o)
  PROVE  Spent(m, r, t, n + o)
<1>1. m.drw[t].len \in Nat /\ q.drw[t].len \in Nat /\ r.drw[t].len \in Nat
  BY DEF Sound, Machines, DrawStates
<1>. QED  BY <1>1 DEF Spent

LEMMA DrawClean ==
  ASSUME NEW m, Sound(m), m.ctx.dst \in Targets, Ready(m, m.ctx.dst, FALSE),
         m.drw[m.ctx.dst].len + DrawLen <= StreamCap
  PROVE  Spent(m, Draw(m), m.ctx.dst, DrawLen)
<1>. DEFINE t  == m.ctx.dst
            m1 == Emit(m, t, DrawLen)
            d  == m1.drw[t]
            e  == [d EXCEPT !.draws = @ \o Undrawn(d, m.ctx), !.pos = Len(d.vert)]
            m2 == DrawOf(m1, t, e)
            none == d.pos < Len(d.vert) /\ d.bound = NoImage
<1>1. Sound(m1) /\ m1.ctx = m.ctx
  BY EmitSound, LengthsAssumption
<1>2. /\ Spent(m, m1, t, DrawLen)
      /\ d.vert = m.drw[t].vert /\ d.pos = m.drw[t].pos /\ d.bound = m.drw[t].bound
  BY EmitClean, LengthsAssumption DEF Spent
<1>3. Draw(m) = Blame(m2, "no shader", none)
  BY DEF Draw
<1>4. m.drw[t] \in DrawStates
  BY DEF Sound, Machines
<1>5. none = FALSE
  <2>1. m.drw[t].pos \in Nat /\ Len(m.drw[t].vert) \in Nat
    BY <1>4, LenProperties DEF DrawStates
  <2>. HIDE DEF m1
  <2>. QED  BY <1>2, <2>1 DEF Ready, Drawn
<1>. HIDE DEF m1, none
<1>6. d \in DrawStates /\ Tiled(d) /\ m.ctx \in Contexts /\ m1 \in Machines
      /\ m1.drw \in [Targets -> DrawStates]
  BY <1>1 DEF Sound, Machines
<1>7. e \in DrawStates
  BY <1>6, DrawnState
<1>8. e.len = d.len /\ e.bound = d.bound
  BY <1>6 DEF DrawStates
<1>. HIDE DEF e
<1>9. /\ m2 \in Machines /\ m2.misuse = m1.misuse /\ m2.drw = [m1.drw EXCEPT ![t] = e]
  BY <1>6, <1>7, DrawOfMachine, DrawOfClean
<1>. HIDE DEF m2
<1>10. Draw(m) = m2
  <2>1. Blame(m2, "no shader", FALSE) = m2
    BY <1>9, BlameNothing
  <2>. QED  BY <1>3, <1>5, <2>1
<1>. QED  BY <1>2, <1>6, <1>8, <1>9, <1>10 DEF Spent

LEMMA PadClean ==
  ASSUME NEW m, Sound(m), NEW t \in Targets, m.drw[t].len + Align <= StreamCap
  PROVE  Spent(m, Pad(m, t), t, Align)
<1>. DEFINE n == (Align - (m.drw[t].len % Align)) % Align
<1>1. m.drw[t].len \in Nat /\ m.drw \in [Targets -> DrawStates]
  BY DEF Sound, Machines, DrawStates
<1>2. n \in Nat /\ n <= Align
  BY <1>1, LengthsAssumption
<1>3. Pad(m, t) = Emit(m, t, n)
  BY DEF Pad
<1>. HIDE DEF n
<1>4. m.drw[t].len + n <= StreamCap
  BY <1>1, <1>2, LengthsAssumption
<1>5. Spent(m, Pad(m, t), t, n)
  BY <1>2, <1>3, <1>4, EmitClean
<1>6. Pad(m, t).drw[t].len \in Nat
  <2>1. Sound(Pad(m, t))
    BY PadSound
  <2>. QED  BY <2>1 DEF Sound, Machines, DrawStates
<1>. QED  BY <1>1, <1>2, <1>5, <1>6, LengthsAssumption DEF Spent

LEMMA SubmitClean ==
  ASSUME NEW m, NEW fails, Sound(m), m.ctx.dst \in Targets, Ready(m, m.ctx.dst, FALSE),
         Room(m, m.ctx.dst)
  PROVE  Spent(m, Submit(m, fails), m.ctx.dst, DrawLen + Align)
<1>. DEFINE t  == m.ctx.dst
            m0 == Draw(m)
            m1 == Pad(m0, t)
            b  == [target |-> t, size |-> Len(m1.drw[t].draws), images |-> Listed(t)]
            m2 == [m1 EXCEPT !.queue = Append(@, b)]
<1>1. m.drw[t].len \in Nat
  BY DEF Sound, Machines, DrawStates
<1>2. m.drw[t].len + DrawLen + Align <= StreamCap
  BY DEF Room
<1>3. Sound(m0) /\ Spent(m, m0, t, DrawLen)
  <2>1. m.drw[t].len + DrawLen <= StreamCap
    BY <1>1, <1>2, LengthsAssumption
  <2>. QED  BY <2>1, DrawSound, DrawClean
<1>4. Sound(m1) /\ Spent(m0, m1, t, Align)
  <2>. HIDE DEF m0
  <2>1. m0.drw[t].len \in Nat
    BY <1>3 DEF Sound, Machines, DrawStates
  <2>2. m0.drw[t].len + Align <= StreamCap
    BY <1>1, <1>2, <1>3, <2>1, LengthsAssumption DEF Spent
  <2>. QED  BY <1>3, <2>2, PadSound, PadClean
<1>5. Spent(m, m1, t, DrawLen + Align)
  <2>. HIDE DEF m0, m1
  <2>. QED  BY <1>3, <1>4, SpentTransitive, LengthsAssumption
<1>6. Submit(m, fails) = IF "submit" \in fails THEN m1 ELSE m2
  BY DEF Submit
<1>. HIDE DEF m1, b
<1>7. m2.misuse = m1.misuse /\ m2.drw = m1.drw
  BY <1>4 DEF Sound, Machines
<1>. HIDE DEF m2
<1>. QED  BY <1>5, <1>6, <1>7 DEF Spent

LEMMA BindClean ==
  ASSUME NEW m, Sound(m), NEW t \in Targets, NEW src \in Sources,
         m.drw[t].len + BindLen <= StreamCap
  PROVE  /\ Bind(m, t, src).misuse = m.misuse
         /\ Bind(m, t, src).drw[t].bound = src
         /\ Bind(m, t, src).drw[t].len <= m.drw[t].len + BindLen
<1>. DEFINE m1 == Emit(m, t, BindLen)
            d  == m1.drw[t]
            e  == [d EXCEPT !.bound = src]
            r  == DrawOf(m1, t, e)
<1>1. Sound(m1) /\ Spent(m, m1, t, BindLen)
  BY EmitSound, EmitClean, LengthsAssumption
<1>2. Bind(m, t, src) = r
  BY DEF Bind
<1>. HIDE DEF m1
<1>3. d \in DrawStates /\ m1 \in Machines /\ m1.drw \in [Targets -> DrawStates]
  BY <1>1 DEF Sound, Machines
<1>4. e \in DrawStates /\ e.len = d.len /\ e.bound = src
  <2>. HIDE DEF d
  <2>. QED  BY <1>3 DEF DrawStates
<1>. HIDE DEF e
<1>5. r.misuse = m1.misuse /\ r.drw = [m1.drw EXCEPT ![t] = e]
  BY <1>3, <1>4, DrawOfMachine, DrawOfClean
<1>. HIDE DEF r
<1>. QED  BY <1>1, <1>2, <1>3, <1>4, <1>5 DEF Spent

LEMMA BindContext ==
  ASSUME NEW m, Sound(m), NEW t \in Targets, NEW src \in Sources
  PROVE  Bind(m, t, src).ctx = m.ctx
<1>. DEFINE m1 == Emit(m, t, BindLen)
            d  == m1.drw[t]
            e  == [d EXCEPT !.bound = src]
<1>1. Sound(m1) /\ m1.ctx = m.ctx
  BY EmitSound, LengthsAssumption
<1>2. Bind(m, t, src) = DrawOf(m1, t, e)
  BY DEF Bind
<1>. HIDE DEF m1, e
<1>3. DrawOf(m1, t, e).ctx = m1.ctx
  BY <1>1 DEF DrawOf, Sound, Machines
<1>. QED  BY <1>1, <1>2, <1>3

-----------------------------------------------------------------------------
(* setup.                                                                  *)

LEMMA LengthType ==
  ASSUME NEW m, Sound(m), NEW t \in Targets
  PROVE  m.drw[t].len \in Nat
  BY DEF Sound, Machines, DrawStates

\* Choosing a source other than the one remembered leaves it bound.
LEMMA SelectSourceClean ==
  ASSUME NEW m, Sound(m), NEW dst \in Targets, NEW src \in Sources \cup {NoImage},
         m.ctx.dst # NoImage => Ready(m, m.ctx.dst, FALSE)
                                /\ m.drw[m.ctx.dst].len + DrawLen <= StreamCap,
         m.drw[dst].len + DrawLen + BindLen <= StreamCap,
         src = NoImage => m.ctx.src = NoImage
  PROVE  LET r == SelectSource(m, dst, src)
         IN  /\ r.ret = 0
             /\ r.m.misuse = m.misuse
             /\ r.m.ctx = m.ctx
             /\ r.m.drw[dst].len <= m.drw[dst].len + DrawLen + BindLen
             /\ src = m.ctx.src => r.m = m
             /\ src # m.ctx.src => r.m.drw[dst].bound = src
<1>. DEFINE r == SelectSource(m, dst, src)
            m1 == IF m.ctx.dst # NoImage THEN Draw(m) ELSE m
<1>1. m.drw[dst].len \in Nat
  BY LengthType
<1>2. CASE src = m.ctx.src
  BY <1>1, <1>2, LengthsAssumption DEF SelectSource, Return
<1>3. CASE src # m.ctx.src
  <2>1. src \in Sources
    BY <1>3
  <2>2. /\ Sound(m1) /\ m1.misuse = m.misuse /\ m1.ctx = m.ctx
        /\ m1.drw[dst].len <= m.drw[dst].len + DrawLen
    <3>1. CASE m.ctx.dst = NoImage
      BY <1>1, <3>1, LengthsAssumption
    <3>2. CASE m.ctx.dst # NoImage
      <4>1. m.ctx.dst \in Targets
        BY <3>2 DEF Sound
      <4>2. Spent(m, Draw(m), m.ctx.dst, DrawLen)
        BY <3>2, <4>1, DrawClean
      <4>3. Sound(Draw(m)) /\ Draw(m).ctx = m.ctx
        BY <4>1, DrawSound
      <4>. QED  BY <1>1, <3>2, <4>2, <4>3, LengthsAssumption DEF Spent
    <3>. QED  BY <3>1, <3>2
  <2>3. r = Return(Bind(m1, dst, src), 0)
    BY <1>3, <2>1, ImagesAssumption DEF SelectSource, Sources
  <2>. HIDE DEF m1, r
  <2>4. m1.drw[dst].len \in Nat
    BY <2>2, LengthType
  <2>5. /\ Bind(m1, dst, src).misuse = m1.misuse
        /\ Bind(m1, dst, src).drw[dst].bound = src
        /\ Bind(m1, dst, src).drw[dst].len <= m1.drw[dst].len + BindLen
    <3>1. m1.drw[dst].len + BindLen <= StreamCap
      BY <1>1, <2>2, <2>4, LengthsAssumption
    <3>. QED  BY <2>1, <2>2, <3>1, BindClean
  <2>6. Bind(m1, dst, src).ctx = m1.ctx
    BY <2>1, <2>2, BindContext
  <2>7. Sound(Bind(m1, dst, src))
    BY <2>1, <2>2, BindSound DEF Grew
  <2>. DEFINE q == Bind(m1, dst, src)
  <2>8. r.m = q /\ r.ret = 0
    BY <2>3 DEF Return
  <2>9. q.drw[dst].len \in Nat
    BY <2>7, LengthType
  <2>. HIDE DEF q
  <2>10. /\ q.misuse = m.misuse /\ q.ctx = m.ctx /\ q.drw[dst].bound = src
         /\ q.drw[dst].len <= m1.drw[dst].len + BindLen
    BY <2>2, <2>5, <2>6 DEF q
  <2>11. q.drw[dst].len <= m.drw[dst].len + DrawLen + BindLen
    BY <1>1, <2>2, <2>4, <2>9, <2>10, LengthsAssumption
  <2>. QED  BY <1>3, <2>8, <2>10, <2>11 DEF r
<1>. QED  BY <1>2, <1>3

\* What the client sees to before a call that ends in setup.
Allowed(dst, src) ==
    /\ src = NoImage => dst = NoImage \/ dst # ctx.dst \/ ctx.src = NoImage
    /\ dst \in Targets \cup Solids \cup {NoImage}
    /\ \/ dst = NoImage
       \/ \A t \in {dst, ctx.dst} \cap Targets : drw[t].len + Reserve <= StreamCap
       \/ dst = ctx.dst /\ src = ctx.src

\* What it gets.
Served(dst, src, r) ==
    /\ r.m.misuse = {}
    /\ r.m.ctx.src \in {ctx.src, NoImage}
    /\ r.ret = 0 => Ready(r.m, dst, src # NoImage) /\ Room(r.m, dst)
    /\ r.ret = 0 /\ dst = ctx.dst /\ Rule => Ready(r.m, dst, TRUE)
    /\ r.ret = -1 => Ready(r.m, ctx.dst, Rule) /\ Room(r.m, ctx.dst)

LEMMA SetupClean ==
  ASSUME RInv, NEW dst \in Sources \cup {NoImage}, NEW src \in Sources \cup {NoImage},
         NEW msk, NEW fails, Allowed(dst, src)
  PROVE  Served(dst, src, Setup(dst, src, msk, fails))
<1>. DEFINE retarget == dst # ctx.dst
            m1 == IF ctx.dst # NoImage /\ retarget THEN Submit(State, fails) ELSE State
            m2 == ForgetSource(m1)
            wild == dst \in Images /\ "garbage" \in fails
            r  == Setup(dst, src, msk, fails)
<1>. SUFFICES Served(dst, src, r)
  OBVIOUS
<1>1. /\ Sound(State) /\ State.ctx = ctx /\ State.drw = drw /\ State.misuse = {}
      /\ DrawnBut(State, ctx.dst)
      /\ Ready(State, ctx.dst, Rule) /\ Room(State, ctx.dst)
      /\ ctx.dst \in Targets \cup {NoImage}
      /\ ctx \in Contexts
  BY IInvSound DEF RInv, IInv, TypeOK, State
<1>2. NoImage \notin Targets
  BY ImagesAssumption, TargetsAssumption
<1>3. \A t \in Targets : drw[t].len \in Nat
  BY <1>1, LengthType
<1>4. ctx.dst # NoImage /\ retarget =>
         /\ Spent(State, m1, ctx.dst, DrawLen + Align)
         /\ Sound(m1) /\ m1.ctx = ctx
         /\ \A t \in Targets : Drawn(m1.drw[t])
  <2>. SUFFICES ASSUME ctx.dst # NoImage, retarget
                PROVE  /\ Spent(State, m1, ctx.dst, DrawLen + Align)
                       /\ Sound(m1) /\ m1.ctx = ctx
                       /\ \A t \in Targets : Drawn(m1.drw[t])
    OBVIOUS
  <2>1. m1 = Submit(State, fails) /\ State.ctx.dst \in Targets
    BY <1>1
  <2>2. Ready(State, ctx.dst, FALSE)
    BY <1>1 DEF Ready
  <2>3. Spent(State, m1, ctx.dst, DrawLen + Align)
    BY <1>1, <2>1, <2>2, SubmitClean
  <2>4. Sound(m1) /\ m1.ctx = ctx /\ \A u : DrawnBut(m1, u)
    BY <1>1, <2>1, SubmitSound
  <2>5. \A t \in Targets : Drawn(m1.drw[t])
    <3>1. DrawnBut(m1, NoImage)
      BY <2>4
    <3>. QED  BY <1>2, <3>1 DEF DrawnBut
  <2>. QED  BY <2>3, <2>4, <2>5
<1>5. ~(ctx.dst # NoImage /\ retarget) => m1 = State
  OBVIOUS
<1>6. Sound(m1) /\ m1.ctx = ctx /\ m1.misuse = {}
  BY <1>1, <1>4, <1>5 DEF Spent
<1>7. r =
        IF msk # NoImage THEN Return(State, -1)
        ELSE IF dst = NoImage THEN Return(m1, 0)
        ELSE IF dst \notin Targets THEN Return(Blame(m1, "wild draw", wild), -1)
        ELSE IF ~retarget THEN SelectSource(m1, dst, src)
        ELSE SelectSource(Preamble(m2, dst), dst, src)
  BY DEF Setup
<1>8. /\ Sound(m2) /\ m2.ctx.dst = ctx.dst /\ m2.ctx.src = NoImage
      /\ m2.drw = m1.drw /\ m2.misuse = {}
  <2>. HIDE DEF m1
  <2>. QED  BY <1>6, ForgetSound DEF ForgetSource, Sound, Machines, Contexts, Grew
<1>. HIDE DEF m1, m2, r
<1>9. CASE msk # NoImage
  <2>1. r.m = State /\ r.ret = -1
    BY <1>7, <1>9 DEF Return
  <2>. QED  BY <1>1, <2>1 DEF Served
<1>10. CASE msk = NoImage /\ dst = NoImage
  <2>1. r.m = m1 /\ r.ret = 0
    BY <1>7, <1>10 DEF Return
  <2>2. dst \notin Targets
    BY <1>2, <1>10
  <2>. QED  BY <1>6, <2>1, <2>2 DEF Served, Ready, Room
<1>11. CASE msk = NoImage /\ dst # NoImage /\ dst \notin Targets
  <2>1. wild = FALSE
    BY <1>11, ImagesAssumption DEF Allowed
  <2>2. Blame(m1, "wild draw", FALSE) = m1
    BY <1>6, BlameNothing DEF Sound
  <2>3. r.m = m1 /\ r.ret = -1
    BY <1>7, <1>11, <2>1, <2>2 DEF Return
  <2>4. retarget
    BY <1>1, <1>11
  <2>5. Ready(m1, ctx.dst, Rule)
    <3>1. CASE ctx.dst = NoImage
      BY <1>2, <3>1 DEF Ready
    <3>2. CASE ctx.dst # NoImage
      BY <1>1, <1>4, <2>4, <3>2 DEF Ready, Spent
    <3>. QED  BY <3>1, <3>2
  <2>6. Room(m1, ctx.dst)
    <3>1. CASE ctx.dst = NoImage
      BY <1>2, <3>1 DEF Room
    <3>2. CASE ctx.dst # NoImage
      <4>1. m1.drw[ctx.dst].len <= drw[ctx.dst].len + (DrawLen + Align)
        BY <1>1, <1>4, <2>4, <3>2 DEF Spent
      <4>2. drw[ctx.dst].len + Reserve <= StreamCap
        BY <1>1, <1>11, <2>4, <3>2 DEF Allowed
      <4>3. m1.drw[ctx.dst].len \in Nat /\ drw[ctx.dst].len \in Nat
        BY <1>1, <1>3, <1>6, <3>2, LengthType
      <4>. QED  BY <4>1, <4>2, <4>3, LengthsAssumption DEF Room, Reserve
    <3>. QED  BY <3>1, <3>2
  <2>. QED  BY <1>6, <2>3, <2>5, <2>6 DEF Served
<1>12. CASE msk = NoImage /\ dst \in Targets /\ ~retarget
  <2>1. r = SelectSource(State, dst, src) /\ dst = ctx.dst /\ dst # NoImage
    BY <1>2, <1>5, <1>7, <1>12
  <2>2. src = NoImage => ctx.src = NoImage
    BY <2>1 DEF Allowed
  <2>3. CASE src = ctx.src
    <3>1. r.m = State /\ r.ret = 0
      BY <1>1, <2>1, <2>3 DEF SelectSource, Return
    <3>2. Ready(State, dst, src # NoImage) /\ (Rule => Ready(State, dst, TRUE))
      BY <1>1, <2>1, <2>3 DEF Ready, Rule
    <3>. QED  BY <1>1, <2>1, <3>1, <3>2 DEF Served
  <2>4. CASE src # ctx.src
    <3>1. src \in Sources
      BY <2>2, <2>4
    <3>2. drw[dst].len + Reserve <= StreamCap /\ drw[dst].len \in Nat
      BY <1>3, <1>12, <2>1, <2>4 DEF Allowed
    <3>3. /\ drw[dst].len + DrawLen <= StreamCap
          /\ drw[dst].len + DrawLen + BindLen <= StreamCap
      BY <3>2, LengthsAssumption DEF Reserve
    <3>4. Ready(State, dst, FALSE)
      BY <1>1, <2>1 DEF Ready
    <3>5. /\ r.ret = 0 /\ r.m.misuse = {} /\ r.m.ctx = ctx
          /\ r.m.drw[dst].len <= drw[dst].len + DrawLen + BindLen
          /\ r.m.drw[dst].bound = src
      <4>1. State.ctx.dst # NoImage => Ready(State, State.ctx.dst, FALSE)
                                       /\ State.drw[State.ctx.dst].len + DrawLen <= StreamCap
        BY <1>1, <2>1, <3>3, <3>4
      <4>2. /\ State.drw[dst].len + DrawLen + BindLen <= StreamCap
            /\ src = NoImage => State.ctx.src = NoImage
            /\ src # State.ctx.src
        BY <1>1, <2>2, <2>4, <3>3
      <4>. HIDE DEF State
      <4>3. /\ r.ret = 0 /\ r.m.misuse = State.misuse /\ r.m.ctx = State.ctx
            /\ r.m.drw[dst].len <= State.drw[dst].len + DrawLen + BindLen
            /\ r.m.drw[dst].bound = src
        BY <1>1, <1>12, <2>1, <4>1, <4>2, SelectSourceClean DEF Ready
      <4>. QED  BY <1>1, <4>3
    <3>6. Sound(r.m)
      <4>1. Grew(State, r.m)
        BY <1>1, <1>12, <2>1, SelectSourceSound
      <4>. QED  BY <4>1 DEF Grew
    <3>7. r.m.drw[dst].len \in Nat
      BY <1>12, <3>6, LengthType
    <3>8. Room(r.m, dst)
      BY <3>2, <3>5, <3>7, LengthsAssumption DEF Room, Reserve
    <3>9. r.m.drw[dst].bound # NoImage
      BY <3>1, <3>5, ImagesAssumption DEF Sources
    <3>. QED  BY <3>5, <3>8, <3>9 DEF Served, Ready
  <2>. QED  BY <2>3, <2>4
<1>13. CASE msk = NoImage /\ dst \in Targets /\ retarget
  <2>. DEFINE m3 == Preamble(m2, dst)
  <2>1. r = SelectSource(m3, dst, src)
    BY <1>2, <1>7, <1>13
  <2>2. /\ \A t \in {dst, ctx.dst} \cap Targets : drw[t].len + Reserve <= StreamCap
        /\ dst # NoImage
    BY <1>2, <1>13 DEF Allowed
  <2>3. /\ m2.drw[dst].len = drw[dst].len
        /\ ctx.dst # NoImage => m2.drw[ctx.dst].len <= drw[ctx.dst].len + (DrawLen + Align)
    <3>1. CASE ctx.dst = NoImage
      BY <1>1, <1>5, <1>8, <3>1
    <3>2. CASE ctx.dst # NoImage
      BY <1>1, <1>4, <1>8, <1>13, <3>2 DEF Spent
    <3>. QED  BY <3>1, <3>2
  <2>4. /\ drw[dst].len \in Nat /\ drw[dst].len + Reserve <= StreamCap
        /\ drw[dst].len + PreambleLen <= StreamCap
    <3>1. drw[dst].len \in Nat /\ drw[dst].len + Reserve <= StreamCap
      BY <1>3, <1>13, <2>2
    <3>. QED  BY <3>1, LengthsAssumption DEF Reserve
  <2>5. /\ Sound(m3) /\ m3.ctx = m2.ctx /\ Spent(m2, m3, dst, PreambleLen)
        /\ \A u : DrawnBut(m2, u) => DrawnBut(m3, u)
    <3>1. m3 = Emit(m2, dst, PreambleLen)
      BY DEF Preamble
    <3>2. m2.drw[dst].len + PreambleLen <= StreamCap
      BY <2>3, <2>4
    <3>. HIDE DEF m3
    <3>. QED  BY <1>8, <1>13, <3>1, <3>2, LengthsAssumption, EmitSound, EmitClean
  <2>. HIDE DEF m3
  <2>6. \A t \in Targets : Drawn(m3.drw[t])
    <3>1. \A t \in Targets : Drawn(m1.drw[t])
      <4>1. CASE ctx.dst = NoImage
        BY <1>1, <1>2, <1>5, <4>1 DEF DrawnBut
      <4>2. CASE ctx.dst # NoImage
        BY <1>4, <1>13, <4>2
      <4>. QED  BY <4>1, <4>2
    <3>2. DrawnBut(m2, NoImage)
      BY <1>8, <3>1 DEF DrawnBut
    <3>3. DrawnBut(m3, NoImage)
      BY <2>5, <3>2
    <3>. QED  BY <1>2, <3>3 DEF DrawnBut
  <2>7. m3.misuse = {} /\ m3.ctx.dst = ctx.dst /\ m3.ctx.src = NoImage
    BY <1>8, <2>5 DEF Spent
  <2>8. m3.drw[dst].len <= drw[dst].len + PreambleLen /\ m3.drw[dst].len \in Nat
    BY <1>13, <2>3, <2>5, LengthType DEF Spent
  <2>9. ctx.dst # NoImage => m3.drw[ctx.dst].len + DrawLen <= StreamCap
    <3>. SUFFICES ASSUME ctx.dst # NoImage
                  PROVE  m3.drw[ctx.dst].len + DrawLen <= StreamCap
      OBVIOUS
    <3>1. m3.drw[ctx.dst].len = m2.drw[ctx.dst].len
      BY <1>1, <1>13, <2>5 DEF Spent
    <3>2. drw[ctx.dst].len \in Nat /\ m3.drw[ctx.dst].len \in Nat
      BY <1>1, <1>3, <2>5, LengthType
    <3>3. drw[ctx.dst].len + Reserve <= StreamCap
      BY <1>1, <2>2
    <3>. QED  BY <2>3, <3>1, <3>2, <3>3, LengthsAssumption DEF Reserve
  <2>10. m3.drw[dst].len + DrawLen + BindLen <= StreamCap
    BY <2>4, <2>8, LengthsAssumption DEF Reserve
  <2>11. m3.ctx.dst # NoImage => Ready(m3, m3.ctx.dst, FALSE)
                                /\ m3.drw[m3.ctx.dst].len + DrawLen <= StreamCap
    BY <2>6, <2>7, <2>9 DEF Ready
  <2>12. /\ r.ret = 0 /\ r.m.misuse = {} /\ r.m.ctx = m3.ctx
         /\ r.m.drw[dst].len <= m3.drw[dst].len + DrawLen + BindLen
         /\ src = NoImage => r.m = m3
         /\ src # NoImage => r.m.drw[dst].bound = src
    BY <1>13, <2>1, <2>5, <2>7, <2>10, <2>11, SelectSourceClean DEF Ready
  <2>13. r.m.drw[dst].len \in Nat
    <3>1. Grew(m3, r.m)
      BY <1>13, <2>1, <2>5, SelectSourceSound
    <3>. QED  BY <1>13, <3>1, LengthType DEF Grew
  <2>14. Room(r.m, dst)
    <3>. HIDE DEF Room
    <3>1. r.m.drw[dst].len + DrawLen + Align <= StreamCap
      BY <2>4, <2>8, <2>12, <2>13, LengthsAssumption DEF Reserve
    <3>. QED  BY <3>1 DEF Room
  <2>15. Ready(r.m, dst, src # NoImage)
    BY <2>6, <2>12 DEF Ready
  <2>16. r.ret # -1 /\ dst # ctx.dst
    BY <1>13, <2>12
  <2>17. r.ret = 0 /\ r.m.misuse = {} /\ r.m.ctx.src = NoImage
    BY <2>7, <2>12
  <2>. QED  BY <2>14, <2>15, <2>16, <2>17 DEF Served, Ready
<1>. QED  BY <1>9, <1>10, <1>11, <1>12, <1>13

-----------------------------------------------------------------------------
(* The calls of blt.h.                                                     *)

LEMMA FinishClean ==
  ASSUME RInv, IInv', NEW r, NEW assigned, NEW chosen \in Pens, NEW dst, NEW src,
         Served(dst, src, r), r.ret \in {0, -1}, r.m.ctx.dst = ctx.dst,
         r.ret = 0 => assigned.dst = dst,
         r.ret = 0 /\ (chosen.src # NoImage \/ assigned.src # NoImage)
             => src # NoImage \/ (dst = ctx.dst /\ Rule),
         Finish(r, assigned, chosen)
  PROVE  RInv'
<1>1. /\ ctx' = IF r.ret < 0 THEN r.m.ctx ELSE assigned
      /\ pen' = IF r.ret < 0 THEN pen ELSE chosen
      /\ drw' = r.m.drw /\ misuse' = r.m.misuse
  BY DEF Finish
<1>2. pen' \in Pens
  BY <1>1 DEF RInv
<1>3. misuse' = {}
  BY <1>1 DEF Served
<1>4. Ready(State, ctx.dst, Rule)' /\ Room(State, ctx.dst)'
  <2>1. CASE r.ret = 0
    <3>1. ctx' = assigned /\ pen' = chosen /\ assigned.dst = dst
      BY <1>1, <2>1
    <3>2. Rule' = (chosen.src # NoImage \/ assigned.src # NoImage)
      BY <3>1 DEF Rule
    <3>3. CASE ~Rule'
      BY <1>1, <2>1, <3>1, <3>3 DEF Served, Ready, Room, State
    <3>4. CASE Rule'
      BY <1>1, <2>1, <3>1, <3>2, <3>4 DEF Served, Ready, Room, State
    <3>. QED  BY <3>3, <3>4
  <2>2. CASE r.ret = -1
    <3>1. ctx'.dst = ctx.dst /\ ctx'.src \in {ctx.src, NoImage} /\ pen' = pen
      BY <1>1, <2>2 DEF Served
    <3>2. Rule' => Rule
      BY <3>1 DEF Rule
    <3>. QED  BY <1>1, <2>2, <3>1, <3>2 DEF Served, Ready, Room, State
  <2>. QED  BY <2>1, <2>2
<1>. QED  BY <1>2, <1>3, <1>4 DEF RInv

\* What SetupSound and SetupClean say together.
LEMMA SetupBoth ==
  ASSUME RInv, NEW dst \in Sources \cup {NoImage}, NEW src \in Sources \cup {NoImage},
         NEW msk, NEW fails, Allowed(dst, src), NEW r, r = Setup(dst, src, msk, fails)
  PROVE  /\ Served(dst, src, r)
         /\ r.ret \in {0, -1}
         /\ r.m.ctx \in Contexts
         /\ r.m.ctx.dst = ctx.dst
         /\ r.m.ctx.src \in {ctx.src, NoImage}
<1>1. Chosen(dst, r)
  BY SetupSound DEF RInv
<1>2. Served(dst, src, r)
  BY SetupClean
<1>. QED  BY <1>1, <1>2 DEF Chosen, Served, Sound, Machines

LEMMA BltSetupClean ==
  ASSUME RInv, NEW dst \in Sources \cup {NoImage}, NEW src \in Sources \cup {NoImage},
         NEW dorg \in Origins, NEW sorg \in Origins, NEW msk \in Masks \cup {NoImage},
         Allowed(dst, src), BltSetup(dst, dorg, src, sorg, msk)
  PROVE  RInv'
<1>. DEFINE chosen == [pen EXCEPT !.dst = dst, !.dorg = dorg, !.src = src, !.sorg = sorg]
<1>1. PICK fails \in SUBSET Failures :
        LET r == Setup(dst, src, msk, fails)
        IN  Finish(r, AfterSetup(r.m.ctx, dst, dorg, src, sorg, msk), chosen)
  BY DEF BltSetup
<1>. DEFINE r == Setup(dst, src, msk, fails)
            assigned == AfterSetup(r.m.ctx, dst, dorg, src, sorg, msk)
<1>2. /\ Served(dst, src, r) /\ r.ret \in {0, -1}
      /\ r.m.ctx \in Contexts /\ r.m.ctx.dst = ctx.dst
  BY SetupBoth
<1>3. IInv'
  BY BltSetupStep DEF RInv
<1>4. chosen \in Pens /\ chosen.src = src
  BY DEF RInv, Pens
<1>5. Finish(r, assigned, chosen)
  BY <1>1
<1>. HIDE DEF r, chosen
<1>6. assigned.src = src /\ assigned.dst = dst
  BY <1>2 DEF AfterSetup, Contexts
<1>. QED  BY <1>2, <1>3, <1>4, <1>5, <1>6, FinishClean

\* A call that names neither image changes nothing in setup.
LEMMA AllowedAgain ==
  ASSUME RInv
  PROVE  /\ Allowed(ctx.dst, ctx.src) /\ pen \in Pens
         /\ ctx.dst \in Sources \cup {NoImage} /\ ctx.src \in Sources \cup {NoImage}
  BY DEF Allowed, RInv, IInv, TypeOK, Contexts, Sources

LEMMA BltOpClean ==
  ASSUME RInv, NEW op \in Ops, BltOp(op)
  PROVE  RInv'
<1>. DEFINE r == Setup(ctx.dst, ctx.src, ctx.msk, {})
            assigned == AfterOp(r.m.ctx, op)
<1>1. /\ Allowed(ctx.dst, ctx.src) /\ pen \in Pens
      /\ ctx.dst \in Sources \cup {NoImage} /\ ctx.src \in Sources \cup {NoImage}
  BY AllowedAgain
<1>2. /\ Served(ctx.dst, ctx.src, r) /\ r.ret \in {0, -1} /\ r.m.ctx \in Contexts
      /\ r.m.ctx.dst = ctx.dst /\ r.m.ctx.src \in {ctx.src, NoImage}
  BY <1>1, SetupBoth
<1>3. IInv'
  BY BltOpStep DEF RInv
<1>4. Finish(r, assigned, pen)
  BY DEF BltOp
<1>. HIDE DEF r
<1>5. assigned.src = r.m.ctx.src /\ assigned.dst = ctx.dst
  BY <1>2 DEF AfterOp, Contexts
<1>6. pen.src # NoImage \/ assigned.src # NoImage => Rule
  BY <1>2, <1>5 DEF Rule
<1>. QED  BY <1>1, <1>2, <1>3, <1>4, <1>5, <1>6, FinishClean

LEMMA BltMaskClean ==
  ASSUME RInv, NEW msk \in Masks \cup {NoImage}, BltMask(msk)
  PROVE  RInv'
<1>. DEFINE r == Setup(ctx.dst, ctx.src, msk, {})
            assigned == AfterMask(r.m.ctx, msk)
<1>1. /\ Allowed(ctx.dst, ctx.src) /\ pen \in Pens
      /\ ctx.dst \in Sources \cup {NoImage} /\ ctx.src \in Sources \cup {NoImage}
  BY AllowedAgain
<1>2. /\ Served(ctx.dst, ctx.src, r) /\ r.ret \in {0, -1} /\ r.m.ctx \in Contexts
      /\ r.m.ctx.dst = ctx.dst /\ r.m.ctx.src \in {ctx.src, NoImage}
  BY <1>1, SetupBoth
<1>3. IInv'
  BY BltMaskStep DEF RInv
<1>4. Finish(r, assigned, pen)
  BY DEF BltMask
<1>. HIDE DEF r
<1>5. assigned.src = r.m.ctx.src /\ assigned.dst = ctx.dst
  BY <1>2 DEF AfterMask, Contexts
<1>6. pen.src # NoImage \/ assigned.src # NoImage => Rule
  BY <1>2, <1>5 DEF Rule
<1>. QED  BY <1>1, <1>2, <1>3, <1>4, <1>5, <1>6, FinishClean

\* The source that setup binds is the one the client has in mind.
LEMMA BltDstClean ==
  ASSUME RInv, NEW dst \in Sources \cup {NoImage}, NEW dorg \in Origins,
         Allowed(dst, ctx.src), dst = ctx.dst \/ ctx.src = pen.src, BltDst(dst, dorg)
  PROVE  RInv'
<1>. DEFINE chosen == [pen EXCEPT !.dst = dst, !.dorg = dorg]
<1>1. PICK fails \in SUBSET Failures :
        LET r == Setup(dst, ctx.src, ctx.msk, fails)
        IN  Finish(r, AfterDst(r.m.ctx, dst, dorg), chosen)
  BY DEF BltDst
<1>. DEFINE r == Setup(dst, ctx.src, ctx.msk, fails)
            assigned == AfterDst(r.m.ctx, dst, dorg)
<1>2. ctx.src \in Sources \cup {NoImage}
  BY AllowedAgain
<1>3. /\ Served(dst, ctx.src, r) /\ r.ret \in {0, -1} /\ r.m.ctx \in Contexts
      /\ r.m.ctx.dst = ctx.dst /\ r.m.ctx.src \in {ctx.src, NoImage}
  BY <1>2, SetupBoth
<1>4. IInv'
  BY BltDstStep DEF RInv
<1>5. chosen \in Pens /\ chosen.src = pen.src
  BY DEF RInv, Pens
<1>6. Finish(r, assigned, chosen)
  BY <1>1
<1>. HIDE DEF r, chosen
<1>7. assigned.src = r.m.ctx.src /\ assigned.dst = dst
  BY <1>3 DEF AfterDst, Contexts
<1>8. chosen.src # NoImage \/ assigned.src # NoImage
          => ctx.src # NoImage \/ (dst = ctx.dst /\ Rule)
  BY <1>3, <1>5, <1>7 DEF Rule
<1>. QED  BY <1>3, <1>4, <1>5, <1>6, <1>7, <1>8, FinishClean

LEMMA BltSrcClean ==
  ASSUME RInv, NEW src \in Sources \cup {NoImage}, NEW sorg \in Origins,
         Allowed(ctx.dst, src), BltSrc(src, sorg)
  PROVE  RInv'
<1>. DEFINE chosen == [pen EXCEPT !.src = src, !.sorg = sorg]
            r == Setup(ctx.dst, src, ctx.msk, {})
            assigned == AfterSrc(r.m.ctx, src, sorg)
<1>1. ctx.dst \in Sources \cup {NoImage}
  BY AllowedAgain
<1>2. /\ Served(ctx.dst, src, r) /\ r.ret \in {0, -1}
      /\ r.m.ctx \in Contexts /\ r.m.ctx.dst = ctx.dst
  BY <1>1, SetupBoth
<1>3. IInv'
  BY BltSrcStep DEF RInv
<1>4. chosen \in Pens /\ chosen.src = src
  BY DEF RInv, Pens
<1>5. Finish(r, assigned, chosen)
  BY DEF BltSrc
<1>. HIDE DEF r, chosen
<1>6. assigned.src = src /\ assigned.dst = ctx.dst
  BY <1>2 DEF AfterSrc, Contexts
<1>. QED  BY <1>2, <1>3, <1>4, <1>5, <1>6, FinishClean

\* Rectangles of a source, in a buffer that has room.
LEMMA BltRectClean ==
  ASSUME RInv, Careful, NEW rects \in Calls, MayRect(rects), BltRect(rects)
  PROVE  RInv'
<1>. DEFINE t  == ctx.dst
            d  == drw[t]
            w  == [i \in 1 .. Len(rects) |-> rects[1]]
            e  == [d EXCEPT !.vert = @ \o w]
            m1 == DrawOf(State, t, e)
            over == Len(e.vert) > VertexCap
            chosen == [pen EXCEPT !.rects = rects]
<1>1. /\ t \in Targets /\ pen.src # NoImage /\ Len(d.vert) + Len(rects) <= VertexCap
      /\ d \in DrawStates /\ pen \in Pens /\ ctx.dst # NoImage
  BY DEF Careful, MayRect, RInv, IInv, TypeOK
<1>2. State \in Machines /\ State.drw = drw /\ State.misuse = {}
  BY IInvSound DEF RInv, Sound, State
<1>3. w \in Seq(SUBSET Cells) /\ Len(w) = Len(rects) /\ Len(rects) \in Nat
  <2>1. rects \in Seq(SUBSET Cells) /\ rects # <<>>
    BY CallsAssumption
  <2>2. Len(rects) \in Nat /\ rects[1] \in SUBSET Cells
    BY <2>1, ElementOfSeq, EmptySeq, LenProperties
  <2>3. w \in [1 .. Len(rects) -> SUBSET Cells]
    BY <2>2
  <2>. HIDE DEF w
  <2>4. w \in Seq(SUBSET Cells)
    BY <2>2, <2>3, SeqDef
  <2>5. DOMAIN w = 1 .. Len(rects) /\ DOMAIN w = 1 .. Len(w) /\ Len(w) \in Nat
    BY <2>3, <2>4, LenProperties
  <2>. QED  BY <2>2, <2>4, <2>5
<1>. HIDE DEF w
<1>4. /\ d.vert \in Seq(SUBSET Cells) /\ d.vert \o w \in Seq(SUBSET Cells)
      /\ Len(d.vert \o w) = Len(d.vert) + Len(w)
  <2>1. d.vert \in Seq(SUBSET Cells)
    BY <1>1 DEF DrawStates
  <2>. QED  BY <1>3, <2>1, ConcatProperties
<1>5. /\ e \in DrawStates /\ e.vert = d.vert \o w
      /\ e.bound = d.bound /\ e.len = d.len
  <2>. HIDE DEF d
  <2>. QED  BY <1>1, <1>4 DEF DrawStates
<1>6. over = FALSE
  <2>1. Len(d.vert) \in Nat /\ VertexCap \in Nat
    BY <1>4, LenProperties, LengthsAssumption
  <2>2. ~(Len(e.vert) > VertexCap)
    <3>. HIDE DEF e, d
    <3>. QED  BY <1>1, <1>3, <1>4, <1>5, <2>1
  <2>. QED  BY <2>2
<1>. HIDE DEF e, over
<1>7. m1 \in Machines /\ m1.misuse = {} /\ m1.drw = [drw EXCEPT ![t] = e]
  BY <1>1, <1>2, <1>5, DrawOfMachine, DrawOfClean
<1>. HIDE DEF m1
<1>8. drw' = m1.drw /\ misuse' = m1.misuse /\ ctx' = ctx /\ pen' = chosen
  <2>1. Blame(m1, "vertex overrun", FALSE) = m1
    BY <1>7, BlameNothing
  <2>2. Finish(Return(Blame(m1, "vertex overrun", over), 0), ctx, chosen)
    BY DEF BltRect, w, e, over, m1
  <2>3. Finish(Return(m1, 0), ctx, chosen)
    BY <1>6, <2>1, <2>2
  <2>. HIDE DEF chosen
  <2>. QED  BY <2>3 DEF Finish, Return
<1>9. drw \in [Targets -> DrawStates] /\ Ready(State, t, TRUE) /\ Room(State, t)
  BY <1>1 DEF RInv, IInv, TypeOK, Ready, Rule
<1>10. IInv'
  BY <1>1, BltRectStep DEF RInv
<1>11. chosen \in Pens
  BY <1>1 DEF Pens
<1>12. drw'[t].bound = drw[t].bound /\ drw'[t].len = drw[t].len
  BY <1>1, <1>5, <1>7, <1>8, <1>9
<1>13. Ready(State, ctx.dst, Rule)' /\ Room(State, ctx.dst)'
  BY <1>1, <1>2, <1>8, <1>9, <1>12 DEF Ready, Room, State
<1>. QED  BY <1>7, <1>8, <1>10, <1>11, <1>13 DEF RInv

-----------------------------------------------------------------------------
LEMMA RInvInit == Init => RInv
<1>. SUFFICES ASSUME Init PROVE RInv
  OBVIOUS
<1>1. pen \in Pens
  BY OriginsAssumption DEF Init, Pens
<1>2. ctx.dst \notin Targets
  BY ImagesAssumption, TargetsAssumption DEF Init, NewContext
<1>3. Ready(State, ctx.dst, Rule) /\ Room(State, ctx.dst)
  BY <1>2 DEF Ready, Room
<1>. QED  BY <1>1, <1>3, IInvInit DEF RInv, Init

LEMMA RInvNext == RInv /\ Careful /\ [Next]_vars => RInv'
<1>. SUFFICES ASSUME RInv, Careful, [Next]_vars PROVE RInv'
  OBVIOUS
<1>1. CASE Client
  <2>1. ASSUME NEW dst, NEW dorg, NEW src, NEW sorg, MayCall(dst, dorg, src, sorg)
        PROVE  Allowed(dst, src)
    BY <2>1 DEF MayCall, Allowed, Careful
  <2>2. ASSUME NEW dst \in Sources \cup {NoImage}, NEW src \in Sources \cup {NoImage},
               NEW dorg \in Origins, NEW sorg \in Origins, NEW msk \in Masks \cup {NoImage},
               MayCall(dst, dorg, src, sorg), BltSetup(dst, dorg, src, sorg, msk)
        PROVE  RInv'
    BY <2>1, <2>2, BltSetupClean
  <2>3. ASSUME NEW op \in Ops, BltOp(op)
        PROVE  RInv'
    BY <2>3, BltOpClean
  <2>4. ASSUME NEW dst \in Sources \cup {NoImage}, NEW dorg \in Origins,
               MayCall(dst, dorg, ctx.src, ctx.sorg),
               "source" \in Rules => dst = ctx.dst \/ ctx.src = pen.src,
               BltDst(dst, dorg)
        PROVE  RInv'
    BY <2>1, <2>4, BltDstClean DEF Careful
  <2>5. ASSUME NEW src \in Sources \cup {NoImage}, NEW sorg \in Origins,
               MayCall(ctx.dst, ctx.dorg, src, sorg), BltSrc(src, sorg)
        PROVE  RInv'
    BY <2>1, <2>5, BltSrcClean
  <2>6. ASSUME NEW msk \in Masks \cup {NoImage}, BltMask(msk)
        PROVE  RInv'
    BY <2>6, BltMaskClean
  <2>7. ASSUME NEW rects \in Calls, MayRect(rects), BltRect(rects)
        PROVE  RInv'
    BY <2>7, BltRectClean
  <2>. QED  BY <1>1, <2>2, <2>3, <2>4, <2>5, <2>6, <2>7 DEF Client
<1>2. CASE Execute
  <2>1. IInv'
    BY <1>2, ExecuteStep DEF RInv
  <2>. QED  BY <1>2, <2>1 DEF RInv, Execute, Ready, Room, Rule, State
<1>3. CASE UNCHANGED vars
  <2>1. IInv'
    BY <1>3, IInvNext DEF RInv
  <2>. QED  BY <1>3, <2>1 DEF RInv, vars, Ready, Room, Rule, State
<1>. QED  BY <1>1, <1>2, <1>3 DEF Next

(* A client that draws on targets only, names the source again after a     *)
(* change of destination, and leaves an image for good before its stream   *)
(* or its vertex buffer is full, makes impl.c overrun neither, draw with   *)
(* no shader or dereference no image (impl.c:510-939), also when the       *)
(* kernel refuses submissions.                                             *)
THEOREM AmdgpuNoMisuse == Careful => (Spec => []NoMisuse)
<1>. SUFFICES ASSUME Careful PROVE Spec => []NoMisuse
  OBVIOUS
<1>1. Init => RInv
  BY RInvInit
<1>2. RInv /\ [Next]_vars => RInv'
  BY RInvNext
<1>3. RInv => NoMisuse
  BY DEF RInv, NoMisuse
<1>. QED  BY <1>1, <1>2, <1>3, PTL DEF Spec
-----------------------------------------------------------------------------
(* What an image shows under strokes.                                      *)

\* The order of the numbers, as the set of pairs the library's theorems on
\* well-founded orders take.
LessThan == {ss \in Nat \X Nat : ss[1] < ss[2]}

LEMMA LessThanWellFounded == IsWellFoundedOn(LessThan, Nat)
  BY NatLessThanWellFounded DEF OpToRel, LessThan

\* A set of places in a sequence has a last one (there is no induction in this:
\* the distances from the end have a least element).
LEMMA LastExists ==
  ASSUME NEW n \in Nat, NEW over, over \subseteq 1 .. n, over # {}
  PROVE  /\ Last(over) \in over
         /\ \A j \in over : j <= Last(over)
<1>. DEFINE T == {n - i : i \in over}
<1>2. T \subseteq Nat /\ T # {}
  <2>1. \A i \in over : n - i \in Nat
    OBVIOUS
  <2>. QED  BY <2>1
<1>3. PICK x \in T : \A y \in T : ~ (<<y, x>> \in LessThan)
  BY <1>2, LessThanWellFounded, WFMin
<1>4. PICK i \in over : x = n - i
  OBVIOUS
<1>5. \A j \in over : j <= i
  <2>1. SUFFICES ASSUME NEW j \in over, j > i PROVE FALSE
    OBVIOUS
  <2>2. n - j \in T /\ n - j < x
    BY <1>4, <2>1
  <2>. QED  BY <1>2, <1>3, <2>2 DEF LessThan
<1>. QED  BY <1>5 DEF Last

\* What a cell shows under strokes: the last that covers it, if any.
LEMMA UnderAt ==
  ASSUME NEW image, NEW strokes, Len(strokes) \in Nat, NEW c \in Cells
  PROVE  /\ (\A i \in 1 .. Len(strokes) : c \notin Covered(strokes[i]))
               => Under(image, strokes)[c] = image[c]
         /\ \A i \in 1 .. Len(strokes) :
               /\ c \in Covered(strokes[i])
               /\ \A j \in i + 1 .. Len(strokes) : c \notin Covered(strokes[j])
               => Under(image, strokes)[c] = Paint(strokes[i])
<1>. DEFINE over == {i \in 1 .. Len(strokes) : c \in Covered(strokes[i])}
<1>1. Under(image, strokes)[c] = IF over = {} THEN image[c] ELSE Paint(strokes[Last(over)])
  BY DEF Under
<1>2. ASSUME NEW i \in 1 .. Len(strokes), c \in Covered(strokes[i]),
             \A j \in i + 1 .. Len(strokes) : c \notin Covered(strokes[j])
      PROVE  over # {} /\ Last(over) = i
  <2>1. i \in over /\ \A j \in over : j <= i
    BY <1>2
  <2>2. over \subseteq 1 .. Len(strokes) /\ over # {}
    BY <2>1
  <2>. HIDE DEF over
  <2>3. Last(over) \in over /\ \A j \in over : j <= Last(over)
    BY <2>2, LastExists
  <2>4. Last(over) <= i /\ i <= Last(over)
    BY <2>1, <2>3
  <2>5. Last(over) \in Int /\ i \in Int
    <3>1. 1 .. Len(strokes) \subseteq Int
      OBVIOUS
    <3>2. Last(over) \in 1 .. Len(strokes)
      BY <2>2, <2>3
    <3>. QED  BY <3>1, <3>2
  <2>. QED  BY <2>2, <2>4, <2>5
<1>. QED  BY <1>1, <1>2

-----------------------------------------------------------------------------
(* The strokes of a target, drawn or not, in the order of its vertices.    *)

Piece(d, c, i) ==
    IF i <= d.pos
    THEN [rect |-> d.vert[i], dorg |-> d.draws[i].dorg, sorg |-> d.draws[i].sorg,
          src |-> d.draws[i].with]
    ELSE [rect |-> d.vert[i], dorg |-> c.dorg, sorg |-> c.sorg, src |-> d.bound]

Line(d, c) == [i \in 1 .. Len(d.vert) |-> Piece(d, c, i)]

Pieces == [rect : SUBSET Cells, dorg : Origins, sorg : Origins, src : Sources \cup {NoImage}]

LEMMA LineType ==
  ASSUME NEW d \in DrawStates, Tiled(d), NEW c \in Contexts
  PROVE  /\ Len(d.vert) \in Nat
         /\ Line(d, c) \in Seq(Pieces)
         /\ Len(Line(d, c)) = Len(d.vert)
         /\ \A i \in 1 .. Len(d.vert) : Line(d, c)[i] = Piece(d, c, i)
<1>1. Len(d.vert) \in Nat /\ Len(d.draws) = d.pos /\ d.pos \in Nat
  BY LenProperties DEF DrawStates, Tiled
<1>2. ASSUME NEW i \in 1 .. Len(d.vert) PROVE Piece(d, c, i) \in Pieces
  <2>1. d.vert[i] \in SUBSET Cells
    BY ElementOfSeq DEF DrawStates
  <2>2. CASE i <= d.pos
    <3>1. i \in 1 .. Len(d.draws)
      BY <1>1, <2>2
    <3>2. d.draws[i] \in Draws
      BY <3>1, ElementOfSeq DEF DrawStates
    <3>. QED  BY <2>1, <2>2, <3>2 DEF Piece, Draws, Pieces
  <2>3. CASE ~(i <= d.pos)
    <3>1. c.dorg \in Origins /\ c.sorg \in Origins /\ d.bound \in Sources \cup {NoImage}
      BY DEF Contexts, DrawStates
    <3>. QED  BY <2>1, <2>3, <3>1 DEF Piece, Pieces
  <2>. QED  BY <2>2, <2>3
<1>3. Line(d, c) \in [1 .. Len(d.vert) -> Pieces]
  BY <1>2 DEF Line
<1>4. Line(d, c) \in Seq(Pieces)
  BY <1>1, <1>3, SeqDef
<1>5. Len(Line(d, c)) = Len(d.vert)
  BY <1>1, <1>3, <1>4, LenProperties
<1>. QED  BY <1>1, <1>4, <1>5 DEF Line

LEMMA LineSame ==
  ASSUME NEW d, NEW e, NEW c, NEW b, e.draws = d.draws, e.vert = d.vert, e.pos = d.pos,
         e.bound = d.bound, b.dorg = c.dorg, b.sorg = c.sorg
  PROVE  Line(e, b) = Line(d, c)
  BY DEF Line, Piece

\* Where all is drawn, it does not matter what is chosen now.
LEMMA LineOfDrawn ==
  ASSUME NEW d \in DrawStates, NEW e, NEW c, NEW b, Drawn(d),
         e.draws = d.draws, e.vert = d.vert, e.pos = d.pos
  PROVE  Line(e, b) = Line(d, c)
<1>1. Len(d.vert) \in Nat /\ d.pos = Len(d.vert)
  BY LenProperties DEF DrawStates, Drawn
<1>2. \A i \in 1 .. Len(d.vert) : Piece(e, b, i) = Piece(d, c, i)
  BY <1>1 DEF Piece
<1>. QED  BY <1>2 DEF Line

\* A call leaves the strokes as they are, and what new ones will look like.
Same(m, r) ==
    /\ r.ctx.dorg = m.ctx.dorg /\ r.ctx.sorg = m.ctx.sorg
    /\ \A u \in Targets : /\ r.drw[u].vert = m.drw[u].vert
                          /\ Line(r.drw[u], r.ctx) = Line(m.drw[u], m.ctx)

KeepsBound(m, r) == \A u \in Targets : r.drw[u].bound = m.drw[u].bound

LEMMA EmitSame ==
  ASSUME NEW m, Sound(m), NEW t \in Targets, NEW n \in Nat
  PROVE  Same(m, Emit(m, t, n)) /\ KeepsBound(m, Emit(m, t, n))
<1>. DEFINE d == m.drw[t]
            e == [d EXCEPT !.len = @ + n]
            r == DrawOf(m, t, e)
            over == d.len + n > StreamCap
<1>1. d \in DrawStates /\ m \in Machines
  BY DEF Sound, Machines
<1>2. e \in DrawStates /\ e.draws = d.draws /\ e.vert = d.vert /\ e.pos = d.pos /\ e.bound = d.bound
  BY <1>1 DEF DrawStates
<1>3. Emit(m, t, n) = Blame(r, "stream overrun", over)
  BY DEF Emit
<1>. HIDE DEF e, over
<1>4. r \in Machines /\ r.ctx = m.ctx /\ r.drw = [m.drw EXCEPT ![t] = e]
  BY <1>1, <1>2, DrawOfMachine
<1>. HIDE DEF r
<1>5. Emit(m, t, n).drw = r.drw /\ Emit(m, t, n).ctx = m.ctx
  BY <1>3, <1>4 DEF Blame, Machines
<1>6. \A u \in Targets : LET f == Emit(m, t, n).drw[u] IN
        /\ f.draws = m.drw[u].draws /\ f.vert = m.drw[u].vert
        /\ f.pos = m.drw[u].pos /\ f.bound = m.drw[u].bound
  BY <1>1, <1>2, <1>4, <1>5 DEF Machines
<1>. QED  BY <1>5, <1>6, LineSame DEF Same, KeepsBound

LEMMA SameTransitive ==
  ASSUME NEW m, NEW q, NEW r, Same(m, q), Same(q, r)
  PROVE  Same(m, r)
  BY DEF Same

LEMMA DrawSame ==
  ASSUME NEW m, Sound(m), m.ctx.dst \in Targets
  PROVE  Same(m, Draw(m)) /\ KeepsBound(m, Draw(m))
<1>. DEFINE t  == m.ctx.dst
            m1 == Emit(m, t, DrawLen)
            d  == m1.drw[t]
            w  == Undrawn(d, m.ctx)
            e  == [d EXCEPT !.draws = @ \o w, !.pos = Len(d.vert)]
            m2 == DrawOf(m1, t, e)
            none == d.pos < Len(d.vert) /\ d.bound = NoImage
<1>1. Sound(m1) /\ m1.ctx = m.ctx /\ Same(m, m1) /\ KeepsBound(m, m1)
  BY EmitSound, EmitSame, LengthsAssumption
<1>2. Draw(m) = Blame(m2, "no shader", none)
  BY DEF Draw
<1>. HIDE DEF m1, none
<1>3. d \in DrawStates /\ Tiled(d) /\ m.ctx \in Contexts /\ m1 \in Machines
  BY <1>1 DEF Sound, Machines
<1>. HIDE DEF d
<1>4. e \in DrawStates
  BY <1>3, DrawnState
<1>5. /\ d.draws \in Seq(Draws) /\ Len(d.draws) \in Nat /\ d.pos = Len(d.draws)
      /\ Len(d.vert) \in Nat /\ d.pos <= Len(d.vert) /\ d.pos \in Nat
  BY <1>3, LenProperties DEF DrawStates, Tiled
<1>6. w \in Seq(Draws) /\ Len(w) = Len(d.vert) - d.pos
  BY <1>3, <1>5, UndrawnType
<1>7. \A j \in 1 .. Len(w) :
         w[j].dorg = m.ctx.dorg /\ w[j].sorg = m.ctx.sorg /\ w[j].with = d.bound
  BY <1>5, <1>6 DEF Undrawn
<1>8. /\ e.draws = d.draws \o w /\ e.pos = Len(d.vert) /\ e.vert = d.vert
      /\ e.bound = d.bound
  BY <1>3 DEF DrawStates
<1>. HIDE DEF w, e
<1>9. \A i \in 1 .. Len(d.draws) + Len(w) :
         e.draws[i] = IF i <= Len(d.draws) THEN d.draws[i] ELSE w[i - Len(d.draws)]
  BY <1>5, <1>6, <1>8, ConcatProperties
<1>10. Line(e, m.ctx) = Line(d, m.ctx)
  <2>1. SUFFICES ASSUME NEW i \in 1 .. Len(d.vert)
                 PROVE  Piece(e, m.ctx, i) = Piece(d, m.ctx, i)
    BY <1>8 DEF Line
  <2>2. i <= e.pos /\ i \in 1 .. Len(d.draws) + Len(w)
    BY <1>5, <1>6, <1>8
  <2>3. CASE i <= d.pos
    <3>1. e.draws[i] = d.draws[i]
      BY <1>5, <1>9, <2>2, <2>3
    <3>. QED  BY <1>8, <2>2, <2>3, <3>1 DEF Piece
  <2>4. CASE ~(i <= d.pos)
    <3>1. e.draws[i] = w[i - d.pos]
      BY <1>5, <1>9, <2>2, <2>4
    <3>2. i - d.pos \in 1 .. Len(w)
      BY <1>5, <1>6, <2>2, <2>4
    <3>3. /\ w[i - d.pos].dorg = m.ctx.dorg /\ w[i - d.pos].sorg = m.ctx.sorg
          /\ w[i - d.pos].with = d.bound
      BY <1>7, <3>2
    <3>. QED  BY <1>8, <2>2, <2>4, <3>1, <3>3 DEF Piece
  <2>. QED  BY <2>3, <2>4
<1>11. m2 \in Machines /\ m2.ctx = m.ctx /\ m2.drw = [m1.drw EXCEPT ![t] = e]
  BY <1>1, <1>3, <1>4, DrawOfMachine
<1>. HIDE DEF m2
<1>12. Draw(m).drw = m2.drw /\ Draw(m).ctx = m.ctx
  BY <1>2, <1>11 DEF Blame, Machines
<1>13. /\ Draw(m).drw[t] = e
       /\ \A u \in Targets \ {t} : Draw(m).drw[u] = m1.drw[u]
  BY <1>3, <1>11, <1>12 DEF Machines
<1>14. Same(m1, Draw(m)) /\ KeepsBound(m1, Draw(m))
  BY <1>1, <1>8, <1>10, <1>12, <1>13 DEF Same, KeepsBound, d
<1>15. KeepsBound(m, Draw(m))
  BY <1>1, <1>14 DEF KeepsBound
<1>. QED  BY <1>1, <1>14, <1>15, SameTransitive

\* What a call appends to the queue reaches as far as the stream did before it.
Queued(m, r) ==
    \/ r.queue = m.queue
    \/ \E b \in Batches : /\ r.queue = Append(m.queue, b)
                          /\ b.target \in Targets
                          /\ Len(m.drw[b.target].draws) <= b.size

LEMMA PadSame ==
  ASSUME NEW m, Sound(m), NEW t \in Targets
  PROVE  Same(m, Pad(m, t)) /\ KeepsBound(m, Pad(m, t))
<1>1. (Align - (m.drw[t].len % Align)) % Align \in Nat
  BY LengthsAssumption DEF Sound, Machines, DrawStates
<1>. QED  BY <1>1, EmitSame DEF Pad

LEMMA SubmitSame ==
  ASSUME NEW m, NEW fails, Sound(m), m.ctx.dst \in Targets
  PROVE  /\ Same(m, Submit(m, fails))
         /\ KeepsBound(m, Submit(m, fails))
         /\ Queued(m, Submit(m, fails))
<1>. DEFINE t  == m.ctx.dst
            m0 == Draw(m)
            m1 == Pad(m0, t)
            b  == [target |-> t, size |-> Len(m1.drw[t].draws), images |-> Listed(t)]
            m2 == [m1 EXCEPT !.queue = Append(@, b)]
<1>1. /\ Sound(m0) /\ m0.queue = m.queue /\ Grown(m.drw, m0.drw) /\ m0.ctx = m.ctx
      /\ Same(m, m0) /\ KeepsBound(m, m0)
  BY DrawSound, DrawSame
<1>. HIDE DEF m0
<1>2. /\ Sound(m1) /\ m1.queue = m0.queue /\ Grown(m0.drw, m1.drw) /\ m1.ctx = m.ctx
      /\ Same(m0, m1) /\ KeepsBound(m0, m1)
  BY <1>1, PadSound, PadSame
<1>3. Submit(m, fails) = IF "submit" \in fails THEN m1 ELSE m2
  BY DEF Submit, m0
<1>. HIDE DEF m1
<1>4. Same(m, m1) /\ KeepsBound(m, m1)
  BY <1>1, <1>2, SameTransitive DEF KeepsBound
<1>5. m.drw \in [Targets -> DrawStates] /\ m0.drw \in [Targets -> DrawStates]
      /\ m1.drw \in [Targets -> DrawStates]
  BY <1>1, <1>2 DEF Sound, Machines
<1>6. Grown(m.drw, m1.drw)
  BY <1>1, <1>2, <1>5, GrownTransitive
<1>7. b \in Batches /\ Len(m.drw[t].draws) <= b.size
  <2>1. Len(m1.drw[t].draws) \in Nat
    BY <1>5, LenProperties DEF DrawStates
  <2>2. t \in Images
    BY TargetsAssumption
  <2>. QED  BY <1>6, <2>1, <2>2 DEF Batches, Grown, Longer, Listed
<1>. HIDE DEF b
<1>8. m2.drw = m1.drw /\ m2.ctx = m1.ctx /\ m2.queue = Append(m.queue, b)
  BY <1>1, <1>2 DEF Sound, Machines
<1>9. b.target = t
  BY DEF b
<1>. HIDE DEF m2
<1>10. Same(m, m2) /\ KeepsBound(m, m2)
  BY <1>4, <1>8 DEF Same, KeepsBound
<1>11. Queued(m, m1) /\ Queued(m, m2)
  BY <1>1, <1>2, <1>7, <1>8, <1>9 DEF Queued
<1>. QED  BY <1>3, <1>4, <1>10, <1>11

LEMMA BindSame ==
  ASSUME NEW m, Sound(m), NEW t \in Targets, NEW src \in Sources, Drawn(m.drw[t])
  PROVE  /\ Same(m, Bind(m, t, src))
         /\ Bind(m, t, src).drw[t].bound = src
         /\ Bind(m, t, src).queue = m.queue
         /\ Bind(m, t, src).ctx = m.ctx
<1>. DEFINE m1 == Emit(m, t, BindLen)
            d  == m1.drw[t]
            e  == [d EXCEPT !.bound = src]
            r  == DrawOf(m1, t, e)
<1>1. /\ Sound(m1) /\ m1.ctx = m.ctx /\ m1.queue = m.queue /\ Same(m, m1)
      /\ \A u : DrawnBut(m, u) => DrawnBut(m1, u)
  BY EmitSound, EmitSame, LengthsAssumption
<1>2. Bind(m, t, src) = r
  BY DEF Bind
<1>3. Drawn(d)
  <2>. DEFINE e0 == [m.drw[t] EXCEPT !.len = @ + BindLen]
  <2>1. m.drw[t] \in DrawStates /\ m \in Machines
    BY DEF Sound, Machines
  <2>2. e0 \in DrawStates /\ e0.vert = m.drw[t].vert /\ e0.pos = m.drw[t].pos
    BY <2>1, MoreWords, LengthsAssumption
  <2>. HIDE DEF e0
  <2>3. DrawOf(m, t, e0) \in Machines /\ DrawOf(m, t, e0).drw = [m.drw EXCEPT ![t] = e0]
    BY <2>1, <2>2, DrawOfMachine
  <2>4. m1 = Blame(DrawOf(m, t, e0), "stream overrun", m.drw[t].len + BindLen > StreamCap)
    BY DEF Emit, e0
  <2>5. m1.drw[t] = e0
    <3>1. m1.drw = DrawOf(m, t, e0).drw
      BY <2>3, <2>4 DEF Blame, Machines
    <3>. HIDE DEF m1
    <3>. QED  BY <2>1, <2>3, <3>1 DEF Machines
  <2>. QED  BY <2>2, <2>5 DEF Drawn
<1>. HIDE DEF m1
<1>4. d \in DrawStates /\ m1 \in Machines /\ m1.drw \in [Targets -> DrawStates]
  BY <1>1 DEF Sound, Machines
<1>5. e \in DrawStates /\ e.draws = d.draws /\ e.vert = d.vert /\ e.pos = d.pos /\ e.bound = src
  <2>. HIDE DEF d
  <2>. QED  BY <1>4 DEF DrawStates
<1>. HIDE DEF e
<1>6. r.ctx = m1.ctx /\ r.queue = m1.queue /\ r.drw = [m1.drw EXCEPT ![t] = e]
  BY <1>4, <1>5, DrawOfMachine
<1>. HIDE DEF r
<1>7. Line(r.drw[t], r.ctx) = Line(m1.drw[t], m1.ctx)
  BY <1>3, <1>4, <1>5, <1>6, LineOfDrawn
<1>8. Same(m1, r)
  BY <1>4, <1>5, <1>6, <1>7 DEF Same
<1>. QED  BY <1>1, <1>2, <1>4, <1>5, <1>6, <1>8, SameTransitive

LEMMA PreambleSame ==
  ASSUME NEW m, Sound(m), NEW t \in Targets
  PROVE  /\ Same(m, Preamble(m, t)) /\ KeepsBound(m, Preamble(m, t))
         /\ Preamble(m, t).queue = m.queue /\ Preamble(m, t).ctx = m.ctx
  BY EmitSame, EmitSound, LengthsAssumption DEF Preamble

LEMMA ForgetSame ==
  ASSUME NEW m, Sound(m)
  PROVE  LET r == ForgetSource(m)
         IN  /\ Same(m, r) /\ KeepsBound(m, r)
             /\ r.queue = m.queue /\ r.drw = m.drw
             /\ r.ctx.src = NoImage /\ r.ctx.dst = m.ctx.dst
<1>. DEFINE r == ForgetSource(m)
<1>1. /\ r.queue = m.queue /\ r.drw = m.drw
      /\ r.ctx.src = NoImage /\ r.ctx.dst = m.ctx.dst
      /\ r.ctx.dorg = m.ctx.dorg /\ r.ctx.sorg = m.ctx.sorg
  BY DEF ForgetSource, Sound, Machines, Contexts
<1>2. \A u \in Targets : Line(r.drw[u], r.ctx) = Line(m.drw[u], m.ctx)
  BY <1>1, LineSame
<1>. HIDE DEF r
<1>3. Same(m, r) /\ KeepsBound(m, r)
  BY <1>1, <1>2 DEF Same, KeepsBound
<1>. QED  BY <1>1, <1>3 DEF r

AllDrawn(m) == \A t \in Targets : Drawn(m.drw[t])

LEMMA SelectSourceSame ==
  ASSUME NEW m, Sound(m), NEW dst \in Targets, NEW src \in Sources \cup {NoImage},
         DrawnBut(m, m.ctx.dst)
  PROVE  LET r == SelectSource(m, dst, src)
         IN  /\ Same(m, r.m) /\ r.m.queue = m.queue /\ r.m.ctx = m.ctx
             /\ src = m.ctx.src => r.m = m /\ r.ret = 0
             /\ r.ret = -1 => KeepsBound(m, r.m)
             /\ src # m.ctx.src => AllDrawn(r.m)
             /\ r.ret = 0 /\ src # m.ctx.src => r.m.drw[dst].bound = src
<1>. DEFINE r  == SelectSource(m, dst, src)
            m1 == IF m.ctx.dst # NoImage THEN Draw(m) ELSE m
            m2 == Blame(m1, "NULL source", TRUE)
<1>1. CASE src = m.ctx.src
  BY <1>1 DEF SelectSource, Return, Same, KeepsBound
<1>2. CASE src # m.ctx.src
  <2>1. NoImage \notin Targets
    BY ImagesAssumption, TargetsAssumption
  <2>2. /\ Sound(m1) /\ m1.ctx = m.ctx /\ m1.queue = m.queue
        /\ Same(m, m1) /\ KeepsBound(m, m1) /\ AllDrawn(m1)
    <3>1. CASE m.ctx.dst = NoImage
      BY <2>1, <3>1 DEF AllDrawn, DrawnBut, Same, KeepsBound
    <3>2. CASE m.ctx.dst # NoImage
      <4>1. m.ctx.dst \in Targets /\ m1 = Draw(m)
        BY <3>2 DEF Sound
      <4>. QED  BY <4>1, DrawSound, DrawSame DEF AllDrawn, DrawnBut
    <3>. QED  BY <3>1, <3>2
  <2>3. r = IF src = NoImage THEN Return(m2, -1) ELSE Return(Bind(m1, dst, src), 0)
    BY <1>2 DEF SelectSource
  <2>. HIDE DEF r, m1
  <2>4. CASE src = NoImage
    <3>1. m2.ctx = m1.ctx /\ m2.queue = m1.queue /\ m2.drw = m1.drw
      BY <2>2, BlameSound DEF Misuses
    <3>. HIDE DEF m2
    <3>2. Same(m1, m2) /\ KeepsBound(m1, m2) /\ AllDrawn(m2)
      BY <2>2, <3>1 DEF Same, KeepsBound, AllDrawn
    <3>3. Same(m, m2) /\ KeepsBound(m, m2)
      BY <2>2, <3>2, SameTransitive DEF KeepsBound
    <3>4. r.m = m2 /\ r.ret = -1
      BY <2>3, <2>4 DEF Return
    <3>. QED  BY <1>2, <2>2, <3>1, <3>2, <3>3, <3>4 DEF r
  <2>5. CASE src # NoImage
    <3>. DEFINE q == Bind(m1, dst, src)
    <3>1. src \in Sources /\ Drawn(m1.drw[dst])
      BY <2>2, <2>5 DEF AllDrawn
    <3>2. Same(m1, q) /\ q.drw[dst].bound = src /\ q.queue = m1.queue /\ q.ctx = m1.ctx
      BY <2>2, <3>1, BindSame
    <3>3. AllDrawn(q)
      <4>1. DrawnBut(m1, NoImage) => DrawnBut(q, NoImage)
        BY <2>2, <3>1, BindSound DEF Grew
      <4>. QED  BY <2>1, <2>2, <4>1 DEF DrawnBut, AllDrawn
    <3>4. r.m = q /\ r.ret = 0
      BY <2>3, <2>5 DEF Return
    <3>. HIDE DEF q
    <3>. QED  BY <1>2, <2>2, <3>2, <3>3, <3>4, SameTransitive DEF r
  <2>. QED  BY <2>4, <2>5
<1>. QED  BY <1>1, <1>2

\* What setup leaves of the strokes and of the bindings.
Kept(dst, src, r) ==
    /\ Same(State, r.m)
    /\ Queued(State, r.m)
    /\ r.m.ctx.src \in {ctx.src, NoImage}
    /\ r.ret = -1 => KeepsBound(State, r.m)
    /\ dst = ctx.dst /\ src = ctx.src => r.m = State
    /\ r.ret = 0 /\ (dst # ctx.dst \/ src # ctx.src) =>
          /\ AllDrawn(r.m)
          /\ dst \in Targets /\ src # NoImage => r.m.drw[dst].bound = src

LEMMA SetupSame ==
  ASSUME IInv, NEW dst \in Sources \cup {NoImage}, NEW src \in Sources \cup {NoImage},
         NEW msk, NEW fails
  PROVE  Kept(dst, src, Setup(dst, src, msk, fails))
<1>. DEFINE retarget == dst # ctx.dst
            m1 == IF ctx.dst # NoImage /\ retarget THEN Submit(State, fails) ELSE State
            m2 == ForgetSource(m1)
            m3 == Preamble(m2, dst)
            wild == dst \in Images /\ "garbage" \in fails
            r  == Setup(dst, src, msk, fails)
<1>. SUFFICES Kept(dst, src, r)
  OBVIOUS
<1>1. /\ Sound(State) /\ State.ctx = ctx /\ State.drw = drw /\ State.queue = queue
      /\ DrawnBut(State, ctx.dst) /\ ctx.dst \in Targets \cup {NoImage}
  BY IInvSound DEF IInv, TypeOK, State
<1>2. NoImage \notin Targets
  BY ImagesAssumption, TargetsAssumption
<1>3. Same(State, State) /\ KeepsBound(State, State) /\ Queued(State, State)
  BY DEF Same, KeepsBound, Queued
<1>4. /\ Sound(m1) /\ m1.ctx = ctx /\ Same(State, m1) /\ KeepsBound(State, m1)
      /\ Queued(State, m1) /\ DrawnBut(m1, ctx.dst)
      /\ retarget => AllDrawn(m1)
      /\ ~retarget => m1 = State
  <2>1. CASE ctx.dst # NoImage /\ retarget
    <3>1. m1 = Submit(State, fails) /\ State.ctx.dst \in Targets
      BY <1>1, <2>1
    <3>2. /\ Sound(m1) /\ m1.ctx = ctx /\ Same(State, m1) /\ KeepsBound(State, m1)
          /\ Queued(State, m1) /\ \A u : DrawnBut(m1, u)
      BY <1>1, <3>1, SubmitSound, SubmitSame
    <3>3. AllDrawn(m1)
      <4>1. DrawnBut(m1, NoImage)
        BY <3>2
      <4>. QED  BY <1>2, <4>1 DEF DrawnBut, AllDrawn
    <3>. QED  BY <2>1, <3>2, <3>3
  <2>2. CASE ~(ctx.dst # NoImage /\ retarget)
    <3>1. m1 = State
      BY <2>2
    <3>2. retarget => AllDrawn(State)
      BY <1>1, <1>2, <2>2 DEF DrawnBut, AllDrawn
    <3>. QED  BY <1>1, <1>3, <3>1, <3>2
  <2>. QED  BY <2>1, <2>2
<1>5. r =
        IF msk # NoImage THEN Return(State, -1)
        ELSE IF dst = NoImage THEN Return(m1, 0)
        ELSE IF dst \notin Targets THEN Return(Blame(m1, "wild draw", wild), -1)
        ELSE IF ~retarget THEN SelectSource(m1, dst, src)
        ELSE SelectSource(m3, dst, src)
  BY DEF Setup
<1>. HIDE DEF m1, r
<1>6. CASE msk # NoImage
  <2>1. r.m = State /\ r.ret = -1
    BY <1>5, <1>6 DEF Return
  <2>. QED  BY <1>1, <1>3, <2>1 DEF Kept
<1>7. CASE msk = NoImage /\ dst = NoImage
  <2>1. r.m = m1 /\ r.ret = 0
    BY <1>5, <1>7 DEF Return
  <2>2. ~retarget => AllDrawn(m1)
    BY <1>2, <1>4, <1>7 DEF AllDrawn, DrawnBut
  <2>. QED  BY <1>2, <1>4, <1>7, <2>1, <2>2 DEF Kept
<1>8. CASE msk = NoImage /\ dst # NoImage /\ dst \notin Targets
  <2>. DEFINE q == Blame(m1, "wild draw", wild)
  <2>1. q.ctx = m1.ctx /\ q.queue = m1.queue /\ q.drw = m1.drw
    BY <1>4, BlameSound DEF Misuses
  <2>2. r.m = q /\ r.ret = -1
    BY <1>5, <1>8 DEF Return
  <2>. HIDE DEF q
  <2>3. Same(State, q) /\ KeepsBound(State, q) /\ Queued(State, q)
    BY <1>4, <2>1 DEF Same, KeepsBound, Queued
  <2>4. dst # ctx.dst
    BY <1>1, <1>8
  <2>. QED  BY <1>4, <2>1, <2>2, <2>3, <2>4 DEF Kept
<1>9. CASE msk = NoImage /\ dst \in Targets /\ ~retarget
  <2>1. r = SelectSource(State, dst, src)
    BY <1>2, <1>4, <1>5, <1>9
  <2>. HIDE DEF State
  <2>2. /\ Same(State, r.m) /\ r.m.queue = State.queue /\ r.m.ctx = State.ctx
        /\ src = State.ctx.src => r.m = State /\ r.ret = 0
        /\ r.ret = -1 => KeepsBound(State, r.m)
        /\ src # State.ctx.src => AllDrawn(r.m)
        /\ r.ret = 0 /\ src # State.ctx.src => r.m.drw[dst].bound = src
    BY <1>1, <1>9, <2>1, SelectSourceSame
  <2>3. Queued(State, r.m)
    BY <2>2 DEF Queued
  <2>. QED  BY <1>1, <1>3, <1>9, <2>2, <2>3 DEF Kept
<1>10. CASE msk = NoImage /\ dst \in Targets /\ retarget
  <2>1. /\ Sound(m2) /\ Same(m1, m2) /\ KeepsBound(m1, m2) /\ m2.queue = m1.queue
        /\ m2.ctx.src = NoImage /\ m2.ctx.dst = ctx.dst /\ DrawnBut(m2, NoImage)
    <3>1. Grew(m1, m2) /\ DrawnBut(m1, NoImage)
      BY <1>4, <1>10, ForgetSound DEF AllDrawn, DrawnBut
    <3>. QED  BY <1>4, <3>1, ForgetSame DEF Grew
  <2>. HIDE DEF m2
  <2>2. /\ Sound(m3) /\ Same(m2, m3) /\ KeepsBound(m2, m3) /\ m3.queue = m2.queue
        /\ m3.ctx = m2.ctx /\ DrawnBut(m3, NoImage)
    BY <1>10, <2>1, PreambleSound, PreambleSame DEF Grew
  <2>. HIDE DEF m3
  <2>3. r = SelectSource(m3, dst, src)
    BY <1>2, <1>5, <1>10
  <2>4. AllDrawn(m3) /\ DrawnBut(m3, m3.ctx.dst)
    BY <1>2, <2>2 DEF AllDrawn, DrawnBut
  <2>5. /\ Same(m3, r.m) /\ r.m.queue = m3.queue /\ r.m.ctx = m3.ctx
        /\ src = m3.ctx.src => r.m = m3 /\ r.ret = 0
        /\ r.ret = -1 => KeepsBound(m3, r.m)
        /\ src # m3.ctx.src => AllDrawn(r.m)
        /\ r.ret = 0 /\ src # m3.ctx.src => r.m.drw[dst].bound = src
    BY <1>10, <2>2, <2>3, <2>4, SelectSourceSame
  <2>6. Same(State, r.m)
    BY <1>4, <2>1, <2>2, <2>5, SameTransitive
  <2>7. Queued(State, r.m)
    BY <1>4, <2>1, <2>2, <2>5 DEF Queued
  <2>8. r.ret = -1 => KeepsBound(State, r.m)
    BY <1>4, <2>1, <2>2, <2>5 DEF KeepsBound
  <2>9. r.m.ctx.src = NoImage /\ AllDrawn(r.m)
    BY <2>1, <2>2, <2>4, <2>5
  <2>. QED  BY <1>10, <2>1, <2>2, <2>5, <2>6, <2>7, <2>8, <2>9 DEF Kept
<1>. QED  BY <1>6, <1>7, <1>8, <1>9, <1>10

-----------------------------------------------------------------------------
(* The strokes of the abstract specification.                              *)

LEMMA StrokesAreLine == IInv => \A t \in Targets : AllStrokes(t) = Line(drw[t], ctx)
<1>. SUFFICES ASSUME IInv, NEW t \in Targets PROVE AllStrokes(t) = Line(drw[t], ctx)
  OBVIOUS
<1>. DEFINE d == drw[t]
            w == IF t = ctx.dst THEN Undrawn(d, ctx) ELSE <<>>
            u == d.draws \o w
<1>1. d \in DrawStates /\ Tiled(d) /\ (t # ctx.dst => Drawn(d)) /\ ctx \in Contexts
  BY DEF IInv, TypeOK, DrawsTile
<1>. HIDE DEF d
<1>2. /\ d.draws \in Seq(Draws) /\ Len(d.draws) \in Nat /\ d.pos = Len(d.draws)
      /\ Len(d.vert) \in Nat /\ d.pos <= Len(d.vert) /\ d.pos \in Nat
      /\ \A i \in 1 .. Len(d.draws) : d.draws[i].slot = i
  BY <1>1, LenProperties DEF DrawStates, Tiled
<1>3. w \in Seq(Draws) /\ Len(w) = Len(d.vert) - d.pos
  <2>1. CASE t = ctx.dst
    BY <1>1, <1>2, <2>1, UndrawnType
  <2>2. CASE t # ctx.dst
    <3>1. w = <<>> /\ d.pos = Len(d.vert)
      BY <1>1, <2>2 DEF Drawn
    <3>2. <<>> \in Seq(Draws) /\ Len(<<>>) = 0
      BY EmptySeq
    <3>3. Len(d.vert) - d.pos = 0
      BY <1>2, <3>1
    <3>. HIDE DEF w
    <3>. QED  BY <3>1, <3>2, <3>3
  <2>. QED  BY <2>1, <2>2
<1>4. \A j \in 1 .. Len(w) : /\ w[j].slot = d.pos + j
                             /\ w[j].dorg = ctx.dorg /\ w[j].sorg = ctx.sorg
                             /\ w[j].with = d.bound
  <2>1. CASE t = ctx.dst
    BY <1>2, <1>3, <2>1 DEF Undrawn
  <2>2. CASE t # ctx.dst
    <3>1. w = <<>>
      BY <2>2
    <3>2. Len(w) = 0
      BY <3>1, EmptySeq
    <3>. QED  BY <3>2
  <2>. QED  BY <2>1, <2>2
<1>. HIDE DEF w
<1>5. /\ Len(u) = Len(d.vert)
      /\ \A i \in 1 .. Len(d.vert) :
            u[i] = IF i <= Len(d.draws) THEN d.draws[i] ELSE w[i - Len(d.draws)]
  BY <1>2, <1>3, ConcatProperties
<1>. HIDE DEF u
<1>6. \A i \in 1 .. Len(d.vert) :
         [rect |-> d.vert[u[i].slot], dorg |-> u[i].dorg, sorg |-> u[i].sorg, src |-> u[i].with]
            = Piece(d, ctx, i)
  <2>. SUFFICES ASSUME NEW i \in 1 .. Len(d.vert)
                PROVE  [rect |-> d.vert[u[i].slot], dorg |-> u[i].dorg, sorg |-> u[i].sorg,
                        src |-> u[i].with] = Piece(d, ctx, i)
    OBVIOUS
  <2>1. CASE i <= d.pos
    <3>1. i \in 1 .. Len(d.draws) /\ u[i] = d.draws[i]
      BY <1>2, <1>5, <2>1
    <3>. QED  BY <1>2, <2>1, <3>1 DEF Piece
  <2>2. CASE ~(i <= d.pos)
    <3>1. i - d.pos \in 1 .. Len(w) /\ ~(i <= Len(d.draws)) /\ d.pos + (i - d.pos) = i
      BY <1>2, <1>3, <2>2
    <3>2. u[i] = w[i - d.pos]
      BY <1>2, <1>5, <3>1
    <3>3. u[i].slot = i
      BY <1>4, <3>1, <3>2
    <3>. QED  BY <1>4, <2>2, <3>1, <3>2, <3>3 DEF Piece
  <2>. QED  BY <2>1, <2>2
<1>7. AllStrokes(t) = [i \in 1 .. Len(u) |->
         [rect |-> d.vert[u[i].slot], dorg |-> u[i].dorg, sorg |-> u[i].sorg, src |-> u[i].with]]
  BY DEF AllStrokes, Strokes, Stroke, u, w, d
<1>8. AllStrokes(t) = [i \in 1 .. Len(d.vert) |-> Piece(d, ctx, i)]
  BY <1>5, <1>6, <1>7
<1>. QED  BY <1>8 DEF Line, d

LEMMA LineAt ==
  IInv => \A t \in Targets :
            /\ Len(drw[t].vert) \in Nat /\ done[t] \in Nat /\ done[t] <= Len(drw[t].vert)
            /\ Line(drw[t], ctx) \in Seq(Pieces) /\ Len(Line(drw[t], ctx)) = Len(drw[t].vert)
            /\ \A i \in 1 .. Len(drw[t].vert) : Line(drw[t], ctx)[i] = Piece(drw[t], ctx, i)
<1>. SUFFICES ASSUME IInv, NEW t \in Targets
              PROVE  /\ Len(drw[t].vert) \in Nat /\ done[t] \in Nat
                     /\ done[t] <= Len(drw[t].vert)
                     /\ Line(drw[t], ctx) \in Seq(Pieces)
                     /\ Len(Line(drw[t], ctx)) = Len(drw[t].vert)
                     /\ \A i \in 1 .. Len(drw[t].vert) :
                           Line(drw[t], ctx)[i] = Piece(drw[t], ctx, i)
  OBVIOUS
<1>1. drw[t] \in DrawStates /\ Tiled(drw[t]) /\ ctx \in Contexts
      /\ done[t] \in Nat /\ done[t] <= Len(drw[t].draws)
  BY DEF IInv, TypeOK, DrawsTile
<1>2. Len(drw[t].draws) \in Nat /\ Len(drw[t].draws) <= Len(drw[t].vert)
  BY <1>1, LenProperties DEF DrawStates, Tiled
<1>. QED  BY <1>1, <1>2, LineType

\* The first part of a sequence goes, or what comes later is added.
LEMMA Rest ==
  ASSUME NEW S, NEW s \in Seq(S), NEW n \in Nat, n <= Len(s)
  PROVE  /\ SubSeq(s, n + 1, Len(s)) \in Seq(S)
         /\ Len(SubSeq(s, n + 1, Len(s))) = Len(s) - n
         /\ \A i \in 1 .. Len(s) - n : SubSeq(s, n + 1, Len(s))[i] = s[n + i]
<1>1. Len(s) \in Nat /\ \A i \in n + 1 .. Len(s) : s[i] \in S
  <2>1. Len(s) \in Nat
    BY LenProperties
  <2>2. \A i \in n + 1 .. Len(s) : i \in 1 .. Len(s)
    BY <2>1
  <2>. QED  BY <2>1, <2>2, ElementOfSeq
<1>2. /\ SubSeq(s, n + 1, Len(s)) \in Seq(S)
      /\ Len(SubSeq(s, n + 1, Len(s))) = IF n + 1 <= Len(s) THEN Len(s) - (n + 1) + 1 ELSE 0
      /\ \A i \in 1 .. Len(s) - (n + 1) + 1 : SubSeq(s, n + 1, Len(s))[i] = s[n + 1 + i - 1]
  BY <1>1, SubSeqProperties
<1>3. Len(s) - (n + 1) + 1 = Len(s) - n
  BY <1>1
<1>4. Len(SubSeq(s, n + 1, Len(s))) = Len(s) - n
  BY <1>1, <1>2
<1>5. ASSUME NEW i \in 1 .. Len(s) - n
      PROVE  SubSeq(s, n + 1, Len(s))[i] = s[n + i]
  <2>1. n + 1 + i - 1 = n + i
    BY <1>1
  <2>. QED  BY <1>2, <1>3, <2>1
<1>. QED  BY <1>2, <1>4, <1>5

LEMMA FirstOf ==
  ASSUME NEW S, NEW s \in Seq(S), NEW n \in Nat, n <= Len(s)
  PROVE  /\ SubSeq(s, 1, n) \in Seq(S)
         /\ Len(SubSeq(s, 1, n)) = n
         /\ \A i \in 1 .. n : SubSeq(s, 1, n)[i] = s[i]
<1>1. Len(s) \in Nat /\ \A i \in 1 .. n : s[i] \in S
  <2>1. Len(s) \in Nat
    BY LenProperties
  <2>2. \A i \in 1 .. n : i \in 1 .. Len(s)
    BY <2>1
  <2>. QED  BY <2>1, <2>2, ElementOfSeq
<1>. QED  BY <1>1, SubSeqProperties

LEMMA RestConcat ==
  ASSUME NEW S, NEW s \in Seq(S), NEW u \in Seq(S), NEW n \in Nat, n <= Len(s)
  PROVE  SubSeq(s \o u, n + 1, Len(s \o u)) = SubSeq(s, n + 1, Len(s)) \o u
<1>. DEFINE v == s \o u
            a == SubSeq(v, n + 1, Len(v))
            b == SubSeq(s, n + 1, Len(s))
            c == b \o u
<1>1. Len(s) \in Nat /\ Len(u) \in Nat
  BY LenProperties
<1>2. /\ v \in Seq(S) /\ Len(v) = Len(s) + Len(u)
      /\ \A i \in 1 .. Len(s) + Len(u) : v[i] = IF i <= Len(s) THEN s[i] ELSE u[i - Len(s)]
  BY ConcatProperties
<1>. HIDE DEF v
<1>3. /\ a \in Seq(S) /\ Len(a) = Len(v) - n
      /\ \A i \in 1 .. Len(v) - n : a[i] = v[n + i]
  BY <1>1, <1>2, Rest
<1>4. /\ b \in Seq(S) /\ Len(b) = Len(s) - n
      /\ \A i \in 1 .. Len(s) - n : b[i] = s[n + i]
  BY Rest
<1>. HIDE DEF a, b
<1>5. /\ c \in Seq(S) /\ Len(c) = Len(b) + Len(u)
      /\ \A i \in 1 .. Len(b) + Len(u) : c[i] = IF i <= Len(b) THEN b[i] ELSE u[i - Len(b)]
  BY <1>4, ConcatProperties
<1>. HIDE DEF c
<1>6. Len(a) = Len(c) /\ Len(a) = Len(s) + Len(u) - n
  BY <1>1, <1>2, <1>3, <1>4, <1>5
<1>7. ASSUME NEW i \in 1 .. Len(a) PROVE a[i] = c[i]
  <2>1. a[i] = v[n + i] /\ n + i \in 1 .. Len(s) + Len(u)
    BY <1>1, <1>2, <1>3, <1>6
  <2>2. i \in 1 .. Len(b) + Len(u) /\ i \in Int
    BY <1>1, <1>4, <1>6
  <2>3. CASE n + i <= Len(s)
    <3>1. i <= Len(b) /\ i \in 1 .. Len(s) - n
      BY <1>1, <1>4, <2>2, <2>3
    <3>. QED  BY <1>2, <1>4, <1>5, <2>1, <2>2, <2>3, <3>1
  <2>4. CASE ~(n + i <= Len(s))
    <3>1. ~(i <= Len(b)) /\ i - Len(b) = n + i - Len(s)
      BY <1>1, <1>4, <2>2, <2>4
    <3>. QED  BY <1>2, <1>5, <2>1, <2>2, <2>4, <3>1
  <2>. QED  BY <2>3, <2>4
<1>. QED  BY <1>3, <1>5, <1>6, <1>7, SeqEqual DEF a, b, c, v

LEMMA RestOfRest ==
  ASSUME NEW S, NEW s \in Seq(S), NEW n \in Nat, NEW o \in Nat, n <= o, o <= Len(s)
  PROVE  LET a == SubSeq(s, n + 1, Len(s))
         IN  /\ SubSeq(a, (o - n) + 1, Len(a)) = SubSeq(s, o + 1, Len(s))
             /\ o - n \in 0 .. Len(a)
<1>. DEFINE a == SubSeq(s, n + 1, Len(s))
            b == SubSeq(a, (o - n) + 1, Len(a))
            c == SubSeq(s, o + 1, Len(s))
<1>1. Len(s) \in Nat /\ n <= Len(s) /\ o - n \in Nat
  BY LenProperties
<1>2. /\ a \in Seq(S) /\ Len(a) = Len(s) - n
      /\ \A i \in 1 .. Len(s) - n : a[i] = s[n + i]
  BY <1>1, Rest
<1>. HIDE DEF a
<1>3. o - n <= Len(a)
  BY <1>1, <1>2
<1>4. /\ b \in Seq(S) /\ Len(b) = Len(a) - (o - n)
      /\ \A i \in 1 .. Len(a) - (o - n) : b[i] = a[o - n + i]
  BY <1>1, <1>2, <1>3, Rest
<1>5. /\ c \in Seq(S) /\ Len(c) = Len(s) - o
      /\ \A i \in 1 .. Len(s) - o : c[i] = s[o + i]
  BY Rest
<1>. HIDE DEF b, c
<1>6. Len(b) = Len(c)
  BY <1>1, <1>2, <1>4, <1>5
<1>7. ASSUME NEW i \in 1 .. Len(b) PROVE b[i] = c[i]
  <2>1. b[i] = a[o - n + i] /\ o - n + i \in 1 .. Len(s) - n /\ i \in 1 .. Len(s) - o
    BY <1>1, <1>2, <1>4, <1>5, <1>6
  <2>2. a[o - n + i] = s[n + (o - n + i)] /\ n + (o - n + i) = o + i
    BY <1>2, <2>1
  <2>. QED  BY <1>5, <2>1, <2>2
<1>8. b = c
  BY <1>4, <1>5, <1>6, <1>7, SeqEqual
<1>. QED  BY <1>1, <1>3, <1>8 DEF a, b, c

\* An image shows the first n strokes of a line: no cell would change if they
\* were painted once more.
Showing(image, line, n) ==
    \A c \in Cells : \A i \in 1 .. n :
        /\ c \in Covered(line[i])
        /\ \A j \in i + 1 .. n : c \notin Covered(line[j])
        => image[c] = Paint(line[i])

\* The first n strokes are painted where the first o of them are shown.  It
\* makes no difference that these are painted again.
LEMMA PaintAgain ==
  ASSUME NEW S, NEW line \in Seq(S), NEW o \in Nat, NEW n \in Nat, o <= n, n <= Len(line),
         NEW image, Showing(image, line, o)
  PROVE  LET first == SubSeq(line, 1, n)
             new   == SubSeq(SubSeq(line, o + 1, Len(line)), 1, n - o)
         IN  /\ Under(image, first) = Under(image, new)
             /\ Showing(Under(image, first), line, n)
<1>. DEFINE first == SubSeq(line, 1, n)
            rest  == SubSeq(line, o + 1, Len(line))
            new   == SubSeq(rest, 1, n - o)
<1>1. Len(line) \in Nat /\ o <= Len(line) /\ n - o \in Nat
  BY LenProperties
<1>2. /\ Len(first) = n /\ Len(first) \in Nat
      /\ \A i \in 1 .. n : first[i] = line[i]
  BY FirstOf
<1>3. /\ rest \in Seq(S) /\ Len(rest) = Len(line) - o
      /\ \A i \in 1 .. Len(line) - o : rest[i] = line[o + i]
  BY <1>1, Rest
<1>. HIDE DEF rest
<1>4. /\ Len(new) = n - o /\ Len(new) \in Nat
      /\ \A i \in 1 .. n - o : new[i] = line[o + i]
  <2>1. n - o <= Len(rest) /\ \A i \in 1 .. n - o : i \in 1 .. Len(line) - o
    BY <1>1, <1>3
  <2>2. Len(new) = n - o /\ \A i \in 1 .. n - o : new[i] = rest[i]
    BY <1>1, <1>3, <2>1, FirstOf
  <2>. QED  BY <1>1, <1>3, <2>1, <2>2
<1>. HIDE DEF first, new
<1>5. ASSUME NEW c \in Cells PROVE Under(image, first)[c] = Under(image, new)[c]
  <2>. DEFINE over == {i \in 1 .. n : c \in Covered(line[i])}
  <2>1. CASE over = {}
    <3>1. \A i \in 1 .. Len(first) : c \notin Covered(first[i])
      BY <1>2, <2>1
    <3>2. \A i \in 1 .. Len(new) : c \notin Covered(new[i])
      <4>1. SUFFICES ASSUME NEW i \in 1 .. Len(new) PROVE c \notin Covered(new[i])
        OBVIOUS
      <4>2. new[i] = line[o + i] /\ o + i \in 1 .. n
        BY <1>4
      <4>. QED  BY <2>1, <4>2
    <3>. QED  BY <1>2, <1>4, <3>1, <3>2, UnderAt
  <2>2. CASE over # {}
    <3>. DEFINE l == Last(over)
    <3>1. l \in over /\ \A j \in over : j <= l
      BY <2>2, LastExists
    <3>2. l \in 1 .. n /\ c \in Covered(line[l]) /\ \A j \in 1 .. n : c \in Covered(line[j]) => j <= l
      BY <3>1
    <3>. HIDE DEF l, over
    <3>3. l \in Nat /\ \A j \in l + 1 .. n : c \notin Covered(line[j])
      BY <3>2
    <3>4. Under(image, first)[c] = Paint(line[l])
      <4>1. c \in Covered(first[l]) /\ \A j \in l + 1 .. Len(first) : c \notin Covered(first[j])
        <5>1. \A j \in l + 1 .. n : j \in 1 .. n
          BY <3>2
        <5>. QED  BY <1>2, <3>2, <3>3, <5>1
      <4>. QED  BY <1>2, <3>2, <4>1, UnderAt
    <3>5. CASE l > o
      <4>1. l - o \in 1 .. n - o /\ o + (l - o) = l /\ l - o \in Nat
        BY <3>2, <3>5
      <4>2. new[l - o] = line[l]
        BY <1>4, <4>1
      <4>3. \A j \in (l - o) + 1 .. n - o : c \notin Covered(new[j])
        <5>1. \A j \in (l - o) + 1 .. n - o : j \in 1 .. n - o /\ o + j \in l + 1 .. n
          BY <4>1
        <5>. QED  BY <1>4, <3>3, <5>1
      <4>. DEFINE k == l - o
      <4>4. /\ k \in 1 .. Len(new) /\ c \in Covered(new[k])
            /\ \A j \in k + 1 .. Len(new) : c \notin Covered(new[j])
        BY <1>4, <3>2, <4>1, <4>2, <4>3
      <4>. HIDE DEF k
      <4>5. Under(image, new)[c] = Paint(new[k])
        BY <1>4, <4>4, UnderAt
      <4>. QED  BY <3>4, <4>2, <4>5 DEF k
    <3>6. CASE ~(l > o)
      <4>1. \A i \in 1 .. Len(new) : c \notin Covered(new[i])
        <5>1. \A i \in 1 .. n - o : o + i \in l + 1 .. n
          BY <3>2, <3>6
        <5>. QED  BY <1>4, <3>3, <5>1
      <4>2. Under(image, new)[c] = image[c]
        BY <1>4, <4>1, UnderAt
      <4>3. l \in 1 .. o /\ \A j \in l + 1 .. o : j \in l + 1 .. n
        BY <3>2, <3>6
      <4>4. image[c] = Paint(line[l])
        BY <3>2, <3>3, <4>3 DEF Showing
      <4>. QED  BY <3>4, <4>2, <4>4
    <3>. QED  BY <3>5, <3>6
  <2>. QED  BY <2>1, <2>2
<1>6. Under(image, first) = Under(image, new)
  <2>1. /\ Under(image, first) = [c \in Cells |-> Under(image, first)[c]]
        /\ Under(image, new) = [c \in Cells |-> Under(image, new)[c]]
    BY DEF Under
  <2>. QED  BY <1>5, <2>1
<1>7. Showing(Under(image, first), line, n)
  <2>1. SUFFICES ASSUME NEW c \in Cells, NEW i \in 1 .. n, c \in Covered(line[i]),
                        \A j \in i + 1 .. n : c \notin Covered(line[j])
                 PROVE  Under(image, first)[c] = Paint(line[i])
    BY DEF Showing
  <2>2. \A j \in i + 1 .. n : j \in 1 .. n
    OBVIOUS
  <2>3. c \in Covered(first[i]) /\ \A j \in i + 1 .. Len(first) : c \notin Covered(first[j])
    BY <1>2, <2>1, <2>2
  <2>. QED  BY <1>2, <2>3, UnderAt
<1>. QED  BY <1>6, <1>7 DEF first, new, rest

-----------------------------------------------------------------------------
(* The back end implements Canvas.                                         *)

\* The client names the source again, changes an origin only with its image or
\* with nothing pending, and draws one rectangle with a call.
Attentive == {"source", "origin", "alike"} \subseteq Rules

\* What ctx holds is what the client asked for last; the source may be
\* forgotten, but then it is still bound.
Mine ==
    /\ pen \in Pens
    /\ pen.dst = ctx.dst /\ pen.dorg = ctx.dorg /\ pen.sorg = ctx.sorg
    /\ ctx.src \in {pen.src, NoImage}
    /\ ctx.dst \in Targets /\ pen.src # NoImage => drw[ctx.dst].bound = pen.src

\* No submission goes back behind one before it.
InOrder ==
    /\ \A k \in 1 .. Len(queue) : done[queue[k].target] <= queue[k].size
    /\ \A k \in 1 .. Len(queue) : \A l \in 1 .. Len(queue) :
          k < l /\ queue[k].target = queue[l].target => queue[k].size <= queue[l].size

\* Each target shows the strokes ever executed.
Shown ==
    /\ canvas = [t \in Targets |-> canvas[t]]
    /\ \A t \in Targets : Showing(canvas[t], Line(drw[t], ctx), done[t])

PInv == IInv /\ Mine /\ InOrder /\ Shown

\* The strokes asked for stay, whatever was chosen.
Unmoved ==
    /\ canvas' = canvas /\ done' = done /\ pen'.rects = pen.rects
    /\ \A t \in Targets : Line(drw[t], ctx)' = Line(drw[t], ctx)

LEMMA QueuedInOrder ==
  ASSUME IInv, InOrder, NEW r, Queued(State, r), queue' = r.queue, done' = done
  PROVE  InOrder'
<1>1. queue \in Seq(Batches) /\ Len(queue) \in Nat /\ State.queue = queue /\ State.drw = drw
  BY LenProperties DEF IInv, TypeOK, State
<1>2. CASE r.queue = queue
  <2>1. queue' = queue
    BY <1>2
  <2>. QED  BY <2>1 DEF InOrder
<1>3. ASSUME NEW b \in Batches, r.queue = Append(queue, b), b.target \in Targets,
             Len(drw[b.target].draws) <= b.size
      PROVE  InOrder'
  <2>. DEFINE q == Append(queue, b)
  <2>1. /\ Len(q) = Len(queue) + 1 /\ q[Len(queue) + 1] = b
        /\ \A k \in 1 .. Len(queue) : q[k] = queue[k]
    BY <1>1, AppendProperties
  <2>2. \A k \in 1 .. Len(queue) : queue[k].size <= Len(drw[queue[k].target].draws)
    BY DEF IInv, TypeOK
  <2>3. Len(drw[b.target].draws) \in Nat /\ b.size \in Nat
        /\ done[b.target] <= Len(drw[b.target].draws) /\ done[b.target] \in Nat
    <3>1. drw[b.target] \in DrawStates
      BY <1>3 DEF IInv, TypeOK
    <3>. QED  BY <1>3, <3>1, LenProperties DEF IInv, TypeOK, DrawStates, Batches
  <2>4. queue' = q
    BY <1>3
  <2>. HIDE DEF q
  <2>5. \A k \in 1 .. Len(q) : k \in 1 .. Len(queue) \/ k = Len(queue) + 1
    BY <1>1, <2>1
  <2>6. \A k \in 1 .. Len(q) : done[q[k].target] <= q[k].size
    <3>1. SUFFICES ASSUME NEW k \in 1 .. Len(q) PROVE done[q[k].target] <= q[k].size
      OBVIOUS
    <3>2. CASE k \in 1 .. Len(queue)
      BY <2>1, <3>2 DEF InOrder
    <3>3. CASE k = Len(queue) + 1
      BY <1>3, <2>1, <2>3, <3>3
    <3>. QED  BY <2>5, <3>2, <3>3
  <2>7. ASSUME NEW k \in 1 .. Len(q), NEW l \in 1 .. Len(q), k < l, q[k].target = q[l].target
        PROVE  q[k].size <= q[l].size
    <3>1. k \in 1 .. Len(queue)
      BY <1>1, <2>1, <2>7
    <3>2. CASE l \in 1 .. Len(queue)
      BY <2>1, <2>7, <3>1, <3>2 DEF InOrder
    <3>3. CASE l = Len(queue) + 1
      <4>1. queue[k].target = b.target /\ q[k] = queue[k] /\ q[l] = b
        BY <2>1, <2>7, <3>1, <3>3
      <4>2. queue[k].size <= Len(drw[b.target].draws) /\ queue[k].size \in Nat
        <5>1. queue[k] \in Batches
          BY <1>1, <3>1, ElementOfSeq
        <5>. QED  BY <2>2, <3>1, <4>1, <5>1 DEF Batches
      <4>. QED  BY <1>3, <2>3, <4>1, <4>2
    <3>. QED  BY <2>5, <3>2, <3>3
  <2>. QED  BY <2>4, <2>6, <2>7 DEF InOrder
<1>. QED  BY <1>1, <1>2, <1>3 DEF Queued

LEMMA ChosenPaints ==
  ASSUME PInv, NEW r, NEW assigned, NEW chosen \in Pens, NEW dst, NEW src,
         Kept(dst, src, r), Chosen(dst, r), r.ret \in {0, -1},
         Finish(r, assigned, chosen), chosen.rects = pen.rects,
         r.ret = 0 =>
            /\ assigned.dst = dst /\ chosen.dst = dst
            /\ chosen.dorg = assigned.dorg /\ chosen.sorg = assigned.sorg
            /\ assigned.src \in {chosen.src, NoImage}
            /\ dst \in Targets /\ chosen.src # NoImage =>
                  IF dst = ctx.dst /\ src = ctx.src
                  THEN chosen.src = pen.src
                  ELSE src = chosen.src
            /\ \/ assigned.dorg = ctx.dorg /\ assigned.sorg = ctx.sorg
               \/ dst # ctx.dst \/ src # ctx.src \/ ~Pending
  PROVE  Mine' /\ InOrder' /\ Shown' /\ Unmoved
<1>1. /\ ctx' = IF r.ret < 0 THEN r.m.ctx ELSE assigned
      /\ pen' = IF r.ret < 0 THEN pen ELSE chosen
      /\ drw' = r.m.drw /\ queue' = r.m.queue /\ canvas' = canvas /\ done' = done
  BY DEF Finish
<1>2. /\ Same(State, r.m) /\ Queued(State, r.m) /\ State.ctx = ctx /\ State.drw = drw
      /\ r.m.ctx.dst = ctx.dst /\ r.m.ctx.src \in {ctx.src, NoImage} /\ Sound(r.m)
  BY DEF Kept, Chosen, State
<1>3. InOrder'
  BY <1>1, <1>2, QueuedInOrder DEF PInv
<1>4. Mine'
  <2>1. CASE r.ret = -1
    <3>1. ctx' = r.m.ctx /\ pen' = pen /\ KeepsBound(State, r.m)
      BY <1>1, <2>1 DEF Kept
    <3>2. /\ ctx'.dst = ctx.dst /\ ctx'.dorg = ctx.dorg /\ ctx'.sorg = ctx.sorg
          /\ ctx'.src \in {ctx.src, NoImage}
      BY <1>2, <3>1 DEF Same
    <3>3. \A t \in Targets : drw'[t].bound = drw[t].bound
      BY <1>1, <1>2, <3>1 DEF KeepsBound
    <3>. QED  BY <3>1, <3>2, <3>3 DEF PInv, Mine
  <2>2. CASE r.ret = 0
    <3>1. ctx' = assigned /\ pen' = chosen
      BY <1>1, <2>2
    <3>2. ASSUME dst \in Targets, chosen.src # NoImage
          PROVE  drw'[dst].bound = chosen.src
      <4>1. CASE dst = ctx.dst /\ src = ctx.src
        <5>1. drw' = drw
          BY <1>1, <1>2, <4>1 DEF Kept
        <5>. QED  BY <2>2, <3>2, <4>1, <5>1 DEF PInv, Mine
      <4>2. CASE ~(dst = ctx.dst /\ src = ctx.src)
        BY <1>1, <2>2, <3>2, <4>2 DEF Kept
      <4>. QED  BY <4>1, <4>2
    <3>. QED  BY <2>2, <3>1, <3>2 DEF Mine
  <2>. QED  BY <2>1, <2>2
<1>5. ASSUME NEW t \in Targets PROVE Line(drw'[t], ctx') = Line(drw[t], ctx)
  <2>1. Line(r.m.drw[t], r.m.ctx) = Line(drw[t], ctx)
    BY <1>2 DEF Same
  <2>2. CASE r.ret = -1
    BY <1>1, <2>1, <2>2
  <2>3. CASE r.ret = 0 /\ assigned.dorg = ctx.dorg /\ assigned.sorg = ctx.sorg
    <3>1. ctx' = assigned /\ r.m.ctx.dorg = ctx.dorg /\ r.m.ctx.sorg = ctx.sorg
      BY <1>1, <1>2, <2>3 DEF Same
    <3>2. Line(drw'[t], ctx') = Line(r.m.drw[t], r.m.ctx)
      BY <1>1, <2>3, <3>1, LineSame
    <3>. QED  BY <2>1, <3>2
  <2>4. CASE r.ret = 0 /\ (dst # ctx.dst \/ src # ctx.src \/ ~Pending)
    <3>1. Drawn(r.m.drw[t])
      <4>1. CASE dst # ctx.dst \/ src # ctx.src
        BY <2>4, <4>1 DEF Kept, AllDrawn
      <4>2. CASE dst = ctx.dst /\ src = ctx.src /\ ~Pending
        <5>1. r.m.drw = drw
          BY <1>2, <4>2 DEF Kept
        <5>2. drw[t] \in DrawStates /\ Tiled(drw[t]) /\ (t # ctx.dst => Drawn(drw[t]))
          BY DEF PInv, IInv, TypeOK, DrawsTile
        <5>3. drw[t].pos \in Nat /\ Len(drw[t].vert) \in Nat /\ drw[t].pos <= Len(drw[t].vert)
          BY <5>2, LenProperties DEF DrawStates, Tiled
        <5>4. t # NoImage
          BY ImagesAssumption, TargetsAssumption
        <5>. QED  BY <4>2, <5>1, <5>2, <5>3, <5>4 DEF Pending, Drawn
      <4>. QED  BY <2>4, <4>1, <4>2
    <3>2. r.m.drw[t] \in DrawStates
      BY <1>2 DEF Sound, Machines
    <3>3. Line(drw'[t], ctx') = Line(r.m.drw[t], r.m.ctx)
      BY <1>1, <3>1, <3>2, LineOfDrawn
    <3>. QED  BY <2>1, <3>3
  <2>. QED  BY <2>2, <2>3, <2>4
<1>6. pen'.rects = pen.rects
  BY <1>1
<1>7. Shown'
  BY <1>1, <1>5 DEF PInv, Shown
<1>. QED  BY <1>1, <1>3, <1>4, <1>5, <1>6, <1>7 DEF Unmoved

\* What SetupSound and SetupSame say of a call.
LEMMA SetupPaints ==
  ASSUME PInv, NEW dst \in Sources \cup {NoImage}, NEW src \in Sources \cup {NoImage},
         NEW msk, NEW fails, NEW r, r = Setup(dst, src, msk, fails)
  PROVE  /\ Kept(dst, src, r) /\ Chosen(dst, r) /\ r.ret \in {0, -1}
         /\ r.m.ctx \in Contexts /\ r.m.ctx.dst = ctx.dst
         /\ r.m.ctx.dorg = ctx.dorg /\ r.m.ctx.sorg = ctx.sorg
         /\ r.m.ctx.src \in {ctx.src, NoImage}
<1>1. Kept(dst, src, r) /\ Chosen(dst, r)
  BY SetupSame, SetupSound DEF PInv
<1>2. State.ctx = ctx
  BY DEF State
<1>. QED  BY <1>1, <1>2 DEF Kept, Chosen, Sound, Machines, Same

LEMMA PInvContext ==
  ASSUME PInv
  PROVE  /\ pen \in Pens /\ ctx.dst \in Sources \cup {NoImage}
         /\ ctx.src \in Sources \cup {NoImage}
         /\ pen.dst = ctx.dst /\ pen.dorg = ctx.dorg /\ pen.sorg = ctx.sorg
         /\ ctx.src \in {pen.src, NoImage}
  BY DEF PInv, IInv, TypeOK, Contexts, Sources, Mine

\* A step of blt_setup, blt_op, blt_dst, blt_src or blt_mask.
Chooses == IInv' /\ Mine' /\ InOrder' /\ Shown' /\ Unmoved

LEMMA BltSetupPaints ==
  ASSUME PInv, Attentive, NEW dst \in Sources \cup {NoImage}, NEW src \in Sources \cup {NoImage},
         NEW dorg \in Origins, NEW sorg \in Origins, NEW msk \in Masks \cup {NoImage},
         MayCall(dst, dorg, src, sorg), BltSetup(dst, dorg, src, sorg, msk)
  PROVE  Chooses
<1>. DEFINE chosen == [pen EXCEPT !.dst = dst, !.dorg = dorg, !.src = src, !.sorg = sorg]
<1>1. PICK fails \in SUBSET Failures :
        LET r == Setup(dst, src, msk, fails)
        IN  Finish(r, AfterSetup(r.m.ctx, dst, dorg, src, sorg, msk), chosen)
  BY DEF BltSetup
<1>. DEFINE r == Setup(dst, src, msk, fails)
            assigned == AfterSetup(r.m.ctx, dst, dorg, src, sorg, msk)
<1>2. /\ Kept(dst, src, r) /\ Chosen(dst, r) /\ r.ret \in {0, -1} /\ r.m.ctx \in Contexts
  BY SetupPaints
<1>3. IInv'
  BY BltSetupStep DEF PInv
<1>4. /\ chosen \in Pens /\ chosen.dst = dst /\ chosen.dorg = dorg /\ chosen.sorg = sorg
      /\ chosen.src = src /\ chosen.rects = pen.rects
  BY PInvContext DEF Pens
<1>5. Finish(r, assigned, chosen)
  BY <1>1
<1>. HIDE DEF r, chosen
<1>6. /\ assigned.dst = dst /\ assigned.dorg = dorg /\ assigned.sorg = sorg
      /\ assigned.src = src
  BY <1>2 DEF AfterSetup, Contexts
<1>. HIDE DEF assigned
<1>7. \/ dorg = ctx.dorg /\ sorg = ctx.sorg
      \/ dst # ctx.dst \/ src # ctx.src \/ ~Pending
  BY DEF MayCall, Attentive
<1>8. src # NoImage /\ src = ctx.src => src = pen.src
  BY PInvContext
<1>. QED  BY <1>2, <1>3, <1>4, <1>5, <1>6, <1>7, <1>8, ChosenPaints DEF Chooses

LEMMA BltOpPaints ==
  ASSUME PInv, NEW op \in Ops, BltOp(op)
  PROVE  Chooses
<1>. DEFINE r == Setup(ctx.dst, ctx.src, ctx.msk, {})
            assigned == AfterOp(r.m.ctx, op)
<1>1. /\ Kept(ctx.dst, ctx.src, r) /\ Chosen(ctx.dst, r) /\ r.ret \in {0, -1}
      /\ r.m.ctx \in Contexts /\ r.m.ctx.dst = ctx.dst
      /\ r.m.ctx.dorg = ctx.dorg /\ r.m.ctx.sorg = ctx.sorg
      /\ r.m.ctx.src \in {ctx.src, NoImage}
  BY PInvContext, SetupPaints
<1>2. IInv'
  BY BltOpStep DEF PInv
<1>3. Finish(r, assigned, pen)
  BY DEF BltOp
<1>. HIDE DEF r
<1>4. /\ assigned.dst = ctx.dst /\ assigned.dorg = ctx.dorg /\ assigned.sorg = ctx.sorg
      /\ assigned.src \in {ctx.src, NoImage}
  BY <1>1 DEF AfterOp, Contexts
<1>. HIDE DEF assigned
<1>5. /\ pen \in Pens /\ pen.dst = ctx.dst /\ pen.dorg = ctx.dorg /\ pen.sorg = ctx.sorg
      /\ ctx.src \in {pen.src, NoImage}
  BY PInvContext
<1>. QED  BY <1>1, <1>2, <1>3, <1>4, <1>5, ChosenPaints DEF Chooses

LEMMA BltMaskPaints ==
  ASSUME PInv, NEW msk \in Masks \cup {NoImage}, BltMask(msk)
  PROVE  Chooses
<1>. DEFINE r == Setup(ctx.dst, ctx.src, msk, {})
            assigned == AfterMask(r.m.ctx, msk)
<1>1. /\ Kept(ctx.dst, ctx.src, r) /\ Chosen(ctx.dst, r) /\ r.ret \in {0, -1}
      /\ r.m.ctx \in Contexts /\ r.m.ctx.dst = ctx.dst
      /\ r.m.ctx.dorg = ctx.dorg /\ r.m.ctx.sorg = ctx.sorg
      /\ r.m.ctx.src \in {ctx.src, NoImage}
  BY PInvContext, SetupPaints
<1>2. IInv'
  BY BltMaskStep DEF PInv
<1>3. Finish(r, assigned, pen)
  BY DEF BltMask
<1>. HIDE DEF r
<1>4. /\ assigned.dst = ctx.dst /\ assigned.dorg = ctx.dorg /\ assigned.sorg = ctx.sorg
      /\ assigned.src \in {ctx.src, NoImage}
  BY <1>1 DEF AfterMask, Contexts
<1>. HIDE DEF assigned
<1>5. /\ pen \in Pens /\ pen.dst = ctx.dst /\ pen.dorg = ctx.dorg /\ pen.sorg = ctx.sorg
      /\ ctx.src \in {pen.src, NoImage}
  BY PInvContext
<1>. QED  BY <1>1, <1>2, <1>3, <1>4, <1>5, ChosenPaints DEF Chooses

LEMMA BltDstPaints ==
  ASSUME PInv, Attentive, NEW dst \in Sources \cup {NoImage}, NEW dorg \in Origins,
         MayCall(dst, dorg, ctx.src, ctx.sorg), dst = ctx.dst \/ ctx.src = pen.src,
         BltDst(dst, dorg)
  PROVE  Chooses
<1>. DEFINE chosen == [pen EXCEPT !.dst = dst, !.dorg = dorg]
<1>1. PICK fails \in SUBSET Failures :
        LET r == Setup(dst, ctx.src, ctx.msk, fails)
        IN  Finish(r, AfterDst(r.m.ctx, dst, dorg), chosen)
  BY DEF BltDst
<1>. DEFINE r == Setup(dst, ctx.src, ctx.msk, fails)
            assigned == AfterDst(r.m.ctx, dst, dorg)
<1>2. /\ pen \in Pens /\ pen.dst = ctx.dst /\ pen.dorg = ctx.dorg /\ pen.sorg = ctx.sorg
      /\ ctx.src \in {pen.src, NoImage} /\ ctx.src \in Sources \cup {NoImage}
  BY PInvContext
<1>3. /\ Kept(dst, ctx.src, r) /\ Chosen(dst, r) /\ r.ret \in {0, -1}
      /\ r.m.ctx \in Contexts /\ r.m.ctx.sorg = ctx.sorg
      /\ r.m.ctx.src \in {ctx.src, NoImage}
  <2>1. \A src \in Sources \cup {NoImage} : src = ctx.src =>
           /\ Kept(dst, src, r) /\ Chosen(dst, r) /\ r.ret \in {0, -1}
           /\ r.m.ctx \in Contexts /\ r.m.ctx.sorg = ctx.sorg
           /\ r.m.ctx.src \in {ctx.src, NoImage}
    BY SetupPaints
  <2>. QED  BY <1>2, <2>1
<1>4. IInv'
  BY BltDstStep DEF PInv
<1>5. /\ chosen \in Pens /\ chosen.dst = dst /\ chosen.dorg = dorg /\ chosen.sorg = pen.sorg
      /\ chosen.src = pen.src /\ chosen.rects = pen.rects
  BY <1>2 DEF Pens
<1>6. Finish(r, assigned, chosen)
  BY <1>1
<1>. HIDE DEF r, chosen
<1>7. /\ assigned.dst = dst /\ assigned.dorg = dorg /\ assigned.sorg = ctx.sorg
      /\ assigned.src \in {ctx.src, NoImage}
  BY <1>3 DEF AfterDst, Contexts
<1>. HIDE DEF assigned
<1>8. dorg = ctx.dorg \/ dst # ctx.dst \/ ~Pending
  BY DEF MayCall, Attentive
<1>. QED  BY <1>2, <1>3, <1>4, <1>5, <1>6, <1>7, <1>8, ChosenPaints DEF Chooses

LEMMA BltSrcPaints ==
  ASSUME PInv, Attentive, NEW src \in Sources \cup {NoImage}, NEW sorg \in Origins,
         MayCall(ctx.dst, ctx.dorg, src, sorg), BltSrc(src, sorg)
  PROVE  Chooses
<1>. DEFINE chosen == [pen EXCEPT !.src = src, !.sorg = sorg]
            r == Setup(ctx.dst, src, ctx.msk, {})
            assigned == AfterSrc(r.m.ctx, src, sorg)
<1>1. /\ pen \in Pens /\ pen.dst = ctx.dst /\ pen.dorg = ctx.dorg /\ pen.sorg = ctx.sorg
      /\ ctx.src \in {pen.src, NoImage}
  BY PInvContext
<1>2. /\ Kept(ctx.dst, src, r) /\ Chosen(ctx.dst, r) /\ r.ret \in {0, -1}
      /\ r.m.ctx \in Contexts /\ r.m.ctx.dst = ctx.dst /\ r.m.ctx.dorg = ctx.dorg
  BY PInvContext, SetupPaints
<1>3. IInv'
  BY BltSrcStep DEF PInv
<1>4. /\ chosen \in Pens /\ chosen.dst = pen.dst /\ chosen.dorg = pen.dorg
      /\ chosen.sorg = sorg /\ chosen.src = src /\ chosen.rects = pen.rects
  BY <1>1 DEF Pens
<1>5. Finish(r, assigned, chosen)
  BY DEF BltSrc
<1>. HIDE DEF r, chosen
<1>6. /\ assigned.dst = ctx.dst /\ assigned.dorg = ctx.dorg /\ assigned.sorg = sorg
      /\ assigned.src = src
  BY <1>2 DEF AfterSrc, Contexts
<1>. HIDE DEF assigned
<1>7. sorg = ctx.sorg \/ src # ctx.src \/ ~Pending
  BY DEF MayCall, Attentive
<1>8. src # NoImage /\ src = ctx.src => src = pen.src
  BY <1>1
<1>. QED  BY <1>1, <1>2, <1>3, <1>4, <1>5, <1>6, <1>7, <1>8, ChosenPaints DEF Chooses

\* The strokes of a call of blt_rect come last.
LEMMA BltRectPaints ==
  ASSUME PInv, Attentive, NEW rects \in Calls, MayRect(rects), BltRect(rects)
  PROVE  /\ IInv' /\ Mine' /\ InOrder' /\ Shown'
         /\ canvas' = canvas /\ done' = done
         /\ pen.dst \in Targets /\ pen' = [pen EXCEPT !.rects = rects]
         /\ AsAsked!Strokes(pen') \in Seq(Pieces)
         /\ Line(drw[pen.dst], ctx)' = Line(drw[pen.dst], ctx) \o AsAsked!Strokes(pen')
         /\ \A t \in Targets \ {pen.dst} : Line(drw[t], ctx)' = Line(drw[t], ctx)
<1>. DEFINE t  == ctx.dst
            d  == drw[t]
            w  == [i \in 1 .. Len(rects) |-> rects[1]]
            e  == [d EXCEPT !.vert = @ \o w]
            m0 == DrawOf(State, t, e)
            over == Len(e.vert) > VertexCap
            m1 == Blame(m0, "vertex overrun", over)
            chosen == [pen EXCEPT !.rects = rects]
            new == AsAsked!Strokes(chosen)
<1>1. /\ t \in Targets /\ d \in DrawStates /\ Tiled(d) /\ ctx \in Contexts
      /\ ctx.dst # NoImage /\ pen.src # NoImage
      /\ drw \in [Targets -> DrawStates] /\ State \in Machines /\ State.drw = drw
      /\ State.queue = queue
  BY IInvSound DEF Attentive, MayRect, PInv, IInv, TypeOK, DrawsTile, Sound, State
<1>2. /\ pen \in Pens /\ pen.dst = t /\ pen.dorg = ctx.dorg /\ pen.sorg = ctx.sorg
      /\ d.bound = pen.src
  BY <1>1 DEF PInv, Mine
<1>3. rects \in Seq(SUBSET Cells) /\ Len(rects) \in Nat
  BY CallsAssumption, LenProperties
<1>4. w = rects
  <2>1. \A i \in 1 .. Len(rects) : rects[i] = rects[1]
    BY DEF MayRect, Attentive
  <2>2. rects = [i \in 1 .. Len(rects) |-> rects[i]]
    BY <1>3, LenProperties
  <2>. QED  BY <2>1, <2>2
<1>5. Finish(Return(m1, 0), ctx, chosen)
  BY DEF BltRect
<1>. HIDE DEF w, d
<1>6. /\ d.vert \in Seq(SUBSET Cells) /\ Len(d.vert) \in Nat
      /\ d.vert \o w \in Seq(SUBSET Cells)
      /\ Len(d.vert \o w) = Len(d.vert) + Len(rects)
      /\ \A i \in 1 .. Len(d.vert) + Len(rects) :
            (d.vert \o w)[i] = IF i <= Len(d.vert) THEN d.vert[i] ELSE rects[i - Len(d.vert)]
  <2>1. d.vert \in Seq(SUBSET Cells)
    BY <1>1 DEF DrawStates
  <2>. QED  BY <1>3, <1>4, <2>1, ConcatProperties, LenProperties
<1>7. /\ e \in DrawStates /\ e.vert = d.vert \o w /\ e.draws = d.draws /\ e.pos = d.pos
      /\ e.bound = d.bound
  BY <1>1, <1>6 DEF DrawStates
<1>. HIDE DEF e, over
<1>8. /\ m0.ctx = State.ctx /\ m0.queue = queue /\ m0.drw = [drw EXCEPT ![t] = e]
      /\ m0 \in Machines
  BY <1>1, <1>7, DrawOfMachine
<1>. HIDE DEF m0
<1>9. m1.queue = queue /\ m1.drw = [drw EXCEPT ![t] = e]
  BY <1>8 DEF Blame, Machines
<1>. HIDE DEF m1
<1>10. /\ drw' = [drw EXCEPT ![t] = e] /\ queue' = queue /\ ctx' = ctx /\ pen' = chosen
       /\ canvas' = canvas /\ done' = done
  <2>. HIDE DEF chosen
  <2>. QED  BY <1>5, <1>9 DEF Finish, Return
<1>11. IInv'
  BY <1>1, BltRectStep DEF PInv
<1>12. /\ chosen \in Pens /\ chosen.dst = pen.dst /\ chosen.dorg = pen.dorg
       /\ chosen.sorg = pen.sorg /\ chosen.src = pen.src /\ chosen.rects = rects
  BY <1>2 DEF Pens
<1>13. /\ new = [i \in 1 .. Len(rects) |->
                   [rect |-> rects[i], dorg |-> pen.dorg, sorg |-> pen.sorg, src |-> pen.src]]
       /\ new \in Seq(Pieces) /\ Len(new) = Len(rects)
  <2>1. new = [i \in 1 .. Len(rects) |->
                   [rect |-> rects[i], dorg |-> pen.dorg, sorg |-> pen.sorg, src |-> pen.src]]
    <3>. HIDE DEF chosen
    <3>. QED  BY <1>12 DEF AsAsked!Strokes
  <2>2. \A i \in 1 .. Len(rects) :
           [rect |-> rects[i], dorg |-> pen.dorg, sorg |-> pen.sorg, src |-> pen.src] \in Pieces
    <3>1. \A i \in 1 .. Len(rects) : rects[i] \in SUBSET Cells
      BY <1>3, ElementOfSeq
    <3>. QED  BY <1>2, <3>1 DEF Pens, Pieces
  <2>. HIDE DEF new
  <2>3. new \in [1 .. Len(rects) -> Pieces]
    BY <2>1, <2>2
  <2>4. new \in Seq(Pieces)
    BY <1>3, <2>3, SeqDef
  <2>5. DOMAIN new = 1 .. Len(rects) /\ DOMAIN new = 1 .. Len(new) /\ Len(new) \in Nat
    BY <2>3, <2>4, LenProperties
  <2>. QED  BY <1>3, <2>1, <2>4, <2>5
<1>. HIDE DEF chosen, new
<1>14. \A u \in Targets \ {t} : Line(drw[u], ctx)' = Line(drw[u], ctx)
  BY <1>1, <1>10
<1>15. /\ Len(Line(d, ctx)) = Len(d.vert) /\ Line(d, ctx) \in Seq(Pieces)
       /\ done[t] \in Nat /\ done[t] <= Len(d.vert)
       /\ \A i \in 1 .. Len(d.vert) : Line(d, ctx)[i] = Piece(d, ctx, i)
  BY <1>1, LineAt DEF PInv, d
<1>16. /\ Tiled(e) /\ drw'[t] = e
  <2>1. drw'[t] = e
    BY <1>1, <1>10
  <2>2. Tiled(drw'[t])
    BY <1>1, <1>11 DEF IInv, DrawsTile
  <2>. QED  BY <2>1, <2>2
<1>17. /\ Len(Line(e, ctx)) = Len(d.vert) + Len(rects) /\ Line(e, ctx) \in Seq(Pieces)
       /\ \A i \in 1 .. Len(d.vert) + Len(rects) : Line(e, ctx)[i] = Piece(e, ctx, i)
  BY <1>1, <1>6, <1>7, <1>16, LineType
<1>18. \A i \in 1 .. Len(d.vert) : Line(e, ctx)[i] = Line(d, ctx)[i]
  <2>1. SUFFICES ASSUME NEW i \in 1 .. Len(d.vert) PROVE Piece(e, ctx, i) = Piece(d, ctx, i)
    <3>1. \A i \in 1 .. Len(d.vert) : i \in 1 .. Len(d.vert) + Len(rects)
      BY <1>3, <1>6
    <3>. QED  BY <1>15, <1>17, <2>1, <3>1
  <2>2. e.vert[i] = d.vert[i]
    BY <1>3, <1>6, <1>7
  <2>. QED  BY <1>7, <2>2 DEF Piece
<1>19. Line(e, ctx) = Line(d, ctx) \o new
  <2>. DEFINE a == Line(d, ctx)
              v == a \o new
  <2>0. a \in Seq(Pieces) /\ Len(a) = Len(d.vert)
    BY <1>15
  <2>. HIDE DEF a
  <2>1. /\ v \in Seq(Pieces) /\ Len(v) = Len(d.vert) + Len(rects)
        /\ \A i \in 1 .. Len(d.vert) + Len(rects) :
              v[i] = IF i <= Len(d.vert) THEN a[i] ELSE new[i - Len(d.vert)]
    <3>1. /\ v \in Seq(Pieces) /\ Len(v) = Len(a) + Len(new)
          /\ \A i \in 1 .. Len(a) + Len(new) :
                v[i] = IF i <= Len(a) THEN a[i] ELSE new[i - Len(a)]
      BY <1>13, <2>0, ConcatProperties
    <3>. QED  BY <1>13, <2>0, <3>1
  <2>. HIDE DEF v
  <2>2. ASSUME NEW i \in 1 .. Len(d.vert) + Len(rects) PROVE Line(e, ctx)[i] = v[i]
    <3>1. CASE i <= Len(d.vert)
      BY <1>6, <1>18, <2>1, <3>1 DEF a
    <3>2. CASE ~(i <= Len(d.vert))
      <4>1. i - Len(d.vert) \in 1 .. Len(rects)
        BY <1>3, <1>6, <3>2
      <4>2. e.vert[i] = rects[i - Len(d.vert)]
        BY <1>6, <1>7, <3>2
      <4>3. ~(i <= e.pos)
        <5>1. d.pos <= Len(d.vert) /\ d.pos \in Nat
          BY <1>1 DEF Tiled, DrawStates
        <5>. QED  BY <1>6, <1>7, <3>2, <5>1
      <4>4. Line(e, ctx)[i] = [rect |-> rects[i - Len(d.vert)], dorg |-> pen.dorg,
                               sorg |-> pen.sorg, src |-> pen.src]
        BY <1>2, <1>7, <1>17, <4>2, <4>3 DEF Piece
      <4>5. new[i - Len(d.vert)] = [rect |-> rects[i - Len(d.vert)], dorg |-> pen.dorg,
                                    sorg |-> pen.sorg, src |-> pen.src]
        BY <1>13, <4>1
      <4>. QED  BY <2>1, <3>2, <4>4, <4>5
    <3>. QED  BY <3>1, <3>2
  <2>. QED  BY <1>17, <2>1, <2>2, SeqEqual DEF v, a
<1>20. Mine'
  BY <1>1, <1>2, <1>7, <1>10, <1>12, <1>16 DEF PInv, Mine
<1>21. InOrder'
  BY <1>10 DEF PInv, InOrder
<1>22. Shown'
  <2>1. SUFFICES ASSUME NEW u \in Targets
                 PROVE  Showing(canvas[u], Line(drw'[u], ctx), done[u])
    BY <1>10 DEF PInv, Shown
  <2>2. Showing(canvas[u], Line(drw[u], ctx), done[u])
    BY DEF PInv, Shown
  <2>3. CASE u # t
    BY <1>10, <1>14, <2>2, <2>3
  <2>4. CASE u = t
    <3>1. \A i \in 1 .. done[t] : i \in 1 .. Len(d.vert) /\ \A j \in i + 1 .. done[t] : j \in 1 .. Len(d.vert)
      BY <1>6, <1>15
    <3>2. \A i \in 1 .. done[t] : /\ Line(e, ctx)[i] = Line(d, ctx)[i]
                                  /\ \A j \in i + 1 .. done[t] : Line(e, ctx)[j] = Line(d, ctx)[j]
      BY <1>18, <3>1
    <3>3. Showing(canvas[t], Line(d, ctx), done[t])
      BY <2>2, <2>4 DEF d
    <3>4. Showing(canvas[t], Line(e, ctx), done[t])
      BY <3>2, <3>3 DEF Showing
    <3>. QED  BY <1>16, <2>4, <3>4
  <2>. QED  BY <2>3, <2>4
<1>23. Line(drw[pen.dst], ctx)' = Line(drw[pen.dst], ctx) \o AsAsked!Strokes(pen')
  <2>1. pen'.dst = t
    BY <1>2, <1>10, <1>12
  <2>. QED  BY <1>2, <1>10, <1>16, <1>19, <2>1 DEF new, d
<1>24. pen' = [pen EXCEPT !.rects = rects] /\ AsAsked!Strokes(pen') \in Seq(Pieces)
  BY <1>10, <1>13 DEF chosen, new
<1>. QED  BY <1>1, <1>2, <1>10, <1>11, <1>14, <1>20, <1>21, <1>22, <1>23, <1>24

\* An execution carries out the strokes that it is the first to reach.
LEMMA ExecutePaints ==
  ASSUME PInv, Execute
  PROVE  /\ IInv' /\ Mine' /\ InOrder' /\ Shown'
         /\ pen' = pen
         /\ \A t \in Targets : Line(drw[t], ctx)' = Line(drw[t], ctx)
         /\ \E t \in Targets : \E n \in Nat :
               LET line == Line(drw[t], ctx)
                   rest == SubSeq(line, done[t] + 1, Len(line))
               IN  /\ done[t] <= n /\ n <= Len(line)
                   /\ done' = [done EXCEPT ![t] = n]
                   /\ canvas' = [canvas EXCEPT ![t] =
                                    Under(canvas[t], SubSeq(rest, 1, n - done[t]))]
<1>. DEFINE b == Head(queue)
            q == Tail(queue)
            t == b.target
            n == b.size
            d == drw[t]
            line == Line(d, ctx)
            drawn == Strokes(t, SubSeq(drw[t].draws, 1, n))
            first == SubSeq(line, 1, n)
            rest  == SubSeq(line, done[t] + 1, Len(line))
            new   == SubSeq(rest, 1, n - done[t])
<1>1. /\ queue # <<>> /\ queue' = q
      /\ done' = [done EXCEPT ![t] = n]
      /\ canvas' = [canvas EXCEPT ![t] = Under(canvas[t], drawn)]
      /\ UNCHANGED <<ctx, drw, misuse, pen>>
  BY DEF Execute
<1>2. queue \in Seq(Batches) /\ Len(queue) \in Nat
  BY LenProperties DEF PInv, IInv, TypeOK
<1>3. /\ b \in Batches /\ q \in Seq(Batches) /\ Len(q) = Len(queue) - 1
      /\ \A i \in 1 .. Len(q) : q[i] = queue[i + 1]
  BY <1>1, <1>2, HeadTailProperties
<1>4. b = queue[1] /\ 1 \in 1 .. Len(queue)
  BY <1>1, <1>2, EmptySeq
<1>. HIDE DEF b, q
<1>5. /\ t \in Targets /\ n \in Nat /\ d \in DrawStates /\ Tiled(d)
      /\ n <= Len(d.draws) /\ done[t] <= n /\ done[t] \in Nat
  <2>1. t \in Targets /\ n \in Nat
    BY <1>3 DEF Batches
  <2>2. n <= Len(d.draws) /\ done[t] <= n
    BY <1>4 DEF PInv, IInv, TypeOK, InOrder
  <2>. QED  BY <2>1, <2>2 DEF PInv, IInv, TypeOK, DrawsTile
<1>6. /\ Len(d.vert) \in Nat /\ line \in Seq(Pieces) /\ Len(line) = Len(d.vert)
      /\ \A i \in 1 .. Len(d.vert) : line[i] = Piece(d, ctx, i)
  BY <1>5, LineAt DEF PInv
<1>. HIDE DEF t, n, d, line
<1>7. d.draws \in Seq(Draws) /\ Len(d.draws) \in Nat /\ Len(d.draws) = d.pos
      /\ d.pos <= Len(d.vert)
      /\ \A i \in 1 .. Len(d.draws) : d.draws[i].slot = i
  BY <1>5, LenProperties DEF DrawStates, Tiled
<1>8. n <= Len(line)
  BY <1>5, <1>6, <1>7
<1>9. drawn = first
  <2>. DEFINE u == SubSeq(d.draws, 1, n)
  <2>1. Len(u) = n /\ \A i \in 1 .. n : u[i] = d.draws[i]
    BY <1>5, <1>7, FirstOf
  <2>. HIDE DEF u
  <2>2. drawn = [i \in 1 .. n |->
                   [rect |-> d.vert[u[i].slot], dorg |-> u[i].dorg, sorg |-> u[i].sorg,
                    src |-> u[i].with]]
    BY <2>1 DEF Strokes, Stroke, u, d
  <2>3. ASSUME NEW i \in 1 .. n
        PROVE  [rect |-> d.vert[u[i].slot], dorg |-> u[i].dorg, sorg |-> u[i].sorg,
                src |-> u[i].with] = line[i]
    <3>1. i \in 1 .. Len(d.draws) /\ i \in 1 .. Len(d.vert) /\ i <= d.pos
      BY <1>5, <1>6, <1>7
    <3>2. u[i] = d.draws[i] /\ u[i].slot = i
      BY <1>7, <2>1, <3>1
    <3>. QED  BY <1>6, <3>1, <3>2 DEF Piece
  <2>4. /\ first \in Seq(Pieces) /\ Len(first) = n
        /\ \A i \in 1 .. n : first[i] = line[i]
    BY <1>5, <1>6, <1>8, FirstOf
  <2>. HIDE DEF drawn, first
  <2>5. first = [i \in 1 .. n |-> first[i]]
    BY <2>4, LenProperties
  <2>. QED  BY <2>2, <2>3, <2>4, <2>5
<1>10. Showing(canvas[t], line, done[t])
  BY <1>5 DEF PInv, Shown, line, d
<1>11. Under(canvas[t], first) = Under(canvas[t], new) /\ Showing(Under(canvas[t], first), line, n)
  BY <1>5, <1>6, <1>8, <1>10, PaintAgain
<1>12. IInv'
  BY ExecuteStep DEF PInv
<1>13. Mine'
  BY <1>1 DEF PInv, Mine
<1>14. \A u \in Targets : Line(drw[u], ctx)' = Line(drw[u], ctx)
  BY <1>1
<1>. HIDE DEF first, new, drawn
<1>15. done \in [Targets -> Nat] /\ done'[t] = n /\ \A u \in Targets \ {t} : done'[u] = done[u]
  BY <1>1, <1>5 DEF PInv, IInv, TypeOK
<1>16. InOrder'
  <2>1. \A k \in 1 .. Len(q) : k + 1 \in 1 .. Len(queue) /\ q[k] = queue[k + 1] /\ 1 < k + 1
    BY <1>2, <1>3
  <2>2. ASSUME NEW k \in 1 .. Len(q) PROVE done'[q[k].target] <= q[k].size
    <3>1. CASE q[k].target = t
      BY <1>4, <1>15, <2>1, <3>1 DEF PInv, InOrder, t, n
    <3>2. CASE q[k].target # t
      <4>1. q[k] \in Batches
        BY <1>3, ElementOfSeq
      <4>2. done'[q[k].target] = done[q[k].target]
        BY <1>15, <3>2, <4>1 DEF Batches
      <4>3. done[queue[k + 1].target] <= queue[k + 1].size
        BY <2>1 DEF PInv, InOrder
      <4>. QED  BY <2>1, <4>2, <4>3
    <3>. QED  BY <3>1, <3>2
  <2>3. ASSUME NEW k \in 1 .. Len(q), NEW l \in 1 .. Len(q), k < l, q[k].target = q[l].target
        PROVE  q[k].size <= q[l].size
    <3>1. k + 1 < l + 1
      BY <1>3, <2>3
    <3>. QED  BY <2>1, <2>3, <3>1 DEF PInv, InOrder
  <2>. QED  BY <1>1, <2>2, <2>3 DEF InOrder
<1>17. Shown'
  <2>1. canvas = [u \in Targets |-> canvas[u]]
    BY DEF PInv, Shown
  <2>. DEFINE x == Under(canvas[t], drawn)
  <2>. HIDE DEF x
  <2>2. canvas' = [canvas EXCEPT ![t] = x]
    BY <1>1 DEF x
  <2>3. canvas' = [u \in Targets |-> IF u = t THEN x ELSE canvas[u]]
    BY <1>5, <2>1, <2>2
  <2>4. ASSUME NEW u \in Targets PROVE Showing(canvas'[u], Line(drw[u], ctx), done'[u])
    <3>1. CASE u = t
      BY <1>9, <1>11, <1>15, <2>3, <3>1 DEF x, line, d
    <3>2. CASE u # t
      BY <1>15, <2>3, <3>2 DEF PInv, Shown
    <3>. QED  BY <3>1, <3>2
  <2>5. canvas' = [u \in Targets |-> canvas'[u]]
    BY <2>3
  <2>. QED  BY <1>1, <2>4, <2>5 DEF Shown
<1>18. canvas' = [canvas EXCEPT ![t] = Under(canvas[t], new)]
  BY <1>1, <1>9, <1>11
<1>. QED  BY <1>1, <1>5, <1>8, <1>12, <1>13, <1>14, <1>16, <1>17, <1>18 DEF new, rest, line, d

-----------------------------------------------------------------------------
LEMMA PInvInit == Init => PInv
<1>. SUFFICES ASSUME Init PROVE PInv
  OBVIOUS
<1>1. NoImage \notin Targets
  BY ImagesAssumption, TargetsAssumption
<1>2. Mine
  BY <1>1, OriginsAssumption DEF Init, Mine, Pens, NewContext
<1>3. InOrder
  BY EmptySeq DEF Init, InOrder
<1>4. Shown
  BY DEF Init, Shown, Showing
<1>. QED  BY <1>2, <1>3, <1>4, IInvInit DEF PInv

\* Every step is one of Canvas, or none.
Step ==
    \/ Chooses
    \/ UNCHANGED vars
    \/ /\ IInv' /\ Mine' /\ InOrder' /\ Shown'
       /\ canvas' = canvas /\ done' = done
       /\ \E rects \in Calls :
             /\ pen.dst \in Targets /\ pen' = [pen EXCEPT !.rects = rects]
             /\ AsAsked!Strokes(pen') \in Seq(Pieces)
             /\ Line(drw[pen.dst], ctx)' = Line(drw[pen.dst], ctx) \o AsAsked!Strokes(pen')
             /\ \A t \in Targets \ {pen.dst} : Line(drw[t], ctx)' = Line(drw[t], ctx)
    \/ Execute

LEMMA EveryStep == PInv /\ Attentive /\ [Next]_vars => Step /\ PInv'
<1>. SUFFICES ASSUME PInv, Attentive, [Next]_vars PROVE Step /\ PInv'
  OBVIOUS
<1>1. CASE Client
  <2>1. ASSUME NEW dst \in Sources \cup {NoImage}, NEW src \in Sources \cup {NoImage},
               NEW dorg \in Origins, NEW sorg \in Origins, NEW msk \in Masks \cup {NoImage},
               MayCall(dst, dorg, src, sorg), BltSetup(dst, dorg, src, sorg, msk)
        PROVE  Step /\ PInv'
    BY <2>1, BltSetupPaints DEF Step, Chooses, PInv
  <2>2. ASSUME NEW op \in Ops, BltOp(op)
        PROVE  Step /\ PInv'
    BY <2>2, BltOpPaints DEF Step, Chooses, PInv
  <2>3. ASSUME NEW dst \in Sources \cup {NoImage}, NEW dorg \in Origins,
               MayCall(dst, dorg, ctx.src, ctx.sorg),
               "source" \in Rules => dst = ctx.dst \/ ctx.src = pen.src,
               BltDst(dst, dorg)
        PROVE  Step /\ PInv'
    <3>1. dst = ctx.dst \/ ctx.src = pen.src
      BY <2>3 DEF Attentive
    <3>. QED  BY <2>3, <3>1, BltDstPaints DEF Step, Chooses, PInv
  <2>4. ASSUME NEW src \in Sources \cup {NoImage}, NEW sorg \in Origins,
               MayCall(ctx.dst, ctx.dorg, src, sorg), BltSrc(src, sorg)
        PROVE  Step /\ PInv'
    BY <2>4, BltSrcPaints DEF Step, Chooses, PInv
  <2>5. ASSUME NEW msk \in Masks \cup {NoImage}, BltMask(msk)
        PROVE  Step /\ PInv'
    BY <2>5, BltMaskPaints DEF Step, Chooses, PInv
  <2>6. ASSUME NEW rects \in Calls, MayRect(rects), BltRect(rects)
        PROVE  Step /\ PInv'
    BY <2>6, BltRectPaints DEF Step, PInv
  <2>. QED  BY <1>1, <2>1, <2>2, <2>3, <2>4, <2>5, <2>6 DEF Client
<1>2. CASE Execute
  BY <1>2, ExecutePaints DEF Step, PInv
<1>3. CASE UNCHANGED vars
  <2>1. IInv'
    BY <1>3, IInvNext DEF PInv
  <2>. QED  BY <1>3, <2>1 DEF Step, PInv, vars, Mine, InOrder, Shown
<1>. QED  BY <1>1, <1>2, <1>3 DEF Next

\* The strokes of a target that are asked for and not carried out.
Ahead(t) == SubSeq(AllStrokes(t), done[t] + 1, Len(AllStrokes(t)))

LEMMA InitCanvas == Init => AsAsked!Init
<1>. SUFFICES ASSUME Init PROVE AsAsked!Init
  OBVIOUS
<1>1. IInv /\ pen \in Pens
  BY IInvInit, PInvInit DEF PInv, Mine
<1>2. ASSUME NEW t \in Targets PROVE SubSeq(AllStrokes(t), done[t] + 1, Len(AllStrokes(t))) = <<>>
  <2>1. drw[t].vert = <<>> /\ done[t] = 0
    BY <1>2 DEF Init, NewDraw
  <2>2. Len(AllStrokes(t)) = 0
    <3>1. Len(Line(drw[t], ctx)) = Len(drw[t].vert)
      BY <1>1, LineAt
    <3>2. Len(drw[t].vert) = 0
      BY <2>1, EmptySeq
    <3>. QED  BY <1>1, <3>1, <3>2, StrokesAreLine
  <2>. QED  BY <2>1, <2>2, SubSeqEmpty
<1>3. canvas = [t \in Targets |-> AsAsked!BlankImage]
  BY DEF Init, BlankImage, AsAsked!BlankImage
<1>. QED  BY <1>1, <1>2, <1>3 DEF AsAsked!Init, Pens

LEMMA AheadOf ==
  IInv => \A t \in Targets :
             Ahead(t) = SubSeq(Line(drw[t], ctx), done[t] + 1, Len(Line(drw[t], ctx)))
<1>. QED  BY StrokesAreLine DEF Ahead

LEMMA SameUnder == \A image, strokes : AsAsked!Under(image, strokes) = Under(image, strokes)
  BY DEF AsAsked!Under, Under, AsAsked!Covered, Covered, AsAsked!Paint, Paint,
         AsAsked!Last, Last

LEMMA StepCanvas == PInv /\ PInv' /\ Step => [AsAsked!Next]_AsAsked!vars
<1>. SUFFICES ASSUME PInv, PInv', Step PROVE [AsAsked!Next]_AsAsked!vars
  OBVIOUS
<1>. DEFINE asked == [t \in Targets |->
                         SubSeq(AllStrokes(t), done[t] + 1, Len(AllStrokes(t)))]
            line(t) == Line(drw[t], ctx)
            after(t) == Line(drw'[t], ctx')
<1>1. asked = [t \in Targets |-> SubSeq(line(t), done[t] + 1, Len(line(t)))]
  BY AheadOf DEF PInv, Ahead
<1>2. asked' = [t \in Targets |-> SubSeq(after(t), done'[t] + 1, Len(after(t)))]
  <2>1. (IInv => \A t \in Targets :
             Ahead(t) = SubSeq(Line(drw[t], ctx), done[t] + 1, Len(Line(drw[t], ctx))))'
    BY AheadOf, PTL
  <2>2. \A t \in Targets : Ahead(t)' = SubSeq(after(t), done'[t] + 1, Len(after(t)))
    BY <2>1 DEF PInv
  <2>. QED  BY <2>2 DEF Ahead
<1>3. pen' \in Pens
  BY DEF PInv, Mine
<1>4. \A t \in Targets : /\ line(t) \in Seq(Pieces) /\ done[t] \in Nat
                         /\ Len(line(t)) \in Nat /\ done[t] <= Len(line(t))
  BY LineAt DEF PInv
<1>. HIDE DEF asked, line, after
<1>5. CASE Chooses
  <2>1. asked' = asked
    BY <1>1, <1>2, <1>5 DEF Chooses, Unmoved, line, after
  <2>2. pen'.rects = pen.rects /\ canvas' = canvas
    BY <1>5 DEF Chooses, Unmoved
  <2>3. AsAsked!Choose
    BY <1>3, <2>1, <2>2 DEF AsAsked!Choose, Pens, asked
  <2>. QED  BY <2>3 DEF AsAsked!Next
<1>6. CASE UNCHANGED vars
  <2>1. asked' = asked
    BY <1>1, <1>2, <1>6 DEF vars, line, after
  <2>. QED  BY <1>6, <2>1 DEF vars, AsAsked!vars, asked
<1>7. ASSUME NEW rects \in Calls, canvas' = canvas, done' = done,
             pen.dst \in Targets, pen' = [pen EXCEPT !.rects = rects],
             AsAsked!Strokes(pen') \in Seq(Pieces),
             after(pen.dst) = line(pen.dst) \o AsAsked!Strokes(pen'),
             \A t \in Targets \ {pen.dst} : after(t) = line(t)
      PROVE  [AsAsked!Next]_AsAsked!vars
  <2>. DEFINE u == pen.dst
              new == AsAsked!Strokes(pen')
  <2>. HIDE DEF new
  <2>1. SubSeq(after(u), done[u] + 1, Len(after(u)))
            = SubSeq(line(u), done[u] + 1, Len(line(u))) \o new
    BY <1>4, <1>7, RestConcat DEF new
  <2>2. asked' = [asked EXCEPT ![u] = asked[u] \o new]
    BY <1>1, <1>2, <1>7, <2>1
  <2>3. AsAsked!Ask(rects)
    BY <1>7, <2>2 DEF AsAsked!Ask, asked, new
  <2>. QED  BY <2>3 DEF AsAsked!Next
<1>8. CASE Execute
  <2>1. PICK t \in Targets : \E n \in Nat :
               LET rest == SubSeq(line(t), done[t] + 1, Len(line(t)))
               IN  /\ done[t] <= n /\ n <= Len(line(t))
                   /\ done' = [done EXCEPT ![t] = n]
                   /\ canvas' = [canvas EXCEPT ![t] =
                                    Under(canvas[t], SubSeq(rest, 1, n - done[t]))]
    BY <1>8, ExecutePaints DEF line
  <2>2. PICK n \in Nat :
               LET rest == SubSeq(line(t), done[t] + 1, Len(line(t)))
               IN  /\ done[t] <= n /\ n <= Len(line(t))
                   /\ done' = [done EXCEPT ![t] = n]
                   /\ canvas' = [canvas EXCEPT ![t] =
                                    Under(canvas[t], SubSeq(rest, 1, n - done[t]))]
    BY <2>1
  <2>3. pen' = pen /\ \A u \in Targets : after(u) = line(u)
    BY <1>8, ExecutePaints DEF line, after
  <2>. DEFINE rest == SubSeq(line(t), done[t] + 1, Len(line(t)))
              k == n - done[t]
  <2>4. /\ SubSeq(rest, k + 1, Len(rest)) = SubSeq(line(t), n + 1, Len(line(t)))
        /\ k \in 0 .. Len(rest)
    BY <1>4, <2>2, RestOfRest
  <2>5. canvas' = [canvas EXCEPT ![t] = AsAsked!Under(canvas[t], SubSeq(rest, 1, k))]
    BY <2>2, SameUnder
  <2>6. asked[t] = rest
    BY <1>1
  <2>. HIDE DEF rest, k
  <2>7. asked' = [asked EXCEPT ![t] = SubSeq(rest, k + 1, Len(rest))]
    <3>1. done \in [Targets -> Nat]
      BY DEF PInv, IInv, TypeOK
    <3>2. \A u \in Targets : SubSeq(after(u), done'[u] + 1, Len(after(u)))
            = IF u = t THEN SubSeq(rest, k + 1, Len(rest))
                       ELSE SubSeq(line(u), done[u] + 1, Len(line(u)))
      BY <2>2, <2>3, <2>4, <3>1
    <3>. QED  BY <1>1, <1>2, <3>2
  <2>8. /\ canvas' = [canvas EXCEPT ![t] = AsAsked!Under(canvas[t], SubSeq(asked[t], 1, k))]
        /\ asked' = [asked EXCEPT ![t] = SubSeq(asked[t], k + 1, Len(asked[t]))]
        /\ pen' = pen /\ k \in 0 .. Len(asked[t])
    BY <2>3, <2>4, <2>5, <2>6, <2>7
  <2>9. \E l \in 0 .. Len(asked[t]) : AsAsked!CarryOut(t, l)
    BY <2>8 DEF AsAsked!CarryOut, asked
  <2>10. \E u \in Targets : \E l \in 0 .. Len(asked[u]) : AsAsked!CarryOut(u, l)
    BY <2>9
  <2>11. AsAsked!Next
    BY <2>10 DEF AsAsked!Next, asked
  <2>. QED  BY <2>11
<1>9. \A rects \in Calls : pen' = [pen EXCEPT !.rects = rects] => pen'.dst = pen.dst
  BY DEF PInv, Mine, Pens
<1>. QED  BY <1>5, <1>6, <1>7, <1>8, <1>9 DEF Step, line, after

(* Under a client that names its source again, changes origins only where  *)
(* nothing is pending and draws one rectangle with a call, the images come *)
(* to show what was asked for: every stroke once, in order, with the       *)
(* source and the origins of its time, though each submission hands over   *)
(* the stream from its start and executes what earlier ones executed       *)
(* (impl.c:622-661), and though a refused one stays for the next.          *)
THEOREM AmdgpuPaintsAsAsked == Attentive => (Spec => PaintsAsAsked)
<1>. SUFFICES ASSUME Attentive PROVE Spec => PaintsAsAsked
  OBVIOUS
<1>1. Init => PInv /\ AsAsked!Init
  BY PInvInit, InitCanvas
<1>2. PInv /\ [Next]_vars => PInv' /\ [AsAsked!Next]_AsAsked!vars
  BY EveryStep, StepCanvas
<1>. QED  BY <1>1, <1>2, PTL DEF Spec, PaintsAsAsked, AsAsked!Spec
=============================================================================
