---------------------------- MODULE Amdgpu_proofs ----------------------------
(***************************************************************************)
(* The streams of the amdgpu back end, for any images, calls, capacities,  *)
(* failures and rules of the client.                                       *)
(***************************************************************************)
EXTENDS Amdgpu, SequenceTheorems, TLAPS

Machines ==
    [ctx : Contexts, drw : [Targets -> DrawStates], queue : Seq(Batches),
     misuse : SUBSET Misuses]

\* e holds what d holds, at the same places.
Longer(d, e) ==
    /\ Len(d.draws) <= Len(e.draws)
    /\ \A i \in 1 .. Len(d.draws) : e.draws[i] = d.draws[i]
    /\ Len(d.vert) <= Len(e.vert)
    /\ \A i \in 1 .. Len(d.vert) : e.vert[i] = d.vert[i]

Grown(f, g) == \A t \in Targets : Longer(f[t], g[t])

InStream(queue1, f) ==
    \A k \in 1 .. Len(queue1) : queue1[k].size <= Len(f[queue1[k].target].draws)

\* A state of the back end between or inside calls.
Sound(m) ==
    /\ m \in Machines
    /\ m.ctx.dst \in Targets \cup {NoImage}
    /\ \A t \in Targets : Tiled(m.drw[t])
    /\ InStream(m.queue, m.drw)

\* Only u may have vertices not drawn.
DrawnBut(m, u) == \A t \in Targets : t # u => Drawn(m.drw[t])

-----------------------------------------------------------------------------
(* Growth of the streams.                                                  *)

LEMMA GrownTransitive ==
  ASSUME NEW f \in [Targets -> DrawStates], NEW g \in [Targets -> DrawStates],
         NEW h \in [Targets -> DrawStates], Grown(f, g), Grown(g, h)
  PROVE  Grown(f, h)
<1>1. SUFFICES ASSUME NEW t \in Targets
               PROVE  Longer(f[t], h[t])
  BY DEF Grown
<1>2. Longer(f[t], g[t]) /\ Longer(g[t], h[t])
  BY DEF Grown
<1>3. /\ Len(f[t].draws) \in Nat /\ Len(g[t].draws) \in Nat /\ Len(h[t].draws) \in Nat
      /\ Len(f[t].vert) \in Nat /\ Len(g[t].vert) \in Nat /\ Len(h[t].vert) \in Nat
  BY LenProperties DEF DrawStates
<1>. QED  BY <1>2, <1>3 DEF Longer

LEMMA GrownReflexive ==
  ASSUME NEW f \in [Targets -> DrawStates]
  PROVE  Grown(f, f)
<1>1. \A t \in Targets : Len(f[t].draws) \in Nat /\ Len(f[t].vert) \in Nat
  BY LenProperties DEF DrawStates
<1>. QED  BY <1>1 DEF Grown, Longer

\* What was in a stream stays in it.
LEMMA GrownInStream ==
  ASSUME NEW f \in [Targets -> DrawStates], NEW g \in [Targets -> DrawStates],
         NEW queue1 \in Seq(Batches), Grown(f, g), InStream(queue1, f)
  PROVE  InStream(queue1, g)
<1>1. SUFFICES ASSUME NEW k \in 1 .. Len(queue1)
               PROVE  queue1[k].size <= Len(g[queue1[k].target].draws)
  BY DEF InStream
<1>2. queue1[k] \in Batches
  BY ElementOfSeq
<1>3. queue1[k].target \in Targets /\ queue1[k].size \in Nat
  BY <1>2 DEF Batches
<1>. DEFINE t == queue1[k].target
<1>4. Len(f[t].draws) \in Nat /\ Len(g[t].draws) \in Nat
  BY <1>3, LenProperties DEF DrawStates
<1>5. Len(f[t].draws) <= Len(g[t].draws)
  BY <1>3 DEF Grown, Longer
<1>6. queue1[k].size <= Len(f[t].draws)
  BY DEF InStream
<1>. QED  BY <1>3, <1>4, <1>5, <1>6

-----------------------------------------------------------------------------
(* The functions of impl.c.                                                *)

LEMMA BlameSound ==
  ASSUME NEW m, Sound(m), NEW what \in Misuses, NEW wrong \in BOOLEAN
  PROVE  /\ Sound(Blame(m, what, wrong))
         /\ Blame(m, what, wrong).ctx = m.ctx
         /\ Blame(m, what, wrong).drw = m.drw
         /\ Blame(m, what, wrong).queue = m.queue
<1>1. m \in Machines
  BY DEF Sound
<1>2. /\ Blame(m, what, wrong) \in Machines
      /\ Blame(m, what, wrong).ctx = m.ctx
      /\ Blame(m, what, wrong).drw = m.drw
      /\ Blame(m, what, wrong).queue = m.queue
  BY <1>1 DEF Blame, Machines
<1>. QED  BY <1>2 DEF Sound

LEMMA MoreWords ==
  ASSUME NEW d \in DrawStates, NEW n \in Nat
  PROVE  LET e == [d EXCEPT !.len = @ + n]
         IN  e \in DrawStates /\ e.draws = d.draws /\ e.vert = d.vert /\ e.pos = d.pos
  BY DEF DrawStates

LEMMA DrawOfMachine ==
  ASSUME NEW m \in Machines, NEW t \in Targets, NEW e \in DrawStates
  PROVE  /\ DrawOf(m, t, e) \in Machines
         /\ DrawOf(m, t, e).ctx = m.ctx
         /\ DrawOf(m, t, e).queue = m.queue
         /\ DrawOf(m, t, e).drw = [m.drw EXCEPT ![t] = e]
  BY DEF DrawOf, Machines

\* One target's struct draw is replaced by a longer one.
LEMMA DrawOfSound ==
  ASSUME NEW m, Sound(m), NEW t \in Targets, NEW e \in DrawStates, Tiled(e),
         Longer(m.drw[t], e)
  PROVE  /\ Sound(DrawOf(m, t, e))
         /\ Grown(m.drw, DrawOf(m, t, e).drw)
         /\ DrawOf(m, t, e).ctx = m.ctx
         /\ DrawOf(m, t, e).queue = m.queue
         /\ DrawOf(m, t, e).drw[t] = e
         /\ \A u \in Targets \ {t} : DrawOf(m, t, e).drw[u] = m.drw[u]
<1>. DEFINE r == DrawOf(m, t, e)
<1>1. m \in Machines /\ m.drw \in [Targets -> DrawStates] /\ m.queue \in Seq(Batches)
  BY DEF Sound, Machines
<1>2. /\ r \in Machines /\ r.ctx = m.ctx /\ r.queue = m.queue
      /\ r.drw = [m.drw EXCEPT ![t] = e]
  BY <1>1, DrawOfMachine
<1>. HIDE DEF r
<1>3. r.drw[t] = e /\ \A u \in Targets \ {t} : r.drw[u] = m.drw[u]
  BY <1>1, <1>2
<1>4. Grown(m.drw, r.drw)
  <2>1. \A u \in Targets : Longer(m.drw[u], m.drw[u])
    BY <1>1, GrownReflexive DEF Grown
  <2>. QED  BY <1>3, <2>1 DEF Grown
<1>5. InStream(r.queue, r.drw)
  <2>1. InStream(m.queue, m.drw)
    BY DEF Sound
  <2>2. r.drw \in [Targets -> DrawStates]
    BY <1>2 DEF Machines
  <2>. QED  BY <1>1, <1>2, <1>4, <2>1, <2>2, GrownInStream
<1>6. Sound(r)
  <2>1. \A u \in Targets : Tiled(m.drw[u])
    BY DEF Sound
  <2>2. \A u \in Targets : Tiled(r.drw[u])
    BY <1>3, <2>1
  <2>. QED  BY <1>2, <1>5, <2>2 DEF Sound
<1>. QED  BY <1>2, <1>3, <1>4, <1>6 DEF r

\* Words alone add no draws and no vertices.
LEMMA EmitSound ==
  ASSUME NEW m, Sound(m), NEW t \in Targets, NEW n \in Nat
  PROVE  /\ Sound(Emit(m, t, n))
         /\ Emit(m, t, n).ctx = m.ctx
         /\ Emit(m, t, n).queue = m.queue
         /\ Grown(m.drw, Emit(m, t, n).drw)
         /\ \A u : DrawnBut(m, u) => DrawnBut(Emit(m, t, n), u)
<1>. DEFINE d == m.drw[t]
            e == [d EXCEPT !.len = @ + n]
            r == DrawOf(m, t, e)
            over == d.len + n > StreamCap
<1>1. d \in DrawStates /\ Tiled(d)
  BY DEF Sound, Machines
<1>2. e \in DrawStates /\ e.draws = d.draws /\ e.vert = d.vert /\ e.pos = d.pos
  BY <1>1, MoreWords
<1>3. Tiled(e) /\ Longer(d, e)
  <2>1. Len(d.draws) \in Nat /\ Len(d.vert) \in Nat
    BY <1>1, LenProperties DEF DrawStates
  <2>. HIDE DEF e
  <2>. QED  BY <1>1, <1>2, <2>1 DEF Tiled, Longer
<1>4. "stream overrun" \in Misuses /\ over \in BOOLEAN
  BY DEF Misuses
<1>5. Emit(m, t, n) = Blame(r, "stream overrun", over)
  BY DEF Emit
<1>. HIDE DEF e, over
<1>6. /\ Sound(r) /\ Grown(m.drw, r.drw) /\ r.ctx = m.ctx /\ r.queue = m.queue
      /\ r.drw[t] = e /\ \A u \in Targets \ {t} : r.drw[u] = m.drw[u]
  BY <1>2, <1>3, DrawOfSound
<1>. HIDE DEF r
<1>7. /\ Sound(Emit(m, t, n)) /\ Emit(m, t, n).ctx = r.ctx
      /\ Emit(m, t, n).queue = r.queue /\ Emit(m, t, n).drw = r.drw
  BY <1>4, <1>5, <1>6, BlameSound, ZenonT(40)
<1>8. \A u : DrawnBut(m, u) => DrawnBut(Emit(m, t, n), u)
  BY <1>2, <1>6, <1>7 DEF DrawnBut, Drawn
<1>. QED  BY <1>6, <1>7, <1>8

LEMMA UndrawnType ==
  ASSUME NEW d \in DrawStates, NEW c \in Contexts, d.pos <= Len(d.vert)
  PROVE  /\ Undrawn(d, c) \in Seq(Draws)
         /\ Len(Undrawn(d, c)) = Len(d.vert) - d.pos
         /\ \A i \in 1 .. Len(Undrawn(d, c)) : Undrawn(d, c)[i].slot = d.pos + i
<1>. DEFINE n == Len(d.vert) - d.pos
<1>1. n \in Nat /\ d.pos \in Nat
  BY LenProperties DEF DrawStates
<1>2. \A i \in 1 .. n :
        [slot |-> d.pos + i, dorg |-> c.dorg, sorg |-> c.sorg, with |-> d.bound] \in Draws
  BY <1>1 DEF DrawStates, Draws, Contexts
<1>3. Undrawn(d, c) \in [1 .. n -> Draws]
  BY <1>2 DEF Undrawn
<1>4. Undrawn(d, c) \in Seq(Draws)
  BY <1>1, <1>3, SeqDef
<1>5. Len(Undrawn(d, c)) = n
  BY <1>1, <1>3, <1>4, LenProperties
<1>6. \A i \in 1 .. n : Undrawn(d, c)[i].slot = d.pos + i
  BY <1>2 DEF Undrawn
<1>. QED  BY <1>4, <1>5, <1>6

\* The struct draw of a target after its vertices were drawn.
LEMMA DrawnState ==
  ASSUME NEW d \in DrawStates, NEW c \in Contexts, Tiled(d)
  PROVE  LET e == [d EXCEPT !.draws = @ \o Undrawn(d, c), !.pos = Len(d.vert)]
         IN  e \in DrawStates /\ Tiled(e) /\ Drawn(e) /\ Longer(d, e)
<1>. DEFINE w == Undrawn(d, c)
            e == [d EXCEPT !.draws = @ \o w, !.pos = Len(d.vert)]
<1>1. /\ d.draws \in Seq(Draws) /\ Len(d.draws) \in Nat /\ d.pos = Len(d.draws)
      /\ Len(d.vert) \in Nat /\ d.pos <= Len(d.vert)
      /\ \A i \in 1 .. Len(d.draws) : d.draws[i].slot = i
  BY LenProperties DEF DrawStates, Tiled
<1>2. /\ w \in Seq(Draws) /\ Len(w) = Len(d.vert) - d.pos
      /\ \A i \in 1 .. Len(w) : w[i].slot = d.pos + i
  BY <1>1, UndrawnType
<1>. HIDE DEF w
<1>3. /\ d.draws \o w \in Seq(Draws)
      /\ Len(d.draws \o w) = Len(d.draws) + Len(w)
      /\ \A i \in 1 .. Len(d.draws) + Len(w) :
            (d.draws \o w)[i] = IF i <= Len(d.draws) THEN d.draws[i] ELSE w[i - Len(d.draws)]
  BY <1>1, <1>2, ConcatProperties
<1>4. /\ e \in DrawStates /\ e.draws = d.draws \o w
      /\ e.pos = Len(d.vert) /\ e.vert = d.vert
  BY <1>1, <1>3 DEF DrawStates
<1>5. Len(e.draws) = e.pos
  BY <1>1, <1>2, <1>3, <1>4
<1>6. \A i \in 1 .. Len(e.draws) : e.draws[i].slot = i
  <2>1. SUFFICES ASSUME NEW i \in 1 .. Len(d.draws) + Len(w)
                 PROVE  (d.draws \o w)[i].slot = i
    BY <1>3, <1>4
  <2>2. CASE i <= Len(d.draws)
    BY <1>1, <1>3, <2>2
  <2>3. CASE i > Len(d.draws)
    <3>1. i - Len(d.draws) \in 1 .. Len(w)
      BY <1>1, <1>2, <2>3
    <3>2. w[i - Len(d.draws)].slot = i
      BY <1>1, <1>2, <3>1
    <3>3. (d.draws \o w)[i] = w[i - Len(d.draws)]
      BY <1>1, <1>3, <2>3
    <3>. QED  BY <3>2, <3>3
  <2>. QED  BY <1>1, <2>2, <2>3
<1>7. Longer(d, e)
  <2>. HIDE DEF e
  <2>1. Len(w) \in Nat
    BY <1>2, LenProperties
  <2>. QED  BY <1>1, <1>3, <1>4, <2>1 DEF Longer
<1>. HIDE DEF e
<1>8. Tiled(e) /\ Drawn(e)
  BY <1>1, <1>4, <1>5, <1>6 DEF Tiled, Drawn
<1>. QED  BY <1>4, <1>7, <1>8 DEF e, w

\* draw (impl.c:589-620) draws all vertices of the destination.
LEMMA DrawSound ==
  ASSUME NEW m, Sound(m), m.ctx.dst \in Targets
  PROVE  /\ Sound(Draw(m))
         /\ Draw(m).ctx = m.ctx
         /\ Draw(m).queue = m.queue
         /\ Grown(m.drw, Draw(m).drw)
         /\ Drawn(Draw(m).drw[m.ctx.dst])
         /\ \A u : DrawnBut(m, u) => DrawnBut(Draw(m), u)
<1>. DEFINE t  == m.ctx.dst
            m1 == Emit(m, t, DrawLen)
            d  == m1.drw[t]
            e  == [d EXCEPT !.draws = @ \o Undrawn(d, m.ctx), !.pos = Len(d.vert)]
            m2 == DrawOf(m1, t, e)
            none == d.pos < Len(d.vert) /\ d.bound = NoImage
<1>1. /\ Sound(m1) /\ m1.ctx = m.ctx /\ m1.queue = m.queue
      /\ Grown(m.drw, m1.drw) /\ \A u : DrawnBut(m, u) => DrawnBut(m1, u)
  BY EmitSound, LengthsAssumption
<1>2. Draw(m) = Blame(m2, "no shader", none)
  BY DEF Draw
<1>3. "no shader" \in Misuses /\ none \in BOOLEAN
  BY DEF Misuses
<1>. HIDE DEF m1
<1>4. d \in DrawStates /\ Tiled(d) /\ m.ctx \in Contexts
  BY <1>1 DEF Sound, Machines
<1>5. e \in DrawStates /\ Tiled(e) /\ Drawn(e) /\ Longer(d, e)
  BY <1>4, DrawnState
<1>. HIDE DEF e, none
<1>6. /\ Sound(m2) /\ Grown(m1.drw, m2.drw) /\ m2.ctx = m.ctx /\ m2.queue = m.queue
      /\ m2.drw[t] = e /\ \A u \in Targets \ {t} : m2.drw[u] = m1.drw[u]
  BY <1>1, <1>5, DrawOfSound
<1>. HIDE DEF m2
<1>7. Grown(m.drw, m2.drw)
  <2>1. /\ m.drw \in [Targets -> DrawStates] /\ m1.drw \in [Targets -> DrawStates]
        /\ m2.drw \in [Targets -> DrawStates]
    BY <1>1, <1>6 DEF Sound, Machines
  <2>. QED  BY <1>1, <1>6, <2>1, GrownTransitive
<1>8. /\ Sound(Draw(m)) /\ Draw(m).ctx = m.ctx
      /\ Draw(m).queue = m.queue /\ Draw(m).drw = m2.drw
  BY <1>2, <1>3, <1>6, BlameSound, ZenonT(40)
<1>9. \A u : DrawnBut(m, u) => DrawnBut(Draw(m), u)
  BY <1>1, <1>5, <1>6, <1>8 DEF DrawnBut
<1>. QED  BY <1>5, <1>6, <1>7, <1>8, <1>9

LEMMA PadSound ==
  ASSUME NEW m, Sound(m), NEW t \in Targets
  PROVE  /\ Sound(Pad(m, t))
         /\ Pad(m, t).ctx = m.ctx
         /\ Pad(m, t).queue = m.queue
         /\ Grown(m.drw, Pad(m, t).drw)
         /\ \A u : DrawnBut(m, u) => DrawnBut(Pad(m, t), u)
<1>. DEFINE n == (Align - (m.drw[t].len % Align)) % Align
<1>1. m.drw[t].len \in Nat
  BY DEF Sound, Machines, DrawStates
<1>2. n \in Nat
  BY <1>1, LengthsAssumption
<1>3. Pad(m, t) = Emit(m, t, n)
  BY DEF Pad
<1>. HIDE DEF n
<1>. QED  BY <1>2, <1>3, EmitSound

\* submit (impl.c:622-661) leaves the destination drawn, whether or not the
\* kernel took the batch.
LEMMA SubmitSound ==
  ASSUME NEW m, NEW fails, Sound(m), m.ctx.dst \in Targets
  PROVE  /\ Sound(Submit(m, fails))
         /\ Submit(m, fails).ctx = m.ctx
         /\ Grown(m.drw, Submit(m, fails).drw)
         /\ DrawnBut(m, m.ctx.dst) => \A u : DrawnBut(Submit(m, fails), u)
<1>. DEFINE t  == m.ctx.dst
            m0 == Draw(m)
            m1 == Pad(m0, t)
            b  == [target |-> t, size |-> Len(m1.drw[t].draws), images |-> Listed(t)]
            m2 == [m1 EXCEPT !.queue = Append(@, b)]
<1>1. Sound(m1) /\ m1.ctx = m.ctx /\ Grown(m.drw, m1.drw)
  <2>1. Sound(m0) /\ m0.ctx = m.ctx /\ Grown(m.drw, m0.drw)
    BY DrawSound
  <2>. HIDE DEF m0
  <2>2. Sound(m1) /\ m1.ctx = m.ctx /\ Grown(m0.drw, m1.drw)
    BY <2>1, PadSound
  <2>3. /\ m.drw \in [Targets -> DrawStates] /\ m0.drw \in [Targets -> DrawStates]
        /\ m1.drw \in [Targets -> DrawStates]
    BY <2>1, <2>2 DEF Sound, Machines
  <2>. HIDE DEF m1
  <2>. QED  BY <2>1, <2>2, <2>3, GrownTransitive
<1>2. DrawnBut(m, t) => \A u : DrawnBut(m1, u)
  <2>1. DrawnBut(m, t) => \A u : DrawnBut(m0, u)
    BY DrawSound, ZenonT(40) DEF DrawnBut
  <2>2. Sound(m0)
    BY DrawSound
  <2>. HIDE DEF m0
  <2>. QED  BY <2>1, <2>2, PadSound
<1>3. /\ Sound(m2) /\ m2.ctx = m1.ctx /\ m2.drw = m1.drw
  <2>. HIDE DEF m1
  <2>1. m1 \in Machines /\ m1.drw[t].draws \in Seq(Draws) /\ m1.queue \in Seq(Batches)
    BY <1>1 DEF Sound, Machines, DrawStates
  <2>2. b \in Batches
    BY <2>1, LenProperties, TargetsAssumption DEF Batches, Listed
  <2>3. b.size = Len(m1.drw[b.target].draws)
    OBVIOUS
  <2>. HIDE DEF b
  <2>4. /\ Append(m1.queue, b) \in Seq(Batches)
        /\ Len(Append(m1.queue, b)) = Len(m1.queue) + 1
        /\ Append(m1.queue, b)[Len(m1.queue) + 1] = b
        /\ \A k \in 1 .. Len(m1.queue) : Append(m1.queue, b)[k] = m1.queue[k]
    BY <2>1, <2>2, AppendProperties
  <2>5. m2 \in Machines /\ m2.ctx = m1.ctx /\ m2.drw = m1.drw /\ m2.queue = Append(m1.queue, b)
    BY <2>1, <2>4 DEF Machines
  <2>6. InStream(Append(m1.queue, b), m1.drw)
    <3>1. SUFFICES ASSUME NEW k \in 1 .. Len(m1.queue) + 1
                   PROVE  Append(m1.queue, b)[k].size
                             <= Len(m1.drw[Append(m1.queue, b)[k].target].draws)
      BY <2>4 DEF InStream
    <3>2. CASE k = Len(m1.queue) + 1
      <4>1. b.size \in Nat
        BY <2>2 DEF Batches
      <4>2. b.size <= Len(m1.drw[b.target].draws)
        BY <2>3, <4>1
      <4>3. Append(m1.queue, b)[k] = b
        BY <2>4, <3>2
      <4>. QED  BY <4>2, <4>3
    <3>3. CASE k # Len(m1.queue) + 1
      <4>1. k \in 1 .. Len(m1.queue)
        BY <2>1, <3>3, LenProperties
      <4>2. InStream(m1.queue, m1.drw)
        BY <1>1 DEF Sound
      <4>. QED  BY <2>4, <4>1, <4>2 DEF InStream
    <3>. QED  BY <3>2, <3>3
  <2>. HIDE DEF m2
  <2>. QED  BY <1>1, <2>5, <2>6 DEF Sound
<1>4. Submit(m, fails) = IF "submit" \in fails THEN m1 ELSE m2
  BY DEF Submit
<1>. HIDE DEF m1, m2
<1>5. DrawnBut(m, t) => \A u : DrawnBut(m2, u)
  BY <1>2, <1>3 DEF DrawnBut
<1>6. CASE "submit" \in fails
  BY <1>1, <1>2, <1>4, <1>6
<1>7. CASE "submit" \notin fails
  BY <1>1, <1>3, <1>4, <1>5, <1>7
<1>. QED  BY <1>6, <1>7

\* What all of setup but submit does to the state: streams grow, nothing
\* that was drawn comes to have undrawn vertices.
Grew(m, r) ==
    /\ Sound(r)
    /\ r.ctx.dst = m.ctx.dst
    /\ Grown(m.drw, r.drw)
    /\ \A u : DrawnBut(m, u) => DrawnBut(r, u)

LEMMA GrewTransitive ==
  ASSUME NEW m, NEW q, NEW r, Sound(m), Grew(m, q), Grew(q, r)
  PROVE  Grew(m, r)
<1>1. /\ m.drw \in [Targets -> DrawStates] /\ q.drw \in [Targets -> DrawStates]
      /\ r.drw \in [Targets -> DrawStates]
  BY DEF Grew, Sound, Machines
<1>2. Grown(m.drw, r.drw)
  BY <1>1, GrownTransitive DEF Grew
<1>. QED  BY <1>2 DEF Grew

LEMMA GrewReflexive ==
  ASSUME NEW m, Sound(m)
  PROVE  Grew(m, m)
<1>1. m.drw \in [Targets -> DrawStates]
  BY DEF Sound, Machines
<1>. QED  BY <1>1, GrownReflexive DEF Grew

LEMMA ForgetSound ==
  ASSUME NEW m, Sound(m)
  PROVE  Grew(m, ForgetSource(m))
<1>. DEFINE r == ForgetSource(m)
<1>1. m \in Machines /\ m.ctx \in Contexts
  BY DEF Sound, Machines
<1>2. [m.ctx EXCEPT !.src = NoImage] \in Contexts /\ [m.ctx EXCEPT !.src = NoImage].dst = m.ctx.dst
  BY <1>1 DEF Contexts
<1>3. /\ r \in Machines /\ r.ctx.dst = m.ctx.dst /\ r.drw = m.drw /\ r.queue = m.queue
  BY <1>1, <1>2 DEF ForgetSource, Machines
<1>. HIDE DEF r
<1>4. Sound(r)
  BY <1>3 DEF Sound
<1>5. Grown(m.drw, r.drw)
  <2>1. m.drw \in [Targets -> DrawStates]
    BY <1>1 DEF Machines
  <2>. QED  BY <1>3, <2>1, GrownReflexive
<1>. QED  BY <1>3, <1>4, <1>5 DEF Grew, DrawnBut, r

LEMMA PreambleSound ==
  ASSUME NEW m, Sound(m), NEW t \in Targets
  PROVE  Grew(m, Preamble(m, t))
<1>1. Preamble(m, t) = Emit(m, t, PreambleLen)
  BY DEF Preamble
<1>. QED  BY <1>1, EmitSound, LengthsAssumption DEF Grew

LEMMA BindSound ==
  ASSUME NEW m, Sound(m), NEW t \in Targets, NEW src \in Sources
  PROVE  Grew(m, Bind(m, t, src))
<1>. DEFINE m1 == Emit(m, t, BindLen)
            d  == m1.drw[t]
            e  == [d EXCEPT !.bound = src]
            r  == DrawOf(m1, t, e)
<1>1. Grew(m, m1)
  BY EmitSound, LengthsAssumption DEF Grew
<1>2. Bind(m, t, src) = r
  BY DEF Bind
<1>. HIDE DEF m1
<1>3. d \in DrawStates /\ Tiled(d) /\ Sound(m1)
  BY <1>1 DEF Grew, Sound, Machines
<1>4. e \in DrawStates /\ e.draws = d.draws /\ e.vert = d.vert /\ e.pos = d.pos
  <2>. HIDE DEF d
  <2>. QED  BY <1>3 DEF DrawStates
<1>5. Tiled(e) /\ Longer(d, e)
  <2>1. Len(d.draws) \in Nat /\ Len(d.vert) \in Nat
    BY <1>3, LenProperties DEF DrawStates
  <2>. HIDE DEF e, d
  <2>. QED  BY <1>3, <1>4, <2>1 DEF Tiled, Longer
<1>. HIDE DEF e
<1>6. /\ Sound(r) /\ Grown(m1.drw, r.drw) /\ r.ctx = m1.ctx
      /\ r.drw[t] = e /\ \A u \in Targets \ {t} : r.drw[u] = m1.drw[u]
  BY <1>3, <1>4, <1>5, DrawOfSound
<1>. HIDE DEF r
<1>7. Grew(m1, r)
  BY <1>4, <1>6 DEF Grew, DrawnBut, Drawn
<1>. QED  BY <1>1, <1>2, <1>7, GrewTransitive

LEMMA SelectSourceSound ==
  ASSUME NEW m, Sound(m), NEW t \in Targets, NEW src \in Sources \cup {NoImage}
  PROVE  /\ Grew(m, SelectSource(m, t, src).m)
         /\ SelectSource(m, t, src).ret \in {0, -1}
<1>. DEFINE r  == SelectSource(m, t, src)
            m1 == IF m.ctx.dst # NoImage THEN Draw(m) ELSE m
<1>1. Grew(m, m1) /\ Sound(m1)
  <2>1. CASE m.ctx.dst # NoImage
    <3>1. m.ctx.dst \in Targets
      BY <2>1 DEF Sound
    <3>. QED  BY <2>1, <3>1, DrawSound DEF Grew
  <2>2. CASE m.ctx.dst = NoImage
    BY <2>2, GrewReflexive
  <2>. QED  BY <2>1, <2>2
<1>2. r = IF src = m.ctx.src THEN Return(m, 0)
          ELSE IF src = NoImage THEN Return(Blame(m1, "NULL source", TRUE), -1)
          ELSE Return(Bind(m1, t, src), 0)
  BY DEF SelectSource
<1>. HIDE DEF r, m1
<1>3. CASE src = m.ctx.src
  BY <1>2, <1>3, GrewReflexive DEF Return, r
<1>4. CASE src # m.ctx.src /\ src = NoImage
  <2>. DEFINE q == Blame(m1, "NULL source", TRUE)
  <2>1. "NULL source" \in Misuses
    BY DEF Misuses
  <2>2. Sound(q) /\ q.ctx = m1.ctx /\ q.drw = m1.drw
    BY <1>1, <2>1, BlameSound
  <2>3. r.m = q /\ r.ret = -1
    BY <1>2, <1>4 DEF Return
  <2>. HIDE DEF q
  <2>4. Grew(m1, q)
    <3>1. Grew(m1, m1)
      BY <1>1, GrewReflexive
    <3>. QED  BY <2>2, <3>1 DEF Grew, DrawnBut
  <2>. QED  BY <1>1, <2>3, <2>4, GrewTransitive DEF r
<1>5. CASE src # m.ctx.src /\ src # NoImage
  <2>. DEFINE q == Bind(m1, t, src)
  <2>1. r.m = q /\ r.ret = 0
    BY <1>2, <1>5 DEF Return
  <2>2. Grew(m1, q)
    BY <1>1, <1>5, BindSound
  <2>. HIDE DEF q
  <2>. QED  BY <1>1, <2>1, <2>2, GrewTransitive DEF r
<1>. QED  BY <1>3, <1>4, <1>5

-----------------------------------------------------------------------------
(* The invariant and the calls of blt.h.                                   *)

IInv == TypeOK /\ DrawsTile

LEMMA IInvSound == IInv => Sound(State) /\ DrawnBut(State, ctx.dst)
<1>. SUFFICES ASSUME IInv PROVE Sound(State) /\ DrawnBut(State, ctx.dst)
  OBVIOUS
<1>1. State \in Machines
  BY DEF IInv, TypeOK, State, Machines
<1>2. State.ctx = ctx /\ State.drw = drw /\ State.queue = queue
  BY DEF State
<1>3. InStream(queue, drw) /\ ctx.dst \in Targets \cup {NoImage}
  BY DEF IInv, TypeOK, InStream
<1>4. \A t \in Targets : Tiled(drw[t]) /\ (t # ctx.dst => Drawn(drw[t]))
  BY DEF IInv, DrawsTile
<1>. HIDE DEF State
<1>. QED  BY <1>1, <1>2, <1>3, <1>4 DEF Sound, DrawnBut

\* What a call leaves for blt.c to make of it: a target that setup agreed to
\* (impl.c:663-920) is the only one that may have vertices not drawn.
Chosen(dst, r) ==
    /\ Sound(r.m)
    /\ Grown(drw, r.m.drw)
    /\ r.m.ctx.dst = ctx.dst
    /\ \/ r.ret = 0 /\ dst \in Targets \cup {NoImage} /\ DrawnBut(r.m, dst)
       \/ r.ret = -1 /\ DrawnBut(r.m, ctx.dst)

LEMMA SetupSound ==
  ASSUME IInv, NEW dst \in Sources \cup {NoImage}, NEW src \in Sources \cup {NoImage},
         NEW msk, NEW fails
  PROVE  Chosen(dst, Setup(dst, src, msk, fails))
<1>. DEFINE m1 == IF ctx.dst # NoImage /\ dst # ctx.dst THEN Submit(State, fails) ELSE State
            wild == dst \in Images /\ "garbage" \in fails
            m2 == Blame(m1, "wild draw", wild)
            m3 == ForgetSource(m1)
            m4 == Preamble(m3, dst)
            r  == Setup(dst, src, msk, fails)
<1>1. Sound(State) /\ State.ctx = ctx /\ State.drw = drw /\ DrawnBut(State, ctx.dst)
  BY IInvSound DEF State
<1>2. /\ Sound(m1) /\ m1.ctx = ctx /\ Grown(drw, m1.drw)
      /\ DrawnBut(m1, ctx.dst) /\ (dst # ctx.dst => \A u : DrawnBut(m1, u))
  <2>1. CASE ctx.dst # NoImage /\ dst # ctx.dst
    <3>1. ctx.dst \in Targets
      BY <1>1, <2>1 DEF Sound
    <3>. QED  BY <1>1, <2>1, <3>1, SubmitSound
  <2>2. CASE ctx.dst # NoImage /\ dst = ctx.dst
    BY <1>1, <2>2, GrewReflexive DEF Grew
  <2>3. CASE ctx.dst = NoImage
    <3>1. \A t \in Targets : t # ctx.dst
      BY <2>3, ImagesAssumption, TargetsAssumption
    <3>2. \A u : DrawnBut(State, u)
      BY <1>1, <3>1 DEF DrawnBut
    <3>. QED  BY <1>1, <2>3, <3>2, GrewReflexive DEF Grew
  <2>. QED  BY <2>1, <2>2, <2>3
<1>3. r = IF msk # NoImage THEN Return(State, -1)
          ELSE IF dst = NoImage THEN Return(m1, 0)
          ELSE IF dst \notin Targets THEN Return(m2, -1)
          ELSE IF dst = ctx.dst THEN SelectSource(m1, dst, src)
          ELSE SelectSource(m4, dst, src)
  BY DEF Setup
<1>4. "wild draw" \in Misuses /\ wild \in BOOLEAN
  BY DEF Misuses
<1>. HIDE DEF m1, wild, r
<1>5. CASE msk # NoImage
  <2>1. r.m = State /\ r.ret = -1
    BY <1>3, <1>5 DEF Return
  <2>. QED  BY <1>1, <2>1, GrewReflexive DEF Chosen, Grew, r
<1>6. CASE msk = NoImage /\ dst = NoImage
  <2>1. r.m = m1 /\ r.ret = 0
    BY <1>3, <1>6 DEF Return
  <2>. QED  BY <1>2, <1>6, <2>1 DEF Chosen, r
<1>7. CASE msk = NoImage /\ dst # NoImage /\ dst \notin Targets
  <2>1. r.m = m2 /\ r.ret = -1
    BY <1>3, <1>7 DEF Return
  <2>2. Sound(m2) /\ m2.ctx = m1.ctx /\ m2.drw = m1.drw
    BY <1>2, <1>4, BlameSound
  <2>. HIDE DEF m2
  <2>. QED  BY <1>2, <2>1, <2>2 DEF Chosen, DrawnBut, r
<1>8. CASE msk = NoImage /\ dst # NoImage /\ dst \in Targets /\ dst = ctx.dst
  <2>1. r = SelectSource(m1, dst, src)
    BY <1>3, <1>8
  <2>2. Grew(m1, r.m) /\ r.ret \in {0, -1}
    BY <1>2, <1>8, <2>1, SelectSourceSound
  <2>3. Grown(drw, r.m.drw)
    <3>1. drw \in [Targets -> DrawStates] /\ m1.drw \in [Targets -> DrawStates]
          /\ r.m.drw \in [Targets -> DrawStates]
      BY <1>1, <1>2, <2>2 DEF Grew, Sound, Machines
    <3>. QED  BY <1>2, <2>2, <3>1, GrownTransitive DEF Grew
  <2>. QED  BY <1>2, <1>8, <2>2, <2>3 DEF Chosen, Grew, r
<1>9. CASE msk = NoImage /\ dst # NoImage /\ dst \in Targets /\ dst # ctx.dst
  <2>1. r = SelectSource(m4, dst, src)
    BY <1>3, <1>9
  <2>2. Grew(m1, m3)
    BY <1>2, ForgetSound
  <2>. HIDE DEF m3
  <2>3. Grew(m3, m4)
    BY <1>9, <2>2, PreambleSound DEF Grew
  <2>. HIDE DEF m4
  <2>4. Grew(m4, r.m) /\ r.ret \in {0, -1}
    BY <1>9, <2>1, <2>3, SelectSourceSound DEF Grew
  <2>5. Grew(m1, r.m)
    <3>1. Grew(m1, m4)
      BY <1>2, <2>2, <2>3, GrewTransitive
    <3>. QED  BY <1>2, <2>4, <3>1, GrewTransitive
  <2>6. Grown(drw, r.m.drw)
    <3>1. drw \in [Targets -> DrawStates] /\ m1.drw \in [Targets -> DrawStates]
          /\ r.m.drw \in [Targets -> DrawStates]
      BY <1>1, <1>2, <2>5 DEF Grew, Sound, Machines
    <3>. QED  BY <1>2, <2>5, <3>1, GrownTransitive DEF Grew
  <2>. QED  BY <1>2, <1>9, <2>4, <2>5, <2>6 DEF Chosen, Grew, r
<1>. QED  BY <1>5, <1>6, <1>7, <1>8, <1>9

\* What blt.c makes of it (blt.c:23-83).
LEMMA FinishSound ==
  ASSUME IInv, NEW r, NEW assigned, NEW chosen, NEW dst, Chosen(dst, r),
         dst \in Targets \cup {NoImage} => assigned \in Contexts /\ assigned.dst = dst,
         Finish(r, assigned, chosen)
  PROVE  IInv' /\ Grown(drw, drw')
<1>1. /\ ctx' = IF r.ret < 0 THEN r.m.ctx ELSE assigned
      /\ drw' = r.m.drw /\ queue' = r.m.queue /\ misuse' = r.m.misuse
      /\ done' = done
  BY DEF Finish
<1>2. Sound(r.m) /\ Grown(drw, drw')
  BY <1>1 DEF Chosen
<1>3. /\ ctx' \in Contexts /\ ctx'.dst \in Targets \cup {NoImage}
      /\ \A t \in Targets : t # ctx'.dst => Drawn(drw'[t])
  BY <1>1, <1>2 DEF Chosen, Sound, Machines, DrawnBut
<1>4. \A t \in Targets : done[t] <= Len(drw'[t].draws)
  <2>1. SUFFICES ASSUME NEW t \in Targets PROVE done[t] <= Len(drw'[t].draws)
    OBVIOUS
  <2>2. drw[t] \in DrawStates /\ drw'[t] \in DrawStates /\ done[t] \in Nat
    BY <1>1, <1>2 DEF IInv, TypeOK, Sound, Machines
  <2>3. Len(drw[t].draws) \in Nat /\ Len(drw'[t].draws) \in Nat
    BY <2>2, LenProperties DEF DrawStates
  <2>4. done[t] <= Len(drw[t].draws) /\ Len(drw[t].draws) <= Len(drw'[t].draws)
    BY <1>2 DEF IInv, TypeOK, Grown, Longer
  <2>. QED  BY <2>2, <2>3, <2>4
<1>5. TypeOK'
  BY <1>1, <1>2, <1>3, <1>4 DEF IInv, TypeOK, Sound, Machines, InStream
<1>6. DrawsTile'
  BY <1>1, <1>2, <1>3 DEF DrawsTile, Sound
<1>. QED  BY <1>2, <1>5, <1>6 DEF IInv

LEMMA BltSetupStep ==
  ASSUME IInv, NEW dst \in Sources \cup {NoImage}, NEW src \in Sources \cup {NoImage},
         NEW dorg \in Origins, NEW sorg \in Origins, NEW msk \in Masks \cup {NoImage},
         BltSetup(dst, dorg, src, sorg, msk)
  PROVE  IInv' /\ Grown(drw, drw')
<1>1. PICK fails \in SUBSET Failures :
        LET r == Setup(dst, src, msk, fails)
        IN  Finish(r, AfterSetup(r.m.ctx, dst, dorg, src, sorg, msk),
                   [pen EXCEPT !.dst = dst, !.dorg = dorg, !.src = src, !.sorg = sorg])
  BY DEF BltSetup
<1>. DEFINE r == Setup(dst, src, msk, fails)
            assigned == AfterSetup(r.m.ctx, dst, dorg, src, sorg, msk)
<1>2. dst \in Sources \cup {NoImage} /\ src \in Sources \cup {NoImage}
  BY DEF IInv, TypeOK, Contexts, Sources
<1>3. Chosen(dst, r)
  BY <1>2, SetupSound
<1>. HIDE DEF r
<1>4. dst \in Targets \cup {NoImage} => assigned \in Contexts /\ assigned.dst = dst
  BY <1>2, <1>3, TargetsAssumption DEF Chosen, AfterSetup, Sound, Machines, Contexts
<1>. QED  BY <1>1, <1>3, <1>4, FinishSound DEF r

LEMMA BltOpStep ==
  ASSUME IInv, NEW op \in Ops, BltOp(op)
  PROVE  IInv' /\ Grown(drw, drw')
<1>. DEFINE r == Setup(ctx.dst, ctx.src, ctx.msk, {})
            assigned == AfterOp(r.m.ctx, op)
<1>1. Finish(r, assigned, pen)
  BY DEF BltOp
<1>2. ctx.dst \in Sources \cup {NoImage} /\ ctx.src \in Sources \cup {NoImage}
  BY DEF IInv, TypeOK, Contexts, Sources
<1>3. Chosen(ctx.dst, r)
  BY <1>2, SetupSound
<1>. HIDE DEF r
<1>4. ctx.dst \in Targets \cup {NoImage} => assigned \in Contexts /\ assigned.dst = ctx.dst
  BY <1>2, <1>3, TargetsAssumption DEF Chosen, AfterOp, Sound, Machines, Contexts
<1>. QED  BY <1>1, <1>3, <1>4, FinishSound DEF r

LEMMA BltDstStep ==
  ASSUME IInv, NEW dst \in Sources \cup {NoImage}, NEW dorg \in Origins, BltDst(dst, dorg)
  PROVE  IInv' /\ Grown(drw, drw')
<1>1. PICK fails \in SUBSET Failures :
        LET r == Setup(dst, ctx.src, ctx.msk, fails)
        IN  Finish(r, AfterDst(r.m.ctx, dst, dorg), [pen EXCEPT !.dst = dst, !.dorg = dorg])
  BY DEF BltDst
<1>. DEFINE r == Setup(dst, ctx.src, ctx.msk, fails)
            assigned == AfterDst(r.m.ctx, dst, dorg)
<1>2. ctx.src \in Sources \cup {NoImage}
  BY DEF IInv, TypeOK, Contexts, Sources
<1>3. Chosen(dst, r)
  BY <1>2, SetupSound
<1>. HIDE DEF r
<1>4. dst \in Targets \cup {NoImage} => assigned \in Contexts /\ assigned.dst = dst
  BY <1>2, <1>3, TargetsAssumption DEF Chosen, AfterDst, Sound, Machines, Contexts
<1>. QED  BY <1>1, <1>3, <1>4, FinishSound DEF r

LEMMA BltSrcStep ==
  ASSUME IInv, NEW src \in Sources \cup {NoImage}, NEW sorg \in Origins, BltSrc(src, sorg)
  PROVE  IInv' /\ Grown(drw, drw')
<1>. DEFINE r == Setup(ctx.dst, src, ctx.msk, {})
            assigned == AfterSrc(r.m.ctx, src, sorg)
<1>1. Finish(r, assigned, [pen EXCEPT !.src = src, !.sorg = sorg])
  BY DEF BltSrc
<1>2. ctx.dst \in Sources \cup {NoImage}
  BY DEF IInv, TypeOK, Contexts, Sources
<1>3. Chosen(ctx.dst, r)
  BY <1>2, SetupSound
<1>. HIDE DEF r
<1>4. ctx.dst \in Targets \cup {NoImage} => assigned \in Contexts /\ assigned.dst = ctx.dst
  BY <1>2, <1>3, TargetsAssumption DEF Chosen, AfterSrc, Sound, Machines, Contexts
<1>. QED  BY <1>1, <1>3, <1>4, FinishSound DEF r

LEMMA BltMaskStep ==
  ASSUME IInv, NEW msk \in Masks \cup {NoImage}, BltMask(msk)
  PROVE  IInv' /\ Grown(drw, drw')
<1>. DEFINE r == Setup(ctx.dst, ctx.src, msk, {})
            assigned == AfterMask(r.m.ctx, msk)
<1>1. Finish(r, assigned, pen)
  BY DEF BltMask
<1>2. ctx.dst \in Sources \cup {NoImage} /\ ctx.src \in Sources \cup {NoImage}
  BY DEF IInv, TypeOK, Contexts, Sources
<1>3. Chosen(ctx.dst, r)
  BY <1>2, SetupSound
<1>. HIDE DEF r
<1>4. ctx.dst \in Targets \cup {NoImage} => assigned \in Contexts /\ assigned.dst = ctx.dst
  BY <1>2, <1>3, TargetsAssumption DEF Chosen, AfterMask, Sound, Machines, Contexts
<1>. QED  BY <1>1, <1>3, <1>4, FinishSound DEF r

\* rect (impl.c:922-939) adds vertices behind those there are, to the
\* destination and to no other target.
LEMMA BltRectStep ==
  ASSUME IInv, ctx.dst # NoImage, NEW rects \in Calls, BltRect(rects)
  PROVE  IInv' /\ Grown(drw, drw')
<1>. DEFINE t  == ctx.dst
            d  == drw[t]
            w  == [i \in 1 .. Len(rects) |-> rects[1]]
            e  == [d EXCEPT !.vert = @ \o w]
            m0 == DrawOf(State, t, e)
            over == Len(e.vert) > VertexCap
            m1 == Blame(m0, "vertex overrun", over)
            r  == Return(m1, 0)
<1>1. /\ Sound(State) /\ State.ctx = ctx /\ State.drw = drw /\ DrawnBut(State, t)
      /\ t \in Targets /\ ctx \in Contexts
  BY IInvSound DEF IInv, TypeOK, State
<1>2. w \in Seq(SUBSET Cells)
  <2>1. rects \in Seq(SUBSET Cells) /\ rects # <<>>
    BY CallsAssumption
  <2>2. Len(rects) \in Nat /\ rects[1] \in SUBSET Cells
    BY <2>1, ElementOfSeq, EmptySeq, LenProperties
  <2>3. w \in [1 .. Len(rects) -> SUBSET Cells]
    BY <2>2
  <2>. HIDE DEF w
  <2>. QED  BY <2>2, <2>3, SeqDef
<1>3. /\ d \in DrawStates /\ Tiled(d)
      /\ Len(d.draws) \in Nat /\ Len(d.vert) \in Nat /\ d.vert \in Seq(SUBSET Cells)
  BY <1>1, LenProperties DEF Sound, Machines, DrawStates
<1>. HIDE DEF w
<1>4. /\ d.vert \o w \in Seq(SUBSET Cells)
      /\ Len(w) \in Nat
      /\ Len(d.vert \o w) = Len(d.vert) + Len(w)
      /\ \A i \in 1 .. Len(d.vert) : (d.vert \o w)[i] = d.vert[i]
  BY <1>2, <1>3, ConcatProperties, LenProperties
<1>5. e \in DrawStates /\ e.vert = d.vert \o w /\ e.draws = d.draws /\ e.pos = d.pos
  <2>. HIDE DEF d
  <2>. QED  BY <1>3, <1>4 DEF DrawStates
<1>6. Tiled(e) /\ Longer(d, e)
  <2>1. d.pos \in Nat
    BY <1>3 DEF DrawStates
  <2>. HIDE DEF e, d
  <2>. QED  BY <1>3, <1>4, <1>5, <2>1 DEF Tiled, Longer
<1>7. Finish(r, ctx, [pen EXCEPT !.rects = rects])
  BY DEF BltRect, w
<1>8. "vertex overrun" \in Misuses /\ over \in BOOLEAN
  BY DEF Misuses
<1>9. r.m = m1 /\ r.ret = 0
  BY DEF Return
<1>. HIDE DEF e, over, d
<1>10. /\ Sound(m0) /\ Grown(drw, m0.drw) /\ m0.ctx = ctx
       /\ \A u \in Targets \ {t} : m0.drw[u] = drw[u]
  BY <1>1, <1>5, <1>6, DrawOfSound DEF d
<1>. HIDE DEF m0
<1>11. Sound(m1) /\ m1.ctx = m0.ctx /\ m1.drw = m0.drw
  BY <1>8, <1>10, BlameSound
<1>. HIDE DEF m1, r
<1>12. Chosen(t, r)
  BY <1>1, <1>9, <1>10, <1>11 DEF Chosen, DrawnBut
<1>. QED  BY <1>1, <1>7, <1>12, FinishSound

\* The GPU reads a stream and changes none.
LEMMA ExecuteStep ==
  ASSUME IInv, Execute
  PROVE  IInv' /\ Grown(drw, drw')
<1>. DEFINE b == Head(queue)
            q == Tail(queue)
<1>1. /\ queue # <<>> /\ queue' = q
      /\ done' = [done EXCEPT ![b.target] = b.size]
      /\ UNCHANGED <<ctx, drw, misuse>>
  BY DEF Execute
<1>2. queue \in Seq(Batches) /\ InStream(queue, drw)
  BY DEF IInv, TypeOK, InStream
<1>3. /\ b \in Batches /\ q \in Seq(Batches) /\ Len(q) = Len(queue) - 1
      /\ \A i \in 1 .. Len(q) : q[i] = queue[i + 1]
  BY <1>1, <1>2, HeadTailProperties
<1>4. b = queue[1] /\ 1 \in 1 .. Len(queue) /\ Len(queue) \in Nat
  BY <1>1, <1>2, EmptySeq, LenProperties
<1>5. b.size \in Nat /\ b.target \in Targets /\ b.size <= Len(drw[b.target].draws)
  <2>1. b.size <= Len(drw[b.target].draws)
    BY <1>2, <1>4 DEF InStream
  <2>. QED  BY <1>3, <2>1 DEF Batches
<1>6. InStream(q, drw)
  <2>1. SUFFICES ASSUME NEW k \in 1 .. Len(q)
                 PROVE  q[k].size <= Len(drw[q[k].target].draws)
    BY DEF InStream
  <2>2. k + 1 \in 1 .. Len(queue)
    BY <1>3, <1>4
  <2>. QED  BY <1>2, <1>3, <2>2 DEF InStream
<1>. HIDE DEF b, q
<1>7. TypeOK'
  <2>1. done' \in [Targets -> Nat] /\ \A t \in Targets : done'[t] <= Len(drw[t].draws)
    BY <1>1, <1>5 DEF IInv, TypeOK
  <2>. QED  BY <1>1, <1>3, <1>6, <2>1 DEF IInv, TypeOK, InStream
<1>8. DrawsTile' /\ Grown(drw, drw')
  <2>1. drw \in [Targets -> DrawStates]
    BY DEF IInv, TypeOK
  <2>2. Grown(drw, drw)
    BY <2>1, GrownReflexive
  <2>. QED  BY <1>1, <2>2 DEF IInv, DrawsTile
<1>. QED  BY <1>7, <1>8 DEF IInv

-----------------------------------------------------------------------------
LEMMA IInvInit == Init => IInv
<1>. SUFFICES ASSUME Init PROVE IInv
  OBVIOUS
<1>1. NewDraw \in DrawStates /\ Tiled(NewDraw) /\ Drawn(NewDraw) /\ Len(NewDraw.draws) = 0
  BY EmptySeq DEF NewDraw, DrawStates, Tiled, Drawn
<1>2. TypeOK
  BY <1>1, ImagesAssumption, OriginsAssumption, OpsAssumption, EmptySeq
     DEF Init, NewContext, TypeOK, Contexts
<1>3. DrawsTile
  BY <1>1 DEF Init, DrawsTile
<1>. QED  BY <1>2, <1>3 DEF IInv

LEMMA IInvNext == IInv /\ [Next]_vars => IInv' /\ Grown(drw, drw')
<1>. SUFFICES ASSUME IInv, [Next]_vars PROVE IInv' /\ Grown(drw, drw')
  OBVIOUS
<1>1. CASE Client
  <2>. USE <1>1
  <2>1. ASSUME NEW rects \in Calls, MayRect(rects), BltRect(rects)
        PROVE  IInv' /\ Grown(drw, drw')
    BY <2>1, BltRectStep DEF MayRect
  <2>. QED
    BY <2>1, BltSetupStep, BltOpStep, BltDstStep, BltSrcStep, BltMaskStep DEF Client
<1>2. CASE Execute
  BY <1>2, ExecuteStep
<1>3. CASE UNCHANGED vars
  <2>1. drw \in [Targets -> DrawStates]
    BY DEF IInv, TypeOK
  <2>2. Grown(drw, drw)
    BY <2>1, GrownReflexive
  <2>. QED  BY <1>3, <2>2 DEF vars, IInv, TypeOK, DrawsTile
<1>. QED  BY <1>1, <1>2, <1>3 DEF Next

LEMMA IInvAlways == Spec => []IInv
<1>1. IInv /\ [Next]_vars => IInv'
  BY IInvNext
<1>. QED  BY <1>1, IInvInit, PTL DEF Spec

\* Longer sequences that agree have the shorter one as their beginning.
LEMMA Beginning ==
  ASSUME NEW S, NEW s \in Seq(S), NEW u \in Seq(S), Len(s) <= Len(u),
         \A i \in 1 .. Len(s) : u[i] = s[i]
  PROVE  SubSeq(u, 1, Len(s)) = s
<1>1. Len(s) \in Nat /\ \A i \in 1 .. Len(s) : s[i] \in S
  BY LenProperties, ElementOfSeq
<1>2. /\ SubSeq(u, 1, Len(s)) \in Seq(S)
      /\ Len(SubSeq(u, 1, Len(s))) = Len(s)
      /\ \A i \in 1 .. Len(s) : SubSeq(u, 1, Len(s))[i] = u[i]
  BY <1>1, SubSeqProperties
<1>. QED  BY <1>1, <1>2, SeqEqual

(* Type correctness: no call makes an image without a struct draw the      *)
(* destination, and every submission, executed or not, ends within its     *)
(* stream (impl.c:622-661).                                                *)
THEOREM AmdgpuTypeOK == Spec => []TypeOK
<1>1. IInv => TypeOK
  BY DEF IInv
<1>. QED  BY <1>1, IInvAlways, PTL

(* Every vertex of blt_rect is drawn once and in order, and none is left   *)
(* undrawn in a target that is not the destination (impl.c:589-620,        *)
(* 676-677, 889-890).                                                      *)
THEOREM AmdgpuDrawsTile == Spec => []DrawsTile
<1>1. IInv => DrawsTile
  BY DEF IInv
<1>. QED  BY <1>1, IInvAlways, PTL

(* Streams and vertex buffers only grow, so that a submission executed     *)
(* late reads what it was made of (impl.c:622-661, 922-939).               *)
THEOREM AmdgpuAppendOnly == Spec => AppendOnly
<1>. DEFINE Kept == \A t \in Targets :
                       /\ Extends(drw'[t].draws, drw[t].draws)
                       /\ Extends(drw'[t].vert, drw[t].vert)
<1>1. IInv /\ [Next]_vars => [Kept]_vars
  <2>1. SUFFICES ASSUME IInv, [Next]_vars, NEW t \in Targets
                 PROVE  /\ Extends(drw'[t].draws, drw[t].draws)
                        /\ Extends(drw'[t].vert, drw[t].vert)
    OBVIOUS
  <2>2. IInv' /\ Longer(drw[t], drw'[t])
    BY <2>1, IInvNext DEF Grown
  <2>3. drw[t] \in DrawStates /\ drw'[t] \in DrawStates
    BY <2>1, <2>2 DEF IInv, TypeOK
  <2>4. /\ drw[t].draws \in Seq(Draws) /\ drw'[t].draws \in Seq(Draws)
        /\ drw[t].vert \in Seq(SUBSET Cells) /\ drw'[t].vert \in Seq(SUBSET Cells)
    BY <2>3 DEF DrawStates
  <2>. QED  BY <2>2, <2>4, Beginning DEF Longer, Extends
<1>. QED  BY <1>1, IInvAlways, PTL DEF Spec, AppendOnly
=============================================================================
