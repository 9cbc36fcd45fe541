--------------------------- MODULE Construct_proofs ---------------------------
(***************************************************************************)
(* Proofs about the constructors, for any table of routines: when each     *)
(* routine is right by itself (LaddersFit, ReleasesInOrder), running them, *)
(* one inside the other, leaves nothing behind when they fail, makes whole *)
(* objects and releases nothing out of turn.                               *)
(***************************************************************************)
EXTENDS Construct, SequenceTheorems, TLAPS

-----------------------------------------------------------------------------
(* The routines that run, of which the innermost alone has control.        *)

\* The calls above the first are made by a step, that has not ended.
Waits(s, n) ==
    /\ s[n].way = "on" /\ s[n].at \in DOMAIN Table[s[n].routine].steps
    /\ StepOf(s[n]).do \in {"call", "try"}
    /\ s[n + 1].routine = StepOf(s[n]).routine

Chained(s) == \A n \in 1 .. Len(s) - 1 : Waits(s, n)

Sequence(s) == s \in Seq(Frames) /\ (\A n \in DOMAIN s : Frame(s[n]) /\ s[n].routine \in Fitting)

\* What a running routine has to answer for: what it made, or what is behind the
\* labels it has still to pass.
Local(f) == IF f.way = "on" THEN Kept(f.routine, f.at) ELSE Rest(f.routine, f.at)

\* No name is held for an object in the making but those.
Covered == \A h \in held : made[h[1]] = Nobody =>
               h[1] = obj /\ \E n \in DOMAIN calls : h[2] \in Local(calls[n])

\* A call fails only where it may: the steps waiting for a routine on its way back.
Blamed == calls # <<>> /\ Top.way = "back" =>
              \A n \in 1 .. Len(calls) - 1 :
                  StepOf(calls[n]).do = "call" => FailsAt(calls[n].routine, calls[n].at)

IInv ==
    /\ TypeOK
    /\ Sequence(calls)
    /\ Chained(calls)
    /\ Blamed
    /\ calls # <<>> => made[obj] = Nobody
    /\ Covered

-----------------------------------------------------------------------------
(* Sequences of calls.                                                     *)

LEMMA Before ==
    ASSUME NEW l \in Nat, NEW n \in 1 .. l, n # l
    PROVE  n \in 1 .. l - 1 /\ n + 1 \in 1 .. l
  OBVIOUS

LEMMA NotLast ==
    ASSUME NEW l \in Nat, NEW n \in 1 .. l - 1
    PROVE  n \in 1 .. l /\ n + 1 \in 1 .. l /\ n # l
  OBVIOUS

LEMMA LastOf ==
    ASSUME NEW s, Sequence(s), s # <<>>
    PROVE  /\ s \in Seq(Frames)
           /\ Len(s) \in Nat /\ DOMAIN s = 1 .. Len(s)
           /\ Len(s) \in 1 .. Len(s)
           /\ \A n \in 1 .. Len(s) : s[n] \in Frames /\ Frame(s[n]) /\ s[n].routine \in Fitting
  <1>1. s \in Seq(Frames)
    BY DEF Sequence
  <1>2. Len(s) \in Nat \ {0}
    BY <1>1, EmptySeq
  <1>3. DOMAIN s = 1 .. Len(s)
    BY <1>1, LenProperties
  <1>4. \A n \in 1 .. Len(s) : s[n] \in Frames
    BY <1>1, ElementOfSeq
  <1> QED
    BY <1>1, <1>2, <1>3, <1>4 DEF Sequence

\* A routine is called.
LEMMA Added ==
    ASSUME NEW s, Sequence(s), Chained(s),
           NEW f \in Frames, Frame(f), f.routine \in Fitting,
           s # <<>> => /\ s[Len(s)].way = "on"
                       /\ s[Len(s)].at \in DOMAIN Table[s[Len(s)].routine].steps
                       /\ StepOf(s[Len(s)]).do \in {"call", "try"}
                       /\ f.routine = StepOf(s[Len(s)]).routine
    PROVE  LET t == Append(s, f)
           IN  /\ Sequence(t) /\ Chained(t) /\ t # <<>>
               /\ Len(t) = Len(s) + 1
               /\ t[Len(t)] = f
               /\ \A n \in 1 .. Len(s) : t[n] = s[n]
  <1> DEFINE t == Append(s, f)
  <1>1. s \in Seq(Frames) /\ Len(s) \in Nat /\ DOMAIN s = 1 .. Len(s)
    BY LenProperties DEF Sequence
  <1>2. t \in Seq(Frames) /\ Len(t) = Len(s) + 1 /\ t[Len(s) + 1] = f
        /\ \A n \in 1 .. Len(s) : t[n] = s[n]
    BY <1>1
  <1>3. DOMAIN t = 1 .. Len(t) /\ t # <<>>
    BY <1>1, <1>2, LenProperties, EmptySeq
  <1> HIDE DEF t
  <1>4. Sequence(t)
    BY <1>1, <1>2, <1>3 DEF Sequence
  <1>5. ASSUME NEW n \in 1 .. Len(t) - 1 PROVE Waits(t, n)
    <2>1. n \in 1 .. Len(s) /\ n + 1 \in 1 .. Len(s) + 1
      BY <1>1, <1>2
    <2>2. t[n] = s[n] /\ s # <<>>
      BY <1>1, <1>2, <2>1, EmptySeq
    <2>3. CASE n = Len(s)
      BY <1>2, <2>2, <2>3 DEF Waits
    <2>4. CASE n # Len(s)
      <3>1. n \in 1 .. Len(s) - 1 /\ n + 1 \in 1 .. Len(s)
        BY <1>1, <2>1, <2>4, Before
      <3>2. Waits(s, n) /\ t[n + 1] = s[n + 1]
        BY <1>2, <3>1 DEF Chained
      <3> QED
        BY <2>2, <3>2 DEF Waits
    <2> QED
      BY <2>3, <2>4
  <1> QED
    BY <1>2, <1>3, <1>4, <1>5 DEF Chained, t

\* The innermost routine moves.
LEMMA Moved ==
    ASSUME NEW s, Sequence(s), Chained(s), s # <<>>,
           NEW f \in Frames, Frame(f), f.routine = s[Len(s)].routine
    PROVE  LET t == [s EXCEPT ![Len(s)] = f]
           IN  /\ Sequence(t) /\ Chained(t) /\ t # <<>>
               /\ Len(t) = Len(s)
               /\ t[Len(t)] = f
               /\ \A n \in 1 .. Len(s) - 1 : t[n] = s[n]
  <1> DEFINE t == [s EXCEPT ![Len(s)] = f]
  <1>1. /\ s \in Seq(Frames) /\ Len(s) \in Nat /\ DOMAIN s = 1 .. Len(s)
        /\ Len(s) \in 1 .. Len(s) /\ s[Len(s)].routine \in Fitting
    BY LastOf
  <1>2. t \in Seq(Frames) /\ Len(t) = Len(s)
        /\ \A n \in 1 .. Len(s) : t[n] = IF n = Len(s) THEN f ELSE s[n]
    BY <1>1, ExceptSeq
  <1> HIDE DEF t
  <1>3. DOMAIN t = 1 .. Len(t) /\ t # <<>>
    BY <1>1, <1>2, LenProperties, EmptySeq
  <1>4. t[Len(t)] = f /\ \A n \in 1 .. Len(s) - 1 : t[n] = s[n]
    BY <1>1, <1>2, NotLast
  <1>5. Sequence(t)
    <2>1. \A n \in DOMAIN t : t[n] = f \/ (n \in DOMAIN s /\ t[n] = s[n])
      BY <1>1, <1>2, <1>3
    <2> QED
      BY <1>1, <1>2, <2>1 DEF Sequence
  <1>6. ASSUME NEW n \in 1 .. Len(t) - 1 PROVE Waits(t, n)
    <2>1. n \in 1 .. Len(s) - 1 /\ n + 1 \in 1 .. Len(s)
      BY <1>1, <1>2, NotLast
    <2>2. t[n] = s[n] /\ t[n + 1].routine = s[n + 1].routine
      BY <1>2, <1>4, <2>1
    <2>3. Waits(s, n)
      BY <2>1 DEF Chained
    <2> QED
      BY <2>2, <2>3 DEF Waits
  <1> QED
    BY <1>2, <1>3, <1>4, <1>5, <1>6 DEF Chained, t

\* The innermost routine returns, and its caller, or what stands for it, goes on.
LEMMA Returned ==
    ASSUME NEW s, Sequence(s), Chained(s), Len(s) > 1,
           NEW f \in Frames, Frame(f), f.routine \in Fitting,
           f.routine = s[Len(s) - 1].routine \/ Len(s) = 2
    PROVE  LET t == Append(SubSeq(s, 1, Len(s) - 2), f)
           IN  /\ Sequence(t) /\ Chained(t) /\ t # <<>>
               /\ Len(t) = Len(s) - 1
               /\ t[Len(t)] = f
               /\ \A n \in 1 .. Len(s) - 2 : t[n] = s[n]
  <1> DEFINE l == Len(s) - 2
             u == SubSeq(s, 1, l)
             t == Append(u, f)
  <1>1. /\ s \in Seq(Frames) /\ Len(s) \in Nat /\ DOMAIN s = 1 .. Len(s)
        /\ \A n \in 1 .. Len(s) : s[n] \in Frames /\ Frame(s[n]) /\ s[n].routine \in Fitting
    <2>1. s \in Seq(Frames) /\ Len(s) \in Nat
      BY LenProperties DEF Sequence
    <2>2. s # <<>>
      BY <2>1, EmptySeq
    <2> QED
      BY <2>2, LastOf
  <1>2. l \in Nat /\ \A n \in 1 .. l : n \in 1 .. Len(s)
    BY <1>1
  <1> HIDE DEF l
  <1>3. u \in Seq(Frames) /\ Len(u) = l /\ \A n \in 1 .. l : u[n] = s[n]
    <2>1. /\ u \in Seq(Frames)
          /\ Len(u) = IF 1 <= l THEN l - 1 + 1 ELSE 0
          /\ \A i \in 1 .. l - 1 + 1 : u[i] = s[1 + i - 1]
      BY <1>1, <1>2, SubSeqProperties
    <2> HIDE DEF u
    <2>2. ASSUME NEW n \in 1 .. l PROVE u[n] = s[n]
      <3>1. n \in 1 .. l - 1 + 1 /\ 1 + n - 1 = n
        BY <1>2
      <3> QED
        BY <2>1, <3>1
    <2> QED
      BY <1>2, <2>1, <2>2
  <1> HIDE DEF u
  <1>4. t \in Seq(Frames) /\ Len(t) = l + 1 /\ t[l + 1] = f /\ \A n \in 1 .. l : t[n] = s[n]
    BY <1>2, <1>3
  <1> HIDE DEF t
  <1>5. DOMAIN t = 1 .. Len(t) /\ t # <<>>
    BY <1>2, <1>4, LenProperties, EmptySeq
  <1>6. Sequence(t)
    <2>1. \A n \in DOMAIN t : t[n] = f \/ (n \in 1 .. Len(s) /\ t[n] = s[n])
      BY <1>2, <1>4, <1>5
    <2> QED
      BY <1>1, <1>4, <2>1 DEF Sequence
  <1>7. ASSUME NEW n \in 1 .. Len(t) - 1 PROVE Waits(t, n)
    <2>1. n \in 1 .. l /\ n \in 1 .. Len(s) - 1 /\ Len(s) # 2 /\ Len(s) - 1 = l + 1
      BY <1>1, <1>2, <1>4 DEF l
    <2>2. t[n] = s[n] /\ Waits(s, n)
      BY <1>4, <2>1 DEF Chained
    <2>3. t[n + 1].routine = s[n + 1].routine
      <3>1. CASE n = l
        BY <1>4, <2>1, <3>1
      <3>2. CASE n # l
        <4>1. n + 1 \in 1 .. l
          BY <1>2, <2>1, <3>2
        <4> QED
          BY <1>4, <4>1
      <3> QED
        BY <3>1, <3>2
    <2> QED
      BY <2>2, <2>3 DEF Waits
  <1>8. Len(t) = Len(s) - 1 /\ t[Len(t)] = f /\ \A n \in 1 .. Len(s) - 2 : t[n] = s[n]
    BY <1>1, <1>4 DEF l
  <1>9. Chained(t)
    BY <1>7 DEF Chained
  <1> QED
    BY <1>5, <1>6, <1>8, <1>9 DEF t, u, l

-----------------------------------------------------------------------------
(* What there is along a routine.                                          *)

LEMMA KeptGrows ==
    ASSUME NEW r \in DOMAIN Table, NEW k \in Nat \ {0}
    PROVE  (Kept(r, k) \ Losses(r, k)) \cup Gains(r, k) \subseteq Kept(r, k + 1)
  <1>1. k + 1 - 1 = k
    OBVIOUS
  <1>2. Kept(r, k + 1)
            = UNION {Gains(r, j) \ UNION {Losses(r, m) : m \in j + 1 .. k} : j \in 1 .. k}
    BY <1>1 DEF Kept
  <1>3. ASSUME NEW x \in Kept(r, k), x \notin Losses(r, k) PROVE x \in Kept(r, k + 1)
    <2>1. PICK j \in 1 .. k - 1 :
              x \in Gains(r, j) /\ x \notin UNION {Losses(r, m) : m \in j + 1 .. k - 1}
      BY <1>3 DEF Kept
    <2>2. j \in 1 .. k /\ \A m \in j + 1 .. k : m = k \/ m \in j + 1 .. k - 1
      OBVIOUS
    <2>3. x \notin UNION {Losses(r, m) : m \in j + 1 .. k}
      BY <1>3, <2>1, <2>2
    <2> QED
      BY <1>2, <2>1, <2>2, <2>3
  <1>4. ASSUME NEW x \in Gains(r, k) PROVE x \in Kept(r, k + 1)
    <2>1. k \in 1 .. k /\ k + 1 .. k = {}
      OBVIOUS
    <2>2. x \notin UNION {Losses(r, m) : m \in k + 1 .. k}
      BY <2>1
    <2> QED
      BY <1>2, <1>4, <2>1, <2>2
  <1> QED
    BY <1>3, <1>4

LEMMA RestShrinks ==
    ASSUME NEW r \in DOMAIN Table, NEW k \in Nat \ {0}
    PROVE  Rest(r, k) \ Table[r].exits[k] \subseteq Rest(r, k - 1)
  <1>1. \A j \in 1 .. k : j = k \/ j \in 1 .. k - 1
    OBVIOUS
  <1> QED
    BY <1>1 DEF Rest

LEMMA RestEnds == ASSUME NEW r PROVE Rest(r, 0) = {}
  <1>1. 1 .. 0 = {}
    OBVIOUS
  <1> QED
    BY <1>1 DEF Rest

\* What a routine that fits says of one of its steps.
LEMMA FitsAt ==
    ASSUME NEW r \in Fitting, NEW k \in DOMAIN Table[r].steps
    PROVE  /\ r \in DOMAIN Table
           /\ k \in 1 .. Len(Table[r].steps) /\ k \in Nat \ {0}
           /\ k + 1 \in 1 .. Len(Table[r].steps) + 1
           /\ WellFormed(Table[r].steps[k], Len(Table[r].exits))
           /\ Table[r].steps[k].do = "try" => Kept(r, k) = {}
           /\ FailsAt(r, k) => \A e \in Table[r].steps[k].errs \ {Unseen} :
                                   Kept(r, k) \ Table[r].steps[k].undo \subseteq Rest(r, e + 1)
           /\ Table[r].steps[k].do # "drop" => Losses(r, k) = {}
  <1>1. r \in DOMAIN Table
    BY DEF Fitting
  <1>2. Len(Table[r].steps) \in Nat /\ k \in 1 .. Len(Table[r].steps)
    BY <1>1, TableAssumption
  <1>3. k \in Nat \ {0} /\ k + 1 \in 1 .. Len(Table[r].steps) + 1
    BY <1>2
  <1>4. /\ WellFormed(Table[r].steps[k], Len(Table[r].exits))
        /\ Table[r].steps[k].do = "try" => Kept(r, k) = {}
        /\ FailsAt(r, k) => \A e \in Table[r].steps[k].errs \ {Unseen} :
                                Kept(r, k) \ Table[r].steps[k].undo \subseteq Rest(r, e + 1)
    BY DEF Fitting, FittingStep, FailsAt
  <1> QED
    BY <1>1, <1>2, <1>3, <1>4 DEF Losses, TakesAway

\* A frame goes on to the next step.
LEMMA NextFrame ==
    ASSUME NEW f \in Frames, f.routine \in Fitting, f.way = "on",
           f.at \in DOMAIN Table[f.routine].steps
    PROVE  LET g == [f EXCEPT !.at = @ + 1]
           IN  g \in Frames /\ Frame(g) /\ g.routine = f.routine /\ g.way = "on" /\ g.at = f.at + 1
  <1>1. f.at + 1 \in 1 .. Len(Table[f.routine].steps) + 1 /\ f.at + 1 \in Nat
    BY FitsAt
  <1> QED
    BY <1>1 DEF Frames, Frame

\* A frame jumps to one of the labels its step may jump to.
LEMMA LabelFrame ==
    ASSUME NEW f \in Frames, f.routine \in Fitting,
           f.at \in DOMAIN Table[f.routine].steps, NEW e \in StepOf(f).errs, e # Unseen
    PROVE  LET g == Label(f, e)
           IN  g \in Frames /\ Frame(g) /\ g.routine = f.routine /\ g.way = "back" /\ g.at = e + 1
  <1>1. f.routine \in DOMAIN Table
    BY DEF Frames
  <1>2. e \in 0 .. Len(Table[f.routine].exits) - 1
    BY FitsAt DEF WellFormed, StepOf
  <1>3. Len(Table[f.routine].exits) \in Nat
    BY <1>1, TableAssumption
  <1>4. e + 1 \in 0 .. Len(Table[f.routine].exits) /\ e + 1 \in Nat
    BY <1>2, <1>3
  <1> QED
    BY <1>4 DEF Frames, Frame, Label

-----------------------------------------------------------------------------
(* The three ways in which the calls change.                               *)

LEMMA TopOf ==
    ASSUME IInv, calls # <<>>
    PROVE  /\ obj \in Objects /\ made[obj] = Nobody
           /\ Len(calls) \in Nat /\ Len(calls) \in 1 .. Len(calls) /\ DOMAIN calls = 1 .. Len(calls)
           /\ Top \in Frames /\ Frame(Top)
           /\ Top.routine \in Fitting /\ Top.routine \in DOMAIN Table
  <1>1. obj \in Objects /\ made[obj] = Nobody /\ Sequence(calls)
    BY DEF IInv, TypeOK
  <1>2. /\ Len(calls) \in Nat /\ Len(calls) \in 1 .. Len(calls) /\ DOMAIN calls = 1 .. Len(calls)
        /\ Top \in Frames /\ Frame(Top) /\ Top.routine \in Fitting
    BY <1>1, LastOf DEF Top
  <1> QED
    BY <1>1, <1>2 DEF Frames

LEMMA CallerOf ==
    ASSUME IInv, calls # <<>>, Inner
    PROVE  /\ Len(calls) - 1 \in 1 .. Len(calls) - 1 /\ Len(calls) - 1 \in DOMAIN calls
           /\ Caller \in Frames /\ Caller.routine \in Fitting
           /\ Caller.way = "on" /\ Caller.at \in DOMAIN Table[Caller.routine].steps
           /\ StepOf(Caller).do \in {"call", "try"}
           /\ Top.routine = StepOf(Caller).routine
  <1>1. Len(calls) \in Nat /\ Len(calls) > 1 /\ DOMAIN calls = 1 .. Len(calls)
    BY TopOf DEF Inner
  <1>2. Len(calls) - 1 \in 1 .. Len(calls) - 1 /\ Len(calls) - 1 \in DOMAIN calls
        /\ Len(calls) - 1 + 1 = Len(calls)
    BY <1>1
  <1>3. Waits(calls, Len(calls) - 1) /\ Sequence(calls)
    BY <1>2 DEF IInv, Chained
  <1>4. Caller \in Frames /\ Caller.routine \in Fitting
    BY <1>1, <1>2, <1>3, LastOf DEF Caller
  <1> QED
    BY <1>2, <1>3, <1>4 DEF Waits, Caller, Top

\* The innermost routine moves, and what it had to answer for it answers for, or
\* it is no longer held.
LEMMA MoveKeeps ==
    ASSUME IInv, calls # <<>>, NEW f \in Frames, Frame(f), f.routine = Top.routine,
           calls' = Move(f), UNCHANGED <<made, obj>>, held' \subseteq Objects \X Everything,
           f.way = "back" => \A n \in 1 .. Len(calls) - 1 :
               StepOf(calls[n]).do = "call" => FailsAt(calls[n].routine, calls[n].at),
           \A h \in held' : made[h[1]] = Nobody =>
               h[1] = obj /\ (h[2] \in Local(f) \/ (h \in held /\ h[2] \notin Local(Top)))
    PROVE  IInv'
  <1>1. /\ Sequence(calls') /\ Chained(calls') /\ calls' # <<>>
        /\ Len(calls') = Len(calls)
        /\ calls'[Len(calls')] = f
        /\ \A n \in 1 .. Len(calls) - 1 : calls'[n] = calls[n]
    <2>1. Sequence(calls) /\ Chained(calls) /\ f.routine = calls[Len(calls)].routine
      BY DEF IInv, Top
    <2> DEFINE t == [calls EXCEPT ![Len(calls)] = f]
    <2>2. calls' = t
      BY DEF Move
    <2>3. /\ Sequence(t) /\ Chained(t) /\ t # <<>>
          /\ Len(t) = Len(calls)
          /\ t[Len(t)] = f
          /\ \A n \in 1 .. Len(calls) - 1 : t[n] = calls[n]
      BY <2>1, Moved
    <2> HIDE DEF t
    <2> QED
      BY <2>2, <2>3
  <1>2. calls' \in Seq(Frames) /\ (\A n \in DOMAIN calls' : Frame(calls'[n]))
        /\ DOMAIN calls' = 1 .. Len(calls)
    BY <1>1, LenProperties DEF Sequence
  <1>3. TypeOK'
    BY <1>1, <1>2 DEF IInv, TypeOK, Frame
  <1>4. Covered'
    <2>1. ASSUME NEW h \in held', made'[h[1]] = Nobody
          PROVE  h[1] = obj' /\ \E n \in DOMAIN calls' : h[2] \in Local(calls'[n])
      <3>1. h[1] = obj /\ (h[2] \in Local(f) \/ (h \in held /\ h[2] \notin Local(Top)))
        BY <2>1
      <3>2. CASE h[2] \in Local(f)
        <4>1. Len(calls) \in DOMAIN calls' /\ calls'[Len(calls)] = f
          BY <1>1, <1>2, TopOf
        <4> QED
          BY <3>1, <3>2, <4>1
      <3>3. CASE h \in held /\ h[2] \notin Local(Top)
        <4>1. PICK n \in DOMAIN calls : h[2] \in Local(calls[n])
          BY <2>1, <3>3 DEF IInv, Covered
        <4>2. n # Len(calls) /\ n \in 1 .. Len(calls)
          BY <3>3, <4>1, TopOf DEF Top
        <4>3. n \in 1 .. Len(calls) - 1
          BY <4>2, TopOf, Before
        <4> QED
          BY <1>1, <1>2, <3>1, <4>1, <4>2, <4>3
      <3> QED
        BY <3>1, <3>2, <3>3
    <2> QED
      BY <2>1 DEF Covered, Local
  <1>5. Blamed'
    <2>1. Top' = f
      BY <1>1 DEF Top
    <2> QED
      BY <1>1, <2>1 DEF Blamed, StepOf, FailsAt, MayStop
  <1>6. made'[obj'] = Nobody
    BY TopOf
  <1> QED
    BY <1>1, <1>3, <1>4, <1>5, <1>6 DEF IInv, Sequence, Chained, Waits, Frame, StepOf

\* A routine returns, and f stands for it and its caller from here on.
LEMMA ReturnKeeps ==
    ASSUME IInv, calls # <<>>, Inner, NEW f \in Frames, Frame(f), f.routine \in Fitting,
           f.routine = Caller.routine \/ Len(calls) = 2,
           calls' = Above(f), UNCHANGED <<made, held, obj>>,
           f.way = "back" => Top.way = "back",
           Local(Top) \cup Local(Caller) \subseteq Local(f)
    PROVE  IInv'
  <1>0. Len(calls) \in Nat /\ Len(calls) > 1
    BY TopOf DEF Inner
  <1>1. /\ Sequence(calls') /\ Chained(calls') /\ calls' # <<>>
        /\ Len(calls') = Len(calls) - 1
        /\ calls'[Len(calls')] = f
        /\ \A n \in 1 .. Len(calls) - 2 : calls'[n] = calls[n]
    BY <1>0, Returned DEF IInv, Above, Caller
  <1>2. calls' \in Seq(Frames) /\ (\A n \in DOMAIN calls' : Frame(calls'[n]))
        /\ DOMAIN calls' = 1 .. Len(calls) - 1
    BY <1>1, LenProperties DEF Sequence
  <1>3. TypeOK'
    BY <1>1, <1>2 DEF IInv, TypeOK, Frame
  <1>4. Covered'
    <2>1. ASSUME NEW h \in held', made'[h[1]] = Nobody
          PROVE  h[1] = obj' /\ \E n \in DOMAIN calls' : h[2] \in Local(calls'[n])
      <3>1. PICK n \in DOMAIN calls : h[1] = obj /\ h[2] \in Local(calls[n])
        BY <2>1 DEF IInv, Covered
      <3>2. n \in 1 .. Len(calls)
        BY TopOf
      <3>3. CASE n \in 1 .. Len(calls) - 2
        <4>1. n \in 1 .. Len(calls) - 1
          BY <1>0, <3>3
        <4> QED
          BY <1>1, <1>2, <3>1, <3>3, <4>1
      <3>4. CASE n = Len(calls) \/ n = Len(calls) - 1
        <4>1. h[2] \in Local(f)
          BY <3>1, <3>4 DEF Top, Caller
        <4>2. Len(calls) - 1 \in DOMAIN calls' /\ calls'[Len(calls) - 1] = f
          BY <1>0, <1>1, <1>2
        <4> QED
          BY <3>1, <4>1, <4>2
      <3>5. n \in 1 .. Len(calls) - 2 \/ n = Len(calls) \/ n = Len(calls) - 1
        BY <1>0, <3>2
      <3> QED
        BY <3>3, <3>4, <3>5
    <2> QED
      BY <2>1 DEF Covered, Local
  <1>5. Blamed'
    <2>1. Top' = f
      BY <1>1 DEF Top
    <2>2. \A n \in 1 .. Len(calls) - 2 : n \in 1 .. Len(calls) - 1
      BY <1>0
    <2>3. Len(calls') - 1 = Len(calls) - 2
      BY <1>0, <1>1
    <2> QED
      BY <1>1, <2>1, <2>2, <2>3 DEF IInv, Blamed, StepOf, FailsAt, MayStop
  <1>6. made'[obj'] = Nobody
    BY TopOf
  <1> QED
    BY <1>1, <1>3, <1>4, <1>5, <1>6 DEF IInv, Sequence, Chained, Waits, Frame, StepOf

-----------------------------------------------------------------------------
(* The steps.                                                              *)

LEMMA IInvInit == Init => IInv
  <1> SUFFICES ASSUME Init PROVE IInv
    OBVIOUS
  <1>1. calls \in Seq(Frames) /\ Len(calls) = 0 /\ DOMAIN calls = {} /\ calls = <<>>
    BY EmptySeq DEF Init
  <1>2. TypeOK
    BY <1>1 DEF Init, TypeOK
  <1>3. Sequence(calls) /\ Chained(calls)
    BY <1>1 DEF Sequence, Chained
  <1>4. Blamed /\ Covered
    BY <1>1 DEF Blamed, Covered, Init
  <1> QED
    BY <1>1, <1>2, <1>3, <1>4 DEF IInv

LEMMA BeginKeeps ==
    ASSUME IInv, NEW o \in Objects, NEW r \in Entries, Begin(o, r), LaddersFit'
    PROVE  IInv'
  <1> DEFINE f == [routine |-> r, way |-> "on", at |-> 1]
  <1>1. r \in DOMAIN Table
    BY EntriesAssumption
  <1>2. calls' = <<f>> /\ calls = <<>>
    BY DEF Begin
  <1>3. f \in Frames
    BY <1>1 DEF Frames
  <1>4. Frame(f)
    <2>1. Len(Table[r].steps) \in Nat
      BY <1>1, TableAssumption
    <2>2. 1 \in 1 .. Len(Table[r].steps) + 1
      BY <2>1
    <2> QED
      BY <2>2 DEF Frame
  <1> HIDE DEF f
  <1>5. calls' \in Seq(Frames) /\ Len(calls') = 1 /\ calls'[1] = f /\ calls' # <<>>
        /\ DOMAIN calls' = {1}
    BY <1>2, <1>3
  <1>6. r \in Fitting
    BY <1>5 DEF LaddersFit, Top, f
  <1>7. Sequence(calls') /\ Chained(calls')
    BY <1>3, <1>4, <1>5, <1>6 DEF Sequence, Chained, f
  <1>8. \A h \in held : made[h[1]] # Nobody
    <2>1. DOMAIN calls = {}
      BY <1>2
    <2> QED
      BY <2>1 DEF IInv, Covered
  <1>9. TypeOK'
    BY <1>4, <1>5, NobodyAssumption DEF Begin, IInv, TypeOK, Frame
  <1>10. Blamed' /\ Covered'
    BY <1>5, <1>8 DEF Blamed, Covered, Begin
  <1> QED
    BY <1>7, <1>9, <1>10 DEF IInv, Begin, Sequence, Chained, Waits, Frame, StepOf

LEMMA DestroyKeeps ==
    ASSUME IInv, NEW o \in Objects, Destroy(o)
    PROVE  IInv'
  <1>1. made' = [made EXCEPT ![o] = Gone] /\ held' \subseteq held /\ UNCHANGED <<calls, obj>>
    BY DEF Destroy, Release
  <1>2. TypeOK'
    BY <1>1 DEF IInv, TypeOK, Frame
  <1>3. calls = <<>>
    BY DEF Destroy
  <1>4. ASSUME NEW h \in held' PROVE made'[h[1]] # Nobody
    <2>1. DOMAIN calls = {}
      BY <1>3
    <2>2. h \in held /\ h[1] \in Objects /\ made[h[1]] # Nobody
      BY <1>1, <2>1 DEF IInv, TypeOK, Covered
    <2> QED
      BY <1>1, <2>2, NobodyAssumption DEF IInv, TypeOK
  <1>5. Sequence(calls)' /\ Chained(calls)' /\ Blamed'
    BY <1>1, <1>3 DEF IInv, Sequence, Chained, Waits, Blamed, Frame, StepOf
  <1>6. Covered'
    BY <1>4 DEF Covered
  <1> QED
    BY <1>1, <1>2, <1>3, <1>5, <1>6 DEF IInv

\* The frame that has control, at one of its steps.
LEMMA GoingAt ==
    ASSUME IInv, Going
    PROVE  /\ calls # <<>> /\ Top.way = "on"
           /\ Top.at \in DOMAIN Table[Top.routine].steps /\ Top.at \in Nat \ {0}
           /\ StepOf(Top).names \subseteq Everything
           /\ Local(Top) = Kept(Top.routine, Top.at)
           /\ LET g == [Top EXCEPT !.at = @ + 1]
              IN  /\ g \in Frames /\ Frame(g) /\ g.routine = Top.routine /\ g.way = "on"
                  /\ Local(g) = Kept(Top.routine, Top.at + 1)
  <1>1. calls # <<>> /\ Top.way = "on" /\ Top.at \in DOMAIN Table[Top.routine].steps
    BY DEF Going
  <1>2. Top \in Frames /\ Top.routine \in Fitting /\ Top.routine \in DOMAIN Table
    BY <1>1, TopOf
  <1>3. Top.at \in Nat \ {0}
    BY <1>1, <1>2, FitsAt
  <1>4. StepOf(Top).names \subseteq Everything
    BY <1>1, <1>2 DEF StepOf, Everything
  <1> QED
    BY <1>1, <1>2, <1>3, <1>4, NextFrame DEF Local

LEMMA MakesKeeps == ASSUME IInv, Makes PROVE IInv'
  <1> DEFINE r == Top.routine
             k == Top.at
             f == [Top EXCEPT !.at = @ + 1]
  <1>1. Going /\ calls # <<>> /\ StepOf(Top).do = "make"
    BY DEF Makes, Going
  <1>2. /\ f \in Frames /\ Frame(f) /\ f.routine = r /\ f.way = "on"
        /\ Local(f) = Kept(r, k + 1) /\ Local(Top) = Kept(r, k)
        /\ k \in DOMAIN Table[r].steps /\ k \in Nat \ {0}
        /\ StepOf(Top).names \subseteq Everything
    BY <1>1, GoingAt
  <1>3. r \in Fitting /\ r \in DOMAIN Table /\ obj \in Objects
    BY <1>1, TopOf
  <1>4. Gains(r, k) = StepOf(Top).names /\ Losses(r, k) = {}
    BY <1>1 DEF Gains, Adds, Losses, TakesAway, StepOf
  <1>5. Local(Top) \cup StepOf(Top).names \subseteq Local(f)
    BY <1>2, <1>3, <1>4, KeptGrows
  <1>6. calls' = Move(f) /\ UNCHANGED <<made, obj>>
        /\ held' = held \cup ({obj} \X StepOf(Top).names)
    BY DEF Makes, Ahead
  <1>7. held' \subseteq Objects \X Everything
    BY <1>2, <1>3, <1>6 DEF IInv, TypeOK
  <1>8. \A h \in held' : made[h[1]] = Nobody =>
            h[1] = obj /\ (h[2] \in Local(f) \/ (h \in held /\ h[2] \notin Local(Top)))
    BY <1>5, <1>6 DEF IInv, Covered
  <1> HIDE DEF f
  <1> QED
    BY <1>1, <1>2, <1>6, <1>7, <1>8, MoveKeeps

LEMMA DropsKeeps == ASSUME IInv, Drops PROVE IInv'
  <1> DEFINE r == Top.routine
             k == Top.at
             f == [Top EXCEPT !.at = @ + 1]
  <1>1. Going /\ calls # <<>> /\ StepOf(Top).do = "drop"
    BY DEF Drops, Going
  <1>2. /\ f \in Frames /\ Frame(f) /\ f.routine = r /\ f.way = "on"
        /\ Local(f) = Kept(r, k + 1) /\ Local(Top) = Kept(r, k)
        /\ k \in DOMAIN Table[r].steps /\ k \in Nat \ {0}
    BY <1>1, GoingAt
  <1>3. r \in Fitting /\ r \in DOMAIN Table
    BY <1>1, TopOf
  <1>4. Losses(r, k) = StepOf(Top).names
    BY <1>1 DEF Losses, TakesAway, StepOf
  <1>5. Local(Top) \ StepOf(Top).names \subseteq Local(f)
    BY <1>2, <1>3, <1>4, KeptGrows
  <1>6. calls' = Move(f) /\ UNCHANGED <<made, obj>>
        /\ held' = held \ ({obj} \X StepOf(Top).names)
    BY DEF Drops, Ahead, Release
  <1>7. held' \subseteq Objects \X Everything
    BY <1>6 DEF IInv, TypeOK
  <1>8. ASSUME NEW h \in held', made[h[1]] = Nobody
        PROVE  h[1] = obj /\ (h[2] \in Local(f) \/ (h \in held /\ h[2] \notin Local(Top)))
    <2>0. h \in Objects \X Everything
      BY <1>7
    <2>1. h \in held /\ h \notin {obj} \X StepOf(Top).names /\ h[1] = obj /\ h = <<h[1], h[2]>>
      BY <1>6, <1>8, <2>0 DEF IInv, Covered
    <2>2. h[2] \notin StepOf(Top).names
      BY <2>1
    <2> QED
      BY <1>5, <2>1, <2>2
  <1> HIDE DEF f
  <1> QED
    BY <1>1, <1>2, <1>6, <1>7, <1>8, MoveKeeps

LEMMA EntersKeeps == ASSUME IInv, Enters, LaddersFit' PROVE IInv'
  <1> DEFINE f == [routine |-> StepOf(Top).routine, way |-> "on", at |-> 1]
  <1>1. Going /\ calls # <<>> /\ StepOf(Top).do \in {"call", "try"}
    BY DEF Enters, Going
  <1>2. /\ Top.way = "on" /\ Top.at \in DOMAIN Table[Top.routine].steps /\ Top.routine \in Fitting
        /\ Len(calls) \in Nat /\ DOMAIN calls = 1 .. Len(calls)
    BY <1>1, GoingAt, TopOf
  <1>3. f.routine \in DOMAIN Table
    BY <1>1, <1>2, FitsAt DEF WellFormed, StepOf
  <1>4. f \in Frames
    BY <1>3 DEF Frames
  <1>5. Frame(f)
    <2>1. Len(Table[f.routine].steps) \in Nat
      BY <1>3, TableAssumption
    <2>2. 1 \in 1 .. Len(Table[f.routine].steps) + 1
      BY <2>1
    <2> QED
      BY <2>2 DEF Frame
  <1>6. calls' = Append(calls, f) /\ UNCHANGED <<made, held, obj>>
    BY DEF Enters
  <1>7. f.way = "on" /\ f.at = 1 /\ f.routine = StepOf(Top).routine
    OBVIOUS
  <1> HIDE DEF f
  <1>8. Len(calls') = Len(calls) + 1 /\ calls'[Len(calls')] = f /\ calls' # <<>>
    BY <1>4, <1>6, EmptySeq DEF IInv, TypeOK
  <1>9. f.routine \in Fitting
    BY <1>7, <1>8 DEF LaddersFit, Top
  <1>10. /\ Sequence(calls') /\ Chained(calls')
         /\ \A n \in 1 .. Len(calls) : calls'[n] = calls[n]
    <2> DEFINE t == Append(calls, f)
    <2>1. Sequence(t) /\ Chained(t) /\ \A n \in 1 .. Len(calls) : t[n] = calls[n]
      BY <1>1, <1>2, <1>4, <1>5, <1>7, <1>9, Added DEF IInv, Top
    <2> HIDE DEF t
    <2>2. calls' = t
      BY <1>6 DEF t
    <2> QED
      BY <2>1, <2>2
  <1>11. DOMAIN calls' = 1 .. Len(calls')
    BY <1>10, LenProperties DEF Sequence
  <1>12. TypeOK'
    BY <1>1, <1>6, <1>8, <1>10 DEF IInv, TypeOK, Sequence, Frame
  <1>13. Covered'
    <2>1. \A n \in DOMAIN calls : n \in DOMAIN calls' /\ calls'[n] = calls[n]
      BY <1>2, <1>8, <1>10, <1>11
    <2> QED
      BY <1>6, <2>1 DEF IInv, Covered, Local
  <1>14. Blamed'
    BY <1>7, <1>8 DEF Blamed, Top
  <1> QED
    BY <1>1, <1>6, <1>10, <1>12, <1>13, <1>14
    DEF IInv, Sequence, Chained, Waits, Frame, StepOf

LEMMA FailsKeeps == ASSUME IInv, NEW e \in Labels \cup {Unseen}, Fails(e) PROVE IInv'
  <1> DEFINE r == Top.routine
             k == Top.at
             s == StepOf(Top)
  <1>1. Going /\ calls # <<>> /\ s.do \in {"make", "stop"} /\ e \in s.errs
        /\ UNCHANGED <<made, obj>> /\ held' = held \ ({obj} \X s.undo)
    BY DEF Fails, Going
  <1>2. /\ r \in Fitting /\ r \in DOMAIN Table /\ Top \in Frames
        /\ Len(calls) \in Nat /\ Len(calls) \in 1 .. Len(calls) /\ DOMAIN calls = 1 .. Len(calls)
    BY <1>1, TopOf
  <1>3. k \in DOMAIN Table[r].steps /\ k \in Nat \ {0} /\ Local(Top) = Kept(r, k)
    BY <1>1, GoingAt
  <1>4. held' \subseteq Objects \X Everything
    BY <1>1 DEF IInv, TypeOK
  <1>5. ASSUME NEW h \in held', made[h[1]] = Nobody
        PROVE  h \in held /\ h[1] = obj /\ h[2] \notin s.undo
    <2>1. h \in Objects \X Everything
      BY <1>4
    <2> QED
      BY <1>1, <1>5, <2>1 DEF IInv, Covered
  <1>6. CASE e = Unseen
    <2> DEFINE f == [Top EXCEPT !.at = @ + 1]
    <2>1. f \in Frames /\ Frame(f) /\ f.routine = r /\ f.way = "on" /\ Local(f) = Kept(r, k + 1)
      BY <1>1, GoingAt
    <2>2. Losses(r, k) = {}
      BY <1>1 DEF Losses, TakesAway, StepOf
    <2>3. Local(Top) \subseteq Local(f)
      BY <1>2, <1>3, <2>1, <2>2, KeptGrows
    <2>4. calls' = Move(f)
      BY <1>6 DEF Fails, Ahead
    <2>5. \A h \in held' : made[h[1]] = Nobody =>
              h[1] = obj /\ (h[2] \in Local(f) \/ (h \in held /\ h[2] \notin Local(Top)))
      BY <1>5, <2>3
    <2> HIDE DEF f
    <2> QED
      BY <1>1, <1>4, <2>1, <2>4, <2>5, MoveKeeps
  <1>7. CASE e # Unseen
    <2> DEFINE f == Label(Top, e)
    <2>1. f \in Frames /\ Frame(f) /\ f.routine = r /\ f.way = "back" /\ f.at = e + 1
      BY <1>1, <1>2, <1>3, <1>7, LabelFrame
    <2>2. s.do = "make" =>
              \A n \in 1 .. Len(calls) :
                  <<calls[n].routine[1], StepOf(calls[n]).op>> \in Faults
      BY <1>1, <1>2 DEF Fails, MayFail
    <2>3. FailsAt(r, k)
      BY <1>1, <1>2, <2>2 DEF FailsAt, MayStop, Top, StepOf
    <2>4. Kept(r, k) \ s.undo \subseteq Rest(r, e + 1)
      BY <1>1, <1>2, <1>3, <1>7, <2>3, FitsAt DEF StepOf
    <2>5. Local(Top) \ s.undo \subseteq Local(f)
      BY <1>3, <2>1, <2>4 DEF Local
    <2>6. calls' = Move(f)
      BY <1>7 DEF Fails
    <2>7. ASSUME NEW h \in held', made[h[1]] = Nobody
          PROVE  h[1] = obj /\ (h[2] \in Local(f) \/ (h \in held /\ h[2] \notin Local(Top)))
      BY <1>5, <2>5, <2>7
    <2>8. ASSUME NEW n \in 1 .. Len(calls) - 1, StepOf(calls[n]).do = "call"
          PROVE  FailsAt(calls[n].routine, calls[n].at)
      <3>1. n \in 1 .. Len(calls)
        BY <1>2
      <3>2. CASE s.do = "make"
        BY <2>2, <2>8, <3>1, <3>2 DEF FailsAt, MayStop, StepOf
      <3>3. CASE s.do = "stop"
        <4>1. Inner
          BY <1>2, <2>8 DEF Inner
        <4>2. /\ Caller \in Frames /\ Caller.routine \in Fitting
              /\ Caller.at \in DOMAIN Table[Caller.routine].steps
              /\ StepOf(Caller).do \in {"call", "try"} /\ r = StepOf(Caller).routine
          BY <1>1, <4>1, CallerOf
        <4>3. Plain(r)
          BY <4>2, FitsAt DEF WellFormed, StepOf
        <4> QED
          BY <1>3, <3>3, <4>3 DEF Plain, StepOf
      <3> QED
        BY <1>1, <3>2, <3>3
    <2> HIDE DEF f
    <2> QED
      BY <1>1, <1>4, <2>1, <2>6, <2>7, <2>8, MoveKeeps
  <1> QED
    BY <1>6, <1>7

LEMMA UnwindsKeeps == ASSUME IInv, Unwinds PROVE IInv'
  <1> DEFINE r == Top.routine
             k == Top.at
             f == [Top EXCEPT !.at = @ - 1]
  <1>1. calls # <<>> /\ Top.way = "back" /\ k > 0 /\ UNCHANGED <<made, obj>>
        /\ held' = held \ ({obj} \X Table[r].exits[k]) /\ calls' = Move(f)
    BY DEF Unwinds, Release
  <1>2. Top \in Frames /\ Frame(Top) /\ r \in DOMAIN Table
    BY <1>1, TopOf
  <1>3. Len(Table[r].exits) \in Nat
    BY <1>2, TableAssumption
  <1>4. k \in 0 .. Len(Table[r].exits) /\ k \in Nat
    BY <1>1, <1>2 DEF Frame, Frames
  <1>5. k - 1 \in 0 .. Len(Table[r].exits) /\ k - 1 \in Nat /\ k \in Nat \ {0}
    BY <1>1, <1>3, <1>4
  <1>6. f \in Frames /\ Frame(f) /\ f.routine = r /\ f.way = "back" /\ f.at = k - 1
    BY <1>1, <1>2, <1>5 DEF Frames, Frame
  <1>7. Local(Top) \ Table[r].exits[k] \subseteq Local(f)
    BY <1>1, <1>2, <1>5, <1>6, RestShrinks DEF Local
  <1>8. held' \subseteq Objects \X Everything
    BY <1>1 DEF IInv, TypeOK
  <1>9. ASSUME NEW h \in held', made[h[1]] = Nobody
        PROVE  h[1] = obj /\ (h[2] \in Local(f) \/ (h \in held /\ h[2] \notin Local(Top)))
    <2>1. h \in Objects \X Everything
      BY <1>8
    <2>2. h \in held /\ h[1] = obj /\ h[2] \notin Table[r].exits[k]
      BY <1>1, <1>9, <2>1 DEF IInv, Covered
    <2> QED
      BY <1>7, <2>2
  <1>10. \A n \in 1 .. Len(calls) - 1 :
             StepOf(calls[n]).do = "call" => FailsAt(calls[n].routine, calls[n].at)
    BY <1>1 DEF IInv, Blamed
  <1> HIDE DEF f
  <1> QED
    BY <1>1, <1>6, <1>8, <1>9, <1>10, MoveKeeps

\* A routine that returned leaves no other one running.
LEMMA Alone == ASSUME IInv, calls # <<>>, ~Inner PROVE DOMAIN calls = {1} /\ Top = calls[1]
  <1>1. Len(calls) = 1
    BY TopOf DEF Inner
  <1> QED
    BY <1>1, TopOf DEF Top

LEMMA ClientGoesOn ==
    ASSUME IInv, calls # <<>>, calls' = <<>>, obj' = Nobody, held' = held,
           made' \in [Objects -> DOMAIN Table \cup {Nobody, Gone}],
           \A h \in held : made'[h[1]] # Nobody
    PROVE  IInv'
  <1>1. calls' \in Seq(Frames) /\ Len(calls') = 0 /\ DOMAIN calls' = {}
    BY EmptySeq
  <1>2. TypeOK'
    BY <1>1 DEF IInv, TypeOK, Frame
  <1>3. Sequence(calls)' /\ Chained(calls)'
    BY <1>1 DEF Sequence, Chained
  <1>4. Blamed' /\ Covered'
    BY DEF Blamed, Covered
  <1> QED
    BY <1>2, <1>3, <1>4 DEF IInv

LEMMA ReturnsObjectKeeps == ASSUME IInv, ReturnsObject PROVE IInv'
  <1>1. calls # <<>> /\ calls' = <<>> /\ obj' = Nobody /\ held' = held
        /\ made' = [made EXCEPT ![obj] = Top.routine]
    BY DEF ReturnsObject, Succeeds
  <1>2. obj \in Objects /\ Top.routine \in DOMAIN Table /\ Top.routine # Nobody
    BY <1>1, TopOf, NobodyAssumption
  <1>3. made' \in [Objects -> DOMAIN Table \cup {Nobody, Gone}]
    BY <1>1, <1>2 DEF IInv, TypeOK
  <1>4. \A h \in held : made'[h[1]] # Nobody
    BY <1>1, <1>2 DEF IInv, TypeOK, Covered
  <1> QED
    BY <1>1, <1>3, <1>4, ClientGoesOn

\* A routine that has passed all its labels has nothing left to answer for.
LEMMA NothingLeft == ASSUME IInv, Failed PROVE Local(Top) = {}
  BY RestEnds DEF Failed, Local

LEMMA ReturnsNullKeeps == ASSUME IInv, ReturnsNull PROVE IInv'
  <1>1. calls # <<>> /\ calls' = <<>> /\ obj' = Nobody /\ UNCHANGED <<held, made>>
    BY DEF ReturnsNull, Failed
  <1>2. DOMAIN calls = {1} /\ Local(calls[1]) = {}
    BY <1>1, Alone, NothingLeft DEF ReturnsNull
  <1>3. \A h \in held : made'[h[1]] # Nobody
    BY <1>1, <1>2 DEF IInv, Covered
  <1> QED
    BY <1>1, <1>3, ClientGoesOn DEF IInv, TypeOK

\* Only a routine that a client called tries another.
LEMMA TriedAlone ==
    ASSUME IInv, calls # <<>>, Inner, StepOf(Caller).do = "try"
    PROVE  Len(calls) = 2
  <1>1. Len(calls) \in Nat /\ Len(calls) > 1 /\ DOMAIN calls = 1 .. Len(calls)
    BY TopOf DEF Inner
  <1>2. Caller.routine \in Fitting /\ Caller.at \in DOMAIN Table[Caller.routine].steps
    BY CallerOf
  <1>3. ASSUME Len(calls) # 2 PROVE FALSE
    <2> DEFINE m == Len(calls) - 2
    <2>1. m \in 1 .. Len(calls) - 1 /\ m \in 1 .. Len(calls) /\ m + 1 = Len(calls) - 1
      BY <1>1, <1>3
    <2> HIDE DEF m
    <2>2. Waits(calls, m) /\ Sequence(calls)
      BY <2>1 DEF IInv, Chained
    <2>3. calls[m].routine \in Fitting /\ calls[m + 1] = Caller
      BY <1>1, <2>1, <2>2 DEF Sequence, Caller
    <2>4. Plain(Caller.routine)
      BY <2>2, <2>3, FitsAt DEF Waits, WellFormed, StepOf
    <2> QED
      BY <1>2, <2>4 DEF Plain, StepOf
  <1> QED
    BY <1>3

LEMMA ReturnsTriedKeeps == ASSUME IInv, ReturnsTried PROVE IInv'
  <1>1. calls # <<>> /\ Inner /\ StepOf(Caller).do = "try" /\ calls' = Above(Top)
        /\ UNCHANGED <<made, held, obj>>
    BY DEF ReturnsTried, Succeeds
  <1>2. Top \in Frames /\ Frame(Top) /\ Top.routine \in Fitting
    BY <1>1, TopOf
  <1>3. Caller.routine \in Fitting /\ Caller.way = "on"
        /\ Caller.at \in DOMAIN Table[Caller.routine].steps
    BY <1>1, CallerOf
  <1>4. Local(Caller) = {}
    BY <1>1, <1>3, FitsAt DEF StepOf, Local
  <1>5. Len(calls) = 2
    BY <1>1, TriedAlone
  <1> QED
    BY <1>1, <1>2, <1>4, <1>5, ReturnKeeps

\* What a called routine hands over is what its caller goes on with.
LEMMA HandedOver ==
    ASSUME IInv, Succeeds, Inner, StepOf(Caller).do = "call"
    PROVE  Local(Top) \cup Local(Caller) \subseteq Kept(Caller.routine, Caller.at + 1)
  <1>1. /\ Caller.routine \in Fitting /\ Caller.way = "on"
        /\ Caller.at \in DOMAIN Table[Caller.routine].steps
        /\ Top.routine = StepOf(Caller).routine
    BY CallerOf DEF Succeeds
  <1>2. Top.routine \in Fitting
    BY TopOf DEF Succeeds
  <1>3. Plain(Top.routine)
    BY <1>1, FitsAt DEF WellFormed, StepOf
  <1>4. Kept(Top.routine, Len(Table[Top.routine].steps) + 1) \subseteq Table[Top.routine].gives
    BY <1>2, <1>3 DEF Fitting
  <1>5. Gains(Caller.routine, Caller.at) = Table[Top.routine].gives
        /\ Losses(Caller.routine, Caller.at) = {}
    BY <1>1 DEF Gains, Adds, Losses, TakesAway, StepOf
  <1>6. Caller.routine \in DOMAIN Table /\ Caller.at \in Nat \ {0}
    BY <1>1, FitsAt
  <1>7. Kept(Caller.routine, Caller.at) \cup Table[Top.routine].gives
            \subseteq Kept(Caller.routine, Caller.at + 1)
    BY <1>5, <1>6, KeptGrows
  <1> QED
    BY <1>1, <1>4, <1>7 DEF Local, Succeeds

LEMMA ReturnsToCallerKeeps == ASSUME IInv, ReturnsToCaller PROVE IInv'
  <1> DEFINE f == [Caller EXCEPT !.at = @ + 1]
  <1>1. calls # <<>> /\ Succeeds /\ Inner /\ StepOf(Caller).do = "call" /\ calls' = Above(f)
        /\ UNCHANGED <<made, held, obj>>
    BY DEF ReturnsToCaller, Succeeds
  <1>2. /\ Caller \in Frames /\ Caller.routine \in Fitting /\ Caller.way = "on"
        /\ Caller.at \in DOMAIN Table[Caller.routine].steps
    BY <1>1, CallerOf
  <1>3. f \in Frames /\ Frame(f) /\ f.routine = Caller.routine /\ f.way = "on"
        /\ f.at = Caller.at + 1
    BY <1>2, NextFrame
  <1>4. Local(Top) \cup Local(Caller) \subseteq Local(f)
    BY <1>1, <1>3, HandedOver DEF Local
  <1> HIDE DEF f
  <1> QED
    BY <1>1, <1>2, <1>3, <1>4, ReturnKeeps

LEMMA TriesNextKeeps == ASSUME IInv, TriesNext PROVE IInv'
  <1> DEFINE f == [Caller EXCEPT !.at = @ + 1]
  <1>1. calls # <<>> /\ Failed /\ Inner /\ StepOf(Caller).do = "try" /\ calls' = Above(f)
        /\ UNCHANGED <<made, held, obj>>
    BY DEF TriesNext, Failed
  <1>2. /\ Caller \in Frames /\ Caller.routine \in Fitting /\ Caller.way = "on"
        /\ Caller.at \in DOMAIN Table[Caller.routine].steps
    BY <1>1, CallerOf
  <1>3. f \in Frames /\ Frame(f) /\ f.routine = Caller.routine /\ f.way = "on"
    BY <1>2, NextFrame
  <1>4. Local(Top) = {} /\ Local(Caller) = {}
    BY <1>1, <1>2, NothingLeft, FitsAt DEF StepOf, Local
  <1> HIDE DEF f
  <1> QED
    BY <1>1, <1>2, <1>3, <1>4, ReturnKeeps

LEMMA CallerFailsKeeps == ASSUME IInv, NEW e \in Labels, CallerFails(e) PROVE IInv'
  <1> DEFINE f == Label(Caller, e)
  <1>1. calls # <<>> /\ Failed /\ Inner /\ StepOf(Caller).do = "call" /\ calls' = Above(f)
        /\ e \in StepOf(Caller).errs /\ UNCHANGED <<made, held, obj>> /\ Top.way = "back"
    BY DEF CallerFails, Failed
  <1>2. /\ Caller \in Frames /\ Caller.routine \in Fitting /\ Caller.way = "on"
        /\ Caller.at \in DOMAIN Table[Caller.routine].steps
        /\ Len(calls) - 1 \in 1 .. Len(calls) - 1
    BY <1>1, CallerOf
  <1>3. e # Unseen
    BY DEF Labels, Unseen
  <1>4. f \in Frames /\ Frame(f) /\ f.routine = Caller.routine /\ f.way = "back" /\ f.at = e + 1
    BY <1>1, <1>2, <1>3, LabelFrame
  <1>5. FailsAt(Caller.routine, Caller.at)
    BY <1>1, <1>2 DEF IInv, Blamed, Caller
  <1>6. StepOf(Caller).undo = {}
    BY <1>1, <1>2, FitsAt DEF WellFormed, StepOf
  <1>7. Kept(Caller.routine, Caller.at) \subseteq Rest(Caller.routine, e + 1)
    BY <1>1, <1>2, <1>3, <1>5, <1>6, FitsAt DEF StepOf
  <1>8. Local(Top) \cup Local(Caller) \subseteq Local(f)
    BY <1>1, <1>2, <1>4, <1>7, NothingLeft DEF Local
  <1> HIDE DEF f
  <1> QED
    BY <1>1, <1>2, <1>4, <1>8, ReturnKeeps

\* Every step but those by which a routine begins.
Others ==
    \/ \E o \in Objects : Destroy(o)
    \/ Makes \/ Drops \/ Unwinds
    \/ \E e \in Labels \cup {Unseen} : Fails(e)
    \/ \E e \in Labels : CallerFails(e)
    \/ ReturnsObject \/ ReturnsTried \/ ReturnsToCaller
    \/ ReturnsNull \/ TriesNext
    \/ UNCHANGED vars

LEMMA OthersKeep == ASSUME IInv, Others PROVE IInv'
  <1>1. ASSUME NEW o \in Objects, Destroy(o) PROVE IInv'
    BY <1>1, DestroyKeeps
  <1>2. CASE Makes \/ Drops \/ Unwinds
    BY <1>2, MakesKeeps, DropsKeeps, UnwindsKeeps
  <1>3. ASSUME NEW e \in Labels \cup {Unseen}, Fails(e) PROVE IInv'
    BY <1>3, FailsKeeps
  <1>4. ASSUME NEW e \in Labels, CallerFails(e) PROVE IInv'
    BY <1>4, CallerFailsKeeps
  <1>5. CASE ReturnsObject \/ ReturnsTried \/ ReturnsToCaller
    BY <1>5, ReturnsObjectKeeps, ReturnsTriedKeeps, ReturnsToCallerKeeps
  <1>6. CASE ReturnsNull \/ TriesNext
    BY <1>6, ReturnsNullKeeps, TriesNextKeeps
  <1>7. CASE UNCHANGED vars
    BY <1>7 DEF vars, IInv, TypeOK, Frame, Sequence, Chained, Waits, StepOf, Blamed, Top,
               FailsAt, MayStop, Covered, Local
  <1> QED
    BY <1>1, <1>2, <1>3, <1>4, <1>5, <1>6, <1>7 DEF Others

LEMMA IInvStep == IInv /\ [Next]_vars /\ LaddersFit' => IInv'
  <1>1. [Next]_vars => (\E o \in Objects, r \in Entries : Begin(o, r)) \/ Enters \/ Others
    BY DEF Next, Others
  <1> QED
    BY <1>1, BeginKeeps, EntersKeeps, OthersKeep

-----------------------------------------------------------------------------
(* What there is exactly, and that it is released in order.                *)

LEMMA KeptIs ==
    ASSUME NEW r \in DOMAIN Table, NEW k \in Nat \ {0}
    PROVE  Kept(r, k + 1) = (Kept(r, k) \ Losses(r, k)) \cup Gains(r, k)
  <1>1. k + 1 - 1 = k
    OBVIOUS
  <1>2. Kept(r, k + 1)
            = UNION {Gains(r, j) \ UNION {Losses(r, m) : m \in j + 1 .. k} : j \in 1 .. k}
    BY <1>1 DEF Kept
  <1>3. ASSUME NEW x \in Kept(r, k + 1), x \notin Gains(r, k)
        PROVE  x \in Kept(r, k) /\ x \notin Losses(r, k)
    <2>1. PICK j \in 1 .. k :
              x \in Gains(r, j) /\ x \notin UNION {Losses(r, m) : m \in j + 1 .. k}
      BY <1>2
    <2>2. j # k
      BY <1>3, <2>1
    <2>3. j \in 1 .. k - 1 /\ k \in j + 1 .. k /\ \A m \in j + 1 .. k - 1 : m \in j + 1 .. k
      BY <2>2
    <2>4. x \notin Losses(r, k) /\ x \notin UNION {Losses(r, m) : m \in j + 1 .. k - 1}
      BY <2>1, <2>3
    <2> QED
      BY <2>1, <2>3, <2>4 DEF Kept
  <1> QED
    BY <1>3, KeptGrows

LEMMA KeptFirst == ASSUME NEW r PROVE Kept(r, 1) = {}
  <1>1. 1 .. 1 - 1 = {}
    OBVIOUS
  <1> QED
    BY <1>1 DEF Kept

\* What an orderly routine says of one of its steps.
LEMMA OrderlyAt ==
    ASSUME NEW r \in Orderly, NEW k \in DOMAIN Table[r].steps, NEW s, s = Table[r].steps[k]
    PROVE  /\ r \in Fitting /\ r \in DOMAIN Table /\ k \in Nat \ {0}
           /\ s.do = "drop" => s.names \subseteq Scope[r] /\ Releasable(Kept(r, k), s.names)
           /\ s.do \in {"call", "try"} =>
                  Scope[s.routine] \subseteq Scope[r] /\ Clear(Kept(r, k), s.routine)
           /\ FailsAt(r, k) =>
                  /\ Unseen \notin s.errs
                  /\ s.undo \subseteq Scope[r] /\ Releasable(Kept(r, k), s.undo)
                  /\ \A e \in s.errs : Undone(r, Kept(r, k) \ s.undo, e + 1)
  <1>1. r \in Fitting
    BY DEF Orderly
  <1>2. r \in DOMAIN Table /\ k \in Nat \ {0}
    BY <1>1, FitsAt
  <1> QED
    BY <1>1, <1>2 DEF Orderly, OrderlyRoutine, OrderlyStep, FailsAt

LEMMA OrderlyFrame ==
    ASSUME NEW f, f.routine \in Orderly, f.at \in DOMAIN Table[f.routine].steps
    PROVE  /\ StepOf(f).do = "drop" =>
                  /\ StepOf(f).names \subseteq Scope[f.routine]
                  /\ Releasable(Kept(f.routine, f.at), StepOf(f).names)
           /\ StepOf(f).do \in {"call", "try"} =>
                  /\ Scope[StepOf(f).routine] \subseteq Scope[f.routine]
                  /\ Clear(Kept(f.routine, f.at), StepOf(f).routine)
           /\ FailsAt(f.routine, f.at) =>
                  /\ Unseen \notin StepOf(f).errs
                  /\ StepOf(f).undo \subseteq Scope[f.routine]
                  /\ Releasable(Kept(f.routine, f.at), StepOf(f).undo)
                  /\ \A e \in StepOf(f).errs :
                         Undone(f.routine, Kept(f.routine, f.at) \ StepOf(f).undo, e + 1)
  <1>1. PICK r \in Orderly : r = f.routine
    OBVIOUS
  <1>2. PICK k \in DOMAIN Table[r].steps : k = f.at
    BY <1>1
  <1>3. PICK s : s = Table[r].steps[k]
    OBVIOUS
  <1>4. s = StepOf(f)
    BY <1>1, <1>2, <1>3 DEF StepOf
  <1>5. /\ s.do = "drop" => s.names \subseteq Scope[r] /\ Releasable(Kept(r, k), s.names)
        /\ s.do \in {"call", "try"} =>
               Scope[s.routine] \subseteq Scope[r] /\ Clear(Kept(r, k), s.routine)
        /\ FailsAt(r, k) =>
               /\ Unseen \notin s.errs
               /\ s.undo \subseteq Scope[r] /\ Releasable(Kept(r, k), s.undo)
               /\ \A e \in s.errs : Undone(r, Kept(r, k) \ s.undo, e + 1)
    BY <1>3, OrderlyAt
  <1> QED
    BY <1>1, <1>2, <1>4, <1>5

\* One label down.
LEMMA UndoneNext ==
    ASSUME NEW r \in Orderly, NEW there, NEW k \in Nat \ {0}, k <= Len(Table[r].exits),
           Undone(r, there, k)
    PROVE  /\ Releasable(there, Table[r].exits[k]) /\ Table[r].exits[k] \subseteq Scope[r]
           /\ Undone(r, there \ Table[r].exits[k], k - 1)
  <1> DEFINE x == Table[r].exits
  <1>1. r \in DOMAIN Table /\ Len(x) \in Nat
    BY TableAssumption DEF Orderly, Fitting
  <1>2. k \in 1 .. k /\ k \in 1 .. Len(x) /\ k + 1 .. k = {}
    BY <1>1
  <1>3. x[k] \subseteq Scope[r]
    BY <1>2 DEF Orderly, OrderlyRoutine
  <1>4. Releasable(there, x[k])
    <2>1. UNION {x[m] : m \in k + 1 .. k} = {}
      BY <1>2
    <2>2. there \ {} = there
      OBVIOUS
    <2>3. Releasable(there \ UNION {x[m] : m \in k + 1 .. k}, x[k])
      BY <1>2 DEF Undone
    <2> QED
      BY <2>1, <2>2, <2>3
  <1>5. there \ x[k] \subseteq Rest(r, k - 1)
    BY <1>1, RestShrinks DEF Undone
  <1>6. ASSUME NEW j \in 1 .. k - 1
        PROVE  Releasable((there \ x[k]) \ UNION {x[m] : m \in j + 1 .. k - 1}, x[j])
    <2>1. j \in 1 .. k /\ k \in j + 1 .. k /\ (\A m \in j + 1 .. k - 1 : m \in j + 1 .. k)
          /\ \A m \in j + 1 .. k : m = k \/ m \in j + 1 .. k - 1
      OBVIOUS
    <2>2. UNION {x[m] : m \in j + 1 .. k} = x[k] \cup UNION {x[m] : m \in j + 1 .. k - 1}
      BY <2>1
    <2>3. (there \ x[k]) \ UNION {x[m] : m \in j + 1 .. k - 1}
              = there \ UNION {x[m] : m \in j + 1 .. k}
      BY <2>2
    <2>4. Releasable(there \ UNION {x[m] : m \in j + 1 .. k}, x[j])
      BY <2>1 DEF Undone
    <2> QED
      BY <2>3, <2>4
  <1> QED
    BY <1>3, <1>4, <1>5, <1>6 DEF Undone

LEMMA UndoneEnds == ASSUME NEW r, NEW there, Undone(r, there, 0) PROVE there = {}
  BY RestEnds DEF Undone

-----------------------------------------------------------------------------
(* The names of an object, in any set of pairs.                            *)

NamesIn(h, o) == {k[2] : k \in {g \in h : g[1] = o}}

LEMMA NamesHeld == \A o : Names(o) = NamesIn(held, o)
  BY DEF Names, NamesIn

LEMMA NamesMade ==
    ASSUME NEW h, NEW o, NEW names, NEW g, g = h \cup ({o} \X names)
    PROVE  /\ NamesIn(g, o) = NamesIn(h, o) \cup names
           /\ \A q : q # o => NamesIn(g, q) = NamesIn(h, q)
  <1>1. \A k \in g : k \in h \/ (k[1] = o /\ k[2] \in names)
    OBVIOUS
  <1>2. \A n \in names : <<o, n>> \in g /\ <<o, n>>[1] = o /\ <<o, n>>[2] = n
    OBVIOUS
  <1>3. h \subseteq g
    OBVIOUS
  <1>4. NamesIn(g, o) \subseteq NamesIn(h, o) \cup names
    BY <1>1 DEF NamesIn
  <1>5. NamesIn(h, o) \subseteq NamesIn(g, o)
    BY <1>3 DEF NamesIn
  <1>6. names \subseteq NamesIn(g, o)
    BY <1>2 DEF NamesIn
  <1>7. \A q : q # o => NamesIn(g, q) = NamesIn(h, q)
    BY <1>1, <1>3 DEF NamesIn
  <1> QED
    BY <1>4, <1>5, <1>6, <1>7

LEMMA NamesReleased ==
    ASSUME IInv, NEW o, NEW names, held' = held \ ({o} \X names)
    PROVE  /\ NamesIn(held', o) = NamesIn(held, o) \ names
           /\ \A q : q # o => NamesIn(held', q) = NamesIn(held, q)
  <1>1. \A k \in held' : k \in held /\ (k[1] = o => k[2] \notin names)
    <2>1. held \subseteq Objects \X Everything
      BY DEF IInv, TypeOK
    <2> QED
      BY <2>1
  <1>2. \A k \in held : k[1] # o \/ k[2] \notin names => k \in held'
    OBVIOUS
  <1>3. NamesIn(held', o) \subseteq NamesIn(held, o) \ names
    BY <1>1 DEF NamesIn
  <1>4. NamesIn(held, o) \ names \subseteq NamesIn(held', o)
    BY <1>2 DEF NamesIn
  <1>5. \A q : q # o => NamesIn(held', q) = NamesIn(held, q)
    BY <1>1, <1>2 DEF NamesIn
  <1> QED
    BY <1>3, <1>4, <1>5

LEMMA NothingWrong ==
    ASSUME NEW o, NEW names, Releasable(NamesIn(held, o), names)
    PROVE  Wrong(o, names) = {}
  BY NamesHeld DEF Wrong, Releasable

-----------------------------------------------------------------------------
(* The invariant.                                                          *)

\* What the routines up to the l-th have made and hold.
Outer(s, l) == UNION {Kept(s[n].routine, s[n].at) : n \in 1 .. l}

\* What a routine has of its own: on the way what its steps have made, on the
\* way back something that its labels take back in order.
Owned(f, own) ==
    IF f.way = "on" THEN own = Kept(f.routine, f.at) ELSE Undone(f.routine, own, f.at)

Exact ==
    calls # <<>> => \E own : /\ NamesIn(held, obj) = Outer(calls, Len(calls) - 1) \cup own
                             /\ Owned(Top, own)

\* A routine releases nothing of what those above it hold, nor what that is in.
Cleared(s) ==
    \A n \in DOMAIN s : \A m \in 1 .. n - 1 :
        Clear(Kept(s[m].routine, s[m].at), s[n].routine)

InOrder(s) == \A n \in DOMAIN s : s[n].routine \in Orderly

Whole == \A o \in Objects : made[o] \in DOMAIN Table => NamesIn(held, o) = Table[made[o]].gives

EInv ==
    /\ InOrder(calls)
    /\ Cleared(calls)
    /\ Exact
    /\ Whole
    /\ NoMisuse

LEMMA OuterClear ==
    ASSUME NEW s, NEW l, NEW r, \A m \in 1 .. l : Clear(Kept(s[m].routine, s[m].at), r)
    PROVE  Clear(Outer(s, l), r)
  BY DEF Clear, Outer

LEMMA OuterMore ==
    ASSUME NEW s, NEW l \in Nat \ {0}
    PROVE  Outer(s, l) = Outer(s, l - 1) \cup Kept(s[l].routine, s[l].at)
  <1>1. \A n : n \in 1 .. l <=> n = l \/ n \in 1 .. l - 1
    OBVIOUS
  <1> QED
    BY <1>1 DEF Outer

LEMMA OuterSame ==
    ASSUME NEW s, NEW t, NEW l, \A n \in 1 .. l : s[n] = t[n]
    PROVE  Outer(s, l) = Outer(t, l)
  BY DEF Outer

LEMMA OuterNone == ASSUME NEW s PROVE Outer(s, 0) = {}
  <1>1. 1 .. 0 = {}
    OBVIOUS
  <1> QED
    BY <1>1 DEF Outer

\* What the innermost routine has, and what is around it.
LEMMA TopExact ==
    ASSUME IInv, EInv, calls # <<>>
    PROVE  /\ Top.routine \in Orderly
           /\ Clear(Outer(calls, Len(calls) - 1), Top.routine)
           /\ \E own : /\ NamesIn(held, obj) = Outer(calls, Len(calls) - 1) \cup own
                       /\ Owned(Top, own)
  <1>1. Len(calls) \in DOMAIN calls
    BY TopOf
  <1>2. \A m \in 1 .. Len(calls) - 1 : Clear(Kept(calls[m].routine, calls[m].at), Top.routine)
    BY <1>1 DEF EInv, Cleared, Top
  <1> QED
    BY <1>1, <1>2, OuterClear DEF EInv, InOrder, Exact, Top

\* Nothing changes for the objects that there are.
LEMMA WholeStill ==
    ASSUME IInv, Whole, UNCHANGED made,
           \A o \in Objects : made[o] # Nobody => NamesIn(held', o) = NamesIn(held, o)
    PROVE  Whole'
  BY NobodyAssumption DEF Whole

\* The innermost routine moves, and has what it should.
LEMMA MoveExact ==
    ASSUME IInv, EInv, calls # <<>>, NEW f \in Frames, Frame(f), f.routine = Top.routine,
           calls' = Move(f), UNCHANGED <<made, obj, misuse>>,
           \A o : o # obj => NamesIn(held', o) = NamesIn(held, o),
           NEW own, Owned(f, own), NamesIn(held', obj) = Outer(calls, Len(calls) - 1) \cup own
    PROVE  EInv'
  <1>1. /\ Len(calls) \in Nat /\ Len(calls) \in 1 .. Len(calls) /\ DOMAIN calls = 1 .. Len(calls)
        /\ made[obj] = Nobody
    BY TopOf
  <1>2. /\ Sequence(calls') /\ calls' # <<>> /\ Len(calls') = Len(calls) /\ calls'[Len(calls)] = f
        /\ \A n \in 1 .. Len(calls) - 1 : calls'[n] = calls[n]
    <2>1. Sequence(calls) /\ Chained(calls) /\ f.routine = calls[Len(calls)].routine
      BY DEF IInv, Top
    <2> DEFINE t == [calls EXCEPT ![Len(calls)] = f]
    <2>2. calls' = t
      BY DEF Move
    <2>3. /\ Sequence(t) /\ Chained(t) /\ t # <<>> /\ Len(t) = Len(calls) /\ t[Len(t)] = f
          /\ \A n \in 1 .. Len(calls) - 1 : t[n] = calls[n]
      BY <2>1, Moved
    <2> HIDE DEF t
    <2> QED
      BY <2>2, <2>3
  <1>3. DOMAIN calls' = 1 .. Len(calls)
    BY <1>2, LenProperties DEF Sequence
  <1>4. \A n \in DOMAIN calls' : n \in DOMAIN calls /\ calls'[n].routine = calls[n].routine
    <2>1. \A n \in 1 .. Len(calls) : n # Len(calls) => n \in 1 .. Len(calls) - 1
      BY <1>1, Before
    <2> QED
      BY <1>1, <1>2, <1>3, <2>1 DEF Top
  <1>5. \A n \in DOMAIN calls' : \A m \in 1 .. n - 1 : calls'[m] = calls[m]
    <2>1. \A n \in 1 .. Len(calls) : \A m \in 1 .. n - 1 : m \in 1 .. Len(calls) - 1
      BY <1>1
    <2> QED
      BY <1>2, <1>3, <2>1
  <1>6. InOrder(calls')
    BY <1>4 DEF EInv, InOrder
  <1>7. Cleared(calls')
    BY <1>4, <1>5 DEF EInv, Cleared
  <1>8. Top' = f
    BY <1>2 DEF Top
  <1>9. Outer(calls', Len(calls') - 1) = Outer(calls, Len(calls) - 1)
    BY <1>2, OuterSame
  <1>10. \E x : NamesIn(held', obj') = Outer(calls', Len(calls') - 1) \cup x /\ Owned(f, x)
    BY <1>9
  <1>11. Exact'
    BY <1>2, <1>8, <1>10 DEF Exact
  <1>12. Whole'
    BY <1>1, WholeStill DEF EInv
  <1>13. InOrder(calls)' /\ Cleared(calls)'
    BY <1>6, <1>7 DEF InOrder, Cleared
  <1> QED
    BY <1>11, <1>12, <1>13 DEF EInv, NoMisuse

\* A routine returns, and f, which stands for it and its caller, has what it should.
LEMMA ReturnExact ==
    ASSUME IInv, EInv, calls # <<>>, Inner, NEW f \in Frames, Frame(f), f.routine \in Fitting,
           f.routine = Caller.routine \/ (Len(calls) = 2 /\ f.routine \in Orderly),
           calls' = Above(f), UNCHANGED <<made, held, obj, misuse>>,
           NEW own, Owned(f, own), NamesIn(held, obj) = Outer(calls, Len(calls) - 2) \cup own
    PROVE  EInv'
  <1>1. Len(calls) \in Nat /\ Len(calls) > 1 /\ DOMAIN calls = 1 .. Len(calls)
    BY TopOf DEF Inner
  <1>2. /\ Sequence(calls') /\ calls' # <<>> /\ Len(calls') = Len(calls) - 1
        /\ calls'[Len(calls) - 1] = f
        /\ \A n \in 1 .. Len(calls) - 2 : calls'[n] = calls[n]
    <2>1. /\ Sequence(calls') /\ calls' # <<>> /\ Len(calls') = Len(calls) - 1
          /\ calls'[Len(calls')] = f
          /\ \A n \in 1 .. Len(calls) - 2 : calls'[n] = calls[n]
      BY <1>1, Returned DEF IInv, Above, Caller
    <2> QED
      BY <2>1
  <1>3. DOMAIN calls' = 1 .. Len(calls) - 1
    BY <1>2, LenProperties DEF Sequence
  <1>4. \A n \in DOMAIN calls' :
            n \in DOMAIN calls /\ (n \in 1 .. Len(calls) - 2 \/ n = Len(calls) - 1)
    BY <1>1, <1>3
  <1>5. \A n \in DOMAIN calls' : \A m \in 1 .. n - 1 : calls'[m] = calls[m]
    <2>1. \A n \in 1 .. Len(calls) - 1 : \A m \in 1 .. n - 1 : m \in 1 .. Len(calls) - 2
      BY <1>1
    <2> QED
      BY <1>2, <1>3, <2>1
  <1>6. InOrder(calls')
    BY <1>2, <1>4 DEF EInv, InOrder, Caller
  <1>7. Cleared(calls')
    <2> SUFFICES ASSUME NEW n \in DOMAIN calls', NEW m \in 1 .. n - 1
                 PROVE  Clear(Kept(calls[m].routine, calls[m].at), calls'[n].routine)
      BY <1>5 DEF Cleared
    <2>1. n \in DOMAIN calls /\ (n \in 1 .. Len(calls) - 2 \/ n = Len(calls) - 1)
      BY <1>4
    <2>2. Clear(Kept(calls[m].routine, calls[m].at), calls[n].routine)
      BY <2>1 DEF EInv, Cleared
    <2>3. CASE Len(calls) = 2
      <3>1. n = 1 /\ 1 .. 1 - 1 = {}
        BY <1>3, <2>3
      <3> QED
        BY <3>1
    <2>4. CASE Len(calls) # 2
      BY <1>2, <2>1, <2>2, <2>4 DEF Caller
    <2> QED
      BY <2>3, <2>4
  <1>8. Top' = f
    BY <1>2 DEF Top
  <1>9. Outer(calls', Len(calls') - 1) = Outer(calls, Len(calls) - 2)
    <2>1. Len(calls') - 1 = Len(calls) - 2
      BY <1>1, <1>2
    <2>2. Outer(calls', Len(calls) - 2) = Outer(calls, Len(calls) - 2)
      BY <1>2, OuterSame
    <2> QED
      BY <2>1, <2>2
  <1>10. \E x : NamesIn(held', obj') = Outer(calls', Len(calls') - 1) \cup x /\ Owned(f, x)
    BY <1>9
  <1>11. Exact'
    BY <1>2, <1>8, <1>10 DEF Exact
  <1>12. Whole'
    BY WholeStill DEF EInv
  <1>13. InOrder(calls)' /\ Cleared(calls)'
    BY <1>6, <1>7 DEF InOrder, Cleared
  <1> QED
    BY <1>11, <1>12, <1>13 DEF EInv, NoMisuse

\* A client goes on: nothing is in the making.
LEMMA ClientExact ==
    ASSUME calls' = <<>>, Whole', NoMisuse'
    PROVE  EInv'
  <1>1. DOMAIN calls' = {}
    OBVIOUS
  <1> QED
    BY <1>1 DEF EInv, InOrder, Cleared, Exact

LEMMA EInvInit == Init => EInv
  <1> SUFFICES ASSUME Init PROVE EInv
    OBVIOUS
  <1>1. DOMAIN calls = {} /\ calls = <<>>
    BY DEF Init
  <1>2. Whole /\ NoMisuse
    BY NobodyAssumption DEF Init, Whole, NoMisuse
  <1> QED
    BY <1>1, <1>2 DEF EInv, InOrder, Cleared, Exact

LEMMA BeginExact ==
    ASSUME IInv, EInv, NEW o \in Objects, NEW r \in Entries, Begin(o, r), ReleasesInOrder'
    PROVE  EInv'
  <1> DEFINE f == [routine |-> r, way |-> "on", at |-> 1]
  <1>1. calls' = <<f>> /\ calls = <<>> /\ obj' = o /\ made[o] = Nobody
        /\ UNCHANGED <<made, held, misuse>>
    BY DEF Begin
  <1>2. f.routine = r /\ f.way = "on" /\ f.at = 1
    OBVIOUS
  <1> HIDE DEF f
  <1>3. Len(calls') = 1 /\ calls'[1] = f /\ DOMAIN calls' = {1} /\ calls' # <<>>
    BY <1>1
  <1>4. Top' = f
    BY <1>3 DEF Top
  <1>5. f.routine \in Orderly
    BY <1>2, <1>3, <1>4 DEF ReleasesInOrder
  <1>6. InOrder(calls)' /\ Cleared(calls)'
    <2>1. 1 .. 1 - 1 = {}
      OBVIOUS
    <2> QED
      BY <1>3, <1>5, <2>1 DEF InOrder, Cleared
  <1>7. NamesIn(held, o) = {}
    <2>1. DOMAIN calls = {}
      BY <1>1
    <2> QED
      BY <1>1, <2>1 DEF IInv, Covered, NamesIn
  <1>8. Outer(calls', Len(calls') - 1) = {}
    <2>1. Len(calls') - 1 = 0
      BY <1>3
    <2> QED
      BY <2>1, OuterNone
  <1>9. Owned(f, {}) /\ NamesIn(held', obj') = Outer(calls', Len(calls') - 1) \cup {}
    BY <1>1, <1>2, <1>7, <1>8, KeptFirst DEF Owned
  <1>10. Exact'
    BY <1>4, <1>9 DEF Exact
  <1>11. Whole' /\ NoMisuse'
    BY <1>1 DEF EInv, Whole, NoMisuse
  <1> QED
    BY <1>6, <1>10, <1>11 DEF EInv

LEMMA DestroyExact ==
    ASSUME IInv, EInv, NEW o \in Objects, Destroy(o), ReleasesInOrder
    PROVE  EInv'
  <1> DEFINE names == Releases[made[o]]
  <1>1. /\ made[o] \in DOMAIN Releases /\ made' = [made EXCEPT ![o] = Gone]
        /\ held' = held \ ({o} \X names) /\ misuse' = misuse \cup Wrong(o, names)
        /\ calls' = <<>>
    BY DEF Destroy, Release
  <1>2. made[o] \in DOMAIN Table /\ Releasable(Table[made[o]].gives, names)
    BY <1>1 DEF ReleasesInOrder, Destroyable
  <1> HIDE DEF names
  <1>3. NamesIn(held, o) = Table[made[o]].gives
    BY <1>2 DEF EInv, Whole
  <1>4. Wrong(o, names) = {}
    BY <1>2, <1>3, NothingWrong
  <1>5. \A q : q # o => NamesIn(held', q) = NamesIn(held, q)
    BY <1>1, NamesReleased
  <1>6. Whole'
    <2> SUFFICES ASSUME NEW q \in Objects, made'[q] \in DOMAIN Table
                 PROVE  NamesIn(held', q) = Table[made'[q]].gives
      BY DEF Whole
    <2>1. q # o /\ made'[q] = made[q]
      BY <1>1, GoneAssumption DEF IInv, TypeOK
    <2> QED
      BY <1>5, <2>1 DEF EInv, Whole
  <1>7. NoMisuse'
    BY <1>1, <1>4 DEF EInv, NoMisuse
  <1> QED
    BY <1>1, <1>6, <1>7, ClientExact

LEMMA MakesExact == ASSUME IInv, EInv, Makes PROVE EInv'
  <1> DEFINE r == Top.routine
             k == Top.at
             f == [Top EXCEPT !.at = @ + 1]
             out == Outer(calls, Len(calls) - 1)
             names == StepOf(Top).names
  <1>1. Going /\ calls # <<>> /\ StepOf(Top).do = "make"
    BY DEF Makes, Going
  <1>2. /\ f \in Frames /\ Frame(f) /\ f.routine = r /\ f.way = "on" /\ f.at = k + 1
        /\ k \in DOMAIN Table[r].steps /\ k \in Nat \ {0} /\ Top.way = "on"
    BY <1>1, GoingAt, NextFrame, TopOf
  <1>3. r \in DOMAIN Table
    BY <1>1, TopOf
  <1>4. Gains(r, k) = names /\ Losses(r, k) = {}
    BY <1>1 DEF Gains, Adds, Losses, TakesAway, StepOf
  <1>5. Kept(r, k + 1) = Kept(r, k) \cup names
    BY <1>2, <1>3, <1>4, KeptIs
  <1>6. NamesIn(held, obj) = out \cup Kept(r, k)
    BY <1>1, <1>2, TopExact DEF Owned
  <1>7. calls' = Move(f) /\ UNCHANGED <<made, obj, misuse>> /\ held' = held \cup ({obj} \X names)
    BY DEF Makes, Ahead
  <1> HIDE DEF names
  <1>8. /\ NamesIn(held', obj) = NamesIn(held, obj) \cup names
        /\ \A q : q # obj => NamesIn(held', q) = NamesIn(held, q)
    BY <1>7, NamesMade
  <1>9. NamesIn(held', obj) = out \cup Kept(r, k + 1)
    BY <1>5, <1>6, <1>8
  <1>10. Owned(f, Kept(r, k + 1))
    BY <1>2 DEF Owned
  <1> HIDE DEF f
  <1> QED
    BY <1>1, <1>2, <1>7, <1>8, <1>9, <1>10, MoveExact

\* The innermost routine releases some of what it has, and moves.
LEMMA ReleaseExact ==
    ASSUME IInv, EInv, calls # <<>>, NEW f \in Frames, Frame(f), f.routine = Top.routine,
           calls' = Move(f), UNCHANGED <<made, obj>>,
           NEW own, NEW names,
           NamesIn(held, obj) = Outer(calls, Len(calls) - 1) \cup own,
           names \subseteq Scope[Top.routine], Releasable(own, names),
           held' = held \ ({obj} \X names), misuse' = misuse \cup Wrong(obj, names),
           Owned(f, own \ names)
    PROVE  EInv'
  <1> DEFINE out == Outer(calls, Len(calls) - 1)
             r == Top.routine
  <1>1. Clear(out, r) /\ names \subseteq Scope[r]
    BY TopExact
  <1> HIDE DEF out, r
  <1>2. Releasable(out \cup own, names) /\ (out \cup own) \ names = out \cup (own \ names)
    BY <1>1 DEF Clear, Releasable
  <1>3. Wrong(obj, names) = {}
    BY <1>2, NothingWrong DEF out
  <1>4. /\ NamesIn(held', obj) = NamesIn(held, obj) \ names
        /\ \A q : q # obj => NamesIn(held', q) = NamesIn(held, q)
    BY NamesReleased
  <1>5. NamesIn(held', obj) = out \cup (own \ names)
    BY <1>2, <1>4 DEF out
  <1>6. \A o : o # obj => NamesIn(held', o) = NamesIn(held, o)
    BY <1>4
  <1>7. UNCHANGED misuse
    BY <1>3
  <1> QED
    BY <1>5, <1>6, <1>7, MoveExact DEF out

LEMMA DropsExact == ASSUME IInv, EInv, Drops PROVE EInv'
  <1> DEFINE r == Top.routine
             k == Top.at
             f == [Top EXCEPT !.at = @ + 1]
             names == StepOf(Top).names
  <1>1. Going /\ calls # <<>> /\ StepOf(Top).do = "drop"
    BY DEF Drops, Going
  <1>2. /\ f \in Frames /\ Frame(f) /\ f.routine = r /\ f.way = "on" /\ f.at = k + 1
        /\ k \in DOMAIN Table[r].steps /\ k \in Nat \ {0} /\ Top.way = "on"
    BY <1>1, GoingAt, NextFrame, TopOf
  <1>3. r \in DOMAIN Table /\ r \in Orderly
    BY <1>1, TopOf, TopExact
  <1>4. Gains(r, k) = {} /\ Losses(r, k) = names
    BY <1>1 DEF Gains, Adds, Losses, TakesAway, StepOf
  <1>5. Kept(r, k + 1) = Kept(r, k) \ names
    BY <1>2, <1>3, <1>4, KeptIs
  <1>6. NamesIn(held, obj) = Outer(calls, Len(calls) - 1) \cup Kept(r, k)
    BY <1>1, <1>2, TopExact DEF Owned
  <1>7. names \subseteq Scope[r] /\ Releasable(Kept(r, k), names)
    BY <1>1, <1>2, <1>3, OrderlyFrame
  <1>8. calls' = Move(f) /\ UNCHANGED <<made, obj>> /\ held' = held \ ({obj} \X names)
        /\ misuse' = misuse \cup Wrong(obj, names)
    BY DEF Drops, Ahead, Release
  <1>9. Owned(f, Kept(r, k) \ names)
    BY <1>2, <1>5 DEF Owned
  <1> HIDE DEF f, names
  <1> QED
    BY <1>1, <1>2, <1>6, <1>7, <1>8, <1>9, ReleaseExact

LEMMA UnwindsExact == ASSUME IInv, EInv, Unwinds PROVE EInv'
  <1> DEFINE r == Top.routine
             k == Top.at
             f == [Top EXCEPT !.at = @ - 1]
             names == Table[r].exits[k]
  <1>1. calls # <<>> /\ Top.way = "back" /\ k > 0 /\ UNCHANGED <<made, obj>>
        /\ held' = held \ ({obj} \X names) /\ misuse' = misuse \cup Wrong(obj, names)
        /\ calls' = Move(f)
    BY DEF Unwinds, Release
  <1>2. Top \in Frames /\ Frame(Top) /\ r \in DOMAIN Table /\ r \in Orderly
    BY <1>1, TopOf, TopExact
  <1>3. Len(Table[r].exits) \in Nat
    BY <1>2, TableAssumption
  <1>4. k \in 0 .. Len(Table[r].exits) /\ k \in Nat
    BY <1>1, <1>2 DEF Frame, Frames
  <1>5. k - 1 \in 0 .. Len(Table[r].exits) /\ k - 1 \in Nat /\ k \in Nat \ {0}
        /\ k <= Len(Table[r].exits)
    BY <1>1, <1>3, <1>4
  <1>6. f \in Frames /\ Frame(f) /\ f.routine = r /\ f.way = "back" /\ f.at = k - 1
    BY <1>1, <1>2, <1>5 DEF Frames, Frame
  <1>7. PICK own : /\ NamesIn(held, obj) = Outer(calls, Len(calls) - 1) \cup own
                   /\ Owned(Top, own)
    BY <1>1, TopExact
  <1>8. Undone(r, own, k)
    BY <1>1, <1>7 DEF Owned
  <1>9. Releasable(own, names) /\ names \subseteq Scope[r] /\ Undone(r, own \ names, k - 1)
    BY <1>2, <1>5, <1>8, UndoneNext
  <1>10. Owned(f, own \ names)
    BY <1>6, <1>9 DEF Owned
  <1> HIDE DEF f, names
  <1> QED
    BY <1>1, <1>6, <1>7, <1>9, <1>10, ReleaseExact

\* A step that fails is one that may.
LEMMA FailingStep ==
    ASSUME IInv, NEW e, Fails(e)
    PROVE  /\ Going /\ calls # <<>> /\ e \in StepOf(Top).errs
           /\ FailsAt(Top.routine, Top.at)
  <1>1. Going /\ calls # <<>> /\ e \in StepOf(Top).errs
    BY DEF Fails, Going
  <1>2. Len(calls) \in DOMAIN calls
    BY <1>1, TopOf
  <1>3. CASE StepOf(Top).do = "stop"
    BY <1>1, <1>3 DEF FailsAt, MayStop, StepOf
  <1>4. CASE StepOf(Top).do = "make" /\ MayFail
    <2>1. <<Top.routine[1], StepOf(Top).op>> \in Faults
      BY <1>2, <1>4 DEF MayFail, Top
    <2> QED
      BY <1>1, <1>4, <2>1 DEF FailsAt, MayStop, StepOf
  <1> QED
    BY <1>1, <1>3, <1>4 DEF Fails

LEMMA FailsExact == ASSUME IInv, EInv, NEW e \in Labels \cup {Unseen}, Fails(e) PROVE EInv'
  <1> DEFINE r == Top.routine
             k == Top.at
             s == StepOf(Top)
             f == Label(Top, e)
             names == s.undo
  <1>1. Going /\ calls # <<>> /\ e \in s.errs /\ FailsAt(r, k)
    BY FailingStep
  <1>2. r \in DOMAIN Table /\ r \in Orderly /\ r \in Fitting /\ Top \in Frames
    BY <1>1, TopOf, TopExact
  <1>3. k \in DOMAIN Table[r].steps /\ k \in Nat \ {0} /\ Top.way = "on"
    BY <1>1, GoingAt
  <1>4. /\ Unseen \notin s.errs /\ names \subseteq Scope[r] /\ Releasable(Kept(r, k), names)
        /\ Undone(r, Kept(r, k) \ names, e + 1)
    BY <1>1, <1>2, <1>3, OrderlyFrame
  <1>5. e # Unseen
    BY <1>1, <1>4
  <1>6. f \in Frames /\ Frame(f) /\ f.routine = r /\ f.way = "back" /\ f.at = e + 1
    BY <1>1, <1>2, <1>3, <1>5, LabelFrame
  <1>7. NamesIn(held, obj) = Outer(calls, Len(calls) - 1) \cup Kept(r, k)
    BY <1>1, <1>3, TopExact DEF Owned
  <1>8. calls' = Move(f) /\ UNCHANGED <<made, obj>> /\ held' = held \ ({obj} \X names)
        /\ misuse' = misuse \cup Wrong(obj, names)
    BY <1>5 DEF Fails
  <1>9. Owned(f, Kept(r, k) \ names)
    BY <1>4, <1>6 DEF Owned
  <1> HIDE DEF f, names
  <1> QED
    BY <1>1, <1>4, <1>6, <1>7, <1>8, <1>9, ReleaseExact

LEMMA EntersExact ==
    ASSUME IInv, EInv, Enters, LaddersFit', ReleasesInOrder'
    PROVE  EInv'
  <1> DEFINE f == [routine |-> StepOf(Top).routine, way |-> "on", at |-> 1]
             l == Len(calls)
  <1>1. /\ Going /\ calls # <<>> /\ StepOf(Top).do \in {"call", "try"}
        /\ calls' = Append(calls, f) /\ UNCHANGED <<made, held, obj, misuse>>
    BY DEF Enters, Going
  <1>2. /\ Top.way = "on" /\ Top.at \in DOMAIN Table[Top.routine].steps /\ Top.routine \in Orderly
        /\ l \in Nat \ {0} /\ l \in 1 .. l /\ DOMAIN calls = 1 .. l
    BY <1>1, GoingAt, TopOf, TopExact
  <1>3. f.routine = StepOf(Top).routine /\ f.way = "on" /\ f.at = 1
    OBVIOUS
  <1>4. calls \in Seq(Frames) /\ Sequence(calls')
    BY <1>1, EntersKeeps DEF IInv, TypeOK
  <1> HIDE DEF f, l
  <1>5. /\ Len(calls') = l + 1 /\ calls'[l + 1] = f /\ calls' # <<>> /\ DOMAIN calls' = 1 .. l + 1
        /\ \A n \in 1 .. l : calls'[n] = calls[n]
    <2> DEFINE t == Append(calls, f)
    <2>1. \A n \in 1 .. Len(t) : t[n] = IF n = Len(calls) + 1 THEN f ELSE calls[n]
      BY <1>4
    <2>2. calls' = t /\ calls' \in Seq(Frames)
      BY <1>1, <1>4 DEF Sequence
    <2> HIDE DEF t
    <2>3. DOMAIN calls' = 1 .. Len(calls')
      BY <2>2, LenProperties
    <2>4. Len(calls') = l + 1 /\ calls' # <<>>
      BY <1>4, <2>2, EmptySeq DEF l, t
    <2>5. l + 1 \in 1 .. l + 1 /\ \A n \in 1 .. l : n \in 1 .. l + 1 /\ n # l + 1
      BY <1>2
    <2> QED
      BY <2>1, <2>2, <2>3, <2>4, <2>5 DEF l
  <1>6. Top' = f
    BY <1>5 DEF Top
  <1>7. f.routine \in Orderly
    BY <1>3, <1>5, <1>6 DEF ReleasesInOrder
  <1>8. \A n \in DOMAIN calls' : n = l + 1 \/ (n \in 1 .. l /\ n \in DOMAIN calls)
    BY <1>2, <1>5
  <1>9. InOrder(calls')
    BY <1>5, <1>7, <1>8 DEF EInv, InOrder
  <1>10. Cleared(calls')
    <2> SUFFICES ASSUME NEW n \in DOMAIN calls', NEW m \in 1 .. n - 1
                 PROVE  Clear(Kept(calls'[m].routine, calls'[m].at), calls'[n].routine)
      BY DEF Cleared
    <2>1. m \in 1 .. l /\ calls'[m] = calls[m]
      BY <1>2, <1>5, <1>8
    <2>2. CASE n \in 1 .. l
      BY <1>2, <1>5, <2>1, <2>2 DEF EInv, Cleared
    <2>3. CASE n = l + 1
      <3>1. Clear(Kept(Top.routine, Top.at), f.routine)
            /\ Scope[f.routine] \subseteq Scope[Top.routine]
        BY <1>1, <1>2, <1>3, OrderlyFrame
      <3>2. CASE m = l
        BY <1>5, <2>1, <2>3, <3>1, <3>2 DEF Top, l
      <3>3. CASE m # l
        <4>1. m \in 1 .. l - 1 /\ l \in DOMAIN calls
          BY <1>2, <2>1, <3>3
        <4>2. Clear(Kept(calls[m].routine, calls[m].at), Top.routine)
          BY <4>1 DEF EInv, Cleared, Top, l
        <4>3. Clear(Kept(calls[m].routine, calls[m].at), f.routine)
          BY <3>1, <4>2 DEF Clear
        <4> QED
          BY <1>5, <2>1, <2>3, <4>3
      <3> QED
        BY <3>2, <3>3
    <2> QED
      BY <1>8, <2>2, <2>3
  <1>11. NamesIn(held, obj) = Outer(calls, l - 1) \cup Kept(Top.routine, Top.at)
    BY <1>1, <1>2, TopExact DEF Owned, l
  <1>12. Outer(calls', Len(calls') - 1) = Outer(calls, l - 1) \cup Kept(Top.routine, Top.at)
    <2>1. Len(calls') - 1 = l
      BY <1>2, <1>5
    <2>2. Outer(calls', l) = Outer(calls, l)
      BY <1>5, OuterSame
    <2>3. Outer(calls, l) = Outer(calls, l - 1) \cup Kept(calls[l].routine, calls[l].at)
      BY <1>2, OuterMore
    <2> QED
      BY <2>1, <2>2, <2>3 DEF Top, l
  <1>13. Owned(f, {})
    BY <1>3, KeptFirst DEF Owned
  <1>14. NamesIn(held', obj') = Outer(calls', Len(calls') - 1) \cup {}
    BY <1>1, <1>11, <1>12
  <1>15. Exact'
    BY <1>6, <1>13, <1>14 DEF Exact
  <1>16. Whole' /\ NoMisuse'
    BY <1>1 DEF EInv, Whole, NoMisuse
  <1>17. InOrder(calls)' /\ Cleared(calls)'
    BY <1>9, <1>10 DEF InOrder, Cleared
  <1> QED
    BY <1>15, <1>16, <1>17 DEF EInv

\* What a routine that succeeds ends with is what it gives.
LEMMA GivesAll ==
    ASSUME IInv, EInv, Succeeds
    PROVE  NamesIn(held, obj) = Outer(calls, Len(calls) - 1) \cup Table[Top.routine].gives
  <1>1. calls # <<>> /\ Top.way = "on" /\ Top.at = Len(Table[Top.routine].steps) + 1
    BY DEF Succeeds
  <1>2. Kept(Top.routine, Top.at) = Table[Top.routine].gives
    BY <1>1, TopExact DEF Orderly, OrderlyRoutine
  <1> QED
    BY <1>1, <1>2, TopExact DEF Owned

\* One that failed leaves what there was.
LEMMA LeavesOuter ==
    ASSUME IInv, EInv, Failed
    PROVE  NamesIn(held, obj) = Outer(calls, Len(calls) - 1)
  <1>1. calls # <<>> /\ Top.way = "back" /\ Top.at = 0
    BY DEF Failed
  <1>2. PICK own : /\ NamesIn(held, obj) = Outer(calls, Len(calls) - 1) \cup own
                   /\ Owned(Top, own)
    BY <1>1, TopExact
  <1>3. own = {}
    BY <1>1, <1>2, UndoneEnds DEF Owned
  <1> QED
    BY <1>2, <1>3

LEMMA ReturnsObjectExact == ASSUME IInv, EInv, ReturnsObject PROVE EInv'
  <1>1. Succeeds /\ ~Inner /\ calls # <<>> /\ calls' = <<>> /\ UNCHANGED <<held, misuse>>
        /\ made' = [made EXCEPT ![obj] = Top.routine]
    BY DEF ReturnsObject, Succeeds
  <1>2. Len(calls) - 1 = 0
    BY <1>1, TopOf DEF Inner
  <1>3. NamesIn(held, obj) = Table[Top.routine].gives
    BY <1>1, <1>2, GivesAll, OuterNone
  <1>4. Whole'
    BY <1>1, <1>3 DEF EInv, Whole, IInv, TypeOK
  <1>5. NoMisuse'
    BY <1>1 DEF EInv, NoMisuse
  <1> QED
    BY <1>1, <1>4, <1>5, ClientExact

LEMMA ReturnsNullExact == ASSUME IInv, EInv, ReturnsNull PROVE EInv'
  BY ClientExact DEF ReturnsNull, EInv, Whole, NoMisuse

\* What there was when the caller got to its step.
LEMMA CallerHas ==
    ASSUME IInv, EInv, calls # <<>>, Inner
    PROVE  /\ Outer(calls, Len(calls) - 1)
                  = Outer(calls, Len(calls) - 2) \cup Kept(Caller.routine, Caller.at)
           /\ Caller.routine \in Orderly
  <1>1. Len(calls) \in Nat /\ Len(calls) > 1 /\ DOMAIN calls = 1 .. Len(calls)
    BY TopOf DEF Inner
  <1>2. PICK l \in Nat \ {0} : l = Len(calls) - 1
    <2>1. Len(calls) - 1 \in Nat \ {0}
      BY <1>1
    <2> QED
      BY <2>1
  <1>3. Outer(calls, l) = Outer(calls, l - 1) \cup Kept(calls[l].routine, calls[l].at)
    BY OuterMore
  <1>4. l - 1 = Len(calls) - 2 /\ l \in DOMAIN calls
    BY <1>1, <1>2
  <1> QED
    BY <1>2, <1>3, <1>4 DEF EInv, InOrder, Caller

LEMMA ReturnsTriedExact == ASSUME IInv, EInv, ReturnsTried PROVE EInv'
  <1>1. /\ Succeeds /\ calls # <<>> /\ Inner /\ StepOf(Caller).do = "try" /\ calls' = Above(Top)
        /\ Top.way = "on" /\ UNCHANGED <<made, held, obj, misuse>>
    BY DEF ReturnsTried, Succeeds
  <1>2. Top \in Frames /\ Frame(Top) /\ Top.routine \in Fitting /\ Top.routine \in Orderly
    BY <1>1, TopOf, TopExact
  <1>3. Len(calls) = 2
    BY <1>1, TriedAlone
  <1>4. Kept(Caller.routine, Caller.at) = {}
    BY <1>1, CallerOf, FitsAt DEF StepOf
  <1>5. \E own : /\ NamesIn(held, obj) = Outer(calls, Len(calls) - 1) \cup own /\ Owned(Top, own)
    BY <1>1, TopExact
  <1>6. \E own : /\ NamesIn(held, obj) = Outer(calls, Len(calls) - 2) \cup own /\ Owned(Top, own)
    BY <1>1, <1>4, <1>5, CallerHas
  <1> QED
    BY <1>1, <1>2, <1>3, <1>6, ReturnExact

LEMMA ReturnsToCallerExact == ASSUME IInv, EInv, ReturnsToCaller PROVE EInv'
  <1> DEFINE f == [Caller EXCEPT !.at = @ + 1]
             r == Caller.routine
             k == Caller.at
  <1>1. /\ calls # <<>> /\ Succeeds /\ Inner /\ StepOf(Caller).do = "call" /\ calls' = Above(f)
        /\ UNCHANGED <<made, held, obj, misuse>>
    BY DEF ReturnsToCaller, Succeeds
  <1>2. /\ Caller \in Frames /\ r \in Fitting /\ Caller.way = "on"
        /\ k \in DOMAIN Table[r].steps /\ Top.routine = StepOf(Caller).routine
    BY <1>1, CallerOf
  <1>3. f \in Frames /\ Frame(f) /\ f.routine = r /\ f.way = "on" /\ f.at = k + 1
    BY <1>2, NextFrame
  <1>4. r \in DOMAIN Table /\ k \in Nat \ {0}
    BY <1>2, FitsAt
  <1>5. Gains(r, k) = Table[Top.routine].gives /\ Losses(r, k) = {}
    BY <1>1, <1>2 DEF Gains, Adds, Losses, TakesAway, StepOf
  <1>6. Kept(r, k + 1) = Kept(r, k) \cup Table[Top.routine].gives
    BY <1>4, <1>5, KeptIs
  <1>7. NamesIn(held, obj) = Outer(calls, Len(calls) - 2) \cup Kept(r, k + 1)
    BY <1>1, <1>6, GivesAll, CallerHas
  <1>8. Owned(f, Kept(r, k + 1))
    BY <1>3 DEF Owned
  <1> HIDE DEF f
  <1> QED
    BY <1>1, <1>2, <1>3, <1>7, <1>8, ReturnExact

LEMMA TriesNextExact == ASSUME IInv, EInv, TriesNext PROVE EInv'
  <1> DEFINE f == [Caller EXCEPT !.at = @ + 1]
             r == Caller.routine
             k == Caller.at
  <1>1. /\ calls # <<>> /\ Failed /\ Inner /\ StepOf(Caller).do = "try" /\ calls' = Above(f)
        /\ UNCHANGED <<made, held, obj, misuse>>
    BY DEF TriesNext, Failed
  <1>2. /\ Caller \in Frames /\ r \in Fitting /\ Caller.way = "on"
        /\ k \in DOMAIN Table[r].steps
    BY <1>1, CallerOf
  <1>3. f \in Frames /\ Frame(f) /\ f.routine = r /\ f.way = "on" /\ f.at = k + 1
    BY <1>2, NextFrame
  <1>4. r \in DOMAIN Table /\ k \in Nat \ {0}
    BY <1>2, FitsAt
  <1>5. Gains(r, k) = {} /\ Losses(r, k) = {}
    BY <1>1, <1>2 DEF Gains, Adds, Losses, TakesAway, StepOf
  <1>6. Kept(r, k + 1) = Kept(r, k)
    BY <1>4, <1>5, KeptIs
  <1>7. NamesIn(held, obj) = Outer(calls, Len(calls) - 2) \cup Kept(r, k + 1)
    BY <1>1, <1>6, LeavesOuter, CallerHas
  <1>8. Owned(f, Kept(r, k + 1))
    BY <1>3 DEF Owned
  <1> HIDE DEF f
  <1> QED
    BY <1>1, <1>2, <1>3, <1>7, <1>8, ReturnExact

LEMMA CallerFailsExact == ASSUME IInv, EInv, NEW e \in Labels, CallerFails(e) PROVE EInv'
  <1> DEFINE f == Label(Caller, e)
             r == Caller.routine
             k == Caller.at
  <1>1. /\ calls # <<>> /\ Failed /\ Inner /\ StepOf(Caller).do = "call" /\ calls' = Above(f)
        /\ e \in StepOf(Caller).errs /\ UNCHANGED <<made, held, obj, misuse>> /\ Top.way = "back"
    BY DEF CallerFails, Failed
  <1>2. /\ Caller \in Frames /\ r \in Fitting /\ Caller.way = "on"
        /\ k \in DOMAIN Table[r].steps /\ Len(calls) - 1 \in 1 .. Len(calls) - 1
    BY <1>1, CallerOf
  <1>3. e # Unseen
    BY DEF Labels, Unseen
  <1>4. f \in Frames /\ Frame(f) /\ f.routine = r /\ f.way = "back" /\ f.at = e + 1
    BY <1>1, <1>2, <1>3, LabelFrame
  <1>5. FailsAt(r, k)
    BY <1>1, <1>2 DEF IInv, Blamed, Caller
  <1>6. StepOf(Caller).undo = {}
    BY <1>1, <1>2, FitsAt DEF WellFormed, StepOf
  <1>7. Undone(r, Kept(r, k) \ {}, e + 1)
    BY <1>1, <1>2, <1>5, <1>6, CallerHas, OrderlyFrame
  <1>8. Kept(r, k) \ {} = Kept(r, k)
    OBVIOUS
  <1>9. Owned(f, Kept(r, k))
    BY <1>4, <1>7, <1>8 DEF Owned
  <1>10. NamesIn(held, obj) = Outer(calls, Len(calls) - 2) \cup Kept(r, k)
    BY <1>1, LeavesOuter, CallerHas
  <1> HIDE DEF f
  <1> QED
    BY <1>1, <1>2, <1>4, <1>9, <1>10, ReturnExact

LEMMA OthersExact == ASSUME IInv, EInv, ReleasesInOrder, Others PROVE EInv'
  <1>1. ASSUME NEW o \in Objects, Destroy(o) PROVE EInv'
    BY <1>1, DestroyExact
  <1>2. CASE Makes \/ Drops \/ Unwinds
    BY <1>2, MakesExact, DropsExact, UnwindsExact
  <1>3. ASSUME NEW e \in Labels \cup {Unseen}, Fails(e) PROVE EInv'
    BY <1>3, FailsExact
  <1>4. ASSUME NEW e \in Labels, CallerFails(e) PROVE EInv'
    BY <1>4, CallerFailsExact
  <1>5. CASE ReturnsObject \/ ReturnsTried \/ ReturnsToCaller
    BY <1>5, ReturnsObjectExact, ReturnsTriedExact, ReturnsToCallerExact
  <1>6. CASE ReturnsNull \/ TriesNext
    BY <1>6, ReturnsNullExact, TriesNextExact
  <1>7. CASE UNCHANGED vars
    <2>1. calls' = calls /\ held' = held /\ made' = made /\ obj' = obj /\ misuse' = misuse
      BY <1>7 DEF vars
    <2>2. InOrder(calls)' /\ Cleared(calls)' /\ Whole' /\ NoMisuse'
      BY <2>1 DEF EInv, InOrder, Cleared, Whole, NoMisuse
    <2>3. Outer(calls', Len(calls') - 1) = Outer(calls, Len(calls) - 1) /\ Top' = Top
          /\ NamesIn(held', obj') = NamesIn(held, obj)
      BY <2>1 DEF Top
    <2>4. Exact'
      BY <2>1, <2>3 DEF EInv, Exact
    <2> QED
      BY <2>2, <2>4 DEF EInv
  <1> QED
    BY <1>1, <1>2, <1>3, <1>4, <1>5, <1>6, <1>7 DEF Others

LEMMA EInvStep ==
    IInv /\ EInv /\ [Next]_vars /\ LaddersFit' /\ ReleasesInOrder /\ ReleasesInOrder' => EInv'
  <1>1. [Next]_vars => (\E o \in Objects, r \in Entries : Begin(o, r)) \/ Enters \/ Others
    BY DEF Next, Others
  <1> QED
    BY <1>1, BeginExact, EntersExact, OthersExact

-----------------------------------------------------------------------------
(* A table may be looked at instead of what runs.                          *)

LEMMA UsedHere ==
    ASSUME NEW R, Closed(R), NEW f, f.routine \in R,
           f.at \in DOMAIN Table[f.routine].steps, StepOf(f).do \in {"call", "try"}
    PROVE  StepOf(f).routine \in R
  BY DEF Closed, Uses, StepOf

LEMMA BegunHere ==
    ASSUME NEW R, Closed(R), NEW o \in Objects, NEW r \in Entries, Begin(o, r)
    PROVE  Top'.routine \in R
  <1> DEFINE f == [routine |-> r, way |-> "on", at |-> 1]
  <1>1. calls' = <<f>> /\ f.routine = r
    BY DEF Begin
  <1> HIDE DEF f
  <1>2. Top' = f
    BY <1>1 DEF Top
  <1> QED
    BY <1>1, <1>2 DEF Closed

LEMMA EnteredHere ==
    ASSUME NEW R, Closed(R), IInv, Enters, Top.routine \in R
    PROVE  Top'.routine \in R
  <1> DEFINE f == [routine |-> StepOf(Top).routine, way |-> "on", at |-> 1]
  <1>1. /\ Going /\ StepOf(Top).do \in {"call", "try"} /\ calls' = Append(calls, f)
        /\ f.routine = StepOf(Top).routine
    BY DEF Enters
  <1>2. Top.at \in DOMAIN Table[Top.routine].steps
    BY <1>1, GoingAt
  <1>3. f.routine \in R
    BY <1>1, <1>2, UsedHere
  <1> HIDE DEF f
  <1>4. calls'[Len(calls')] = f
    <2>1. calls \in Seq(Frames)
      BY DEF IInv, TypeOK
    <2> QED
      BY <1>1, <2>1
  <1> QED
    BY <1>3, <1>4 DEF Top

\* The routines that run have been looked at when they began.
LEMMA FittingTop == IInv => LaddersFit
  BY TopOf DEF LaddersFit

LEMMA OrderlyTop == Destroyable /\ IInv /\ EInv => ReleasesInOrder
  BY TopExact DEF ReleasesInOrder

\* A routine that fits runs, and when it calls one that one fits.
LEMMA LaddersFitNext ==
    ASSUME IInv, [Next]_vars, Closed(Fitting)
    PROVE  LaddersFit'
  <1>1. ASSUME NEW o \in Objects, NEW r \in Entries, Begin(o, r) PROVE LaddersFit'
    BY <1>1, BegunHere DEF LaddersFit
  <1>2. CASE Enters
    <2>1. Top.routine \in Fitting
      BY <1>2, TopOf DEF Enters, Going
    <2> QED
      BY <1>2, <2>1, EnteredHere DEF LaddersFit
  <1>3. CASE Others
    <2>1. IInv'
      BY <1>3, OthersKeep
    <2>2. IInv' => LaddersFit'
      BY FittingTop, PTL
    <2> QED
      BY <2>1, <2>2
  <1> QED
    BY <1>1, <1>2, <1>3 DEF Next, Others

LEMMA InOrderNext ==
    ASSUME IInv, EInv, ReleasesInOrder, [Next]_vars, Closed(Orderly)
    PROVE  ReleasesInOrder'
  <1>1. Destroyable /\ Destroyable'
    BY DEF ReleasesInOrder, Destroyable
  <1>2. ASSUME NEW o \in Objects, NEW r \in Entries, Begin(o, r) PROVE ReleasesInOrder'
    BY <1>1, <1>2, BegunHere DEF ReleasesInOrder
  <1>3. CASE Enters
    <2>1. Top.routine \in Orderly
      BY <1>3, TopExact DEF Enters, Going
    <2> QED
      BY <1>1, <1>3, <2>1, EnteredHere DEF ReleasesInOrder
  <1>4. CASE Others
    <2>1. IInv' /\ EInv'
      BY <1>4, OthersKeep, OthersExact
    <2>2. Destroyable' /\ IInv' /\ EInv' => ReleasesInOrder'
      BY OrderlyTop, PTL
    <2> QED
      BY <1>1, <2>1, <2>2
  <1> QED
    BY <1>2, <1>3, <1>4 DEF Next, Others

-----------------------------------------------------------------------------
(* The theorems.                                                           *)

\* When each constructor that begins fits, the running routines form a chain,
\* and what was made for an object not yet returned is what they will release.
THEOREM Inductive == Spec /\ []LaddersFit => []IInv
  <1>1. Init => IInv
    BY IInvInit
  <1>2. IInv /\ [Next]_vars /\ LaddersFit' => IInv'
    BY IInvStep
  <1> QED
    BY <1>1, <1>2, PTL DEF Spec

\* A constructor that runs is at one of its own steps or labels, one that is in
\* the table, and makes one of the objects (vulkan/impl.c, amdgpu/impl.c).
THEOREM ConstructTypeOK == Spec /\ []LaddersFit => []TypeOK
  <1>1. IInv => TypeOK
    BY DEF IInv
  <1> QED
    BY <1>1, Inductive, PTL

\* The labels error0, error1, ... compose: whatever calls fail, and however deep,
\* a constructor that answers NULL has taken back all that it and those it
\* called have made, if each of them by itself jumps high enough
\* (vulkan/impl.c:211-565, 763-1166, amdgpu/impl.c:338-508, 1057-1156).
THEOREM ConstructFailureLeavesNothing == Spec /\ []LaddersFit => []FailureLeavesNothing
  <1>1. IInv => FailureLeavesNothing
    <2> SUFFICES ASSUME IInv, calls = <<>>, NEW h \in held PROVE made[h[1]] # Nobody
      BY DEF FailureLeavesNothing
    <2>1. DOMAIN calls = {}
      OBVIOUS
    <2> QED
      BY <2>1 DEF IInv, Covered
  <1> QED
    BY <1>1, Inductive, PTL

\* What releases in order fits.
LEMMA InOrderFits == ReleasesInOrder => LaddersFit
  BY DEF ReleasesInOrder, LaddersFit, Orderly

\* When each constructor that begins releases in order, what there is is at any
\* time what the steps behind the running routines have made and not released.
THEOREM InductiveExact == Spec /\ []ReleasesInOrder => [](IInv /\ EInv)
  <1>1. Init => IInv /\ EInv
    BY IInvInit, EInvInit
  <1>2. ReleasesInOrder => LaddersFit
    BY InOrderFits
  <1>3. IInv /\ EInv /\ [Next]_vars /\ LaddersFit' /\ ReleasesInOrder /\ ReleasesInOrder'
            => IInv' /\ EInv'
    BY IInvStep, EInvStep
  <1> QED
    BY <1>1, <1>2, <1>3, PTL DEF Spec

\* Whatever was called for it, whatever failed before it, and whatever else was
\* made and destroyed, a context, an image or a surface that a constructor
\* returned has exactly what its struct refers to, if each constructor alone
\* releases in order (vulkan/impl.c:211-565, 763-1166, amdgpu/impl.c:338-508,
\* 1057-1156).
THEOREM ConstructObjectsWhole == Spec /\ []ReleasesInOrder => []ObjectsWhole
  <1>1. IInv /\ EInv => ObjectsWhole
    BY NamesHeld DEF EInv, Whole, ObjectsWhole
  <1> QED
    BY <1>1, InductiveExact, PTL

\* Nor is anything released twice, or before what lives in it, on any way out of
\* any constructor at any depth of calls, or when an object is destroyed, and no
\* failure goes by unseen (the same lines, and the destroy functions at
\* vulkan/impl.c:87-113, 142-150 and amdgpu/impl.c:290-305).
THEOREM ConstructNoMisuse == Spec /\ []ReleasesInOrder => []NoMisuse
  <1>1. EInv => NoMisuse
    BY DEF EInv
  <1> QED
    BY <1>1, InductiveExact, PTL

\* It is enough to look at the routines: when those a client may call fit, and
\* those that they run, so does any that begins (vulkan/impl.c:211-565, 753-1166,
\* amdgpu/impl.c:338-508, 949-1156, drm.c:11-32).
THEOREM ConstructLaddersFit == Closed(Fitting) => (Spec => []LaddersFit)
  <1> SUFFICES ASSUME Closed(Fitting) PROVE Spec => []LaddersFit
    OBVIOUS
  <1>1. Init => IInv /\ LaddersFit
    BY IInvInit DEF Init, LaddersFit
  <1>2. IInv /\ [Next]_vars => LaddersFit'
    BY LaddersFitNext
  <1>3. IInv /\ [Next]_vars /\ LaddersFit' => IInv'
    BY IInvStep
  <1> QED
    BY <1>1, <1>2, <1>3, PTL DEF Spec

\* The same for what they release.
THEOREM ConstructReleasesInOrder ==
    Closed(Orderly) /\ Destroyable => (Spec => []ReleasesInOrder)
  <1> SUFFICES ASSUME Closed(Orderly), Destroyable PROVE Spec => []ReleasesInOrder
    OBVIOUS
  <1>1. Init => IInv /\ EInv /\ ReleasesInOrder
    BY IInvInit, EInvInit DEF Init, ReleasesInOrder
  <1>2. IInv /\ EInv /\ ReleasesInOrder /\ [Next]_vars => ReleasesInOrder'
    BY InOrderNext
  <1>3. ReleasesInOrder => LaddersFit
    BY InOrderFits
  <1>4. IInv /\ [Next]_vars /\ LaddersFit' => IInv'
    BY IInvStep
  <1>5. IInv /\ EInv /\ [Next]_vars /\ LaddersFit' /\ ReleasesInOrder /\ ReleasesInOrder' => EInv'
    BY EInvStep
  <1> QED
    BY <1>1, <1>2, <1>3, <1>4, <1>5, PTL DEF Spec

=============================================================================
