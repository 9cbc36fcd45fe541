--------------------------- MODULE FrameLoop_proofs ---------------------------
(***************************************************************************)
(* Proofs about surfaces and the client that repaints only what changed,   *)
(* for any number of images, cells and regions and any width of an int:    *)
(* what the age of an image means, and that no stale cell is shown as long *)
(* as no image in circulation waits for 2^31 frames.                       *)
(***************************************************************************)
EXTENDS FrameLoop, FiniteSetTheorems, SequenceTheorems, TLAPS

-----------------------------------------------------------------------------
(* Numbers.                                                                *)

LEMMA Remainder ==
    ASSUME NEW m \in Nat \ {0}, NEW x \in Int, 0 <= x, x < m + m
    PROVE  x % m = IF x < m THEN x ELSE x - m
  OBVIOUS

\* An age that grows by one stays a C int; only INT_MAX turns (impl.c:188).
LEMMA WrapOnce ==
    ASSUME NEW a \in IntMin .. IntMax
    PROVE  /\ Wrap(a + 1) = IF a = IntMax THEN IntMin ELSE a + 1
           /\ Wrap(a + 1) \in IntMin .. IntMax
  <1>1. PICK m \in Nat \ {0} : m = IntMax - IntMin + 1
    BY IntMaxAssumption DEF IntMin
  <1>2. PICK x \in Int : x = a + 1 - IntMin
    BY IntMaxAssumption DEF IntMin
  <1>3. 0 <= x /\ x < m + m /\ (x < m <=> a # IntMax)
    BY <1>1, <1>2, IntMaxAssumption DEF IntMin
  <1>4. x % m = IF x < m THEN x ELSE x - m
    BY <1>3, Remainder
  <1>5. Wrap(a + 1) = (x % m) + IntMin
    BY <1>1, <1>2, IntMaxAssumption DEF Wrap, IntMin
  <1>6. Wrap(a + 1) = IF a = IntMax THEN IntMin ELSE a + 1
    BY <1>1, <1>2, <1>3, <1>4, <1>5, IntMaxAssumption DEF IntMin
  <1> QED
    BY <1>6, IntMaxAssumption DEF IntMin

-----------------------------------------------------------------------------
(* The queue of the display.                                               *)

Elems(s) == {s[n] : n \in DOMAIN s}

Distinct(s) == \A m, n \in DOMAIN s : s[m] = s[n] => m = n

LEMMA Queued ==
    ASSUME NEW s \in Seq(Images), NEW i \in Images, i \notin Elems(s), Distinct(s)
    PROVE  Append(s, i) \in Seq(Images) /\ Elems(Append(s, i)) = Elems(s) \cup {i}
           /\ Distinct(Append(s, i))
  <1> DEFINE t == Append(s, i)
  <1>1. Len(s) \in Nat /\ DOMAIN s = 1 .. Len(s)
    BY LenProperties
  <1>2. t \in Seq(Images) /\ Len(t) = Len(s) + 1 /\ t[Len(s) + 1] = i
        /\ \A n \in 1 .. Len(s) : t[n] = s[n]
    BY <1>1
  <1>3. DOMAIN t = 1 .. Len(s) + 1
    BY <1>2, LenProperties
  <1> HIDE DEF t
  <1>4. \A n \in DOMAIN t : \/ n = Len(s) + 1 /\ t[n] = i
                            \/ n \in DOMAIN s /\ t[n] = s[n]
    BY <1>1, <1>2, <1>3
  <1>5. \A n \in DOMAIN s : n \in DOMAIN t /\ t[n] = s[n]
    BY <1>1, <1>2, <1>3
  <1>6. Len(s) + 1 \in DOMAIN t
    BY <1>1, <1>3
  <1>7. Elems(t) = Elems(s) \cup {i}
    BY <1>2, <1>4, <1>5, <1>6 DEF Elems
  <1>8. Distinct(t)
    BY <1>4 DEF Distinct, Elems
  <1> QED
    BY <1>2, <1>7, <1>8 DEF t

LEMMA Unqueued ==
    ASSUME NEW s \in Seq(Images), s # <<>>, Distinct(s)
    PROVE  Tail(s) \in Seq(Images) /\ Distinct(Tail(s)) /\ Head(s) \in Images
           /\ Head(s) \in Elems(s) /\ Elems(Tail(s)) \subseteq Elems(s) \ {Head(s)}
  <1> DEFINE t == Tail(s)
  <1>1. Len(s) \in Nat \ {0} /\ DOMAIN s = 1 .. Len(s)
    BY LenProperties, EmptySeq
  <1>2. t \in Seq(Images) /\ Len(t) = Len(s) - 1 /\ \A n \in 1 .. Len(t) : t[n] = s[n + 1]
    BY HeadTailProperties
  <1>3. DOMAIN t = 1 .. Len(s) - 1
    BY <1>2, LenProperties
  <1>4. Head(s) = s[1] /\ 1 \in DOMAIN s
    BY <1>1
  <1>5. Head(s) \in Images
    BY HeadTailProperties
  <1> HIDE DEF t
  <1>6. \A n \in DOMAIN t : n + 1 \in DOMAIN s /\ n + 1 # 1 /\ t[n] = s[n + 1] /\ n \in Int
    BY <1>1, <1>2, <1>3
  <1>7. Elems(t) \subseteq Elems(s) \ {Head(s)}
    BY <1>4, <1>6 DEF Elems, Distinct
  <1>8. Distinct(t)
    <2> SUFFICES ASSUME NEW m \in DOMAIN t, NEW n \in DOMAIN t, t[m] = t[n] PROVE m = n
      BY DEF Distinct
    <2>1. m + 1 = n + 1 /\ m \in Int /\ n \in Int
      BY <1>6 DEF Distinct
    <2> QED
      BY <2>1
  <1> QED
    BY <1>2, <1>4, <1>5, <1>7, <1>8 DEF t, Elems

-----------------------------------------------------------------------------
(* The surface.                                                            *)

\* Every image is in one place.
Apart ==
    /\ Distinct(queue)
    /\ \A i \in client : i \notin free \cup shown \cup lost \cup Elems(queue)
    /\ \A i \in free : i \notin shown \cup lost \cup Elems(queue)
    /\ \A i \in shown : i \notin lost \cup Elems(queue)
    /\ \A i \in lost : i \notin Elems(queue)

Single(s) == \A i, j \in s : i = j

Counts == \A i \in Images : since[i] \in 0 .. IntMax - 1 => age[i] = since[i]

SInv ==
    /\ TypeOK
    /\ Apart
    /\ Single(client) /\ Single(shown)
    /\ waiting => client = {}
    /\ Counts

LEMMA OneAtMost == ASSUME NEW s, Single(s) PROVE Cardinality(s) <= 1
  <1>1. CASE s = {}
    BY <1>1, FS_EmptySet
  <1>2. CASE s # {}
    <2>1. PICK i : s = {i}
      BY <1>2 DEF Single
    <2>2. Cardinality(s) = 1
      BY <2>1, FS_Singleton
    <2> QED
      BY <2>2
  <1> QED
    BY <1>1, <1>2

LEMMA SInvInit == Init => SInv
  <1> SUFFICES ASSUME Init PROVE SInv
    OBVIOUS
  <1>1. queue \in Seq(Images) /\ DOMAIN queue = {} /\ Elems(queue) = {} /\ Distinct(queue)
    BY EmptySeq DEF Init, Elems, Distinct
  <1>2. Cardinality(client) <= 1 /\ Cardinality(shown) <= 1 /\ Single(client) /\ Single(shown)
    BY FS_EmptySet DEF Init, Single
  <1>3. IntMax \in IntMin .. IntMax
    BY IntMaxAssumption DEF IntMin
  <1>4. TypeOK
    BY <1>1, <1>2, <1>3 DEF Init, TypeOK
  <1>5. Counts
    BY DEF Init, Counts, Never
  <1> QED
    BY <1>1, <1>2, <1>4, <1>5 DEF Init, SInv, Apart

\* A frame counts for all images but its own (impl.c:187-189).
LEMMA FrameCounts ==
    ASSUME SInv, NEW i \in Images, Counted(i),
           age' = [[j \in Images |-> Wrap(age[j] + 1)] EXCEPT ![i] = 0]
    PROVE  /\ age' \in [Images -> IntMin .. IntMax]
           /\ since' \in [Images -> {Never} \cup 0 .. IntMax]
           /\ Counts'
  <1>1. \A j \in Images : age[j] \in IntMin .. IntMax /\ since[j] \in {Never} \cup 0 .. IntMax
    BY DEF SInv, TypeOK
  <1>2. 0 \in IntMin .. IntMax /\ 0 \in 0 .. IntMax
    BY IntMaxAssumption DEF IntMin
  <1>3. \A j \in Images : Wrap(age[j] + 1) \in IntMin .. IntMax
    BY <1>1, WrapOnce
  <1>4. age' \in [Images -> IntMin .. IntMax]
    BY <1>2, <1>3
  <1>5. \A j \in Images : since[j] \notin {Never, IntMax} => since[j] + 1 \in 0 .. IntMax
    BY <1>1, IntMaxAssumption
  <1>6. since' \in [Images -> {Never} \cup 0 .. IntMax]
    BY <1>1, <1>2, <1>5 DEF Counted
  <1>7. ASSUME NEW j \in Images, since'[j] \in 0 .. IntMax - 1 PROVE age'[j] = since'[j]
    <2>1. CASE j = i
      BY <2>1 DEF Counted
    <2>2. CASE j # i
      <3>1. since[j] \notin {Never, IntMax} /\ since'[j] = since[j] + 1
        BY <1>7, <2>2, IntMaxAssumption DEF Counted, Never
      <3>2. since[j] \in 0 .. IntMax - 1 /\ since[j] # IntMax
        BY <1>1, <1>7, <3>1, IntMaxAssumption
      <3>3. age[j] = since[j] /\ age[j] # IntMax
        BY <3>2 DEF SInv, Counts
      <3>4. age'[j] = Wrap(age[j] + 1)
        BY <2>2
      <3> QED
        BY <1>1, <3>1, <3>3, <3>4, WrapOnce
    <2> QED
      BY <2>1, <2>2
  <1> QED
    BY <1>4, <1>6, <1>7 DEF Counts

\* The image of the client joins the queue.
LEMMA PresentedKeeps ==
    ASSUME SInv, NEW i \in Images, Presented(i)
    PROVE  /\ queue' \in Seq(Images) /\ client' \subseteq Images /\ Cardinality(client') <= 1
           /\ Apart' /\ Single(client)' /\ Single(shown)' /\ client' = {}
  <1>1. i \in client /\ client' = client \ {i} /\ queue' = Append(queue, i)
        /\ UNCHANGED <<waiting, free, shown, lost>>
    BY DEF Presented
  <1>2. queue' \in Seq(Images) /\ Elems(queue') = Elems(queue) \cup {i} /\ Distinct(queue')
    BY <1>1, Queued DEF SInv, TypeOK, Apart
  <1>3. client' = {}
    BY <1>1 DEF SInv, Single
  <1>4. Cardinality(client') <= 1
    BY <1>3, FS_EmptySet
  <1>5. Apart'
    BY <1>1, <1>2, <1>3 DEF SInv, Apart, Distinct, Elems
  <1> QED
    BY <1>1, <1>2, <1>3, <1>4, <1>5 DEF SInv, Single

LEMMA SInvStep == SInv /\ [Next]_vars => SInv'
  <1> SUFFICES ASSUME SInv, [Next]_vars PROVE SInv'
    OBVIOUS
  <1>1. CASE Acquire
    BY <1>1, FS_EmptySet DEF Acquire, SInv, TypeOK, Apart, Distinct, Elems, Single, Counts
  <1>2. ASSUME NEW i \in Images, AcquireSuccess(i) PROVE SInv'
    <2>1. client' = {i} /\ i \in free /\ free' = free \ {i} /\ waiting' = FALSE
          /\ UNCHANGED <<age, queue, shown, lost, since>>
      BY <1>2 DEF AcquireSuccess, Offered, SInv
    <2>2. Single(client')
      BY <2>1 DEF Single
    <2>4. Cardinality(client') <= 1
      BY <2>2, OneAtMost
    <2>3. Apart'
      BY <2>1 DEF SInv, Apart, Distinct, Elems
    <2> QED
      BY <2>1, <2>2, <2>3, <2>4 DEF SInv, TypeOK, Single, Counts
  <1>3. ASSUME NEW i \in Images, AcquireSuboptimal(i) PROVE SInv'
    <2>1. client = {} /\ i \in free /\ free' = free \ {i} /\ lost' = lost \cup {i}
          /\ waiting' = FALSE /\ UNCHANGED <<age, client, queue, shown, since>>
      BY <1>3 DEF AcquireSuboptimal, Offered, SInv
    <2>2. Apart'
      BY <2>1 DEF SInv, Apart, Distinct, Elems
    <2> QED
      BY <2>1, <2>2 DEF SInv, TypeOK, Single, Counts
  <1>4. CASE AcquireError
    BY <1>4 DEF AcquireError, SInv, TypeOK, Apart, Distinct, Elems, Single, Counts
  <1>5. ASSUME NEW i \in Images, PresentSuccess(i) PROVE SInv'
    <2>1. Presented(i) /\ Counted(i)
          /\ age' = [[j \in Images |-> Wrap(age[j] + 1)] EXCEPT ![i] = 0]
      BY <1>5 DEF PresentSuccess
    <2>2. UNCHANGED <<waiting, free, shown, lost>>
      BY <2>1 DEF Presented
    <2> QED
      BY <2>1, <2>2, FrameCounts, PresentedKeeps DEF SInv, TypeOK
  <1>6. ASSUME NEW i \in Images, PresentSuboptimal(i) PROVE SInv'
    <2>1. Presented(i) /\ since' = [j \in Images |-> Never] /\ age' = age
      BY <1>6 DEF PresentSuboptimal
    <2>2. UNCHANGED <<waiting, free, shown, lost>>
      BY <2>1 DEF Presented
    <2>3. Counts'
      BY <2>1 DEF Counts, Never
    <2> QED
      BY <2>1, <2>2, <2>3, PresentedKeeps DEF SInv, TypeOK
  <1>7. ASSUME NEW i \in Images, PresentError(i) PROVE SInv'
    BY <1>7 DEF PresentError, vars, SInv, TypeOK, Apart, Distinct, Elems, Single, Counts
  <1>8. CASE Display
    <2>1. queue # <<>> /\ shown' = {Head(queue)} /\ free' = free \cup shown
          /\ queue' = Tail(queue) /\ UNCHANGED <<age, waiting, client, lost, since>>
      BY <1>8 DEF Display
    <2>2. queue' \in Seq(Images) /\ Distinct(queue') /\ Head(queue) \in Images
          /\ Head(queue) \in Elems(queue) /\ Elems(queue') \subseteq Elems(queue) \ {Head(queue)}
      BY <2>1, Unqueued DEF SInv, TypeOK, Apart
    <2>3. Single(shown')
      BY <2>1 DEF Single
    <2>5. Cardinality(shown') <= 1
      BY <2>3, OneAtMost
    <2>4. Apart'
      BY <2>1, <2>2 DEF SInv, Apart, Distinct, Elems
    <2> QED
      BY <2>1, <2>2, <2>3, <2>4, <2>5 DEF SInv, TypeOK, Single, Counts
  <1>9. CASE UNCHANGED vars
    BY <1>9 DEF vars, SInv, TypeOK, Apart, Distinct, Elems, Single, Counts
  <1> QED
    BY <1>1, <1>2, <1>3, <1>4, <1>5, <1>6, <1>7, <1>8, <1>9 DEF Next

\* An age is a C int, and what it counts is known or not (impl.c:60, 187-189);
\* the client has one image at most, and so has the display.
THEOREM SurfaceTypeOK == Spec => []TypeOK
  <1>1. SInv => TypeOK
    BY DEF SInv
  <1> QED
    BY <1>1, SInvInit, SInvStep, PTL DEF Spec

\* The age handed out with an image is the number of frames presented since it
\* was, whatever vkQueuePresentKHR and vkAcquireNextImageKHR answer.
THEOREM SurfaceAgeCountsFrames == Spec => []AgeCountsFrames
  <1>1. SInv => AgeCountsFrames
    BY DEF SInv, Counts, AgeCountsFrames, TypeOK
  <1> QED
    BY <1>1, SInvInit, SInvStep, PTL DEF Spec

-----------------------------------------------------------------------------
(* The client and its tracker.                                             *)

\* A step of the loop is a step of the surface, or leaves it alone.
LEMMA LoopOnSurface == [LoopNext]_loop => [Next]_vars
  <1> SUFFICES ASSUME [LoopNext]_loop PROVE [Next]_vars
    OBVIOUS
  <1>1. CASE AsksForImage \/ IsGivenNothing \/ IsDisplayed
    BY <1>1 DEF AsksForImage, IsGivenNothing, IsDisplayed, OnSurface, Next
  <1>2. ASSUME NEW i \in Images, IsGiven(i) \/ LosesImage(i) PROVE Next
    BY <1>2 DEF IsGiven, LosesImage, OnSurface, Next
  <1>3. ASSUME NEW i \in Images, NEW new \in SUBSET Cells, Repaint(i, new) PROVE UNCHANGED vars
    BY <1>3 DEF Repaint, surface
  <1>4. ASSUME NEW i \in Images, PresentFrame(i) \/ PresentFails(i) \/ PresentUnsaid(i) PROVE Next
    BY <1>4 DEF PresentFrame, PresentFails, PresentUnsaid, OnSurface, Next
  <1>5. CASE UNCHANGED loop
    BY <1>5 DEF loop, surface
  <1> QED
    BY <1>1, <1>2, <1>3, <1>4, <1>5 DEF LoopNext

LEMMA LoopSInv == LoopSpec => []SInv
  <1>1. LoopInit => SInv
    BY SInvInit DEF LoopInit
  <1>2. SInv /\ [LoopNext]_loop => SInv'
    BY LoopOnSurface, SInvStep
  <1> QED
    BY <1>1, <1>2, PTL DEF LoopSpec

\* The same of a client that paints and presents (FrameLoop).
THEOREM FrameLoopTypeOK == LoopSpec => []TypeOK
  <1>1. SInv => TypeOK
    BY DEF SInv
  <1> QED
    BY <1>1, LoopSInv, PTL

\* What the client passes on to blt_damage is the number of frames since the
\* image was presented (vulkan/impl.c:165, 187-189).
THEOREM FrameLoopAgeCountsFrames == LoopSpec => []AgeCountsFrames
  <1>1. SInv => AgeCountsFrames
    BY DEF SInv, Counts, AgeCountsFrames, TypeOK
  <1> QED
    BY <1>1, LoopSInv, PTL

\* The slots behind the ages before and after blt_cycle_damage (damage.c:50).
LEMMA RingTurns ==
    ASSUME NEW o \in D!Slots, NEW p, p = (o + NumRegions - 1) % NumRegions
    PROVE  /\ p \in D!Slots /\ (0 + p) % NumRegions = p
           /\ \A k \in D!Slots : (k + o) % NumRegions \in D!Slots
           /\ \A k \in D!Slots : k + 1 \in D!Slots =>
                  /\ (k + 1 + p) % NumRegions = (k + o) % NumRegions
                  /\ (k + o) % NumRegions # p
  <1>1. NumRegions \in Nat \ {0} /\ o \in Nat /\ o < NumRegions
    BY RingAssumption DEF D!Slots
  <1>2. \A x \in Int : 0 <= x /\ x < NumRegions + NumRegions =>
            x % NumRegions = IF x < NumRegions THEN x ELSE x - NumRegions
    BY <1>1, Remainder
  <1>3. p = IF o = 0 THEN NumRegions - 1 ELSE o - 1
    BY <1>1, <1>2
  <1>4. p \in Nat /\ p < NumRegions
    BY <1>1, <1>3
  <1>5. (0 + p) % NumRegions = p
    BY <1>1, <1>2, <1>4
  <1>6. ASSUME NEW k \in D!Slots
        PROVE  (k + o) % NumRegions = IF k + o < NumRegions THEN k + o ELSE k + o - NumRegions
    <2>1. k + o \in Int /\ 0 <= k + o /\ k + o < NumRegions + NumRegions
      BY <1>1 DEF D!Slots
    <2>2. PICK x \in Int : x = k + o
      BY <2>1
    <2>3. x % NumRegions = IF x < NumRegions THEN x ELSE x - NumRegions
      BY <1>1, <2>1, <2>2, Remainder
    <2> QED
      BY <1>1, <2>2, <2>3 DEF D!Slots
  <1>7. \A k \in D!Slots : (k + o) % NumRegions \in D!Slots
    BY <1>1, <1>6 DEF D!Slots
  <1>8. ASSUME NEW k \in D!Slots, k + 1 \in D!Slots
        PROVE  /\ (k + 1 + p) % NumRegions = (k + o) % NumRegions
               /\ (k + o) % NumRegions # p
    <2>1. k + 1 + p \in Int /\ 0 <= k + 1 + p /\ k + 1 + p < NumRegions + NumRegions
      BY <1>1, <1>4, <1>8 DEF D!Slots
    <2>2. (k + 1 + p) % NumRegions =
              IF k + 1 + p < NumRegions THEN k + 1 + p ELSE k + 1 + p - NumRegions
      <3>1. PICK x \in Int : x = k + 1 + p
        BY <2>1
      <3>2. x % NumRegions = IF x < NumRegions THEN x ELSE x - NumRegions
        BY <1>1, <2>1, <3>1, Remainder
      <3> QED
        BY <1>1, <1>4, <3>1, <3>2 DEF D!Slots
    <2>3. (k + o) % NumRegions = IF k + o < NumRegions THEN k + o ELSE k + o - NumRegions
      BY <1>6
    <2> QED
      BY <1>1, <1>3, <1>8, <2>2, <2>3 DEF D!Slots
  <1> QED
    BY <1>1, <1>4, <1>5, <1>7, <1>8 DEF D!Slots

\* The client does not take a negative age, nor num_regions, for what they are.
DistrustsEnough == \A n \in IntMin .. IntMax : n < 0 \/ n = NumRegions => n \in Distrusted

LInv ==
    /\ SInv
    /\ stale \in [Images -> SUBSET Cells]
    /\ offset \in D!Slots /\ regions \in [D!Slots -> SUBSET Cells]
    /\ painted \subseteq client
    /\ TrackedDamageCovers
    /\ FramesUpToDate
    /\ DistinctAges

LEMMA LInvInit == LoopInit => LInv
  <1> SUFFICES ASSUME LoopInit PROVE LInv
    OBVIOUS
  <1>1. SInv
    BY SInvInit DEF LoopInit
  <1>2. stale = [i \in Images |-> Cells] /\ painted = {} /\ client = {}
        /\ offset = 0 /\ regions = [k \in D!Slots |-> Cells]
    BY DEF LoopInit, Init, D!Init, D!BltNewDamage, D!Infinite
  <1>3. offset \in D!Slots
    BY <1>2, RingAssumption DEF D!Slots
  <1>4. \A k \in D!Slots : (k + offset) % NumRegions \in D!Slots
    BY <1>3, RingTurns
  <1>5. TrackedDamageCovers
    BY <1>2, <1>4 DEF TrackedDamageCovers, D!RegionOf
  <1>6. DistinctAges
    BY DEF LoopInit, Init, DistinctAges
  <1> QED
    BY <1>1, <1>2, <1>3, <1>5, <1>6 DEF LInv, FramesUpToDate

\* Steps that touch neither the ages nor the tracker, nor the scene.
LEMMA ElsewhereKeeps ==
    ASSUME LInv, [Next]_vars, UNCHANGED <<age, stale, offset, regions>>, lost \subseteq lost',
           painted' \subseteq painted \cap client',
           \A i \in Images : since'[i] = since[i] \/ since'[i] = Never
    PROVE  LInv'
  <1>1. SInv'
    BY SInvStep DEF LInv
  <1>2. TrackedDamageCovers'
    BY DEF LInv, TrackedDamageCovers, D!RegionOf, D!Slots
  <1>3. FramesUpToDate' /\ DistinctAges'
    BY DEF LInv, FramesUpToDate, DistinctAges
  <1> QED
    BY <1>1, <1>2, <1>3 DEF LInv, D!Slots

LEMMA RepaintKeeps ==
    ASSUME LInv, DistrustsEnough, NEW i \in Images, NEW new \in SUBSET Cells, Repaint(i, new)
    PROVE  LInv'
  <1>1. i \in client /\ UNCHANGED vars /\ painted' = painted \cup {i} /\ offset' = offset
        /\ regions' = [k \in D!Slots |-> regions[k] \cup new]
        /\ returned' = IF PassedAge(i) > NumRegions THEN InfiniteDamage
                       ELSE D!RegionIndex(PassedAge(i))
    BY DEF Repaint, D!BltDamage, surface
  <1>2. PICK region \in SUBSET Cells :
            /\ Region(returned', region)
            /\ stale' = [j \in Images |->
                            IF j = i THEN (stale[j] \cup new) \ region ELSE stale[j] \cup new]
    BY DEF Repaint
  <1>3. UNCHANGED <<age, client, lost, since>> /\ SInv'
    BY <1>1, SInvStep DEF vars, LInv
  <1>4. \A k \in D!Slots : (k + offset) % NumRegions \in D!Slots
    BY RingTurns DEF LInv
  <1>5. i \notin lost
    BY <1>1 DEF LInv, SInv, Apart
  <1>6. age[i] \in IntMin .. IntMax
    BY DEF LInv, SInv, TypeOK
  <1>7. stale[i] \cup new \subseteq region
    <2>1. stale[i] \cup new \subseteq Cells
      BY DEF LInv
    <2>2. CASE returned' = InfiniteDamage
      BY <1>2, <2>1, <2>2 DEF Region, D!Infinite
    <2>3. CASE returned' # InfiniteDamage
      <3>1. ~(PassedAge(i) > NumRegions)
        BY <1>1, <2>3
      <3>2. age[i] \notin Distrusted /\ PassedAge(i) = age[i]
        BY <3>1, RingAssumption DEF PassedAge
      <3>3. age[i] \in D!Slots
        BY <1>6, <3>1, <3>2, RingAssumption DEF DistrustsEnough, D!Slots, IntMin
      <3>4. returned' = (age[i] + offset) % NumRegions
        <4>1. age[i] + offset >= 0
          BY <3>3 DEF D!Slots, LInv
        <4> QED
          BY <1>1, <3>1, <3>2, <4>1 DEF D!RegionIndex, D!CRem
      <3>5. returned' \in D!Slots
        BY <1>4, <3>3, <3>4
      <3>6. region = regions'[returned']
        BY <1>2, <2>3, <3>5 DEF Region
      <3>7. regions'[returned'] = regions[returned'] \cup new
        BY <1>1, <3>5
      <3>8. stale[i] \subseteq regions[returned']
        BY <1>5, <3>3, <3>4 DEF LInv, TrackedDamageCovers, D!RegionOf
      <3> QED
        BY <3>6, <3>7, <3>8
    <2> QED
      BY <2>2, <2>3
  <1>8. stale' \in [Images -> SUBSET Cells] /\ stale'[i] = {}
        /\ \A j \in Images : stale'[j] \subseteq stale[j] \cup new
    BY <1>2, <1>7 DEF LInv
  <1>9. TrackedDamageCovers'
    <2> SUFFICES ASSUME NEW j \in Images \ lost, age[j] \in D!Slots
                 PROVE  stale'[j] \subseteq regions'[(age[j] + offset) % NumRegions]
      BY <1>1, <1>3 DEF TrackedDamageCovers, D!RegionOf, D!Slots
    <2>1. stale[j] \subseteq regions[(age[j] + offset) % NumRegions]
      BY DEF LInv, TrackedDamageCovers, D!RegionOf
    <2>2. (age[j] + offset) % NumRegions \in D!Slots
      BY <1>4
    <2> QED
      BY <1>1, <1>8, <2>1, <2>2
  <1>10. FramesUpToDate' /\ painted' \subseteq client'
    BY <1>1, <1>3, <1>8 DEF FramesUpToDate, LInv, SInv, Single
  <1>11. regions' \in [D!Slots -> SUBSET Cells]
    BY <1>1 DEF LInv
  <1>12. DistinctAges'
    BY <1>3 DEF LInv, DistinctAges
  <1> QED
    BY <1>1, <1>3, <1>8, <1>9, <1>10, <1>11, <1>12 DEF LInv, D!Slots

\* A frame makes each age one older, and the tracker follows.
LEMMA PresentFrameKeeps ==
    ASSUME LInv, AgesGoOn, NEW i \in Images, PresentFrame(i)
    PROVE  LInv'
  <1>1. /\ i \in painted /\ i \in client /\ Counted(i) /\ client' = client \ {i}
        /\ age' = [[j \in Images |-> Wrap(age[j] + 1)] EXCEPT ![i] = 0]
        /\ UNCHANGED <<lost, stale>> /\ painted' = painted \ {i}
        /\ offset' = (offset + NumRegions - 1) % NumRegions
        /\ regions' = [regions EXCEPT ![offset'] = {}]
    BY DEF PresentFrame, PresentSuccess, Presented, D!BltCycleDamage
  <1>2. SInv'
    BY SInvStep DEF PresentFrame, Next, LInv
  <1>3. stale[i] = {}
    BY <1>1 DEF LInv, FramesUpToDate
  <1>4. offset \in D!Slots /\ regions \in [D!Slots -> SUBSET Cells]
    BY DEF LInv
  <1>5. /\ offset' \in D!Slots /\ (0 + offset') % NumRegions = offset'
        /\ \A k \in D!Slots : (k + offset) % NumRegions \in D!Slots
        /\ \A k \in D!Slots : k + 1 \in D!Slots =>
               /\ (k + 1 + offset') % NumRegions = (k + offset) % NumRegions
               /\ (k + offset) % NumRegions # offset'
    BY <1>1, <1>4, RingTurns
  <1>6. regions' \in [D!Slots -> SUBSET Cells]
    BY <1>1, <1>4
  <1>7. ASSUME NEW j \in Images \ lost, j # i
        PROVE  /\ age'[j] = IF age[j] = IntMax THEN IntMin ELSE age[j] + 1
               /\ age[j] \in IntMin .. IntMax /\ age'[j] # 0
    <2>1. age[j] \in IntMin .. IntMax
      BY DEF LInv, SInv, TypeOK
    <2>2. age'[j] = Wrap(age[j] + 1)
      BY <1>1, <1>7
    <2>3. age'[j] = IF age[j] = IntMax THEN IntMin ELSE age[j] + 1
      BY <2>1, <2>2, WrapOnce
    <2>4. age[j] # -1
      BY DEF AgesGoOn
    <2> QED
      BY <2>1, <2>3, <2>4, IntMaxAssumption DEF IntMin
  <1>8. age'[i] = 0
    BY <1>1
  <1>9. TrackedDamageCovers'
    <2> SUFFICES ASSUME NEW j \in Images \ lost, age'[j] \in D!Slots
                 PROVE  stale[j] \subseteq regions'[(age'[j] + offset') % NumRegions]
      BY <1>1 DEF TrackedDamageCovers, D!RegionOf, D!Slots
    <2>1. CASE j = i
      BY <1>3, <2>1
    <2>2. CASE j # i
      <3>1. age[j] \in D!Slots /\ age'[j] = age[j] + 1
        BY <1>7, <2>2, IntMaxAssumption, RingAssumption DEF D!Slots, IntMin
      <3>2. stale[j] \subseteq regions[(age[j] + offset) % NumRegions]
        BY <3>1 DEF LInv, TrackedDamageCovers, D!RegionOf
      <3>3. /\ (age'[j] + offset') % NumRegions = (age[j] + offset) % NumRegions
            /\ (age[j] + offset) % NumRegions # offset'
            /\ (age[j] + offset) % NumRegions \in D!Slots
        BY <1>5, <3>1
      <3>4. regions'[(age[j] + offset) % NumRegions] = regions[(age[j] + offset) % NumRegions]
        BY <1>1, <1>4, <3>3
      <3> QED
        BY <3>2, <3>3, <3>4
    <2> QED
      BY <2>1, <2>2
  <1>10. painted' = {} /\ painted' \subseteq client' /\ FramesUpToDate'
    BY <1>1 DEF LInv, SInv, Single, FramesUpToDate
  <1>11. DistinctAges'
    <2> SUFFICES ASSUME NEW j \in Images \ lost, NEW k \in Images \ lost, j # k,
                        since'[j] # Never, since'[k] # Never
                 PROVE  age'[j] # age'[k]
      BY <1>1 DEF DistinctAges
    <2>1. CASE j = i \/ k = i
      BY <1>7, <1>8, <2>1
    <2>2. CASE j # i /\ k # i
      <3>1. since[j] # Never /\ since[k] # Never
        BY <1>1, <2>2 DEF Counted
      <3>2. age[j] # age[k]
        BY <3>1 DEF LInv, DistinctAges
      <3> QED
        BY <1>7, <2>2, <3>2, IntMaxAssumption DEF IntMin
    <2> QED
      BY <2>1, <2>2
  <1> QED
    BY <1>1, <1>2, <1>4, <1>5, <1>6, <1>9, <1>10, <1>11 DEF LInv, D!Slots

LEMMA LInvStep == DistrustsEnough /\ LInv /\ AgesGoOn /\ [LoopNext]_loop => LInv'
  <1> SUFFICES ASSUME DistrustsEnough, LInv, AgesGoOn, [LoopNext]_loop PROVE LInv'
    OBVIOUS
  <1>1. [Next]_vars
    BY LoopOnSurface
  <1>2. CASE AsksForImage \/ IsGivenNothing \/ IsDisplayed
    BY <1>1, <1>2, ElsewhereKeeps
    DEF AsksForImage, IsGivenNothing, IsDisplayed, OnSurface, damage, Acquire, AcquireError,
        Display, LInv
  <1>3. ASSUME NEW i \in Images, IsGiven(i) PROVE LInv'
    BY <1>1, <1>3, ElsewhereKeeps DEF IsGiven, OnSurface, damage, AcquireSuccess, LInv
  <1>4. ASSUME NEW i \in Images, LosesImage(i) PROVE LInv'
    BY <1>1, <1>4, ElsewhereKeeps DEF LosesImage, OnSurface, damage, AcquireSuboptimal, LInv
  <1>5. ASSUME NEW i \in Images, NEW new \in SUBSET Cells, Repaint(i, new) PROVE LInv'
    BY <1>5, RepaintKeeps
  <1>6. ASSUME NEW i \in Images, PresentFrame(i) PROVE LInv'
    BY <1>6, PresentFrameKeeps
  <1>7. ASSUME NEW i \in Images, PresentFails(i) PROVE LInv'
    BY <1>1, <1>7, ElsewhereKeeps DEF PresentFails, OnSurface, damage, PresentError, vars, LInv
  <1>8. ASSUME NEW i \in Images, PresentUnsaid(i) PROVE LInv'
    <2>1. /\ UNCHANGED <<age, stale, offset, regions, lost>>
          /\ painted' = painted \ {i} /\ client' = client \ {i}
          /\ since' = [j \in Images |-> Never]
      BY <1>8 DEF PresentUnsaid, PresentSuboptimal, Presented, damage
    <2>2. painted' \subseteq painted \cap client'
      BY <2>1 DEF LInv
    <2> QED
      BY <1>1, <2>1, <2>2, ElsewhereKeeps
  <1>9. CASE UNCHANGED loop
    BY <1>1, <1>9, ElsewhereKeeps DEF loop, surface, vars, damage, LInv
  <1> QED
    BY <1>2, <1>3, <1>4, <1>5, <1>6, <1>7, <1>8, <1>9 DEF LoopNext

\* The invariant of the loop.
LEMMA LoopInductive ==
    ASSUME DistrustsEnough PROVE LoopSpec /\ []AgesGoOn => []LInv
  <1>1. LInv /\ AgesGoOn /\ [LoopNext]_loop => LInv'
    BY LInvStep
  <1> QED
    BY <1>1, LInvInit, PTL DEF LoopSpec

\* As long as no image in circulation waits for 2^31 frames, no cell that
\* changed is left out of a frame on its way to the display, for a client that
\* takes a negative age or num_regions for an age that is not tracked
\* (damage.c:44, vulkan/impl.c:165).
THEOREM FrameLoopUpToDate ==
    DistrustsEnough => (LoopSpec /\ []AgesGoOn => []FramesUpToDate)
  <1> SUFFICES ASSUME DistrustsEnough PROVE LoopSpec /\ []AgesGoOn => []FramesUpToDate
    OBVIOUS
  <1>1. LInv => FramesUpToDate
    BY DEF LInv
  <1> QED
    BY <1>1, LoopInductive, PTL

\* Under the same conditions the ring of damage.c and the ages of
\* vulkan/impl.c:187-189 stay in step, whatever Vulkan answers.
THEOREM FrameLoopTracked ==
    DistrustsEnough => (LoopSpec /\ []AgesGoOn => []TrackedDamageCovers)
  <1> SUFFICES ASSUME DistrustsEnough PROVE LoopSpec /\ []AgesGoOn => []TrackedDamageCovers
    OBVIOUS
  <1>1. LInv => TrackedDamageCovers
    BY DEF LInv
  <1> QED
    BY <1>1, LoopInductive, PTL

\* And no two images that were presented have the same age.
THEOREM FrameLoopDistinctAges ==
    DistrustsEnough => (LoopSpec /\ []AgesGoOn => []DistinctAges)
  <1> SUFFICES ASSUME DistrustsEnough PROVE LoopSpec /\ []AgesGoOn => []DistinctAges
    OBVIOUS
  <1>1. LInv => DistinctAges
    BY DEF LInv
  <1> QED
    BY <1>1, LoopInductive, PTL

-----------------------------------------------------------------------------
(* How long an image in circulation waits.                                 *)

Round == Cardinality(Images)

\* An image that waited MaxWait frames goes first, which is soon enough for an int.
ServedInTime == IsFiniteSet(Images) /\ Round <= MaxWait /\ MaxWait + 2 * Round <= IntMax + 2

\* The longest wait of an image that comes off the display, and of any image.
Back == MaxWait + Round - 2
Most == Back + Round - 1

\* Each image presented after another is behind it until it comes off the
\* display.  From then on, each frame it waits too long is one of another image,
\* whose age tells so.
InTime ==
    /\ Images \subseteq lost \cup client \cup free \cup shown \cup Elems(queue)
    /\ \A n \in DOMAIN queue : Waited(queue[n]) <= MaxWait - 1 + Len(queue) - n
    /\ \A i \in shown : Waited(i) <= MaxWait - 1 + Len(queue)
    /\ \A i \in free : \A n \in Nat : n < Waited(i) - Back => \E j \in Images : age[j] = n
    /\ \A i \in client, j \in free : Waited(j) > Back => Waited(i) >= MaxWait
    /\ \A i \in client \cup free : Waited(i) <= Most

LEMMA Bounds ==
    ASSUME ServedInTime, NEW i \in Images
    PROVE  /\ Round \in Nat \ {0} /\ MaxWait \in Nat \ {0} /\ IntMax \in Nat \ {0}
           /\ IntMin = -IntMax - 1
           /\ Back \in Nat /\ Back >= MaxWait - 1 /\ Most \in Nat /\ Most = Back + Round - 1
           /\ Back = MaxWait + Round - 2 /\ Most < IntMax /\ Round <= MaxWait
  <1>1. Round \in Nat /\ Round # 0
    BY FS_CardinalityType, FS_EmptySet DEF ServedInTime, Round
  <1> QED
    BY <1>1, IntMaxAssumption, MaxWaitAssumption DEF ServedInTime, Back, Most, IntMin

\* Waiting, of an age.
WaitOf(a) == IF a = IntMax THEN 0 ELSE IF a < 0 THEN a - IntMin ELSE a

LEMMA WaitGrows ==
    ASSUME NEW a \in IntMin .. IntMax
    PROVE  /\ WaitOf(a) \in 0 .. IntMax
           /\ WaitOf(Wrap(a + 1)) \in Int /\ WaitOf(Wrap(a + 1)) <= WaitOf(a) + 1
  <1>1. Wrap(a + 1) = IF a = IntMax THEN IntMin ELSE a + 1
    BY WrapOnce
  <1> QED
    BY <1>1, IntMaxAssumption DEF WaitOf, IntMin

LEMMA WaitedIs ==
    ASSUME SInv, NEW i \in Images
    PROVE  Waited(i) = WaitOf(age[i]) /\ Waited(i) \in 0 .. IntMax /\ age[i] \in IntMin .. IntMax
  <1>1. age[i] \in IntMin .. IntMax
    BY DEF SInv, TypeOK
  <1>2. Waited(i) = WaitOf(age[i])
    BY DEF Waited, WaitOf
  <1> QED
    BY <1>1, <1>2, WaitGrows

\* No more images wait for the display than there are.
LEMMA QueueFits ==
    ASSUME SInv, IsFiniteSet(Images), NEW s \in SUBSET Images, s \cap Elems(queue) = {}
    PROVE  Len(queue) \in Nat /\ Len(queue) + Cardinality(s) <= Round
  <1>1. queue \in Seq(Images) /\ Distinct(queue)
    BY DEF SInv, TypeOK, Apart
  <1>2. Len(queue) \in Nat /\ DOMAIN queue = 1 .. Len(queue)
    BY <1>1, LenProperties
  <1>3. \A n \in 1 .. Len(queue) : queue[n] \in Images \ s
    BY <1>1, <1>2, ElementOfSeq DEF Elems
  <1>4. queue \in [1 .. Len(queue) -> Images \ s]
    <2>1. queue = [n \in DOMAIN queue |-> queue[n]]
      BY <1>1
    <2> QED
      BY <1>2, <1>3, <2>1
  <1>5. /\ IsFiniteSet(1 .. Len(queue)) /\ Cardinality(1 .. Len(queue)) = Len(queue)
        /\ IsFiniteSet(Images \ s) /\ Round \in Nat
        /\ IsFiniteSet(s) /\ Cardinality(s) \in Nat
    <2>1. IsFiniteSet(1 .. Len(queue)) /\ Cardinality(1 .. Len(queue)) = Len(queue)
      <3>1. 1 \in Int /\ Len(queue) \in Int /\ (1 > Len(queue) => Len(queue) = 0)
        BY <1>2
      <3> QED
        BY <1>2, <3>1, FS_Interval
    <2>2. IsFiniteSet(Images \ s) /\ IsFiniteSet(s)
      BY FS_Subset
    <2> QED
      BY <2>1, <2>2, FS_CardinalityType DEF Round
  <1>6. Cardinality(Images \ s) = Round - Cardinality(s)
    <2>1. Images \cap s = s
      OBVIOUS
    <2>2. Cardinality(Images \ s) = Cardinality(Images) - Cardinality(Images \cap s)
      BY FS_Difference
    <2> QED
      BY <2>1, <2>2 DEF Round
  <1>7. ~(Cardinality(Images \ s) < Len(queue))
    <2>1. ASSUME Cardinality(Images \ s) < Len(queue)
          PROVE  \E m, n \in 1 .. Len(queue) : m # n /\ queue[m] = queue[n]
      BY <1>4, <1>5, <2>1, FS_PigeonHole
    <2> QED
      BY <1>1, <1>2, <2>1 DEF Distinct
  <1> QED
    BY <1>2, <1>5, <1>6, <1>7

\* Not every age below the number of images is that of another image.
LEMMA AgesRunOut ==
    ASSUME IsFiniteSet(Images), NEW i \in Images, NEW f,
           \A n \in 0 .. Round - 1 : \E j \in Images \ {i} : f[j] = n
    PROVE  FALSE
  <1>1. Round \in Nat /\ IsFiniteSet(Images \ {i}) /\ Cardinality(Images \ {i}) = Round - 1
    BY FS_CardinalityType, FS_RemoveElement DEF Round
  <1>2. IsFiniteSet(0 .. Round - 1) /\ Cardinality(0 .. Round - 1) = Round
    <2>1. 0 \in Int /\ Round - 1 \in Int /\ (0 > Round - 1 => Round = 0)
      BY <1>1
    <2> QED
      BY <1>1, <2>1, FS_Interval
  <1> DEFINE g == [n \in 0 .. Round - 1 |-> CHOOSE j \in Images \ {i} : f[j] = n]
  <1>3. \A n \in 0 .. Round - 1 : g[n] \in Images \ {i} /\ f[g[n]] = n
    OBVIOUS
  <1>4. g \in [0 .. Round - 1 -> Images \ {i}]
    BY <1>3
  <1> HIDE DEF g
  <1>5. \E m, n \in 0 .. Round - 1 : m # n /\ g[m] = g[n]
    BY <1>1, <1>2, <1>4, FS_PigeonHole
  <1> QED
    BY <1>3, <1>5

LEMMA InTimeInit == ServedInTime /\ LoopInit => InTime
  <1> SUFFICES ASSUME ServedInTime, LoopInit PROVE InTime
    OBVIOUS
  <1>1. /\ age = [i \in Images |-> IntMax] /\ free = Images /\ client = {} /\ shown = {}
        /\ DOMAIN queue = {}
    BY EmptySeq DEF LoopInit, Init
  <1>2. \A i \in Images : Waited(i) = 0
    BY <1>1 DEF Waited
  <1>3. \A i \in Images : Back \in Nat /\ Most \in Nat
    BY Bounds
  <1> QED
    BY <1>1, <1>2, <1>3 DEF InTime

\* A frame of image i: the others wait one longer, and their ages move on.
LEMMA FrameInTime ==
    ASSUME ServedInTime, SInv, SInv', InTime, NEW i \in Images, PresentSuccess(i)
    PROVE  InTime'
  <1>1. /\ i \in client /\ client = {i} /\ client' = {} /\ queue' = Append(queue, i)
        /\ UNCHANGED <<free, shown, lost>>
        /\ age' = [[j \in Images |-> Wrap(age[j] + 1)] EXCEPT ![i] = 0]
    BY DEF PresentSuccess, Presented, SInv, Single
  <1>2. /\ Round \in Nat \ {0} /\ MaxWait \in Nat \ {0} /\ IntMax \in Nat \ {0}
        /\ IntMin = -IntMax - 1
        /\ Back \in Nat /\ Back >= MaxWait - 1 /\ Most \in Nat /\ Most = Back + Round - 1
        /\ Back = MaxWait + Round - 2 /\ Most < IntMax /\ Round <= MaxWait
    BY Bounds
  <1>3. \A j \in Images : Waited(j) \in 0 .. IntMax /\ Waited(j)' \in 0 .. IntMax
    <2>1. \A j \in Images : Waited(j) \in 0 .. IntMax
      BY WaitedIs
    <2>2. ASSUME NEW j \in Images PROVE Waited(j)' \in 0 .. IntMax
      <3>1. age'[j] \in IntMin .. IntMax
        BY DEF SInv, TypeOK
      <3>2. Waited(j)' = WaitOf(age'[j])
        BY DEF Waited, WaitOf
      <3> QED
        BY <3>1, <3>2, WaitGrows
    <2> QED
      BY <2>1, <2>2
  <1>4. ASSUME NEW j \in Images, j # i PROVE Waited(j)' <= Waited(j) + 1
    <2>1. age'[j] = Wrap(age[j] + 1)
      BY <1>1, <1>4
    <2>2. Waited(j) = WaitOf(age[j]) /\ Waited(j)' = WaitOf(age'[j]) /\ age[j] \in IntMin .. IntMax
      BY WaitedIs DEF Waited, WaitOf
    <2> QED
      BY <2>1, <2>2, WaitGrows
  <1>5. age'[i] = 0 /\ Waited(i)' = 0
    BY <1>1, <1>2 DEF Waited
  <1>6. /\ queue \in Seq(Images) /\ Len(queue) \in Nat /\ DOMAIN queue = 1 .. Len(queue)
        /\ Elems(queue') = Elems(queue) \cup {i}
    BY <1>1, Queued, LenProperties DEF SInv, TypeOK, Apart
  <1>7. /\ Len(queue') = Len(queue) + 1 /\ queue'[Len(queue) + 1] = i
        /\ \A n \in 1 .. Len(queue) : queue'[n] = queue[n]
        /\ queue' \in Seq(Images)
    BY <1>1, <1>6
  <1>8. DOMAIN queue' = 1 .. Len(queue) + 1
    BY <1>7, LenProperties
  <1>9. \A j \in free \cup shown \cup Elems(queue) : j \in Images /\ j # i
    BY <1>1, <1>6, ElementOfSeq DEF SInv, TypeOK, Apart, Elems
  <1>10. Images \subseteq (lost \cup client \cup free \cup shown \cup Elems(queue))'
    BY <1>1, <1>6 DEF InTime
  <1>11. ASSUME NEW n \in DOMAIN queue'
         PROVE  WaitOf(age'[queue'[n]]) <= MaxWait - 1 + Len(queue') - n
    <2>1. CASE n = Len(queue) + 1
      BY <1>2, <1>5, <1>6, <1>7, <2>1 DEF WaitOf
    <2>2. CASE n # Len(queue) + 1
      <3>1. n \in 1 .. Len(queue)
        BY <1>6, <1>8, <2>2
      <3>2. queue'[n] = queue[n] /\ queue[n] \in Images /\ queue[n] # i
        BY <1>6, <1>7, <1>9, <3>1, ElementOfSeq DEF Elems
      <3>3. PICK j \in Images : j = queue[n] /\ j # i
        BY <3>2
      <3>4. Waited(j) <= MaxWait - 1 + Len(queue) - n
        BY <1>6, <3>1, <3>3 DEF InTime
      <3>5. Waited(j)' <= Waited(j) + 1 /\ Waited(j)' = WaitOf(age'[queue'[n]])
        BY <1>4, <3>2, <3>3 DEF Waited, WaitOf
      <3> QED
        BY <1>2, <1>3, <1>6, <1>7, <3>1, <3>4, <3>5
    <2> QED
      BY <2>1, <2>2
  <1>12. ASSUME NEW j \in shown PROVE Waited(j)' <= MaxWait - 1 + Len(queue')
    <2>1. j \in Images /\ j # i /\ Waited(j) <= MaxWait - 1 + Len(queue)
      BY <1>9 DEF InTime
    <2> QED
      BY <1>2, <1>3, <1>4, <1>6, <1>7, <2>1
  <1>13. ASSUME NEW j \in free, NEW n \in Nat, n < Waited(j)' - Back
         PROVE  \E k \in Images : age'[k] = n
    <2>1. j \in Images /\ j # i /\ Waited(j)' <= Waited(j) + 1 /\ Waited(j) <= Most
      BY <1>4, <1>9 DEF InTime
    <2>2. CASE n = 0
      BY <1>5, <2>2
    <2>3. CASE n # 0
      <3>1. n - 1 \in Nat /\ n - 1 < Waited(j) - Back /\ Waited(j) > Back
        BY <1>2, <1>3, <1>13, <2>1, <2>3
      <3>2. PICK k \in Images : age[k] = n - 1
        BY <3>1 DEF InTime
      <3>3. n - 1 < Round - 1 /\ n - 1 < MaxWait /\ n - 1 < IntMax
        BY <1>2, <1>3, <2>1, <3>1
      <3>4. Waited(i) >= MaxWait
        BY <1>1, <3>1 DEF InTime
      <3>5. Waited(k) = n - 1
        BY <3>1, <3>2, <3>3 DEF Waited
      <3>6. k # i
        BY <1>2, <3>1, <3>3, <3>4, <3>5
      <3>7. age'[k] = Wrap(age[k] + 1) /\ age[k] \in IntMin .. IntMax
        BY <1>1, <3>6, WaitedIs
      <3>8. age[k] # IntMax /\ age[k] + 1 = n
        BY <1>2, <3>2, <3>3
      <3> QED
        BY <3>7, <3>8, WrapOnce
    <2> QED
      BY <2>2, <2>3
  <1>14. ASSUME NEW j \in free PROVE Waited(j)' <= Most
    <2>1. j \in Images
      BY <1>9
    <2>2. ASSUME Waited(j)' > Most PROVE FALSE
      <3>1. ASSUME NEW n \in 0 .. Round - 1 PROVE \E k \in Images \ {j} : age'[k] = n
        <4>1. n \in Nat /\ n < Waited(j)' - Back
          BY <1>2, <1>3, <2>1, <2>2
        <4>2. PICK k \in Images : age'[k] = n
          BY <1>13, <4>1
        <4>3. Waited(k)' <= n
          BY <1>2, <4>1, <4>2 DEF Waited
        <4>4. k # j
          BY <1>2, <1>3, <2>1, <2>2, <4>3
        <4> QED
          BY <4>2, <4>4
      <3> QED
        BY <2>1, <3>1, AgesRunOut DEF ServedInTime
    <2> QED
      BY <1>2, <1>3, <2>1, <2>2
  <1>15. \A n \in DOMAIN queue' : Waited(queue[n])' <= MaxWait - 1 + Len(queue') - n
    BY <1>11 DEF Waited, WaitOf
  <1> QED
    BY <1>1, <1>10, <1>12, <1>13, <1>14, <1>15 DEF InTime

\* A frame that is shown although blt_present says -1, of an image that has not
\* waited MaxWait frames: no age changes.
LEMMA UnsaidInTime ==
    ASSUME ServedInTime, SInv, InTime, NEW i \in Images, PresentSuboptimal(i),
           Waited(i) < MaxWait
    PROVE  InTime'
  <1>1. /\ i \in client /\ client = {i} /\ client' = {} /\ queue' = Append(queue, i)
        /\ UNCHANGED <<free, shown, lost, age>>
    BY DEF PresentSuboptimal, Presented, SInv, Single
  <1>2. MaxWait \in Nat \ {0} /\ \A j \in Images : Waited(j) \in 0 .. IntMax
    BY Bounds, WaitedIs
  <1>3. /\ queue \in Seq(Images) /\ Len(queue) \in Nat /\ DOMAIN queue = 1 .. Len(queue)
        /\ Elems(queue') = Elems(queue) \cup {i}
    BY <1>1, Queued, LenProperties DEF SInv, TypeOK, Apart
  <1>4. /\ Len(queue') = Len(queue) + 1 /\ queue'[Len(queue) + 1] = i
        /\ \A n \in 1 .. Len(queue) : queue'[n] = queue[n]
        /\ queue' \in Seq(Images)
    BY <1>1, <1>3
  <1>5. DOMAIN queue' = 1 .. Len(queue) + 1
    BY <1>4, LenProperties
  <1>6. Images \subseteq (lost \cup client \cup free \cup shown \cup Elems(queue))'
    BY <1>1, <1>3 DEF InTime
  <1>7. \A j : Waited(j)' = Waited(j)
    BY <1>1 DEF Waited
  <1>8. ASSUME NEW n \in DOMAIN queue'
        PROVE  Waited(queue'[n]) <= MaxWait - 1 + Len(queue') - n
    <2>1. CASE n = Len(queue) + 1
      BY <1>2, <1>3, <1>4, <2>1
    <2>2. CASE n # Len(queue) + 1
      <3>1. n \in 1 .. Len(queue)
        BY <1>3, <1>5, <2>2
      <3>2. queue'[n] = queue[n] /\ queue[n] \in Images
        BY <1>3, <1>4, <3>1, ElementOfSeq
      <3>3. Waited(queue[n]) <= MaxWait - 1 + Len(queue) - n /\ Waited(queue[n]) \in 0 .. IntMax
        BY <1>2, <1>3, <3>1, <3>2 DEF InTime
      <3> QED
        BY <1>2, <1>3, <1>4, <3>1, <3>2, <3>3, IntMaxAssumption
    <2> QED
      BY <2>1, <2>2
  <1>9. \A n \in DOMAIN queue' : Waited(queue[n])' <= MaxWait - 1 + Len(queue') - n
    BY <1>1, <1>8 DEF Waited
  <1>10. ASSUME NEW j \in shown PROVE Waited(j)' <= MaxWait - 1 + Len(queue')
    <2>1. j \in Images /\ Waited(j) <= MaxWait - 1 + Len(queue) /\ Waited(j) \in 0 .. IntMax
      BY <1>2 DEF InTime, SInv, TypeOK
    <2> QED
      BY <1>2, <1>3, <1>4, <1>7, <2>1, IntMaxAssumption
  <1> QED
    BY <1>1, <1>6, <1>7, <1>9, <1>10 DEF InTime

\* What comes off the display has waited for no more images than there are.
LEMMA DisplayInTime == ASSUME ServedInTime, SInv, InTime, Display PROVE InTime'
  <1>1. /\ queue # <<>> /\ shown' = {Head(queue)} /\ free' = free \cup shown
        /\ queue' = Tail(queue) /\ UNCHANGED <<age, client, lost>>
    BY DEF Display
  <1>2. queue \in Seq(Images) /\ Distinct(queue) /\ shown \subseteq Images
    BY DEF SInv, TypeOK, Apart
  <1>3. /\ Len(queue) \in Nat \ {0} /\ DOMAIN queue = 1 .. Len(queue) /\ Head(queue) = queue[1]
        /\ Head(queue) \in Images
    BY <1>1, <1>2, LenProperties, EmptySeq, HeadTailProperties
  <1>4. queue' \in Seq(Images) /\ Len(queue') = Len(queue) - 1
        /\ \A n \in 1 .. Len(queue') : queue'[n] = queue[n + 1]
    BY <1>1, <1>2, HeadTailProperties
  <1>5. DOMAIN queue' = 1 .. Len(queue) - 1
    BY <1>4, LenProperties
  <1>6. Elems(queue) \subseteq Elems(queue') \cup {Head(queue)}
    <2> SUFFICES ASSUME NEW n \in 1 .. Len(queue), n # 1 PROVE queue[n] \in Elems(queue')
      BY <1>3 DEF Elems
    <2>1. n - 1 \in 1 .. Len(queue) - 1 /\ n - 1 + 1 = n
      BY <1>3
    <2> QED
      BY <1>4, <1>5, <2>1 DEF Elems
  <1>7. Images \subseteq (lost \cup client \cup free \cup shown \cup Elems(queue))'
    BY <1>1, <1>6 DEF InTime
  <1>8. \A j \in Images : Waited(j)' = Waited(j) /\ Waited(j) \in 0 .. IntMax
    BY <1>1, WaitedIs DEF Waited
  <1>9. /\ Round \in Nat \ {0} /\ MaxWait \in Nat \ {0} /\ Back \in Nat /\ Most \in Nat
        /\ Most = Back + Round - 1 /\ Back = MaxWait + Round - 2
    BY <1>3, Bounds
  <1>10. \A n \in DOMAIN queue' : Waited(queue[n])' <= MaxWait - 1 + Len(queue') - n
    <2>1. ASSUME NEW n \in 1 .. Len(queue) - 1
          PROVE  Waited(queue'[n]) <= MaxWait - 1 + Len(queue') - n
      <3>1. n + 1 \in 1 .. Len(queue) /\ n \in 1 .. Len(queue')
        BY <1>3, <1>4
      <3>2. queue'[n] = queue[n + 1] /\ queue[n + 1] \in Images
        BY <1>2, <1>4, <3>1, ElementOfSeq
      <3>3. Waited(queue[n + 1]) <= MaxWait - 1 + Len(queue) - (n + 1)
        BY <1>3, <3>1 DEF InTime
      <3>4. MaxWait - 1 + Len(queue) - (n + 1) = MaxWait - 1 + Len(queue') - n
        BY <1>3, <1>4, <1>9
      <3> QED
        BY <3>2, <3>3, <3>4
    <2> QED
      BY <1>1, <1>5, <2>1 DEF Waited
  <1>11. Waited(Head(queue)) <= MaxWait - 1 + Len(queue')
    <2>1. Waited(queue[1]) <= MaxWait - 1 + Len(queue) - 1
      BY <1>3 DEF InTime
    <2>2. MaxWait - 1 + Len(queue) - 1 = MaxWait - 1 + Len(queue')
      BY <1>3, <1>4, <1>9
    <2> QED
      BY <1>3, <2>1, <2>2
  <1>12. \A i \in shown' : Waited(i)' <= MaxWait - 1 + Len(queue')
    BY <1>1, <1>3, <1>8, <1>11
  <1>13. ASSUME NEW i \in shown PROVE Waited(i) <= Back
    <2>1. i \in Images /\ {i} \cap Elems(queue) = {}
      BY <1>2 DEF SInv, Apart
    <2>2. Len(queue) + 1 <= Round
      <3>1. Cardinality({i}) = 1 /\ {i} \in SUBSET Images
        BY <2>1, FS_Singleton
      <3>2. Len(queue) + Cardinality({i}) <= Round
        BY <2>1, <3>1, QueueFits DEF ServedInTime
      <3> QED
        BY <3>1, <3>2
    <2>3. Waited(i) <= MaxWait - 1 + Len(queue)
      BY DEF InTime
    <2> QED
      BY <1>3, <1>8, <1>9, <2>1, <2>2, <2>3
  <1>14. \A i \in free \cup shown \cup client : i \in Images
    BY DEF SInv, TypeOK
  <1>15. ASSUME NEW i \in free', NEW n \in Nat, n < Waited(i)' - Back
         PROVE  \E j \in Images : age'[j] = n
    <2>1. i \in free
      BY <1>1, <1>8, <1>9, <1>13, <1>14, <1>15, IntMaxAssumption
    <2> QED
      BY <1>1, <1>8, <1>14, <1>15, <2>1 DEF InTime
  <1>16. ASSUME NEW i \in client', NEW j \in free', Waited(j)' > Back PROVE Waited(i)' >= MaxWait
    <2>1. j \in free
      BY <1>1, <1>8, <1>9, <1>13, <1>14, <1>16, IntMaxAssumption
    <2> QED
      BY <1>1, <1>8, <1>14, <1>16, <2>1 DEF InTime
  <1>17. ASSUME NEW i \in client' \cup free' PROVE Waited(i)' <= Most
    <2>1. CASE i \in shown
      BY <1>8, <1>9, <1>13, <1>14, <2>1
    <2>2. CASE i \notin shown
      BY <1>1, <1>8, <1>14, <2>2 DEF InTime
    <2> QED
      BY <2>1, <2>2
  <1> QED
    BY <1>7, <1>10, <1>12, <1>15, <1>16, <1>17 DEF InTime

LEMMA InTimeStep ==
    ASSUME ServedInTime, SInv, SInv', InTime, [LoopNext]_loop
    PROVE  InTime'
  <1>1. CASE AsksForImage \/ IsGivenNothing
    BY <1>1
    DEF AsksForImage, IsGivenNothing, OnSurface, Acquire, AcquireError, InTime, Waited, Elems
  <1>2. ASSUME NEW i \in Images, IsGiven(i) PROVE InTime'
    <2>1. /\ Offered(i) /\ i \in free /\ free' = free \ {i} /\ client = {} /\ client' = {i}
          /\ UNCHANGED <<age, queue, shown, lost>>
      BY <1>2 DEF IsGiven, OnSurface, AcquireSuccess, Offered, SInv
    <2>2. \A j : Waited(j)' = Waited(j)
      BY <2>1 DEF Waited
    <2>3. ASSUME NEW j \in free', Waited(j)' > Back PROVE Waited(i)' >= MaxWait
      <3>1. j \in free /\ j \in Images
        BY <2>1 DEF SInv, TypeOK
      <3>2. Waited(j) \in 0 .. IntMax /\ Waited(j) > Back
        BY <2>2, <2>3, <3>1, WaitedIs
      <3>3. Waited(j) >= MaxWait
        BY <3>1, <3>2, Bounds
      <3> QED
        BY <2>1, <2>2, <3>1, <3>3 DEF Offered
    <2>4. Images \subseteq (lost \cup client \cup free \cup shown \cup Elems(queue))'
      BY <2>1 DEF InTime, Elems
    <2>5. \A n \in DOMAIN queue' : Waited(queue[n])' <= MaxWait - 1 + Len(queue') - n
      BY <2>1 DEF InTime, Waited
    <2> QED
      BY <2>1, <2>2, <2>3, <2>4, <2>5 DEF InTime
  <1>3. ASSUME NEW i \in Images, LosesImage(i) PROVE InTime'
    <2>1. /\ free' = free \ {i} /\ lost' = lost \cup {i} /\ UNCHANGED <<age, queue, shown, client>>
      BY <1>3 DEF LosesImage, OnSurface, AcquireSuboptimal
    <2> QED
      BY <2>1 DEF InTime, Waited, Elems
  <1>4. ASSUME NEW i \in Images, NEW new \in SUBSET Cells, Repaint(i, new) PROVE InTime'
    BY <1>4 DEF Repaint, surface, vars, InTime, Waited, Elems
  <1>5. ASSUME NEW i \in Images, PresentFrame(i) PROVE InTime'
    BY <1>5, FrameInTime DEF PresentFrame
  <1>6. ASSUME NEW i \in Images, PresentFails(i) PROVE InTime'
    BY <1>6 DEF PresentFails, OnSurface, PresentError, vars, InTime, Waited, Elems
  <1>7. ASSUME NEW i \in Images, PresentUnsaid(i) PROVE InTime'
    BY <1>7, UnsaidInTime DEF PresentUnsaid
  <1>8. CASE IsDisplayed
    BY <1>8, DisplayInTime DEF IsDisplayed, OnSurface
  <1>9. CASE UNCHANGED loop
    BY <1>9 DEF loop, surface, vars, InTime, Waited, Elems
  <1> QED
    BY <1>1, <1>2, <1>3, <1>4, <1>5, <1>6, <1>7, <1>8, <1>9 DEF LoopNext

\* No image in circulation has waited longer than Most.
LEMMA MostIsMost == ASSUME ServedInTime, SInv, InTime PROVE AgesGoOn
  <1> SUFFICES ASSUME NEW i \in Images \ lost, age[i] = -1 PROVE FALSE
    BY DEF AgesGoOn
  <1>1. /\ Round \in Nat \ {0} /\ MaxWait \in Nat \ {0} /\ IntMax \in Nat \ {0}
        /\ IntMin = -IntMax - 1 /\ Most < IntMax /\ Most \in Nat
        /\ Most = Back + Round - 1 /\ Back = MaxWait + Round - 2
    BY Bounds
  <1>2. Waited(i) = IntMax
    BY <1>1 DEF Waited
  <1>3. /\ queue \in Seq(Images) /\ Len(queue) \in Nat /\ DOMAIN queue = 1 .. Len(queue)
        /\ Len(queue) <= Round
    <2>1. queue \in Seq(Images) /\ DOMAIN queue = 1 .. Len(queue)
      BY LenProperties DEF SInv, TypeOK
    <2>2. {} \in SUBSET Images /\ {} \cap Elems(queue) = {} /\ Cardinality({}) = 0
      BY FS_EmptySet
    <2>3. Len(queue) \in Nat /\ Len(queue) + 0 <= Round
      BY <2>2, QueueFits DEF ServedInTime
    <2> QED
      BY <1>1, <2>1, <2>3
  <1>4. CASE i \in client \cup free
    BY <1>1, <1>2, <1>4 DEF InTime
  <1>5. CASE i \in shown
    <2>1. Waited(i) <= MaxWait - 1 + Len(queue)
      BY <1>5 DEF InTime
    <2>2. {i} \cap Elems(queue) = {} /\ {i} \in SUBSET Images /\ Cardinality({i}) = 1
      BY <1>5, FS_Singleton DEF SInv, Apart
    <2>3. Len(queue) + Cardinality({i}) <= Round
      BY <2>2, QueueFits DEF ServedInTime
    <2> QED
      BY <1>1, <1>2, <1>3, <2>1, <2>2, <2>3
  <1>6. CASE i \in Elems(queue)
    <2>1. PICK n \in 1 .. Len(queue) : queue[n] = i
      BY <1>3, <1>6 DEF Elems
    <2>2. Waited(i) <= MaxWait - 1 + Len(queue) - n
      BY <1>3, <2>1 DEF InTime
    <2> QED
      BY <1>1, <1>2, <1>3, <2>1, <2>2
  <1> QED
    BY <1>4, <1>5, <1>6 DEF InTime

LEMMA LoopInTime == ASSUME ServedInTime PROVE LoopSpec => []InTime
  <1>1. LoopInit => InTime
    BY InTimeInit
  <1>2. InTime /\ SInv /\ SInv' /\ [LoopNext]_loop => InTime'
    BY InTimeStep
  <1> QED
    BY <1>1, <1>2, LoopSInv, PTL DEF LoopSpec

\* No image in circulation ages until its age, an int, comes round to 0, when
\* one that waited MaxWait frames is handed out first and MaxWait lies well
\* between the number of images and INT_MAX (vulkan/impl.c:161-165, 187-189).
THEOREM FrameLoopAgesGoOn == ServedInTime => (LoopSpec => []AgesGoOn)
  <1> SUFFICES ASSUME ServedInTime PROVE LoopSpec => []AgesGoOn
    OBVIOUS
  <1>1. InTime /\ SInv => AgesGoOn
    BY MostIsMost
  <1> QED
    BY <1>1, LoopInTime, LoopSInv, PTL

\* So no cell that changed is left out of a frame, with no condition on the run:
\* only on the client, the wait and the width of an int.
THEOREM FrameLoopUpToDateInTime ==
    DistrustsEnough /\ ServedInTime => (LoopSpec => []FramesUpToDate)
  <1> SUFFICES ASSUME DistrustsEnough, ServedInTime PROVE LoopSpec => []FramesUpToDate
    OBVIOUS
  <1>1. LoopSpec => []AgesGoOn
    BY FrameLoopAgesGoOn
  <1>2. LoopSpec /\ []AgesGoOn => []FramesUpToDate
    BY FrameLoopUpToDate
  <1> QED
    BY <1>1, <1>2, PTL
=============================================================================
