---------------------------- MODULE Damage_proofs ----------------------------
(***************************************************************************)
(* The damage tracker is right for any surface, any number of regions and  *)
(* any sequence of calls, provided the caller asks for ages it can answer. *)
(***************************************************************************)
EXTENDS Damage, TLAPS

(* The one turn of the ring an index can make (damage.c:44, 50).           *)
LEMMA RemOneTurn ==
  \A x \in Int : /\ 0 <= x /\ x < NumRegions => x % NumRegions = x
                /\ NumRegions <= x /\ x < NumRegions + NumRegions
                     => x % NumRegions = x - NumRegions
  BY NumRegionsAssumption

(* The index of a tracked age needs at most one turn back.                 *)
LEMMA IndexWraps ==
  ASSUME NEW a \in Slots, NEW o \in Slots
  PROVE  (a + o) % NumRegions = IF a + o < NumRegions THEN a + o ELSE a + o - NumRegions
  BY RemOneTurn, NumRegionsAssumption DEF Slots

(* The region of an image of a tracked age lies in the ring.               *)
LEMMA RegionIndexInRing ==
  ASSUME offset \in Slots, NEW age \in Slots
  PROVE  /\ RegionIndex(age) \in Slots
         /\ RegionIndex(age) = IF age + offset < NumRegions
                               THEN age + offset ELSE age + offset - NumRegions
         /\ RegionIndex(age) = (age + offset) % NumRegions
         /\ AgeOf(RegionIndex(age)) = age
<1>1. age + offset \in Nat /\ age + offset < NumRegions + NumRegions
  BY NumRegionsAssumption DEF Slots
<1>2. (age + offset) % NumRegions
        = IF age + offset < NumRegions THEN age + offset ELSE age + offset - NumRegions
  BY IndexWraps
<1>3. RegionIndex(age) = (age + offset) % NumRegions
  BY <1>1 DEF RegionIndex, CRem
<1>. QED  BY <1>2, <1>3, NumRegionsAssumption DEF Slots, AgeOf

(* The ring turns one slot back: each slot's image is one age older, and   *)
(* the slot of the oldest is the newest image's (damage.c:50).             *)
LEMMA RingTurns ==
  ASSUME offset \in Slots, BltCycleDamage
  PROVE  /\ offset' \in Slots
         /\ offset' = IF offset = 0 THEN NumRegions - 1 ELSE offset - 1
         /\ \A slot \in Slots :
              AgeOf(slot)' = IF AgeOf(slot) = NumRegions - 1 THEN 0 ELSE AgeOf(slot) + 1
<1>1. /\ offset + NumRegions - 1 \in Nat
      /\ offset + NumRegions - 1 < NumRegions + NumRegions
  BY NumRegionsAssumption DEF Slots
<1>2. offset' = IF offset = 0 THEN NumRegions - 1 ELSE offset - 1
  BY <1>1, RemOneTurn, NumRegionsAssumption DEF BltCycleDamage, Slots
<1>. QED  BY <1>2, NumRegionsAssumption DEF Slots, AgeOf

(* The same seen by age: what was the region of an age is the region of    *)
(* the next one, and the newest image's is empty (damage.c:50-51).         *)
LEMMA RegionsAge ==
  ASSUME TypeOK, BltCycleDamage, NEW age \in Slots
  PROVE  RegionOf(age)' = IF age = 0 THEN {} ELSE RegionOf(age - 1)
<1>1. offset' \in Slots /\ offset' = IF offset = 0 THEN NumRegions - 1 ELSE offset - 1
  BY RingTurns DEF TypeOK
<1>2. ((age + offset) % NumRegions)'
        = IF age + offset' < NumRegions THEN age + offset' ELSE age + offset' - NumRegions
  BY <1>1, IndexWraps
<1>3. CASE age = 0
  <2>1. ((age + offset) % NumRegions)' = offset'
    BY <1>1, <1>2, <1>3, NumRegionsAssumption DEF Slots
  <2>. QED  BY <1>1, <1>3, <2>1 DEF RegionOf, BltCycleDamage, TypeOK
<1>4. CASE age # 0
  <2>1. age - 1 \in Slots /\ offset \in Slots
    BY <1>4, NumRegionsAssumption DEF Slots, TypeOK
  <2>2. (age - 1 + offset) % NumRegions
          = IF age - 1 + offset < NumRegions THEN age - 1 + offset ELSE age - 1 + offset - NumRegions
    BY <2>1, RemOneTurn, NumRegionsAssumption DEF Slots
  <2>3. ((age + offset) % NumRegions)' = (age - 1 + offset) % NumRegions
    BY <1>1, <1>2, <1>4, <2>1, <2>2, NumRegionsAssumption DEF Slots
  <2>4. (age - 1 + offset) % NumRegions \in Slots \ {offset'}
    BY <1>1, <1>4, <2>1, <2>2, NumRegionsAssumption DEF Slots
  <2>. QED  BY <1>4, <2>3, <2>4 DEF RegionOf, BltCycleDamage, TypeOK
<1>. QED  BY <1>3, <1>4

-----------------------------------------------------------------------------
(* Type correctness: for ages the tracker can answer, blt_damage            *)
(* (damage.c:33-45) never returns a pointer beside the array.              *)
THEOREM DamageTypeOK == AnswerableAges => (Spec => []TypeOK)
<1>. SUFFICES ASSUME AnswerableAges PROVE Spec => []TypeOK
  OBVIOUS
<1>1. Init => TypeOK
  BY NumRegionsAssumption DEF Init, BltNewDamage, TypeOK, Slots, Infinite
<1>2. TypeOK /\ [Next]_vars => TypeOK'
  <2>. SUFFICES ASSUME TypeOK, [Next]_vars PROVE TypeOK'
    OBVIOUS
  <2>1. ASSUME NEW age \in Ages, NEW new \in SUBSET Cells, BltDamage(age, new)
        PROVE  TypeOK'
    <3>1. regions' \in [Slots -> SUBSET Cells] /\ offset' \in Slots
      BY <2>1 DEF BltDamage, TypeOK
    <3>2. returned' \in Slots \cup {InfiniteDamage}
      <4>1. CASE age > NumRegions
        BY <2>1, <4>1 DEF BltDamage
      <4>2. CASE ~(age > NumRegions)
        <5>1. age \in Slots
          BY <4>2, NumRegionsAssumption DEF AnswerableAges, Slots
        <5>. QED  BY <2>1, <4>2, <5>1, RegionIndexInRing DEF BltDamage, TypeOK
      <4>. QED  BY <4>1, <4>2
    <3>. QED  BY <2>1, <3>1, <3>2 DEF TypeOK, BltDamage
  <2>2. CASE BltCycleDamage
    BY <2>2, RingTurns DEF BltCycleDamage, TypeOK
  <2>3. CASE UNCHANGED vars
    BY <2>3 DEF vars, TypeOK
  <2>. QED  BY <2>1, <2>2, <2>3 DEF Next
<1>. QED  BY <1>1, <1>2, PTL DEF Spec

(* A region handed out for an image includes those of all younger images   *)
(* (damage.c:38-41, 50-51).                                                *)
THEOREM DamageNested == AnswerableAges => (Spec => []OlderIncludesYounger)
<1>. SUFFICES ASSUME AnswerableAges PROVE Spec => []OlderIncludesYounger
  OBVIOUS
<1>1. Init => OlderIncludesYounger
  <2>. SUFFICES ASSUME Init, NEW a \in Slots, NEW b \in Slots, a <= b
               PROVE  RegionOf(a) \subseteq RegionOf(b)
    BY DEF OlderIncludesYounger
  <2>1. offset \in Slots
    BY NumRegionsAssumption DEF Init, BltNewDamage, Slots
  <2>. QED  BY <2>1, RegionIndexInRing DEF Init, BltNewDamage, RegionOf
<1>2. TypeOK /\ OlderIncludesYounger /\ [Next]_vars => OlderIncludesYounger'
  <2>. SUFFICES ASSUME TypeOK, OlderIncludesYounger, [Next]_vars,
                       NEW a \in Slots, NEW b \in Slots, a <= b
               PROVE  RegionOf(a)' \subseteq RegionOf(b)'
    BY DEF OlderIncludesYounger
  <2>1. ASSUME NEW age \in Ages, NEW new \in SUBSET Cells, BltDamage(age, new)
        PROVE  RegionOf(a)' \subseteq RegionOf(b)'
    <3>1. /\ RegionOf(a)' = RegionOf(a) \cup new
          /\ RegionOf(b)' = RegionOf(b) \cup new
      BY <2>1, RegionIndexInRing DEF BltDamage, RegionOf, TypeOK
    <3>. QED  BY <3>1 DEF OlderIncludesYounger
  <2>2. CASE BltCycleDamage
    <3>1. CASE a = 0
      BY <2>2, <3>1, RegionsAge
    <3>2. CASE a # 0
      <4>1. a - 1 \in Slots /\ b - 1 \in Slots /\ a - 1 <= b - 1 /\ b # 0
        BY <3>2, NumRegionsAssumption DEF Slots
      <4>. QED  BY <2>2, <3>2, <4>1, RegionsAge DEF OlderIncludesYounger
    <3>. QED  BY <3>1, <3>2
  <2>3. CASE UNCHANGED vars
    BY <2>3 DEF vars, RegionOf, OlderIncludesYounger
  <2>. QED  BY <2>1, <2>2, <2>3 DEF Next
<1>. QED  BY <1>1, <1>2, DamageTypeOK, PTL DEF Spec

-----------------------------------------------------------------------------
(* The ring implements the tracker that keeps a region per age.            *)

LEMMA InitByAge == Init => ByAge!Init
<1>. SUFFICES ASSUME Init PROVE ByAge!Init
  OBVIOUS
<1>1. offset \in Slots
  BY NumRegionsAssumption DEF Init, BltNewDamage, Slots
<1>2. \A age \in Slots : RegionOf(age) = Cells
  BY <1>1, RegionIndexInRing DEF Init, BltNewDamage, RegionOf, Infinite
<1>. QED
  BY <1>2, PointersAssumption DEF Init, BltNewDamage, ByAge!Init, ByAge!Tracked, Slots

(* A call answers the age it was asked about (damage.c:33-45).             *)
LEMMA BltDamageByAge ==
  ASSUME AnswerableAges, TypeOK, NEW age \in Ages, NEW new \in SUBSET Cells,
         BltDamage(age, new)
  PROVE  ByAge!Damage(age, new)
<1>1. \A a \in Slots : RegionOf(a)' = RegionOf(a) \cup new
  BY RegionIndexInRing DEF BltDamage, RegionOf, TypeOK
<1>2. CASE age > NumRegions
  <2>1. age \notin Slots /\ returned' \notin Slots /\ returned' = InfiniteDamage
    BY <1>2, PointersAssumption, NumRegionsAssumption DEF BltDamage, Slots, AnswerableAges
  <2>. QED
    BY <1>1, <2>1 DEF BltDamage, ByAge!Damage, ByAge!Tracked, Slots
<1>3. CASE ~(age > NumRegions)
  <2>1. age \in Slots
    BY <1>3, NumRegionsAssumption DEF AnswerableAges, Slots
  <2>2. returned' \in Slots /\ AgeOf(returned') = age /\ offset' = offset
    BY <1>3, <2>1, RegionIndexInRing DEF BltDamage, TypeOK
  <2>3. AgeOf(returned)' = age
    BY <2>2 DEF AgeOf
  <2>. QED
    BY <1>1, <2>1, <2>2, <2>3 DEF BltDamage, ByAge!Damage, ByAge!Tracked, Slots
<1>. QED  BY <1>2, <1>3

(* Turning the ring makes every image one age older (damage.c:47-52).      *)
LEMMA BltCycleDamageByAge ==
  ASSUME TypeOK, BltCycleDamage
  PROVE  ByAge!Cycle
<1>1. [age \in Slots |-> RegionOf(age)]'
        = [a \in Slots |-> IF a = 0 THEN {}
                           ELSE [age \in Slots |-> RegionOf(age)][a - 1]]
  <2>1. \A a \in Slots : a # 0 => a - 1 \in Slots
    BY NumRegionsAssumption DEF Slots
  <2>. QED  BY <2>1, RegionsAge
<1>2. CASE returned \in Slots
  <2>1. /\ AgeOf(returned) \in Slots
        /\ AgeOf(returned)' = IF AgeOf(returned) = NumRegions - 1
                              THEN 0 ELSE AgeOf(returned) + 1
    <3>1. AgeOf(returned) \in Slots
      BY <1>2, NumRegionsAssumption DEF AgeOf, Slots, TypeOK
    <3>2. returned' = returned
      BY DEF BltCycleDamage
    <3>. QED  BY <1>2, <3>1, <3>2, RingTurns DEF TypeOK, AgeOf
  <2>2. AgeOf(returned)' = (AgeOf(returned) + 1) % NumRegions
    BY <2>1, RemOneTurn, NumRegionsAssumption DEF Slots
  <2>. QED
    BY <1>1, <1>2, <2>1, <2>2 DEF BltCycleDamage, ByAge!Cycle, ByAge!Tracked, Slots
<1>3. CASE returned \notin Slots
  <2>1. returned \notin ByAge!Tracked /\ returned' = returned /\ asked' = asked
    BY <1>3 DEF BltCycleDamage, ByAge!Tracked, Slots
  <2>2. [age \in Slots |-> RegionOf(age)]'
          = [a \in ByAge!Tracked |-> IF a = 0 THEN {}
                                     ELSE [age \in Slots |-> RegionOf(age)][a - 1]]
    BY <1>1 DEF ByAge!Tracked, Slots
  <2>. QED  BY <1>3, <2>1, <2>2 DEF ByAge!Cycle
<1>. QED  BY <1>2, <1>3

(* Every behaviour of damage.c is one of the tracker man/blt_new_damage.3  *)
(* describes, whatever the ages asked, save num_regions itself.            *)
THEOREM DamageImplementsByAge == AnswerableAges => (Spec => ImplementsByAge)
<1>. SUFFICES ASSUME AnswerableAges PROVE Spec => ByAge!Spec
  BY DEF ImplementsByAge
<1>1. TypeOK /\ [Next]_vars => [ByAge!Next]_(ByAge!vars)
  <2>. SUFFICES ASSUME TypeOK, [Next]_vars PROVE [ByAge!Next]_(ByAge!vars)
    OBVIOUS
  <2>1. ASSUME NEW age \in Ages, NEW new \in SUBSET Cells, BltDamage(age, new)
        PROVE  ByAge!Next
    BY <2>1, BltDamageByAge DEF ByAge!Next
  <2>2. CASE BltCycleDamage
    BY <2>2, BltCycleDamageByAge DEF ByAge!Next
  <2>3. CASE UNCHANGED vars
    BY <2>3 DEF vars, ByAge!vars, RegionOf, AgeOf
  <2>. QED  BY <2>1, <2>2, <2>3 DEF Next
<1>. QED  BY <1>1, InitByAge, DamageTypeOK, PTL DEF Spec, ByAge!Spec
=============================================================================
