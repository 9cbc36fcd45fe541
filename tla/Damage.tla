------------------------------- MODULE Damage -------------------------------
(***************************************************************************)
(* The damage tracker of damage.c: a ring of num_regions regions, rotated  *)
(* by blt_cycle_damage so that the region of an image of age a is          *)
(* a slots after offset.  A region is the set of cells it covers; the      *)
(* pointer blt_damage returns is the slot it points at.                    *)
(***************************************************************************)
EXTENDS Integers

CONSTANTS
    Cells,          \* the pixels of the surface
    NumRegions,     \* damage->num_regions
    Ages,           \* the ages the caller passes to blt_damage
    InfiniteDamage, \* the address of infinite_damage
    NoRegion        \* the caller has not called blt_damage yet

ASSUME NumRegionsAssumption == NumRegions \in Nat \ {0}
ASSUME AgesAssumption == Ages \subseteq Int
ASSUME PointersAssumption ==
    /\ InfiniteDamage \notin Int
    /\ NoRegion \notin Int
    /\ InfiniteDamage # NoRegion

VARIABLES
    offset,         \* damage->offset
    regions,        \* damage->regions
    asked,          \* the age of the last call of blt_damage
    returned        \* what that call returned

vars == <<offset, regions, asked, returned>>

Slots == 0 .. NumRegions - 1

\* infinite_damage: extents no cell lies outside of.
Infinite == Cells

\* The remainder of C, which takes the sign of the dividend.
CRem(a, n) == IF a >= 0 THEN a % n ELSE -((-a) % n)

RegionIndex(age) == CRem(age + offset, NumRegions)

BltNewDamage ==
    /\ offset = 0
    /\ regions = [i \in Slots |-> Infinite]
    /\ asked = NoRegion
    /\ returned = NoRegion

\* Mistake: only the region asked for takes the new damage.
BltDamageOnlyAsked(age, new) ==
    /\ regions' = [regions EXCEPT ![RegionIndex(age)] = @ \cup new]
    /\ asked' = age
    /\ returned' = IF age > NumRegions THEN InfiniteDamage ELSE RegionIndex(age)
    /\ UNCHANGED offset

\* Mistake: an untracked age still names a place in the array.
BltDamageUnwrapped(age, new) ==
    /\ regions' = [i \in Slots |-> regions[i] \cup new]
    /\ asked' = age
    /\ returned' = IF age > NumRegions THEN InfiniteDamage ELSE age + offset
    /\ UNCHANGED offset

\* A NULL new_damage is the empty set: the union with it changes nothing.
BltDamage(age, new) ==
    /\ regions' = [i \in Slots |-> regions[i] \cup new]
    /\ asked' = age
    /\ returned' = IF age > NumRegions THEN InfiniteDamage ELSE RegionIndex(age)
    /\ UNCHANGED offset

\* Mistake: the ring turns the other way.
BltCycleDamageForwards ==
    /\ offset' = (offset + 1) % NumRegions
    /\ regions' = [regions EXCEPT ![offset'] = {}]
    /\ UNCHANGED <<asked, returned>>

BltCycleDamage ==
    /\ offset' = (offset + NumRegions - 1) % NumRegions
    /\ regions' = [regions EXCEPT ![offset'] = {}]
    /\ UNCHANGED <<asked, returned>>

Init == BltNewDamage

Next ==
    \/ \E age \in Ages, new \in SUBSET Cells : BltDamage(age, new)
    \/ BltCycleDamage

Spec == Init /\ [][Next]_vars

-----------------------------------------------------------------------------
(* The region of the image of each age, and the age of the image a slot    *)
(* belongs to.                                                             *)

RegionOf(age) == regions[(age + offset) % NumRegions]

AgeOf(slot) == IF slot >= offset THEN slot - offset ELSE slot - offset + NumRegions

\* The ages man/blt_new_damage.3 gives an answer for, which the code answers
\* as it says: those below num_regions and those above.
AnswerableAges == Ages \subseteq Nat \ {NumRegions}

\* The ring holds one region per slot, offset is a slot, and the pointer the
\* caller was given (blt_damage, damage.c:33) points into the ring or at the
\* infinite region, never beside the array.
TypeOK ==
    /\ offset \in Slots
    /\ regions \in [Slots -> SUBSET Cells]
    /\ asked \in Ages \cup {NoRegion}
    /\ returned \in Slots \cup {InfiniteDamage, NoRegion}

\* What changed since an image includes what changed since a later one: a
\* client that repaints the region of an image never repaints less than it
\* would for a younger one (damage.c:38 adds to every region, damage.c:51
\* empties the one whose turn it is).
OlderIncludesYounger ==
    \A a \in Slots, b \in Slots : a <= b => RegionOf(a) \subseteq RegionOf(b)

\* Only num_regions images are tracked (man/blt_new_damage.3:18-21): whatever is
\* returned for an older one covers every cell, as nothing is known of what
\* changed since it was current (damage.c:42).
UntrackedIsEverything ==
    asked \in Ages /\ asked >= NumRegions /\ returned \in Slots => regions[returned] = Infinite

-----------------------------------------------------------------------------
(* The ring implements the tracker by age.                                 *)

ByAge == INSTANCE DamageByAge WITH
    MaxAge <- NumRegions,
    since  <- [age \in Slots |-> RegionOf(age)],
    held   <- IF returned \in Slots THEN AgeOf(returned) ELSE returned,
    Everything <- InfiniteDamage,
    Nothing    <- NoRegion

\* blt_damage and blt_cycle_damage do what man/blt_new_damage.3 says of the
\* tracker: the ring answers each age with what changed since the image of
\* that age, and with everything when the age is not tracked.
ImplementsByAge == ByAge!Spec
=============================================================================
