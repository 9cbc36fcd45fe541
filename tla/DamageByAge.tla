---------------------------- MODULE DamageByAge ----------------------------
(***************************************************************************)
(* What man/blt_new_damage.3 promises of a damage tracker, without the     *)
(* ring buffer: for each age below MaxAge, the cells that changed since    *)
(* the image of that age was current.  An image older than that has lost   *)
(* its history, so all of it is damaged.  The region a caller was handed   *)
(* is a live one: it follows its image as the image ages, and describes    *)
(* the newest image once its own falls off the end.                        *)
(***************************************************************************)
EXTENDS Integers

CONSTANTS
    Cells,      \* the pixels of the surface
    MaxAge,     \* how many images are tracked
    Ages,       \* the ages a caller may ask about
    Everything, \* held by the caller of an age that is not tracked
    Nothing     \* held before the first call

VARIABLES
    since,      \* since[age] is what changed since the image of that age
    asked,      \* the age of the last call
    held        \* the age the image of the region the caller holds has now

vars == <<since, asked, held>>

Tracked == 0 .. MaxAge - 1

Init ==
    /\ since = [age \in Tracked |-> Cells]
    /\ asked = Nothing
    /\ held = Nothing

Damage(age, new) ==
    /\ since' = [a \in Tracked |-> since[a] \cup new]
    /\ asked' = age
    /\ held' = IF age \in Tracked THEN age ELSE Everything

Cycle ==
    /\ since' = [a \in Tracked |-> IF a = 0 THEN {} ELSE since[a - 1]]
    /\ held' = IF held \in Tracked THEN (held + 1) % MaxAge ELSE held
    /\ UNCHANGED asked

Next ==
    \/ \E age \in Ages, new \in SUBSET Cells : Damage(age, new)
    \/ Cycle

Spec == Init /\ [][Next]_vars
=============================================================================
