------------------------------ MODULE MCDamage ------------------------------
(* The damage tracker with three regions and a few cells.                  *)
EXTENDS Damage

\* Ages the tracker has an answer for: the three tracked and two
\* beyond, 7 standing for INT_MAX, the age of an image never presented.
AgesAnswerable == {0, 1, 2, 4, 7}

\* The same with the first age that is not tracked.
AgesAll == 0 .. 4
=============================================================================
