----------------------------- MODULE MCUserdata -----------------------------
(* Two images and three nodes, with two destroy functions.                 *)
EXTENDS Userdata

CONSTANTS i1, i2, n1, n2, n3, f, g

MCImages == {i1, i2}
MCNodes == {n1, n2, n3}
MCCallbacks == {f, g}
=============================================================================
