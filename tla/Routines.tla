------------------------------ MODULE Routines ------------------------------
(***************************************************************************)
(* The constructors of libblit are written alike: steps that make          *)
(* something each, and a ladder of labels error0, error1, ... at the end   *)
(* that takes back what the steps before the failing one have made.  This  *)
(* module gives a constructor as data.                                     *)
(*                                                                         *)
(* A routine is [steps, exits, gives]: its steps, what is released behind  *)
(* each label (exits[1] is error0; a label falls through to those below    *)
(* it) and what a call that succeeds hands over, which is what the fields  *)
(* of the struct it fills in refer to.  A step is [op, do, names, routine, *)
(* errs, undo]: the C call it stands for, what it makes or drops, the      *)
(* routine it calls, the labels it may jump to when it fails, and what it  *)
(* releases itself before it jumps.                                        *)
(***************************************************************************)
EXTENDS Integers, Sequences

\* In place of a label: the failure is not noticed and the code goes on.
Unseen == -1

NoRoutine == <<"", "">>

Step(op, do, names, routine, errs, undo) ==
    [op |-> op, do |-> do, names |-> names, routine |-> routine, errs |-> errs, undo |-> undo]

\* A call that makes something, or returns an error.
Make(op, names, e) == Step(op, "make", names, NoRoutine, {e}, {})

\* A call or test that makes nothing, and whose failure may show in several ways.
Check(op, e)      == Make(op, {}, e)
CheckAny(op, es)  == Step(op, "make", {}, NoRoutine, es, {})
CheckUndo(op, names, e) == Step(op, "make", {}, NoRoutine, {e}, names)

\* Something that is only needed for a while is released.
Drop(op, names) == Step(op, "drop", names, NoRoutine, {}, {})

\* Another routine is called; Try returns at once if it succeeds, and goes on
\* to the next step if it fails.
Call(routine, e) == Step(routine[1] \o routine[2], "call", {}, routine, {e}, {})
Try(routine)     == Step(routine[1], "try", {}, routine, {}, {})

\* The end of a routine that nothing but a Try leaves earlier.
Fail == Step("return NULL", "stop", {}, NoRoutine, {0}, {})

\* The names of what is made, each with the part of the object it is for.
Of(part, names) == {<<part, n>> : n \in names}
=============================================================================
