----------------------------- MODULE Attachments -----------------------------
(***************************************************************************)
(* What a client relies on when it attaches data of its own to an image:   *)
(* what it added is given back to it when the image is destroyed, each     *)
(* piece once, the latest first, and before the image is gone.             *)
(***************************************************************************)
EXTENDS Naturals, Sequences

CONSTANTS
    Images,     \* the images there may be
    Nodes,      \* what may be attached to them
    Null        \* no node

VARIABLES
    made,       \* the images there are
    attached,   \* what is attached to each, the latest first
    calls       \* the images being destroyed, the innermost call last, each
                \* with the node just given back to its callback

vars == <<made, attached, calls>>

Attached == UNION {{attached[i][k] : k \in DOMAIN attached[i]} : i \in Images}

InCallback == calls[Len(calls)].node # Null
Top        == calls[Len(calls)].img

Make(i) ==
    /\ i \notin made
    /\ made' = made \cup {i}
    /\ attached' = [attached EXCEPT ![i] = <<>>]
    /\ UNCHANGED calls

Add(i, d) ==
    /\ d \notin Attached
    /\ attached' = [attached EXCEPT ![i] = <<d>> \o @]
    /\ UNCHANGED <<made, calls>>

\* The callback of a node may destroy another image.
Destroy(i) ==
    /\ i \in made
    /\ calls' = Append(calls, [img |-> i, node |-> Null])
    /\ UNCHANGED <<made, attached>>

GiveBack ==
    /\ calls # <<>> /\ ~InCallback
    /\ attached[Top] # <<>>
    /\ attached' = [attached EXCEPT ![Top] = Tail(@)]
    /\ calls' = [calls EXCEPT ![Len(calls)].node = Head(attached[Top])]
    /\ UNCHANGED made

CallbackReturns ==
    /\ calls # <<>> /\ InCallback
    /\ calls' = [calls EXCEPT ![Len(calls)].node = Null]
    /\ UNCHANGED <<made, attached>>

\* Nothing is left attached to an image that goes.
Gone ==
    /\ calls # <<>> /\ ~InCallback
    /\ attached[Top] = <<>>
    /\ made' = made \ {Top}
    /\ calls' = SubSeq(calls, 1, Len(calls) - 1)
    /\ UNCHANGED attached

Init ==
    /\ made = {}
    /\ attached = [i \in Images |-> <<>>]
    /\ calls = <<>>

Next ==
    \/ \E i \in Images : Make(i) \/ Destroy(i)
    \/ \E i \in Images, d \in Nodes : Add(i, d)
    \/ GiveBack \/ CallbackReturns \/ Gone

Spec == Init /\ [][Next]_vars
=============================================================================
