------------------------------ MODULE Userdata ------------------------------
(***************************************************************************)
(* The user data of images (image.c:4-34): a list threaded through nodes   *)
(* that belong to the client.  blt_image_destroy unlinks one node at a     *)
(* time and calls its destroy function, which is the client's and may free *)
(* the node, add others, ask for one, or destroy another image.            *)
(***************************************************************************)
EXTENDS Naturals, Sequences, FiniteSets

CONSTANTS
    Images,     \* the addresses of images
    Nodes,      \* the addresses of struct blt_userdata
    Callbacks,  \* the destroy functions
    Null,       \* the null pointer
    Rules       \* what the client keeps to, of AllRules

(* What the code needs of its client:                                      *)
(*   once   it adds no node that is still attached to an image             *)
(*   kept   it frees no node that is still attached                        *)
(*   ended  it destroys no image that is being destroyed                   *)
AllRules == {"once", "kept", "ended"}

ASSUME RulesAssumption == Rules \subseteq AllRules
ASSUME NullAssumption == Null \notin Nodes /\ Null \notin Images

VARIABLES
    made,       \* the images there are
    data,       \* img->data
    next,       \* the next of each node
    destroy,    \* the destroy of each node
    live,       \* the nodes that are allocated
    calls,      \* the calls of blt_image_destroy, the innermost last, each with
                \* the node whose callback runs, or Null
    look,       \* a call of blt_image_get_userdata: the image, the function
                \* looked for and the node reached; or no image
    attached,   \* auxiliary: the nodes added to each image and not given back,
                \* the latest first
    misuse      \* auxiliary: whether memory was used that is not there

memory == <<data, next, destroy, live>>

vars == <<made, memory, calls, look, attached, misuse>>

NoLook == [img |-> Null, want |-> Null, at |-> Null]

\* The client has control: no call is running, or a callback of its own is.
ClientRuns ==
    /\ look = NoLook
    /\ calls # <<>> => calls[Len(calls)].node # Null

\* The loop of blt_image_destroy has control.
LoopRuns ==
    /\ look = NoLook
    /\ calls # <<>>
    /\ calls[Len(calls)].node = Null

Top == calls[Len(calls)].img

Attached == UNION {{attached[i][k] : k \in DOMAIN attached[i]} : i \in Images}

\* Reading or writing through a pointer.
Uses(i, nodes) == misuse' = (misuse \/ i \notin made \/ ~(nodes \subseteq live))

Init ==
    /\ made = {}
    /\ data = [i \in Images |-> Null]
    /\ next = [d \in Nodes |-> Null]
    /\ destroy \in {[d \in Nodes |-> c] : c \in Callbacks}
    /\ live = {}
    /\ calls = <<>>
    /\ look = NoLook
    /\ attached = [i \in Images |-> <<>>]
    /\ misuse = FALSE

-----------------------------------------------------------------------------
(* The client, between calls and inside callbacks.                         *)

\* Mistake: a new image keeps what its memory held, here the address of an image.
MakeImageUncleared(i) ==
    /\ ClientRuns
    /\ i \notin made
    /\ made' = made \cup {i}
    /\ data' = [data EXCEPT ![i] = i]
    /\ attached' = [attached EXCEPT ![i] = <<>>]
    /\ UNCHANGED <<next, destroy, live, calls, look, misuse>>

\* A new image has no data (vulkan/impl.c:410, amdgpu/impl.c:449, solid.c:24).
MakeImage(i) ==
    /\ ClientRuns
    /\ i \notin made
    /\ made' = made \cup {i}
    /\ data' = [data EXCEPT ![i] = Null]
    /\ attached' = [attached EXCEPT ![i] = <<>>]
    /\ UNCHANGED <<next, destroy, live, calls, look, misuse>>

\* Mistake: the head is replaced before the node is linked to the old one.
BltImageAddUserdataSwapped(i, d, c) ==
    /\ ClientRuns
    /\ i \in made
    /\ "once" \in Rules => d \notin Attached
    /\ live' = live \cup {d}
    /\ destroy' = [destroy EXCEPT ![d] = c]
    /\ data' = [data EXCEPT ![i] = d]
    /\ next' = [next EXCEPT ![d] = d]
    /\ attached' = [attached EXCEPT ![i] = <<d>> \o @]
    /\ UNCHANGED <<made, calls, look, misuse>>

\* Mistake: what was attached before is forgotten.
BltImageAddUserdataAlone(i, d, c) ==
    /\ ClientRuns
    /\ i \in made
    /\ "once" \in Rules => d \notin Attached
    /\ live' = live \cup {d}
    /\ destroy' = [destroy EXCEPT ![d] = c]
    /\ next' = [next EXCEPT ![d] = Null]
    /\ data' = [data EXCEPT ![i] = d]
    /\ attached' = [attached EXCEPT ![i] = <<d>> \o @]
    /\ UNCHANGED <<made, calls, look, misuse>>

\* The client fills in destroy, of a new node or of one it was given back.
BltImageAddUserdata(i, d, c) ==
    /\ ClientRuns
    /\ i \in made
    /\ "once" \in Rules => d \notin Attached
    /\ live' = live \cup {d}
    /\ destroy' = [destroy EXCEPT ![d] = c]
    /\ next' = [next EXCEPT ![d] = data[i]]
    /\ data' = [data EXCEPT ![i] = d]
    /\ attached' = [attached EXCEPT ![i] = <<d>> \o @]
    /\ UNCHANGED <<made, calls, look, misuse>>

\* What a freed node holds is of no account, as reading it is misuse.
Free(d) ==
    /\ ClientRuns
    /\ d \in live
    /\ "kept" \in Rules => d \notin Attached
    /\ live' = live \ {d}
    /\ next' = [next EXCEPT ![d] = Null]
    /\ UNCHANGED <<made, data, destroy, calls, look, attached, misuse>>

-----------------------------------------------------------------------------
(* blt_image_destroy.                                                      *)

BltImageDestroy(i) ==
    /\ ClientRuns
    /\ i \in made
    /\ "ended" \in Rules => \A n \in DOMAIN calls : calls[n].img # i
    /\ calls' = Append(calls, [img |-> i, node |-> Null])
    /\ UNCHANGED <<made, memory, look, attached, misuse>>

\* Mistake: the node is given back before the list moves on, so that the
\* next turn of the loop finds it again.
UnlinkLate ==
    /\ LoopRuns
    /\ data[Top] # Null
    /\ Uses(Top, {data[Top]})
    /\ calls' = [calls EXCEPT ![Len(calls)].node = data[Top]]
    /\ attached' = [attached EXCEPT ![Top] = IF @ = <<>> THEN @ ELSE Tail(@)]
    /\ UNCHANGED <<made, data, next, destroy, live, look>>

\* One turn of the loop, up to the call of the callback.
Unlink ==
    /\ LoopRuns
    /\ data[Top] # Null
    /\ Uses(Top, {data[Top]})
    /\ data' = [data EXCEPT ![Top] = next[data[Top]]]
    /\ calls' = [calls EXCEPT ![Len(calls)].node = data[Top]]
    /\ attached' = [attached EXCEPT ![Top] = IF @ = <<>> THEN @ ELSE Tail(@)]
    /\ UNCHANGED <<made, next, destroy, live, look>>

CallbackReturns ==
    /\ ClientRuns
    /\ calls # <<>>
    /\ calls' = [calls EXCEPT ![Len(calls)].node = Null]
    /\ UNCHANGED <<made, memory, look, attached, misuse>>

\* The end of the loop: the destroy of the image's own implementation.
ImplDestroy ==
    /\ LoopRuns
    /\ data[Top] = Null
    /\ Uses(Top, {})
    /\ made' = made \ {Top}
    /\ calls' = SubSeq(calls, 1, Len(calls) - 1)
    /\ UNCHANGED <<memory, look, attached>>

-----------------------------------------------------------------------------
(* blt_image_get_userdata.                                                 *)

BltImageGetUserdata(i, c) ==
    /\ ClientRuns
    /\ i \in made
    /\ look' = [img |-> i, want |-> c, at |-> data[i]]
    /\ UNCHANGED <<made, memory, calls, attached, misuse>>

Looking == look # NoLook

\* Mistake: the walk steps over a node without a look at it.
LookOnTwice ==
    /\ Looking
    /\ look.at # Null
    /\ Uses(look.img, {look.at})
    /\ destroy[look.at] # look.want
    /\ look' = [look EXCEPT !.at = IF next[look.at] = Null THEN Null ELSE next[next[look.at]]]
    /\ UNCHANGED <<made, memory, calls, attached>>

LookOn ==
    /\ Looking
    /\ look.at # Null
    /\ Uses(look.img, {look.at})
    /\ destroy[look.at] # look.want
    /\ look' = [look EXCEPT !.at = next[look.at]]
    /\ UNCHANGED <<made, memory, calls, attached>>

\* It returns look.at.
LookDone == look.at # Null => destroy[look.at] = look.want

LookReturns ==
    /\ Looking
    /\ LookDone
    /\ Uses(look.img, {look.at} \ {Null})
    /\ look' = NoLook
    /\ UNCHANGED <<made, memory, calls, attached>>

-----------------------------------------------------------------------------
Adds == \E i \in Images, d \in Nodes, c \in Callbacks : BltImageAddUserdata(i, d, c)

Library == Unlink \/ ImplDestroy \/ LookOn \/ LookReturns

Next ==
    \/ Adds
    \/ \E i \in Images : MakeImage(i) \/ BltImageDestroy(i)
    \/ \E i \in Images, c \in Callbacks : BltImageGetUserdata(i, c)
    \/ \E d \in Nodes : Free(d)
    \/ CallbackReturns
    \/ Library

\* The library runs on, and every callback returns after finitely many calls of
\* its own; an image being destroyed is not destroyed again, so that no more
\* calls are nested than there are images.
Spec ==
    /\ Init
    /\ [][Next]_vars
    /\ WF_vars(Library)
    /\ \A n \in 1 .. Cardinality(Images) : SF_vars(Len(calls) = n /\ CallbackReturns)

-----------------------------------------------------------------------------
Pointer == Nodes \cup {Null}

TypeOK ==
    /\ made \subseteq Images
    /\ data \in [Images -> Pointer]
    /\ next \in [Nodes -> Pointer]
    /\ destroy \in [Nodes -> Callbacks]
    /\ live \subseteq Nodes
    /\ calls \in Seq([img : Images, node : Pointer])
    /\ look \in {NoLook} \cup [img : Images, want : Callbacks, at : Pointer]
    /\ attached \in [Images -> Seq(Nodes)]
    /\ misuse \in BOOLEAN

\* The node at position k, or the null pointer behind the last.
At(i, k) == IF k \in DOMAIN attached[i] THEN attached[i][k] ELSE Null

\* The pointers are the list of what was added and not given back (image.c:11,
\* 20-21): no node is lost from it, reached twice, on two lists, or freed, also
\* while callbacks change the lists.
Linked ==
    /\ \A i \in made : data[i] = At(i, 1)
    /\ \A i \in Images : \A k \in DOMAIN attached[i] :
          /\ next[attached[i][k]] = At(i, k + 1)
          /\ attached[i][k] \in live
    /\ \A i, j \in Images : \A k \in DOMAIN attached[i], l \in DOMAIN attached[j] :
          attached[i][k] = attached[j][l] => i = j /\ k = l

\* Neither loop reads a node that was freed nor uses an image that is gone.
NoMisuse == ~misuse

\* blt_image_get_userdata returns the node added latest of those with the
\* function asked for, and NULL only if there is none (image.c:29-33).
GetsLatest ==
    Looking /\ LookDone =>
        IF look.at = Null
        THEN \A k \in DOMAIN attached[look.img] : destroy[attached[look.img][k]] # look.want
        ELSE \E k \in DOMAIN attached[look.img] :
                /\ attached[look.img][k] = look.at
                /\ \A l \in 1 .. k - 1 : destroy[attached[look.img][l]] # look.want

\* The images give back what was attached to them (image.c:9-14).
A == INSTANCE Attachments
ImplementsAttachments == A!Spec

\* blt_image_destroy returns, unless its callbacks go on adding for ever.
DestructionEnds ==
    <>[][~Adds]_vars => \A i \in Images : (\E n \in DOMAIN calls : calls[n].img = i) ~> i \notin made
=============================================================================
