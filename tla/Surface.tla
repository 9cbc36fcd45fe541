------------------------------- MODULE Surface -------------------------------
(***************************************************************************)
(* The surface of the Vulkan back end (vulkan/impl.c:137-197, 447-565):    *)
(* blt_acquire and blt_present with the age of each image of the swapchain *)
(* as a C int, against the presentation engine that owns the images.       *)
(***************************************************************************)
EXTENDS Integers, Sequences, FiniteSets

CONSTANTS
    Images,     \* the images of the swapchain
    IntMax,     \* INT_MAX
    Results,    \* what Vulkan may answer beside VK_SUCCESS: "error", "suboptimal"
    MaxWait     \* bound: after so many frames a free image is handed out first

ASSUME IntMaxAssumption == IntMax \in Nat \ {0}
ASSUME MaxWaitAssumption == MaxWait \in Nat

VARIABLES
    age,        \* srf->age
    waiting,    \* the client is inside blt_acquire
    client,     \* the images the client was handed and has not presented
    free,       \* the images of the engine nobody uses
    queue,      \* the images waiting to be displayed
    shown,      \* the image on display, if any
    lost,       \* the images acquired that nobody was given
    since       \* how many frames were presented after each image; Never, if it
                \* was not presented since the last suboptimal frame

vars == <<age, waiting, client, free, queue, shown, lost, since>>

IntMin == -IntMax - 1
Never  == -1

\* Mistake: the age of an image is taken for a number without a bound.
WrapNot(n) == n

\* Signed overflow, which C leaves undefined, wraps in the builds of today.
Wrap(n) == ((n - IntMin) % (IntMax - IntMin + 1)) + IntMin

Init ==
    /\ age = [i \in Images |-> IntMax]
    /\ waiting = FALSE
    /\ client = {}
    /\ free = Images
    /\ queue = <<>>
    /\ shown = {}
    /\ lost = {}
    /\ since = [i \in Images |-> Never]

-----------------------------------------------------------------------------
(* blt_acquire: vkAcquireNextImageKHR waits without a time limit.          *)

\* An engine that hands out one image at a time (minImageCount) is only asked
\* for another once the last came back.
Acquire ==
    /\ ~waiting
    /\ client = {}
    /\ waiting' = TRUE
    /\ UNCHANGED <<age, client, free, queue, shown, lost, since>>

\* Frames for which an image was not presented.
Waited(i) == IF age[i] = IntMax THEN 0 ELSE IF age[i] < 0 THEN age[i] - IntMin ELSE age[i]

Offered(i) ==
    /\ i \in free
    /\ \A j \in free : Waited(j) >= MaxWait => Waited(i) >= MaxWait

\* The client is handed the image and age[i].
AcquireSuccess(i) ==
    /\ waiting
    /\ Offered(i)
    /\ waiting' = FALSE
    /\ free' = free \ {i}
    /\ client' = client \cup {i}
    /\ UNCHANGED <<age, queue, shown, lost, since>>

\* VK_SUBOPTIMAL_KHR is not VK_SUCCESS: the client is told NULL, and nobody
\* has the image that was acquired.
AcquireSuboptimal(i) ==
    /\ "suboptimal" \in Results
    /\ waiting
    /\ Offered(i)
    /\ waiting' = FALSE
    /\ free' = free \ {i}
    /\ lost' = lost \cup {i}
    /\ UNCHANGED <<age, client, queue, shown, since>>

AcquireError ==
    /\ "error" \in Results
    /\ waiting
    /\ waiting' = FALSE
    /\ UNCHANGED <<age, client, free, queue, shown, lost, since>>

-----------------------------------------------------------------------------
(* blt_present.                                                            *)

\* The engine takes the image.
Presented(i) ==
    /\ i \in client
    /\ client' = client \ {i}
    /\ queue' = Append(queue, i)
    /\ UNCHANGED <<waiting, free, shown, lost>>

\* One frame more after every other image.
Counted(i) ==
    since' = [j \in Images |->
                 IF j = i THEN 0
                 ELSE IF since[j] \in {Never, IntMax} THEN since[j] ELSE since[j] + 1]

\* Mistake: the image presented ages with the others.
PresentSuccessKeepsAge(i) ==
    /\ Presented(i)
    /\ Counted(i)
    /\ age' = [j \in Images |-> Wrap(age[j] + 1)]

\* Mistake: only the image presented gets another age.
PresentSuccessAlone(i) ==
    /\ Presented(i)
    /\ Counted(i)
    /\ age' = [age EXCEPT ![i] = 0]

\* Mistake: the ages change although the engine was given no image.
PresentSuccessNowhere(i) ==
    /\ i \in client
    /\ client' = client \ {i}
    /\ since' = [since EXCEPT ![i] = 0]
    /\ age' = [[j \in Images |-> Wrap(age[j] + 1)] EXCEPT ![i] = 0]
    /\ UNCHANGED <<waiting, free, queue, shown, lost>>

PresentSuccess(i) ==
    /\ Presented(i)
    /\ Counted(i)
    /\ age' = [[j \in Images |-> Wrap(age[j] + 1)] EXCEPT ![i] = 0]

\* The image is on its way to the display, but blt_present says -1 and no
\* age changes: what the ages were they no longer are.
PresentSuboptimal(i) ==
    /\ "suboptimal" \in Results
    /\ Presented(i)
    /\ since' = [j \in Images |-> Never]
    /\ UNCHANGED age

\* The image stays with the client, who may present it again.
PresentError(i) ==
    /\ "error" \in Results
    /\ i \in client
    /\ UNCHANGED vars

-----------------------------------------------------------------------------
(* The engine displays what is presented in turn (VK_PRESENT_MODE_FIFO).   *)

Display ==
    /\ queue # <<>>
    /\ shown' = {Head(queue)}
    /\ free' = free \cup shown
    /\ queue' = Tail(queue)
    /\ UNCHANGED <<age, waiting, client, lost, since>>

Next ==
    \/ Acquire
    \/ \E i \in Images : AcquireSuccess(i) \/ AcquireSuboptimal(i)
    \/ AcquireError
    \/ \E i \in Images : PresentSuccess(i) \/ PresentSuboptimal(i) \/ PresentError(i)
    \/ Display

\* The display goes on, and vkAcquireNextImageKHR returns when it can.
Spec ==
    /\ Init
    /\ [][Next]_vars
    /\ WF_vars(Display)
    /\ WF_vars(\E i \in Images : AcquireSuccess(i))

-----------------------------------------------------------------------------
TypeOK ==
    /\ age \in [Images -> IntMin .. IntMax]
    /\ waiting \in BOOLEAN
    /\ client \subseteq Images /\ Cardinality(client) <= 1
    /\ free \subseteq Images
    /\ queue \in Seq(Images)
    /\ shown \subseteq Images /\ Cardinality(shown) <= 1
    /\ lost \subseteq Images
    /\ since \in [Images -> {Never} \cup 0 .. IntMax]

\* The age handed out with an image is the number of frames presented since it
\* was (impl.c:187-189): what blt_damage takes it for.  A suboptimal frame
\* (impl.c:185) makes the ages wrong until each image was presented again.
AgeCountsFrames ==
    \A i \in client \cup free : since[i] \in 0 .. IntMax - 1 => age[i] = since[i]

\* Two images presented since then, and not lost, never have the same age:
\* each tracked region stands for one image.
DistinctAges ==
    \A i, j \in Images \ lost : i # j /\ since[i] # Never /\ since[j] # Never => age[i] # age[j]

\* A client inside blt_acquire, which waits without a time limit
\* (impl.c:161), gets out as long as two images are left in circulation: what
\* blt_present hands over is displayed, and taken off by the next frame.
AcquireServed == waiting /\ Cardinality(Images \ lost) >= 2 ~> ~waiting
=============================================================================
