----------------------------- MODULE Construct -----------------------------
(***************************************************************************)
(* A client makes and destroys contexts, images and surfaces, while any of *)
(* the C calls the constructors make may fail.  The constructors are given *)
(* as Routines; this module runs them, one step of C at a time.            *)
(***************************************************************************)
EXTENDS Routines

CONSTANTS
    Objects,    \* the objects a client makes in its life
    Table,      \* the routines, by name
    Entries,    \* those a client calls
    Within,     \* the kinds of object one of which each of these needs
    Releases,   \* what destroying an object of a kind releases
    Owns,       \* pairs of names: the left one lives in the right one
    NullSafe,   \* the names released by free, whose pointer may be NULL
    Impls,      \* the back ends a choosing routine is to try
    Faults,     \* the steps that may fail: pairs of a routine's name and an op
    Nobody,     \* no object
    Gone        \* in place of the kind of an object that was destroyed

ASSUME EntriesAssumption == Entries \subseteq DOMAIN Table
ASSUME TableAssumption ==
    \A r \in DOMAIN Table :
        /\ Len(Table[r].exits) \in Nat /\ Len(Table[r].steps) \in Nat
        /\ DOMAIN Table[r].steps = 1 .. Len(Table[r].steps)
ASSUME NobodyAssumption == Nobody \notin Objects \cup DOMAIN Table \cup {Gone}
ASSUME GoneAssumption == Gone \notin DOMAIN Table

VARIABLES
    made,       \* the kind of each object there is
    held,       \* pairs of an object and a name: what was made and not released
    calls,      \* the routines running, the innermost last
    obj,        \* the object that they are making
    tried,      \* auxiliary: the back ends tried by the last call
    answer,     \* auxiliary: the last call that a client was answered NULL
    misuse      \* auxiliary: what happened that C or Vulkan give no meaning to

vars == <<made, held, calls, obj, tried, answer, misuse>>

Top    == calls[Len(calls)]
Caller == calls[Len(calls) - 1]

StepOf(f) == Table[f.routine].steps[f.at]

\* A routine goes on with its steps, or back through its labels.
Going == calls # <<>> /\ Top.way = "on" /\ Top.at \in DOMAIN Table[Top.routine].steps

\* The innermost routine moves on, or jumps to a label.
Move(f) == [calls EXCEPT ![Len(calls)] = f]
Ahead   == Move([Top EXCEPT !.at = @ + 1])

\* The same for the routine that called it.
Above(f) == Append(SubSeq(calls, 1, Len(calls) - 2), f)

Label(f, e) == [f EXCEPT !.way = "back", !.at = e + 1]

Names(o) == {h[2] : h \in {k \in held : k[1] = o}}

\* What is wrong with releasing the names of an object together.
Wrong(o, names) ==
    (IF names \subseteq Names(o) \cup NullSafe THEN {} ELSE {"released twice"})
    \cup (IF \E p \in Owns : p[1] \in Names(o) \ names /\ p[2] \in names
          THEN {"owner released first"} ELSE {})

Release(o, names) ==
    /\ held' = held \ ({o} \X names)
    /\ misuse' = misuse \cup Wrong(o, names)

Init ==
    /\ made = [o \in Objects |-> Nobody]
    /\ held = {}
    /\ calls = <<>>
    /\ obj = Nobody
    /\ tried = {}
    /\ answer = NoRoutine
    /\ misuse = {}

-----------------------------------------------------------------------------
(* The client.                                                             *)

Begin(o, r) ==
    /\ calls = <<>>
    /\ made[o] = Nobody
    /\ Within[r] # {} => \E c \in Objects : made[c] \in Within[r]
    /\ obj' = o
    /\ calls' = <<[routine |-> r, way |-> "on", at |-> 1]>>
    /\ tried' = {}
    /\ answer' = NoRoutine
    /\ UNCHANGED <<made, held, misuse>>

\* The objects made in another go before it.
Destroy(o) ==
    /\ calls = <<>>
    /\ made[o] \in DOMAIN Releases
    /\ \A p \in Objects : made[p] \in Entries => made[o] \notin Within[made[p]]
    /\ Release(o, Releases[made[o]])
    /\ made' = [made EXCEPT ![o] = Gone]
    /\ UNCHANGED <<calls, obj, tried, answer>>

-----------------------------------------------------------------------------
(* The steps of a routine.                                                 *)

Makes ==
    /\ Going
    /\ StepOf(Top).do = "make"
    /\ held' = held \cup ({obj} \X StepOf(Top).names)
    /\ calls' = Ahead
    /\ UNCHANGED <<made, obj, tried, answer, misuse>>

Drops ==
    /\ Going
    /\ StepOf(Top).do = "drop"
    /\ Release(obj, StepOf(Top).names)
    /\ calls' = Ahead
    /\ UNCHANGED <<made, obj, tried, answer>>

Enters ==
    /\ Going
    /\ StepOf(Top).do \in {"call", "try"}
    /\ calls' = Append(calls, [routine |-> StepOf(Top).routine, way |-> "on", at |-> 1])
    /\ tried' = IF StepOf(Top).do = "try" THEN tried \cup {StepOf(Top).routine} ELSE tried
    /\ UNCHANGED <<made, held, obj, answer, misuse>>

MayFail == \A n \in DOMAIN calls : <<calls[n].routine[1], StepOf(calls[n]).op>> \in Faults

\* The C call of the step fails, which the code may not notice.
Fails(e) ==
    /\ Going
    /\ \/ StepOf(Top).do = "make" /\ MayFail
       \/ StepOf(Top).do = "stop"
    /\ e \in StepOf(Top).errs
    /\ held' = held \ ({obj} \X StepOf(Top).undo)
    /\ misuse' = misuse \cup Wrong(obj, StepOf(Top).undo)
                        \cup (IF e = Unseen THEN {"failure not seen"} ELSE {})
    /\ calls' = IF e = Unseen THEN Ahead ELSE Move(Label(Top, e))
    /\ UNCHANGED <<made, obj, tried, answer>>

\* What is behind a label, then behind the one below it.
Unwinds ==
    /\ calls # <<>> /\ Top.way = "back" /\ Top.at > 0
    /\ Release(obj, Table[Top.routine].exits[Top.at])
    /\ calls' = Move([Top EXCEPT !.at = @ - 1])
    /\ UNCHANGED <<made, obj, tried, answer>>

-----------------------------------------------------------------------------
(* The end of a routine.                                                   *)

Succeeds == calls # <<>> /\ Top.way = "on" /\ Top.at = Len(Table[Top.routine].steps) + 1
Failed   == calls # <<>> /\ Top.way = "back" /\ Top.at = 0

Inner == Len(calls) > 1

ReturnsObject ==
    /\ Succeeds /\ ~Inner
    /\ made' = [made EXCEPT ![obj] = Top.routine]
    /\ calls' = <<>>
    /\ obj' = Nobody
    /\ UNCHANGED <<held, tried, answer, misuse>>

\* What was tried is returned by the routine that tried it.
ReturnsTried ==
    /\ Succeeds /\ Inner /\ StepOf(Caller).do = "try"
    /\ calls' = Above(Top)
    /\ UNCHANGED <<made, held, obj, tried, answer, misuse>>

ReturnsToCaller ==
    /\ Succeeds /\ Inner /\ StepOf(Caller).do = "call"
    /\ calls' = Above([Caller EXCEPT !.at = @ + 1])
    /\ UNCHANGED <<made, held, obj, tried, answer, misuse>>

ReturnsNull ==
    /\ Failed /\ ~Inner
    /\ answer' = Top.routine
    /\ calls' = <<>>
    /\ obj' = Nobody
    /\ UNCHANGED <<made, held, tried, misuse>>

TriesNext ==
    /\ Failed /\ Inner /\ StepOf(Caller).do = "try"
    /\ calls' = Above([Caller EXCEPT !.at = @ + 1])
    /\ UNCHANGED <<made, held, obj, tried, answer, misuse>>

CallerFails(e) ==
    /\ Failed /\ Inner /\ StepOf(Caller).do = "call"
    /\ e \in StepOf(Caller).errs
    /\ calls' = Above(Label(Caller, e))
    /\ UNCHANGED <<made, held, obj, tried, answer, misuse>>

Labels == 0 .. 11   \* error0 to error11

Next ==
    \/ \E o \in Objects, r \in Entries : Begin(o, r)
    \/ \E o \in Objects : Destroy(o)
    \/ Makes \/ Drops \/ Enters \/ Unwinds
    \/ \E e \in Labels \cup {Unseen} : Fails(e)
    \/ \E e \in Labels : CallerFails(e)
    \/ ReturnsObject \/ ReturnsTried \/ ReturnsToCaller
    \/ ReturnsNull \/ TriesNext

Spec == Init /\ [][Next]_vars

-----------------------------------------------------------------------------
Frames == [routine : DOMAIN Table, way : {"on", "back"}, at : Nat]

Frame(f) ==
    \/ f.way = "on" /\ f.at \in 1 .. Len(Table[f.routine].steps) + 1
    \/ f.way = "back" /\ f.at \in 0 .. Len(Table[f.routine].exits)

\* What any step of any routine makes.
Everything ==
    UNION UNION {{Table[r].steps[k].names : k \in DOMAIN Table[r].steps} : r \in DOMAIN Table}

TypeOK ==
    /\ made \in [Objects -> DOMAIN Table \cup {Nobody, Gone}]
    /\ held \subseteq Objects \X Everything
    /\ calls \in Seq(Frames)
    /\ \A n \in DOMAIN calls : Frame(calls[n])
    /\ obj \in Objects \cup {Nobody}
    /\ obj = Nobody <=> calls = <<>>

-----------------------------------------------------------------------------
(* What to look at in a routine alone, to see that its failures leave      *)
(* nothing, whatever it calls and whatever calls it.                       *)

\* What a step adds and takes away.
Adds(s) ==
    CASE s.do = "make" -> s.names
      [] s.do = "call" -> Table[s.routine].gives
      [] OTHER         -> {}

TakesAway(s) == IF s.do = "drop" THEN s.names ELSE {}

Gains(r, k)  == Adds(Table[r].steps[k])
Losses(r, k) == TakesAway(Table[r].steps[k])

\* What there is when r gets to step k.
Kept(r, k) == UNION {Gains(r, j) \ UNION {Losses(r, m) : m \in j + 1 .. k - 1} : j \in 1 .. k - 1}

\* What is released at and below the k-th label of r.
Rest(r, k) == UNION {Table[r].exits[j] : j \in 1 .. k}

\* A routine that is called makes or fails; choosing is for those a client calls.
Plain(r) == \A k \in DOMAIN Table[r].steps : Table[r].steps[k].do \in {"make", "drop", "call"}

MayStop(r, s) == s.do = "stop" \/ (s.do \in {"make", "call"} /\ <<r[1], s.op>> \in Faults)

FailsAt(r, k) == MayStop(r, Table[r].steps[k])

WellFormed(s, labels) ==
    /\ s.do \in {"make", "drop", "call", "try", "stop"}
    /\ s.do \in {"call", "try"} => s.routine \in DOMAIN Table /\ Plain(s.routine)
    /\ s.do \in {"call", "try", "drop"} => s.undo = {}
    /\ s.errs \subseteq {Unseen} \cup 0 .. labels - 1

\* The labels a failing step may jump to, with those below them, take back all
\* that is there by then; a step that tries another routine has nothing there.
FittingStep(r, s, there) ==
    /\ WellFormed(s, Len(Table[r].exits))
    /\ s.do = "try" => there = {}
    /\ MayStop(r, s) => \A e \in s.errs \ {Unseen} : there \ s.undo \subseteq Rest(r, e + 1)

\* A routine that succeeds hands over what it made, and its steps fit.
Fitting ==
    {r \in DOMAIN Table :
        /\ Kept(r, Len(Table[r].steps) + 1) \subseteq Table[r].gives \/ ~Plain(r)
        /\ \A k \in DOMAIN Table[r].steps : FittingStep(r, Table[r].steps[k], Kept(r, k))}

\* Each constructor that begins is right by itself: from any of its steps that
\* may fail, the label jumped to is high enough to take back all that there is
\* by then, and what it returns with is all that its caller will take back.
LaddersFit == calls # <<>> /\ Top.at = 1 => Top.routine \in Fitting

\* The routines that r may run.
Uses(r) ==
    {s.routine : s \in {t \in {Table[r].steps[k] : k \in DOMAIN Table[r].steps} :
                            t.do \in {"call", "try"}}}

\* What a client may call is among the routines given, with all that those run.
Closed(R) == Entries \subseteq R /\ \A r \in R : Uses(r) \subseteq R

-----------------------------------------------------------------------------
(* And to see that what is released is there, and has nothing in it.       *)

Releasable(there, names) ==
    /\ names \subseteq there \cup NullSafe
    /\ \A p \in Owns : p[1] \in there \ names => p[2] \notin names

\* What routine t of the table releases itself, on any way.
Released(t) ==
    UNION ({t.exits[j] : j \in DOMAIN t.exits}
           \cup {t.steps[k].undo : k \in DOMAIN t.steps}
           \cup {TakesAway(t.steps[k]) : k \in DOMAIN t.steps})

\* What a routine may release, with those it calls.
Scope[r \in DOMAIN Table] ==
    Released(Table[r]) \cup UNION {Scope[q] : q \in Uses(r) \cap DOMAIN Table}

\* Nothing of that is among the names, nor has one of the names in it.
Clear(names, r) ==
    \A x \in Scope[r] : x \notin names /\ \A p \in Owns : p[1] \in names => p[2] # x

\* The labels of r from the k-th down take back all there is, in order.
Undone(r, there, k) ==
    /\ there \subseteq Rest(r, k)
    /\ \A j \in 1 .. k :
          Releasable(there \ UNION {Table[r].exits[m] : m \in j + 1 .. k}, Table[r].exits[j])

\* Step s of r: what it drops is there, what it calls may release nothing that is
\* there, and its failures are seen and lead to labels that take it all back in
\* order.  No more is released than the routine may release.
OrderlyStep(r, s, there, may) ==
    /\ s.do = "drop" => s.names \subseteq may /\ Releasable(there, s.names)
    /\ s.do \in {"call", "try"} => Scope[s.routine] \subseteq may /\ Clear(there, s.routine)
    /\ MayStop(r, s) =>
          /\ Unseen \notin s.errs
          /\ s.undo \subseteq may /\ Releasable(there, s.undo)
          /\ \A e \in s.errs : Undone(r, there \ s.undo, e + 1)

\* A routine ends with what it gives, and its steps and labels are in order.
OrderlyRoutine(r, t, may) ==
    /\ Kept(r, Len(t.steps) + 1) = t.gives
    /\ \A j \in 1 .. Len(t.exits) : t.exits[j] \subseteq may
    /\ \A k \in DOMAIN t.steps : OrderlyStep(r, t.steps[k], Kept(r, k), may)

Orderly == {r \in Fitting : OrderlyRoutine(r, Table[r], Scope[r])}

\* What destroying an object releases is there, and has nothing else in it.
Destroyable ==
    \A r \in DOMAIN Releases :
        r \in DOMAIN Table /\ Releasable(Table[r].gives, Releases[r])

\* What a constructor that begins releases, on any of its ways out or on the way,
\* is there by then and has nothing in it, whatever called the constructor; it
\* ends with what it says it gives, and sees its failures.  So does destroying.
ReleasesInOrder == Destroyable /\ (calls # <<>> /\ Top.at = 1 => Top.routine \in Orderly)

-----------------------------------------------------------------------------
\* A constructor that returned NULL has taken back all that it made: what is
\* held belongs to an object the client has, or had.
FailureLeavesNothing == calls = <<>> => \A h \in held : made[h[1]] # Nobody

\* An object has all that its struct refers to, and nothing else: nothing that
\* was only needed on the way, nor what another constructor made or released.
ObjectsWhole == \A o \in Objects : made[o] \in DOMAIN Table => Names(o) = Table[made[o]].gives

\* Nothing is released twice, nor without having been made, nor before what
\* lives in it, and no failure goes by unnoticed.
NoMisuse == misuse = {}

\* The function that chooses a back end returns NULL only after it tried each.
EveryBackEndTried == answer \in DOMAIN Impls => Impls[answer] \subseteq tried
=============================================================================
