--------------------------------- MODULE Blt ---------------------------------
(***************************************************************************)
(* The drawing state of struct blt_context and what each call of blt.c     *)
(* makes of it once the setup of the back end succeeded.  An origin (x, y) *)
(* is one value; the mask's is left out, no back end reads it.             *)
(***************************************************************************)
EXTENDS Integers

CONSTANTS
    Images,     \* images of the back end (struct image)
    Solids,     \* solid colours (struct blt_solid)
    Masks,      \* images a client tries as a mask
    NoImage,    \* NULL
    Origins,    \* the (x, y) a call may give
    Ops         \* enum blt_op

ASSUME ImagesAssumption ==
    /\ Images \cap Solids = {}
    /\ Masks \subseteq Images
    /\ NoImage \notin Images \cup Solids
ASSUME OriginsAssumption == 0 \in Origins
ASSUME OpsAssumption == 0 \in Ops

Sources == Images \cup Solids

Contexts ==
    [op : Ops, dst : Images \cup {NoImage}, dorg : Origins,
     src : Sources \cup {NoImage}, sorg : Origins, msk : Masks \cup {NoImage}]

\* (struct blt_context){.impl = &impl}: everything else is zero.
NewContext ==
    [op |-> 0, dst |-> NoImage, dorg |-> 0,
     src |-> NoImage, sorg |-> 0, msk |-> NoImage]

\* Each call assigns what it names and nothing else: blt_setup leaves op
\* alone, blt_dst leaves src as the back end's setup left it.
AfterSetup(c, dst, dorg, src, sorg, msk) ==
    [c EXCEPT !.dst = dst, !.dorg = dorg, !.src = src, !.sorg = sorg, !.msk = msk]
AfterOp(c, op)         == [c EXCEPT !.op = op]
AfterDst(c, dst, dorg) == [c EXCEPT !.dst = dst, !.dorg = dorg]
AfterSrc(c, src, sorg) == [c EXCEPT !.src = src, !.sorg = sorg]
AfterMask(c, msk)      == [c EXCEPT !.msk = msk]
=============================================================================
