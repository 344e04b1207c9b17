------------------------------- MODULE PageHeap -------------------------------
(***************************************************************************)
(* What one SLOB page promises its callers (CS444_project4_46/slob.c), with *)
(* no free list in sight: an allocation is placed at the aligned start of   *)
(* the best-fitting hole between the live objects, it fails exactly when no *)
(* hole has room, and freeing an object gives its span back whole.          *)
(* SlobPage, which keeps the free list inside the free memory itself,       *)
(* implements this specification.                                           *)
(***************************************************************************)
EXTENDS SlobHoles

CONSTANT Nil            \* the NULL pointer

VARIABLES
    live,       \* the objects handed out and not yet freed
    ret         \* what the last allocation returned

vars == <<live, ret>>

Free == Units \ Covered(live)

Init == live = {} /\ ret = Nil

\* The allocation succeeds, in the hole that best-fit chooses.
Alloc(n, align) ==
    \E at \in Units :
        /\ live' = live \cup {[at |-> at, units |-> n]}
        /\ ret' = at
        /\ \E h \in BestFit(Holes(Free), n, align) : at = Placed(h, align)

\* The allocation fails: no hole has room for it once aligned.
NoRoom(n, align) ==
    /\ UNCHANGED live
    /\ ret' = Nil
    /\ Fitting(Holes(Free), n, align) = {}

Release(o) ==
    /\ live' = live \ {o}
    /\ UNCHANGED ret

Next == \/ \E n \in 1 .. PageUnits, align \in Aligns :
              Alloc(n, align) \/ NoRoom(n, align)
        \/ \E o \in live : Release(o)

Spec == Init /\ [][Next]_vars

-----------------------------------------------------------------------------
(* Properties                                                              *)

\* No unit belongs to two objects: the promise every kmalloc caller relies
\* on (slob_page_alloc hands out only what slob_free gave back).
NoOverlap ==
    \A o, p \in live :
        o # p => Span(o.at, o.units) \cap Span(p.at, p.units) = {}

\* Every object lies inside its page.
InsidePage == Covered(live) \subseteq Units

Safe == NoOverlap /\ InsidePage
=============================================================================
