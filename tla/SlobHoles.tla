------------------------------ MODULE SlobHoles ------------------------------
(***************************************************************************)
(* The arithmetic of one SLOB page, CS444_project4_46/slob.c: a page is a   *)
(* run of SLOB_UNITs, an allocation or a free block is a span of            *)
(* consecutive units, and the free blocks are the holes between the live    *)
(* allocations.  Addresses are unit offsets from the start of the page:     *)
(* pages are aligned to their size, so an alignment that divides the page   *)
(* gives the same answer on offsets as on virtual addresses.                *)
(***************************************************************************)
EXTENDS Integers, FiniteSets

CONSTANTS
    PageUnits,      \* SLOB_UNITS(PAGE_SIZE)
    Aligns          \* alignments asked for, in units; 0 is "none"

ASSUME PageUnitsAssumption == PageUnits \in Nat \ {0}
ASSUME AlignsAssumption == Aligns \subseteq Nat

Units == 0 .. PageUnits - 1

Span(at, n) == at .. at + n - 1

\* Any block of a page: a free one or an allocated one.
Block == [at : Units, units : 1 .. PageUnits]

\* The units that a set of blocks occupies.
Covered(blocks) == UNION {Span(b.at, b.units) : b \in blocks}

-----------------------------------------------------------------------------
(* Holes and how well an allocation fits them                              *)

\* The maximal runs of a set of free units: the free list, once coalesced.
Holes(free) ==
    {h \in [at : {u \in free : u - 1 \notin free}, units : 1 .. PageUnits] :
        /\ Span(h.at, h.units) \subseteq free
        /\ h.at + h.units \notin free}

\* ALIGN(at, align) - at: units lost at the head of a block to align it.
\* align = 0 asks for no alignment.
Delta(at, align) == IF align = 0 THEN 0 ELSE (-at) % align

Fits(h, n, align) == h.units >= n + Delta(h.at, align)

\* best_fit_diff: what is left of a hole after the allocation.
Slack(h, n, align) == h.units - (n + Delta(h.at, align))

Fitting(holes, n, align) == {h \in holes : Fits(h, n, align)}

\* The hole the best-fit scan settles on: least slack, lowest address among
\* equals because a later hole must be strictly better to replace it.
\* Empty when nothing fits, otherwise a singleton.
BestFit(holes, n, align) ==
    {h \in Fitting(holes, n, align) :
        \A g \in Fitting(holes, n, align) :
            \/ Slack(h, n, align) < Slack(g, n, align)
            \/ Slack(h, n, align) = Slack(g, n, align) /\ h.at <= g.at}

\* Where in its hole the allocation starts.
Placed(h, align) == h.at + Delta(h.at, align)
=============================================================================
