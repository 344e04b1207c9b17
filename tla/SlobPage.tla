------------------------------ MODULE SlobPage -------------------------------
(***************************************************************************)
(* One page of the SLOB allocator with its free list as the code keeps it   *)
(* (CS444_project4_46/slob.c): each free block records its own size and the *)
(* offset of the next one in its first one or two units, so the list lives  *)
(* in memory that callers also write, as soon as they own it.  A block of   *)
(* one unit has room for one number only and stores minus the offset.       *)
(*                                                                         *)
(* The page is a slab from the moment slob_alloc takes it from the page     *)
(* allocator until slob_free gives it back; its memory keeps whatever it    *)
(* held.  Pointers are unit offsets, and the end of the page (the start of  *)
(* the next one) is PageUnits.                                              *)
(***************************************************************************)
EXTENDS SlobHoles

CONSTANTS
    UserValues,     \* what callers write into their objects
    Nil             \* the NULL pointer

ASSUME NilAssumption == Nil \notin Int
ASSUME UserValuesAssumption == UserValues \subseteq Int

VARIABLES
    mem,        \* [0]..[PageUnits-1].units of the page
    slab,       \* PageSlab: the page belongs to the allocator
    listed,     \* PageSlobFree: it is on a list of partly free pages
    units,      \* sp->units
    freelist,   \* sp->freelist
    live,       \* the objects handed out and not yet freed
    ret         \* what the last slob_page_alloc returned

vars == <<mem, slab, listed, units, freelist, live, ret>>

\* No free block's size or link was ever written past the end of the page,
\* the one-unit block at its end included (slob.c:156-168), and its count and
\* its list head stay within it.
TypeOK == /\ mem \in [Units -> Int]
          /\ slab \in BOOLEAN
          /\ listed \in BOOLEAN
          /\ units \in 0 .. PageUnits
          /\ freelist \in 0 .. PageUnits
          /\ live \subseteq Block
          /\ ret \in Units \cup {Nil}

-----------------------------------------------------------------------------
(* The encoding of a free block                                            *)

\* The memory with v at unit u.  A unit past the page belongs to somebody
\* else: writing it leaves more than the page in m, which TypeOK excludes.
Put(m, u, v) == [x \in DOMAIN m \cup {u} |-> IF x = u THEN v ELSE m[x]]

\* Plausible bug: the offset goes to the second unit whatever the size, as
\* if every block had two.
set_slob_wide(m, s, size, next) ==
    Put(Put(m, s, IF size > 1 THEN size ELSE -next), s + 1, next)

set_slob(m, s, size, next) ==
    IF size > 1 THEN Put(Put(m, s, size), s + 1, next)
                ELSE Put(m, s, -next)

slob_units(m, s) == IF m[s] > 0 THEN m[s] ELSE 1

slob_next(m, s) == IF m[s] < 0 THEN -m[s] ELSE m[s + 1]

\* The next pointer is page aligned: it points past this page.
slob_last(m, s) == slob_next(m, s) % PageUnits = 0

\* The block the list reaches after i links, the page end once it is over.
Walk(m, fl) ==
    LET After(s) == IF s \notin Units THEN s
                    ELSE IF slob_last(m, s) THEN PageUnits
                    ELSE slob_next(m, s)
        w[i \in 0 .. PageUnits] == IF i = 0 THEN fl ELSE After(w[i - 1])
    IN  w

\* The blocks on the list.
ListedBlocks(m, fl) ==
    LET w == Walk(m, fl) IN
    {[at |-> w[i], units |-> slob_units(m, w[i])] :
        i \in {j \in DOMAIN w : w[j] \in Units}}

-----------------------------------------------------------------------------
(* slob_page_alloc                                                         *)

diff(m, s, n, align) == slob_units(m, s) - (n + Delta(s, align))

\* Plausible bug: a later block of equal slack replaces the one found.
BestLinksLast(m, w, n, align) ==
    {i \in DOMAIN w :
        /\ w[i] \in Units /\ diff(m, w[i], n, align) >= 0
        /\ \A j \in DOMAIN w :
              (w[j] \in Units /\ diff(m, w[j], n, align) >= 0) =>
                  \/ diff(m, w[i], n, align) < diff(m, w[j], n, align)
                  \/ diff(m, w[i], n, align) = diff(m, w[j], n, align) /\ i >= j}

\* Where on the list the scan finds its best_fit_cur (none when no block
\* has room): the least difference, the earliest among equals.
BestLinks(m, w, n, align) ==
    {i \in DOMAIN w :
        /\ w[i] \in Units /\ diff(m, w[i], n, align) >= 0
        /\ \A j \in DOMAIN w :
              (w[j] \in Units /\ diff(m, w[j], n, align) >= 0) =>
                  \/ diff(m, w[i], n, align) < diff(m, w[j], n, align)
                  \/ diff(m, w[i], n, align) = diff(m, w[j], n, align) /\ i <= j}

\* The free block before the one taken: the head fragmented off it, if any.
Prev(w, i, delta) == IF delta # 0 THEN w[i] ELSE IF i = 0 THEN Nil ELSE w[i - 1]

\* Cut n units out of the i-th block of the list: fragment its head to
\* align, then unlink it if the fit is exact or fragment its tail.
Take(m, fl, w, i, n, align) ==
    LET cur == w[i]
        delta == Delta(cur, align)
        b == cur + delta
        m1 == IF delta = 0 THEN m
              ELSE set_slob(set_slob(m, b, slob_units(m, cur) - delta,
                                     slob_next(m, cur)),
                            cur, delta, b)
        prev == Prev(w, i, delta)
        avail == slob_units(m1, b)
        next == slob_next(m1, b)
        rest == IF avail = n THEN next ELSE b + n
        m2 == IF prev = Nil THEN m1 ELSE set_slob(m1, prev, slob_units(m1, prev), rest)
    IN  [mem |-> IF avail = n THEN m2 ELSE set_slob(m2, b + n, avail - n, next),
         freelist |-> IF prev = Nil THEN rest ELSE fl,
         block |-> b]

\* slob_page_alloc on memory m with free list fl and u free units.
slob_page_alloc(m, fl, u, n, align) ==
    LET w == Walk(m, fl)
        best == BestLinks(m, w, n, align)
    IN  IF best = {}
        THEN ret' = Nil /\ UNCHANGED <<live>> /\ mem' = m
             /\ freelist' = fl /\ units' = u /\ listed' = TRUE
        ELSE \E i \in best :
                LET t == Take(m, fl, w, i, n, align) IN
                /\ mem' = t.mem
                /\ freelist' = t.freelist
                /\ units' = u - n
                /\ listed' = (u - n # 0)
                /\ live' = live \cup {[at |-> t.block, units |-> n]}
                /\ ret' = t.block

-----------------------------------------------------------------------------
(* The operations on the page                                              *)

Init == /\ mem = [u \in Units |-> 0]
        /\ slab = FALSE
        /\ listed = FALSE
        /\ units = 0
        /\ freelist = 0
        /\ live = {}
        /\ ret = Nil

\* slob_alloc found no room elsewhere and takes this page: all of it becomes
\* one free block, whose link to the page end is what slob_last looks for.
NewPage(n, align) ==
    /\ ~slab
    /\ slab' = TRUE
    /\ slob_page_alloc(set_slob(mem, 0, PageUnits, PageUnits), 0, PageUnits,
                       n, align)

\* slob_alloc comes by this page in its search.
TryPage(n, align) ==
    /\ listed
    /\ UNCHANGED slab
    /\ IF units < n
       THEN ret' = Nil /\ UNCHANGED <<mem, listed, units, freelist, live>>
       ELSE slob_page_alloc(mem, freelist, units, n, align)

\* The freed object was all that the page held: the page goes back.
ReleasePage ==
    /\ slab' = FALSE
    /\ listed' = FALSE
    /\ UNCHANGED <<mem, units, freelist>>

\* The page was full: the freed object is its whole free list.
FirstFree(o) ==
    /\ units' = o.units
    /\ freelist' = o.at
    /\ mem' = set_slob(mem, o.at, o.units, PageUnits)
    /\ listed' = TRUE
    /\ UNCHANGED slab

\* Plausible bug: adjacency is tested one unit short.
AdjacentOffByOne(at, n, next) == at + n = next - 1

\* The block of n units at "at" ends where "next" starts: the two coalesce.
Adjacent(at, n, next) == at + n = next

\* The object lies before every free block, and may touch the first.
FreeBeforeAll(o) ==
    /\ freelist' = o.at
    /\ mem' = IF Adjacent(o.at, o.units, freelist)
              THEN set_slob(mem, o.at, o.units + slob_units(mem, freelist),
                            slob_next(mem, freelist))
              ELSE set_slob(mem, o.at, o.units, freelist)

\* The object lies after prev, the last free block below it, and before
\* next, which may be the page end; it may touch either or both.
FreeAfter(o) ==
    LET w == Walk(mem, freelist)
        k == CHOOSE i \in DOMAIN w : w[i] < o.at /\ (i = PageUnits \/ w[i + 1] > o.at)
        prev == w[k]
        next == slob_next(mem, prev)
        m1 == IF ~slob_last(mem, prev) /\ Adjacent(o.at, o.units, next)
              THEN set_slob(mem, o.at, o.units + slob_units(mem, next),
                            slob_next(mem, next))
              ELSE set_slob(mem, o.at, o.units, next)
    IN  /\ mem' = IF Adjacent(prev, slob_units(m1, prev), o.at)
                  THEN set_slob(m1, prev, slob_units(m1, o.at) + slob_units(m1, prev),
                                slob_next(m1, o.at))
                  ELSE set_slob(m1, prev, slob_units(m1, prev), o.at)
        /\ UNCHANGED freelist

GoesFirst(o) == o.at < freelist

PartlyFree(o) ==
    /\ units' = units + o.units
    /\ IF GoesFirst(o) THEN FreeBeforeAll(o) ELSE FreeAfter(o)
    /\ UNCHANGED <<slab, listed>>

\* The freed object is the last of its page.
Empties(o) == units + o.units = PageUnits

\* slob_free of a live object.
Free(o) ==
    /\ live' = live \ {o}
    /\ UNCHANGED ret
    /\ IF Empties(o) THEN ReleasePage
       ELSE IF ~listed THEN FirstFree(o)
       ELSE PartlyFree(o)

\* The owner of an object writes it.
UserWrite(o, v) ==
    /\ mem' = [u \in Units |-> IF u \in Span(o.at, o.units) THEN v ELSE mem[u]]
    /\ UNCHANGED <<slab, listed, units, freelist, live, ret>>

Next == \/ \E n \in 1 .. PageUnits, align \in Aligns :
              NewPage(n, align) \/ TryPage(n, align)
        \/ \E o \in live : Free(o)
        \/ \E o \in live, v \in UserValues : UserWrite(o, v)

Spec == Init /\ [][Next]_vars

-----------------------------------------------------------------------------
(* Properties                                                              *)

FreeUnits == Units \ Covered(live)

\* The list threaded through the free memory holds exactly the gaps between
\* the live objects, each once and in full: nothing is lost, nothing live is
\* on it, and neighbours are always coalesced, whatever sequence of splits,
\* merges and writes by the owners came before (slob.c:34-36, :480-506).
\* sp->units, by which slob_free decides to give the page back without
\* looking at the list (slob.c:446), counts what is on it.
FreeListIsTheHoles ==
    /\ listed => ListedBlocks(mem, freelist) = Holes(FreeUnits)
    /\ slab => units = Cardinality(FreeUnits) /\ (listed <=> units > 0)

\* The allocator writes only free memory: no unit of an object that stays
\* live changes in a step that is not its owner's write.
SparesObjects ==
    [][(\A o \in live, v \in UserValues : ~UserWrite(o, v)) =>
          \A o \in live \cap live' : \A u \in Span(o.at, o.units) : mem'[u] = mem[u]]_vars

\* The page implements the heap that needs no free list: best-fit placement
\* between the live objects and failure only when no hole has room.
Heap == INSTANCE PageHeap
ImplementsHeap == Heap!Spec
=============================================================================
