-------------------------------- MODULE Slob ---------------------------------
(***************************************************************************)
(* The SLOB allocator proper, slob_alloc and slob_free of                   *)
(* CS444_project4_46/slob.c: three lists of partly free pages, one per size *)
(* class, grown from and shrunk to the page allocator, under one spin lock  *)
(* that is dropped around every call to the page allocator.                 *)
(*                                                                         *)
(* A step is one critical section, or one call made outside the lock.  The  *)
(* free list of a page is the set of units it covers: SlobPage shows that   *)
(* the list kept in the page's memory is that set's holes.  CONFIG_NUMA is  *)
(* off.                                                                     *)
(***************************************************************************)
EXTENDS SlobHoles, SequencesExt

CONSTANTS
    Threads,        \* contexts that allocate and free
    Pages,          \* pages the page allocator can hand out
    Sizes,          \* sizes asked for, in bytes
    Break1, Break2, \* SLOB_BREAK1, SLOB_BREAK2, in bytes
    Nil

SLOB_UNIT == 2      \* sizeof(slob_t) when a page has at most 65534 bytes

SLOB_UNITS(size) == (size + SLOB_UNIT - 1) \div SLOB_UNIT

ASSUME SizesAssumption ==
    \A s \in Sizes : s \in Nat \ {0} /\ SLOB_UNITS(s) \in 1 .. PageUnits
ASSUME BreaksAssumption == Break1 \in Nat /\ Break2 \in Nat
ASSUME NilAssumption == Nil \notin Pages

VARIABLES
    slab,       \* pages with PageSlab set: the others are the page allocator's
    lists,      \* free_slob_small, free_slob_medium, free_slob_large
    units,      \* sp->units
    free,       \* the units on sp->freelist
    live,       \* the objects handed out and not yet freed
    pc,         \* where each thread is between two critical sections
    req,        \* the request a thread is growing the heap for
    page        \* the page a thread holds outside the lock

vars == <<slab, lists, units, free, live, pc, req, page>>

Classes == {"small", "medium", "large"}

Object == [page : Pages, at : Units, size : Sizes]

Request == [size : Sizes, align : Aligns]

\* "grow": missed in the lists, about to call alloc_pages.
\* "fresh": has a new page, about to take the lock again.
\* "put": has unlisted an empty page, about to call free_pages.
TypeOK ==
    /\ slab \subseteq Pages
    /\ lists \in [Classes -> Seq(Pages)]
    /\ units \in [Pages -> 0 .. PageUnits]
    /\ free \in [Pages -> SUBSET Units]
    /\ live \subseteq Object
    /\ pc \in [Threads -> {"idle", "grow", "fresh", "put"}]
    /\ req \in [Threads -> Request \cup {Nil}]
    /\ page \in [Threads -> Pages \cup {Nil}]

-----------------------------------------------------------------------------
(* Size classes and page lists                                             *)

\* The list that serves a request of this size, and that its page goes to.
Class(size) ==
    IF size < Break1 THEN "small" ELSE IF size < Break2 THEN "medium" ELSE "large"

SpanOf(o) == Span(o.at, SLOB_UNITS(o.size))

Listed(p) == \E c \in Classes : p \in ToSet(lists[c])

Unlisted(l, p) ==
    IF p \in ToSet(l) THEN RemoveAt(l, CHOOSE i \in DOMAIN l : l[i] = p) ELSE l

\* The links of a list: 0 is slob_list itself, k the k-th page.
LruNext(l, k) == IF k < Len(l) THEN k + 1 ELSE 0
LruPrev(l, k) == IF k = 0 THEN Len(l) ELSE k - 1

\* list_move_tail(slob_list, node): the list starts at the node; slob_list
\* moved before itself is linked to no page any more.
StartAt(l, node) ==
    IF node = 0 THEN <<>> ELSE SubSeq(l, node, Len(l)) \o SubSeq(l, 1, node - 1)

\* Plausible bug: the first guard is left out, as if the page were still there.
RotatedUnguarded(l, i) ==
    LET prev == i - 1
    IN  IF LruNext(l, 0) # LruNext(l, prev) THEN StartAt(l, LruNext(l, prev)) ELSE l

\* The list after its i-th page has served, and left if that made it full;
\* prev was read while the page was there.
Rotated(l, i) ==
    LET prev == i - 1
    IN  IF prev # LruPrev(l, 0) /\ LruNext(l, 0) # LruNext(l, prev)
        THEN StartAt(l, LruNext(l, prev)) ELSE l

\* slob_alloc would serve the request from this listed page.
HasRoom(p, size, align) ==
    /\ units[p] >= SLOB_UNITS(size)
    /\ Fitting(Holes(free[p]), SLOB_UNITS(size), align) # {}

\* Plausible bug: the page's count goes down by bytes.
TakeFromBytes(p, f, u, size, h, align) ==
    LET b == Placed(h, align)
    IN  /\ free' = [free EXCEPT ![p] = f \ Span(b, SLOB_UNITS(size))]
        /\ units' = [units EXCEPT ![p] = u - size]
        /\ live' = live \cup {[page |-> p, at |-> b, size |-> size]}

\* Plausible bug: the units unlinked are those at the head of the hole.
TakeFromHead(p, f, u, size, h, align) ==
    LET n == SLOB_UNITS(size)
    IN  /\ free' = [free EXCEPT ![p] = f \ Span(h.at, n)]
        /\ units' = [units EXCEPT ![p] = u - n]
        /\ live' = live \cup {[page |-> p, at |-> Placed(h, align), size |-> size]}

\* The effect of slob_page_alloc on a page with u free units, set f.
TakeFrom(p, f, u, size, h, align) ==
    LET b == Placed(h, align)
        n == SLOB_UNITS(size)
    IN  /\ free' = [free EXCEPT ![p] = f \ Span(b, n)]
        /\ units' = [units EXCEPT ![p] = u - n]
        /\ live' = live \cup {[page |-> p, at |-> b, size |-> size]}

-----------------------------------------------------------------------------
(* slob_alloc                                                              *)

Init ==
    /\ slab = {}
    /\ lists = [c \in Classes |-> <<>>]
    /\ units = [p \in Pages |-> 0]
    /\ free = [p \in Pages |-> {}]
    /\ live = {}
    /\ pc = [t \in Threads |-> "idle"]
    /\ req = [t \in Threads |-> Nil]
    /\ page = [t \in Threads |-> Nil]

\* The search finds room on the i-th page of the class's list: the first
\* that has it.  A page that becomes full leaves the list.
AllocHit(t, size, align) ==
    LET c == Class(size)
        l == lists[c]
    IN  /\ pc[t] = "idle"
        /\ \E i \in DOMAIN l :
              /\ HasRoom(l[i], size, align)
              /\ \A j \in 1 .. i - 1 : ~HasRoom(l[j], size, align)
              /\ \E h \in BestFit(Holes(free[l[i]]), SLOB_UNITS(size), align) :
                    TakeFrom(l[i], free[l[i]], units[l[i]], size, h, align)
              /\ lists' = [lists EXCEPT
                    ![c] = Rotated(IF units[l[i]] = SLOB_UNITS(size)
                                   THEN RemoveAt(l, i) ELSE l, i)]
        /\ UNCHANGED <<slab, pc, req, page>>

\* No page of the class has room: drop the lock and get a new page.
AllocMiss(t, size, align) ==
    /\ pc[t] = "idle"
    /\ \A p \in ToSet(lists[Class(size)]) : ~HasRoom(p, size, align)
    /\ pc' = [pc EXCEPT ![t] = "grow"]
    /\ req' = [req EXCEPT ![t] = [size |-> size, align |-> align]]
    /\ UNCHANGED <<slab, lists, units, free, live, page>>

\* alloc_pages returns a page, which becomes a slab page.
Grow(t, p) ==
    /\ pc[t] = "grow"
    /\ p \notin slab
    /\ slab' = slab \cup {p}
    /\ page' = [page EXCEPT ![t] = p]
    /\ pc' = [pc EXCEPT ![t] = "fresh"]
    /\ UNCHANGED <<lists, units, free, live, req>>

\* alloc_pages returns NULL, and so does slob_alloc.
GrowFails(t) ==
    /\ pc[t] = "grow"
    /\ pc' = [pc EXCEPT ![t] = "idle"]
    /\ req' = [req EXCEPT ![t] = Nil]
    /\ UNCHANGED <<slab, lists, units, free, live, page>>

\* The new page, one free block, goes to the front of the class's list and
\* serves the request; if the request takes all of it, it leaves again.
AllocFresh(t) ==
    LET p == page[t]
        size == req[t].size
        align == req[t].align
        c == Class(size)
    IN  /\ pc[t] = "fresh"
        /\ \E h \in BestFit(Holes(Units), SLOB_UNITS(size), align) :
              TakeFrom(p, Units, PageUnits, size, h, align)
        /\ lists' = IF SLOB_UNITS(size) = PageUnits THEN lists
                    ELSE [lists EXCEPT ![c] = <<p>> \o @]
        /\ pc' = [pc EXCEPT ![t] = "idle"]
        /\ req' = [req EXCEPT ![t] = Nil]
        /\ page' = [page EXCEPT ![t] = Nil]
        /\ UNCHANGED slab

-----------------------------------------------------------------------------
(* slob_free                                                               *)

\* Plausible bug: ">" for "=", so that no page is ever empty.
EmptiesNever(o) == units[o.page] + SLOB_UNITS(o.size) > PageUnits

\* Plausible bug: a page is taken for empty one unit too early.
EmptiesAlmost(o) == units[o.page] + SLOB_UNITS(o.size) >= PageUnits - 1

\* The freed object is all that was left on its page.
Empties(o) == units[o.page] + SLOB_UNITS(o.size) = PageUnits

\* Plausible bug: the empty page stays on its list.
FreeLastKeepsListed(t, o) ==
    /\ pc[t] = "idle" /\ Empties(o)
    /\ live' = live \ {o}
    /\ pc' = [pc EXCEPT ![t] = "put"]
    /\ page' = [page EXCEPT ![t] = o.page]
    /\ UNCHANGED <<slab, lists, units, free, req>>

\* Plausible bug: the empty page is unlisted but never given back.
FreeLastForgetsPage(t, o) ==
    /\ pc[t] = "idle" /\ Empties(o)
    /\ live' = live \ {o}
    /\ lists' = [c \in Classes |-> Unlisted(lists[c], o.page)]
    /\ UNCHANGED <<slab, units, free, pc, req, page>>

\* Take the page off its list, if it is on one, and drop the lock.
FreeLast(t, o) ==
    /\ pc[t] = "idle" /\ Empties(o)
    /\ live' = live \ {o}
    /\ lists' = [c \in Classes |-> Unlisted(lists[c], o.page)]
    /\ pc' = [pc EXCEPT ![t] = "put"]
    /\ page' = [page EXCEPT ![t] = o.page]
    /\ UNCHANGED <<slab, units, free, req>>

\* Plausible bug: the page is listed again as one of large objects.
FreeOnFullAsLarge(t, o) ==
    /\ pc[t] = "idle" /\ ~Empties(o) /\ ~Listed(o.page)
    /\ live' = live \ {o}
    /\ units' = [units EXCEPT ![o.page] = SLOB_UNITS(o.size)]
    /\ free' = [free EXCEPT ![o.page] = SpanOf(o)]
    /\ lists' = [lists EXCEPT !["large"] = <<o.page>> \o @]
    /\ UNCHANGED <<slab, pc, req, page>>

\* The page was full: it is listed again, by the class of the freed object.
FreeOnFull(t, o) ==
    /\ pc[t] = "idle" /\ ~Empties(o) /\ ~Listed(o.page)
    /\ live' = live \ {o}
    /\ units' = [units EXCEPT ![o.page] = SLOB_UNITS(o.size)]
    /\ free' = [free EXCEPT ![o.page] = SpanOf(o)]
    /\ lists' = [lists EXCEPT ![Class(o.size)] = <<o.page>> \o @]
    /\ UNCHANGED <<slab, pc, req, page>>

FreeOnPartial(t, o) ==
    /\ pc[t] = "idle" /\ ~Empties(o) /\ Listed(o.page)
    /\ live' = live \ {o}
    /\ units' = [units EXCEPT ![o.page] = @ + SLOB_UNITS(o.size)]
    /\ free' = [free EXCEPT ![o.page] = @ \cup SpanOf(o)]
    /\ UNCHANGED <<slab, lists, pc, req, page>>

\* Clear PageSlab and give the page back, outside the lock.  What the page
\* structure still says is the page allocator's to overwrite: it is reset.
PutPage(t) ==
    /\ pc[t] = "put"
    /\ slab' = slab \ {page[t]}
    /\ units' = [units EXCEPT ![page[t]] = 0]
    /\ free' = [free EXCEPT ![page[t]] = {}]
    /\ page' = [page EXCEPT ![t] = Nil]
    /\ pc' = [pc EXCEPT ![t] = "idle"]
    /\ UNCHANGED <<lists, live, req>>

Next ==
    \E t \in Threads :
        \/ \E size \in Sizes, align \in Aligns :
              AllocHit(t, size, align) \/ AllocMiss(t, size, align)
        \/ \E p \in Pages : Grow(t, p)
        \/ GrowFails(t)
        \/ AllocFresh(t)
        \/ \E o \in live : FreeLast(t, o) \/ FreeOnFull(t, o) \/ FreeOnPartial(t, o)
        \/ PutPage(t)

Spec == Init /\ [][Next]_vars

-----------------------------------------------------------------------------
(* Properties                                                              *)

\* The page is at rest: a slab page no thread holds outside the lock.
InUse(p) == p \in slab /\ \A t \in Threads : page[t] # p

ObjectsOn(p) == {o \in live : o.page = p}

Occupied(p) == UNION {SpanOf(o) : o \in ObjectsOn(p)}

\* No two live objects share a unit, and none is on a page that some thread
\* is adding to or taking from the heap, let alone on one that belongs to
\* the page allocator: the release test of slob.c:446 adds up counters and
\* never looks at the objects.
ObjectsApart ==
    \A o \in live :
        /\ InUse(o.page)
        /\ SpanOf(o) \subseteq Units
        /\ \A q \in ObjectsOn(o.page) \ {o} : SpanOf(o) \cap SpanOf(q) = {}

\* On a page at rest every unit is either in a live object or free, never
\* both and never neither, and sp->units counts the free ones.
NothingLost ==
    \A p \in Pages : InUse(p) =>
        /\ free[p] = Units \ Occupied(p)
        /\ units[p] = Cardinality(free[p])

\* The lists hold exactly the partly free pages, each once: a page that
\* slob_free takes off its list is on no other (slob.c:446-472).
ListedOnce ==
    /\ \A p \in Pages : Listed(p) <=> InUse(p) /\ units[p] > 0
    /\ \A c, d \in Classes : \A i \in DOMAIN lists[c], j \in DOMAIN lists[d] :
          lists[c][i] = lists[d][j] => c = d /\ i = j

\* "heap pages are segregated into three lists" (slob.c:25-27): all objects
\* of a page are of one class, that of its list, although slob_free chooses
\* the list again from the one object it frees (slob.c:464-470).
Segregated ==
    /\ \A o, q \in live : o.page = q.page => Class(o.size) = Class(q.size)
    /\ \A c \in Classes : \A p \in ToSet(lists[c]) :
          \A o \in ObjectsOn(p) : Class(o.size) = c

\* No empty page stays in the heap: a page at rest holds an object.
NoEmptyPage == \A p \in Pages : InUse(p) => ObjectsOn(p) # {}

\* A page that holds nothing leaves the heap or is put to use.
EmptyPageLeaves ==
    \A p \in Pages : (p \in slab /\ ObjectsOn(p) = {}) ~>
                        (p \notin slab \/ ObjectsOn(p) # {})

\* "starting our next search here" (slob.c:393-395): after a hit the list
\* starts at the page that served or, if that one became full, at the one
\* that followed it, and no other page changes its place in the cycle.
NextSearchHere ==
    [][\A c \in Classes : \A i \in DOMAIN lists[c] :
         LET l == lists[c]
             Ahead(k) == l[((i + k - 2) % Len(l)) + 1]   \* k-th page from i on
             gone == l[i] \notin ToSet(lists'[c])
         IN  (\E o \in live' \ live : o.page = l[i] /\ Class(o.size) = c) =>
                lists'[c] = [k \in 1 .. IF gone THEN Len(l) - 1 ELSE Len(l) |->
                                Ahead(IF gone THEN k + 1 ELSE k)]]_vars

\* The report's "best-fit algorithm, which has to be over all allocated
\* pages, not just the current page" (CS444_project4_46.tex): an object
\* never goes to a page when another of its list has a hole that fits closer.
BestOverAllPages ==
    [][\A o \in live' \ live, align \in Aligns, p \in Pages :
          LET n == SLOB_UNITS(o.size) IN
          (\E t \in Threads : AllocHit(t, o.size, align))
             /\ p \in ToSet(lists[Class(o.size)]) =>
                \A g \in Fitting(Holes(free[p]), n, align) :
                   \E h \in BestFit(Holes(free[o.page]), n, align) :
                      Slack(h, n, align) <= Slack(g, n, align)]_vars
=============================================================================
