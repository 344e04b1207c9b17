----------------------------- MODULE SlobFrontEnd ----------------------------
(***************************************************************************)
(* kmalloc, kfree, ksize and the object caches of CS444_project4_46/slob.c  *)
(* on the allocator proper, and the two statistics system calls.  Small     *)
(* requests are served by slob_alloc, large ones by whole pages; what a     *)
(* free gives back is worked out without the lock from PageSlab and from a  *)
(* size kept in the memory itself: in front of a kmalloc object, or in the  *)
(* footer of an object whose cache defers frees to RCU.                     *)
(*                                                                         *)
(* word is that memory, one word for each unit: a size where the allocator  *)
(* wrote one, Data where an object's owner did, Junk where either the free  *)
(* list or nobody is.  A whole-page request takes one page.                 *)
(***************************************************************************)
EXTENDS Slob

CONSTANTS
    Callers,        \* contexts that call the front end
    Softirq,        \* the context that runs RCU callbacks
    Readers,        \* RCU readers that look for objects
    KmallocSizes,   \* sizes passed to kmalloc, in bytes
    Caches,         \* kmem_caches: [kind : {"cache"}, size, align, rcu]
    MinAlign,       \* the greater of the two ARCH_ alignments, in bytes
    RcuSize,        \* sizeof(struct slob_rcu), in bytes
    Data, Junk, Outside

ASSUME PagesAssumption == IsFiniteSet(Pages)
ASSUME ContextsAssumption == Threads = Callers \cup {Softirq} /\ Softirq \notin Callers
ASSUME MinAlignAssumption == MinAlign \in Nat \ {0} /\ MinAlign % SLOB_UNIT = 0
ASSUME RcuAssumption == RcuSize \in Nat /\ RcuSize >= SLOB_UNIT
ASSUME KmallocAssumption == KmallocSizes \subseteq Nat \ {0}
ASSUME CachesAssumption ==
    \A c \in Caches : c.kind = "cache" /\ c.size \in Nat \ {0} /\ c.rcu \in BOOLEAN

VARIABLES
    big,        \* pages handed out whole
    word,       \* the memory
    held,       \* what callers have and may free: the call, page and address
    call,       \* the call a context is growing the heap for
    arg,        \* the block and size a context is about to call slob_free with
    deferred,   \* RCU callbacks: page, footer, readers still to wait for
    reader      \* Outside, or what the reader has found, or Nil

heap == <<slab, lists, units, free, live, pc, req, page>>
front == <<big, word, held, call, arg, deferred, reader>>
frontVars == <<heap, front>>

PAGE_SIZE == PageUnits * SLOB_UNIT

KmallocOf(size) == [kind |-> "kmalloc", size |-> size,
                    align |-> SLOB_UNITS(MinAlign), rcu |-> FALSE]

Calls == {KmallocOf(s) : s \in KmallocSizes} \cup Caches

\* c->size: "leave room for rcu footer at the end of object".
CacheSize(c) == IF c.rcu THEN c.size + RcuSize ELSE c.size

\* What slob_alloc is asked for, in bytes, and how far in the object starts.
BlockSize(c) == IF c.kind = "kmalloc" THEN c.size + MinAlign ELSE CacheSize(c)
Offset(c) == IF c.kind = "kmalloc" THEN SLOB_UNITS(MinAlign) ELSE 0

\* Less than a page: the tests of __do_kmalloc_node and slob_alloc_node.
FromSlob(c) == BlockSize(c) < PAGE_SIZE

\* Sizes and Aligns are those of the calls; one page is enough for each, and
\* an object of an RCU cache, footer included, is less.
ASSUME CallsAssumption ==
    /\ Nil \notin Calls /\ Nil \notin Object
    /\ \A c \in Calls : FromSlob(c) => BlockSize(c) \in Sizes /\ c.align \in Aligns
    /\ \A c \in Calls : c.size <= PAGE_SIZE
    /\ \A c \in Caches : c.rcu => FromSlob(c)

BlockOf(h) == [page |-> h.page, at |-> h.at - Offset(h.call), size |-> BlockSize(h.call)]

Pending == [page : Pages, foot : Units, waits : SUBSET Readers]

Held == [call : Calls, page : Pages, at : Units]

FrontTypeOK ==
    /\ TypeOK
    /\ big \subseteq Pages
    /\ word \in [Pages -> [Units -> Nat \cup {Data, Junk}]]
    /\ held \subseteq Held
    /\ call \in [Threads -> Calls \cup {Nil}]
    /\ arg \in [Threads -> Object \cup {Nil}]
    /\ deferred \subseteq Pending
    /\ reader \in [Readers -> Held \cup {Nil, Outside}]

FrontInit ==
    /\ Init
    /\ big = {}
    /\ word = [p \in Pages |-> [u \in Units |-> Junk]]
    /\ held = {}
    /\ call = [t \in Threads |-> Nil]
    /\ arg = [t \in Threads |-> Nil]
    /\ deferred = {}
    /\ reader = [r \in Readers |-> Outside]

Ready(t) == pc[t] = "idle" /\ arg[t] = Nil

Buddy == Pages \ (slab \cup big)

Fill(p, span, value) ==
    word' = [word EXCEPT ![p] = [u \in Units |-> IF u \in span THEN value ELSE @[u]]]

-----------------------------------------------------------------------------
(* Allocation                                                              *)

\* slob_alloc returned block o: kmalloc writes the size in front, and the
\* owner writes its object.
Hand(c, o) ==
    /\ held' = held \cup {[call |-> c, page |-> o.page, at |-> o.at + Offset(c)]}
    /\ word' = [word EXCEPT ![o.page] = [u \in Units |->
                  IF u \notin SpanOf(o) THEN @[u]
                  ELSE IF c.kind = "kmalloc" /\ u = o.at THEN c.size
                  ELSE Data]]

\* A call to slob_alloc that finds room, or has to grow the heap.
SlobAlloc(t, c) ==
    \/ /\ AllocHit(t, BlockSize(c), c.align)
       /\ \E o \in live' \ live : Hand(c, o)
       /\ UNCHANGED <<big, call, arg, deferred, reader>>
    \/ /\ AllocMiss(t, BlockSize(c), c.align)
       /\ call' = [call EXCEPT ![t] = c]
       /\ UNCHANGED <<big, word, held, arg, deferred, reader>>

\* slob_new_pages for the caller itself; it may return NULL instead.
NewPages(c) ==
    /\ \E p \in Buddy :
          /\ big' = big \cup {p}
          /\ held' = held \cup {[call |-> c, page |-> p, at |-> 0]}
          /\ Fill(p, Units, Data)
    /\ UNCHANGED <<heap, call, arg, deferred, reader>>

\* kmalloc(0) returns ZERO_SIZE_PTR, which kfree ignores.
Kmalloc(t, size) ==
    /\ Ready(t)
    /\ IF size < PAGE_SIZE - MinAlign
       THEN SlobAlloc(t, KmallocOf(size))
       ELSE NewPages(KmallocOf(size))

KmemCacheAlloc(t, c) ==
    /\ Ready(t)
    /\ IF CacheSize(c) < PAGE_SIZE THEN SlobAlloc(t, c) ELSE NewPages(c)

GetPage(t) ==
    /\ \/ \E p \in Buddy : Grow(t, p) /\ UNCHANGED call
       \/ GrowFails(t) /\ call' = [call EXCEPT ![t] = Nil]
    /\ UNCHANGED <<big, word, held, arg, deferred, reader>>

UseFresh(t) ==
    /\ AllocFresh(t)
    /\ \E o \in live' \ live : Hand(call[t], o)
    /\ call' = [call EXCEPT ![t] = Nil]
    /\ UNCHANGED <<big, arg, deferred, reader>>

-----------------------------------------------------------------------------
(* Freeing                                                                 *)

\* slob_free is about to be called with this block and size.
WillFree(t, p, at, size) ==
    /\ arg' = [arg EXCEPT ![t] = [page |-> p, at |-> at, size |-> size]]
    /\ UNCHANGED <<big, heap>>

FreePages(p) ==
    /\ big' = big \ {p}
    /\ UNCHANGED <<arg, heap>>

\* Plausible bug: the alignment is not added to the size in front.
KfreeShort(t, h) ==
    /\ Ready(t) /\ h.call.kind = "kmalloc"
    /\ held' = held \ {h}
    /\ LET m == h.at - SLOB_UNITS(MinAlign)
       IN  IF h.page \in slab
           THEN WillFree(t, h.page, m, word[h.page][m])
           ELSE FreePages(h.page)
    /\ UNCHANGED <<word, call, deferred, reader>>

Kfree(t, h) ==
    /\ Ready(t) /\ h.call.kind = "kmalloc"
    /\ held' = held \ {h}
    /\ LET m == h.at - SLOB_UNITS(MinAlign)
       IN  IF h.page \in slab
           THEN WillFree(t, h.page, m, word[h.page][m] + MinAlign)
           ELSE FreePages(h.page)
    /\ UNCHANGED <<word, call, deferred, reader>>

\* __kmem_cache_free
InnerFree(t, p, at, size) ==
    IF size < PAGE_SIZE THEN WillFree(t, p, at, size) ELSE FreePages(p)

\* Plausible bug: the cache's flag is not looked at.
KmemCacheFreeAtOnce(t, h) ==
    /\ Ready(t) /\ h.call.kind = "cache"
    /\ held' = held \ {h}
    /\ InnerFree(t, h.page, h.at, CacheSize(h.call))
    /\ UNCHANGED <<word, call, deferred, reader>>

\* With SLAB_DESTROY_BY_RCU the size goes to the footer, and call_rcu takes
\* the footer's address; it waits for the readers there are now.
KmemCacheFree(t, h) ==
    LET c == h.call
        foot == h.at + SLOB_UNITS(CacheSize(c) - RcuSize)
    IN  /\ Ready(t) /\ c.kind = "cache"
        /\ held' = held \ {h}
        /\ IF c.rcu
           THEN /\ word' = [word EXCEPT ![h.page][foot] = CacheSize(c)]
                /\ deferred' = deferred \cup
                      {[page |-> h.page, foot |-> foot,
                        waits |-> {r \in Readers : reader[r] # Outside}]}
                /\ UNCHANGED <<heap, big, arg>>
           ELSE /\ InnerFree(t, h.page, h.at, CacheSize(c))
                /\ UNCHANGED <<word, deferred>>
        /\ UNCHANGED <<call, reader>>

Footer(d) == word[d.page][d.foot]

\* Plausible bug: the footer is taken to follow the block.
StartBefore(d) == d.foot - SLOB_UNITS(Footer(d))

\* Where the block starts whose footer this is.
Start(d) == d.foot - SLOB_UNITS(Footer(d) - RcuSize)

\* The callback, once the grace period is over.
KmemRcuFree(d) ==
    /\ d \in deferred /\ d.waits = {} /\ Ready(Softirq)
    /\ deferred' = deferred \ {d}
    /\ InnerFree(Softirq, d.page, Start(d), Footer(d))
    /\ UNCHANGED <<word, held, call, reader>>

\* slob_free gets the lock; the list of free blocks is kept in what it frees.
SlobFree(t) ==
    LET o == arg[t]
    IN  /\ o \in live
        /\ FreeLast(t, o) \/ FreeOnFull(t, o) \/ FreeOnPartial(t, o)
        /\ Fill(o.page, SpanOf(o), Junk)
        /\ arg' = [arg EXCEPT ![t] = Nil]
        /\ UNCHANGED <<big, held, call, deferred, reader>>

GivePage(t) == PutPage(t) /\ UNCHANGED front

-----------------------------------------------------------------------------
(* RCU readers: external                                                   *)

ReaderBegins(r) ==
    /\ reader[r] = Outside
    /\ reader' = [reader EXCEPT ![r] = Nil]
    /\ UNCHANGED <<heap, big, word, held, call, arg, deferred>>

ReaderFinds(r, h) ==
    /\ reader[r] = Nil /\ h.call.rcu
    /\ reader' = [reader EXCEPT ![r] = h]
    /\ UNCHANGED <<heap, big, word, held, call, arg, deferred>>

ReaderEnds(r) ==
    /\ reader[r] # Outside
    /\ reader' = [reader EXCEPT ![r] = Outside]
    /\ deferred' = {[d EXCEPT !.waits = @ \ {r}] : d \in deferred}
    /\ UNCHANGED <<heap, big, word, held, call, arg>>

-----------------------------------------------------------------------------

FrontNext ==
    \/ \E t \in Callers :
          \/ \E s \in KmallocSizes : Kmalloc(t, s)
          \/ \E c \in Caches : KmemCacheAlloc(t, c)
          \/ GetPage(t)
          \/ UseFresh(t)
          \/ \E h \in held : Kfree(t, h) \/ KmemCacheFree(t, h)
    \/ \E d \in deferred : KmemRcuFree(d)
    \/ \E t \in Threads : SlobFree(t) \/ GivePage(t)
    \/ \E r \in Readers :
          ReaderBegins(r) \/ ReaderEnds(r) \/ \E h \in held : ReaderFinds(r, h)

\* A context in the allocator goes on: nothing it does there can block.
FrontFairness ==
    \A t \in Threads : WF_frontVars(UseFresh(t) \/ SlobFree(t) \/ GivePage(t))

FrontSpec == FrontInit /\ [][FrontNext]_frontVars /\ FrontFairness

-----------------------------------------------------------------------------
(* ksize and the statistics                                                *)

Ksize(h) ==
    IF h.page \notin slab THEN PAGE_SIZE
    ELSE LET m == h.at - SLOB_UNITS(MinAlign)
         IN  SLOB_UNITS(word[h.page][m]) * SLOB_UNIT

\* Plausible bug: pages on their way to the page allocator are counted too.
OnSlabPages == {p \in slab : units[p] > 0}

OnLists == {p \in Pages : Listed(p)}

sys_get_slob_amt_total == Cardinality(OnLists) * SLOB_UNITS(PAGE_SIZE)

sys_get_slob_amt_free == MapThenSumSet(LAMBDA p : units[p], OnLists)

-----------------------------------------------------------------------------
(* Properties                                                              *)

SlobHeld == {h \in held : FromSlob(h.call)}

\* Every block of the allocator is one that a caller has, or that is on its
\* way back, directly or through RCU, and is only one of these; every page
\* handed out whole is some caller's.  So kfree's PageSlab test, the size in
\* front of the object (slob.c:584-587), the size in the footer and the way
\* back from it (slob.c:683-685) always name one live block, which nobody
\* else is freeing, although all of them are read without the lock.
Accounted ==
    LET freeing == {t \in Threads : arg[t] # Nil}
    IN  /\ live = {BlockOf(h) : h \in SlobHeld} \cup {arg[t] : t \in freeing}
                    \cup {[page |-> d.page, at |-> Start(d), size |-> Footer(d)] : d \in deferred}
        /\ Cardinality(live) =
              Cardinality(SlobHeld) + Cardinality(freeing) + Cardinality(deferred)
        /\ big = {h.page : h \in held \ SlobHeld}
        /\ Cardinality(big) = Cardinality(held \ SlobHeld)
        /\ big \cap slab = {}

\* The bytes an owner may use: of a kmalloc object all that ksize reports.
Extent(h) == IF h.call.kind = "kmalloc" THEN Ksize(h) ELSE h.call.size

\* Nobody writes to an object while its owner has it, all that ksize promises
\* included (slob.c:610), nor, if its cache defers frees to RCU, while a
\* reader that found it goes on: not the next owner, not the free list, not
\* even the footer (slob.c:618, :691-695).
ObjectsIntact ==
    /\ \A h \in held : Extent(h) >= h.call.size
    /\ \A h \in held \cup ({reader[r] : r \in Readers} \ {Nil, Outside}) :
        \A u \in Span(h.at, SLOB_UNITS(Extent(h))) :
            u \in Units /\ word[h.page][u] = Data

\* What the statistics calls answer from counters and lists is what the
\* objects leave.  The free units are those of all pages at rest; the total
\* is that of the pages which have any, full pages left out (slob.c:745-762):
\* it is not all the memory of the allocator, but it is more than is free.
StatisticsAgree ==
    LET rest == {p \in Pages : InUse(p)}
        Left(p) == Units \ Occupied(p)
        partlyFree == {p \in rest : Left(p) # {}}
    IN  /\ sys_get_slob_amt_free = MapThenSumSet(LAMBDA p : Cardinality(Left(p)), rest)
        /\ sys_get_slob_amt_total = PageUnits * Cardinality(partlyFree)
        /\ sys_get_slob_amt_free < sys_get_slob_amt_total \/ partlyFree = {}
=============================================================================
