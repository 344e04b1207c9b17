# A verification of CS444-Operating-Systems-II

TLA+ specifications of the programs and kernel components in this repository,
model-checked with TLC and, for what matters most, proved with TLAPS. Paths
below are relative to `src/`; `slob.c` is `CS444_project4_46/slob.c`.

The repository holds several independent programs: a memory allocator for the
Linux kernel, two block-layer components and four multithreaded exercises.
They share no state. What they have in common is that each is a small piece of
shared state that many contexts change, and that its tests are a run with
printed output.

## 1. Inventory

### 1.1 The SLOB allocator (`slob.c`)

The kernel's smallest allocator, changed to best-fit and given two system calls.

| Part | State | Operations |
|---|---|---|
| page | the page's memory, `sp->units`, `sp->freelist`, `PageSlab`, `PageSlobFree` | `slob_page_alloc`, the second half of `slob_free`, `set_slob`, `slob_units`, `slob_next`, `slob_last` |
| heap | the lists `free_slob_small`, `_medium`, `_large` of partly free pages, `slob_lock` | `slob_alloc`, `slob_free`, `set_slob_page_free`, `clear_slob_page_free`, `slob_new_pages`, `slob_free_pages` |
| front end | the size in front of a kmalloc object, a cache's size and flags, the RCU footer of an object | `__do_kmalloc_node`, `kfree`, `ksize`, `kmem_cache_alloc`, `kmem_cache_free`, `kmem_rcu_free` |
| statistics | none | `sys_get_slob_amt_total`, `sys_get_slob_amt_free`, read by `Frag_Test/frag_test.c` |

Interactions: callers enter through the front end; it calls the heap; the heap
calls the page part with `slob_lock` held and the page allocator with the lock
dropped; owners write their objects at any time, in the memory in which the
page part keeps its list once they give them back.

Hard: the free list lives in the free memory itself and records a size and a
link in one or two units; the decision to give a page back is taken from a
counter, never from the objects; the lock is dropped twice, between a failed
search and the insertion of the new page and between the unlisting of an empty
page and its release; the list is rotated after a page may have left it. The
front end works without the lock: whether an object came from a page of the
allocator or is a page by itself, and how long it is, is read from a page flag
and from a word in memory that the list and other objects use before and after.
An object of an RCU cache stays readable after it was freed.

Correct when: objects never overlap, no unit is lost, a page is given back only
when nothing on it is live and then surely, the lists hold exactly the partly
free pages, each in the list of its objects' class, and the hole taken is the
best-fitting one of the page. Every free gives back exactly the block that was
taken, nobody writes to an object its owner or a reader still has, and the
statistics are what the objects leave.

### 1.2 The threads (`Concurrency1`, `Concurrency2`, `Concurrency3`)

| Program | State | Operations |
|---|---|---|
| `Concurrency1/concurrency.c` (the same as `CS444_project1_46/concurrency.c`) | `buffer`, `num_items`, `mutex` | `producer`, `consumer`; `rdrand`, which falls back on `mt19937ar.c` |
| `Concurrency2/concurrency2.c` | one mutex per fork, `print_lock` | `think`, `get_forks`, `eat`, `put_forks` |
| `Concurrency3/prob1_conc3.c` | semaphores `mutex` and `blocker`, `active`, `waiting`, `must_wait` | `shareable` |
| `Concurrency3/prob2_conc3.c` | a linked list, five semaphores, two counters | `insert`, `search`, `delete` |

Hard: in the first, producers and consumers interleave between any two
statements, at a buffer that is full or empty. In the second, two mutexes per
meal and a third around messages. In the third, the mutex is passed to a thread
without being opened, and who is passed it depends on two counters and a flag.
In the fourth, inserters exclude deleters but not each other, a new head is in
the list before its link is set, and a group's semaphore is given back by its
last member, not by the thread that took it.

Correct when: the buffer is a bounded stack and moves on once full; neighbours
do not eat together and the table does not stop; the resource has at most three
users, is drained once full, and is used again; a deleter is alone with the
list, the list can always be walked, and it loses no node.

### 1.3 The block layer (`CS444_project2_46/sstf-iosched.c`, `CS444_project3_46/brdd.c`)

| Part | State | Operations |
|---|---|---|
| SSTF elevator | the queue of requests | merge, dispatch, add, former, latter, init, exit |
| brdd, an encrypting RAM disk | the data, the disk, the cipher | transfer, request loop, init, exit |

Hard: the place of a request depends on a reference sector that changes while
the queue is walked, and on distances cut to 32 bits; the cipher works on
blocks while the request is a run of sectors that the driver works off bio by
bio; the disk goes live before its cipher exists; initialisation has several
failure paths.

Correct when: a request is in one place until it has been served, goes where
the distances put it, and is ended; a write lands encrypted in its sectors and
nowhere else; a read returns what was written; no transfer runs without the
cipher.

The rest (reports, essays with excerpts that nothing runs, patches that repeat
the `.c` files, build files) is not modelled.

## 2. The modules

```
SlobHoles              arithmetic of a page: holes, alignment, best fit
 |-- PageHeap          abstract: a page of objects, with no free list
 |-- SlobPage          the page with its free list in memory;  SlobPage => PageHeap
 `-- Slob              pages, lists, lock and threads
      `-- SlobFrontEnd kmalloc, kfree, caches, RCU, statistics on top of Slob
BoundedStack           abstract: a bounded stack
 `-- ProducerConsumer  the buffer, statement by statement; => BoundedStack
Philosophers           forks and print_lock
SharedResource         semaphores and counters
SearchInsertDelete     five semaphores and a linked list
Sstf                   the elevator's queue of requests
 `-- Brdd              the driver on that queue, its disk, loading and unloading
```

`X` has its model-checking instance in `MCX` and its configurations in
`MCX*.cfg`; theorems about it are in `XProofs`, those about `SlobFrontEnd` in
`SlobProofs` as well, those about `Sstf` in `BrddProofs`.

An operator called "Plausible bug" in its comment is a wrong version of the
definition after it. It is used nowhere in the specification: it documents a
mistake that the properties would notice.

### 2.1 SlobHoles and SlobPage: one page

Addresses are unit offsets in the page (`SLOB_UNIT`s); the page's end, where
the code's last link points, is `PageUnits`. `mem` is the page as an array of
numbers, and `set_slob`, `slob_units`, `slob_next` and `slob_last` encode and
decode it as the code does: a block of two units or more is its size and the
offset of the next block, a block of one unit is minus that offset. What
`set_slob` writes behind the page's end would be in somebody else's memory: it
is kept in `mem` beyond the page (`Put`), and `TypeOK` says that there is none.
Alignments are counted in units, as `delta` is.

| Action | Code |
|---|---|
| `NewPage` | `slob_alloc` takes this page from the page allocator, makes it one free block and allocates from it (:404-420) |
| `TryPage` | `slob_alloc`'s search comes by the page: the test on `units`, then `slob_page_alloc` (:383-392, :230-307) |
| `Free` | `slob_free` (:429-509): `ReleasePage`, `FirstFree`, or `PartlyFree` (`FreeBeforeAll`, `FreeAfter`) |
| `UserWrite` | an owner fills its object with a value, here ones that read as a size or as a link; external |

The loop over the list is the function `Walk`; the hole the loop settles on is
the least difference, and the earliest among equals since a later one must be
strictly better. `Take` repeats the order of the writes, head fragment first.

`PageHeap` has the same operations and no list: the free blocks are `Holes` of
what the objects leave. `ImplementsHeap` says that `SlobPage` implements it
with `live` and `ret` as they are. This justifies `Slob`, which keeps a page's
free list as the set of units it covers.

### 2.2 Slob: the heap

A step is one critical section under `slob_lock`, or one call made outside it;
`pc`, `req` and `page` are where a thread is between two of them.

| Action | Code |
|---|---|
| `AllocHit` | the search finds room on the i-th page; `slob_page_alloc`; rotation of the list (:365-401) |
| `AllocMiss` | no page of the list has room (:374-404) |
| `Grow`, `GrowFails` | `slob_new_pages` and `__SetPageSlab`, or NULL (:404-409) |
| `AllocFresh` | the new page is listed and serves the request (:411-423) |
| `FreeLast` | the page is empty: unlist, drop the lock (:446-450) |
| `PutPage` | `__ClearPageSlab`, `slob_free_pages` (:451-454) |
| `FreeOnFull` | the page was full: list it by the size freed (:457-472) |
| `FreeOnPartial` | the units join the free list (:474-508) |

`Rotated` is the rotation with both its guards as they are written (:396-397).
The links of a list are positions in it, 0 for `slob_list` itself (`LruNext`,
`LruPrev`), and `prev` is taken before `slob_page_alloc` may unlink the page.
`StartAt` is `list_move_tail(slob_list, prev->next)`. Moving `slob_list` before
itself would take it out of its own ring and lose all pages; the first guard
keeps that from happening when the page that served was the last and has left.
`PutPage` resets what the page structure says, which is the page
allocator's to overwrite. `CONFIG_NUMA` is off, and the `memset` of
`__GFP_ZERO` writes only the new object.

### 2.3 SlobFrontEnd: kmalloc, caches, RCU and statistics

`word` is the memory, a word for each unit: a size where the allocator wrote
one, `Data` where an owner did, `Junk` once the block was freed, since the free
list then lives there. What a caller has is in `held`, what it is about to call
`slob_free` with in `arg`, and a free that waits for RCU in `deferred`. A
request for whole pages takes one page.

| Action | Code |
|---|---|
| `Kmalloc` | `__do_kmalloc_node`: the test without the header, `slob_alloc` with it, the size in front (:515-552) |
| `KmemCacheAlloc` | `slob_alloc_node`, with the size of `__kmem_cache_create` (:614-650) |
| `GetPage`, `UseFresh` | the rest of a `slob_alloc` that found no room: `Grow`, `GrowFails`, `AllocFresh` of `Slob`, and the caller's use of the result |
| `Kfree` | the test of `PageSlab`, the size in front, whole page or `slob_free` (:573-591) |
| `KmemCacheFree` | at once, or footer and `call_rcu` (:672-702) |
| `KmemRcuFree` | the callback: the block worked out from its footer (:680-686) |
| `SlobFree`, `GivePage` | the two critical sections of `slob_free`, as in `Slob` |
| `ReaderBegins`, `ReaderFinds`, `ReaderEnds` | an RCU reader; external |

The statistics are what the code adds up: a total of the pages on the lists,
whole, and their free units. A full page is on no list and in neither.

The decision of a free and the free itself are two steps, since the code makes
the first without the lock. The two system calls and `ksize` are operators on
the state: each runs in one critical section and changes nothing.

### 2.4 Philosophers

A step is one lock, one unlock, or a message with the unlock of `print_lock`
after it. `Says` are the places that print under that lock. `Forks` gives the
last seat its forks in the other order (:116-125).

### 2.5 SharedResource

A step is a `sem_wait`, or what a thread does from there to its next
`sem_post` or `sem_wait`: everything between is done with the mutex. `waiting`
is kept as the code keeps it, and the code only ever decrements it.

### 2.6 ProducerConsumer and BoundedStack

A step is one statement on the mutex, the buffer, the count or the local item.
A consumer sleeps through the item's `wait_time` with the mutex locked; "use"
is after that. Under the refinement an item changes hands where `num_items`
changes: the stack is the first `num_items` slots and a consumer has been given
the item it holds once it has counted down.

### 2.7 SearchInsertDelete

`insert` and `search` enter and leave their group in the same way (`Arrive`,
`Join`, `EnterRoom`, `Leave`). Arriving and counting is one step because the
group's counter semaphore is held in between; the first of a group waits for
the group's semaphore with the counter's in hand, which is the place "gate".

| Action | Code |
|---|---|
| `LookAtHead`, `Publish`, `ClearHead` | insertion into an empty list: `head->head = malloc(..)`, then the link (:52-59) |
| `AtLastNode`, `NotLastNode`, `NextNode`, `LinkNode` | the walk to the last node, each read of a link by itself, and the append (:61-70) |
| `Crash` | the link read again is NULL by then, and the loop's test follows it |
| `FirstNode` | `iterator = head->head` (:110), once the counter's semaphore is back |
| `SearchEnds`, `SearchGoesOn` | the walk of a searcher |
| `TakeThree`, `DeleteNothing`, `DeleteNode` | a deleter's three semaphores, and its work, which is one step because it works alone (`DeleterAlone`) |

`malloc` may hand out any node that is not allocated, with whatever link it
held or with none. Values are left out: a search or a deletion may match at any
node.

### 2.8 Sstf and Brdd

`Sstf` is the elevator as the block layer calls it, a sequence of requests.
`Place` is the loop of `sstf_add_request`: `walk[k]` looks at the k-th request
with `EndRef(k)`, what the code's reference sector is by then, and `Distance`
is `Seek` modulo `UintRange`, as `unsigned int` cuts it. The property
`NearestIsNext` measures with `Seek`, so that what the cut does to the order
shows. If `sstf_init_queue` finds no memory (:162-168), the block layer keeps
the elevator it has, which is empty by then: `NewElevator` covers both.

`Brdd` adds the driver and, as its environment, the part of the block layer
that the two meet: it makes requests of bios, merges at either end
(`elv_latter_request`, `elv_former_request`), moves `end_sector`, and empties
the queue into its dispatch list when another elevator is chosen.

| Action | Code |
|---|---|
| `NewRequest`, `BackMerge`, `FrontMerge`, `SwitchElevator` | external, with `AddRequest`, `MergedRequests`, `FormerRequest`, `LatterRequest`, `NewElevator` of `Sstf` |
| `StartRequests`, `EndBio` | `brdd_request`: `blk_fetch_request`, and `__blk_end_request_cur` with the next bio or the next request (:143-162) |
| `Transfer`, `TransferWithoutCipher` | `brdd_transfer`, cipher block by cipher block (:94-139) |
| `AddDisk` | `brdd_init` up to `add_disk` (:228); from here on the disk is live |
| `AllocCipher` | `crypto_alloc_cipher` (:233): a cipher without a key, or an error pointer, which :234 takes for a cipher |
| `SetKey`, `SetKeyOfError` | `crypto_cipher_setkey` (:241), of one and of the other |
| `DelGendisk`, `FreeCipher` | `brdd_exit` |

A block of the disk is known by the bio and the part of it that it holds, and
by what was done to it: plain, encrypted with the key, or made by the cipher
before it had one. Reads and writes come at any time from `add_disk` to
`del_gendisk`, also between those three calls: nothing in `brdd_init` keeps
them out, and it does not take the queue's lock to set the key. So a transfer
may find the key from some block on, any one (`KeyedFrom`). What a cipher
without a key makes of a block is nothing that the key undoes (`Decrypt`).

A bio is one segment: the driver works off, and ends, the segment at the front
of a request (`blk_rq_cur_sectors`, `__blk_end_request_cur`), so a bio of
several goes like several bios of one. `DelGendisk` waits until nothing is in
flight: a module is in use while its disk is open. The `key` parameter is one
that the cipher takes, as the default of 16 bytes is; `brdd_init` does not look
at what `crypto_cipher_setkey` answers.

The request function is not interrupted by submissions: the block layer calls
it with the queue's lock held, which is also `Device.lock`.

## 3. The runs

| Run | What it shows | Bounds |
|---|---|---|
| `slob_page` | the encoded list is the gaps between objects in address order and in full, `units` agrees, only empty pages go back, only free memory is written, none of it past the page; refines `PageHeap` | 5 units, alignment none or 2, two values written |
| `slob_heap` | objects apart, nothing lost, lists right, classes apart, no empty page, rotation as commented | 3 pages of 4 units, 2 threads, sizes 1, 4, 6, 7 bytes of 2-byte units |
| `slob_front_end` | every free names one live block, owned by one party; objects and what readers see intact; statistics are what the objects leave on the pages that are not full; an empty page leaves or is used | 2 pages of 5 units, 2 callers and the softirq, 1 reader; kmalloc of 2 and 6 bytes with a header of 4, an RCU cache, a cache of whole pages |
| `slob_best_fit` (violation) | best fit is sought within a page only | as `slob_heap` |
| `philosophers` | neighbours take turns, each unlocks its own, no circular wait; somebody eats again and again | 5 seats, as in the program |
| `shared_resource` | capacity, one baton, full means drained first; used again and again | 5 threads, 3 places, as in the program |
| `shared_resource_woken` (violation) | a thread that waits is never woken | the same |
| `producer_consumer` | mutual exclusion, refines `BoundedStack`, a full buffer is relieved | 2 producers, 2 consumers, as in the program; 2 slots, 2 items |
| `search_insert_delete` | a deleter is alone, the list can be walked, not all threads are blocked, operations go on ending | 2 threads of each kind, 3 nodes |
| `search_insert_delete_lost` (violation) | two inserters lose a node | the same |
| `block_layer` | requests are in one place, placed by distance unless that is cut, served; writes land, with the key once it is set; the cipher is there but for the windows of `brdd_init` | 3 sectors of 2 cipher blocks, 3 requests, 4 bios (3 reads of one sector, a write of two), distances modulo 3 |
| `block_layer_read` (violation) | a read of two cipher blocks returns one | the same |

Why the bounds are enough. Five units make three holes, blocks of one unit
(the other encoding) next to longer ones on either side, a block freed between
two free neighbours, and an aligned allocation that fragments the head, the
tail or both. Three pages of four units fill a list so far that the serving
page is first, in the middle or last, leaves when it is full, and comes back in
another place, while a second thread is at any point outside the lock; the four
sizes are two small ones, which share pages, and two large ones, one that takes
part of a page and one that takes all of it. On top of that, the front end's
two pages of ten bytes hold a kmalloc object of three units and RCU objects of
two, so that kinds share a page in every order, and 6 is the least size that
kmalloc serves by a whole page; two callers and the softirq are three contexts
between a decision and its free. Nothing is capped but `HeapBound` in
`SearchInsertDelete`, which lets an inserter start only if memory is left for
it: the code does not look at `malloc`'s result. All state spaces are finite as
they are. Pages and threads are symmetric in `slob_heap`, which checks no
liveness. A buffer of two slots is empty, partly full and full, and two items
are enough to see one given for another. Two threads of each kind are a first
and a last member, and both at once; three nodes are a list of two and a node
that is freed and used again. Three reads of one sector let a request merge at
its front, at its back and with both neighbours; two sectors of two blocks show
where a transfer of several puts each, and let the key come between any two of
four; the end of the disk and its start are three apart, so that distances wrap
around. The other runs have the numbers of
the program.

### Fairness

- `Slob` alone: none, its properties are safety.
- `SlobFrontEnd`: weak fairness of what a context does inside the allocator
  past a decision (`UseFresh`, `SlobFree`, `GivePage`), which has nothing to
  wait for but a spin lock. Nobody is obliged to allocate or to free, and the
  page allocator, readers and grace periods may take forever.
- `Philosophers`, `SharedResource`, `SearchInsertDelete`: weak fairness of each
  thread. Nothing is assumed of who wins a mutex or a semaphore, so what is
  shown is that somebody goes on, not everybody.
- `ProducerConsumer`: weak fairness of each thread inside its loop, and strong
  fairness of "some consumer locks": producers sleep at least three seconds
  after each attempt (:143-144) and consumers do not, so producers cannot take
  every turn at the mutex.
- `Brdd`: weak fairness of the request function: the block layer runs it for a
  queue that has requests, and it loops until there are none.

### Disagreements found

Each of the first four is a run that TLC finds violated.

1. A thread made to wait in `prob1_conc3.c` is never woken. Nothing increments
   `waiting`, so the tests at :66 and :82 fail and `blocker` is never posted.
   Every thread that arrives while the resource drains is lost for good; one
   or two that can no longer fill it go on (`BlockedIsWoken`, `UseGoesOn`).
2. Inserters of `prob2_conc3.c` exclude deleters but not each other. Two that
   stand at the same last node, or both find the list empty, overwrite each
   other's link: a node reported as inserted is in no list (`InsertedIsListed`).
3. A read from brdd decrypts every cipher block to the start of the buffer
   (`brdd.c:136`); with more than one block only the last is returned
   (`ReadsDecrypt`).
4. The report of project 4 says that best fit is over all pages; the code takes
   the first page with room and fits best inside it (`BestOverAllPages`).

Four more are what properties except, or spell out:

5. `prob2_conc3.c:56` publishes a new head before its link is set (:58). A
   thread that follows the link in between walks into memory that was freed; it
   may never come back with its group's semaphore, or follow NULL
   (`OperationsEnd`).
6. `brdd_init` adds the disk before it allocates the cipher (:228, :233) and
   sets the key after that (:241). A transfer in the first window has no
   cipher. `crypto_alloc_cipher` reports a failure by an error pointer, so
   :234-237 never cleans up; the pointer is used at :241 or by a transfer before
   that, whichever comes first (`CipherThere`). In the second window a write is
   stored by a cipher that has no key, in whole or up to some block, and cannot
   be read afterwards (the exception in `WritesLand`).
7. What the report of project 4 (`CS444_project4_46/CS444_project4_46.tex:118`)
   and `Frag_Test/frag_test.c:56` call total memory is a sum over the lists
   (`slob.c:745-762`), which full pages are not on: one that fills up leaves
   the total. `StatisticsAgree` says exactly which pages are counted.
8. `sstf_add_request` iterates "based on the shortest seek time/distance"
   (`sstf-iosched.c:80-82`), but keeps distances in 32 bits (:97): a seek of
   2^32 sectors or more is taken for a short one and may come before shorter
   ones (the exception in `NearestIsNext`).

And these are comments that no longer, or not quite, describe the code:
`concurrency.c:152` says that a producer blocks until an item is removed, where
it unlocks and comes back; `slob.c:29-31` describes a first-fit scan; the
report of project 2 says that the queue is sorted by shortest seek time, where
an insertion looks at distances to the request ahead, so that with the head at
10 the requests 8, 12 and 7, added in this order, are served as 8, 12, 7
(`NearestIsNext` states what an insertion does promise).

## 4. The proofs

Every type invariant, safety invariant, action property and refinement that a
passing run checks is also a theorem, for every value of the constants that
satisfies the named assumptions. These are: pages of at least one unit and
requests that fit a page (`Slob`), values that are integers (`SlobPage`), an
alignment that is a whole number of units, sizes that are not zero, a finite
memory, callers whose requests take a page at most and whose RCU objects take
less (`SlobFrontEnd`), at least two seats (`Philosophers`), a finite set of
threads and a capacity of at least one (`SharedResource`), disjoint sets of
producers and consumers and a buffer of at least one slot (`ProducerConsumer`),
finite groups, disjoint kinds of thread and a finite memory
(`SearchInsertDelete`), a disk that starts at sector 0, finitely many requests
and bios, and bios inside the disk (`Sstf`, `Brdd`), and null values that are
not what they stand in for.

**SlobProofs.** `TypeOK`, `ObjectsApart`, `NothingLost`, `ListedOnce`,
`Segregated` and `NoEmptyPage`. None of them is inductive alone: whether a page
may be given back depends on its counter, which is right only while units are
neither lost nor doubled, which needs that no second thread has the page, which
needs that it was on one list only. The invariant

    IInv == TypeOK /\ HeldApart /\ PagesSound /\ ListsSound /\ Segregated

is all of these at once, with two parts restated for induction: `HeldApart` (a
page outside the lock is in the heap and is one thread's) and `ListsSound`
(`ListedOnce` on the sets of pages of the lists). There is one lemma per
action. The step worth reading is `FreeLast`: if the units of the object and of
the counter make up the page, the object was the last one, by counting. The
list operations (`RemoveAt`, `Rotated`, adding in front) each have a lemma on
what they do to the pages of a list. `RotatedIs` is the one about the guards of
the rotation: with both, the list is turned round or left alone, and
`slob_list` is never moved before itself.

`NextSearchHere` is about the order of a list: `RotatedAt` says which page is
at each place after a rotation, by its remainder, and `OnceAround` that going
round meets every place once. `StatisticsAgree` compares a sum over pages,
which the code adds up in a fold, with the number of cells (a page and a unit
of it); `SumCounts` shows by the least counterexample on the number of pages
that a sum of such sizes exists and is that number. The total is the units of
the pages that are at rest and not full, because such pages, and no others, are
on a list (`ListsSound`).

Then, of the front end, `FrontTypeOK`, `Accounted`, `ObjectsIntact`, and that
`FrontSpec` implements `Spec`: every step does to the heap what a step of `Slob`
may do, so the theorems above hold under `kmalloc`, `kfree` and the caches too.
The point is what a free works out without the lock. `FrontInv` says that every
live block has exactly one owner, which is a caller, an RCU callback or a
context that is about to free it (`AtMostOneOwner`), and that the owner finds it:
the word in front of a kmalloc object is its size, and the footer of a deferred
one leads back to the start of its block (`HeldSound`, `DeferredSound`). The two
need each other. A header keeps its value because whoever writes has another
block, and blocks are apart (`IInv`); and a free takes the right block from its
owner because the header kept its value. `AccountedInv` turns owners into the
sums of `Accounted`, as disjoint images of injective maps. `DataInv` adds the
words of the objects: an object that a reader found is still its owner's, or its
callback waits for this reader (`FoundSound`), so that no write reaches it; and
the footer lies behind it (`ObjectInBlock`), the one write into its own block.

**SlobHolesProofs, SlobPageProofs.** An allocation lies inside the hole it is
cut from (`PlacedInHole`), and where anything fits there is exactly one best fit
(`BestFitIsOne`). On this rests the page with its encoded list: `TypeOK`,
`FreeListIsTheHoles`, `SparesObjects`, `ImplementsHeap`, and through it the safety of
`PageHeap` (`HeapIsSafe`, `ObjectsNeverOverlap`). That nothing is written
behind the page (`TypeOK`) is a fact about every single `set_slob`, which
`PutInside` asks for: one unit for a short block, two for a longer one, both in
the page because the block is a hole or a piece of one. The invariant

    Inv == TypeOK /\ Apart(live, 0) /\ ListIsHoles /\ CountIsFree /\ NotYetOurs

says of the list that its blocks are the holes in address order, each encoded
with its length and the next hole's address. Then the loop of
`slob_page_alloc` is described without a recursion: the block it settles on is
the best fit of the part it has walked, shown by taking the least place where
this would fail. `Take` cuts a piece out of one hole, which leaves the gaps that
the new object makes; a free joins the object to the hole before it, the hole
after it, both or none, with one lemma for each way.

**PhilosophersProofs.** `ForksAgree` (inductive with `TypeOK`, which no run
needs to repeat), then
`NeighboursTakeTurns` from it: who eats holds both forks. `NoCircularWait` for
any number of seats: if all waited, each would wait for a fork; the owner of
the highest fork taken has it as its right one and waits for its left one,
which is higher and taken as well.

**SharedResourceProofs.** `TypeOK`, `CapacityKept`, `OneBaton`, `DrainsFirst`, and
`SomeoneGoesOn`: threads are turned away only while another uses the resource. The invariant needs `NobodyWoken`: only because no thread is
ever woken does an open gate mean that there is room. The capacity that the
program keeps rests on the defect of section 3, item 1. Were waiting threads
counted and woken, these proofs would have to be done again, and whether they
could be is a question to check before changing that line.

**ProducerConsumerProofs.** `TypeOK`, which has the bounds of `num_items`,
`Exclusive`, and `ImplementsStack`. The invariant says what a thread between
two statements may rely on: a producer between the write and the count has its
item in the slot `num_items`, a consumer between the read and the count has the
one below it (`ProducerInv`, `ConsumerInv`), and all slots below `num_items`
hold items (`Filled`). It is kept because a thread with the mutex is alone with
the buffer (`OthersKeep`). Under the mapping, the count of a producer is `Put`,
that of a consumer `Get`, its return to the start `Use`, and every other step a
stutter.

**SearchInsertDeleteProofs.** `DeleterAlone` and `TypeOK`, whatever the
inserters do to the list. For each group, `RoomInv` says that an open room has
nobody inside and no deleter that holds it, and that a deleter that holds it
holds it alone; `DoorInv` says that the counter is the number of members that
arrived and have not left, and that one who waits for the room keeps the door
shut and is the only one. The argument is by counting: the last to leave, who
gives the room back, is last because the counter is one, and then nobody else
is inside. `MemberStep` and its like reduce a step to the one group it
touches.

`ListSound` needs more than the list, because an inserter may be anywhere in
it and a node that two of them lost may still have a link. `LinkedInv` says that
there is a set of allocated nodes which links do not leave, in which no two
nodes have the same link and none links back to the head; the head is in it
unless its link is still to be cleared, and so are nodes about to be linked,
which nobody links to yet. Each write to a link keeps such a set
(`PublishKeepsLinked` and its like). A walk from the head then meets no node
twice, and ends since there are finitely many (`ListEnds`).

`SomeoneGoesOn` is the part of `OperationsEnd` that is about states
(`NobodyStuck`): of the threads at an operation, one is not blocked.
`HoldersInv` says that a semaphore that is taken is taken by somebody: a room
by a member inside or by a deleter, a door by the one at the gate,
`deleter_mut` by the deleter at work. When a member leaves and keeps the room,
another is inside, by the counting of `DoorInv`. A member inside waits for
nobody: it would wait only for the door, whose holder would be the only member
counted, or for memory, which `HeapBound` has left (`MemoryInv`). The others
wait for a member inside or for a deleter further on. What `Blocked` says are
the guards of the steps; TLAPS does not reason about `ENABLED`. Its counterpart
`NotAllBlocked` of `SharedResource` is proved only: the run checks the liveness
property, which is about more than a state.

**BrddProofs.** `CipherThere`: whoever runs the request function does so
between `add_disk` and `del_gendisk`, and a module that came past its windows
has a cipher, with its key (`ModuleInv`). `WritesLand`: between a transfer and
the end of its bio all blocks of a write are on the disk, those without the key
made while the key was being set (`WriteInv`); `SpanOnDisk` is the arithmetic
that keeps a transfer on the disk. Neither depends on the
order in which the elevator hands out requests. `RequestsOnce` is about where
they are: every bio that was submitted and is not done is carried by one
request, and once, and every request that carries any is in one place of the
queue, the dispatch list or the driver's hands (`RequestInv`, `Carried`),
through every merge, dispatch and change of elevator. `NearestIsNext` says
where an insertion puts a request: the place the loop of `sstf_add_request`
settles on is the first where the distances say so, shown downwards from the
end of the queue, and the others keep their order. The loop compares cut
distances and the property seeks: of one that is not cut the distance is the
seek, and that of the other is at most its seek (`DistanceCompares`).

Only model-checked: the liveness properties (`MealsGoOn`, `UseGoesOn`,
`FullIsRelieved`, `OperationsEnd`, `IoEnds`, `EmptyPageLeaves`), since TLAPS
does not reason about fairness and `ENABLED`. The four runs that find a
violation need no proof: TLC shows the behaviour.

## 5. Not modelled, and the plan

Not modelled:

- The Mersenne twister (`mt19937ar.c`) is a sequence of numbers. Its index
  `mti`, which two producers on a processor without `rdrand` advance outside
  the mutex, may run past its table; this is listed as a hazard.
- `frag_test.c` prints the quotient of two system calls made at two moments. No
  state of the allocator says what that number should be.
- Of the front end: requests of several pages, constructors, tracing and NUMA,
  which add no state; `SLAB_DESTROY_BY_RCU` caches whose objects take a whole
  page. One reader is enough in the run; the theorems are for any number.
- Of brdd: the branch for requests that are not file system requests, which
  nothing sends to this driver and which would go round forever; `getgeo`,
  which changes no state; memory that is not given back when loading fails or
  at unloading.
- Reports, essays with excerpts that nothing runs, patches and build files.

What is left: the race on `mti`; and of the liveness properties what could be
said of one step or one state, as `NoCircularWait`, `NotAllBlocked` and
`NobodyStuck` do of three programs.
