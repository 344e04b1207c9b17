--------------------------------- MODULE Sstf --------------------------------
(***************************************************************************)
(* The elevator of CS444_project2_46/sstf-iosched.c: a list of requests in  *)
(* the order in which they go to the driver.  A new request is placed by a  *)
(* walk from the front: ahead of the first request that is no nearer than   *)
(* it to the one before, the first being compared from end_sector.          *)
(*                                                                         *)
(* A request is the bios it consists of, in ascending order of sectors; the *)
(* block layer (external) makes and merges them, and moves end_sector.  All *)
(* operations are called with the queue's lock held.                        *)
(***************************************************************************)
EXTENDS Naturals, SequencesExt

CONSTANTS
    Requests,       \* the request structures
    Bios,           \* [sector, nsect, write]
    Sectors,        \* the disk's sectors, from 0
    UintRange,      \* 2^32: distances are kept as unsigned int
    Nil

ASSUME BiosAssumption ==
    \A b \in Bios : /\ b.sector \in Sectors /\ b.nsect \in Nat \ {0}
                    /\ b.write \in BOOLEAN
ASSUME UintAssumption == UintRange \in Nat \ {0}
ASSUME RequestsAssumption == IsFiniteSet(Requests) /\ Nil \notin Requests

VARIABLES
    queue,          \* sd->queue
    bios,           \* the bios of each request, external
    end_sector      \* q->end_sector, external

elevator == <<queue, bios, end_sector>>

Queued == ToSet(queue)

\* Where a request can start or end.
Ends == Sectors \cup {s + 1 : s \in Sectors}

\* blk_rq_pos, and the sector after the request.
Pos(r) == Head(bios[r]).sector
End(r) == Last(bios[r]).sector + Last(bios[r]).nsect

\* How far the head goes from one sector to the other.
Seek(a, b) == IF a >= b THEN a - b ELSE b - a

\* Plausible bug: the difference is kept in one bit less.
DistanceNarrow(a, b) == Seek(a, b) % ((UintRange + 1) \div 2)

\* unsigned int add_diff, curr_diff
Distance(a, b) == Seek(a, b) % UintRange

\* end_ref when the loop of sstf_add_request comes to the k-th request: it
\* goes along with the loop.
EndRef(k) == IF k = 1 THEN end_sector ELSE Pos(queue[k - 1])

\* That loop: it stops at curr_pos, the k-th request, or runs to the end.
Place(add) ==
    LET walk[k \in 1 .. Len(queue) + 1] ==
            IF k > Len(queue) THEN k
            ELSE IF Distance(Pos(queue[k]), EndRef(k)) >= Distance(add, EndRef(k)) THEN k
            ELSE walk[k + 1]
    IN  walk[1]

\* sstf_add_request, of a request that starts at this sector.
AddRequest(r, sector) == queue' = InsertAt(queue, Place(sector), r)

\* sstf_dispatch takes the first request off the list.
Dispatch == queue # <<>> /\ queue' = Tail(queue)

At(r) == CHOOSE k \in DOMAIN queue : queue[k] = r

\* Plausible bug: the request that absorbed the other is taken off.
MergedRequestsWrong(rq, next) == queue' = RemoveAt(queue, At(rq))

\* sstf_merged_requests: rq has absorbed next.
MergedRequests(rq, next) == queue' = RemoveAt(queue, At(next))

FormerRequest(r) == IF At(r) = 1 THEN Nil ELSE queue[At(r) - 1]

LatterRequest(r) == IF At(r) = Len(queue) THEN Nil ELSE queue[At(r) + 1]

\* sstf_exit_queue, whose list must be empty, and sstf_init_queue: the block
\* layer has dispatched all there was before it changes the elevator.  Should
\* the new one find no memory, the old one stays, with nothing in it.
NewElevator == queue' = <<>>

-----------------------------------------------------------------------------

\* "Iterate through the request list and add requests based on the shortest
\* seek time/distance" (sstf-iosched.c:80-82), as far as one insertion goes:
\* wherever a request is put, the head goes no farther to it from the one
\* ahead of it (from end_sector if it is first) than to the one it pushes
\* back; it was passed only over requests to which the head goes less far
\* than it would to this one; and the others keep their order.  The one
\* exception is a seek that unsigned int cannot hold: it is taken for a short
\* one, and may come before shorter ones.
NearestIsNext ==
    [][\A r \in ToSet(queue') \ Queued :
         LET k == CHOOSE i \in DOMAIN queue' : queue'[i] = r
             Start(i) == Head(bios'[queue'[i]]).sector
             Ahead(i) == IF i = 1 THEN end_sector ELSE Start(i - 1)
         IN  /\ \A i \in 1 .. k - 1 :
                   \/ Seek(Start(i), Ahead(i)) < Seek(Start(k), Ahead(i))
                   \/ Seek(Start(i), Ahead(i)) >= UintRange
             /\ k < Len(queue') =>
                   \/ Seek(Start(k), Ahead(k)) <= Seek(Start(k + 1), Ahead(k))
                   \/ Seek(Start(k), Ahead(k)) >= UintRange
             /\ RemoveAt(queue', k) = queue]_elevator
=============================================================================
