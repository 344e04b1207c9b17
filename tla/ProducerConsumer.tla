--------------------------- MODULE ProducerConsumer --------------------------
(***************************************************************************)
(* The producers and consumers of Concurrency1/concurrency.c (the same file *)
(* as CS444_project1_46/concurrency.c): threads that add items to and       *)
(* remove items from the top of one buffer under one mutex.  A producer     *)
(* that finds the buffer full, or a consumer that finds it empty, opens the *)
(* mutex and tries again; a consumer sleeps through an item's wait_time     *)
(* with the mutex locked.                                                   *)
(*                                                                         *)
(* An item is one value: what rdrand puts into it is not told apart.        *)
(***************************************************************************)
EXTENDS Integers, Sequences

CONSTANTS
    Producers, Consumers,
    MaxBufferSize,      \* MAX_BUFFER_SIZE
    Items,              \* values of struct Data
    Nil                 \* no thread, no item

ASSUME SizeAssumption == MaxBufferSize \in Nat \ {0}
ASSUME ThreadsAssumption == Producers \cap Consumers = {}
ASSUME NilAssumption == Nil \notin Producers \cup Consumers \cup Items

Threads == Producers \cup Consumers

Slots == 0 .. MaxBufferSize - 1

VARIABLES
    buffer,
    num_items,
    mutex,      \* the owner of the mutex
    data,       \* the local variable of each thread
    pc

vars == <<buffer, num_items, mutex, data, pc>>

\* "start": about to lock.
\* "locked": about to test num_items.  "write", "read": about to access the
\* buffer.  "count": about to update num_items.  "unlock": about to unlock
\* after that.  "use": a consumer has its item to itself.
Steps == {"start", "locked", "write", "read", "count", "unlock", "use"}

TypeOK == /\ buffer \in [Slots -> Items \cup {Nil}]
          /\ num_items \in 0 .. MaxBufferSize
          /\ mutex \in Threads \cup {Nil}
          /\ data \in [Threads -> Items \cup {Nil}]
          /\ pc \in [Threads -> Steps]

Init == /\ buffer = [s \in Slots |-> Nil]
        /\ num_items = 0
        /\ mutex = Nil
        /\ data = [t \in Threads |-> Nil]
        /\ pc = [t \in Threads |-> "start"]

At(t, step) == pc[t] = step

Goto(t, step) == pc' = [pc EXCEPT ![t] = step]

-----------------------------------------------------------------------------
(* Both kinds of thread                                                    *)

\* pthread_mutex_lock
Lock(t) ==
    /\ At(t, "start")
    /\ mutex = Nil
    /\ mutex' = t
    /\ Goto(t, "locked")
    /\ UNCHANGED <<buffer, num_items, data>>

\* Plausible bug: "num_items > MAX_BUFFER_SIZE".
FullTooLate == num_items > MaxBufferSize

Full == num_items >= MaxBufferSize

Empty == num_items = 0

\* Plausible bug: the thread goes back with the mutex locked.
TurnedAwayHolding(t) ==
    /\ At(t, "locked")
    /\ IF t \in Producers THEN Full ELSE Empty
    /\ Goto(t, "start")
    /\ UNCHANGED <<buffer, num_items, mutex, data>>

\* Full for a producer, empty for a consumer: unlock and start over.
TurnedAway(t) ==
    /\ At(t, "locked")
    /\ IF t \in Producers THEN Full ELSE Empty
    /\ mutex' = Nil
    /\ Goto(t, "start")
    /\ UNCHANGED <<buffer, num_items, data>>

-----------------------------------------------------------------------------
(* Producers                                                               *)

\* Fill in data, then buffer[num_items] = data.
Generate(p, x) ==
    /\ At(p, "locked") /\ ~Full
    /\ data' = [data EXCEPT ![p] = x]
    /\ Goto(p, "write")
    /\ UNCHANGED <<buffer, num_items, mutex>>

Write(p) ==
    /\ At(p, "write")
    /\ buffer' = [buffer EXCEPT ![num_items] = data[p]]
    /\ Goto(p, "count")
    /\ UNCHANGED <<num_items, mutex, data>>

CountUp(p) ==
    /\ At(p, "count")
    /\ num_items' = num_items + 1
    /\ Goto(p, "unlock")
    /\ UNCHANGED <<buffer, mutex, data>>

\* Unlock and report the item produced, which the next one overwrites.
Produced(p) ==
    /\ At(p, "unlock")
    /\ mutex' = Nil
    /\ data' = [data EXCEPT ![p] = Nil]
    /\ Goto(p, "start")
    /\ UNCHANGED <<buffer, num_items>>

-----------------------------------------------------------------------------
(* Consumers                                                               *)

FindItem(c) ==
    /\ At(c, "locked") /\ ~Empty
    /\ Goto(c, "read")
    /\ UNCHANGED <<buffer, num_items, mutex, data>>

\* Plausible bug: the oldest item is copied, the newest one removed.
ReadBottom(c) ==
    /\ At(c, "read")
    /\ data' = [data EXCEPT ![c] = buffer[0]]
    /\ Goto(c, "count")
    /\ UNCHANGED <<buffer, num_items, mutex>>

\* data = buffer[num_items - 1]
Read(c) ==
    /\ At(c, "read")
    /\ data' = [data EXCEPT ![c] = buffer[num_items - 1]]
    /\ Goto(c, "count")
    /\ UNCHANGED <<buffer, num_items, mutex>>

\* Plausible bug: the item is copied but stays in the buffer.
CountDownForgotten(c) ==
    /\ At(c, "count")
    /\ Goto(c, "unlock")
    /\ UNCHANGED <<buffer, num_items, mutex, data>>

CountDown(c) ==
    /\ At(c, "count")
    /\ num_items' = num_items - 1
    /\ Goto(c, "unlock")
    /\ UNCHANGED <<buffer, mutex, data>>

\* The sleep with the mutex locked is over.
Unlock(c) ==
    /\ At(c, "unlock")
    /\ mutex' = Nil
    /\ Goto(c, "use")
    /\ UNCHANGED <<buffer, num_items, data>>

\* Report the item consumed.
Consumed(c) ==
    /\ At(c, "use")
    /\ data' = [data EXCEPT ![c] = Nil]
    /\ Goto(c, "start")
    /\ UNCHANGED <<buffer, num_items, mutex>>

Produce(p) == \/ \E x \in Items : Generate(p, x)
              \/ Write(p) \/ CountUp(p) \/ Produced(p)

Consume(c) == FindItem(c) \/ Read(c) \/ CountDown(c) \/ Unlock(c) \/ Consumed(c)

Next == \/ \E t \in Threads : Lock(t) \/ TurnedAway(t)
        \/ \E p \in Producers : Produce(p)
        \/ \E c \in Consumers : Consume(c)

Spec == Init /\ [][Next]_vars

\* Every runnable thread runs.  Nobody is promised the mutex, but producers
\* cannot keep all consumers from it: each sleeps at least three seconds
\* between two attempts (concurrency.c:143-144), while consumers do not.
FairSpec ==
    /\ Spec
    /\ SF_vars(\E c \in Consumers : Lock(c))
    /\ \A t \in Threads : WF_vars(TurnedAway(t))
    /\ \A p \in Producers : WF_vars(Produce(p))
    /\ \A c \in Consumers : WF_vars(Consume(c))

-----------------------------------------------------------------------------
(* Properties                                                              *)

\* The mutex is held exactly by the thread in its critical section.
Exclusive ==
    \A t \in Threads :
        mutex = t <=> pc[t] \in {"locked", "write", "read", "count", "unlock"}

\* The buffer implements the bounded stack: no item is lost, given twice or
\* made up by threads that interleave between any two statements.  An item
\* changes hands when num_items changes.
Given(c) == IF pc[c] \in {"unlock", "use"} THEN data[c] ELSE Nil

Stack == INSTANCE BoundedStack
    WITH stack <- [i \in 1 .. num_items |-> buffer[i - 1]],
         taken <- [c \in Consumers |-> Given(c)]

ImplementsStack == Stack!Spec

\* A full buffer is relieved, although the producers that find it full do
\* not block and keep coming back for the mutex.
FullIsRelieved == Full ~> ~Full
=============================================================================
