---------------------------- MODULE SharedResource ---------------------------
(***************************************************************************)
(* The shared resource of Concurrency3/prob1_conc3.c: up to three threads   *)
(* use it at a time, and once three do, newcomers must wait until all three *)
(* are done.  The semaphore "mutex" guards the counters; a thread that must *)
(* wait does so on the semaphore "blocker", and whoever posts that keeps    *)
(* the mutex closed for the thread it wakes.                                *)
(***************************************************************************)
EXTENDS Integers, FiniteSets

CONSTANTS
    Threads,
    Capacity        \* the 3 of "active == 3"

ASSUME ThreadsAssumption == IsFiniteSet(Threads)
ASSUME CapacityAssumption == Capacity \in Nat \ {0}

Semaphores == {"mutex", "blocker"}

VARIABLES
    sem,            \* the value of each semaphore
    active,         \* threads using the resource, as the code counts them
    waiting,        \* threads waiting for blocker, as the code counts them
    must_wait,
    pc

vars == <<sem, active, waiting, must_wait, pc>>

\* "arrive", "blocked", "leave": at a sem_wait, before, in and after its use
\* of the resource; "check", "woken", "left": just past that sem_wait.
Steps == {"arrive", "check", "blocked", "woken", "leave", "left"}

TypeOK == /\ sem \in [Semaphores -> Nat]
          /\ active \in Nat
          /\ waiting \in Int
          /\ must_wait \in BOOLEAN
          /\ pc \in [Threads -> Steps]

Init == /\ sem = [s \in Semaphores |-> IF s = "mutex" THEN 1 ELSE 0]
        /\ active = 0
        /\ waiting = 0
        /\ must_wait = FALSE
        /\ pc = [t \in Threads |-> "arrive"]

\* The semaphore a thread at this step waits for, and where it is then.
Awaited(step) == IF step = "blocked" THEN "blocker" ELSE "mutex"

Past(step) ==
    [arrive |-> "check", blocked |-> "woken", leave |-> "left"][step]

\* Plausible bug: a semaphore is taken whether or not it is open.
SemTake(t) ==
    /\ pc[t] \in {"arrive", "blocked", "leave"}
    /\ sem' = [sem EXCEPT ![Awaited(pc[t])] = @ - 1]
    /\ pc' = [pc EXCEPT ![t] = Past(pc[t])]
    /\ UNCHANGED <<active, waiting, must_wait>>

\* sem_wait
SemWait(t) ==
    /\ pc[t] \in {"arrive", "blocked", "leave"}
    /\ sem[Awaited(pc[t])] > 0
    /\ sem' = [sem EXCEPT ![Awaited(pc[t])] = @ - 1]
    /\ pc' = [pc EXCEPT ![t] = Past(pc[t])]
    /\ UNCHANGED <<active, waiting, must_wait>>

\* Plausible bug: the thread goes to wait with the mutex still closed.
TurnedAwayHolding(t) ==
    /\ pc[t] = "check" /\ must_wait
    /\ pc' = [pc EXCEPT ![t] = "blocked"]
    /\ UNCHANGED <<sem, active, waiting, must_wait>>

\* The resource is full or draining: open the mutex and wait.  Nothing here
\* counts the thread among those waiting.
TurnedAway(t) ==
    /\ pc[t] = "check" /\ must_wait
    /\ sem' = [sem EXCEPT !["mutex"] = @ + 1]
    /\ pc' = [pc EXCEPT ![t] = "blocked"]
    /\ UNCHANGED <<active, waiting, must_wait>>

\* Who runs next: a waiting thread, for which the mutex stays closed, or
\* anyone.
Post(w, m) == IF w > 0 /\ ~m THEN "blocker" ELSE "mutex"

\* Plausible bug: full is noticed one thread too late.
FullLate(a) == a > Capacity

Full(a) == a = Capacity

\* Plausible bug: a thread that arrives while the resource drains may enter.
MayEnterIfRoom(t) == (pc[t] = "check" /\ active < Capacity) \/ pc[t] = "woken"

MayEnter(t) == (pc[t] = "check" /\ ~must_wait) \/ pc[t] = "woken"

\* Count the thread in, as one less waiting if it was woken, and let the
\* next one run.
Enter(t) ==
    /\ MayEnter(t)
    /\ waiting' = IF pc[t] = "woken" THEN waiting - 1 ELSE waiting
    /\ active' = active + 1
    /\ must_wait' = Full(active + 1)
    /\ sem' = [sem EXCEPT ![Post(waiting', must_wait')] = @ + 1]
    /\ pc' = [pc EXCEPT ![t] = "leave"]

\* Plausible bug: the last one out does not reopen the resource.
DrainedNever(a) == FALSE

Drained(a) == a = 0

\* Count the thread out; the last one out reopens the resource.  The code
\* tests "waiting != 0" here and "waiting > 0" on entry.
Leave(t) ==
    /\ pc[t] = "left"
    /\ active' = active - 1
    /\ must_wait' = (must_wait /\ ~Drained(active - 1))
    /\ sem' = [sem EXCEPT
         ![IF waiting # 0 /\ ~must_wait' THEN "blocker" ELSE "mutex"] = @ + 1]
    /\ pc' = [pc EXCEPT ![t] = "arrive"]
    /\ UNCHANGED waiting

Step(t) == SemWait(t) \/ TurnedAway(t) \/ Enter(t) \/ Leave(t)

Next == \E t \in Threads : Step(t)

Spec == Init /\ [][Next]_vars

\* Every thread that can run does; a semaphore may favour anyone.
FairSpec == Spec /\ \A t \in Threads : WF_vars(Step(t))

-----------------------------------------------------------------------------
(* Properties                                                              *)

Users == {t \in Threads : pc[t] \in {"leave", "left"}}

Inside == {t \in Threads : pc[t] \in {"check", "woken", "left"}}

\* The resource never has more users than it allows, and "active" is right.
CapacityKept == active = Cardinality(Users) /\ active <= Capacity

\* The right to touch the counters is passed on, never duplicated or lost:
\* one thread is past a sem_wait, or else one semaphore has been posted once.
OneBaton == sem["mutex"] + sem["blocker"] + Cardinality(Inside) = 1

\* Threads are turned away only while someone uses the resource, so not all
\* of them can end up waiting.
NotAllBlocked ==
    /\ must_wait => Users # {}
    /\ Threads # {} => \E t \in Threads : pc[t] # "blocked"

\* Once the resource has been full nobody joins those still using it: they
\* all leave first.
DrainsFirst ==
    [][must_wait /\ active > 0 => active' <= active /\ (must_wait' \/ active' = 0)]_vars

\* Someone always gets to use the resource again.
UseGoesOn == []<>(Users # {})

\* "Unblock a waiting process" (:67), "Unblocking a thread" (:83): a thread
\* that waits is woken.
BlockedIsWoken == \A t \in Threads : pc[t] = "blocked" ~> pc[t] # "blocked"
=============================================================================
