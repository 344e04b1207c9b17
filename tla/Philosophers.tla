----------------------------- MODULE Philosophers ----------------------------
(***************************************************************************)
(* The dining philosophers of Concurrency2/concurrency2.c: one thread per   *)
(* philosopher, one mutex per fork, and one mutex, print_lock, around most  *)
(* messages.  A thread that reaches a locked mutex waits; which waiter gets *)
(* a mutex when it is released is not determined.                           *)
(***************************************************************************)
EXTENDS Integers

CONSTANTS
    N,          \* NUM_PHILOSOPHERS
    None        \* the owner of a free mutex

ASSUME NAssumption == N \in Nat /\ N >= 2
ASSUME NoneAssumption == None \notin Int

Seats == 0 .. N - 1

VARIABLES
    pc,         \* the step each philosopher is at
    fork,       \* the owner of each fork's mutex
    printer     \* the owner of print_lock

vars == <<pc, fork, printer>>

\* Steps that print one message under print_lock: "done" is the end of the
\* meal, so that a philosopher eats at "eat" and at "done".
Says == {"think", "right", "left", "eat", "done", "put"}

Steps == Says \cup {"takeRight", "takeLeft", "putRight", "putLeft"}

TypeOK == /\ pc \in [Seats -> Steps]
          /\ fork \in [Seats -> Seats \cup {None}]
          /\ printer \in Seats \cup {None}

-----------------------------------------------------------------------------
(* The table                                                               *)

\* Plausible bug: the last seat takes its forks in the order of the others.
ForksAroundTable(p) == [right |-> p, left |-> (p + 1) % N]

\* The forks of a seat, right_fork and left_fork: the last seat's right fork
\* is the first, so that everyone's right fork has the lower number.
Forks(p) == IF p + 1 = N THEN [right |-> 0, left |-> p]
                         ELSE [right |-> p, left |-> p + 1]

Right(p) == Forks(p).right
Left(p) == Forks(p).left

\* Plausible bug: the left fork is never taken.
AfterSkipsFork(step) ==
    [think |-> "right", right |-> "takeRight", left |-> "eat",
     eat |-> "done", done |-> "put", put |-> "putRight"][step]

\* What follows each message: philosopher_action calls think, get_forks,
\* eat and put_forks in turn.
After(step) ==
    [think |-> "right", right |-> "takeRight", left |-> "takeLeft",
     eat |-> "done", done |-> "put", put |-> "putRight"][step]

-----------------------------------------------------------------------------
(* The threads                                                             *)

Init == /\ pc = [p \in Seats |-> "think"]
        /\ fork = [f \in Seats |-> None]
        /\ printer = None

\* pthread_mutex_lock(&print_lock)
LockPrint(p) ==
    /\ pc[p] \in Says
    /\ printer = None
    /\ printer' = p
    /\ UNCHANGED <<pc, fork>>

\* Plausible bug: print_lock is kept while the thread goes on.
SayKeepsLock(p) ==
    /\ pc[p] \in Says
    /\ printer = p
    /\ pc' = [pc EXCEPT ![p] = After(pc[p])]
    /\ printer' = IF pc[p] \in {"right", "left"} THEN p ELSE None
    /\ UNCHANGED fork

\* printf and pthread_mutex_unlock(&print_lock); then the sleep, if any.
Say(p) ==
    /\ pc[p] \in Says
    /\ printer = p
    /\ printer' = None
    /\ pc' = [pc EXCEPT ![p] = After(pc[p])]
    /\ UNCHANGED fork

TakeRight(p) ==
    /\ pc[p] = "takeRight"
    /\ fork[Right(p)] = None
    /\ fork' = [fork EXCEPT ![Right(p)] = p]
    /\ pc' = [pc EXCEPT ![p] = "left"]
    /\ UNCHANGED printer

TakeLeft(p) ==
    /\ pc[p] = "takeLeft"
    /\ fork[Left(p)] = None
    /\ fork' = [fork EXCEPT ![Left(p)] = p]
    /\ pc' = [pc EXCEPT ![p] = "eat"]
    /\ UNCHANGED printer

PutRight(p) ==
    /\ pc[p] = "putRight"
    /\ fork' = [fork EXCEPT ![Right(p)] = None]
    /\ pc' = [pc EXCEPT ![p] = "putLeft"]
    /\ UNCHANGED printer

\* Plausible bug: the right fork is put down twice, the left one never.
PutRightAgain(p) ==
    /\ pc[p] = "putLeft"
    /\ fork' = [fork EXCEPT ![Right(p)] = None]
    /\ pc' = [pc EXCEPT ![p] = "think"]
    /\ UNCHANGED printer

PutLeft(p) ==
    /\ pc[p] = "putLeft"
    /\ fork' = [fork EXCEPT ![Left(p)] = None]
    /\ pc' = [pc EXCEPT ![p] = "think"]
    /\ UNCHANGED printer

Step(p) == \/ LockPrint(p) \/ Say(p)
           \/ TakeRight(p) \/ TakeLeft(p)
           \/ PutRight(p) \/ PutLeft(p)

Next == \E p \in Seats : Step(p)

Spec == Init /\ [][Next]_vars

\* Every sleep ends and every runnable thread runs; nothing is assumed about
\* who wins a mutex.
FairSpec == Spec /\ \A p \in Seats : WF_vars(Step(p))

-----------------------------------------------------------------------------
(* Properties                                                              *)

HoldsRight(p) ==
    pc[p] \in {"left", "takeLeft", "eat", "done", "put", "putRight"}

HoldsLeft(p) == pc[p] \in {"eat", "done", "put", "putRight", "putLeft"}

Eating(p) == pc[p] \in {"eat", "done"}

ForksOf(p) == {Right(p), Left(p)}

\* No two philosophers that share a fork eat at the same time, whichever
\* order the five threads run in.
NeighboursTakeTurns ==
    \A p, q \in Seats :
        p # q /\ Eating(p) /\ Eating(q) => ForksOf(p) \cap ForksOf(q) = {}

\* A fork's mutex is locked exactly by the philosopher whose code is between
\* taking and putting it, so no thread unlocks a mutex it does not own
\* (undefined for pthread_mutex_unlock).
ForksAgree ==
    \A f, p \in Seats :
        fork[f] = p <=> \/ f = Right(p) /\ HoldsRight(p)
                        \/ f = Left(p) /\ HoldsLeft(p)

\* A thread waits for a mutex that is locked.
Blocked(p) ==
    \/ pc[p] \in Says /\ printer \notin {p, None}
    \/ pc[p] = "takeRight" /\ fork[Right(p)] # None
    \/ pc[p] = "takeLeft" /\ fork[Left(p)] # None

\* The threads never all wait for each other: the last seat takes its forks
\* in the opposite order (concurrency2.c:116-125), which breaks the circle,
\* and no thread waits for a fork with print_lock held.
NoCircularWait == \E p \in Seats : ~Blocked(p)

\* The table never stops eating, although nothing keeps one philosopher from
\* being overtaken forever.
MealsGoOn == []<>(\E p \in Seats : Eating(p))
=============================================================================
