------------------------- MODULE SharedResourceProofs ------------------------
(***************************************************************************)
(* Proofs about SharedResource, for any finite set of threads and any       *)
(* capacity from one.                                                       *)
(***************************************************************************)
EXTENDS SharedResource, FiniteSetTheorems, TLAPS

(***************************************************************************)
(* The inductive invariant.  Nothing counts a waiting thread, so blocker is *)
(* never posted and no thread is ever woken: only then does "must_wait is   *)
(* false" mean that there is room.                                          *)
(***************************************************************************)

NobodyWoken == /\ waiting = 0
               /\ sem["blocker"] = 0
               /\ \A t \in Threads : pc[t] # "woken"

Gate == /\ active = Capacity => must_wait
        /\ must_wait => active > 0

IInv == TypeOK /\ CapacityKept /\ OneBaton /\ NobodyWoken /\ Gate

(* The sets that are counted are finite.                                    *)
LEMMA FiniteSubsets ==
    /\ IsFiniteSet(Users) /\ Cardinality(Users) \in Nat
    /\ IsFiniteSet(Inside) /\ Cardinality(Inside) \in Nat
<1>1. Users \subseteq Threads /\ Inside \subseteq Threads
  BY DEF Users, Inside
<1> QED
  BY <1>1, ThreadsAssumption, FS_Subset, FS_CardinalityType

(* One thread more in a set of threads.                                     *)
LEMMA OneMore ==
    ASSUME NEW S, IsFiniteSet(S), NEW x, x \notin S, NEW R, R = S \cup {x}
    PROVE  Cardinality(R) = Cardinality(S) + 1
  BY FS_AddElement

(* One thread less in a set of threads.                                     *)
LEMMA OneLess ==
    ASSUME NEW S, IsFiniteSet(S), NEW x, x \in S, NEW R, R = S \ {x}
    PROVE  Cardinality(R) = Cardinality(S) - 1
  BY FS_RemoveElement

(* The invariant holds initially.                                           *)
LEMMA InitIInv == Init => IInv
<1> SUFFICES ASSUME Init
             PROVE  IInv
  OBVIOUS
<1>1. Users = {} /\ Inside = {}
  BY DEF Init, Users, Inside
<1>2. Cardinality(Users) = 0 /\ Cardinality(Inside) = 0
  BY <1>1, FS_EmptySet
<1>3. /\ sem \in [Semaphores -> Nat]
      /\ sem["mutex"] = 1 /\ sem["blocker"] = 0
  BY DEF Init, Semaphores
<1>4. TypeOK
  <2>1. pc \in [Threads -> Steps]
    BY DEF Init, Steps
  <2>2. active \in Nat /\ waiting \in Int
    BY DEF Init
  <2>3. must_wait \in BOOLEAN
    BY DEF Init
  <2> QED
    BY <1>3, <2>1, <2>2, <2>3 DEF TypeOK
<1>5. CapacityKept /\ OneBaton
  BY <1>2, <1>3, CapacityAssumption DEF Init, CapacityKept, OneBaton
<1>6. NobodyWoken /\ Gate
  BY <1>3, CapacityAssumption DEF Init, NobodyWoken, Gate
<1> QED
  BY <1>4, <1>5, <1>6 DEF IInv

(* Every step keeps the invariant.                                          *)
LEMMA NextIInv == IInv /\ [Next]_vars => IInv'
<1> SUFFICES ASSUME IInv, [Next]_vars
             PROVE  IInv'
  OBVIOUS
<1> USE CapacityAssumption
    DEF IInv, TypeOK, CapacityKept, OneBaton, NobodyWoken, Gate, Semaphores
<1>1. ASSUME NEW t \in Threads, SemWait(t)
      PROVE  IInv'
  <2>1. pc[t] \in {"arrive", "leave"} /\ Awaited(pc[t]) = "mutex"
    BY <1>1 DEF SemWait, Awaited
  <2>2. /\ sem["mutex"] > 0
        /\ sem' = [sem EXCEPT !["mutex"] = @ - 1]
        /\ pc' = [pc EXCEPT ![t] = IF pc[t] = "arrive" THEN "check" ELSE "left"]
    <3>1. Past(pc[t]) = IF pc[t] = "arrive" THEN "check" ELSE "left"
      BY <2>1 DEF Past
    <3> QED
      BY <1>1, <2>1, <3>1 DEF SemWait
  <2>3. Users' = Users
    <3>1. pc[t] \in {"leave", "left"} <=> pc'[t] \in {"leave", "left"}
      BY <2>1, <2>2
    <3>2. \A u \in Threads : u # t => pc'[u] = pc[u]
      BY <2>2
    <3> QED
      BY <3>1, <3>2 DEF Users
  <2>4. Inside' = Inside \cup {t} /\ t \notin Inside
    <3>1. t \notin Inside
      BY <2>1 DEF Inside
    <3>2. pc'[t] \in {"check", "left"}
      BY <2>1, <2>2
    <3>3. \A u \in Threads : u # t => pc'[u] = pc[u]
      BY <2>2
    <3> QED
      BY <3>1, <3>2, <3>3 DEF Inside
  <2>5. Cardinality(Inside') = Cardinality(Inside) + 1
    BY <2>4, FiniteSubsets, OneMore
  <2> QED
    BY <1>1, <2>1, <2>2, <2>3, <2>5, FiniteSubsets DEF SemWait, Steps
<1>2. ASSUME NEW t \in Threads, TurnedAway(t)
      PROVE  IInv'
  <2>1. Users' = Users
    BY <1>2 DEF TurnedAway, Users
  <2>2. Inside' = Inside \ {t} /\ t \in Inside
    BY <1>2 DEF TurnedAway, Inside
  <2>3. Cardinality(Inside') = Cardinality(Inside) - 1
    BY <2>2, FiniteSubsets, OneLess
  <2> QED
    BY <1>2, <2>1, <2>3, FiniteSubsets DEF TurnedAway, Steps
<1>3. ASSUME NEW t \in Threads, Enter(t)
      PROVE  IInv'
  <2>1. /\ pc[t] = "check" /\ ~must_wait
        /\ waiting' = waiting
        /\ sem' = [sem EXCEPT !["mutex"] = @ + 1]
    BY <1>3 DEF Enter, MayEnter, Post
  <2>2. Users' = Users \cup {t} /\ t \notin Users
    BY <1>3, <2>1 DEF Enter, Users
  <2>3. Inside' = Inside \ {t} /\ t \in Inside
    BY <1>3, <2>1 DEF Enter, Inside
  <2>4. /\ Cardinality(Users') = Cardinality(Users) + 1
        /\ Cardinality(Inside') = Cardinality(Inside) - 1
    BY <2>2, <2>3, FiniteSubsets, OneMore, OneLess
  <2>5. sem'["mutex"] = sem["mutex"] + 1 /\ sem'["blocker"] = 0
    BY <2>1
  <2>6. must_wait' <=> active' = Capacity
    BY <1>3 DEF Enter, Full
  <2>7. TypeOK'
    BY <1>3, <2>1 DEF Enter, Full, Steps
  <2>8. CapacityKept' /\ OneBaton'
    <3>1. active + 1 <= Capacity
      BY <2>1
    <3>2. active' = active + 1
      BY <1>3 DEF Enter
    <3> QED
      BY <2>4, <2>5, <3>1, <3>2, FiniteSubsets
  <2>9. NobodyWoken' /\ Gate'
    BY <1>3, <2>1, <2>5, <2>6 DEF Enter
  <2> QED
    BY <2>7, <2>8, <2>9
<1>4. ASSUME NEW t \in Threads, Leave(t)
      PROVE  IInv'
  <2>1. pc[t] = "left" /\ sem' = [sem EXCEPT !["mutex"] = @ + 1]
    BY <1>4 DEF Leave
  <2>2. Users' = Users \ {t} /\ t \in Users
    BY <1>4 DEF Leave, Users
  <2>3. Inside' = Inside \ {t} /\ t \in Inside
    BY <1>4 DEF Leave, Inside
  <2>4. /\ Cardinality(Users') = Cardinality(Users) - 1
        /\ Cardinality(Inside') = Cardinality(Inside) - 1
    BY <2>2, <2>3, FiniteSubsets, OneLess
  <2>5. active >= 1
    <3>1. Cardinality(Users) # 0
      BY <2>2, FiniteSubsets, FS_EmptySet
    <3> QED
      BY <3>1, FiniteSubsets
  <2>6. sem'["mutex"] = sem["mutex"] + 1 /\ sem'["blocker"] = 0
    BY <2>1
  <2>7. must_wait' <=> must_wait /\ active' # 0
    BY <1>4 DEF Leave, Drained
  <2>8. TypeOK'
    BY <1>4, <2>1, <2>5 DEF Leave, Drained, Steps
  <2>9. CapacityKept' /\ OneBaton'
    BY <1>4, <2>4, <2>6, FiniteSubsets DEF Leave
  <2>10. NobodyWoken' /\ Gate'
    BY <1>4, <2>5, <2>6, <2>7 DEF Leave
  <2> QED
    BY <2>8, <2>9, <2>10
<1>5. CASE UNCHANGED vars
  BY <1>5 DEF vars, Users, Inside
<1> QED
  BY <1>1, <1>2, <1>3, <1>4, <1>5 DEF Next, Step

(* The invariant holds in every behaviour.                                  *)
LEMMA IInvHolds == Spec => []IInv
  BY InitIInv, NextIInv, PTL DEF Spec

(***************************************************************************)
(* What follows from it.                                                    *)
(***************************************************************************)

(* The variables keep their types: no semaphore and no count of users falls *)
(* below zero, however threads arrive and leave.                            *)
THEOREM TypeCorrect == Spec => []TypeOK
<1>1. IInv => TypeOK
  BY DEF IInv
<1> QED
  BY <1>1, IInvHolds, PTL

(* The resource never has more users than its capacity, and "active" counts *)
(* them.                                                                    *)
THEOREM CapacityCorrect == Spec => []CapacityKept
<1>1. IInv => CapacityKept
  BY DEF IInv
<1> QED
  BY <1>1, IInvHolds, PTL

(* One thread, or one posted semaphore, carries the right to touch the      *)
(* counters.                                                                *)
THEOREM BatonCorrect == Spec => []OneBaton
<1>1. IInv => OneBaton
  BY DEF IInv
<1> QED
  BY <1>1, IInvHolds, PTL

(* A thread is turned away only while another uses the resource, so that    *)
(* some thread always has something to do.                                  *)
THEOREM SomeoneGoesOn == Spec => []NotAllBlocked
<1>1. IInv => (must_wait => Users # {})
  <2> SUFFICES ASSUME IInv, must_wait, Users = {}
               PROVE  FALSE
    OBVIOUS
  <2> QED
    BY FS_EmptySet DEF IInv, CapacityKept, Gate
<1>2. Init => NotAllBlocked
  BY DEF Init, NotAllBlocked
<1>3. IInv /\ NotAllBlocked /\ [Next]_vars /\ IInv' => NotAllBlocked'
  <2> SUFFICES ASSUME IInv, NotAllBlocked, [Next]_vars, IInv'
               PROVE  NotAllBlocked'
    OBVIOUS
  <2>1. must_wait' => Users' # {}
    <3> SUFFICES ASSUME must_wait', Users' = {}
                 PROVE  FALSE
      OBVIOUS
    <3> QED
      BY FS_EmptySet DEF IInv, CapacityKept, Gate
  <2>2. ASSUME NEW t \in Threads, TurnedAway(t)
        PROVE  \E u \in Threads : pc'[u] # "blocked"
    <3>1. PICK u \in Threads : pc[u] \in {"leave", "left"}
      BY <1>1, <2>2 DEF TurnedAway, Users
    <3> QED
      BY <2>2, <3>1 DEF TurnedAway, IInv, TypeOK
  <2>3. ASSUME NEW t \in Threads, SemWait(t) \/ Enter(t) \/ Leave(t)
        PROVE  pc'[t] # "blocked"
    BY <2>3 DEF SemWait, Enter, Leave, Past, IInv, TypeOK
  <2>4. Threads # {} => \E t \in Threads : pc'[t] # "blocked"
    BY <2>2, <2>3 DEF Next, Step, vars, NotAllBlocked
  <2> QED
    BY <2>1, <2>4 DEF NotAllBlocked
<1> QED
  BY <1>2, <1>3, IInvHolds, PTL DEF Spec

(* While the resource drains nobody joins those that still use it.          *)
THEOREM DrainsCorrect == Spec => DrainsFirst
<1>1. IInv /\ [Next]_vars =>
        [must_wait /\ active > 0 =>
            active' <= active /\ (must_wait' \/ active' = 0)]_vars
  BY DEF IInv, TypeOK, NobodyWoken, Next, Step, vars, SemWait, TurnedAway,
         Enter, MayEnter, Leave, Drained
<1> QED
  BY <1>1, IInvHolds, PTL DEF Spec, DrainsFirst
=============================================================================
