----------------------- MODULE SearchInsertDeleteProofs ----------------------
(***************************************************************************)
(* Proofs about SearchInsertDelete, for any finite sets of inserters and    *)
(* searchers, any deleters and any finite memory: a deleter works alone,    *)
(* and on a sound list, and somebody can always go on.                      *)
(***************************************************************************)
EXTENDS SearchInsertDelete, FiniteSetTheorems, TLAPS

(***************************************************************************)
(* The inductive invariant.  A group's semaphore is the group's or one      *)
(* deleter's; it is the group's as soon as one member is past the gate, and *)
(* whoever is at the gate holds the door and is the only one counted.       *)
(***************************************************************************)

MembersOf(g) == IF g = "insert" THEN Inserters ELSE Searchers

\* Those that the group's counter counts.
Counted(g) == {t \in MembersOf(g) : pc[t] # "idle"}

\* The deleter has the group's semaphore.
Has(d, g) == \/ pc[d] \in {"third", "delete"}
             \/ pc[d] = "second" /\ g = "search"

NobodyInside(g) == \A t \in MembersOf(g) : pc[t] \in {"idle", "gate"}

RoomInv(g) ==
    /\ sem[Room[g]] = 1 => NobodyInside(g) /\ \A d \in Deleters : ~Has(d, g)
    /\ \A d \in Deleters : Has(d, g) =>
          NobodyInside(g) /\ \A e \in Deleters : Has(e, g) => e = d

DoorInv(g) ==
    /\ count[g] = Cardinality(Counted(g))
    /\ \A t \in MembersOf(g) : pc[t] = "gate" => sem[Door[g]] = 0 /\ Counted(g) = {t}

Roles ==
    /\ \A t \in Members : pc[t] \notin {"second", "third", "delete"}
    /\ \A d \in Deleters : pc[d] \in {"idle", "second", "third", "delete"}

LocksType ==
    /\ sem \in [Semaphores -> 0 .. 1]
    /\ count \in [Groups -> Nat]
    /\ pc \in [Threads -> Places]

LocksInv ==
    /\ LocksType
    /\ Roles
    /\ \A g \in Groups : RoomInv(g) /\ DoorInv(g)
    /\ \A d \in Deleters : pc[d] = "delete" => sem["deleter_mut"] = 0

\* What the list and the threads' places in it hold; a thread that is about
\* to follow its iterator's link has one.
ListInv ==
    /\ head \in Nodes \cup {Nil}
    /\ next \in [Nodes -> Nodes \cup {Nil}]
    /\ allocated \subseteq Nodes
    /\ iterator \in [Threads -> Nodes \cup {Nil}]
    /\ temp \in [Threads -> Nodes \cup {Nil}]
    /\ crashed \in BOOLEAN
    /\ \A t \in Threads : pc[t] = "step" => iterator[t] \in Nodes

(***************************************************************************)
(* Names, groups and frames.                                               *)
(***************************************************************************)

(* The five semaphores are five.                                            *)
LEMMA FiveSemaphores ==
    /\ Groups = {"insert", "search"}
    /\ Room["insert"] = "inserter_mut" /\ Room["search"] = "searcher_mut"
    /\ Door["insert"] = "icounter" /\ Door["search"] = "scounter"
    /\ Semaphores = {"inserter_mut", "searcher_mut", "icounter", "scounter", "deleter_mut"}
  BY DEF Groups, Room, Door, Semaphores

(* Groups do not share semaphores, and no group uses deleter_mut.           *)
LEMMA OwnSemaphores ==
    ASSUME NEW g \in Groups
    PROVE  /\ Room[g] \in Semaphores /\ Door[g] \in Semaphores
           /\ Room[g] # "deleter_mut" /\ Door[g] # "deleter_mut"
           /\ \A h \in Groups : /\ Room[g] # Door[h]
                                /\ Room[g] = Room[h] => g = h
                                /\ Door[g] = Door[h] => g = h
  BY FiveSemaphores

(* Every member is in its group and in no other.                            *)
LEMMA OwnGroup ==
    ASSUME NEW t \in Members
    PROVE  /\ Group(t) \in Groups /\ t \in MembersOf(Group(t))
           /\ t \in Threads /\ t \notin Deleters
           /\ \A h \in Groups : h # Group(t) => t \notin MembersOf(h)
  BY ThreadsAssumption DEF Members, Group, Groups, MembersOf, Threads

(* Groups are finite sets of threads, none of them a deleter.               *)
LEMMA GroupsFinite ==
    ASSUME NEW g \in Groups
    PROVE  /\ MembersOf(g) \subseteq Members /\ IsFiniteSet(MembersOf(g))
           /\ IsFiniteSet(Counted(g)) /\ Cardinality(Counted(g)) \in Nat
<1>1. MembersOf(g) \subseteq Members /\ IsFiniteSet(MembersOf(g))
  BY ThreadsAssumption DEF MembersOf, Members
<1>2. Counted(g) \subseteq MembersOf(g)
  BY DEF Counted
<1> QED
  BY <1>1, <1>2, FS_Subset, FS_CardinalityType

(* What happens elsewhere does not disturb a group.                         *)
LEMMA OtherGroup ==
    ASSUME NEW h \in Groups, RoomInv(h), DoorInv(h),
           sem'[Room[h]] = sem[Room[h]], sem'[Door[h]] = sem[Door[h]],
           count'[h] = count[h],
           \A u \in MembersOf(h) \cup Deleters : pc'[u] = pc[u]
    PROVE  RoomInv(h)' /\ DoorInv(h)'
<1>1. Counted(h)' = Counted(h)
  BY DEF Counted
<1>2. NobodyInside(h)' <=> NobodyInside(h)
  BY DEF NobodyInside
<1>3. \A d \in Deleters : Has(d, h)' <=> Has(d, h)
  BY DEF Has
<1>4. RoomInv(h)'
  BY <1>2, <1>3 DEF RoomInv
<1> QED
  BY <1>1, <1>4 DEF DoorInv

(* One thread more, or one less, in a set of threads.                       *)
LEMMA OneMore ==
    ASSUME NEW S, IsFiniteSet(S), NEW x, x \notin S
    PROVE  Cardinality(S \cup {x}) = Cardinality(S) + 1
  BY FS_AddElement

LEMMA OneLess ==
    ASSUME NEW S, IsFiniteSet(S), NEW x, x \in S
    PROVE  Cardinality(S \ {x}) = Cardinality(S) - 1
  BY FS_RemoveElement

(***************************************************************************)
(* Members of the groups keep the semaphores right.                        *)
(***************************************************************************)

MemberPlaces == Places \ {"second", "third", "delete"}

(* A step of one member that keeps its own group's part of the invariant    *)
(* keeps all of it.                                                         *)
LEMMA MemberStep ==
    ASSUME LocksInv, NEW t \in Members, NEW p \in MemberPlaces, NEW g, g = Group(t),
           pc' = [pc EXCEPT ![t] = p],
           sem' \in [Semaphores -> 0 .. 1], count' \in [Groups -> Nat],
           \A s \in Semaphores \ {Room[g], Door[g]} : sem'[s] = sem[s],
           \A h \in Groups \ {g} : count'[h] = count[h],
           RoomInv(g)', DoorInv(g)'
    PROVE  LocksInv'
<1>1. pc \in [Threads -> Places] /\ t \in Threads /\ t \notin Deleters /\ g \in Groups
  BY OwnGroup DEF LocksInv, LocksType
<1>2. pc' \in [Threads -> Places] /\ pc'[t] = p /\ \A u \in Threads \ {t} : pc'[u] = pc[u]
  BY <1>1 DEF MemberPlaces
<1>3. Roles'
  BY <1>1, <1>2 DEF LocksInv, Roles, MemberPlaces, Threads, Members
<1>4. ASSUME NEW h \in Groups \ {g}
      PROVE  RoomInv(h)' /\ DoorInv(h)'
  <2>1. sem'[Room[h]] = sem[Room[h]] /\ sem'[Door[h]] = sem[Door[h]]
    BY <1>1, OwnSemaphores
  <2>2. t \notin MembersOf(h) /\ MembersOf(h) \subseteq Members
    BY OwnGroup, GroupsFinite
  <2>3. \A u \in MembersOf(h) \cup Deleters : pc'[u] = pc[u]
    BY <1>1, <1>2, <2>2 DEF Threads, Members
  <2> QED
    BY <2>1, <2>3, OtherGroup DEF LocksInv
<1>5. sem'["deleter_mut"] = sem["deleter_mut"]
  BY <1>1, OwnSemaphores, FiveSemaphores
<1>6. \A d \in Deleters : pc'[d] = "delete" => sem'["deleter_mut"] = 0
  BY <1>1, <1>2, <1>5 DEF LocksInv, Threads
<1> QED
  BY <1>2, <1>3, <1>4, <1>6 DEF LocksInv, LocksType

(* What the invariant says of the group of a member, and of its places      *)
(* after it has moved.                                                      *)
LEMMA MemberFacts ==
    ASSUME LocksInv, NEW t \in Members, NEW p \in MemberPlaces, NEW g, g = Group(t),
           pc' = [pc EXCEPT ![t] = p]
    PROVE  /\ g \in Groups /\ t \in MembersOf(g) /\ RoomInv(g) /\ DoorInv(g)
           /\ pc'[t] = p /\ \A u \in MembersOf(g) \ {t} : pc'[u] = pc[u]
           /\ \A d \in Deleters : Has(d, g)' <=> Has(d, g)
           /\ sem[Room[g]] \in 0 .. 1 /\ sem[Door[g]] \in 0 .. 1 /\ count[g] \in Nat
           /\ Counted(g)' = IF p = "idle" THEN Counted(g) \ {t} ELSE Counted(g) \cup {t}
<1>1. /\ pc \in [Threads -> Places] /\ t \in Threads /\ t \notin Deleters
      /\ g \in Groups /\ t \in MembersOf(g) /\ MembersOf(g) \subseteq Threads
  BY OwnGroup, GroupsFinite DEF LocksInv, LocksType, Threads, Members
<1>2. pc'[t] = p /\ \A u \in Threads \ {t} : pc'[u] = pc[u]
  BY <1>1
<1>3. \A d \in Deleters : pc'[d] = pc[d]
  BY <1>1, <1>2 DEF Threads
<1>4. \A d \in Deleters : Has(d, g)' <=> Has(d, g)
  BY <1>3 DEF Has
<1>5. Counted(g)' = IF p = "idle" THEN Counted(g) \ {t} ELSE Counted(g) \cup {t}
  BY <1>1, <1>2 DEF Counted
<1>6. sem[Room[g]] \in 0 .. 1 /\ sem[Door[g]] \in 0 .. 1 /\ count[g] \in Nat
  BY <1>1, OwnSemaphores DEF LocksInv, LocksType
<1> QED
  BY <1>1, <1>2, <1>4, <1>5, <1>6 DEF LocksInv

(* The places past the gate.                                                *)
LEMMA LookIsPastTheGate == "look" \in MemberPlaces \ {"idle", "gate"}
  BY DEF MemberPlaces, Places

(* The first of a group takes the door.                                     *)
LEMMA ArriveKeepsLocks ==
    ASSUME LocksInv, NEW t \in Members, Arrive(t)
    PROVE  LocksInv'
<1> DEFINE g == Group(t)
<1>1. /\ count[g] = 0 /\ sem[Door[g]] > 0 /\ pc[t] = "idle"
      /\ sem' = [sem EXCEPT ![Door[g]] = @ - 1]
      /\ pc' = [pc EXCEPT ![t] = "gate"]
      /\ count' = [count EXCEPT ![g] = @ + 1]
  BY DEF Arrive, IsFirst, Waits, Goes
<1>2. "gate" \in MemberPlaces
  BY DEF MemberPlaces, Places
<1> HIDE DEF g
<1>3. /\ g \in Groups /\ t \in MembersOf(g) /\ RoomInv(g) /\ DoorInv(g)
      /\ pc'[t] = "gate" /\ \A u \in MembersOf(g) \ {t} : pc'[u] = pc[u]
      /\ \A d \in Deleters : Has(d, g)' <=> Has(d, g)
      /\ sem[Room[g]] \in 0 .. 1 /\ sem[Door[g]] \in 0 .. 1 /\ count[g] \in Nat
      /\ Counted(g)' = Counted(g) \cup {t}
  BY <1>1, <1>2, MemberFacts DEF g
<1>4. sem \in [Semaphores -> 0 .. 1] /\ count \in [Groups -> Nat]
  BY DEF LocksInv, LocksType
<1>5. /\ sem' \in [Semaphores -> 0 .. 1]
      /\ \A s \in Semaphores \ {Room[g], Door[g]} : sem'[s] = sem[s]
      /\ sem'[Room[g]] = sem[Room[g]] /\ sem'[Door[g]] = 0
  BY <1>1, <1>3, <1>4, OwnSemaphores
<1>6. count' \in [Groups -> Nat] /\ count'[g] = 1 /\ \A h \in Groups \ {g} : count'[h] = count[h]
  BY <1>1, <1>3, <1>4
<1>7. Counted(g) = {}
  BY <1>1, <1>3, GroupsFinite, FS_EmptySet DEF DoorInv
<1>8. Counted(g)' = {t} /\ Cardinality({t}) = 1
  BY <1>3, <1>7, FS_Singleton
<1>9. RoomInv(g)'
  <2>1. NobodyInside(g) => NobodyInside(g)'
    BY <1>3 DEF NobodyInside
  <2> QED
    BY <1>3, <1>5, <2>1 DEF RoomInv
<1>10. DoorInv(g)'
  <2>1. \A u \in MembersOf(g) : pc'[u] = "gate" => u = t
    BY <1>1, <1>3, <1>7 DEF Counted
  <2> QED
    BY <1>5, <1>6, <1>8, <2>1 DEF DoorInv
<1> QED
  BY <1>1, <1>2, <1>5, <1>6, <1>9, <1>10, MemberStep DEF g

(* A later member joins those that have the room.                           *)
LEMMA JoinKeepsLocks ==
    ASSUME LocksInv, NEW t \in Members, Join(t)
    PROVE  LocksInv'
<1> DEFINE g == Group(t)
           p == "look"
<1>1. /\ count[g] # 0 /\ sem[Door[g]] = 1 /\ pc[t] = "idle" /\ sem' = sem
      /\ pc' = [pc EXCEPT ![t] = p]
      /\ count' = [count EXCEPT ![g] = @ + 1]
  BY DEF Join, IsFirst, Goes
<1>2. p \in MemberPlaces /\ p # "idle" /\ p # "gate"
  BY LookIsPastTheGate
<1> HIDE DEF g, p
<1>3. /\ g \in Groups /\ t \in MembersOf(g) /\ RoomInv(g) /\ DoorInv(g)
      /\ pc'[t] = p /\ \A u \in MembersOf(g) \ {t} : pc'[u] = pc[u]
      /\ \A d \in Deleters : Has(d, g)' <=> Has(d, g)
      /\ sem[Room[g]] \in 0 .. 1 /\ sem[Door[g]] \in 0 .. 1 /\ count[g] \in Nat
      /\ Counted(g)' = Counted(g) \cup {t}
  BY <1>1, <1>2, MemberFacts DEF g
<1>4. sem \in [Semaphores -> 0 .. 1] /\ count \in [Groups -> Nat]
  BY DEF LocksInv, LocksType
<1>5. /\ count' \in [Groups -> Nat] /\ count'[g] = count[g] + 1
      /\ \A h \in Groups \ {g} : count'[h] = count[h]
  BY <1>1, <1>3, <1>4
<1>6. PICK u \in MembersOf(g) : pc[u] \notin {"idle", "gate"}
  <2>1. Counted(g) # {}
    BY <1>1, <1>3, FS_EmptySet DEF DoorInv
  <2>2. \A u \in MembersOf(g) : pc[u] # "gate"
    BY <1>1, <1>3 DEF DoorInv
  <2> QED
    BY <2>1, <2>2 DEF Counted
<1>7. RoomInv(g)'
  <2>1. ~NobodyInside(g)
    BY <1>6 DEF NobodyInside
  <2>2. sem[Room[g]] # 1 /\ \A d \in Deleters : ~Has(d, g)
    BY <1>3, <2>1 DEF RoomInv
  <2> QED
    BY <1>1, <1>3, <2>2 DEF RoomInv
<1>8. DoorInv(g)'
  <2>1. t \notin Counted(g)
    BY <1>1 DEF Counted
  <2>2. count'[g] = Cardinality(Counted(g)')
    BY <1>3, <1>5, <2>1, OneMore, GroupsFinite DEF DoorInv
  <2>3. \A w \in MembersOf(g) : pc'[w] # "gate"
    BY <1>1, <1>2, <1>3 DEF DoorInv
  <2> QED
    BY <2>2, <2>3 DEF DoorInv
<1> QED
  BY <1>1, <1>2, <1>4, <1>5, <1>7, <1>8, MemberStep DEF g

(* The first of a group gets the room and opens the door.                   *)
LEMMA EnterRoomKeepsLocks ==
    ASSUME LocksInv, NEW t \in Members, EnterRoom(t)
    PROVE  LocksInv'
<1> DEFINE g == Group(t)
           p == "look"
<1>1. /\ sem[Room[g]] > 0 /\ pc[t] = "gate" /\ count' = count
      /\ pc' = [pc EXCEPT ![t] = p]
      /\ sem' = [sem EXCEPT ![Room[g]] = @ - 1, ![Door[g]] = @ + 1]
  BY DEF EnterRoom, Goes
<1>2. p \in MemberPlaces /\ p # "idle" /\ p # "gate"
  BY LookIsPastTheGate
<1> HIDE DEF g, p
<1>3. /\ g \in Groups /\ t \in MembersOf(g) /\ RoomInv(g) /\ DoorInv(g)
      /\ pc'[t] = p /\ \A u \in MembersOf(g) \ {t} : pc'[u] = pc[u]
      /\ \A d \in Deleters : Has(d, g)' <=> Has(d, g)
      /\ sem[Room[g]] \in 0 .. 1 /\ sem[Door[g]] \in 0 .. 1 /\ count[g] \in Nat
      /\ Counted(g)' = Counted(g) \cup {t}
  BY <1>1, <1>2, MemberFacts DEF g
<1>4. sem \in [Semaphores -> 0 .. 1] /\ count \in [Groups -> Nat]
  BY DEF LocksInv, LocksType
<1>5. sem[Room[g]] = 1 /\ sem[Door[g]] = 0 /\ Counted(g) = {t}
  BY <1>1, <1>3 DEF DoorInv
<1>6. /\ sem' \in [Semaphores -> 0 .. 1]
      /\ \A s \in Semaphores \ {Room[g], Door[g]} : sem'[s] = sem[s]
      /\ sem'[Room[g]] = 0 /\ sem'[Door[g]] = 1
  <2>1. Room[g] \in Semaphores /\ Door[g] \in Semaphores /\ Room[g] # Door[g]
    BY <1>3, OwnSemaphores
  <2> QED
    BY <1>1, <1>4, <1>5, <2>1
<1>7. RoomInv(g)'
  <2>1. \A d \in Deleters : ~Has(d, g)
    BY <1>3, <1>5 DEF RoomInv
  <2> QED
    BY <1>3, <1>6, <2>1 DEF RoomInv
<1>8. DoorInv(g)'
  <2>1. Counted(g)' = Counted(g)
    BY <1>3, <1>5
  <2>2. \A w \in MembersOf(g) : pc'[w] # "gate"
    BY <1>1, <1>2, <1>3, <1>5 DEF Counted
  <2> QED
    BY <1>1, <1>3, <2>1, <2>2 DEF DoorInv
<1> QED
  BY <1>1, <1>2, <1>4, <1>6, <1>7, <1>8, MemberStep DEF g

(* A member leaves; the last one gives the room back.                       *)
LEMMA LeaveKeepsLocks ==
    ASSUME LocksInv, NEW t \in Members, Leave(t)
    PROVE  LocksInv'
<1> DEFINE g == Group(t)
<1>1. /\ sem[Door[g]] = 1 /\ pc[t] = "leave"
      /\ pc' = [pc EXCEPT ![t] = "idle"]
      /\ count' = [count EXCEPT ![g] = @ - 1]
      /\ sem' = IF count[g] = 1 THEN [sem EXCEPT ![Room[g]] = @ + 1] ELSE sem
  BY DEF Leave, Goes
<1>2. "idle" \in MemberPlaces
  BY DEF MemberPlaces, Places
<1> HIDE DEF g
<1>3. /\ g \in Groups /\ t \in MembersOf(g) /\ RoomInv(g) /\ DoorInv(g)
      /\ pc'[t] = "idle" /\ \A u \in MembersOf(g) \ {t} : pc'[u] = pc[u]
      /\ \A d \in Deleters : Has(d, g)' <=> Has(d, g)
      /\ sem[Room[g]] \in 0 .. 1 /\ sem[Door[g]] \in 0 .. 1 /\ count[g] \in Nat
      /\ Counted(g)' = Counted(g) \ {t}
  BY <1>1, <1>2, MemberFacts DEF g
<1>4. sem \in [Semaphores -> 0 .. 1] /\ count \in [Groups -> Nat]
  BY DEF LocksInv, LocksType
<1>5. t \in Counted(g) /\ IsFiniteSet(Counted(g)) /\ Cardinality(Counted(g)) \in Nat
  BY <1>1, <1>3, GroupsFinite DEF Counted
<1>6. Cardinality(Counted(g)') = Cardinality(Counted(g)) - 1 /\ Cardinality(Counted(g)') \in Nat
  BY <1>3, <1>5, OneLess, FS_RemoveElement, FS_CardinalityType
<1>7. /\ count' \in [Groups -> Nat] /\ count'[g] = count[g] - 1
      /\ \A h \in Groups \ {g} : count'[h] = count[h]
  BY <1>1, <1>3, <1>4, <1>5, <1>6 DEF DoorInv
<1>8. sem[Room[g]] = 0 /\ \A d \in Deleters : ~Has(d, g)
  <2>1. ~NobodyInside(g)
    BY <1>1, <1>3 DEF NobodyInside
  <2> QED
    BY <1>3, <2>1 DEF RoomInv
<1>9. /\ sem' \in [Semaphores -> 0 .. 1]
      /\ \A s \in Semaphores \ {Room[g], Door[g]} : sem'[s] = sem[s]
      /\ sem'[Room[g]] = IF count[g] = 1 THEN 1 ELSE 0
      /\ sem'[Door[g]] = sem[Door[g]]
  <2>1. Room[g] \in Semaphores /\ Door[g] \in Semaphores /\ Room[g] # Door[g]
    BY <1>3, OwnSemaphores
  <2> QED
    BY <1>1, <1>4, <1>8, <2>1
<1>10. RoomInv(g)'
  <2>1. CASE count[g] = 1
    <3>1. Counted(g)' = {}
      <4>1. Cardinality(Counted(g)') = 0 /\ IsFiniteSet(Counted(g)')
        BY <1>3, <1>5, <1>6, <2>1, FS_RemoveElement DEF DoorInv
      <4> QED
        BY <4>1, FS_EmptySet
    <3>2. NobodyInside(g)'
      BY <3>1 DEF NobodyInside, Counted
    <3> QED
      BY <1>3, <1>8, <3>2 DEF RoomInv
  <2>2. CASE count[g] # 1
    BY <1>3, <1>8, <1>9, <2>2 DEF RoomInv
  <2> QED
    BY <2>1, <2>2
<1>11. DoorInv(g)'
  <2>1. \A w \in MembersOf(g) : pc'[w] # "gate"
    BY <1>1, <1>3 DEF DoorInv
  <2> QED
    BY <1>3, <1>6, <1>7, <2>1 DEF DoorInv
<1> QED
  BY <1>1, <1>2, <1>7, <1>9, <1>10, <1>11, MemberStep DEF g

(* A member past the gate that stays past it changes nothing of this.       *)
LEMMA BodyKeepsLocks ==
    ASSUME LocksInv, NEW t \in Members, pc[t] \notin {"idle", "gate"},
           NEW p \in MemberPlaces \ {"idle", "gate"},
           pc' = [pc EXCEPT ![t] = p], sem' = sem, count' = count
    PROVE  LocksInv'
<1> DEFINE g == Group(t)
<1> HIDE DEF g
<1>1. /\ g \in Groups /\ t \in MembersOf(g) /\ RoomInv(g) /\ DoorInv(g)
      /\ pc'[t] = p /\ \A u \in MembersOf(g) \ {t} : pc'[u] = pc[u]
      /\ \A d \in Deleters : Has(d, g)' <=> Has(d, g)
      /\ Counted(g)' = Counted(g) \cup {t}
  BY MemberFacts DEF g
<1>2. sem' \in [Semaphores -> 0 .. 1] /\ count' \in [Groups -> Nat]
  BY DEF LocksInv, LocksType
<1>3. Counted(g)' = Counted(g)
  BY <1>1 DEF Counted
<1>4. RoomInv(g)'
  <2>1. ~NobodyInside(g)
    BY <1>1 DEF NobodyInside
  <2> QED
    BY <1>1, <2>1 DEF RoomInv
<1>5. DoorInv(g)'
  BY <1>1, <1>3 DEF DoorInv
<1> QED
  BY <1>2, <1>4, <1>5, MemberStep DEF g

(***************************************************************************)
(* Deleters keep the semaphores right.                                     *)
(***************************************************************************)

DeleterPlaces == {"idle", "second", "third", "delete"}

(* A deleter's step moves nobody else and opens or shuts no door.           *)
LEMMA DeleterFacts ==
    ASSUME LocksInv, NEW d \in Deleters, NEW p \in DeleterPlaces,
           pc' = [pc EXCEPT ![d] = p]
    PROVE  /\ pc' \in [Threads -> Places] /\ Roles'
           /\ pc'[d] = p /\ \A e \in Deleters \ {d} : pc'[e] = pc[e]
           /\ \A g \in Groups :
                 /\ Counted(g)' = Counted(g) /\ (NobodyInside(g)' <=> NobodyInside(g))
                 /\ \A u \in MembersOf(g) : pc'[u] = pc[u]
                 /\ \A e \in Deleters \ {d} : Has(e, g)' <=> Has(e, g)
<1>1. pc \in [Threads -> Places] /\ Roles /\ d \in Threads /\ d \notin Members
  BY ThreadsAssumption DEF LocksInv, LocksType, Threads, Members
<1>2. pc'[d] = p /\ \A u \in Threads \ {d} : pc'[u] = pc[u]
  BY <1>1
<1>3. pc' \in [Threads -> Places]
  BY <1>1 DEF DeleterPlaces, Places
<1>4. Roles'
  BY <1>1, <1>2 DEF Roles, DeleterPlaces, Threads, Members
<1>5. \A e \in Deleters \ {d} : pc'[e] = pc[e]
  BY <1>2 DEF Threads
<1>6. ASSUME NEW g \in Groups
      PROVE  /\ Counted(g)' = Counted(g) /\ (NobodyInside(g)' <=> NobodyInside(g))
             /\ \A u \in MembersOf(g) : pc'[u] = pc[u]
             /\ \A e \in Deleters \ {d} : Has(e, g)' <=> Has(e, g)
  <2>1. \A u \in MembersOf(g) : pc'[u] = pc[u]
    BY <1>1, <1>2, GroupsFinite DEF Threads, Members
  <2>2. Counted(g)' = Counted(g)
    BY <2>1 DEF Counted
  <2>3. NobodyInside(g)' <=> NobodyInside(g)
    BY <2>1 DEF NobodyInside
  <2>4. \A e \in Deleters \ {d} : Has(e, g)' <=> Has(e, g)
    BY <1>5 DEF Has
  <2> QED
    BY <2>1, <2>2, <2>3, <2>4
<1> QED
  BY <1>2, <1>3, <1>4, <1>5, <1>6

(* What is left to show of a deleter's step.                                *)
LEMMA DeleterStep ==
    ASSUME LocksInv, NEW d \in Deleters, NEW p \in DeleterPlaces,
           pc' = [pc EXCEPT ![d] = p], count' = count,
           sem' \in [Semaphores -> 0 .. 1],
           \A g \in Groups : sem'[Door[g]] = sem[Door[g]] /\ RoomInv(g)',
           \A e \in Deleters : pc'[e] = "delete" => sem'["deleter_mut"] = 0
    PROVE  LocksInv'
<1>1. pc' \in [Threads -> Places] /\ Roles'
  BY DeleterFacts
<1>2. ASSUME NEW g \in Groups
      PROVE  DoorInv(g)'
  <2>1. Counted(g)' = Counted(g) /\ \A u \in MembersOf(g) : pc'[u] = pc[u]
    BY DeleterFacts
  <2> QED
    BY <2>1 DEF DoorInv, LocksInv
<1> QED
  BY <1>1, <1>2 DEF LocksInv, LocksType

(* Taking the three semaphores, one after the other.                        *)
LEMMA TakeThreeKeepsLocks ==
    ASSUME LocksInv, NEW d \in Deleters, TakeThree(d)
    PROVE  LocksInv'
<1>0. /\ sem \in [Semaphores -> 0 .. 1] /\ Groups = {"insert", "search"}
      /\ RoomInv("insert") /\ RoomInv("search")
  BY FiveSemaphores DEF LocksInv, LocksType
<1>1. CASE DeleteWaits(d, "searcher_mut", "idle", "second")
  <2>1. /\ pc[d] = "idle" /\ pc' = [pc EXCEPT ![d] = "second"] /\ "second" \in DeleterPlaces
        /\ sem["searcher_mut"] > 0 /\ sem' = [sem EXCEPT !["searcher_mut"] = @ - 1]
        /\ count' = count
    BY <1>1 DEF DeleteWaits, Waits, Goes, DeleterPlaces
  <2>2. /\ sem["searcher_mut"] = 1 /\ sem' \in [Semaphores -> 0 .. 1] /\ sem'["searcher_mut"] = 0
        /\ \A s \in Semaphores \ {"searcher_mut"} : sem'[s] = sem[s]
    BY <1>0, <2>1, FiveSemaphores
  <2>3. pc'[d] = "second" /\ \A e \in Deleters \ {d} : pc'[e] = pc[e]
    BY <2>1, DeleterFacts
  <2>4. RoomInv("search")'
    <3>1. NobodyInside("search") /\ \A e \in Deleters : ~Has(e, "search")
      BY <1>0, <2>2, FiveSemaphores DEF RoomInv
    <3>2. NobodyInside("search")' /\ \A e \in Deleters \ {d} : ~Has(e, "search")'
      BY <1>0, <2>1, <3>1, DeleterFacts
    <3> QED
      BY <2>2, <3>2, FiveSemaphores DEF RoomInv
  <2>5. RoomInv("insert")'
    <3>1. ~Has(d, "insert") /\ ~Has(d, "insert")'
      BY <2>1, <2>3 DEF Has
    <3>2. NobodyInside("insert")' <=> NobodyInside("insert")
      BY <1>0, <2>1, DeleterFacts
    <3>3. \A e \in Deleters : Has(e, "insert")' <=> Has(e, "insert")
      BY <1>0, <2>1, <3>1, DeleterFacts
    <3> QED
      BY <1>0, <2>2, <3>2, <3>3, FiveSemaphores DEF RoomInv
  <2>6. \A e \in Deleters : pc'[e] = "delete" => sem'["deleter_mut"] = 0
    BY <2>2, <2>3, FiveSemaphores DEF LocksInv
  <2>7. \A g \in Groups : sem'[Door[g]] = sem[Door[g]] /\ RoomInv(g)'
    BY <1>0, <2>2, <2>4, <2>5, FiveSemaphores
  <2> QED
    BY <2>1, <2>2, <2>6, <2>7, DeleterStep
<1>2. CASE DeleteWaits(d, "inserter_mut", "second", "third")
  <2>1. /\ pc[d] = "second" /\ pc' = [pc EXCEPT ![d] = "third"] /\ "third" \in DeleterPlaces
        /\ sem["inserter_mut"] > 0 /\ sem' = [sem EXCEPT !["inserter_mut"] = @ - 1]
        /\ count' = count
    BY <1>2 DEF DeleteWaits, Waits, Goes, DeleterPlaces
  <2>2. /\ sem["inserter_mut"] = 1 /\ sem' \in [Semaphores -> 0 .. 1] /\ sem'["inserter_mut"] = 0
        /\ \A s \in Semaphores \ {"inserter_mut"} : sem'[s] = sem[s]
    BY <1>0, <2>1, FiveSemaphores
  <2>3. pc'[d] = "third" /\ \A e \in Deleters \ {d} : pc'[e] = pc[e]
    BY <2>1, DeleterFacts
  <2>4. RoomInv("insert")'
    <3>1. NobodyInside("insert") /\ \A e \in Deleters : ~Has(e, "insert")
      BY <1>0, <2>2, FiveSemaphores DEF RoomInv
    <3>2. NobodyInside("insert")' /\ \A e \in Deleters \ {d} : ~Has(e, "insert")'
      BY <1>0, <2>1, <3>1, DeleterFacts
    <3> QED
      BY <2>2, <3>2, FiveSemaphores DEF RoomInv
  <2>5. RoomInv("search")'
    <3>1. Has(d, "search") /\ Has(d, "search")'
      BY <2>1, <2>3 DEF Has
    <3>2. NobodyInside("search")' <=> NobodyInside("search")
      BY <1>0, <2>1, DeleterFacts
    <3>3. \A e \in Deleters : Has(e, "search")' <=> Has(e, "search")
      BY <1>0, <2>1, <3>1, DeleterFacts
    <3> QED
      BY <1>0, <2>2, <3>2, <3>3, FiveSemaphores DEF RoomInv
  <2>6. \A e \in Deleters : pc'[e] = "delete" => sem'["deleter_mut"] = 0
    BY <2>2, <2>3, FiveSemaphores DEF LocksInv
  <2>7. \A g \in Groups : sem'[Door[g]] = sem[Door[g]] /\ RoomInv(g)'
    BY <1>0, <2>2, <2>4, <2>5, FiveSemaphores
  <2> QED
    BY <2>1, <2>2, <2>6, <2>7, DeleterStep
<1>3. CASE DeleteWaits(d, "deleter_mut", "third", "delete")
  <2>1. /\ pc[d] = "third" /\ pc' = [pc EXCEPT ![d] = "delete"] /\ "delete" \in DeleterPlaces
        /\ sem["deleter_mut"] > 0 /\ sem' = [sem EXCEPT !["deleter_mut"] = @ - 1]
        /\ count' = count
    BY <1>3 DEF DeleteWaits, Waits, Goes, DeleterPlaces
  <2>2. /\ sem' \in [Semaphores -> 0 .. 1] /\ sem'["deleter_mut"] = 0
        /\ \A s \in Semaphores \ {"deleter_mut"} : sem'[s] = sem[s]
    BY <1>0, <2>1, FiveSemaphores
  <2>3. pc'[d] = "delete"
    BY <2>1, DeleterFacts
  <2>4. ASSUME NEW g \in Groups
        PROVE  RoomInv(g)'
    <3>1. Has(d, g) /\ Has(d, g)'
      BY <2>1, <2>3 DEF Has
    <3>2. NobodyInside(g)' <=> NobodyInside(g)
      BY <2>1, DeleterFacts
    <3>3. \A e \in Deleters : Has(e, g)' <=> Has(e, g)
      BY <2>1, <3>1, DeleterFacts
    <3>4. RoomInv(g) /\ sem'[Room[g]] = sem[Room[g]]
      BY <2>2, OwnSemaphores DEF LocksInv
    <3> QED
      BY <3>2, <3>3, <3>4 DEF RoomInv
  <2>5. \A g \in Groups : sem'[Door[g]] = sem[Door[g]]
    BY <2>2, OwnSemaphores
  <2> QED
    BY <2>1, <2>2, <2>4, <2>5, DeleterStep
<1> QED
  BY <1>1, <1>2, <1>3 DEF TakeThree

(* Posting the three semaphores.                                            *)
LEMMA PostThreeKeepsLocks ==
    ASSUME LocksInv, NEW d \in Deleters, PostThree(d)
    PROVE  LocksInv'
<1>1. /\ pc[d] = "delete" /\ pc' = [pc EXCEPT ![d] = "idle"] /\ "idle" \in DeleterPlaces
      /\ sem' = [sem EXCEPT !["searcher_mut"] = @ + 1, !["inserter_mut"] = @ + 1,
                            !["deleter_mut"] = @ + 1]
      /\ count' = count
  BY DEF PostThree, Goes, DeleterPlaces
<1>2. /\ sem \in [Semaphores -> 0 .. 1] /\ Groups = {"insert", "search"}
      /\ RoomInv("insert") /\ RoomInv("search")
  BY FiveSemaphores DEF LocksInv, LocksType
<1>3. ASSUME NEW g \in Groups
      PROVE  /\ NobodyInside(g) /\ sem[Room[g]] = 0
             /\ \A e \in Deleters \ {d} : ~Has(e, g)
  <2>1. Has(d, g) /\ RoomInv(g) /\ sem[Room[g]] \in 0 .. 1
    BY <1>1, <1>2, OwnSemaphores DEF Has, LocksInv
  <2> QED
    BY <2>1 DEF RoomInv
<1>4. sem["inserter_mut"] = 0 /\ sem["searcher_mut"] = 0 /\ sem["deleter_mut"] = 0
  BY <1>1, <1>2, <1>3, FiveSemaphores DEF LocksInv
<1>5. /\ sem' \in [Semaphores -> 0 .. 1]
      /\ sem'["icounter"] = sem["icounter"] /\ sem'["scounter"] = sem["scounter"]
  BY <1>1, <1>2, <1>4, FiveSemaphores
<1>6. pc'[d] = "idle" /\ \A e \in Deleters \ {d} : pc'[e] = pc[e]
  BY <1>1, DeleterFacts
<1>7. ASSUME NEW g \in Groups
      PROVE  RoomInv(g)'
  <2>1. NobodyInside(g)'
    BY <1>1, <1>3, DeleterFacts
  <2>2. \A e \in Deleters \ {d} : ~Has(e, g)'
    BY <1>1, <1>3, DeleterFacts
  <2>3. ~Has(d, g)'
    BY <1>6 DEF Has
  <2> QED
    BY <2>1, <2>2, <2>3 DEF RoomInv
<1>8. \A e \in Deleters : pc'[e] = "delete" => sem'["deleter_mut"] = 0
  BY <1>2, <1>3, <1>6 DEF Has
<1>9. \A g \in Groups : sem'[Door[g]] = sem[Door[g]]
  BY <1>2, <1>5, FiveSemaphores
<1> QED
  BY <1>1, <1>5, <1>7, <1>8, <1>9, DeleterStep

(***************************************************************************)
(* The locks' part of the invariant.                                       *)
(***************************************************************************)

(* It holds initially.                                                      *)
LEMMA InitLocks == Init => LocksInv
<1> SUFFICES ASSUME Init
             PROVE  LocksInv
  OBVIOUS
<1>1. \A t \in Threads : pc[t] = "idle"
  BY DEF Init
<1>2. LocksType
  <2>1. pc \in [Threads -> Places]
    BY DEF Init, Places
  <2> QED
    BY <2>1 DEF Init, LocksType
<1>3. Roles
  BY <1>1 DEF Roles, Members, Threads
<1>4. ASSUME NEW g \in Groups
      PROVE  RoomInv(g) /\ DoorInv(g)
  <2>1. MembersOf(g) \subseteq Threads /\ Deleters \subseteq Threads
    BY GroupsFinite DEF Threads, Members
  <2>2. Counted(g) = {} /\ Cardinality({}) = 0
    BY <1>1, <2>1, FS_EmptySet DEF Counted
  <2>3. count[g] = 0
    BY DEF Init
  <2>4. NobodyInside(g) /\ \A d \in Deleters : ~Has(d, g)
    BY <1>1, <2>1 DEF NobodyInside, Has
  <2> QED
    BY <1>1, <2>1, <2>2, <2>3, <2>4 DEF RoomInv, DoorInv
<1> QED
  BY <1>1, <1>2, <1>3, <1>4 DEF LocksInv, Threads

(* Every step of insert's and search's bodies keeps it.                     *)
LEMMA BodiesKeepLocks ==
    ASSUME LocksInv, NEW t \in Members, Insert(t) \/ Search(t)
    PROVE  LocksInv'
<1> DEFINE Past == MemberPlaces \ {"idle", "gate"}
<1>1. CASE \E from \in Past, to \in Past :
             Goes(t, from, to) /\ sem' = sem /\ count' = count
  <2>1. PICK from \in Past, to \in Past :
              Goes(t, from, to) /\ sem' = sem /\ count' = count
    BY <1>1
  <2>2. pc[t] \notin {"idle", "gate"} /\ pc' = [pc EXCEPT ![t] = to]
    BY <2>1 DEF Goes
  <2> QED
    BY <2>1, <2>2, BodyKeepsLocks
<1>2. CASE pc' = pc /\ sem' = sem /\ count' = count
  <2>1. Counted("insert")' = Counted("insert") /\ Counted("search")' = Counted("search")
    BY <1>2 DEF Counted
  <2> QED
    BY <1>2, <2>1 DEF LocksInv, LocksType, Roles, RoomInv, DoorInv, NobodyInside, Has, Counted
<1>3. {"look", "publish", "clear", "test", "step", "link", "search", "leave"} \subseteq Past
  BY DEF MemberPlaces, Places
<1>4. CASE LookAtHead(t)
  <2>1. PICK to \in {"publish", "test"} : Goes(t, "look", to)
    BY <1>4 DEF LookAtHead
  <2> QED
    BY <1>1, <1>3, <1>4, <2>1 DEF LookAtHead
<1>5. CASE Publish(t)
  BY <1>1, <1>3, <1>5 DEF Publish
<1>6. CASE ClearHead(t)
  BY <1>1, <1>3, <1>6 DEF ClearHead
<1>7. CASE AtLastNode(t)
  BY <1>1, <1>3, <1>7 DEF AtLastNode
<1>8. CASE NotLastNode(t)
  BY <1>1, <1>3, <1>8 DEF NotLastNode
<1>9. CASE NextNode(t)
  BY <1>1, <1>3, <1>9 DEF NextNode
<1>10. CASE Crash(t)
  BY <1>2, <1>10 DEF Crash
<1>11. CASE LinkNode(t)
  BY <1>1, <1>3, <1>11 DEF LinkNode
<1>12. CASE FirstNode(t)
  BY <1>1, <1>3, <1>12 DEF FirstNode
<1>13. CASE SearchEnds(t)
  BY <1>1, <1>3, <1>13 DEF SearchEnds
<1>14. CASE SearchGoesOn(t)
  BY <1>2, <1>14 DEF SearchGoesOn
<1> QED
  BY <1>4, <1>5, <1>6, <1>7, <1>8, <1>9, <1>10, <1>11, <1>12, <1>13, <1>14
     DEF Insert, Search

(* Every step keeps it.                                                     *)
LEMMA NextLocks == LocksInv /\ [Next]_vars => LocksInv'
<1> SUFFICES ASSUME LocksInv, [Next]_vars
             PROVE  LocksInv'
  OBVIOUS
<1>1. CASE UNCHANGED vars
  BY <1>1 DEF vars, LocksInv, LocksType, Roles, RoomInv, DoorInv, NobodyInside, Has, Counted
<1>2. ASSUME NEW t \in Members, Arrive(t) \/ Join(t) \/ EnterRoom(t) \/ Leave(t)
      PROVE  LocksInv'
  BY <1>2, ArriveKeepsLocks, JoinKeepsLocks, EnterRoomKeepsLocks, LeaveKeepsLocks
<1>3. ASSUME NEW t \in Members, Insert(t) \/ Search(t)
      PROVE  LocksInv'
  BY <1>3, BodiesKeepLocks
<1>4. ASSUME NEW d \in Deleters, Delete(d)
      PROVE  LocksInv'
  <2>1. CASE TakeThree(d)
    BY <2>1, TakeThreeKeepsLocks
  <2>2. CASE DeleteNothing(d)
    BY <2>2, PostThreeKeepsLocks DEF DeleteNothing
  <2>3. CASE \E n \in Nodes : DeleteNode(d, n)
    BY <2>3, PostThreeKeepsLocks DEF DeleteNode
  <2> QED
    BY <1>4, <2>1, <2>2, <2>3 DEF Delete
<1>5. CASE \E t \in Threads : Step(t)
  BY <1>2, <1>3, <1>4, <1>5 DEF Step, Members
<1> QED
  BY <1>1, <1>5 DEF Next

(* The semaphores, the counters and who is where agree at all times.        *)
LEMMA LocksCorrect == Spec => []LocksInv
  BY InitLocks, NextLocks, PTL DEF Spec

(* A deleter at work has the list to itself, for any numbers of inserters,  *)
(* searchers and deleters and any memory: insert, search and delete of      *)
(* prob2_conc3.c pass their semaphores on correctly.                        *)
THEOREM AloneCorrect == Spec => []DeleterAlone
<1>1. ASSUME LocksInv, NEW d \in Deleters, pc[d] = "delete", NEW t \in Threads \ {d}
      PROVE  pc[t] \in {"idle", "gate", "second", "third"}
  <2>1. \A g \in Groups : RoomInv(g) /\ Has(d, g)
    BY <1>1 DEF LocksInv, Has
  <2>2. CASE t \in Members
    <3>1. Group(t) \in Groups /\ t \in MembersOf(Group(t))
      BY <2>2, OwnGroup
    <3> QED
      BY <2>1, <3>1 DEF RoomInv, NobodyInside
  <2>3. CASE t \in Deleters
    <3>1. ~Has(t, "search")
      BY <1>1, <2>1, <2>3, FiveSemaphores DEF RoomInv
    <3> QED
      BY <1>1, <2>3, <3>1 DEF Has, LocksInv, Roles
  <2> QED
    BY <2>2, <2>3 DEF Threads, Members
<1>2. LocksInv => DeleterAlone
  BY <1>1 DEF DeleterAlone
<1> QED
  BY <1>2, LocksCorrect, PTL

(***************************************************************************)
(* Types.                                                                  *)
(***************************************************************************)

(* What the list and the iterators hold keeps its type.                     *)
LEMMA NextList == LocksInv /\ ListInv /\ [Next]_vars => ListInv'
<1> SUFFICES ASSUME LocksInv, ListInv, [Next]_vars
             PROVE  ListInv'
  OBVIOUS
<1> USE NilAssumption DEF ListInv
<1>1. pc \in [Threads -> Places]
  BY DEF LocksInv, LocksType
<1>2. ASSUME NEW t \in Threads, NEW to, to # "step", pc' = [pc EXCEPT ![t] = to]
      PROVE  \A u \in Threads : pc'[u] = "step" => pc[u] = "step" /\ u # t
  BY <1>1, <1>2
<1>3. CASE UNCHANGED vars
  BY <1>3 DEF vars, list, locals
<1>4. ASSUME NEW t \in Threads, Arrive(t) \/ Join(t) \/ EnterRoom(t) \/ Leave(t)
      PROVE  ListInv'
  <2>1. PICK to : to # "step" /\ pc' = [pc EXCEPT ![t] = to]
    BY <1>4 DEF Arrive, Join, EnterRoom, Leave, Goes
  <2>2. \A u \in Threads : pc'[u] = "step" => pc[u] = "step" /\ u # t
    BY <1>2, <2>1
  <2>3. UNCHANGED list /\ \E i, k \in Nodes \cup {Nil} :
          /\ iterator' = iterator \/ iterator' = [iterator EXCEPT ![t] = i]
          /\ temp' = temp \/ temp' = [temp EXCEPT ![t] = k]
    BY <1>4 DEF Arrive, Join, EnterRoom, Leave, list, locals
  <2> QED
    BY <2>2, <2>3 DEF list
<1>5. ASSUME NEW t \in Threads, Insert(t)
      PROVE  ListInv'
  <2>1. CASE LookAtHead(t)
    <3>1. PICK to : to # "step" /\ pc' = [pc EXCEPT ![t] = to]
      BY <2>1 DEF LookAtHead, Goes
    <3> QED
      BY <1>2, <2>1, <3>1 DEF LookAtHead, list
  <2>2. CASE Publish(t)
    <3>1. pc' = [pc EXCEPT ![t] = "clear"]
      BY <2>2 DEF Publish, Goes
    <3>2. PICK n \in Nodes, link \in Nodes \cup {Nil} :
            head' = n /\ allocated' = allocated \cup {n} /\ next' = [next EXCEPT ![n] = link]
      BY <2>2 DEF Publish
    <3> QED
      BY <1>2, <2>2, <3>1, <3>2 DEF Publish, locals
  <2>3. CASE ClearHead(t)
    <3>1. pc' = [pc EXCEPT ![t] = "leave"]
      BY <2>3 DEF ClearHead, Goes
    <3> QED
      BY <1>2, <2>3, <3>1 DEF ClearHead, locals
  <2>4. CASE AtLastNode(t)
    <3>1. pc' = [pc EXCEPT ![t] = "link"]
      BY <2>4 DEF AtLastNode, Goes
    <3>2. PICK n \in Nodes :
            /\ allocated' = allocated \cup {n} /\ temp' = [temp EXCEPT ![t] = n]
            /\ next' = [next EXCEPT ![n] = Nil]
      BY <2>4 DEF AtLastNode
    <3> QED
      BY <1>2, <2>4, <3>1, <3>2 DEF AtLastNode
  <2>5. CASE NotLastNode(t)
    <3>1. pc' = [pc EXCEPT ![t] = "step"] /\ iterator[t] \in Nodes
      BY <2>5 DEF NotLastNode, Goes
    <3> QED
      BY <1>1, <2>5, <3>1 DEF NotLastNode, list, locals
  <2>6. CASE NextNode(t)
    <3>1. pc' = [pc EXCEPT ![t] = "test"] /\ pc[t] = "step"
      BY <2>6 DEF NextNode, Goes
    <3>2. next[iterator[t]] \in Nodes \cup {Nil}
      BY <3>1
    <3> QED
      BY <1>2, <2>6, <3>1, <3>2 DEF NextNode, list
  <2>7. CASE Crash(t)
    BY <2>7 DEF Crash, locals
  <2>8. CASE LinkNode(t)
    <3>1. pc' = [pc EXCEPT ![t] = "leave"]
      BY <2>8 DEF LinkNode, Goes
    <3> QED
      BY <1>2, <2>8, <3>1 DEF LinkNode, locals
  <2> QED
    BY <1>5, <2>1, <2>2, <2>3, <2>4, <2>5, <2>6, <2>7, <2>8 DEF Insert
<1>6. ASSUME NEW t \in Threads, Search(t)
      PROVE  ListInv'
  <2>1. CASE SearchEnds(t)
    <3>1. pc' = [pc EXCEPT ![t] = "leave"]
      BY <2>1 DEF SearchEnds, Goes
    <3> QED
      BY <1>2, <2>1, <3>1 DEF SearchEnds, list, locals
  <2>2. CASE SearchGoesOn(t)
    <3>1. next[iterator[t]] \in Nodes \cup {Nil}
      BY <2>2 DEF SearchGoesOn
    <3> QED
      BY <2>2, <3>1 DEF SearchGoesOn, list
  <2>3. CASE FirstNode(t)
    <3>1. pc' = [pc EXCEPT ![t] = "search"]
      BY <2>3 DEF FirstNode, Goes
    <3> QED
      BY <1>2, <2>3, <3>1 DEF FirstNode, list
  <2> QED
    BY <1>6, <2>1, <2>2, <2>3 DEF Search
<1>7. ASSUME NEW t \in Threads, Delete(t)
      PROVE  ListInv'
  <2>1. CASE TakeThree(t)
    <3>1. PICK to : to # "step" /\ pc' = [pc EXCEPT ![t] = to]
      BY <2>1 DEF TakeThree, DeleteWaits, Goes
    <3>2. UNCHANGED <<list, locals>>
      BY <2>1 DEF TakeThree, DeleteWaits
    <3> QED
      BY <1>2, <3>1, <3>2 DEF list, locals
  <2>2. CASE PostThree(t)
    <3>1. pc' = [pc EXCEPT ![t] = "idle"] /\ UNCHANGED locals
      BY <2>2 DEF PostThree, Goes
    <3>2. CASE UNCHANGED list
      BY <1>2, <3>1, <3>2 DEF list, locals
    <3>3. CASE \E n \in Nodes : DeleteNode(t, n)
      <4>1. PICK n \in Nodes : DeleteNode(t, n)
        BY <3>3
      <4>2. head' \in Nodes \cup {Nil} /\ allocated' \subseteq Nodes /\ crashed' = crashed
        BY <4>1 DEF DeleteNode
      <4>3. next' \in [Nodes -> Nodes \cup {Nil}]
        BY <4>1 DEF DeleteNode
      <4> QED
        BY <1>2, <3>1, <4>2, <4>3 DEF locals
    <3> QED
      BY <1>7, <2>2, <3>2, <3>3 DEF Delete, DeleteNothing, TakeThree, DeleteWaits, PostThree, Goes
  <2> QED
    BY <1>7, <2>1, <2>2 DEF Delete, DeleteNothing, DeleteNode
<1>8. CASE \E t \in Threads : Step(t)
  BY <1>4, <1>5, <1>6, <1>7, <1>8 DEF Step
<1> QED
  BY <1>3, <1>8 DEF Next

(* The variables keep their types: no semaphore of prob2_conc3.c is ever    *)
(* posted beyond one, no counter falls below zero, and no thread follows a  *)
(* link from nowhere without the program ending.                            *)
THEOREM TypeCorrect == Spec => []TypeOK
<1>1. Init => ListInv
  <2> SUFFICES ASSUME Init
               PROVE  ListInv
    OBVIOUS
  <2>1. \A t \in Threads : pc[t] # "step"
    BY DEF Init
  <2> QED
    BY <2>1 DEF Init, ListInv
<1>2. LocksInv /\ ListInv => TypeOK
  BY DEF LocksInv, LocksType, ListInv, TypeOK
<1>3. Spec => [](LocksInv /\ ListInv)
  BY <1>1, InitLocks, NextLocks, NextList, PTL DEF Spec
<1> QED
  BY <1>2, <1>3, PTL

(***************************************************************************)
(* The list.  Inserters may follow a link that memory held before, lose     *)
(* each other's nodes and link nodes to freed memory; what keeps the list   *)
(* sound is that every node is linked once, by the inserter that allocated  *)
(* it, and that the link of a new head is cleared after it is published.     *)
(***************************************************************************)

\* A head is published whose link is not cleared yet.
Published == \E t \in Inserters : pc[t] = "clear"

\* A set of allocated nodes that no link leaves and in which no two links
\* lead to the same node; none leads to the head or to a node that is not
\* linked yet.  The head is one of them once its link is cleared.
Linked(D) ==
    /\ D \subseteq allocated
    /\ \A m \in D : next[m] # Nil => next[m] \in D
    /\ \A m, n \in D : next[m] # Nil /\ next[m] = next[n] => m = n
    /\ head # Nil => head \in allocated /\ \A m \in D : next[m] # head
    /\ head # Nil /\ ~Published => head \in D
    /\ Published => head # Nil
    /\ \A t \in Inserters : pc[t] = "link" =>
          /\ temp[t] \in D /\ temp[t] # head
          /\ \A m \in D : next[m] # temp[t]
          /\ \A u \in Inserters \ {t} : pc[u] = "link" => temp[u] # temp[t]

LinkedInv == \E D \in SUBSET Nodes : Linked(D)

(* A step that changes neither the list nor the nodes that are about to be   *)
(* linked keeps it.                                                         *)
LEMMA LinkedFrame ==
    ASSUME NEW D, Linked(D), UNCHANGED <<head, next, allocated>>,
           \A u \in Inserters : /\ pc'[u] = "clear" <=> pc[u] = "clear"
                                /\ pc'[u] = "link" => pc[u] = "link" /\ temp'[u] = temp[u]
    PROVE  Linked(D)'
<1>1. Published' <=> Published
  BY DEF Published
<1> QED
  BY <1>1 DEF Linked

(* The new head is none of the nodes so far, and its link is not looked at.  *)
LEMMA PublishKeepsLinked ==
    ASSUME ListInv, NEW D \in SUBSET Nodes, Linked(D), NEW t \in Inserters,
           pc \in [Threads -> Places], Publish(t)
    PROVE  Linked(D)'
<1>1. PICK n \in Nodes \ allocated, link \in Nodes \cup {Nil} :
         /\ head' = n /\ allocated' = allocated \cup {n}
         /\ next' = [next EXCEPT ![n] = link]
  BY DEF Publish, ListInv
<1>2. /\ pc' = [pc EXCEPT ![t] = "clear"] /\ temp' = temp /\ t \in Threads
  BY DEF Publish, Goes, locals, Threads
<1>3. next \in [Nodes -> Nodes \cup {Nil}] /\ n \notin D /\ n # Nil
  BY NilAssumption DEF ListInv, Linked
<1>4. \A m \in D : next'[m] = next[m] /\ next[m] # n
  BY <1>1, <1>3, NilAssumption DEF Linked
<1>5. Published'
  BY <1>2 DEF Published
<1>6. \A u \in Inserters : pc'[u] = "link" => pc[u] = "link"
  BY <1>2 DEF Threads
<1>7. /\ D \subseteq allocated'
      /\ \A m \in D : next'[m] # Nil => next'[m] \in D
      /\ \A m, k \in D : next'[m] # Nil /\ next'[m] = next'[k] => m = k
  BY <1>1, <1>4 DEF Linked
<1>8. head' # Nil /\ head' \in allocated' /\ \A m \in D : next'[m] # head'
  BY <1>1, <1>3, <1>4
<1>9. \A u \in Inserters : pc'[u] = "link" =>
         /\ temp'[u] \in D /\ temp'[u] # head'
         /\ \A m \in D : next'[m] # temp'[u]
         /\ \A v \in Inserters \ {u} : pc'[v] = "link" => temp'[v] # temp'[u]
  BY <1>1, <1>2, <1>3, <1>4, <1>6 DEF Linked
<1> QED
  BY <1>5, <1>7, <1>8, <1>9 DEF Linked

(* The head whose link is cleared is a list of its own.                      *)
LEMMA ClearKeepsLinked ==
    ASSUME ListInv, NEW D \in SUBSET Nodes, Linked(D), NEW t \in Inserters,
           pc \in [Threads -> Places], ClearHead(t)
    PROVE  \E E \in SUBSET Nodes : Linked(E)'
<1>0. PICK E : E = D \cup {head}
  OBVIOUS
<1>1. /\ pc[t] = "clear" /\ pc' = [pc EXCEPT ![t] = "leave"] /\ t \in Threads
      /\ next' = [next EXCEPT ![head] = Nil]
      /\ UNCHANGED <<head, allocated, temp>>
  BY DEF ClearHead, Goes, locals, Threads
<1>2. Published
  BY <1>1 DEF Published
<1>3. next \in [Nodes -> Nodes \cup {Nil}] /\ allocated \subseteq Nodes
  BY DEF ListInv
<1>4. head # Nil /\ head \in allocated /\ head \in Nodes
  BY <1>2, <1>3 DEF Linked
<1>5. next'[head] = Nil /\ \A m \in Nodes \ {head} : next'[m] = next[m]
  BY <1>1, <1>3, <1>4
<1>6. \A u \in Inserters : pc'[u] = "link" => pc[u] = "link"
  BY <1>1 DEF Threads
<1>7. /\ E \subseteq allocated' /\ E \in SUBSET Nodes
      /\ \A m \in E : next'[m] # Nil => next'[m] \in E
      /\ \A m, k \in E : next'[m] # Nil /\ next'[m] = next'[k] => m = k
  BY <1>0, <1>1, <1>3, <1>4, <1>5 DEF Linked
<1>8. head' = head /\ head' \in allocated' /\ head' \in E
  BY <1>0, <1>1, <1>4
<1>9. \A m \in E : next'[m] # head'
  BY <1>0, <1>4, <1>5, <1>8 DEF Linked
<1>10. \A u \in Inserters : pc'[u] = "link" =>
         /\ temp'[u] \in E /\ temp'[u] # head'
         /\ \A v \in Inserters \ {u} : pc'[v] = "link" => temp'[v] # temp'[u]
  BY <1>0, <1>1, <1>6, <1>8 DEF Linked
<1>11. ASSUME NEW u \in Inserters, pc'[u] = "link", NEW m \in E
       PROVE  next'[m] # temp'[u]
  <2>1. temp'[u] = temp[u] /\ temp[u] \in D /\ pc[u] = "link"
    BY <1>1, <1>6, <1>11 DEF Linked
  <2>2. CASE m = head
    BY <2>1, <2>2, <1>5, NilAssumption
  <2>3. CASE m # head
    BY <2>1, <2>3, <1>0, <1>5 DEF Linked
  <2> QED
    BY <2>2, <2>3
<1>12. Linked(E)'
  BY <1>4, <1>7, <1>8, <1>9, <1>10, <1>11 DEF Linked
<1> QED
  BY <1>7, <1>12

(* So is the node that is allocated at the end of the list.                  *)
LEMMA AllocKeepsLinked ==
    ASSUME ListInv, NEW D \in SUBSET Nodes, Linked(D), NEW t \in Inserters,
           pc \in [Threads -> Places], AtLastNode(t)
    PROVE  \E E \in SUBSET Nodes : Linked(E)'
<1>1. PICK n \in Nodes \ allocated :
         /\ allocated' = allocated \cup {n} /\ temp' = [temp EXCEPT ![t] = n]
         /\ next' = [next EXCEPT ![n] = Nil]
  BY DEF AtLastNode
<1>2. pc[t] = "test" /\ pc' = [pc EXCEPT ![t] = "link"] /\ t \in Threads /\ head' = head
  BY DEF AtLastNode, Goes, Threads
<1> DEFINE E == D \cup {n}
<1>3. /\ next \in [Nodes -> Nodes \cup {Nil}] /\ allocated \subseteq Nodes
      /\ temp \in [Threads -> Nodes \cup {Nil}]
  BY DEF ListInv
<1>4. n \notin D /\ n # Nil /\ n # head
  BY NilAssumption DEF Linked
<1>5. next'[n] = Nil /\ \A m \in Nodes \ {n} : next'[m] = next[m]
  BY <1>1, <1>3
<1>6. temp'[t] = n /\ \A u \in Threads \ {t} : temp'[u] = temp[u] /\ pc'[u] = pc[u]
  BY <1>1, <1>2, <1>3
<1>7. Published' <=> Published
  BY <1>2 DEF Published, Threads
<1>8. \A m \in D : next'[m] = next[m] /\ next'[m] # n
  BY <1>4, <1>5 DEF Linked
<1>9. /\ E \subseteq allocated' /\ E \in SUBSET Nodes
      /\ \A m \in E : next'[m] # Nil => next'[m] \in E
      /\ \A m, k \in E : next'[m] # Nil /\ next'[m] = next'[k] => m = k
  BY <1>1, <1>3, <1>5, <1>8 DEF Linked
<1>10. /\ head' # Nil => head' \in allocated' /\ \A m \in E : next'[m] # head'
       /\ head' # Nil /\ ~Published' => head' \in E
       /\ Published' => head' # Nil
  BY <1>1, <1>2, <1>5, <1>7, <1>8 DEF Linked
<1>11. ASSUME NEW u \in Inserters, pc'[u] = "link"
       PROVE  /\ temp'[u] \in E /\ temp'[u] # head'
              /\ \A m \in E : next'[m] # temp'[u]
              /\ \A v \in Inserters \ {u} : pc'[v] = "link" => temp'[v] # temp'[u]
  <2>1. \A v \in Inserters \ {t} : pc'[v] = "link" =>
           /\ pc[v] = "link" /\ temp'[v] = temp[v] /\ temp[v] \in D /\ temp[v] # n
    BY <1>4, <1>6 DEF Linked, Threads
  <2>2. CASE u = t
    BY <2>1, <2>2, <1>2, <1>4, <1>5, <1>6, <1>8
  <2>3. CASE u # t
    <3>1. temp'[u] \in E /\ temp'[u] # head'
      BY <2>1, <2>3, <1>2, <1>11 DEF Linked
    <3>2. \A m \in E : next'[m] # temp'[u]
      BY <2>1, <2>3, <1>5, <1>8, <1>11, NilAssumption DEF Linked
    <3>3. \A v \in Inserters \ {u} : pc'[v] = "link" => temp'[v] # temp'[u]
      BY <2>1, <2>3, <1>6, <1>11 DEF Linked
    <3> QED
      BY <3>1, <3>2, <3>3
  <2> QED
    BY <2>2, <2>3
<1> HIDE DEF E
<1>12. Linked(E)'
  BY <1>9, <1>10, <1>11 DEF Linked
<1> QED
  BY <1>9, <1>12

(* A node is linked once, wherever the inserter has got to.                  *)
LEMMA LinkKeepsLinked ==
    ASSUME ListInv, NEW D \in SUBSET Nodes, Linked(D), NEW t \in Inserters,
           pc \in [Threads -> Places], LinkNode(t)
    PROVE  Linked(D)'
<1>1. /\ pc[t] = "link" /\ pc' = [pc EXCEPT ![t] = "leave"] /\ t \in Threads
      /\ next' = [next EXCEPT ![iterator[t]] = temp[t]]
      /\ UNCHANGED <<head, allocated, temp>>
  BY DEF LinkNode, Goes, locals, Threads
<1>2. next \in [Nodes -> Nodes \cup {Nil}]
  BY DEF ListInv
<1>3. \A m \in Nodes : next'[m] = IF m = iterator[t] THEN temp[t] ELSE next[m]
  BY <1>1, <1>2
<1>4. temp[t] \in D /\ temp[t] # head /\ \A m \in D : next[m] # temp[t]
  BY <1>1 DEF Linked
<1>5. Published' <=> Published
  BY <1>1 DEF Published, Threads
<1>6. \A u \in Inserters : pc'[u] = "link" => pc[u] = "link" /\ u # t /\ temp[u] # temp[t]
  BY <1>1 DEF Linked, Threads
<1>7. \A m \in D : next'[m] # Nil => next'[m] \in D
  BY <1>3, <1>4 DEF Linked
<1>8. \A m, k \in D : next'[m] # Nil /\ next'[m] = next'[k] => m = k
  BY <1>3, <1>4 DEF Linked
<1>9. head' # Nil => head' \in allocated' /\ \A m \in D : next'[m] # head'
  BY <1>1, <1>3, <1>4 DEF Linked
<1>10. \A u \in Inserters : pc'[u] = "link" =>
         /\ temp'[u] \in D /\ temp'[u] # head'
         /\ \A m \in D : next'[m] # temp'[u]
         /\ \A v \in Inserters \ {u} : pc'[v] = "link" => temp'[v] # temp'[u]
  BY <1>1, <1>3, <1>6 DEF Linked
<1> QED
  BY <1>1, <1>5, <1>7, <1>8, <1>9, <1>10 DEF Linked

(* Followed from the head, the links lead to a set of nodes that is closed   *)
(* under them, and to the least such set.                                   *)
LEMMA ReachableIsLeast ==
    ASSUME ListInv
    PROVE  /\ Reachable \subseteq Nodes
           /\ head # Nil => head \in Reachable
           /\ \A m \in Reachable : next[m] # Nil => next[m] \in Reachable
           /\ \A S \in SUBSET Nodes :
                 (head # Nil => head \in S) /\ (\A m \in S : next[m] # Nil => next[m] \in S)
                 => Reachable \subseteq S
<1>1. head # Nil => head \in Nodes
  BY DEF ListInv
<1>2. \A m \in Nodes : next[m] # Nil => next[m] \in Nodes
  BY DEF ListInv
<1>3. \A m \in Reachable : next[m] # Nil => next[m] \in Reachable
  BY <1>2 DEF Reachable
<1> QED
  BY <1>1, <1>3 DEF Reachable

(* The list is part of what is linked, unless its head is still published.   *)
LEMMA ListIsLinked ==
    ASSUME ListInv, NEW D \in SUBSET Nodes, Linked(D), ~Published
    PROVE  Reachable \subseteq D
  BY ReachableIsLeast DEF Linked

(* A node of the list other than its head is led to by one of its nodes, and *)
(* not by itself.                                                           *)
LEMMA OneLeadsTo ==
    ASSUME ListInv, NEW D \in SUBSET Nodes, Linked(D), ~Published,
           NEW n \in Reachable, n # head
    PROVE  \E p \in Reachable \ {n} : next[p] = n
<1> SUFFICES ASSUME \A p \in Reachable \ {n} : next[p] # n
             PROVE  FALSE
  OBVIOUS
<1>1. PICK S : S = Reachable \ {n}
  OBVIOUS
<1>2. S \in SUBSET Nodes /\ (head # Nil => head \in S)
  BY <1>1, ReachableIsLeast
<1>3. \A m \in S : next[m] # Nil => next[m] \in S
  BY <1>1, ReachableIsLeast
<1> QED
  BY <1>1, <1>2, <1>3, ReachableIsLeast

(* Unlinking a node: the one that led to it leads to the next.               *)
LEMMA DeleteKeepsLinked ==
    ASSUME ListInv, NEW D \in SUBSET Nodes, Linked(D), NEW d, NEW n \in Nodes, DeleteNode(d, n),
           \A t \in Inserters : pc[t] \in {"idle", "gate"} /\ pc'[t] = pc[t]
    PROVE  \E E \in SUBSET Nodes : Linked(E)'
<1>1. /\ n \in Reachable /\ allocated' = allocated \ {n}
      /\ head' = IF head = n THEN next[n] ELSE head
      /\ next' = [m \in Nodes |->
                    IF m \in Reachable /\ next[m] = n /\ head # n THEN next[n] ELSE next[m]]
  BY DEF DeleteNode
<1>2. ~Published /\ ~Published' /\ \A t \in Inserters : pc'[t] # "link"
  BY DEF Published
<1>3. Reachable \subseteq D /\ head # Nil /\ n \in D /\ head \in D /\ head \in Reachable
  <2>1. Reachable \subseteq D
    BY <1>2, ListIsLinked
  <2>2. head # Nil
    <3> SUFFICES ASSUME head = Nil
                 PROVE  FALSE
      OBVIOUS
    <3>1. PICK S : S = {}
      OBVIOUS
    <3>2. S \in SUBSET Nodes /\ n \notin S /\ \A m \in S : next[m] # Nil => next[m] \in S
      BY <3>1
    <3>3. Reachable \subseteq S
      BY <3>2, ReachableIsLeast
    <3> QED
      BY <1>1, <3>2, <3>3
  <2> QED
    BY <1>1, <1>2, <2>1, <2>2, ReachableIsLeast DEF Linked
<1>4. /\ \A m \in D : next[m] # Nil => next[m] \in D
      /\ \A m, k \in D : next[m] # Nil /\ next[m] = next[k] => m = k
      /\ \A m \in D : next[m] # head
      /\ D \subseteq allocated /\ n # Nil
  BY <1>3, NilAssumption DEF Linked
<1>5. \A m \in D : next[m] = n => head # n /\ m \in Reachable /\ m # n
  <2> SUFFICES ASSUME NEW m \in D, next[m] = n
               PROVE  head # n /\ m \in Reachable /\ m # n
    OBVIOUS
  <2>1. head # n
    BY <1>4
  <2>2. PICK p \in Reachable \ {n} : next[p] = n
    BY <1>1, <1>2, <2>1, OneLeadsTo
  <2>3. p = m
    BY <1>3, <1>4, <2>2
  <2> QED
    BY <2>1, <2>2, <2>3
<1>6. next[n] # n
  BY <1>3, <1>5
<1>7. \A m \in D : next'[m] = IF next[m] = n THEN next[n] ELSE next[m]
  BY <1>1, <1>5
<1>8. PICK E : E = D \ {n}
  OBVIOUS
<1>9. /\ E \in SUBSET Nodes /\ E \subseteq allocated'
      /\ \A m \in E : next'[m] # Nil => next'[m] \in E
  BY <1>1, <1>3, <1>4, <1>6, <1>7, <1>8
<1>10. \A m, k \in E : next'[m] # Nil /\ next'[m] = next'[k] => m = k
  BY <1>3, <1>4, <1>7, <1>8
<1>11. /\ head' # Nil => head' \in allocated' /\ head' \in E
       /\ head' # Nil => \A m \in E : next'[m] # head'
  <2>1. CASE head = n
    BY <2>1, <1>1, <1>3, <1>4, <1>6, <1>7, <1>8
  <2>2. CASE head # n
    BY <2>2, <1>1, <1>3, <1>4, <1>6, <1>7, <1>8
  <2> QED
    BY <2>1, <2>2
<1>12. Linked(E)'
  BY <1>2, <1>9, <1>10, <1>11 DEF Linked
<1> QED
  BY <1>9, <1>12

(* Every step keeps some set of nodes linked.                                *)
LEMMA NextLinked == LocksInv /\ ListInv /\ LinkedInv /\ [Next]_vars => LinkedInv'
<1> SUFFICES ASSUME LocksInv, ListInv, LinkedInv, [Next]_vars
             PROVE  LinkedInv'
  OBVIOUS
<1>1. PICK D \in SUBSET Nodes : Linked(D)
  BY DEF LinkedInv
<1>2. pc \in [Threads -> Places] /\ temp \in [Threads -> Nodes \cup {Nil}]
  BY DEF LocksInv, LocksType, ListInv
<1>3. ASSUME UNCHANGED <<head, next, allocated>>,
             \A u \in Inserters : /\ pc'[u] = "clear" <=> pc[u] = "clear"
                                  /\ pc'[u] = "link" => pc[u] = "link" /\ temp'[u] = temp[u]
      PROVE  LinkedInv'
  BY <1>1, <1>3, LinkedFrame DEF LinkedInv
<1>4. ASSUME NEW t \in Threads, NEW from, NEW to, Goes(t, from, to),
             from \notin {"clear", "link"}, to \notin {"clear", "link"},
             UNCHANGED <<head, next, allocated>>,
             \A u \in Threads \ {t} : temp'[u] = temp[u]
      PROVE  LinkedInv'
  <2>1. pc[t] = from /\ pc' = [pc EXCEPT ![t] = to]
    BY <1>4 DEF Goes
  <2>2. \A u \in Inserters : /\ pc'[u] = "clear" <=> pc[u] = "clear"
                             /\ pc'[u] = "link" => pc[u] = "link" /\ temp'[u] = temp[u]
    BY <1>2, <1>4, <2>1 DEF Threads
  <2> QED
    BY <1>3, <1>4, <2>2
<1>5. CASE UNCHANGED vars
  BY <1>3, <1>5 DEF vars
<1>6. ASSUME NEW t \in Members, Arrive(t) \/ Join(t) \/ EnterRoom(t)
      PROVE  LinkedInv'
  <2>1. PICK from \in {"idle", "gate"}, to \in {"gate", "look"} : Goes(t, from, to)
    BY <1>6 DEF Arrive, Join, EnterRoom
  <2>2. UNCHANGED <<head, next, allocated, temp>>
    BY <1>6 DEF Arrive, Join, EnterRoom, list, locals
  <2> QED
    BY <1>4, <2>1, <2>2 DEF Members, Threads
<1>7. ASSUME NEW t \in Members, Leave(t)
      PROVE  LinkedInv'
  <2>1. Goes(t, "leave", "idle") /\ UNCHANGED <<head, next, allocated>> /\ t \in Threads
    BY <1>7 DEF Leave, list, Members, Threads
  <2>2. \A u \in Threads \ {t} : temp'[u] = temp[u]
    BY <1>2, <1>7 DEF Leave
  <2> QED
    BY <1>4, <2>1, <2>2
<1>8. ASSUME NEW t \in Inserters, Insert(t)
      PROVE  LinkedInv'
  <2> t \in Threads
    BY DEF Threads
  <2>1. CASE LookAtHead(t)
    <3>1. PICK to \in {"publish", "test"} : Goes(t, "look", to)
      BY <2>1 DEF LookAtHead
    <3> QED
      BY <1>4, <2>1, <3>1 DEF LookAtHead, list
  <2>2. CASE Publish(t)
    BY <1>1, <1>2, <2>2, PublishKeepsLinked DEF LinkedInv
  <2>3. CASE ClearHead(t)
    BY <1>1, <1>2, <2>3, ClearKeepsLinked DEF LinkedInv
  <2>4. CASE AtLastNode(t)
    BY <1>1, <1>2, <2>4, AllocKeepsLinked DEF LinkedInv
  <2>5. CASE NotLastNode(t)
    BY <1>4, <2>5 DEF NotLastNode, list, locals
  <2>6. CASE NextNode(t)
    BY <1>4, <2>6 DEF NextNode, list
  <2>7. CASE Crash(t)
    BY <1>3, <2>7 DEF Crash, locals
  <2>8. CASE LinkNode(t)
    BY <1>1, <1>2, <2>8, LinkKeepsLinked DEF LinkedInv
  <2> QED
    BY <1>8, <2>1, <2>2, <2>3, <2>4, <2>5, <2>6, <2>7, <2>8 DEF Insert
<1>9. ASSUME NEW t \in Searchers, Search(t)
      PROVE  LinkedInv'
  <2> t \in Threads
    BY DEF Threads
  <2>1. CASE SearchEnds(t)
    BY <1>4, <2>1 DEF SearchEnds, list, locals
  <2>2. CASE SearchGoesOn(t)
    BY <1>3, <2>2 DEF SearchGoesOn, list
  <2>3. CASE FirstNode(t)
    BY <1>4, <2>3 DEF FirstNode, list
  <2> QED
    BY <1>9, <2>1, <2>2, <2>3 DEF Search
<1>10. ASSUME NEW d \in Deleters, Delete(d)
       PROVE  LinkedInv'
  <2> d \in Threads
    BY DEF Threads
  <2>1. CASE TakeThree(d)
    <3>1. /\ \E from \in {"idle", "second", "third"}, to \in {"second", "third", "delete"} :
                Goes(d, from, to)
          /\ UNCHANGED <<head, next, allocated, temp>>
      BY <2>1 DEF TakeThree, DeleteWaits, list, locals
    <3> QED
      BY <1>4, <3>1
  <2>2. CASE DeleteNothing(d)
    BY <1>4, <2>2 DEF DeleteNothing, PostThree, list, locals
  <2>3. CASE \E n \in Nodes : DeleteNode(d, n)
    <3>1. PICK n \in Nodes : DeleteNode(d, n)
      BY <2>3
    <3>2. pc[d] = "delete" /\ pc' = [pc EXCEPT ![d] = "idle"]
      BY <3>1 DEF DeleteNode, PostThree, Goes
    <3>3. NobodyInside("insert")
      BY <3>2, FiveSemaphores DEF LocksInv, RoomInv, Has
    <3>4. \A t \in Inserters : pc[t] \in {"idle", "gate"} /\ pc'[t] = pc[t]
      BY <1>2, <3>2, <3>3, ThreadsAssumption DEF NobodyInside, MembersOf, Threads
    <3>5. \E E \in SUBSET Nodes : Linked(E)'
      BY <1>1, <3>1, <3>4, DeleteKeepsLinked
    <3> QED
      BY <3>5 DEF LinkedInv
  <2> QED
    BY <1>10, <2>1, <2>2, <2>3 DEF Delete
<1>11. CASE \E t \in Threads : Step(t)
  BY <1>6, <1>7, <1>8, <1>9, <1>10, <1>11 DEF Step
<1> QED
  BY <1>5, <1>11, <1>3 DEF Next, vars

(* It holds initially, with no node linked.                                  *)
LEMMA InitLinked == Init => LinkedInv
<1> SUFFICES ASSUME Init
             PROVE  Linked({})
  BY DEF LinkedInv
<1>1. \A t \in Inserters : pc[t] = "idle"
  BY DEF Init, Threads
<1> QED
  BY <1>1 DEF Init, Linked, Published

(* A list whose links lead to different nodes, and none to the head, ends:    *)
(* its memory is finite.                                                    *)
LEMMA ListEnds ==
    ASSUME ListInv, NEW D \in SUBSET Nodes, Linked(D), ~Published, head # Nil
    PROVE  \E n \in Reachable : next[n] = Nil
<1> SUFFICES ASSUME \A n \in Reachable : next[n] # Nil
             PROVE  FALSE
  OBVIOUS
<1>1. PICK R : R = Reachable
  OBVIOUS
<1>2. R \subseteq Nodes /\ R \subseteq D /\ head \in R
  BY <1>1, ReachableIsLeast, ListIsLinked
<1>3. IsFiniteSet(R)
  BY <1>2, NodesAssumption, FS_Subset
<1>4. PICK T : T = R \ {head}
  OBVIOUS
<1>5. IsFiniteSet(T) /\ Cardinality(T) = Cardinality(R) - 1 /\ Cardinality(R) \in Nat
  BY <1>2, <1>3, <1>4, FS_RemoveElement, FS_CardinalityType
<1>6. PICK f : f = [m \in R |-> next[m]]
  OBVIOUS
<1>7. f \in [R -> T]
  BY <1>1, <1>2, <1>4, <1>6, ReachableIsLeast DEF Linked
<1>8. \A m, k \in R : f[m] = f[k] => m = k
  BY <1>1, <1>2, <1>6 DEF Linked
<1>9. \E m, k \in R : m # k /\ f[m] = f[k]
  BY <1>3, <1>5, <1>7, FS_PigeonHole
<1> QED
  BY <1>8, <1>9

(* Whatever inserters do to each other, and although a search or an insert   *)
(* can be led astray, delete of prob2_conc3.c always finds a list that ends,  *)
(* of nodes that are allocated and linked once: for any numbers of threads    *)
(* and any finite memory.                                                   *)
THEOREM ListCorrect == Spec => []ListSound
<1>1. Init => ListInv
  <2> SUFFICES ASSUME Init
               PROVE  ListInv
    OBVIOUS
  <2>1. \A t \in Threads : pc[t] # "step"
    BY DEF Init
  <2> QED
    BY <2>1 DEF Init, ListInv
<1>2. ListInv /\ LinkedInv => ListSound
  <2> SUFFICES ASSUME ListInv, LinkedInv, \A t \in Inserters : pc[t] \in {"idle", "gate", "leave"}
               PROVE  /\ head # Nil => \E n \in Reachable : next[n] = Nil
                      /\ Reachable \subseteq allocated
                      /\ \A m, n \in Reachable : next[m] # Nil /\ next[m] = next[n] => m = n
    BY DEF ListSound
  <2>1. PICK D \in SUBSET Nodes : Linked(D)
    BY DEF LinkedInv
  <2>2. ~Published
    BY DEF Published
  <2>3. Reachable \subseteq D
    BY <2>1, <2>2, ListIsLinked
  <2>4. head # Nil => \E n \in Reachable : next[n] = Nil
    BY <2>1, <2>2, ListEnds
  <2> QED
    BY <2>1, <2>3, <2>4 DEF Linked
<1>3. Spec => [](LocksInv /\ ListInv /\ LinkedInv)
  BY <1>1, InitLocks, InitLinked, NextLocks, NextList, NextLinked, PTL DEF Spec
<1> QED
  BY <1>2, <1>3, PTL

(***************************************************************************)
(* Nobody is stuck.  A semaphore that is taken is taken by somebody: a room *)
(* by a member inside or by a deleter, a door by the member at the gate,    *)
(* deleter_mut by the deleter at work.  Members inside wait for nobody, so  *)
(* that waiting threads wait for them, or for a deleter further on.         *)
(***************************************************************************)

RoomIsHeld(g) == sem[Room[g]] = 0 => ~NobodyInside(g) \/ \E d \in Deleters : Has(d, g)

DoorIsHeld(g) == sem[Door[g]] = 0 => \E t \in MembersOf(g) : pc[t] = "gate"

HoldersInv ==
    /\ \A g \in Groups : RoomIsHeld(g) /\ DoorIsHeld(g)
    /\ sem["deleter_mut"] = 0 => \E d \in Deleters : pc[d] = "delete"

\* Inserters that may still call malloc.
Needy == {t \in Inserters : pc[t] \in {"gate", "look", "publish", "test", "step"}}

\* What HeapBound is for: there is a node for each of them.
MemoryInv == Cardinality(Nodes \ allocated) >= Cardinality(Needy)

(* The sets that MemoryInv counts are finite.                               *)
LEMMA MemoryFinite ==
    /\ IsFiniteSet(Nodes \ allocated) /\ Cardinality(Nodes \ allocated) \in Nat
    /\ IsFiniteSet(Needy) /\ Cardinality(Needy) \in Nat
<1>1. IsFiniteSet(Nodes \ allocated)
  BY NodesAssumption, FS_Subset
<1>2. IsFiniteSet(Needy)
  BY ThreadsAssumption, FS_Subset DEF Needy
<1> QED
  BY <1>1, <1>2, FS_CardinalityType

(* Less need, or more memory.                                               *)
LEMMA MemoryFrame ==
    ASSUME MemoryInv, NEW S, NEW F, S \subseteq Needy, Nodes \ allocated \subseteq F,
           IsFiniteSet(F)
    PROVE  Cardinality(F) >= Cardinality(S)
<1>1. Cardinality(S) \in Nat /\ Cardinality(S) <= Cardinality(Needy)
  BY MemoryFinite, FS_Subset, FS_CardinalityType
<1>2. Cardinality(F) \in Nat /\ Cardinality(Nodes \ allocated) <= Cardinality(F)
  BY FS_Subset, FS_CardinalityType
<1> QED
  BY <1>1, <1>2, MemoryFinite DEF MemoryInv

(* A step of one thread that is not, or no longer, to call malloc.          *)
LEMMA MemoryKept ==
    ASSUME MemoryInv, Needy' \subseteq Needy, allocated' \subseteq allocated
    PROVE  MemoryInv'
<1>1. PICK S, F : S = Needy' /\ F = Nodes \ allocated'
  OBVIOUS
<1>2. IsFiniteSet(F)
  BY <1>1, NodesAssumption, FS_Subset
<1>3. Cardinality(F) >= Cardinality(S)
  BY <1>1, <1>2, MemoryFrame
<1> QED
  BY <1>1, <1>3 DEF MemoryInv

(* An inserter comes only if there is a node for it.                        *)
LEMMA ComesWithMemory ==
    ASSUME LocksInv, MemoryInv, NEW t \in Members, HeapBound(t), pc[t] = "idle",
           NEW p \in {"gate", "look"}, pc' = [pc EXCEPT ![t] = p],
           allocated' = allocated
    PROVE  MemoryInv'
<1>1. pc \in [Threads -> Places] /\ t \in Threads /\ Inserters \subseteq Threads
  BY DEF LocksInv, LocksType, Threads, Members
<1>2. CASE t \notin Inserters
  <2>1. Needy' = Needy
    BY <1>1, <1>2 DEF Needy
  <2> QED
    BY <2>1, MemoryKept
<1>3. CASE t \in Inserters
  <2>1. PICK S, F, C : S = Needy /\ F = Nodes \ allocated /\ C = Counted("insert")
    OBVIOUS
  <2>2. Needy' \subseteq S \cup {t} /\ t \notin S /\ S \subseteq C
    BY <1>1, <1>3, <2>1 DEF Needy, Counted, MembersOf
  <2>3. IsFiniteSet(C) /\ count["insert"] = Cardinality(C)
    BY <2>1, FiveSemaphores, GroupsFinite DEF LocksInv, DoorInv
  <2>4. Cardinality(S) <= Cardinality(C) /\ Cardinality(C) < Cardinality(F)
    BY <1>3, <2>1, <2>2, <2>3, FS_Subset DEF HeapBound
  <2>5. /\ IsFiniteSet(S \cup {t}) /\ Cardinality(S \cup {t}) = Cardinality(S) + 1
        /\ Cardinality(S) \in Nat /\ Cardinality(C) \in Nat /\ Cardinality(F) \in Nat
    BY <2>1, <2>2, <2>3, MemoryFinite, FS_AddElement, FS_CardinalityType
  <2>6. PICK D : D = Needy'
    OBVIOUS
  <2>7. Cardinality(D) \in Nat /\ Cardinality(D) <= Cardinality(S \cup {t})
    BY <2>2, <2>5, <2>6, FS_Subset, FS_CardinalityType
  <2>8. Cardinality(D) <= Cardinality(F)
    BY <2>4, <2>5, <2>7
  <2> QED
    BY <2>1, <2>6, <2>8 DEF MemoryInv
<1> QED
  BY <1>2, <1>3

(* malloc takes one node, and the inserter needs no other.                  *)
LEMMA MallocTakesOne ==
    ASSUME LocksInv, MemoryInv, NEW t \in Inserters, t \in Needy,
           NEW p \in {"clear", "link"}, pc' = [pc EXCEPT ![t] = p],
           NEW n \in Nodes \ allocated, allocated' = allocated \cup {n}
    PROVE  MemoryInv'
<1>1. pc \in [Threads -> Places] /\ Inserters \subseteq Threads
  BY DEF LocksInv, LocksType, Threads
<1>2. PICK S, F : S = Needy /\ F = Nodes \ allocated
  OBVIOUS
<1>3. Needy' = S \ {t} /\ Nodes \ allocated' = F \ {n}
  BY <1>1, <1>2 DEF Needy
<1>4. Cardinality(S \ {t}) = Cardinality(S) - 1 /\ Cardinality(F \ {n}) = Cardinality(F) - 1
  BY <1>2, MemoryFinite, FS_RemoveElement
<1>5. Cardinality(F) >= Cardinality(S) /\ Cardinality(F) \in Nat /\ Cardinality(S) \in Nat
  BY <1>2, MemoryFinite DEF MemoryInv
<1>6. Cardinality(F \ {n}) >= Cardinality(S \ {t})
  BY <1>4, <1>5
<1> QED
  BY <1>3, <1>6 DEF MemoryInv

(* Every step leaves memory for those who will need it.                     *)
LEMMA NextMemory == LocksInv /\ MemoryInv /\ [Next]_vars => MemoryInv'
<1> SUFFICES ASSUME LocksInv, MemoryInv, [Next]_vars
             PROVE  MemoryInv'
  OBVIOUS
<1>1. pc \in [Threads -> Places]
  BY DEF LocksInv, LocksType
<1>2. ASSUME NEW t \in Threads, NEW from, NEW to, Goes(t, from, to), allocated' \subseteq allocated,
             \/ to \notin {"gate", "look", "publish", "test", "step"}
             \/ from \in {"gate", "look", "publish", "test", "step"}
      PROVE  MemoryInv'
  <2>1. pc[t] = from /\ pc'[t] = to /\ \A u \in Threads \ {t} : pc'[u] = pc[u]
    BY <1>1, <1>2 DEF Goes
  <2>2. Needy' \subseteq Needy
    BY <1>2, <2>1 DEF Needy, Threads
  <2> QED
    BY <1>2, <2>2, MemoryKept
<1>3. CASE pc' = pc /\ allocated' = allocated
  <2>1. Needy' = Needy
    BY <1>3 DEF Needy
  <2> QED
    BY <1>3, <2>1, MemoryKept
<1>4. ASSUME NEW t \in Members, Arrive(t) \/ Join(t)
      PROVE  MemoryInv'
  <2>1. /\ HeapBound(t) /\ allocated' = allocated /\ pc[t] = "idle"
        /\ \E p \in {"gate", "look"} : pc' = [pc EXCEPT ![t] = p]
    BY <1>4 DEF Arrive, Join, Goes, list
  <2> QED
    BY <2>1, ComesWithMemory
<1>5. ASSUME NEW t \in Members, EnterRoom(t)
      PROVE  MemoryInv'
  <2>1. Goes(t, "gate", "look") /\ allocated' = allocated /\ t \in Threads
    BY <1>5 DEF EnterRoom, list, Members, Threads
  <2> QED
    BY <1>2, <2>1
<1>6. ASSUME NEW t \in Members, Leave(t)
      PROVE  MemoryInv'
  <2>1. Goes(t, "leave", "idle") /\ allocated' = allocated /\ t \in Threads
    BY <1>6 DEF Leave, list, Members, Threads
  <2> QED
    BY <1>2, <2>1
<1>7. ASSUME NEW t \in Inserters, Insert(t)
      PROVE  MemoryInv'
  <2> t \in Threads
    BY DEF Threads
  <2>1. CASE LookAtHead(t)
    BY <1>2, <2>1 DEF LookAtHead, list
  <2>2. CASE Publish(t)
    <3>1. PICK n \in Nodes \ allocated : allocated' = allocated \cup {n}
      BY <2>2 DEF Publish
    <3>2. t \in Needy /\ pc' = [pc EXCEPT ![t] = "clear"]
      BY <2>2 DEF Publish, Goes, Needy
    <3> QED
      BY <3>1, <3>2, MallocTakesOne
  <2>3. CASE ClearHead(t)
    BY <1>2, <2>3 DEF ClearHead
  <2>4. CASE AtLastNode(t)
    <3>1. PICK n \in Nodes \ allocated : allocated' = allocated \cup {n}
      BY <2>4 DEF AtLastNode
    <3>2. t \in Needy /\ pc' = [pc EXCEPT ![t] = "link"]
      BY <2>4 DEF AtLastNode, Goes, Needy
    <3> QED
      BY <3>1, <3>2, MallocTakesOne
  <2>5. CASE NotLastNode(t)
    BY <1>2, <2>5 DEF NotLastNode, list
  <2>6. CASE NextNode(t)
    BY <1>2, <2>6 DEF NextNode, list
  <2>7. CASE Crash(t)
    BY <1>3, <2>7 DEF Crash
  <2>8. CASE LinkNode(t)
    BY <1>2, <2>8 DEF LinkNode
  <2> QED
    BY <1>7, <2>1, <2>2, <2>3, <2>4, <2>5, <2>6, <2>7, <2>8 DEF Insert
<1>8. ASSUME NEW t \in Searchers, Search(t)
      PROVE  MemoryInv'
  <2> t \in Threads
    BY DEF Threads
  <2>1. CASE SearchEnds(t)
    BY <1>2, <2>1 DEF SearchEnds, list
  <2>2. CASE SearchGoesOn(t)
    BY <1>3, <2>2 DEF SearchGoesOn, list
  <2>3. CASE FirstNode(t)
    BY <1>2, <2>3 DEF FirstNode, list
  <2> QED
    BY <1>8, <2>1, <2>2, <2>3 DEF Search
<1>9. ASSUME NEW d \in Deleters, Delete(d)
      PROVE  MemoryInv'
  <2>1. /\ d \in Threads /\ allocated' \subseteq allocated
        /\ \E from \in {"idle", "second", "third", "delete"},
              to \in {"second", "third", "delete", "idle"} : Goes(d, from, to)
    BY <1>9 DEF Delete, TakeThree, DeleteWaits, DeleteNothing, DeleteNode, PostThree, list,
                Threads
  <2> QED
    BY <1>2, <2>1
<1>10. CASE \E t \in Threads : Step(t)
  BY <1>4, <1>5, <1>6, <1>7, <1>8, <1>9, <1>10 DEF Step
<1> QED
  BY <1>3, <1>10 DEF Next, vars, list

(* A member's step from which its own group's semaphores stay held.         *)
LEMMA MemberHolds ==
    ASSUME LocksInv, HoldersInv, NEW t \in Members, NEW p \in MemberPlaces, NEW g, g = Group(t),
           pc' = [pc EXCEPT ![t] = p],
           \A s \in Semaphores \ {Room[g], Door[g]} : sem'[s] = sem[s],
           RoomIsHeld(g)', DoorIsHeld(g)'
    PROVE  HoldersInv'
<1>1. pc \in [Threads -> Places] /\ t \in Threads /\ t \notin Deleters /\ g \in Groups
  BY OwnGroup DEF LocksInv, LocksType
<1>2. pc'[t] = p /\ \A u \in Threads \ {t} : pc'[u] = pc[u]
  BY <1>1
<1>3. \A d \in Deleters : pc'[d] = pc[d]
  BY <1>1, <1>2 DEF Threads
<1>4. ASSUME NEW h \in Groups \ {g}
      PROVE  RoomIsHeld(h)' /\ DoorIsHeld(h)'
  <2>1. sem'[Room[h]] = sem[Room[h]] /\ sem'[Door[h]] = sem[Door[h]]
    BY <1>1, OwnSemaphores
  <2>2. t \notin MembersOf(h) /\ MembersOf(h) \subseteq Members
    BY OwnGroup, GroupsFinite
  <2>3. \A u \in MembersOf(h) : pc'[u] = pc[u]
    BY <1>1, <1>2, <2>2 DEF Threads, Members
  <2>4. NobodyInside(h)' <=> NobodyInside(h)
    BY <2>3 DEF NobodyInside
  <2>5. \A d \in Deleters : Has(d, h)' <=> Has(d, h)
    BY <1>3 DEF Has
  <2>6. RoomIsHeld(h) /\ DoorIsHeld(h)
    BY DEF HoldersInv
  <2>7. RoomIsHeld(h)'
    BY <2>1, <2>4, <2>5, <2>6 DEF RoomIsHeld
  <2>8. DoorIsHeld(h)'
    BY <2>1, <2>3, <2>6 DEF DoorIsHeld
  <2> QED
    BY <2>7, <2>8
<1>5. sem'["deleter_mut"] = sem["deleter_mut"]
  BY <1>1, OwnSemaphores, FiveSemaphores
<1>6. sem'["deleter_mut"] = 0 => \E d \in Deleters : pc'[d] = "delete"
  BY <1>3, <1>5 DEF HoldersInv
<1> QED
  BY <1>4, <1>6 DEF HoldersInv

(* Members that come and go hand their group's semaphores on.               *)
LEMMA MembersHold ==
    ASSUME LocksInv, HoldersInv, NEW t \in Members,
           Arrive(t) \/ Join(t) \/ EnterRoom(t) \/ Leave(t)
    PROVE  HoldersInv'
<1> DEFINE g == Group(t)
           i == "look"
<1>1. i \in MemberPlaces \ {"idle", "gate"} /\ {"idle", "gate"} \subseteq MemberPlaces
  BY LookIsPastTheGate DEF MemberPlaces, Places
<1>2. /\ sem \in [Semaphores -> 0 .. 1] /\ g \in Groups
      /\ Room[g] \in Semaphores /\ Door[g] \in Semaphores /\ Room[g] # Door[g]
  BY OwnGroup, OwnSemaphores DEF LocksInv, LocksType
<1>3. RoomIsHeld(g) /\ DoorIsHeld(g)
  BY <1>2 DEF HoldersInv
<1>4. CASE Arrive(t)
  <2>1. /\ pc[t] = "idle" /\ pc' = [pc EXCEPT ![t] = "gate"]
        /\ sem' = [sem EXCEPT ![Door[g]] = @ - 1]
    BY <1>4 DEF Arrive, Waits, Goes
  <2>2. /\ \A s \in Semaphores \ {Room[g], Door[g]} : sem'[s] = sem[s]
        /\ sem'[Room[g]] = sem[Room[g]]
    BY <1>2, <2>1
  <2> HIDE DEF g, i
  <2>3. /\ t \in MembersOf(g) /\ pc'[t] = "gate"
        /\ \A u \in MembersOf(g) \ {t} : pc'[u] = pc[u]
        /\ \A d \in Deleters : Has(d, g)' <=> Has(d, g)
    BY <1>1, <2>1, MemberFacts DEF g
  <2>4. ~NobodyInside(g) => ~NobodyInside(g)'
    BY <2>1, <2>3 DEF NobodyInside
  <2>5. RoomIsHeld(g)'
    BY <1>3, <2>2, <2>3, <2>4 DEF RoomIsHeld
  <2>6. DoorIsHeld(g)'
    BY <2>3 DEF DoorIsHeld
  <2> QED
    BY <1>1, <2>1, <2>2, <2>5, <2>6, MemberHolds DEF g
<1>5. CASE Join(t)
  <2>1. pc[t] = "idle" /\ pc' = [pc EXCEPT ![t] = i] /\ sem' = sem /\ sem[Door[g]] = 1
    BY <1>5 DEF Join, Goes
  <2> HIDE DEF g, i
  <2>2. /\ t \in MembersOf(g) /\ pc'[t] = i
    BY <1>1, <2>1, MemberFacts DEF g
  <2>3. ~NobodyInside(g)'
    BY <1>1, <2>2 DEF NobodyInside
  <2>4. RoomIsHeld(g)' /\ DoorIsHeld(g)'
    BY <2>1, <2>3 DEF RoomIsHeld, DoorIsHeld
  <2> QED
    BY <1>1, <2>1, <2>4, MemberHolds DEF g
<1>6. CASE EnterRoom(t)
  <2>1. /\ pc' = [pc EXCEPT ![t] = i]
        /\ sem' = [sem EXCEPT ![Room[g]] = @ - 1, ![Door[g]] = @ + 1]
    BY <1>6 DEF EnterRoom, Goes
  <2> HIDE DEF g, i
  <2>2. /\ t \in MembersOf(g) /\ pc'[t] = i
    BY <1>1, <2>1, MemberFacts DEF g
  <2>3. ~NobodyInside(g)'
    BY <1>1, <2>2 DEF NobodyInside
  <2>4. \A s \in Semaphores \ {Room[g], Door[g]} : sem'[s] = sem[s]
    BY <1>2, <2>1
  <2>5. sem[Door[g]] \in 0 .. 1 /\ sem'[Door[g]] = sem[Door[g]] + 1
    BY <1>2, <2>1
  <2>6. RoomIsHeld(g)' /\ DoorIsHeld(g)'
    BY <2>3, <2>5 DEF RoomIsHeld, DoorIsHeld
  <2> QED
    BY <1>1, <2>1, <2>4, <2>6, MemberHolds DEF g
<1>7. CASE Leave(t)
  <2>1. /\ pc[t] = "leave" /\ pc' = [pc EXCEPT ![t] = "idle"] /\ sem[Door[g]] = 1
        /\ sem' = IF count[g] = 1 THEN [sem EXCEPT ![Room[g]] = @ + 1] ELSE sem
    BY <1>7 DEF Leave, Goes
  <2>2. /\ \A s \in Semaphores \ {Room[g], Door[g]} : sem'[s] = sem[s]
        /\ sem'[Door[g]] = 1 /\ sem[Room[g]] \in 0 .. 1
        /\ count[g] = 1 => sem'[Room[g]] = sem[Room[g]] + 1
        /\ count[g] # 1 => sem'[Room[g]] = sem[Room[g]]
    BY <1>2, <2>1
  <2> HIDE DEF g, i
  <2>3. /\ t \in MembersOf(g) /\ DoorInv(g)
        /\ \A u \in MembersOf(g) \ {t} : pc'[u] = pc[u]
    BY <1>1, <2>1, MemberFacts DEF g
  <2>4. DoorIsHeld(g)'
    BY <2>2 DEF DoorIsHeld
  <2>5. RoomIsHeld(g)'
    <3>1. CASE count[g] = 1
      BY <2>2, <3>1 DEF RoomIsHeld
    <3>2. CASE count[g] # 1
      <4>1. t \in Counted(g) /\ Counted(g) # {t}
        BY <2>1, <2>3, <3>2, FS_Singleton DEF Counted, DoorInv
      <4>2. PICK u \in Counted(g) : u # t
        BY <4>1
      <4>3. u \in MembersOf(g) /\ pc[u] \notin {"idle", "gate"}
        BY <2>3, <4>1, <4>2 DEF Counted, DoorInv
      <4>4. ~NobodyInside(g)'
        BY <2>3, <4>2, <4>3 DEF NobodyInside
      <4> QED
        BY <4>4 DEF RoomIsHeld
    <3> QED
      BY <3>1, <3>2
  <2> QED
    BY <1>1, <2>1, <2>2, <2>4, <2>5, MemberHolds DEF g
<1> QED
  BY <1>4, <1>5, <1>6, <1>7

(* So does a member at work: it holds what it held.                         *)
LEMMA BodiesHold ==
    ASSUME LocksInv, HoldersInv, NEW t \in Members, Insert(t) \/ Search(t)
    PROVE  HoldersInv'
<1> DEFINE Past == MemberPlaces \ {"idle", "gate"}
<1>1. ASSUME NEW from \in Past, NEW to \in Past, Goes(t, from, to), sem' = sem
      PROVE  HoldersInv'
  <2> DEFINE g == Group(t)
  <2> HIDE DEF g
  <2>1. g \in Groups
    BY OwnGroup DEF g
  <2>2. pc[t] = from /\ pc' = [pc EXCEPT ![t] = to]
    BY <1>1 DEF Goes
  <2> to \in MemberPlaces
    OBVIOUS
  <2> HIDE DEF Past
  <2>3. /\ t \in MembersOf(g) /\ pc'[t] = to
        /\ \A u \in MembersOf(g) \ {t} : pc'[u] = pc[u]
    BY <2>2, MemberFacts DEF g
  <2>4. ~NobodyInside(g)'
    BY <1>1, <2>3 DEF NobodyInside, Past
  <2>5. DoorIsHeld(g)
    BY <2>1 DEF HoldersInv
  <2>6. DoorIsHeld(g)'
    BY <1>1, <2>2, <2>3, <2>5 DEF DoorIsHeld, Past
  <2>7. RoomIsHeld(g)'
    BY <2>4 DEF RoomIsHeld
  <2> QED
    BY <1>1, <2>2, <2>6, <2>7, MemberHolds DEF g
<1>2. CASE pc' = pc /\ sem' = sem
  BY <1>2 DEF HoldersInv, RoomIsHeld, DoorIsHeld, NobodyInside, Has
<1>3. {"look", "publish", "clear", "test", "step", "link", "search", "leave"} \subseteq Past
  BY DEF MemberPlaces, Places
<1>4. CASE Insert(t)
  <2>1. \/ sem' = sem /\ \E from, to \in Past : Goes(t, from, to)
        \/ sem' = sem /\ pc' = pc
    BY <1>3, <1>4 DEF Insert, LookAtHead, Publish, ClearHead, AtLastNode, NotLastNode,
                      NextNode, Crash, LinkNode
  <2> QED
    BY <1>1, <1>2, <2>1
<1>5. CASE Search(t)
  <2>1. \/ sem' = sem /\ \E from, to \in Past : Goes(t, from, to)
        \/ sem' = sem /\ pc' = pc
    BY <1>3, <1>5 DEF Search, FirstNode, SearchEnds, SearchGoesOn
  <2> QED
    BY <1>1, <1>2, <2>1
<1> QED
  BY <1>4, <1>5

(* A deleter has what it took, and posts what it has.                       *)
LEMMA DeletersHold ==
    ASSUME LocksInv, HoldersInv, NEW d \in Deleters, TakeThree(d) \/ PostThree(d)
    PROVE  HoldersInv'
<1>1. /\ sem \in [Semaphores -> 0 .. 1] /\ Groups = {"insert", "search"}
      /\ \A g \in Groups : RoomIsHeld(g) /\ DoorIsHeld(g)
  BY FiveSemaphores DEF LocksInv, LocksType, HoldersInv
<1>2. ASSUME NEW p \in DeleterPlaces, pc' = [pc EXCEPT ![d] = p],
             \A g \in Groups : sem'[Door[g]] = sem[Door[g]],
             \A g \in Groups : \/ sem'[Room[g]] # 0
                               \/ Has(d, g)'
                               \/ sem'[Room[g]] = sem[Room[g]] /\ ~Has(d, g),
             \/ sem'["deleter_mut"] # 0
             \/ p = "delete"
             \/ sem'["deleter_mut"] = sem["deleter_mut"] /\ pc[d] # "delete"
      PROVE  HoldersInv'
  <2>1. /\ pc'[d] = p /\ \A e \in Deleters \ {d} : pc'[e] = pc[e]
        /\ \A g \in Groups :
              /\ NobodyInside(g)' <=> NobodyInside(g)
              /\ \A u \in MembersOf(g) : pc'[u] = pc[u]
              /\ \A e \in Deleters \ {d} : Has(e, g)' <=> Has(e, g)
    BY <1>2, DeleterFacts
  <2>2. ASSUME NEW g \in Groups
        PROVE  RoomIsHeld(g)'
    BY <1>1, <1>2, <2>1 DEF RoomIsHeld
  <2>3. ASSUME NEW g \in Groups
        PROVE  DoorIsHeld(g)'
    BY <1>1, <1>2, <2>1 DEF DoorIsHeld
  <2>4. sem'["deleter_mut"] = 0 => \E e \in Deleters : pc'[e] = "delete"
    BY <1>2, <2>1 DEF HoldersInv
  <2> QED
    BY <2>2, <2>3, <2>4 DEF HoldersInv
<1>3. CASE DeleteWaits(d, "searcher_mut", "idle", "second")
  <2>1. /\ pc[d] = "idle" /\ pc' = [pc EXCEPT ![d] = "second"] /\ "second" \in DeleterPlaces
        /\ sem' = [sem EXCEPT !["searcher_mut"] = @ - 1]
    BY <1>3 DEF DeleteWaits, Waits, Goes, DeleterPlaces
  <2>2. pc'[d] = "second"
    BY <2>1, DeleterFacts
  <2>3. Has(d, "search")' /\ ~Has(d, "insert")
    BY <2>1, <2>2 DEF Has
  <2>4. \A s \in Semaphores \ {"searcher_mut"} : sem'[s] = sem[s]
    BY <1>1, <2>1
  <2> QED
    BY <1>1, <1>2, <2>1, <2>3, <2>4, FiveSemaphores
<1>4. CASE DeleteWaits(d, "inserter_mut", "second", "third")
  <2>1. /\ pc[d] = "second" /\ pc' = [pc EXCEPT ![d] = "third"] /\ "third" \in DeleterPlaces
        /\ sem' = [sem EXCEPT !["inserter_mut"] = @ - 1]
    BY <1>4 DEF DeleteWaits, Waits, Goes, DeleterPlaces
  <2>2. pc'[d] = "third"
    BY <2>1, DeleterFacts
  <2>3. \A g \in Groups : Has(d, g)'
    BY <2>2 DEF Has
  <2>4. \A s \in Semaphores \ {"inserter_mut"} : sem'[s] = sem[s]
    BY <1>1, <2>1
  <2> QED
    BY <1>1, <1>2, <2>1, <2>3, <2>4, FiveSemaphores
<1>5. CASE DeleteWaits(d, "deleter_mut", "third", "delete")
  <2>1. /\ pc' = [pc EXCEPT ![d] = "delete"] /\ "delete" \in DeleterPlaces
        /\ sem' = [sem EXCEPT !["deleter_mut"] = @ - 1]
    BY <1>5 DEF DeleteWaits, Waits, Goes, DeleterPlaces
  <2>2. pc'[d] = "delete"
    BY <2>1, DeleterFacts
  <2>3. \A g \in Groups : Has(d, g)'
    BY <2>2 DEF Has
  <2>4. \A s \in Semaphores \ {"deleter_mut"} : sem'[s] = sem[s]
    BY <1>1, <2>1
  <2> QED
    BY <1>1, <1>2, <2>1, <2>3, <2>4, FiveSemaphores
<1>6. CASE PostThree(d)
  <2>1. /\ pc' = [pc EXCEPT ![d] = "idle"] /\ "idle" \in DeleterPlaces
        /\ sem' = [sem EXCEPT !["searcher_mut"] = @ + 1, !["inserter_mut"] = @ + 1,
                              !["deleter_mut"] = @ + 1]
    BY <1>6 DEF PostThree, Goes, DeleterPlaces
  <2>2. /\ sem'["searcher_mut"] # 0 /\ sem'["inserter_mut"] # 0 /\ sem'["deleter_mut"] # 0
        /\ sem'["icounter"] = sem["icounter"] /\ sem'["scounter"] = sem["scounter"]
    BY <1>1, <2>1, FiveSemaphores
  <2> QED
    BY <1>1, <1>2, <2>1, <2>2, FiveSemaphores
<1> QED
  BY <1>3, <1>4, <1>5, <1>6 DEF TakeThree

(* Every step leaves every taken semaphore with somebody.                   *)
LEMMA NextHolders == LocksInv /\ HoldersInv /\ [Next]_vars => HoldersInv'
<1> SUFFICES ASSUME LocksInv, HoldersInv, [Next]_vars
             PROVE  HoldersInv'
  OBVIOUS
<1>1. CASE UNCHANGED vars
  BY <1>1 DEF vars, HoldersInv, RoomIsHeld, DoorIsHeld, NobodyInside, Has
<1>2. ASSUME NEW t \in Members, Arrive(t) \/ Join(t) \/ EnterRoom(t) \/ Leave(t)
      PROVE  HoldersInv'
  BY <1>2, MembersHold
<1>3. ASSUME NEW t \in Members, Insert(t) \/ Search(t)
      PROVE  HoldersInv'
  BY <1>3, BodiesHold
<1>4. ASSUME NEW d \in Deleters, Delete(d)
      PROVE  HoldersInv'
  BY <1>4, DeletersHold DEF Delete, DeleteNothing, DeleteNode
<1>5. CASE \E t \in Threads : Step(t)
  BY <1>2, <1>3, <1>4, <1>5 DEF Step, Members
<1> QED
  BY <1>1, <1>5 DEF Next

(* At first no semaphore is taken and nobody needs memory.                  *)
LEMMA InitHolders == Init => HoldersInv /\ MemoryInv
<1> SUFFICES ASSUME Init
             PROVE  HoldersInv /\ MemoryInv
  OBVIOUS
<1>1. HoldersInv
  BY OwnSemaphores, FiveSemaphores DEF Init, HoldersInv, RoomIsHeld, DoorIsHeld
<1>2. Needy = {}
  BY DEF Init, Needy, Threads
<1>3. MemoryInv
  BY <1>2, MemoryFinite, FS_EmptySet DEF MemoryInv
<1> QED
  BY <1>1, <1>3

\* Searchers are at none of the places of insert.
SearcherPlaces == {"idle", "gate", "look", "search", "leave"}
SearchersSearch == \A t \in Searchers : pc[t] \in SearcherPlaces

(* They stay away from them.                                                *)
LEMMA NextSearchers == LocksInv /\ SearchersSearch /\ [Next]_vars => SearchersSearch'
<1> SUFFICES ASSUME LocksInv, SearchersSearch, [Next]_vars
             PROVE  SearchersSearch'
  OBVIOUS
<1>1. pc \in [Threads -> Places] /\ Searchers \subseteq Threads
  BY DEF LocksInv, LocksType, Threads
<1>2. ASSUME NEW t \in Threads, NEW to, pc' = [pc EXCEPT ![t] = to],
             t \in Searchers => to \in SearcherPlaces
      PROVE  SearchersSearch'
  BY <1>1, <1>2 DEF SearchersSearch
<1>3. CASE pc' = pc
  BY <1>3 DEF SearchersSearch
<1>4. ASSUME NEW t \in Members, Arrive(t) \/ Join(t) \/ EnterRoom(t) \/ Leave(t)
      PROVE  SearchersSearch'
  <2>1. t \in Threads
    BY DEF Members, Threads
  <2>2. \E to \in SearcherPlaces : pc' = [pc EXCEPT ![t] = to]
    BY <1>4 DEF Arrive, Join, EnterRoom, Leave, Goes, SearcherPlaces
  <2> QED
    BY <1>2, <2>1, <2>2
<1>5. ASSUME NEW t \in Inserters, Insert(t)
      PROVE  SearchersSearch'
  <2>1. t \in Threads /\ t \notin Searchers
    BY ThreadsAssumption DEF Threads
  <2>2. pc' = pc \/ \E to \in Places : pc' = [pc EXCEPT ![t] = to]
    BY <1>5 DEF Insert, LookAtHead, Publish, ClearHead, AtLastNode, NotLastNode, NextNode,
                Crash, LinkNode, Goes, Places
  <2> QED
    BY <1>2, <1>3, <2>1, <2>2
<1>6. ASSUME NEW t \in Searchers, Search(t)
      PROVE  SearchersSearch'
  <2>1. pc' = pc \/ \E to \in SearcherPlaces : pc' = [pc EXCEPT ![t] = to]
    BY <1>6 DEF Search, FirstNode, SearchEnds, SearchGoesOn, Goes, SearcherPlaces
  <2> QED
    BY <1>1, <1>2, <1>3, <2>1
<1>7. ASSUME NEW d \in Deleters, Delete(d)
      PROVE  SearchersSearch'
  <2>1. d \in Threads /\ d \notin Searchers
    BY ThreadsAssumption DEF Threads
  <2>2. \E to \in Places : pc' = [pc EXCEPT ![d] = to]
    BY <1>7 DEF Delete, TakeThree, DeleteWaits, DeleteNothing, DeleteNode, PostThree, Goes,
                Places
  <2> QED
    BY <1>2, <2>1, <2>2
<1>8. CASE \E t \in Threads : Step(t)
  BY <1>4, <1>5, <1>6, <1>7, <1>8 DEF Step
<1> QED
  BY <1>3, <1>8 DEF Next, vars

(* A member inside waits for nobody.                                        *)
LEMMA InsideGoesOn ==
    ASSUME LocksInv, HoldersInv, MemoryInv, SearchersSearch, NEW g \in Groups, ~NobodyInside(g)
    PROVE  \E t \in Threads : pc[t] # "idle" /\ ~Blocked(t)
<1>1. PICK t \in MembersOf(g) : pc[t] \notin {"idle", "gate"}
  BY DEF NobodyInside
<1>2. /\ t \in Members /\ t \in Threads /\ pc[t] \notin {"second", "third", "delete"}
      /\ g = Group(t)
  BY OwnGroup, GroupsFinite DEF LocksInv, Roles
<1>3. ~(pc[t] = "leave" /\ sem[Door[Group(t)]] = 0)
  <2> SUFFICES ASSUME sem[Door[g]] = 0
               PROVE  FALSE
    BY <1>2
  <2>1. PICK u \in MembersOf(g) : pc[u] = "gate"
    BY DEF HoldersInv, DoorIsHeld
  <2>2. Counted(g) = {u} /\ t \in Counted(g)
    BY <1>1, <2>1 DEF LocksInv, DoorInv, Counted
  <2> QED
    BY <1>1, <2>1, <2>2
<1>4. ~(pc[t] \in {"publish", "test"} /\ Nodes \subseteq allocated)
  <2> SUFFICES ASSUME pc[t] \in {"publish", "test"}, Nodes \ allocated = {}
               PROVE  FALSE
    OBVIOUS
  <2>1. Cardinality(Nodes \ allocated) = 0
    BY FS_EmptySet
  <2>2. Needy = {}
    BY <2>1, MemoryFinite, FS_EmptySet DEF MemoryInv
  <2>3. t \in Inserters
    BY <1>2 DEF SearchersSearch, SearcherPlaces, Members
  <2> QED
    BY <2>2, <2>3 DEF Needy
<1> QED
  BY <1>1, <1>2, <1>3, <1>4 DEF Blocked

(* Of deleters that wait, some deleter further on, or a member inside, does *)
(* not.                                                                     *)
LEMMA DeleterGoesOn ==
    ASSUME LocksInv, HoldersInv, MemoryInv, SearchersSearch, NEW d \in Deleters, pc[d] # "idle"
    PROVE  \E t \in Threads : pc[t] # "idle" /\ ~Blocked(t)
<1>1. d \in Threads /\ Roles /\ "insert" \in Groups /\ Room["insert"] = "inserter_mut"
  BY FiveSemaphores DEF LocksInv, Threads
<1>2. ASSUME NEW e \in Deleters, pc[e] = "delete"
      PROVE  \E t \in Threads : pc[t] # "idle" /\ ~Blocked(t)
  BY <1>2 DEF Blocked, Threads
<1>3. ASSUME NEW e \in Deleters, pc[e] = "third"
      PROVE  \E t \in Threads : pc[t] # "idle" /\ ~Blocked(t)
  <2>1. CASE sem["deleter_mut"] = 0
    BY <1>2, <2>1 DEF HoldersInv
  <2>2. CASE sem["deleter_mut"] # 0
    BY <1>3, <2>2 DEF Blocked, Threads
  <2> QED
    BY <2>1, <2>2
<1>4. CASE pc[d] = "second"
  <2>1. CASE sem["inserter_mut"] = 0
    <3>1. ~NobodyInside("insert") \/ \E e \in Deleters : Has(e, "insert")
      BY <1>1, <2>1 DEF HoldersInv, RoomIsHeld
    <3>2. CASE ~NobodyInside("insert")
      BY <1>1, <3>2, InsideGoesOn
    <3>3. CASE \E e \in Deleters : Has(e, "insert")
      BY <1>2, <1>3, <3>3 DEF Has
    <3> QED
      BY <3>1, <3>2, <3>3
  <2>2. CASE sem["inserter_mut"] # 0
    BY <1>1, <1>4, <2>2 DEF Blocked
  <2> QED
    BY <2>1, <2>2
<1> QED
  BY <1>1, <1>2, <1>3, <1>4 DEF Roles

(* Inserters, searchers and deleters of prob2_conc3.c never all wait for     *)
(* each other, for any numbers of them: whatever order they take the five    *)
(* semaphores in, and although a group's semaphore is posted by another      *)
(* thread than took it, some thread in the middle of an operation can go on. *)
THEOREM SomeoneGoesOn == Spec => []NobodyStuck
<1>1. LocksInv /\ HoldersInv /\ MemoryInv /\ SearchersSearch => NobodyStuck
  <2> SUFFICES ASSUME LocksInv, HoldersInv, MemoryInv, SearchersSearch,
                      NEW t \in Threads, pc[t] # "idle"
               PROVE  \E u \in Threads : pc[u] # "idle" /\ ~Blocked(u)
    BY DEF NobodyStuck
  <2>1. CASE t \in Deleters
    BY <2>1, DeleterGoesOn
  <2>2. CASE t \in Members
    <3>1. PICK g \in Groups : g = Group(t) /\ t \in MembersOf(g)
      BY <2>2, OwnGroup
    <3>2. CASE ~NobodyInside(g)
      BY <3>2, InsideGoesOn
    <3>3. CASE NobodyInside(g)
      <4>1. pc[t] = "gate"
        BY <3>1, <3>3 DEF NobodyInside
      <4>2. CASE sem[Room[g]] = 0
        <5>1. PICK d \in Deleters : Has(d, g)
          BY <3>3, <4>2 DEF HoldersInv, RoomIsHeld
        <5>2. pc[d] # "idle"
          BY <5>1 DEF Has
        <5> QED
          BY <5>2, DeleterGoesOn
      <4>3. CASE sem[Room[g]] # 0
        BY <3>1, <4>1, <4>3 DEF Blocked
      <4> QED
        BY <4>2, <4>3
    <3> QED
      BY <3>2, <3>3
  <2> QED
    BY <2>1, <2>2 DEF Threads, Members
<1>2. Init => SearchersSearch
  BY DEF Init, SearchersSearch, SearcherPlaces, Threads
<1>3. Spec => [](LocksInv /\ HoldersInv /\ MemoryInv /\ SearchersSearch)
  BY <1>2, InitLocks, InitHolders, NextLocks, NextHolders, NextMemory, NextSearchers, PTL DEF Spec
<1> QED
  BY <1>1, <1>3, PTL
=============================================================================
