-------------------------- MODULE SearchInsertDelete -------------------------
(***************************************************************************)
(* The searchers, inserters and deleters of Concurrency3/prob2_conc3.c on   *)
(* one linked list.  Searchers share searcher_mut and inserters share       *)
(* inserter_mut, each group through a counter whose first and last member   *)
(* take and give back the semaphore; a deleter takes both.  Inserters work  *)
(* on the list together, so insert is one step per access to it.            *)
(*                                                                         *)
(* What the nodes hold is left out: a search or a deletion may match at any *)
(* node.  The Makefile compiles without optimisation: an expression written *)
(* twice is read twice.                                                     *)
(***************************************************************************)
EXTENDS Naturals, FiniteSets

CONSTANTS
    Inserters, Searchers, Deleters,     \* insert_, search_, delete_threads
    Nodes,                              \* the memory malloc can hand out
    Nil                                 \* NULL

ASSUME ThreadsAssumption ==
    /\ IsFiniteSet(Inserters) /\ IsFiniteSet(Searchers)
    /\ Inserters \cap Searchers = {}
    /\ Inserters \cap Deleters = {}
    /\ Searchers \cap Deleters = {}
ASSUME NodesAssumption == IsFiniteSet(Nodes)
ASSUME NilAssumption == Nil \notin Nodes

VARIABLES
    sem,        \* the five semaphores
    count,      \* insert_counter and search_counter, by the group's name
    pc,         \* where each thread is
    head,       \* head->head
    next,       \* the link of every node
    allocated,  \* nodes that malloc returned and free did not get back
    iterator,   \* a thread's iterator
    temp,       \* an inserter's new node
    crashed     \* the program ended by following NULL

vars == <<sem, count, pc, head, next, allocated, iterator, temp, crashed>>

Threads == Inserters \cup Searchers \cup Deleters
Members == Inserters \cup Searchers
Groups == {"insert", "search"}
Group(t) == IF t \in Inserters THEN "insert" ELSE "search"

\* inserter_mut and searcher_mut; icounter and scounter; deleter_mut.
Room == [insert |-> "inserter_mut", search |-> "searcher_mut"]
Door == [insert |-> "icounter", search |-> "scounter"]
Semaphores == {Room[g] : g \in Groups} \cup {Door[g] : g \in Groups} \cup {"deleter_mut"}

\* "gate": first of its group, waits for the group's room holding the door.
\* "look": about to read head->head.
\* "publish", "clear", "test", "step", "link": in insert's body.
\* "search": at a node.  "leave": through with the list.
\* "second", "third": a deleter with one, two of its semaphores.
\* "delete": with all three.
Places == {"idle", "gate", "look", "publish", "clear", "test", "step", "link",
           "search", "leave", "second", "third", "delete"}

TypeOK ==
    /\ sem \in [Semaphores -> 0 .. 1]
    /\ count \in [Groups -> Nat]
    /\ pc \in [Threads -> Places]
    /\ head \in Nodes \cup {Nil}
    /\ next \in [Nodes -> Nodes \cup {Nil}]
    /\ allocated \subseteq Nodes
    /\ iterator \in [Threads -> Nodes \cup {Nil}]
    /\ temp \in [Threads -> Nodes \cup {Nil}]
    /\ crashed \in BOOLEAN

list == <<head, next, allocated, crashed>>
locals == <<iterator, temp>>

\* main's malloc of the list head is the first of the program: it is zero.
Init ==
    /\ sem = [s \in Semaphores |-> 1]
    /\ count = [g \in Groups |-> 0]
    /\ pc = [t \in Threads |-> "idle"]
    /\ head = Nil
    /\ next = [n \in Nodes |-> Nil]
    /\ allocated = {}
    /\ iterator = [t \in Threads |-> Nil]
    /\ temp = [t \in Threads |-> Nil]
    /\ crashed = FALSE

Goes(t, from, to) == pc[t] = from /\ pc' = [pc EXCEPT ![t] = to]

Waits(s) == sem[s] > 0 /\ sem' = [sem EXCEPT ![s] = @ - 1]

-----------------------------------------------------------------------------
(* Entering and leaving a group: the same in insert and in search          *)

\* Memory bound: an inserter starts only if malloc can serve all inside.
HeapBound(t) ==
    t \in Inserters => Cardinality(Nodes \ allocated) > count["insert"]

\* Nobody of the group is inside.
IsFirst(g) == count[g] = 0

\* Take the door, count, open the door: unless it is the first of the group.
Join(t) ==
    LET g == Group(t)
    IN  /\ ~IsFirst(g) /\ sem[Door[g]] = 1 /\ HeapBound(t)
        /\ Goes(t, "idle", "look")
        /\ count' = [count EXCEPT ![g] = @ + 1]
        /\ UNCHANGED <<sem, list, locals>>

\* The first of the group keeps the door shut until it has the room.
Arrive(t) ==
    LET g == Group(t)
    IN  /\ IsFirst(g) /\ HeapBound(t)
        /\ Waits(Door[g])
        /\ Goes(t, "idle", "gate")
        /\ count' = [count EXCEPT ![g] = @ + 1]
        /\ UNCHANGED <<list, locals>>

EnterRoom(t) ==
    LET g == Group(t)
    IN  /\ sem[Room[g]] > 0
        /\ sem' = [sem EXCEPT ![Room[g]] = @ - 1, ![Door[g]] = @ + 1]
        /\ Goes(t, "gate", "look")
        /\ UNCHANGED <<count, list, locals>>

\* Plausible bug: every member gives back the room.
LeaveAlwaysPosts(t) ==
    LET g == Group(t)
    IN  /\ sem[Door[g]] = 1
        /\ Goes(t, "leave", "idle")
        /\ count' = [count EXCEPT ![g] = @ - 1]
        /\ sem' = [sem EXCEPT ![Room[g]] = @ + 1]
        /\ iterator' = [iterator EXCEPT ![t] = Nil]
        /\ temp' = [temp EXCEPT ![t] = Nil]
        /\ UNCHANGED list

\* Plausible bug: the test for the last one is made before the count.
LeaveKeepsRoom(t) ==
    LET g == Group(t)
    IN  /\ sem[Door[g]] = 1
        /\ Goes(t, "leave", "idle")
        /\ count' = [count EXCEPT ![g] = @ - 1]
        /\ sem' = IF IsFirst(g) THEN [sem EXCEPT ![Room[g]] = @ + 1] ELSE sem
        /\ iterator' = [iterator EXCEPT ![t] = Nil]
        /\ temp' = [temp EXCEPT ![t] = Nil]
        /\ UNCHANGED list

\* Take the door, count down; the last one gives back the room.
Leave(t) ==
    LET g == Group(t)
    IN  /\ sem[Door[g]] = 1
        /\ Goes(t, "leave", "idle")
        /\ count' = [count EXCEPT ![g] = @ - 1]
        /\ sem' = IF count[g] = 1 THEN [sem EXCEPT ![Room[g]] = @ + 1] ELSE sem
        /\ iterator' = [iterator EXCEPT ![t] = Nil]
        /\ temp' = [temp EXCEPT ![t] = Nil]
        /\ UNCHANGED list

-----------------------------------------------------------------------------
(* The body of insert                                                      *)

LookAtHead(t) ==
    /\ Goes(t, "look", IF head = Nil THEN "publish" ELSE "test")
    /\ iterator' = [iterator EXCEPT ![t] = head]
    /\ UNCHANGED <<sem, count, list, temp>>

\* The new node is in the list before its link is set: until then it holds
\* what the memory held, which malloc may or may not have cleared.
Publish(t) ==
    /\ Goes(t, "publish", "clear")
    /\ \E n \in Nodes \ allocated :
          /\ head' = n
          /\ allocated' = allocated \cup {n}
          /\ \E link \in {next[n], Nil} : next' = [next EXCEPT ![n] = link]
    /\ UNCHANGED <<sem, count, locals, crashed>>

\* Plausible bug: the new head's link is left as it is.
ClearHeadNot(t) ==
    /\ Goes(t, "clear", "leave")
    /\ UNCHANGED <<sem, count, list, locals>>

\* head->head->next = NULL, whatever head->head is by now.
ClearHead(t) ==
    /\ Goes(t, "clear", "leave")
    /\ next' = [next EXCEPT ![head] = Nil]
    /\ UNCHANGED <<sem, count, head, allocated, crashed, locals>>

\* The loop's test reads the link; at the last node, malloc and set the new
\* node's link.
AtLastNode(t) ==
    /\ iterator[t] # Nil /\ next[iterator[t]] = Nil
    /\ Goes(t, "test", "link")
    /\ \E n \in Nodes \ allocated :
          /\ allocated' = allocated \cup {n}
          /\ temp' = [temp EXCEPT ![t] = n]
          /\ next' = [next EXCEPT ![n] = Nil]
    /\ UNCHANGED <<sem, count, head, iterator, crashed>>

NotLastNode(t) ==
    /\ iterator[t] # Nil /\ next[iterator[t]] # Nil
    /\ Goes(t, "test", "step")
    /\ UNCHANGED <<sem, count, list, locals>>

\* The loop's body reads the link again.
NextNode(t) ==
    /\ Goes(t, "step", "test")
    /\ iterator' = [iterator EXCEPT ![t] = next[iterator[t]]]
    /\ UNCHANGED <<sem, count, list, temp>>

\* The link was cleared between the two reads: the test follows NULL.
Crash(t) ==
    /\ pc[t] = "test" /\ iterator[t] = Nil
    /\ crashed' = TRUE
    /\ UNCHANGED <<sem, count, pc, head, next, allocated, locals>>

LinkNode(t) ==
    /\ Goes(t, "link", "leave")
    /\ next' = [next EXCEPT ![iterator[t]] = temp[t]]
    /\ UNCHANGED <<sem, count, head, allocated, crashed, locals>>

-----------------------------------------------------------------------------
(* The body of search                                                      *)

FirstNode(t) ==
    /\ Goes(t, "look", "search")
    /\ iterator' = [iterator EXCEPT ![t] = head]
    /\ UNCHANGED <<sem, count, list, temp>>

\* The value is at this node, or the list ends here.
SearchEnds(t) ==
    /\ Goes(t, "search", "leave")
    /\ UNCHANGED <<sem, count, list, locals>>

SearchGoesOn(t) ==
    /\ pc[t] = "search" /\ iterator[t] # Nil
    /\ iterator' = [iterator EXCEPT ![t] = next[iterator[t]]]
    /\ UNCHANGED <<sem, count, pc, list, temp>>

-----------------------------------------------------------------------------
(* delete                                                                  *)

\* The nodes that can be reached from the list's head.
Reachable ==
    {n \in Nodes : \A S \in SUBSET Nodes :
        /\ head # Nil => head \in S
        /\ \A m \in S : next[m] # Nil => next[m] \in S
        => n \in S}

DeleteWaits(t, s, from, to) ==
    /\ Waits(s) /\ Goes(t, from, to)
    /\ UNCHANGED <<count, list, locals>>

\* Plausible bug: inserters are not kept out.
TakeTwo(t) ==
    \/ DeleteWaits(t, "searcher_mut", "idle", "third")
    \/ DeleteWaits(t, "deleter_mut", "third", "delete")

TakeThree(t) ==
    \/ DeleteWaits(t, "searcher_mut", "idle", "second")
    \/ DeleteWaits(t, "inserter_mut", "second", "third")
    \/ DeleteWaits(t, "deleter_mut", "third", "delete")

\* Plausible bug: inserter_mut is not posted.
PostTwo(t) ==
    /\ Goes(t, "delete", "idle")
    /\ sem' = [sem EXCEPT !["searcher_mut"] = @ + 1, !["deleter_mut"] = @ + 1]
    /\ UNCHANGED <<count, locals>>

PostThree(t) ==
    /\ Goes(t, "delete", "idle")
    /\ sem' = [sem EXCEPT !["searcher_mut"] = @ + 1,
                          !["inserter_mut"] = @ + 1, !["deleter_mut"] = @ + 1]
    /\ UNCHANGED <<count, locals>>

\* The loop ends without a match, or the list is empty.
DeleteNothing(t) == PostThree(t) /\ UNCHANGED list

\* The loop stops at n, which is unlinked and freed; its memory keeps its link.
DeleteNode(t, n) ==
    /\ PostThree(t)
    /\ n \in Reachable
    /\ head' = IF head = n THEN next[n] ELSE head
    /\ next' = [m \in Nodes |->
                  IF m \in Reachable /\ next[m] = n /\ head # n THEN next[n] ELSE next[m]]
    /\ allocated' = allocated \ {n}
    /\ UNCHANGED crashed

-----------------------------------------------------------------------------

Insert(t) ==
    \/ LookAtHead(t) \/ Publish(t) \/ ClearHead(t)
    \/ AtLastNode(t) \/ NotLastNode(t) \/ NextNode(t) \/ Crash(t) \/ LinkNode(t)

Search(t) == FirstNode(t) \/ SearchEnds(t) \/ SearchGoesOn(t)

Delete(t) == TakeThree(t) \/ DeleteNothing(t) \/ \E n \in Nodes : DeleteNode(t, n)

Step(t) ==
    /\ ~crashed
    /\ \/ t \in Members /\ (Arrive(t) \/ Join(t) \/ EnterRoom(t) \/ Leave(t))
       \/ t \in Inserters /\ Insert(t)
       \/ t \in Searchers /\ Search(t)
       \/ t \in Deleters /\ Delete(t)

Next == (\E t \in Threads : Step(t)) \/ (crashed /\ UNCHANGED vars)

Spec == Init /\ [][Next]_vars

FairSpec == Spec /\ \A t \in Threads : WF_vars(Step(t))

-----------------------------------------------------------------------------
(* Properties                                                              *)

\* A deleter at work has the list to itself: no inserter, no searcher and no
\* other deleter is between its first and its last access to the list
\* (prob2_conc3.c:145-147), although a group gives its semaphore back by a
\* thread that need not be the one that took it.
DeleterAlone ==
    \A d \in Deleters : pc[d] = "delete" =>
        \A t \in Threads \ {d} : pc[t] \in {"idle", "gate", "second", "third"}

\* However inserters ran into each other, once they are gone the list is one
\* that delete can walk: it ends, no link leads to freed memory, and no two
\* links lead to the same node.
ListSound ==
    (\A t \in Inserters : pc[t] \in {"idle", "gate", "leave"}) =>
        /\ head # Nil => \E n \in Reachable : next[n] = Nil
        /\ Reachable \subseteq allocated
        /\ \A m, n \in Reachable : next[m] # Nil /\ next[m] = next[n] => m = n

\* "Inserter %lu: Inserted %d." (prob2_conc3.c:74): a node that an inserter
\* has reported as inserted, and no deleter removed, is in the list.
InsertedIsListed ==
    (\A t \in Inserters : pc[t] = "idle") => allocated \subseteq Reachable

\* The thread waits for a semaphore that is taken, or for memory.
Blocked(t) ==
    \/ pc[t] = "gate" /\ sem[Room[Group(t)]] = 0
    \/ pc[t] = "leave" /\ sem[Door[Group(t)]] = 0
    \/ pc[t] = "second" /\ sem["inserter_mut"] = 0
    \/ pc[t] = "third" /\ sem["deleter_mut"] = 0
    \/ /\ pc[t] = "publish" \/ (pc[t] = "test" /\ iterator[t] # Nil /\ next[iterator[t]] = Nil)
       /\ Nodes \subseteq allocated

\* No semaphore is lost and no thread waits for one that waits for it, as a
\* deleter does with searcher_mut in hand (prob2_conc3.c:145-147) and a first
\* member with its group's door shut (:47-50): while anybody is at an
\* operation, somebody can go on with one.
NobodyStuck ==
    (\E t \in Threads : pc[t] # "idle") => \E t \in Threads : pc[t] # "idle" /\ ~Blocked(t)

\* The thread's iterator is at a node that is not in the list.
Astray(t) == iterator[t] \in Nodes \ Reachable

\* Whatever the interleaving, somebody's operation ends again and again:
\* three kinds of thread and five semaphores never stop each other.  The one
\* exception is a new head's link that is followed before it is set
\* (prob2_conc3.c:56-58): a thread that it leads away from the list can end
\* the program or go round in freed memory, with its group's semaphore taken.
OperationsEnd ==
    \/ <>crashed
    \/ <>[](\E t \in Members : Astray(t))
    \/ []<><<\E t \in Threads : pc[t] # "idle" /\ pc'[t] = "idle">>_vars
=============================================================================
