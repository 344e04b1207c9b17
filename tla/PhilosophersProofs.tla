-------------------------- MODULE PhilosophersProofs -------------------------
(***************************************************************************)
(* Proofs about Philosophers, for any number N of seats from two.           *)
(***************************************************************************)
EXTENDS Philosophers, NaturalsInduction, WellFoundedInduction, TLAPS

(* The forks of a seat are two different forks on the table.               *)
LEMMA ForksOnTable ==
    ASSUME NEW p \in Seats
    PROVE  Right(p) \in Seats /\ Left(p) \in Seats /\ Right(p) # Left(p)
  BY NAssumption DEF Right, Left, Forks, Seats

(* Everyone's right fork has the lower number: the order in which all the  *)
(* threads lock.                                                           *)
LEMMA RightBelowLeft ==
    ASSUME NEW p \in Seats
    PROVE  Right(p) < Left(p)
  BY NAssumption DEF Right, Left, Forks, Seats

(* The mark of a free mutex is no philosopher.                              *)
LEMMA NoneNotSeat == None \notin Seats
  BY NoneAssumption, NAssumption DEF Seats

(* Every message is followed by a step of the program.                     *)
LEMMA AfterType == \A s \in Says : After(s) \in Steps
  BY DEF Says, Steps, After

(***************************************************************************)
(* The types of the variables, and the mutexes held as the code says.       *)
(***************************************************************************)

(* Every variable keeps its type in every behaviour of the threads.        *)
THEOREM TypeCorrect == Spec => []TypeOK
<1>1. Init => TypeOK
  BY DEF Init, TypeOK, Steps, Says
<1>2. TypeOK /\ [Next]_vars => TypeOK'
  <2> SUFFICES ASSUME TypeOK, [Next]_vars
               PROVE  TypeOK'
    OBVIOUS
  <2> USE DEF TypeOK
  <2>1. ASSUME NEW p \in Seats, LockPrint(p)
        PROVE  TypeOK'
    BY <2>1 DEF LockPrint
  <2>2. ASSUME NEW p \in Seats, Say(p)
        PROVE  TypeOK'
    BY <2>2, AfterType DEF Say
  <2>3. ASSUME NEW p \in Seats, TakeRight(p)
        PROVE  TypeOK'
    BY <2>3 DEF TakeRight, Steps, Says
  <2>4. ASSUME NEW p \in Seats, TakeLeft(p)
        PROVE  TypeOK'
    BY <2>4 DEF TakeLeft, Steps, Says
  <2>5. ASSUME NEW p \in Seats, PutRight(p)
        PROVE  TypeOK'
    BY <2>5 DEF PutRight, Steps
  <2>6. ASSUME NEW p \in Seats, PutLeft(p)
        PROVE  TypeOK'
    BY <2>6 DEF PutLeft, Steps, Says
  <2>7. CASE UNCHANGED vars
    BY <2>7 DEF vars
  <2> QED
    BY <2>1, <2>2, <2>3, <2>4, <2>5, <2>6, <2>7 DEF Next, Step
<1> QED
  BY <1>1, <1>2, PTL DEF Spec

(***************************************************************************)
(* The mutexes held as the code says.                                       *)
(***************************************************************************)

IInv == TypeOK /\ ForksAgree

(* A step of one philosopher keeps the agreement of forks and steps.        *)
LEMMA ForksAgreeStep ==
    ASSUME IInv, NEW p \in Seats, Step(p)
    PROVE  ForksAgree'
<1> USE DEF IInv, TypeOK
<1> SUFFICES ASSUME NEW f \in Seats, NEW q \in Seats
             PROVE  fork'[f] = q <=> \/ f = Right(q) /\ HoldsRight(q)'
                                     \/ f = Left(q) /\ HoldsLeft(q)'
  BY DEF ForksAgree, Right, Left, Forks
<1>0. /\ Right(p) \in Seats /\ Left(p) \in Seats /\ Right(p) # Left(p)
      /\ None \notin Seats
  BY ForksOnTable, NoneNotSeat
<1>1. \A g, r \in Seats :
        fork[g] = r <=> \/ g = Right(r) /\ HoldsRight(r)
                        \/ g = Left(r) /\ HoldsLeft(r)
  BY DEF ForksAgree
<1>2. CASE LockPrint(p)
  BY <1>1, <1>2 DEF LockPrint, HoldsRight, HoldsLeft
<1>3. CASE Say(p)
  <2>1. /\ HoldsRight(q)' <=> HoldsRight(q)
        /\ HoldsLeft(q)' <=> HoldsLeft(q)
    BY <1>3 DEF Say, Says, After, HoldsRight, HoldsLeft
  <2> QED
    BY <2>1, <1>1, <1>3 DEF Say
<1>4. CASE TakeRight(p)
  BY <1>0, <1>1, <1>4 DEF TakeRight, HoldsRight, HoldsLeft
<1>5. CASE TakeLeft(p)
  BY <1>0, <1>1, <1>5 DEF TakeLeft, HoldsRight, HoldsLeft
<1>6. CASE PutRight(p)
  BY <1>0, <1>1, <1>6 DEF PutRight, HoldsRight, HoldsLeft
<1>7. CASE PutLeft(p)
  BY <1>0, <1>1, <1>7 DEF PutLeft, HoldsRight, HoldsLeft
<1> QED
  BY <1>2, <1>3, <1>4, <1>5, <1>6, <1>7 DEF Step

(* A fork's mutex is locked exactly by the philosopher whose code is between *)
(* taking it and putting it.                                                 *)
THEOREM ForksCorrect == Spec => []ForksAgree
<1>1. Init => ForksAgree
  BY NoneNotSeat DEF Init, ForksAgree, HoldsRight, HoldsLeft
<1>2. IInv /\ [Next]_vars => ForksAgree'
  <2>1. IInv /\ UNCHANGED vars => ForksAgree'
    BY DEF IInv, vars, ForksAgree, HoldsRight, HoldsLeft, Right, Left, Forks
  <2> QED
    BY <2>1, ForksAgreeStep DEF Next
<1> QED
  BY <1>1, <1>2, TypeCorrect, PTL DEF Spec, IInv

(* A philosopher that eats holds both of its forks, and a fork has one       *)
(* owner: philosophers that share a fork never eat at the same time.         *)
THEOREM TurnsCorrect == Spec => []NeighboursTakeTurns
<1>1. ForksAgree => NeighboursTakeTurns
  <2> SUFFICES ASSUME ForksAgree, NEW p \in Seats, NEW q \in Seats,
                      p # q, Eating(p), Eating(q),
                      NEW f \in ForksOf(p) \cap ForksOf(q)
               PROVE  FALSE
    BY DEF NeighboursTakeTurns
  <2>1. f \in Seats
    BY ForksOnTable DEF ForksOf
  <2>2. fork[f] = p /\ fork[f] = q
    BY <2>1 DEF ForksAgree, ForksOf, Eating, HoldsRight, HoldsLeft
  <2> QED
    BY <2>2
<1> QED
  BY <1>1, ForksCorrect, PTL

(***************************************************************************)
(* No circle of waits.                                                      *)
(***************************************************************************)

\* print_lock is held only by a philosopher that has a message to print.
PrinterSays == \A p \in Seats : printer = p => pc[p] \in Says

(* It holds in every behaviour.                                             *)
LEMMA PrinterCorrect == Spec => []PrinterSays
<1>1. Init => PrinterSays
  BY NoneNotSeat DEF Init, PrinterSays
<1>2. TypeOK /\ PrinterSays /\ [Next]_vars => PrinterSays'
  BY NoneNotSeat
     DEF TypeOK, PrinterSays, Next, vars, Step, LockPrint, Say, TakeRight,
         TakeLeft, PutRight, PutLeft, Says
<1> QED
  BY <1>1, <1>2, TypeCorrect, PTL DEF Spec

(* A set of forks has a greatest one.                                       *)
LEMMA GreatestFork ==
    ASSUME NEW S \in SUBSET Seats, S # {}
    PROVE  \E f \in S : \A g \in S : g <= f
<1> DEFINE T == {N - f : f \in S}
           Below == {ss \in Nat \X Nat : ss[1] < ss[2]}
<1>1. T \subseteq Nat /\ T # {}
  <2>1. \A f \in S : N - f \in Nat
    BY NAssumption DEF Seats
  <2> QED
    BY <2>1
<1>2. PICK d \in T : \A e \in T : <<e, d>> \notin Below
  <2>1. IsWellFoundedOn(Below, Nat)
    BY NatLessThanWellFounded DEF OpToRel
  <2> HIDE DEF T, Below
  <2> QED
    BY <1>1, <2>1, WFMin
<1>3. PICK f \in S : d = N - f
  BY <1>2
<1>4. ASSUME NEW g \in S
      PROVE  g <= f
  <2>1. N - g \in T
    OBVIOUS
  <2>2. ~(N - g < N - f)
    BY <1>1, <1>2, <1>3, <2>1
  <2> QED
    BY <2>2, NAssumption DEF Seats
<1> QED
  BY <1>4

(* Not all philosophers wait.  If they did, the owner of print_lock would    *)
(* have it to print, so it is free, and each waits for a fork.  The owner of *)
(* the highest fork taken has it as its right fork and waits for its left    *)
(* one, which is higher and must be taken as well.                           *)
THEOREM NoDeadlock == Spec => []NoCircularWait
<1>1. TypeOK /\ ForksAgree /\ PrinterSays => NoCircularWait
  <2> SUFFICES ASSUME TypeOK, ForksAgree, PrinterSays,
                      \A p \in Seats : Blocked(p)
               PROVE  FALSE
    BY DEF NoCircularWait
  <2> DEFINE Taken == {f \in Seats : fork[f] # None}
  <2>1. printer = None
    <3> SUFFICES ASSUME printer \in Seats
                 PROVE  FALSE
      BY DEF TypeOK
    <3> QED
      BY DEF PrinterSays, Blocked, Says
  <2>2. ASSUME NEW p \in Seats
        PROVE  \/ pc[p] = "takeRight" /\ Right(p) \in Taken
               \/ pc[p] = "takeLeft" /\ Left(p) \in Taken
    BY <2>1, ForksOnTable DEF Blocked
  <2>3. Taken # {}
    <3>1. 0 \in Seats
      BY NAssumption DEF Seats
    <3> QED
      BY <2>2, <3>1
  <2>4. PICK f \in Taken : \A g \in Taken : g <= f
    <3>1. Taken \in SUBSET Seats
      OBVIOUS
    <3> QED
      BY <2>3, <3>1, GreatestFork
  <2>5. PICK q \in Seats : fork[f] = q
    BY DEF TypeOK
  <2>6. pc[q] = "takeLeft" /\ Left(q) \in Taken /\ f = Right(q)
    BY <2>2, <2>5 DEF ForksAgree, HoldsRight, HoldsLeft
  <2>7. Left(q) <= f /\ f < Left(q)
    BY <2>4, <2>6, RightBelowLeft
  <2> QED
    BY <2>7, ForksOnTable DEF Seats
<1> QED
  BY <1>1, TypeCorrect, ForksCorrect, PrinterCorrect, PTL
=============================================================================
