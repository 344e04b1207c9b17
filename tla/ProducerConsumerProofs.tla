------------------------ MODULE ProducerConsumerProofs -----------------------
(***************************************************************************)
(* Proofs about ProducerConsumer, for any sets of producers and consumers,  *)
(* any items and any buffer size: the mutex excludes, the buffer never      *)
(* overflows, and the program implements a bounded stack.                   *)
(***************************************************************************)
EXTENDS ProducerConsumer, SequenceTheorems, TLAPS

(***************************************************************************)
(* The inductive invariant.  Between the write and the count, and between   *)
(* the read and the count, the mutex keeps the top of the buffer as the     *)
(* thread left it or found it.                                              *)
(***************************************************************************)

Holding == {"locked", "write", "read", "count", "unlock"}

\* The slots below num_items hold items.
Filled == \A s \in Slots : s < num_items => buffer[s] \in Items

ProducerInv(p) ==
    /\ pc[p] \in {"start", "locked", "write", "count", "unlock"}
    /\ pc[p] \in {"write", "count"} => num_items < MaxBufferSize /\ data[p] \in Items
    /\ pc[p] = "count" => buffer[num_items] = data[p]

ConsumerInv(c) ==
    /\ pc[c] \in {"start", "locked", "read", "count", "unlock", "use"}
    /\ pc[c] \in {"read", "count"} => num_items > 0
    /\ pc[c] = "count" => data[c] = buffer[num_items - 1]
    /\ pc[c] \in {"unlock", "use"} => data[c] \in Items

IInv ==
    /\ TypeOK
    /\ Exclusive
    /\ Filled
    /\ \A p \in Producers : ProducerInv(p)
    /\ \A c \in Consumers : ConsumerInv(c)

(* It holds initially.                                                      *)
LEMMA InitIInv == Init => IInv
<1> SUFFICES ASSUME Init
             PROVE  IInv
  OBVIOUS
<1>1. TypeOK
  BY SizeAssumption DEF Init, TypeOK, Steps
<1>2. \A t \in Threads : pc[t] = "start" /\ mutex # t
  BY NilAssumption DEF Init, Threads
<1>3. Exclusive
  BY <1>2 DEF Exclusive
<1>4. Filled
  BY DEF Init, Filled, Slots
<1> QED
  BY <1>1, <1>2, <1>3, <1>4 DEF IInv, ProducerInv, ConsumerInv, Threads

(* A thread that holds the mutex is alone with the buffer: what it does     *)
(* there disturbs no invariant of another.                                  *)
LEMMA OthersKeep ==
    ASSUME IInv, NEW t \in Threads, NEW to \in Steps, pc' = [pc EXCEPT ![t] = to],
           NEW u \in Threads \ {t}, data'[u] = data[u],
           \/ mutex = t
           \/ num_items' = num_items /\ buffer' = buffer
    PROVE  /\ u \in Producers => ProducerInv(u)'
           /\ u \in Consumers => ConsumerInv(u)'
<1>1. pc'[u] = pc[u]
  BY DEF IInv, TypeOK
<1>2. CASE mutex = t
  <2>1. pc[u] \notin Holding
    BY <1>2 DEF IInv, Exclusive, Holding
  <2> QED
    BY <1>1, <2>1 DEF IInv, ProducerInv, ConsumerInv, Holding
<1>3. CASE num_items' = num_items /\ buffer' = buffer
  BY <1>1, <1>3 DEF IInv, ProducerInv, ConsumerInv
<1> QED
  BY <1>2, <1>3

(* The steps that take and give back the mutex, and those between.          *)
LEMMA ExclusiveKept ==
    ASSUME IInv, NEW t \in Threads, NEW to \in Steps, pc' = [pc EXCEPT ![t] = to],
           \/ mutex = Nil /\ mutex' = t /\ to \in Holding
           \/ mutex = t /\ mutex' = t /\ to \in Holding
           \/ mutex = t /\ mutex' = Nil /\ to \notin Holding
           \/ mutex # t /\ mutex' = mutex /\ to \notin Holding
    PROVE  Exclusive'
<1>1. pc'[t] = to /\ \A u \in Threads \ {t} : pc'[u] = pc[u]
  BY DEF IInv, TypeOK
<1>2. Nil \notin Threads
  BY NilAssumption DEF Threads
<1>3. \A u \in Threads : mutex = u <=> pc[u] \in Holding
  BY DEF IInv, Exclusive, Holding
<1>4. \A u \in Threads : mutex' = u <=> pc'[u] \in Holding
  BY <1>1, <1>2, <1>3
<1> QED
  BY <1>4 DEF Exclusive, Holding

(* What is left to show of a step of thread t.                              *)
LEMMA StepKept ==
    ASSUME IInv, NEW t \in Threads, NEW to \in Steps, pc' = [pc EXCEPT ![t] = to],
           \/ mutex = Nil /\ mutex' = t /\ to \in Holding
           \/ mutex = t /\ mutex' = t /\ to \in Holding
           \/ mutex = t /\ mutex' = Nil /\ to \notin Holding
           \/ mutex # t /\ mutex' = mutex /\ to \notin Holding,
           \/ mutex = t
           \/ num_items' = num_items /\ buffer' = buffer,
           buffer' \in [Slots -> Items \cup {Nil}], num_items' \in 0 .. MaxBufferSize, Filled',
           NEW x \in Items \cup {Nil}, data' = data \/ data' = [data EXCEPT ![t] = x],
           t \in Producers => ProducerInv(t)', t \in Consumers => ConsumerInv(t)'
    PROVE  IInv'
<1>1. Exclusive'
  BY ExclusiveKept
<1>2. TypeOK'
  <2>1. mutex' \in Threads \cup {Nil}
    BY DEF IInv, TypeOK
  <2>2. data' \in [Threads -> Items \cup {Nil}] /\ pc' \in [Threads -> Steps]
    BY DEF IInv, TypeOK
  <2> QED
    BY <2>1, <2>2 DEF TypeOK
<1>3. \A u \in Threads \ {t} : data'[u] = data[u]
  BY DEF IInv, TypeOK
<1>4. \A u \in Threads \ {t} : /\ u \in Producers => ProducerInv(u)'
                               /\ u \in Consumers => ConsumerInv(u)'
  BY <1>3, OthersKeep
<1>5. \A p \in Producers : ProducerInv(p)'
  BY <1>4 DEF Threads
<1>6. \A c \in Consumers : ConsumerInv(c)'
  BY <1>4 DEF Threads
<1> QED
  BY <1>1, <1>2, <1>5, <1>6 DEF IInv

(* Locking, and going back when there is no room or no item.                *)
LEMMA LockSteps ==
    ASSUME IInv, NEW t \in Threads, Lock(t) \/ TurnedAway(t)
    PROVE  IInv'
<1>1. /\ buffer' = buffer /\ num_items' = num_items /\ data' = data
      /\ buffer' \in [Slots -> Items \cup {Nil}] /\ num_items' \in 0 .. MaxBufferSize
      /\ Filled'
  BY DEF Lock, TurnedAway, IInv, TypeOK, Filled
<1>2. PICK to \in {"locked", "start"} :
         /\ pc' = [pc EXCEPT ![t] = to]
         /\ \/ mutex = Nil /\ mutex' = t /\ to \in Holding
            \/ mutex = t /\ mutex' = Nil /\ to \notin Holding
  BY DEF Lock, TurnedAway, At, Goto, Holding, IInv, Exclusive
<1>3. to \in Steps /\ pc'[t] = to
  BY <1>2 DEF Steps, IInv, TypeOK
<1>4. t \in Producers => ProducerInv(t)'
  BY <1>2, <1>3 DEF ProducerInv
<1>5. t \in Consumers => ConsumerInv(t)'
  BY <1>2, <1>3 DEF ConsumerInv
<1> QED
  BY <1>1, <1>2, <1>3, <1>4, <1>5, StepKept

(* A producer's critical section.                                           *)
LEMMA ProducerSteps ==
    ASSUME IInv, NEW p \in Producers, Produce(p)
    PROVE  IInv'
<1> USE SizeAssumption
<1>1. p \in Threads /\ p \notin Consumers
  BY ThreadsAssumption DEF Threads
<1>2. /\ pc \in [Threads -> Steps] /\ data \in [Threads -> Items \cup {Nil}]
      /\ buffer \in [Slots -> Items \cup {Nil}] /\ num_items \in 0 .. MaxBufferSize
      /\ Filled /\ ProducerInv(p)
  BY DEF IInv, TypeOK
<1>3. mutex = p
  BY <1>1 DEF Produce, Generate, Write, CountUp, Produced, At, IInv, Exclusive
<1>4. ASSUME NEW x \in Items, Generate(p, x)
      PROVE  IInv'
  <2>1. /\ pc' = [pc EXCEPT ![p] = "write"] /\ data' = [data EXCEPT ![p] = x]
        /\ buffer' = buffer /\ num_items' = num_items /\ mutex' = mutex
        /\ num_items < MaxBufferSize
    BY <1>2, <1>4 DEF Generate, Goto, Full
  <2>2. ProducerInv(p)'
    BY <1>1, <1>2, <2>1 DEF ProducerInv
  <2>3. "write" \in Steps /\ "write" \in Holding /\ Filled'
    BY <1>2, <2>1 DEF Steps, Holding, Filled
  <2> QED
    BY <1>1, <1>2, <1>3, <2>1, <2>2, <2>3, StepKept
<1>5. CASE Write(p)
  <2>1. /\ pc[p] = "write" /\ pc' = [pc EXCEPT ![p] = "count"] /\ data' = data
        /\ buffer' = [buffer EXCEPT ![num_items] = data[p]]
        /\ num_items' = num_items /\ mutex' = mutex
    BY <1>5 DEF Write, Goto, At
  <2>2. num_items \in Slots /\ num_items < MaxBufferSize /\ data[p] \in Items
    BY <1>2, <2>1 DEF ProducerInv, Slots
  <2>3. buffer' \in [Slots -> Items \cup {Nil}] /\ buffer'[num_items] = data[p]
    BY <1>2, <2>1, <2>2
  <2>4. Filled'
    BY <1>2, <2>1, <2>2 DEF Filled, Slots
  <2>5. ProducerInv(p)'
    BY <1>1, <1>2, <2>1, <2>2, <2>3 DEF ProducerInv
  <2>6. "count" \in Steps /\ "count" \in Holding
    BY DEF Steps, Holding
  <2> QED
    BY <1>1, <1>2, <1>3, <2>1, <2>3, <2>4, <2>5, <2>6, StepKept
<1>6. CASE CountUp(p)
  <2>1. /\ pc[p] = "count" /\ pc' = [pc EXCEPT ![p] = "unlock"] /\ data' = data
        /\ buffer' = buffer /\ num_items' = num_items + 1 /\ mutex' = mutex
    BY <1>6 DEF CountUp, Goto, At
  <2>2. num_items < MaxBufferSize /\ data[p] \in Items /\ buffer[num_items] = data[p]
    BY <1>2, <2>1 DEF ProducerInv
  <2>3. num_items' \in 0 .. MaxBufferSize
    BY <1>2, <2>1, <2>2
  <2>4. Filled'
    BY <1>2, <2>1, <2>2 DEF Filled, Slots
  <2>5. ProducerInv(p)'
    BY <1>1, <1>2, <2>1 DEF ProducerInv
  <2>6. "unlock" \in Steps /\ "unlock" \in Holding
    BY DEF Steps, Holding
  <2> QED
    BY <1>1, <1>2, <1>3, <2>1, <2>3, <2>4, <2>5, <2>6, StepKept
<1>7. CASE Produced(p)
  <2>1. /\ pc' = [pc EXCEPT ![p] = "start"] /\ data' = [data EXCEPT ![p] = Nil]
        /\ buffer' = buffer /\ num_items' = num_items /\ mutex' = Nil
    BY <1>7 DEF Produced, Goto
  <2>2. ProducerInv(p)'
    BY <1>1, <1>2, <2>1 DEF ProducerInv
  <2>3. "start" \in Steps /\ "start" \notin Holding /\ Filled'
    BY <1>2, <2>1 DEF Steps, Holding, Filled
  <2> QED
    BY <1>1, <1>2, <1>3, <2>1, <2>2, <2>3, StepKept
<1> QED
  BY <1>4, <1>5, <1>6, <1>7 DEF Produce

(* A consumer's critical section, and what it does after it.                *)
LEMMA ConsumerSteps ==
    ASSUME IInv, NEW c \in Consumers, Consume(c)
    PROVE  IInv'
<1> USE SizeAssumption
<1>1. c \in Threads /\ c \notin Producers
  BY ThreadsAssumption DEF Threads
<1>2. /\ pc \in [Threads -> Steps] /\ data \in [Threads -> Items \cup {Nil}]
      /\ buffer \in [Slots -> Items \cup {Nil}] /\ num_items \in 0 .. MaxBufferSize
      /\ Filled /\ ConsumerInv(c)
  BY DEF IInv, TypeOK
<1>3. pc[c] # "use" /\ pc[c] # "start" => mutex = c
  BY <1>1, <1>2 DEF IInv, Exclusive, ConsumerInv
<1>4. CASE FindItem(c)
  <2>1. /\ pc[c] = "locked" /\ pc' = [pc EXCEPT ![c] = "read"] /\ data' = data
        /\ buffer' = buffer /\ num_items' = num_items /\ mutex' = mutex /\ num_items # 0
    BY <1>4 DEF FindItem, Goto, At, Empty
  <2>2. ConsumerInv(c)'
    BY <1>1, <1>2, <2>1 DEF ConsumerInv
  <2>3. "read" \in Steps /\ "read" \in Holding /\ Filled'
    BY <1>2, <2>1 DEF Steps, Holding, Filled
  <2> QED
    BY <1>1, <1>2, <1>3, <2>1, <2>2, <2>3, StepKept
<1>5. CASE Read(c)
  <2>1. /\ pc[c] = "read" /\ pc' = [pc EXCEPT ![c] = "count"]
        /\ data' = [data EXCEPT ![c] = buffer[num_items - 1]]
        /\ buffer' = buffer /\ num_items' = num_items /\ mutex' = mutex
    BY <1>5 DEF Read, Goto, At
  <2>2. num_items > 0 /\ num_items - 1 \in Slots /\ buffer[num_items - 1] \in Items
    BY <1>2, <2>1 DEF ConsumerInv, Slots, Filled
  <2>3. ConsumerInv(c)'
    BY <1>1, <1>2, <2>1, <2>2 DEF ConsumerInv
  <2>4. "count" \in Steps /\ "count" \in Holding /\ Filled'
    BY <1>2, <2>1 DEF Steps, Holding, Filled
  <2> QED
    BY <1>1, <1>2, <1>3, <2>1, <2>2, <2>3, <2>4, StepKept
<1>6. CASE CountDown(c)
  <2>1. /\ pc[c] = "count" /\ pc' = [pc EXCEPT ![c] = "unlock"] /\ data' = data
        /\ buffer' = buffer /\ num_items' = num_items - 1 /\ mutex' = mutex
    BY <1>6 DEF CountDown, Goto, At
  <2>2. num_items > 0 /\ num_items - 1 \in Slots /\ data[c] \in Items
    BY <1>2, <2>1 DEF ConsumerInv, Slots, Filled
  <2>3. num_items' \in 0 .. MaxBufferSize /\ Filled'
    BY <1>2, <2>1, <2>2 DEF Filled, Slots
  <2>4. ConsumerInv(c)'
    BY <1>1, <1>2, <2>1, <2>2 DEF ConsumerInv
  <2>5. "unlock" \in Steps /\ "unlock" \in Holding
    BY DEF Steps, Holding
  <2> QED
    BY <1>1, <1>2, <1>3, <2>1, <2>3, <2>4, <2>5, StepKept
<1>7. CASE Unlock(c)
  <2>1. /\ pc[c] = "unlock" /\ pc' = [pc EXCEPT ![c] = "use"] /\ data' = data
        /\ buffer' = buffer /\ num_items' = num_items /\ mutex' = Nil
    BY <1>7 DEF Unlock, Goto, At
  <2>2. ConsumerInv(c)'
    BY <1>1, <1>2, <2>1 DEF ConsumerInv
  <2>3. "use" \in Steps /\ "use" \notin Holding /\ Filled'
    BY <1>2, <2>1 DEF Steps, Holding, Filled
  <2> QED
    BY <1>1, <1>2, <1>3, <2>1, <2>2, <2>3, StepKept
<1>8. CASE Consumed(c)
  <2>1. /\ pc[c] = "use" /\ pc' = [pc EXCEPT ![c] = "start"] /\ data' = [data EXCEPT ![c] = Nil]
        /\ buffer' = buffer /\ num_items' = num_items /\ mutex' = mutex
    BY <1>8 DEF Consumed, Goto, At
  <2>2. mutex # c
    BY <1>1, <2>1 DEF IInv, Exclusive
  <2>3. ConsumerInv(c)'
    BY <1>1, <1>2, <2>1 DEF ConsumerInv
  <2>4. "start" \in Steps /\ "start" \notin Holding /\ Filled'
    BY <1>2, <2>1 DEF Steps, Holding, Filled
  <2> QED
    BY <1>1, <1>2, <2>1, <2>2, <2>3, <2>4, StepKept
<1> QED
  BY <1>4, <1>5, <1>6, <1>7, <1>8 DEF Consume

(* Every step keeps the invariant.                                          *)
LEMMA NextIInv == IInv /\ [Next]_vars => IInv'
<1> SUFFICES ASSUME IInv, [Next]_vars
             PROVE  IInv'
  OBVIOUS
<1>1. CASE UNCHANGED vars
  BY <1>1 DEF vars, IInv, TypeOK, Exclusive, Filled, ProducerInv, ConsumerInv
<1>2. CASE Next
  BY <1>2, LockSteps, ProducerSteps, ConsumerSteps DEF Next
<1> QED
  BY <1>1, <1>2

(* The invariant always holds.                                              *)
LEMMA IInvCorrect == Spec => []IInv
  BY InitIInv, NextIInv, PTL DEF Spec

(* The variables keep their types: num_items stays between zero and         *)
(* MAX_BUFFER_SIZE and nothing is written past the buffer's end, for any    *)
(* numbers of producers and consumers (concurrency.c:153, :168, :208, :222).*)
THEOREM TypeCorrect == Spec => []TypeOK
  BY IInvCorrect, PTL DEF IInv

(* Whoever is between lock and unlock in producer or consumer holds the     *)
(* mutex, and nobody else does.                                             *)
THEOREM ExclusiveCorrect == Spec => []Exclusive
  BY IInvCorrect, PTL DEF IInv

(***************************************************************************)
(* The refinement.  An item is put when the producer counts it, and given   *)
(* when the consumer counts it off; every other step leaves the stack and   *)
(* what consumers were given as they are.                                   *)
(***************************************************************************)

stack == [i \in 1 .. num_items |-> buffer[i - 1]]
taken == [c \in Consumers |-> Given(c)]

(* The stack is a sequence of items as long as num_items.                   *)
LEMMA StackIsSeq ==
    ASSUME IInv
    PROVE  /\ stack \in Seq(Items) /\ Len(stack) = num_items
           /\ \A i \in 1 .. num_items : stack[i] = buffer[i - 1]
<1>1. num_items \in Nat /\ \A i \in 1 .. num_items : buffer[i - 1] \in Items
  BY SizeAssumption DEF IInv, TypeOK, Filled, Slots
<1>2. \A i \in 1 .. num_items : stack[i] = buffer[i - 1]
  BY DEF stack
<1>3. stack \in [1 .. num_items -> Items] /\ DOMAIN stack = 1 .. num_items
  BY <1>1 DEF stack
<1>4. stack \in Seq(Items)
  BY <1>1, <1>3
<1> QED
  BY <1>1, <1>2, <1>3, <1>4

(* A step of a producer keeps what consumers were given.                    *)
LEMMA ProducerGivesNothing ==
    ASSUME IInv, NEW p \in Producers, NEW to, pc' = [pc EXCEPT ![p] = to],
           NEW x, data' = data \/ data' = [data EXCEPT ![p] = x]
    PROVE  taken' = taken
<1>1. \A c \in Consumers : pc'[c] = pc[c] /\ data'[c] = data[c]
  BY ThreadsAssumption DEF IInv, TypeOK, Threads
<1> QED
  BY <1>1 DEF taken, Given

(* As long as num_items and the slots below it stay, so does the stack.     *)
LEMMA StackKept ==
    ASSUME IInv, num_items' = num_items,
           \A s \in Slots : s < num_items => buffer'[s] = buffer[s]
    PROVE  stack' = stack
<1>1. \A i \in 1 .. num_items : i - 1 \in Slots /\ i - 1 < num_items
  BY SizeAssumption DEF IInv, TypeOK, Slots
<1> QED
  BY <1>1 DEF stack

(* Counting an item puts it on top.                                         *)
LEMMA CountUpPushes ==
    ASSUME IInv, IInv', NEW p \in Producers, CountUp(p)
    PROVE  /\ Len(stack) < MaxBufferSize /\ taken' = taken
           /\ \E x \in Items : stack' = Append(stack, x)
<1>1. /\ pc[p] = "count" /\ pc' = [pc EXCEPT ![p] = "unlock"]
      /\ buffer' = buffer /\ num_items' = num_items + 1 /\ data' = data
  BY DEF CountUp, Goto, At
<1>2. num_items < MaxBufferSize /\ data[p] \in Items /\ buffer[num_items] = data[p]
  BY <1>1 DEF IInv, ProducerInv
<1>3. taken' = taken
  BY <1>1, ProducerGivesNothing
<1>4. num_items \in Nat
  BY DEF IInv, TypeOK
<1>5. /\ stack \in Seq(Items) /\ Len(stack) = num_items
      /\ \A i \in 1 .. num_items : stack[i] = buffer[i - 1]
  BY StackIsSeq
<1>6. /\ stack' \in Seq(Items) /\ Len(stack') = num_items + 1
      /\ \A i \in 1 .. num_items + 1 : stack'[i] = buffer[i - 1]
  <2>1. (IInv => /\ stack \in Seq(Items) /\ Len(stack) = num_items
                 /\ \A i \in 1 .. num_items : stack[i] = buffer[i - 1])'
    BY StackIsSeq, PTL
  <2> QED
    BY <1>1, <2>1
<1>7. stack' = Append(stack, data[p])
  <2>1. /\ Append(stack, data[p]) \in Seq(Items)
        /\ Len(Append(stack, data[p])) = num_items + 1
        /\ \A i \in 1 .. num_items + 1 :
              Append(stack, data[p])[i] = IF i <= num_items THEN stack[i] ELSE data[p]
    BY <1>2, <1>4, <1>5, AppendProperties
  <2>2. \A i \in 1 .. num_items + 1 : stack'[i] = Append(stack, data[p])[i]
    BY <1>2, <1>4, <1>5, <1>6, <2>1
  <2> QED
    BY <1>6, <2>1, <2>2, SeqEqual
<1> QED
  BY <1>2, <1>3, <1>5, <1>7

(* Counting an item off gives the top one to the consumer.                  *)
LEMMA CountDownPops ==
    ASSUME IInv, IInv', NEW c \in Consumers, CountDown(c)
    PROVE  /\ stack # <<>> /\ taken[c] = Nil
           /\ taken' = [taken EXCEPT ![c] = stack[Len(stack)]]
           /\ stack' = SubSeq(stack, 1, Len(stack) - 1)
<1>1. /\ pc[c] = "count" /\ pc' = [pc EXCEPT ![c] = "unlock"]
      /\ buffer' = buffer /\ num_items' = num_items - 1 /\ data' = data
  BY DEF CountDown, Goto, At
<1>2. num_items > 0 /\ data[c] = buffer[num_items - 1]
  BY <1>1 DEF IInv, ConsumerInv
<1>3. num_items \in Nat
  BY DEF IInv, TypeOK
<1>4. /\ stack \in Seq(Items) /\ Len(stack) = num_items
      /\ \A i \in 1 .. num_items : stack[i] = buffer[i - 1]
  BY StackIsSeq
<1>5. /\ stack' \in Seq(Items) /\ Len(stack') = num_items - 1
      /\ \A i \in 1 .. num_items - 1 : stack'[i] = buffer[i - 1]
  <2>1. (IInv => /\ stack \in Seq(Items) /\ Len(stack) = num_items
                 /\ \A i \in 1 .. num_items : stack[i] = buffer[i - 1])'
    BY StackIsSeq, PTL
  <2> QED
    BY <1>1, <2>1
<1>6. stack # <<>> /\ stack[Len(stack)] = data[c]
  BY <1>2, <1>3, <1>4
<1>7. taken[c] = Nil /\ taken' = [taken EXCEPT ![c] = data[c]]
  <2>1. pc'[c] = "unlock" /\ \A e \in Consumers \ {c} : pc'[e] = pc[e]
    BY <1>1 DEF IInv, TypeOK, Threads
  <2> QED
    BY <1>1, <2>1 DEF taken, Given
<1>8. stack' = SubSeq(stack, 1, Len(stack) - 1)
  <2>1. /\ SubSeq(stack, 1, num_items - 1) \in Seq(Items)
        /\ Len(SubSeq(stack, 1, num_items - 1)) = num_items - 1
        /\ \A i \in 1 .. num_items - 1 : SubSeq(stack, 1, num_items - 1)[i] = stack[i]
    BY <1>2, <1>3, <1>4, SubSeqProperties
  <2>2. \A i \in 1 .. num_items - 1 : stack'[i] = SubSeq(stack, 1, num_items - 1)[i]
    BY <1>3, <1>4, <1>5, <2>1
  <2> QED
    BY <1>4, <1>5, <2>1, <2>2, SeqEqual
<1> QED
  BY <1>6, <1>7, <1>8

(* Every step of the program is a step of the stack, or none.               *)
LEMMA StepsOfTheStack ==
    ASSUME IInv, IInv', [Next]_vars
    PROVE  \/ \E x \in Items : /\ Len(stack) < MaxBufferSize
                               /\ stack' = Append(stack, x) /\ taken' = taken
           \/ \E c \in Consumers :
                 /\ stack # <<>> /\ taken[c] = Nil
                 /\ taken' = [taken EXCEPT ![c] = stack[Len(stack)]]
                 /\ stack' = SubSeq(stack, 1, Len(stack) - 1)
           \/ \E c \in Consumers :
                 /\ taken[c] # Nil /\ taken' = [taken EXCEPT ![c] = Nil] /\ stack' = stack
           \/ stack' = stack /\ taken' = taken
<1>0. pc \in [Threads -> Steps]
  BY DEF IInv, TypeOK
<1>1. CASE UNCHANGED vars
  BY <1>1 DEF vars, stack, taken, Given
<1>2. ASSUME NEW t \in Threads, Lock(t) \/ TurnedAway(t)
      PROVE  stack' = stack /\ taken' = taken
  <2>1. PICK to \in {"locked", "start"} :
           pc[t] \in {"start", "locked"} /\ pc' = [pc EXCEPT ![t] = to]
    BY <1>2 DEF Lock, TurnedAway, At, Goto
  <2>2. \A c \in Consumers : Given(c)' = Given(c)
    BY <1>0, <1>2, <2>1 DEF Given, Lock, TurnedAway, Threads
  <2>3. buffer' = buffer /\ num_items' = num_items
    BY <1>2 DEF Lock, TurnedAway
  <2> QED
    BY <2>2, <2>3 DEF stack, taken
<1>3. ASSUME NEW p \in Producers, Produce(p)
      PROVE  \/ \E x \in Items : /\ Len(stack) < MaxBufferSize
                                 /\ stack' = Append(stack, x) /\ taken' = taken
             \/ stack' = stack /\ taken' = taken
  <2>1. ASSUME NEW x \in Items, Generate(p, x)
        PROVE  stack' = stack /\ taken' = taken
    <3>1. pc' = [pc EXCEPT ![p] = "write"] /\ data' = [data EXCEPT ![p] = x]
          /\ buffer' = buffer /\ num_items' = num_items
      BY <2>1 DEF Generate, Goto
    <3> QED
      BY <3>1, ProducerGivesNothing DEF stack
  <2>2. CASE Write(p)
    <3>1. pc' = [pc EXCEPT ![p] = "count"] /\ data' = data /\ num_items' = num_items
          /\ buffer' = [buffer EXCEPT ![num_items] = data[p]]
      BY <2>2 DEF Write, Goto
    <3>2. taken' = taken
      BY <3>1, ProducerGivesNothing
    <3>3. \A s \in Slots : s < num_items => buffer'[s] = buffer[s]
      BY <3>1 DEF IInv, TypeOK, Slots
    <3> QED
      BY <3>1, <3>2, <3>3, StackKept
  <2>3. CASE CountUp(p)
    BY <2>3, CountUpPushes
  <2>4. CASE Produced(p)
    <3>1. pc' = [pc EXCEPT ![p] = "start"] /\ data' = [data EXCEPT ![p] = Nil]
          /\ buffer' = buffer /\ num_items' = num_items
      BY <2>4 DEF Produced, Goto
    <3> QED
      BY <3>1, ProducerGivesNothing DEF stack
  <2> QED
    BY <1>3, <2>1, <2>2, <2>3, <2>4 DEF Produce
<1>4. ASSUME NEW c \in Consumers, Consume(c)
      PROVE  \/ /\ stack # <<>> /\ taken[c] = Nil
                /\ taken' = [taken EXCEPT ![c] = stack[Len(stack)]]
                /\ stack' = SubSeq(stack, 1, Len(stack) - 1)
             \/ taken[c] # Nil /\ taken' = [taken EXCEPT ![c] = Nil] /\ stack' = stack
             \/ stack' = stack /\ taken' = taken
  <2>0. c \in Threads /\ data \in [Threads -> Items \cup {Nil}]
    BY DEF Threads, IInv, TypeOK
  <2>1. CASE FindItem(c)
    <3>1. \A e \in Consumers : Given(e)' = Given(e)
      BY <1>0, <2>0, <2>1 DEF FindItem, At, Goto, Given
    <3> QED
      BY <2>1, <3>1 DEF FindItem, stack, taken
  <2>2. CASE Read(c)
    <3>1. \A e \in Consumers : Given(e)' = Given(e)
      BY <1>0, <2>0, <2>2 DEF Read, At, Goto, Given, Threads
    <3> QED
      BY <2>2, <3>1 DEF Read, stack, taken
  <2>3. CASE CountDown(c)
    BY <2>3, CountDownPops
  <2>4. CASE Unlock(c)
    <3>1. \A e \in Consumers : Given(e)' = Given(e)
      BY <1>0, <2>0, <2>4 DEF Unlock, At, Goto, Given
    <3> QED
      BY <2>4, <3>1 DEF Unlock, stack, taken
  <2>5. CASE Consumed(c)
    <3>1. pc[c] = "use" /\ data[c] \in Items
      BY <2>5 DEF Consumed, At, IInv, ConsumerInv
    <3>2. taken[c] # Nil
      BY <3>1, NilAssumption DEF taken, Given
    <3>3. Given(c)' = Nil /\ \A e \in Consumers \ {c} : Given(e)' = Given(e)
      BY <1>0, <2>0, <2>5 DEF Consumed, Goto, Given, Threads
    <3>4. taken' = [taken EXCEPT ![c] = Nil]
      BY <3>3 DEF taken
    <3> QED
      BY <2>5, <3>2, <3>4 DEF Consumed, stack
  <2> QED
    BY <1>4, <2>1, <2>2, <2>3, <2>4, <2>5 DEF Consume
<1> QED
  BY <1>1, <1>2, <1>3, <1>4 DEF Next

(* The program implements the bounded stack, for any numbers of producers   *)
(* and consumers, any items and any buffer size: whatever the interleaving, *)
(* an item produced is given to one consumer, once, last in first out.      *)
THEOREM StackImplemented == Spec => ImplementsStack
<1>1. Init => Stack!Init
  <2> SUFFICES ASSUME Init
               PROVE  stack = <<>> /\ taken = [c \in Consumers |-> Nil]
    BY DEF Stack!Init, stack, taken
  <2>1. num_items = 0 /\ \A c \in Consumers : Given(c) = Nil
    BY DEF Init, Given, Threads
  <2> QED
    BY <2>1 DEF stack, taken
<1>2. IInv /\ IInv' /\ [Next]_vars => [Stack!Next]_Stack!vars
  <2> SUFFICES ASSUME IInv, IInv', [Next]_vars
               PROVE  [Stack!Next]_Stack!vars
    OBVIOUS
  <2>1. \/ \E x \in Items : /\ Len(stack) < MaxBufferSize
                            /\ stack' = Append(stack, x) /\ taken' = taken
        \/ \E c \in Consumers :
              /\ stack # <<>> /\ taken[c] = Nil
              /\ taken' = [taken EXCEPT ![c] = stack[Len(stack)]]
              /\ stack' = SubSeq(stack, 1, Len(stack) - 1)
        \/ \E c \in Consumers :
              /\ taken[c] # Nil /\ taken' = [taken EXCEPT ![c] = Nil] /\ stack' = stack
        \/ stack' = stack /\ taken' = taken
    BY StepsOfTheStack
  <2> QED
    BY <2>1 DEF Stack!Next, Stack!vars, Stack!Push, Stack!Pop, Stack!Use, stack, taken
<1> QED
  BY <1>1, <1>2, IInvCorrect, PTL DEF Spec, ImplementsStack, Stack!Spec
=============================================================================
