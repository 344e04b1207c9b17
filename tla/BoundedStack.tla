----------------------------- MODULE BoundedStack ----------------------------
(***************************************************************************)
(* What the buffer of Concurrency1/concurrency.c promises: a bounded stack. *)
(* A producer puts its item on top unless the stack is full, a consumer is  *)
(* given the top item, and an item is given to one consumer only.           *)
(***************************************************************************)
EXTENDS Naturals, Sequences

CONSTANTS Items, Consumers, MaxBufferSize, Nil

VARIABLES
    stack,      \* the items put and not taken, the top one last
    taken       \* the item each consumer has been given and is using

vars == <<stack, taken>>

TypeOK == /\ stack \in Seq(Items)
          /\ Len(stack) <= MaxBufferSize
          /\ taken \in [Consumers -> Items \cup {Nil}]

Init == stack = <<>> /\ taken = [c \in Consumers |-> Nil]

Push(x) ==
    /\ Len(stack) < MaxBufferSize
    /\ stack' = Append(stack, x)
    /\ UNCHANGED taken

Pop(c) ==
    /\ stack # <<>> /\ taken[c] = Nil
    /\ taken' = [taken EXCEPT ![c] = stack[Len(stack)]]
    /\ stack' = SubSeq(stack, 1, Len(stack) - 1)

Use(c) ==
    /\ taken[c] # Nil
    /\ taken' = [taken EXCEPT ![c] = Nil]
    /\ UNCHANGED stack

Next == \/ \E x \in Items : Push(x)
        \/ \E c \in Consumers : Pop(c) \/ Use(c)

Spec == Init /\ [][Next]_vars
=============================================================================
