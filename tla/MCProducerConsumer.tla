-------------------------- MODULE MCProducerConsumer -------------------------
(* ProducerConsumer for TLC with the two producers and the two consumers of  *)
(* the program, a buffer that fills after two items, and two items that can  *)
(* be told apart.                                                            *)
EXTENDS ProducerConsumer, TLC

CONSTANTS p1, p2, c1, c2, x, y

MCProducers == {p1, p2}
MCConsumers == {c1, c2}
MCItems == {x, y}
=============================================================================
