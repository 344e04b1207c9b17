------------------------- MODULE MCSearchInsertDelete ------------------------
(* SearchInsertDelete for TLC: two threads of each kind, and memory for three *)
(* nodes, in which a node can be freed, used again and followed through a     *)
(* link it held before.                                                       *)
EXTENDS SearchInsertDelete

CONSTANTS i1, i2, s1, s2, d1, d2, n1, n2, n3

MCInserters == {i1, i2}
MCSearchers == {s1, s2}
MCDeleters == {d1, d2}
MCNodes == {n1, n2, n3}
=============================================================================
