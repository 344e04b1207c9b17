------------------------------- MODULE MCSlob --------------------------------
(* Slob for TLC: pages of four units, two threads.  One byte and four are    *)
(* small objects of one and two units, six and seven are large ones of three *)
(* units and of a whole page.                                                *)
EXTENDS Slob

CONSTANTS p1, p2, p3, t1, t2

MCPages == {p1, p2, p3}
MCThreads == {t1, t2}
MCSizes == {1, 4, 6, 7}
MCAligns == {0, 2}

Symmetry == Permutations(MCPages) \cup Permutations(MCThreads)
=============================================================================
