-------------------------------- MODULE MCBrdd -------------------------------
(* Brdd with Sstf for TLC: three sectors of two cipher blocks, reads that     *)
(* touch so that two merge with a third between them, and a write of two      *)
(* sectors.                                                                   *)
EXTENDS Brdd

CONSTANTS r1, r2, r3

MCRequests == {r1, r2, r3}
MCSectors == 0 .. 2
MCBios == {[sector |-> s, nsect |-> 1, write |-> FALSE] : s \in MCSectors}
            \cup {[sector |-> 1, nsect |-> 2, write |-> TRUE]}
=============================================================================
