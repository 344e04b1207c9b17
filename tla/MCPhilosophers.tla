---------------------------- MODULE MCPhilosophers ---------------------------
(* Philosophers for TLC, with the five seats of the program.                 *)
EXTENDS Philosophers
=============================================================================
