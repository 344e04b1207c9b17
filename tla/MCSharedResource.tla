--------------------------- MODULE MCSharedResource --------------------------
(* SharedResource for TLC with the five threads and the three places of the  *)
(* program.                                                                  *)
EXTENDS SharedResource, TLC

CONSTANTS t1, t2, t3, t4, t5

MCThreads == {t1, t2, t3, t4, t5}
=============================================================================
