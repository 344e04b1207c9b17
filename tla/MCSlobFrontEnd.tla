---------------------------- MODULE MCSlobFrontEnd ---------------------------
(* SlobFrontEnd for TLC: pages of ten bytes, of which a small kmalloc object  *)
(* takes six with its header and an object of the RCU cache four with its     *)
(* footer; the other size of kmalloc and the other cache take whole pages.    *)
EXTENDS SlobFrontEnd

CONSTANTS p1, p2, c1, c2, softirq, r1

MCPages == {p1, p2}
MCCallers == {c1, c2}
MCThreads == MCCallers \cup {softirq}
MCReaders == {r1}
MCKmallocSizes == {2, 6}
MCCaches == {[kind |-> "cache", size |-> 2, align |-> 1, rcu |-> TRUE],
             [kind |-> "cache", size |-> 10, align |-> 1, rcu |-> FALSE]}
MCSizes == {4, 6}
MCAligns == {1, 2}
=============================================================================
