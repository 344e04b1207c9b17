------------------------------ MODULE MCSlobPage -----------------------------
(* SlobPage for TLC: a page of a few units, two alignments, and owners that *)
(* write what would read as a size or as a link if the allocator looked.    *)
EXTENDS SlobPage

MCUserValues == {PageUnits - 2, -2}
MCAligns == {0, 2}
=============================================================================
