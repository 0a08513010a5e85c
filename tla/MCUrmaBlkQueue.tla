--------------------------- MODULE MCUrmaBlkQueue ---------------------------
(* Instances of UrmaBlkQueue for TLC. *)
EXTENDS UrmaBlkQueue, TLC

CONSTANTS r1, r2, r3, r4, s1, s2, s3

Symmetry == Permutations(Reqs) \cup Permutations(Submitters)
=============================================================================
