------------------------------ MODULE MCBlkDev ------------------------------
(* Instances of BlkDev for TLC.                                            *)
EXTENDS BlkDev

\* Sectors as logical blocks, and two sectors to a block with one left over.
MCParams == {[bs |-> 1, size |-> 3], [bs |-> 2, size |-> 9]}

MCTwoSectors == {[bs |-> 2, size |-> 8]}
=============================================================================
