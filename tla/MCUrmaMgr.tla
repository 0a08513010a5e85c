----------------------------- MODULE MCUrmaMgr -----------------------------
(* Instances of UrmaMgr for TLC. *)
EXTENDS UrmaMgr, TLC

CONSTANTS h1, h2, h3, c1, c2, c3

Xfer(id, remote, length) ==
    [peer_id |-> id, local |-> 0, remote |-> remote, length |-> length,
     direction |-> "RAMDISK_TO_HBM"]

\* A segment of two blocks and one of a single block at the same address.
BothSegments == {[va |-> 4, len |-> 4], [va |-> 4, len |-> 2]}

OneSegment == {[va |-> 4, len |-> 4]}

\* One block at the start of a segment, one block at an offset in it, and a
\* transfer of two blocks, which fits the larger segment only.
ManyXfers == {Xfer(id, 4, 2) : id \in PeerIds} \cup {Xfer(1, 6, 2), Xfer(1, 4, 4)}

OneXfer == {Xfer(1, 4, 2)}

Symmetry == Permutations(Handles) \cup Permutations(Callers)
=============================================================================
