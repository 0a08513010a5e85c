-------------------------- MODULE MCTargetSession ---------------------------
(* Instances of TargetSession for TLC.                                     *)
EXTENDS TargetSession, TLC

\* The range checks for every argument in words of the instance.
ASSUME Arithmetic == RangesExact /\ WindowsExact

MCConfigs == {[bs |-> 2, size |-> 4], [bs |-> 1, size |-> 2]}

Req(dir, lba, count, raddr, rlen) ==
    [dir |-> dir, lba |-> lba, count |-> count, raddr |-> raddr, rlen |-> rlen]

\* In words of 16: requests that fit, that end beyond the disk or the remote
\* memory, that have too little room there, and whose products or sums wrap.
MCRequests ==
    {Req(dir, t[1], t[2], t[3], t[4]) :
       dir \in {"READ", "WRITE"},
       t \in { <<0, 1, 1, 2>>, <<1, 1, 0, 2>>, <<1, 2, 0, 4>>, <<0, 1, 0, 1>>,
               <<0, 8, 0, 15>>, <<8, 1, 0, 2>>, <<0, 1, 15, 2>>, <<0, 0, 0, 2>> }}

MCFills == {[lba |-> 0, count |-> 1, val |-> 1], [lba |-> 1, count |-> 1, val |-> 1],
            [lba |-> 8, count |-> 1, val |-> 0]}

\* Neither names of disks nor of sessions are told apart.
Symmetry == Permutations(Disks) \cup Permutations(Sessions)
=============================================================================
