----------------------------- MODULE MCNbdServe -----------------------------
(* Instances of NbdServe for TLC: a disk of two bytes.                     *)
EXTENDS NbdServe

Cmd(type, from, len, val) == [type |-> type, from |-> from, len |-> len, val |-> val]

\* Both bytes, one of them, and a range that ends one byte past the disk.
MCCommands ==
    { Cmd("READ", 0, 2, 0), Cmd("WRITE", 0, 2, 1), Cmd("WRITE", 1, 1, 1),
      Cmd("WRITE", 1, 2, 1), Cmd("TRIM", 0, 2, 0), Cmd("FLUSH", 0, 0, 0) }

MCFewCommands ==
    { Cmd("READ", 0, 2, 0), Cmd("WRITE", 0, 2, 1), Cmd("TRIM", 1, 2, 0) }

MCPeerMemory == [i \in 0 .. 1 |-> 2]

MCTransfers ==
    { [dir |-> "HBM_TO_RAMDISK", off |-> 0, len |-> 2],
      [dir |-> "RAMDISK_TO_HBM", off |-> 0, len |-> 2] }
=============================================================================
