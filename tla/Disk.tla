-------------------------------- MODULE Disk --------------------------------
(***************************************************************************)
(* What the userspace ramdisk promises the users of its memory: every      *)
(* block command and every URMA transfer takes effect at one instant, a    *)
(* command that reports an error has no effect, and a command is answered  *)
(* with the result it had at that instant.  NbdServe implements it.        *)
(***************************************************************************)
EXTENDS Naturals, Sequences

CONSTANTS
    Handles,        \* names of the commands
    Commands,       \* records with type, from, len and val
    Transfers,      \* records with dir, off and len
    Size,           \* bytes of the disk
    Vals,           \* contents of a byte, 0 among them
    NULL

VARIABLES
    store, hbm,     \* the disk, and the peer's memory
    cmd,            \* what was asked for under a handle
    res,            \* the result of a command that has taken effect
    told            \* handles whose result the client has seen

vars == <<store, hbm, cmd, res, told>>

Cells(off, len) == off .. off + len - 1
InRange(c) == c.from <= Size /\ c.len <= Size - c.from

\* The bytes a command leaves on the disk.
Apply(c, m) ==
    [i \in 0 .. Size - 1 |->
        IF c.type \in {"WRITE", "TRIM"} /\ i \in Cells(c.from, c.len)
          THEN c.val ELSE m[i]]

Contents(c, m) ==
    IF c.type = "READ" THEN [i \in 1 .. c.len |-> m[c.from + i - 1]] ELSE <<>>

Submit(h) ==
    /\ cmd[h] = NULL
    /\ \E c \in Commands : cmd' = [cmd EXCEPT ![h] = c]
    /\ UNCHANGED <<store, hbm, res, told>>

Perform(h) ==
    /\ cmd[h] # NULL /\ res[h] = NULL
    /\ InRange(cmd[h])
    /\ store' = Apply(cmd[h], store)
    /\ res' = [res EXCEPT ![h] = [rc |-> "OK", data |-> Contents(cmd[h], store)]]
    /\ UNCHANGED <<hbm, cmd, told>>

Refuse(h) ==
    /\ cmd[h] # NULL /\ res[h] = NULL
    /\ \E rc \in IF InRange(cmd[h]) THEN {"ENOMEM"} ELSE {"ERANGE", "ENOMEM"} :
         res' = [res EXCEPT ![h] = [rc |-> rc, data |-> <<>>]]
    /\ UNCHANGED <<store, hbm, cmd, told>>

Tell(h) ==
    /\ res[h] # NULL
    /\ told' = told \cup {h}
    /\ UNCHANGED <<store, hbm, cmd, res>>

Transfer(t) ==
    /\ LET Copy(to, from) ==
             [i \in 0 .. Size - 1 |-> IF i \in Cells(t.off, t.len) THEN from[i] ELSE to[i]]
       IN  \/ t.dir = "HBM_TO_RAMDISK" /\ store' = Copy(store, hbm) /\ UNCHANGED hbm
           \/ t.dir = "RAMDISK_TO_HBM" /\ hbm' = Copy(hbm, store) /\ UNCHANGED store
    /\ UNCHANGED <<cmd, res, told>>

Init ==
    /\ store = [i \in 0 .. Size - 1 |-> 0]
    /\ hbm \in [0 .. Size - 1 -> Vals]
    /\ cmd = [h \in Handles |-> NULL]
    /\ res = [h \in Handles |-> NULL]
    /\ told = {}

Next ==
    \/ \E h \in Handles : Submit(h) \/ Perform(h) \/ Refuse(h) \/ Tell(h)
    \/ \E t \in Transfers : Transfer(t)

Spec == Init /\ [][Next]_vars
=============================================================================
