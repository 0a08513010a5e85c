--------------------------- MODULE TargetSession ----------------------------
(***************************************************************************)
(* The userspace library: RDMA ramdisks, sessions that move blocks between *)
(* a ramdisk and the memory of a remote peer, and the mock transport       *)
(* context under them.  A context may carry several disks and sessions; it *)
(* has one registration and one connected flag.                            *)
(*                                                                         *)
(* External, the caller: a session is not used once its disk is destroyed. *)
(***************************************************************************)
EXTENDS IoRange, FiniteSets

CONSTANTS
    Disks,          \* names a caller has for its disks
    Sessions,
    Contexts,
    Configs,        \* records bs and size, in bytes, that a disk is created with
    RemoteLength,   \* bytes of a context's remote memory
    Requests,       \* records dir, lba, count, raddr, rlen
    Fills,          \* records lba, count, val
    Vals,           \* contents of a byte, 0 among them
    Iova, Lkey,     \* MOCK_IOVA_BASE and MOCK_LKEY
    NULL

\* Addresses of a disk start at Iova; a disk for which they would wrap is
\* too large to be allocated.
ASSUME Mock ==
    /\ Lkey # 0 /\ Iova \in U64 /\ RemoteLength \in U64
    /\ \A c \in Configs : c.bs \in U64 \ {0} /\ c.size \in 1 .. SizeMax /\ Iova + c.size <= Word

ASSUME Inputs ==
    /\ 0 \in Vals
    /\ \A q \in Fills : q.lba \in U64 /\ q.count \in U64 /\ q.val \in Vals
    /\ \A q \in Requests : {q.lba, q.count, q.raddr, q.rlen} \subseteq U64

\* The values of disks and sessions.
Mr == [iova |-> Iova, lkey |-> Lkey]
DiskRecords(n) == [ctx : Contexts, bs : U64 \ {0}, size : {n}, mr : {Mr}, base : [0 .. n - 1 -> Vals]]
SessionRecords == [disk : Disks, connected : BOOLEAN]

ASSUME NoNull ==
    NULL \notin Disks \cup SessionRecords /\ \A c \in Configs : NULL \notin DiskRecords(c.size)

VARIABLES
    disks,          \* NULL, or the fields of struct rdma_ramdisk and its memory
    contexts,       \* connected, the registration and the remote memory
    sessions        \* NULL, or disk and connected

vars == <<disks, contexts, sessions>>

NoMr == [addr |-> NULL, length |-> 0, iova |-> 0, lkey |-> 0]

-----------------------------------------------------------------------------
(* Ramdisks.                                                                *)

\* mock_register_mr replaces what was registered.
Registered(d, length) == [addr |-> d, length |-> length, iova |-> Iova, lkey |-> Lkey]

\* rdma_ramdisk_create.
Create(d, x, cfg) ==
    /\ disks[d] = NULL
    /\ cfg.size % cfg.bs = 0
    /\ disks' = [disks EXCEPT ![d] =
                   [ctx |-> x, bs |-> cfg.bs, size |-> cfg.size,
                    mr |-> Mr,
                    base |-> [i \in 0 .. cfg.size - 1 |-> 0]]]
    /\ contexts' = [contexts EXCEPT ![x].reg = Registered(d, cfg.size)]
    /\ UNCHANGED sessions

KeepOwn(reg, d) == IF reg.addr = d THEN reg ELSE NoMr

\* mock_deregister_mr clears the registration of the context, whoever's it is.
Deregistered(reg, d) == NoMr

Destroy(d) ==
    /\ disks[d] # NULL
    /\ contexts' = [contexts EXCEPT ![disks[d].ctx].reg = Deregistered(@, d)]
    /\ disks' = [disks EXCEPT ![d] = NULL]
    /\ sessions' = [s \in Sessions |->
                      IF sessions[s] # NULL /\ sessions[s].disk = d THEN NULL ELSE sessions[s]]

MapLbaInBlocks(d, lba, count) ==
    LET r == CheckedIoRange(lba, count, disks[d].bs, disks[d].size)
    IN  [rc |-> r.rc, offset |-> r.offset, length |-> r.length,
         addr |-> Add(disks[d].mr.iova, lba), lkey |-> disks[d].mr.lkey]

\* rdma_ramdisk_map_lba: the range, and its address for the transport.
MapLba(d, lba, count) ==
    LET r == CheckedIoRange(lba, count, disks[d].bs, disks[d].size)
    IN  [rc |-> r.rc, offset |-> r.offset, length |-> r.length,
         addr |-> Add(disks[d].mr.iova, r.offset), lkey |-> disks[d].mr.lkey]

Bytes(start, length) == start .. start + length - 1

FillPastEnd(d, q) ==
    /\ disks[d] # NULL
    /\ LET m == MapLba(d, q.lba, q.count)
       IN  /\ m.rc = "OK"
           /\ disks' = [disks EXCEPT ![d].base =
                          [i \in DOMAIN @ \cup Bytes(m.offset, m.length + 1) |->
                             IF i \in Bytes(m.offset, m.length + 1) THEN q.val ELSE @[i]]]
    /\ UNCHANGED <<contexts, sessions>>

\* rdma_ramdisk_fill; rdma_ramdisk_verify only compares.
Fill(d, q) ==
    /\ disks[d] # NULL
    /\ LET m == MapLba(d, q.lba, q.count)
       IN  /\ m.rc = "OK"
           /\ disks' = [disks EXCEPT ![d].base =
                          [i \in DOMAIN @ |-> IF i \in Bytes(m.offset, m.length)
                                              THEN q.val ELSE @[i]]]
    /\ UNCHANGED <<contexts, sessions>>

-----------------------------------------------------------------------------
(* Sessions.                                                                *)

SessionInit(s, d) ==
    /\ disks[d] # NULL
    /\ sessions' = [sessions EXCEPT ![s] = [disk |-> d, connected |-> FALSE]]
    /\ UNCHANGED <<disks, contexts>>

Ctx(s) == disks[sessions[s].disk].ctx

Connect(s) ==
    /\ sessions[s] # NULL
    /\ contexts' = [contexts EXCEPT ![Ctx(s)].connected = TRUE]
    /\ sessions' = [sessions EXCEPT ![s].connected = TRUE]
    /\ UNCHANGED disks

Disconnect(s) ==
    /\ sessions[s] # NULL /\ sessions[s].connected
    /\ contexts' = [contexts EXCEPT ![Ctx(s)].connected = FALSE]
    /\ sessions' = [sessions EXCEPT ![s].connected = FALSE]
    /\ UNCHANGED disks

\* local_sge_to_ptr and remote_region_to_ptr.
LocalRc(reg, m) ==
    IF m.lkey # reg.lkey \/ Window(m.addr, m.length, reg.iova, reg.length) = "below" THEN "EINVAL"
    ELSE Window(m.addr, m.length, reg.iova, reg.length)

RemoteRc(raddr, length) == Window(raddr, length, 0, RemoteLength)

SubmitRcLongRemote(s, q) ==
    LET m == MapLba(sessions[s].disk, q.lba, q.count)
        ctx == contexts[Ctx(s)]
    IN  IF ~sessions[s].connected THEN "EINVAL"
        ELSE IF m.rc # "OK" THEN m.rc
        ELSE IF ~ctx.connected THEN "EINVAL"
        ELSE IF LocalRc(ctx.reg, m) # "OK" THEN LocalRc(ctx.reg, m)
        ELSE RemoteRc(q.raddr, m.length)

\* target_session_submit_io and mock_submit: the code they return.
SubmitRc(s, q) ==
    LET m == MapLba(sessions[s].disk, q.lba, q.count)
        ctx == contexts[Ctx(s)]
    IN  IF ~sessions[s].connected THEN "EINVAL"
        ELSE IF m.rc # "OK" THEN m.rc
        ELSE IF q.rlen < m.length THEN "ERANGE"
        ELSE IF ~ctx.connected THEN "EINVAL"
        ELSE IF LocalRc(ctx.reg, m) # "OK" THEN LocalRc(ctx.reg, m)
        ELSE RemoteRc(q.raddr, m.length)

\* A memcpy of length bytes between two memories.
Memcpy(dst, at, src, from, length) ==
    [i \in DOMAIN dst |-> IF i \in Bytes(at, length) THEN src[from + i - at] ELSE dst[i]]

\* A READ writes to the remote memory, a WRITE reads from it.  The local side is
\* whatever the context has registered.  A request that is refused changes nothing.
Submit(s, q) ==
    /\ sessions[s] # NULL
    /\ SubmitRc(s, q) = "OK"
    /\ LET m == MapLba(sessions[s].disk, q.lba, q.count)
           reg == contexts[Ctx(s)].reg
           at == Sub(m.addr, reg.iova)
       IN  \/ /\ q.dir = "READ"
              /\ contexts' = [contexts EXCEPT ![Ctx(s)].remote =
                                Memcpy(@, q.raddr, disks[reg.addr].base, at, m.length)]
              /\ UNCHANGED disks
           \/ /\ q.dir = "WRITE"
              /\ disks' = [disks EXCEPT ![reg.addr].base =
                             Memcpy(@, at, contexts[Ctx(s)].remote, q.raddr, m.length)]
              /\ UNCHANGED contexts
    /\ UNCHANGED sessions

-----------------------------------------------------------------------------
Init ==
    /\ disks = [d \in Disks |-> NULL]
    /\ contexts = [x \in Contexts |->
                     [connected |-> FALSE, reg |-> NoMr,
                      remote |-> [i \in 0 .. RemoteLength - 1 |-> 0]]]
    /\ sessions = [s \in Sessions |-> NULL]

Next ==
    \/ \E d \in Disks :
         \/ \E x \in Contexts, cfg \in Configs : Create(d, x, cfg)
         \/ Destroy(d)
         \/ \E q \in Fills : Fill(d, q)
    \/ \E s \in Sessions :
         \/ \E d \in Disks : SessionInit(s, d)
         \/ Connect(s) \/ Disconnect(s)
         \/ \E q \in Requests : Submit(s, q)

Spec == Init /\ [][Next]_vars

-----------------------------------------------------------------------------
Live == {d \in Disks : disks[d] # NULL}

\* Types; a disk's memory has its size, and a session has a live disk.
TypeOK ==
    /\ disks \in [Disks -> {NULL} \cup UNION {DiskRecords(c.size) : c \in Configs}]
    /\ contexts \in [Contexts ->
         [connected : BOOLEAN, remote : [0 .. RemoteLength - 1 -> Vals],
          reg : {NoMr} \cup [addr : Disks, length : Nat, iova : {Iova}, lkey : {Lkey}]]]
    /\ sessions \in [Sessions -> {NULL} \cup SessionRecords]
    /\ \A s \in Sessions : sessions[s] # NULL => sessions[s].disk \in Live

\* However disks that share a context are created and destroyed, the memory
\* the transport can reach is that of one live disk, all of it, or none: the
\* registration never outlives the memory it was made from.
RegisteredIsLive ==
    \A x \in Contexts :
      LET reg == contexts[x].reg
      IN  \/ reg = NoMr
          \/ /\ reg.addr \in Live /\ disks[reg.addr].ctx = x
             /\ reg.length = disks[reg.addr].size

\* The blocks of a request in its session's disk, in unbounded arithmetic.
Start(d, q) == q.lba * disks[d].bs
Length(d, q) == q.count * disks[d].bs

\* The session's own disk is registered, and its transport is connected.
Ready(s) ==
    /\ sessions[s] # NULL /\ sessions[s].connected
    /\ contexts[Ctx(s)].connected /\ contexts[Ctx(s)].reg.addr = sessions[s].disk

\* A session that is ready has a request accepted exactly if its blocks are
\* in the disk and as many bytes are at its remote address, whatever wraps; one
\* that never connected, or whose context another session has disconnected or
\* another disk's destruction has left without a registration, has none accepted.
AcceptsExactly ==
    \A s \in Sessions, q \in Requests : sessions[s] # NULL =>
      LET d == sessions[s].disk
          fits == /\ Inside(q.lba, q.count, disks[d].bs, disks[d].size)
                  /\ Length(d, q) <= q.rlen
                  /\ q.raddr + Length(d, q) <= RemoteLength
      IN  /\ Ready(s) => (SubmitRc(s, q) = "OK" <=> fits)
          /\ ~(sessions[s].connected /\ contexts[Ctx(s)].connected /\ contexts[Ctx(s)].reg # NoMr)
               => SubmitRc(s, q) # "OK"

\* The bytes of the session's disk and of the remote memory that a request
\* names are the same afterwards, and no other byte has changed.
Moves(s, q) ==
    LET d == sessions[s].disk
        x == Ctx(s)
    IN  /\ \A i \in 0 .. Length(d, q) - 1 :
             disks'[d].base[Start(d, q) + i] = contexts'[x].remote[q.raddr + i]
        /\ IF q.dir = "READ"
           THEN /\ disks' = disks
                /\ \A i \in DOMAIN contexts[x].remote \ Bytes(q.raddr, Length(d, q)) :
                     contexts'[x].remote[i] = contexts[x].remote[i]
           ELSE /\ contexts' = contexts
                /\ \A i \in DOMAIN disks[d].base \ Bytes(Start(d, q), Length(d, q)) :
                     disks'[d].base[i] = disks[d].base[i]
        /\ \A e \in Live \ {d} : disks'[e] = disks[e]

\* A request of a session that is ready moves the bytes of its blocks, in the
\* direction it asks for, and changes no other byte of any disk or of the remote
\* memory, with disks of different block sizes on one context.
MovesExactly ==
    [][\A s \in Sessions, q \in Requests : Ready(s) /\ Submit(s, q) => Moves(s, q)]_vars
=============================================================================
