------------------------------ MODULE UrmaMgr ------------------------------
(***************************************************************************)
(* The URMA manager of the userspace ramdisk daemon                        *)
(* (userspace-nbd/src/ramdisk_urma.c): a peer table and a bounded ring of  *)
(* transfer requests behind one mutex, callers that block in               *)
(* ramdisk_urma_transfer_sync, and one worker thread that takes requests   *)
(* off the ring and runs each against the peer's memory outside the mutex. *)
(*                                                                         *)
(* A critical section of mgr->lock is one step.  Between two critical      *)
(* sections, and inside the unlocked execution of a transfer, every other  *)
(* thread may run.  Memory contents are abstracted to the regions a copy   *)
(* touches.  A request lives on its caller's stack, so the caller is its   *)
(* address: the ring holds callers.                                        *)
(***************************************************************************)
EXTENDS Integers, FiniteSets, Sequences

CONSTANTS
    Callers,      \* threads that call the API; the daemon has one, its control thread
    PeerIds,      \* nonzero peer ids
    Segments,     \* [va, len] records of the segments peers present
    Xfers,        \* [peer_id, local, remote, length, direction] transfer arguments
    Handles,      \* pool of heap buffers (mock) and URMA imports (real)
    MaxPeers,     \* RAMDISK_URMA_MAX_PEERS
    QueueDepth,   \* mgr->queue_depth
    BackendSize,  \* backend->size
    BlockSize,    \* backend->block_size
    UseMock,      \* mgr->use_mock
    UniqueIds,    \* do clients give every transfer a request_id of its own?
    MaxAccepted,  \* bound: transfers accepted in one life of the manager
    NULL          \* no caller

ASSUME Sizes ==
    /\ MaxPeers \in Nat \ {0}
    /\ QueueDepth \in Nat \ {0}
    /\ BackendSize \in Nat
    /\ BlockSize \in Nat \ {0}
    /\ MaxAccepted \in Nat
    /\ UseMock \in BOOLEAN
    /\ UniqueIds \in BOOLEAN

ASSUME Inputs ==
    /\ NULL \notin Callers
    /\ PeerIds \subseteq Nat \ {0}
    /\ Segments \subseteq [va : Nat, len : Nat \ {0}]
    /\ Xfers \subseteq [peer_id : PeerIds, local : Nat, remote : Nat, length : Nat,
                        direction : {"RAMDISK_TO_HBM", "HBM_TO_RAMDISK"}]

VARIABLES
    life,       \* "off", "running", "stopping": the manager seen from main
    enabled, queue, head, tail, pending, inflight, completed, failed, peers,
    pc,         \* caller -> where it is
    held,       \* caller -> the peer record on its stack (new_peer, old)
    req,        \* caller -> the request on its stack
    wpc,        \* where the worker is
    wreq,       \* worker's req
    wslot,      \* worker's peer pointer: a slot, or 0 for an address outside the table
    woff,       \* worker's remote_off
    wbuf,       \* the memory the worker loaded from the slot
    wrc,        \* worker's rc
    size,       \* handle -> bytes of the live resource, 0 when not allocated
    wrs,        \* work requests posted and not completed by the device
    jfc,        \* completion queue
    accepted,   \* history: transfers put on the ring
    crashed     \* a dereference of NULL or of a wild pointer ended the process

tableVars  == <<enabled, peers, size>>
ringVars   == <<queue, head, tail, pending>>
countVars  == <<inflight, completed, failed, accepted>>
callerVars == <<pc, held, req>>
workerVars == <<wpc, wreq, wslot, woff, wbuf, wrc>>
deviceVars == <<wrs, jfc>>
vars == <<life, tableVars, ringVars, countVars, callerVars, workerVars,
          deviceVars, crashed>>

Slots == 1..MaxPeers
Ring  == 0..(QueueDepth - 1)

Codes == {"OK", "EOPNOTSUPP", "EINVAL", "ERANGE", "ENODEV", "EIO", "ETIMEDOUT"}

\* memset(peer, 0, sizeof(*peer))
NoPeer == [active |-> FALSE, peer_id |-> 0, seg_va |-> 0, seg_len |-> 0, res |-> {}]

\* A peer whose resources were freed in place.
Retired(p) == [active |-> FALSE, peer_id |-> p.peer_id, seg_va |-> p.seg_va,
               seg_len |-> p.seg_len, res |-> {}]

\* The stack of a caller outside ramdisk_urma_transfer_sync.
NoReq == [live |-> FALSE, xfer |-> NULL, remote |-> 0, request_id |-> 0,
          status |-> "OK", done |-> FALSE, serial |-> 0, moved |-> FALSE]

\* The request q with the fields the worker and the device write.
Rewrite(q, remote, status, done, moved) ==
    [live |-> q.live, xfer |-> q.xfer, remote |-> remote, request_id |-> q.request_id,
     status |-> status, done |-> done, serial |-> q.serial, moved |-> moved]

Moved(q) == Rewrite(q, q.remote, q.status, q.done, TRUE)

-----------------------------------------------------------------------------
(* Validation, evaluated under mgr->lock.                                  *)

Matches(s, id) == peers[s].active /\ peers[s].peer_id = id

\* find_peer_locked, as a set of slots.  The code returns the first match;
\* PeersUnique shows that there is at most one.
FindPeer(id) == {s \in Slots : Matches(s, id)}

\* ramdisk_backend_validate_range
RangeOk(offset, len) == offset <= BackendSize /\ len <= BackendSize - offset

\* validate_alignment
Aligned(x, remote) ==
    /\ x.local % BlockSize = 0
    /\ remote % BlockSize = 0
    /\ x.length % BlockSize = 0

InSegmentNoLength(s, remote, len) ==
    /\ remote >= peers[s].seg_va
    /\ remote - peers[s].seg_va <= peers[s].seg_len

InSegment(s, remote, len) ==
    /\ remote >= peers[s].seg_va
    /\ remote - peers[s].seg_va <= peers[s].seg_len
    /\ len <= peers[s].seg_len - (remote - peers[s].seg_va)

\* validate_xfer_locked of transfer x at remote address remote
ValidateXfer(x, remote) ==
    IF ~enabled THEN "EOPNOTSUPP"
    ELSE IF x.length = 0 THEN "EINVAL"
    ELSE IF ~RangeOk(x.local, x.length) THEN "ERANGE"
    ELSE IF ~Aligned(x, remote) THEN "EINVAL"
    ELSE IF FindPeer(x.peer_id) = {} THEN "ENODEV"
    ELSE IF \E s \in FindPeer(x.peer_id) : ~InSegment(s, remote, x.length) THEN "ERANGE"
    ELSE "OK"

NextIdxNoWrap(i) == i + 1

NextIdxStuck(i) == IF i = QueueDepth - 1 THEN i ELSE i + 1

\* (i + 1U) % mgr->queue_depth
NextIdx(i) == (i + 1) % QueueDepth

QueueFullOffByOne == pending > QueueDepth

QueueFull == pending >= QueueDepth

-----------------------------------------------------------------------------
(* Resources.  A mock peer owns one heap buffer, mock_hbm; a real peer     *)
(* owns two URMA imports, import_tseg and t_jetty.                         *)

FreeHandles == {h \in Handles : size[h] = 0}

PeerResources == {r \in SUBSET FreeHandles : Cardinality(r) = IF UseMock THEN 1 ELSE 2}

ReleaseNothing(res) == UNCHANGED size

Release(res) == size' = [h \in Handles |-> IF h \in res THEN 0 ELSE size[h]]

-----------------------------------------------------------------------------
(* Life cycle, run by main.                                                *)

\* ramdisk_urma_mgr_init on its success path; its failures leave nothing behind.
MgrInit ==
    /\ ~crashed
    /\ life = "off"
    /\ life' = "running"
    /\ enabled' \in BOOLEAN
    /\ queue' = [i \in Ring |-> NULL]
    /\ head' = 0 /\ tail' = 0 /\ pending' = 0
    /\ inflight' = 0 /\ completed' = 0 /\ failed' = 0 /\ accepted' = 0
    /\ peers' = [s \in Slots |-> NoPeer]
    /\ wpc' = "wait" /\ wreq' = NULL /\ wslot' = 0 /\ woff' = 0 /\ wbuf' = {} /\ wrc' = "OK"
    /\ UNCHANGED <<size, callerVars, deviceVars, crashed>>

\* The first half of ramdisk_urma_mgr_destroy.  main calls it after it joined
\* the control thread, so no API call is in progress and none follows.
MgrStop ==
    /\ ~crashed
    /\ life = "running"
    /\ \A c \in Callers : pc[c] = "idle"
    /\ life' = "stopping"
    /\ UNCHANGED <<tableVars, ringVars, countVars, callerVars, workerVars,
                   deviceVars, crashed>>

\* The second half, past pthread_join: free what active peers own.  The real
\* provider's jetty and completion queue go with it.
MgrDestroy ==
    /\ ~crashed
    /\ life = "stopping"
    /\ wpc = "exited"
    /\ life' = "off"
    /\ Release(UNION {peers[s].res : s \in {t \in Slots : peers[t].active}})
    /\ peers' = [s \in Slots |-> IF peers[s].active THEN Retired(peers[s]) ELSE peers[s]]
    /\ wrs' = {} /\ jfc' = <<>>
    /\ UNCHANGED <<enabled, ringVars, countVars, callerVars, workerVars, crashed>>

-----------------------------------------------------------------------------
(* The API, run by callers.                                                *)

Enable(c) ==
    /\ ~crashed
    /\ life = "running" /\ pc[c] = "idle"
    /\ enabled' = TRUE
    /\ UNCHANGED <<life, peers, size, ringVars, countVars, callerVars,
                   workerVars, deviceVars, crashed>>

Disable(c) ==
    /\ ~crashed
    /\ life = "running" /\ pc[c] = "idle"
    /\ enabled' = FALSE
    /\ UNCHANGED <<life, peers, size, ringVars, countVars, callerVars,
                   workerVars, deviceVars, crashed>>

\* ramdisk_urma_peer_connect up to pthread_mutex_lock.  Allocation and import
\* come first, outside the lock; when they fail nothing is kept.
ConnectBegin(c, id, seg) ==
    /\ ~crashed
    /\ life = "running" /\ pc[c] = "idle"
    /\ \E r \in PeerResources :
         /\ size' = [h \in Handles |-> IF h \in r THEN seg.len ELSE size[h]]
         /\ held' = [held EXCEPT ![c] =
                       [active |-> TRUE, peer_id |-> id, seg_va |-> seg.va,
                        seg_len |-> seg.len, res |-> r]]
    /\ pc' = [pc EXCEPT ![c] = "connect"]
    /\ UNCHANGED <<life, enabled, peers, req, ringVars, countVars, workerVars,
                   deviceVars, crashed>>

NotConnectedDropped(id) == TRUE

NotConnected(id) == FindPeer(id) = {}

FreeSlot(s) == ~peers[s].active /\ \A t \in 1..(s - 1) : peers[t].active

\* The critical section of ramdisk_urma_peer_connect when it succeeds.
ConnectInstall(c) ==
    /\ ~crashed
    /\ pc[c] = "connect"
    /\ enabled
    /\ NotConnected(held[c].peer_id)
    /\ \E s \in Slots : FreeSlot(s) /\ peers' = [peers EXCEPT ![s] = held[c]]
    /\ pc' = [pc EXCEPT ![c] = "idle"]
    /\ held' = [held EXCEPT ![c] = NoPeer]
    /\ UNCHANGED <<life, enabled, size, req, ringVars, countVars, workerVars,
                   deviceVars, crashed>>

\* ... and when it ends in -EOPNOTSUPP, -EEXIST or -ENOSPC.
ConnectRefuse(c) ==
    /\ ~crashed
    /\ pc[c] = "connect"
    /\ \/ ~enabled
       \/ ~NotConnected(held[c].peer_id)
       \/ \A s \in Slots : peers[s].active
    /\ pc' = [pc EXCEPT ![c] = "release"]
    /\ UNCHANGED <<life, tableVars, held, req, ringVars, countVars, workerVars,
                   deviceVars, crashed>>

\* The critical section of ramdisk_urma_peer_disconnect; -ENOENT changes nothing.
Disconnect(c, id) ==
    /\ ~crashed
    /\ life = "running" /\ pc[c] = "idle"
    /\ \E s \in FindPeer(id) :
         /\ held' = [held EXCEPT ![c] = peers[s]]
         /\ peers' = [peers EXCEPT ![s] = NoPeer]
    /\ pc' = [pc EXCEPT ![c] = "release"]
    /\ UNCHANGED <<life, enabled, size, req, ringVars, countVars, workerVars,
                   deviceVars, crashed>>

\* free(mock_hbm) and real_destroy_peer after the unlock, for a refused
\* connect and for a disconnect.
ReleaseHeld(c) ==
    /\ ~crashed
    /\ pc[c] = "release"
    /\ Release(held[c].res)
    /\ held' = [held EXCEPT ![c] = NoPeer]
    /\ pc' = [pc EXCEPT ![c] = "idle"]
    /\ UNCHANGED <<life, enabled, peers, req, ringVars, countVars, workerVars,
                   deviceVars, crashed>>

RequestIds == IF UniqueIds THEN {accepted + 1} ELSE 1..MaxAccepted

\* ramdisk_urma_transfer_sync up to its wait; every rejection changes nothing.
TransferEnqueue(c, x) ==
    /\ ~crashed
    /\ life = "running" /\ pc[c] = "idle"
    /\ accepted < MaxAccepted
    /\ ValidateXfer(x, x.remote) = "OK"
    /\ ~QueueFull
    /\ \E id \in RequestIds :
         req' = [req EXCEPT ![c] =
                   [live |-> TRUE, xfer |-> x, remote |-> x.remote, request_id |-> id,
                    status |-> "OK", done |-> FALSE, serial |-> accepted + 1,
                    moved |-> FALSE]]
    /\ queue' = [queue EXCEPT ![tail] = c]
    /\ tail' = NextIdx(tail)
    /\ pending' = pending + 1
    /\ accepted' = accepted + 1
    /\ pc' = [pc EXCEPT ![c] = "wait"]
    /\ UNCHANGED <<life, tableVars, held, head, inflight, completed, failed,
                   workerVars, deviceVars, crashed>>

\* The wait loop ends only on req.done: a timeout is logged and waited again.
TransferReturn(c) ==
    /\ ~crashed
    /\ pc[c] = "wait"
    /\ req[c].done
    /\ pc' = [pc EXCEPT ![c] = "idle"]
    /\ req' = [req EXCEPT ![c] = NoReq]
    /\ UNCHANGED <<life, tableVars, held, ringVars, countVars, workerVars,
                   deviceVars, crashed>>

-----------------------------------------------------------------------------
(* The worker, urma_worker_main.                                           *)

StopRequestedInverted == life = "stopping" /\ pending # 0

StopRequested == life = "stopping" /\ pending = 0

WorkerExit ==
    /\ ~crashed
    /\ wpc = "wait"
    /\ StopRequested
    /\ wpc' = "exited"
    /\ UNCHANGED <<life, tableVars, ringVars, countVars, callerVars, wreq, wslot,
                   woff, wbuf, wrc, deviceVars, crashed>>

\* The pointer validate_xfer_locked leaves in peer: the match on success; on
\* failure it is not assigned, and whatever the stack holds is used: an address
\* in the table, or one whose dereference ends the process.
PeerOut(x, rc) == IF rc = "OK" THEN FindPeer(x.peer_id) ELSE Slots \cup {0}

\* First critical section: dequeue, revalidate, and the assignment of
\* peer->seg_va to the request, which runs whatever the verdict.
WorkerDequeue ==
    /\ ~crashed
    /\ wpc = "wait"
    /\ pending > 0
    /\ LET c  == queue[head]
           rc == ValidateXfer(req[c].xfer, req[c].remote)
       IN /\ wreq' = c
          /\ wrc' = rc
          /\ \E s \in PeerOut(req[c].xfer, rc) :
               /\ wslot' = s
               /\ crashed' = (s = 0)
               /\ req' = IF s = 0 THEN req
                         ELSE [req EXCEPT ![c] = Rewrite(req[c], peers[s].seg_va,
                                  req[c].status, req[c].done, req[c].moved)]
          /\ wpc' = IF rc = "OK" THEN "exec" ELSE "finish"
    /\ queue' = [queue EXCEPT ![head] = NULL]
    /\ head' = NextIdx(head)
    /\ pending' = pending - 1
    /\ inflight' = inflight + 1
    /\ UNCHANGED <<life, tableVars, tail, completed, failed, accepted, pc, held,
                   woff, wbuf, deviceVars>>

\* execute_mock_xfer and execute_real_xfer up to their checks of the peer.
WorkerCheck ==
    /\ ~crashed
    /\ wpc = "exec"
    /\ woff' = req[wreq].remote - peers[wslot].seg_va
    /\ IF peers[wslot].res = {}
         THEN wpc' = "finish" /\ wrc' = "ENODEV"
         ELSE wpc' = "load" /\ UNCHANGED wrc
    /\ UNCHANGED <<life, tableVars, ringVars, countVars, callerVars, wreq, wslot,
                   wbuf, deviceVars, crashed>>

\* Past the backend lock the slot is read again: mock_hbm for the copy,
\* import_tseg and t_jetty for the work request.
WorkerLoad ==
    /\ ~crashed
    /\ wpc = "load"
    /\ wbuf' = peers[wslot].res
    /\ wpc' = "copy"
    /\ crashed' = (UseMock /\ peers[wslot].res = {})
    /\ UNCHANGED <<life, tableVars, ringVars, countVars, callerVars, wreq, wslot,
                   woff, wrc, deviceVars>>

\* The memcpy of execute_mock_xfer.
WorkerCopy ==
    /\ ~crashed
    /\ UseMock
    /\ wpc = "copy"
    /\ req' = [req EXCEPT ![wreq] = Moved(req[wreq])]
    /\ wpc' = "finish"
    /\ UNCHANGED <<life, tableVars, ringVars, countVars, pc, held, wreq, wslot,
                   woff, wbuf, wrc, deviceVars, crashed>>

\* urma_post_jetty_send_wr: it fails, or the work request is the device's.
WorkerPost ==
    /\ ~crashed
    /\ ~UseMock
    /\ wpc = "copy"
    /\ \/ wpc' = "finish" /\ wrc' = "EIO" /\ UNCHANGED wrs
       \/ /\ wpc' = "poll"
          /\ wrs' = wrs \cup {[user_ctx |-> req[wreq].request_id,
                               serial |-> req[wreq].serial, res |-> wbuf]}
          /\ UNCHANGED wrc
    /\ UNCHANGED <<life, tableVars, ringVars, countVars, callerVars, wreq, wslot,
                   woff, wbuf, jfc, crashed>>

MineAlways(cr) == TRUE

Mine(cr) == cr.user_ctx = req[wreq].request_id

\* One round of real_poll_completion that finds a completion.
WorkerPoll ==
    /\ ~crashed
    /\ wpc = "poll"
    /\ jfc # <<>>
    /\ jfc' = Tail(jfc)
    /\ IF Mine(Head(jfc))
         THEN wpc' = "finish" /\ wrc' = (IF Head(jfc).success THEN "OK" ELSE "EIO")
         ELSE UNCHANGED <<wpc, wrc>>
    /\ UNCHANGED <<life, tableVars, ringVars, countVars, callerVars, wreq, wslot,
                   woff, wbuf, wrs, crashed>>

\* urma_poll_jfc fails, or 30000 rounds found nothing.
WorkerGiveUp ==
    /\ ~crashed
    /\ wpc = "poll"
    /\ wpc' = "finish"
    /\ \/ wrc' = "EIO"
       \/ jfc = <<>> /\ wrc' = "ETIMEDOUT"
    /\ UNCHANGED <<life, tableVars, ringVars, countVars, callerVars, wreq, wslot,
                   woff, wbuf, deviceVars, crashed>>

CompleteNotDone(c, rc) ==
    req' = [req EXCEPT ![c] = Rewrite(req[c], req[c].remote, rc, FALSE, req[c].moved)]

Complete(c, rc) ==
    req' = [req EXCEPT ![c] = Rewrite(req[c], req[c].remote, rc, TRUE, req[c].moved)]

\* Second critical section: account for the request and wake its caller.
WorkerFinish ==
    /\ ~crashed
    /\ wpc = "finish"
    /\ inflight' = inflight - 1
    /\ completed' = completed + (IF wrc = "OK" THEN 1 ELSE 0)
    /\ failed' = failed + (IF wrc = "OK" THEN 0 ELSE 1)
    /\ Complete(wreq, wrc)
    /\ wpc' = "log"
    /\ UNCHANGED <<life, tableVars, ringVars, accepted, pc, held, wreq, wslot,
                   woff, wbuf, wrc, deviceVars, crashed>>

\* The log line after the unlock, which reads the request on the caller's
\* stack; then the loop body's locals go out of scope.
WorkerLog ==
    /\ ~crashed
    /\ wpc = "log"
    /\ wpc' = "wait"
    /\ wreq' = NULL /\ wslot' = 0 /\ woff' = 0 /\ wbuf' = {} /\ wrc' = "OK"
    /\ UNCHANGED <<life, tableVars, ringVars, countVars, callerVars, deviceVars, crashed>>

\* The device completes any outstanding work request, whoever still waits.
DeviceComplete(wr) ==
    /\ ~crashed
    /\ wrs' = wrs \ {wr}
    /\ \E success \in BOOLEAN :
         /\ jfc' = Append(jfc, [user_ctx |-> wr.user_ctx, success |-> success])
         /\ req' = [c \in Callers |->
                      IF success /\ req[c].live /\ req[c].serial = wr.serial
                        THEN Moved(req[c]) ELSE req[c]]
    /\ UNCHANGED <<life, tableVars, ringVars, countVars, pc, held, workerVars, crashed>>

-----------------------------------------------------------------------------
(* The specification.                                                      *)

Init ==
    /\ life = "off"
    /\ enabled = FALSE
    /\ queue = [i \in Ring |-> NULL]
    /\ head = 0 /\ tail = 0 /\ pending = 0
    /\ inflight = 0 /\ completed = 0 /\ failed = 0 /\ accepted = 0
    /\ peers = [s \in Slots |-> NoPeer]
    /\ size = [h \in Handles |-> 0]
    /\ pc = [c \in Callers |-> "idle"]
    /\ held = [c \in Callers |-> NoPeer]
    /\ req = [c \in Callers |-> NoReq]
    /\ wpc = "exited" /\ wreq = NULL /\ wslot = 0 /\ woff = 0 /\ wbuf = {} /\ wrc = "OK"
    /\ wrs = {} /\ jfc = <<>>
    /\ crashed = FALSE

MainStep == MgrInit \/ MgrStop \/ MgrDestroy

\* A caller starts an operation of its choice ...
CallerBegins(c) ==
    \/ Enable(c)
    \/ Disable(c)
    \/ \E id \in PeerIds, seg \in Segments : ConnectBegin(c, id, seg)
    \/ \E id \in PeerIds : Disconnect(c, id)
    \/ \E x \in Xfers : TransferEnqueue(c, x)

\* ... and, once started, runs it to its end.
CallerContinues(c) ==
    \/ ConnectInstall(c)
    \/ ConnectRefuse(c)
    \/ ReleaseHeld(c)
    \/ TransferReturn(c)

WorkerStep ==
    \/ WorkerExit
    \/ WorkerDequeue
    \/ WorkerCheck
    \/ WorkerLoad
    \/ WorkerCopy
    \/ WorkerPost
    \/ WorkerPoll
    \/ WorkerGiveUp
    \/ WorkerFinish
    \/ WorkerLog

DeviceStep == \E wr \in wrs : DeviceComplete(wr)

Next ==
    \/ MainStep
    \/ \E c \in Callers : CallerBegins(c) \/ CallerContinues(c)
    \/ WorkerStep
    \/ DeviceStep

Spec == Init /\ [][Next]_vars

\* Threads that can run do run: the worker, a caller inside a call, and main
\* once it has begun to destroy the manager.  Nobody is obliged to start a
\* call, and the device is obliged to nothing.
Fairness ==
    /\ WF_vars(WorkerStep)
    /\ \A c \in Callers : WF_vars(CallerContinues(c))
    /\ WF_vars(MgrDestroy)

FairSpec == Spec /\ Fairness

-----------------------------------------------------------------------------
(* Properties.                                                             *)

PeerRecords == [active : BOOLEAN, peer_id : PeerIds \cup {0}, seg_va : Nat,
                seg_len : Nat, res : SUBSET Handles]

Requests == [live : BOOLEAN, xfer : Xfers \cup {NULL}, remote : Nat,
             request_id : Nat, status : Codes, done : BOOLEAN, serial : Nat,
             moved : BOOLEAN]

\* Every variable has the type the C declarations give it.
TypeOK ==
    /\ life \in {"off", "running", "stopping"}
    /\ enabled \in BOOLEAN
    /\ queue \in [Ring -> Callers \cup {NULL}]
    /\ head \in Ring /\ tail \in Ring
    /\ pending \in 0..QueueDepth /\ inflight \in 0..1
    /\ completed \in Nat /\ failed \in Nat /\ accepted \in Nat
    /\ peers \in [Slots -> PeerRecords]
    /\ size \in [Handles -> Nat]
    /\ pc \in [Callers -> {"idle", "connect", "release", "wait"}]
    /\ held \in [Callers -> PeerRecords]
    /\ req \in [Callers -> Requests]
    /\ wpc \in {"wait", "exec", "load", "copy", "poll", "finish", "log", "exited"}
    /\ wreq \in Callers \cup {NULL}
    /\ wslot \in Slots \cup {0}
    /\ woff \in Int
    /\ wbuf \in SUBSET Handles
    /\ wrc \in Codes
    /\ wrs \subseteq [user_ctx : Nat, serial : Nat, res : SUBSET Handles]
    /\ jfc \in Seq([user_ctx : Nat, success : BOOLEAN])
    /\ crashed \in BOOLEAN

\* The worker has taken a request off the ring and not yet completed it.
Busy == wpc \in {"exec", "load", "copy", "poll", "finish"}

\* The ring index of the i-th waiting request.
Occ(i) == IF head + i < QueueDepth THEN head + i ELSE head + i - QueueDepth

Finished == completed + failed

\* The ring is a FIFO: its occupied slots are the pending ones from head up to
\* tail, they hold requests of blocked callers in the order they were
\* accepted, and the worker's request is the oldest of all.  Each accepted
\* request is therefore run once, in order, through every wrap of head and
\* tail in urma_worker_main and ramdisk_urma_transfer_sync.
QueueFIFO ==
    /\ tail = Occ(pending)
    /\ \A i \in 0..(QueueDepth - 1) :
         IF i < pending
           THEN /\ queue[Occ(i)] \in Callers
                /\ pc[queue[Occ(i)]] = "wait"
                /\ ~req[queue[Occ(i)]].done
                /\ req[queue[Occ(i)]].serial = Finished + inflight + i + 1
           ELSE queue[Occ(i)] = NULL
    /\ Busy => /\ pc[wreq] = "wait"
               /\ ~req[wreq].done
               /\ req[wreq].serial = Finished + 1

\* No accepted request is forgotten: a caller blocked in
\* ramdisk_urma_transfer_sync whose request is not done is on the ring or in
\* the worker's hands, and the counters ramdisk_urma_fill_status reports
\* account for every request accepted.
NoLostRequest ==
    /\ \A c \in Callers :
         (pc[c] = "wait" /\ ~req[c].done) =>
            (Busy /\ wreq = c) \/ \E i \in Ring : queue[i] = c
    /\ accepted = Finished + inflight + pending

\* Two active peers never share a peer_id, although ramdisk_urma_peer_connect
\* allocates before it takes the lock and checks for duplicates after.
PeersUnique ==
    \A s, t \in Slots :
        (peers[s].active /\ peers[t].active /\ peers[s].peer_id = peers[t].peer_id) => s = t

Live == {h \in Handles : size[h] # 0}

\* Every buffer and import that exists has exactly one owner, a slot of the
\* table or a connect or disconnect in progress, and nothing owned has been
\* freed: no path of connect, disconnect and destroy leaks or frees twice.
ResourcesOwned ==
    /\ Live = (UNION {peers[s].res : s \in Slots}) \cup (UNION {held[c].res : c \in Callers})
    /\ \A s, t \in Slots : s # t => peers[s].res \cap peers[t].res = {}
    /\ \A c, d \in Callers : c # d => held[c].res \cap held[d].res = {}
    /\ \A s \in Slots, c \in Callers : peers[s].res \cap held[c].res = {}

\* While the worker runs a transfer outside the lock through its raw slot
\* pointer, the slot is still that request's peer and the bytes it is about to
\* touch are inside memory that is still allocated.  (Holds when the API has
\* one caller, as in the daemon.)
TransferTouchesLivePeer ==
    wpc \in {"exec", "load", "copy"} =>
        /\ wslot \in Slots
        /\ peers[wslot].active
        /\ peers[wslot].peer_id = req[wreq].xfer.peer_id
        /\ wpc = "copy" =>
             /\ wbuf # {}
             /\ \A h \in wbuf : 0 <= woff /\ woff + req[wreq].xfer.length <= size[h]

\* A transfer is reported OK only after its own bytes moved: the memcpy ran,
\* or its own work request was completed by the device, never a late
\* completion left behind by a request that timed out.
OkMeansMoved ==
    \A c \in Callers : (req[c].done /\ req[c].status = "OK") => req[c].moved

\* Every caller blocked in ramdisk_urma_transfer_sync returns, although its wait
\* loop never gives up: the worker completes the request even when the device
\* does not.
TransfersReturn == \A c \in Callers : pc[c] = "wait" ~> pc[c] = "idle"

\* The pthread_join of ramdisk_urma_mgr_destroy is always followed by the rest
\* of the function: the worker drains the ring and leaves its loop.
DestroyEnds == life = "stopping" ~> life = "off"

=============================================================================
