------------------------------ MODULE NbdServe ------------------------------
(***************************************************************************)
(* The data paths of the userspace daemon that meet in the backend memory: *)
(* serve_nbd (userspace-nbd/src/nbd_ramdisk.c), which answers the kernel's *)
(* NBD requests, and the copy of a URMA transfer (execute_mock_xfer or     *)
(* execute_real_xfer in ramdisk_urma.c), over ramdisk_backend.c.           *)
(*                                                                         *)
(* A memcpy is a byte per step, so that what the backend lock excludes is  *)
(* excluded by the lock and not by the model.  The kernel's side of the    *)
(* socket is external.                                                     *)
(***************************************************************************)
EXTENDS Naturals, Sequences

CONSTANTS
    Handles,        \* handles of the kernel's requests, each used once (bound)
    Commands,       \* requests: records with type, from, len and val
    Transfers,      \* transfers: records with dir, off and len
    Size,           \* backend->size
    Vals,           \* contents of a byte
    Junk,           \* bound: what a byte that realloc adds may hold
    PeerMemory,     \* what the peer's memory holds at first
    MaxTransfers,   \* bound: transfers in a behaviour
    Urma,           \* "mock" or "real"
    AllocFails,     \* may realloc fail?
    CutAtPayload,   \* may the socket end between a header and its payload?
    NULL

\* The answers the kernel may get.
Answers == [rc : {"OK", "ENOMEM", "ERANGE"}, data : UNION {[1 .. n -> Vals] : n \in 0 .. Size}]

ASSUME ServeConstants ==
    /\ Size \in Nat /\ MaxTransfers \in Nat
    /\ 0 \in Vals /\ Junk \subseteq Vals /\ Junk # {}
    /\ PeerMemory \in [0 .. Size - 1 -> Vals]
    /\ \A c \in Commands :
         /\ c.type \in {"READ", "WRITE", "TRIM", "FLUSH"}
         /\ c.from \in Nat /\ c.len \in Nat /\ c.val \in Vals
         /\ IF c.type = "FLUSH" THEN c.from = 0 /\ c.len = 0 ELSE c.len > 0
         /\ c.type # "WRITE" => c.val = 0
    /\ \A t \in Transfers :
         /\ t.dir \in {"HBM_TO_RAMDISK", "RAMDISK_TO_HBM"}
         /\ t.off \in Nat /\ t.len \in Nat \ {0} /\ t.off + t.len <= Size
    /\ Urma \in {"mock", "real"}
    /\ {AllocFails, CutAtPayload} \subseteq BOOLEAN
    /\ NULL \notin Handles /\ NULL \notin Commands /\ NULL \notin Answers
    /\ NULL \notin {"nbd", "urma"}

VARIABLES
    mem, lock,      \* the backend: its memory, and who holds its mutex
    hbm,            \* memory of the peer
    g_stop,
    wire, shut,     \* app_sock: unread messages, and is it shut down?
    sending,        \* WRITE whose header is sent and whose payload is not
    disc,           \* the DISC of NBD_DISCONNECT: "none", "asked" or "sent"
    cmds,           \* the request under each handle
    answers,        \* the answer the kernel got
    pc, req, buf, rc, done,  \* serve_nbd: done counts the bytes of a memcpy
    upc, xfer, udone, moved  \* the URMA worker: moved counts its transfers

backend == <<mem, lock>>
kernel  == <<wire, shut, sending, disc, cmds>>
server  == <<pc, req, buf, rc, done>>
worker  == <<upc, xfer, udone, moved>>
vars == <<backend, hbm, g_stop, kernel, answers, server, worker>>

Cells(off, len) == off .. off + len - 1

-----------------------------------------------------------------------------
(* The kernel, external: it sends headers and payloads in order, one       *)
(* sender at a time, and may shut the socket down.  It sends the commands  *)
(* the daemon's NBD_SET_FLAGS announces, so a bad magic and an unknown     *)
(* command are left out.                                                   *)

Header(h, c) == [kind |-> "header", h |-> h, type |-> c.type, from |-> c.from, len |-> c.len]
Payload(c)   == [kind |-> "payload", val |-> c.val]
Part         == [kind |-> "part"]
DiscHeader   == Header(NULL, [type |-> "DISC", from |-> 0, len |-> 0])

\* What follows DISC is never read.
KernelSend(h) ==
    /\ ~shut /\ sending = NULL /\ disc # "sent"
    /\ cmds[h] = NULL
    /\ \E c \in Commands :
         /\ cmds' = [cmds EXCEPT ![h] = c]
         /\ wire' = Append(wire, Header(h, c))
         /\ sending' = IF c.type = "WRITE" THEN h ELSE NULL
    /\ UNCHANGED <<backend, hbm, g_stop, shut, disc, answers, server, worker>>

KernelPayload ==
    /\ ~shut /\ sending # NULL
    /\ wire' = Append(wire, Payload(cmds[sending]))
    /\ sending' = NULL
    /\ UNCHANGED <<backend, hbm, g_stop, shut, disc, cmds, answers, server, worker>>

\* A message that the shutdown cuts has left some of its bytes on the wire; a
\* payload may have left none.
KernelShutdown ==
    /\ ~shut
    /\ shut' = TRUE
    /\ \/ wire' = Append(wire, Part)
       \/ (sending = NULL \/ CutAtPayload) /\ UNCHANGED wire
    /\ UNCHANGED <<backend, hbm, g_stop, sending, disc, cmds, answers, server, worker>>

SignalFlagOnly ==
    /\ ~g_stop
    /\ g_stop' = TRUE
    /\ UNCHANGED <<backend, hbm, kernel, answers, server, worker>>

\* signal_handler, whose NBD_DISCONNECT ...
Signal ==
    /\ ~g_stop
    /\ g_stop' = TRUE
    /\ disc' = "asked"
    /\ UNCHANGED <<backend, hbm, wire, shut, sending, cmds, answers, server, worker>>

\* ... makes the kernel send DISC, when it is its turn on the socket.
KernelDisc ==
    /\ disc = "asked" /\ ~shut /\ sending = NULL
    /\ wire' = Append(wire, DiscHeader)
    /\ disc' = "sent"
    /\ UNCHANGED <<backend, hbm, g_stop, shut, sending, cmds, answers, server, worker>>

-----------------------------------------------------------------------------
(* serve_nbd: the loop's head and the payload of a WRITE.                  *)

Arrived(kind) == wire # <<>> /\ Head(wire).kind = kind
Eof == wire = <<>> /\ shut

LoopTest ==
    /\ pc = "loop"
    /\ pc' = IF g_stop THEN "out" ELSE "read"
    /\ UNCHANGED <<backend, hbm, g_stop, kernel, answers, req, buf, rc, done, worker>>

\* realloc keeps what buf held; the bytes it adds hold whatever was there.
Grow(len) ==
    \/ /\ len <= Len(buf)
       /\ rc' = "OK" /\ UNCHANGED buf
    \/ /\ len > Len(buf)
       /\ \E junk \in Junk :
            buf' = [i \in 1 .. len |-> IF i <= Len(buf) THEN buf[i] ELSE junk]
       /\ rc' = "OK"
    \/ /\ len > Len(buf) /\ AllocFails
       /\ rc' = "ENOMEM" /\ UNCHANGED buf

After(type) ==
    CASE type = "WRITE" -> "payload"
      [] type \in {"READ", "TRIM"} -> "call"
      [] OTHER -> "reply"

ReadHeader ==
    /\ pc = "read"
    /\ Arrived("header")
    /\ req' = Head(wire)
    /\ wire' = Tail(wire)
    /\ Grow(Head(wire).len)
    /\ pc' = After(Head(wire).type)
    /\ UNCHANGED <<backend, hbm, g_stop, shut, sending, disc, cmds, answers, done, worker>>

\* read_full at the end of the stream, and in the middle of a header.
ReadNothing ==
    /\ pc = "read"
    /\ Eof \/ Arrived("part")
    /\ pc' = "out"
    /\ UNCHANGED <<backend, hbm, g_stop, kernel, answers, req, buf, rc, done, worker>>

Fill(len, val) == [i \in DOMAIN buf |-> IF i <= len THEN val ELSE buf[i]]

ReadPayload ==
    /\ pc = "payload"
    /\ Arrived("payload")
    /\ req.len <= Len(buf)
    /\ buf' = Fill(req.len, Head(wire).val)
    /\ wire' = Tail(wire)
    /\ pc' = "call"
    /\ UNCHANGED <<backend, hbm, g_stop, shut, sending, disc, cmds, answers, req, rc, done, worker>>

\* After a failed realloc buf is shorter than the payload.  Into no buffer at
\* all the read fails; past the end of one it destroys what lies there, and the
\* daemon crashes or goes on.
ReadPayloadShortBuf ==
    /\ pc = "payload"
    /\ Arrived("payload")
    /\ req.len > Len(buf)
    /\ buf' = Fill(req.len, Head(wire).val)
    /\ wire' = Tail(wire)
    /\ pc' \in IF buf = <<>> THEN {"out"} ELSE {"crashed", "call"}
    /\ UNCHANGED <<backend, hbm, g_stop, shut, sending, disc, cmds, answers, req, rc, done, worker>>

\* read_full returns -EPIPE after some bytes, and 0 before the first one.
ReadPayloadCut ==
    /\ pc = "payload"
    /\ Eof \/ Arrived("part")
    /\ pc' = IF Eof THEN "call" ELSE "out"
    /\ UNCHANGED <<backend, hbm, g_stop, kernel, answers, req, buf, rc, done, worker>>

-----------------------------------------------------------------------------
(* ramdisk_backend_read, _write and _zero, as serve_nbd calls them.        *)

\* ramdisk_backend_validate_range
InRange(q) == q.from <= Size /\ q.len <= Size - q.from

\* The rc before any byte is copied: TRIM needs no buffer and forgets that
\* there was none.
CallRc ==
    IF req.type # "TRIM" /\ rc # "OK" THEN rc
    ELSE IF req.type # "TRIM" /\ buf = <<>> THEN "EINVAL"
    ELSE IF ~InRange(req) THEN "ERANGE"
    ELSE "OK"

CallRefused ==
    /\ pc = "call"
    /\ CallRc # "OK"
    /\ rc' = CallRc
    /\ pc' = "reply"
    /\ UNCHANGED <<backend, hbm, g_stop, kernel, answers, req, buf, done, worker>>

LockFreeAlways == TRUE

\* pthread_mutex_lock(&backend->lock) returns.
LockFree == lock = NULL

CallLock ==
    /\ pc = "call"
    /\ CallRc = "OK"
    /\ LockFree
    /\ lock' = "nbd"
    /\ rc' = "OK" /\ done' = 0
    /\ pc' = "copy"
    /\ UNCHANGED <<mem, hbm, g_stop, kernel, answers, req, buf, worker>>

\* A byte of the memcpy or memset.
CallCopy ==
    /\ pc = "copy"
    /\ done < req.len
    /\ done' = done + 1
    /\ LET at == req.from + done IN
         \/ req.type = "READ"  /\ buf' = [buf EXCEPT ![done + 1] = mem[at]] /\ UNCHANGED mem
         \/ req.type = "WRITE" /\ mem' = [mem EXCEPT ![at] = buf[done + 1]] /\ UNCHANGED buf
         \/ req.type = "TRIM"  /\ mem' = [mem EXCEPT ![at] = 0] /\ UNCHANGED buf
    /\ UNCHANGED <<lock, hbm, g_stop, kernel, answers, pc, req, rc, worker>>

CallUnlockForgotten ==
    /\ pc = "copy"
    /\ done = req.len
    /\ pc' = "reply"
    /\ UNCHANGED <<backend, hbm, g_stop, kernel, answers, req, buf, rc, done, worker>>

CallUnlock ==
    /\ pc = "copy"
    /\ done = req.len
    /\ lock' = NULL
    /\ pc' = "reply"
    /\ UNCHANGED <<mem, hbm, g_stop, kernel, answers, req, buf, rc, done, worker>>

-----------------------------------------------------------------------------
(* The reply.  A write to a socket that is shut down raises SIGPIPE, which *)
(* the daemon leaves at its default: it is killed.                         *)

WithData == req.type = "READ" /\ rc = "OK"

Answer(code, data) ==
    answers' = IF req.h = NULL THEN answers
               ELSE [answers EXCEPT ![req.h] = [rc |-> code, data |-> data]]

SendReply ==
    /\ pc = "reply" /\ ~shut
    /\ IF WithData THEN UNCHANGED answers ELSE Answer(rc, <<>>)
    /\ pc' = CASE WithData -> "data"
               [] req.type = "DISC" -> "out"
               [] OTHER -> "loop"
    /\ UNCHANGED <<backend, hbm, g_stop, kernel, req, buf, rc, done, worker>>

SendData ==
    /\ pc = "data" /\ ~shut
    /\ Answer("OK", [i \in 1 .. req.len |-> buf[i]])
    /\ pc' = "loop"
    /\ UNCHANGED <<backend, hbm, g_stop, kernel, req, buf, rc, done, worker>>

Killed ==
    /\ pc \in {"reply", "data"} /\ shut
    /\ pc' = "killed"
    /\ UNCHANGED <<backend, hbm, g_stop, kernel, answers, req, buf, rc, done, worker>>

\* free(buf)
ServeReturn ==
    /\ pc = "out"
    /\ buf' = <<>>
    /\ pc' = "done"
    /\ UNCHANGED <<backend, hbm, g_stop, kernel, answers, req, rc, done, worker>>

-----------------------------------------------------------------------------
(* The copy of a URMA transfer that UrmaMgr's worker has validated.        *)

Running == pc \notin {"done", "killed", "crashed"}

\* execute_mock_xfer takes the backend lock; execute_real_xfer takes none, and
\* the device moves the bytes.
XferBegin(t) ==
    /\ Running
    /\ upc = "idle" /\ moved < MaxTransfers
    /\ IF Urma = "mock" THEN lock = NULL /\ lock' = "urma" ELSE UNCHANGED lock
    /\ upc' = "copy"
    /\ xfer' = t /\ udone' = 0 /\ moved' = moved + 1
    /\ UNCHANGED <<mem, hbm, g_stop, kernel, answers, server>>

XferCopy ==
    /\ Running
    /\ upc = "copy" /\ udone < xfer.len
    /\ udone' = udone + 1
    /\ LET at == xfer.off + udone IN
         \/ xfer.dir = "HBM_TO_RAMDISK" /\ mem' = [mem EXCEPT ![at] = hbm[at]] /\ UNCHANGED hbm
         \/ xfer.dir = "RAMDISK_TO_HBM" /\ hbm' = [hbm EXCEPT ![at] = mem[at]] /\ UNCHANGED mem
    /\ UNCHANGED <<lock, g_stop, kernel, answers, server, upc, xfer, moved>>

XferEnd ==
    /\ Running
    /\ upc = "copy" /\ udone = xfer.len
    /\ lock' = IF Urma = "mock" THEN NULL ELSE lock
    /\ upc' = "idle" /\ xfer' = NULL
    /\ UNCHANGED <<mem, hbm, g_stop, kernel, answers, server, udone, moved>>

-----------------------------------------------------------------------------
Init ==
    /\ mem = [i \in 0 .. Size - 1 |-> 0] /\ lock = NULL
    /\ hbm = PeerMemory
    /\ g_stop = FALSE
    /\ wire = <<>> /\ shut = FALSE /\ sending = NULL /\ disc = "none"
    /\ cmds = [h \in Handles |-> NULL]
    /\ answers = [h \in Handles |-> NULL]
    /\ pc = "loop" /\ req = NULL /\ buf = <<>> /\ rc = "OK" /\ done = 0
    /\ upc = "idle" /\ xfer = NULL /\ udone = 0 /\ moved = 0

Kernel ==
    \/ \E h \in Handles : KernelSend(h)
    \/ KernelPayload \/ KernelShutdown \/ Signal \/ KernelDisc

Serve ==
    \/ LoopTest \/ ReadHeader \/ ReadNothing \/ ReadPayload \/ ReadPayloadShortBuf
    \/ ReadPayloadCut \/ CallRefused \/ CallLock \/ CallCopy \/ CallUnlock
    \/ SendReply \/ SendData \/ Killed \/ ServeReturn

XferContinues == XferCopy \/ XferEnd

Next ==
    \/ Kernel \/ Serve
    \/ \E t \in Transfers : XferBegin(t)
    \/ XferContinues

Spec == Init /\ [][Next]_vars

\* The threads are scheduled and a mutex that is free again and again is got (SF:
\* the worker may take it in between); the kernel ends what it has begun to send.
Fairness ==
    /\ WF_vars(Serve) /\ SF_vars(CallLock)
    /\ WF_vars(XferContinues)
    /\ WF_vars(KernelPayload) /\ WF_vars(KernelDisc)

FairSpec == Spec /\ Fairness

-----------------------------------------------------------------------------
(* Properties.                                                             *)

\* The refinement: a call takes effect when it gets the lock, so the bytes a copy
\* under way has not reached count as copied.
Pending(i) == pc = "copy" /\ i \in Cells(req.from + done, req.len - done)
Moving(i)  == upc = "copy" /\ i \in Cells(xfer.off + udone, xfer.len - udone)

StoreView == [i \in 0 .. Size - 1 |->
    IF Pending(i) /\ req.type = "WRITE" THEN buf[i - req.from + 1]
    ELSE IF Pending(i) /\ req.type = "TRIM" THEN 0
    ELSE IF Moving(i) /\ xfer.dir = "HBM_TO_RAMDISK" THEN hbm[i]
    ELSE mem[i]]

HbmView == [i \in 0 .. Size - 1 |->
    IF Moving(i) /\ xfer.dir = "RAMDISK_TO_HBM" THEN mem[i] ELSE hbm[i]]

ReadView == [i \in 1 .. req.len |->
    IF Pending(req.from + i - 1) THEN mem[req.from + i - 1] ELSE buf[i]]

ResultView(h) ==
    IF answers[h] # NULL THEN answers[h]
    ELSE IF pc \in {"copy", "reply", "data", "killed"} /\ req.h = h
      THEN [rc |-> rc, data |-> IF WithData THEN ReadView ELSE <<>>]
    ELSE NULL

Promise == INSTANCE Disk WITH
    store <- StoreView, hbm <- HbmView, cmd <- cmds,
    res <- [h \in Handles |-> ResultView(h)],
    told <- {h \in Handles : answers[h] # NULL}

\* The NBD path and the transfer path together are one atomic disk: a command
\* that reports success had its whole effect at one instant between its request
\* and its reply, one that reports an error had none, and no read or transfer
\* sees half of another (ramdisk_backend_read/write/zero and execute_mock_xfer
\* under backend->lock).
ImplementsDisk == Promise!Spec

\* A request that is completely sent is answered, unless the socket is shut down,
\* a signal comes, or the payload of a WRITE finds no memory (serve_nbd answers
\* every other command on every path).
RequestsAnswered ==
    \A h \in Handles :
        cmds[h] # NULL /\ sending # h
          ~> answers[h] # NULL \/ shut \/ g_stop \/ (~Running /\ rc = "ENOMEM")

\* SIGINT or SIGTERM ends the serve loop, also when it is blocked in read_full
\* at that moment (signal_handler's NBD_DISCONNECT wakes it).
StopEndsServing == g_stop ~> ~Running

\* DESIGN.md: "Short write payload read: log and disconnect."  A WRITE changes
\* the memory only when its payload has come.
ShortPayloadDisconnects ==
    pc = "copy" /\ req.type = "WRITE" => sending # req.h

\* DESIGN.md: a transfer that overlaps active filesystem IO is serialized with
\* it by the backend lock.
OverlapSerialized ==
    pc = "copy" /\ upc = "copy" =>
        Cells(req.from, req.len) \cap Cells(xfer.off, xfer.len) = {}
=============================================================================
