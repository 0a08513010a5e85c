--------------------------- MODULE UrmaMgrProofs ---------------------------
(***************************************************************************)
(* Proofs about the ring and the peer table of UrmaMgr, for any number of  *)
(* callers, slots and handles and any queue depth.                         *)
(***************************************************************************)
EXTENDS UrmaMgr, TLAPS, FiniteSetTheorems

(***************************************************************************)
(* The inductive invariant of the ring.  QueueFIFO and NoLostRequest need  *)
(* each other and three facts about control: inflight says whether the     *)
(* worker is busy, a busy worker has a request and (until it is done with  *)
(* the peer) a slot, and no call is in progress outside "running".         *)
(***************************************************************************)
Control ==
    /\ inflight = IF Busy THEN 1 ELSE 0
    /\ Busy => wreq \in Callers
    /\ (wpc \in {"exec", "load", "copy"}) => wslot \in Slots
    /\ life # "running" => \A c \in Callers : pc[c] = "idle"

QueueInv == TypeOK /\ Control /\ QueueFIFO /\ NoLostRequest

(* The wrap of mgr->head and mgr->tail without the modulus. *)
LEMMA NextIdxWraps ==
    ASSUME NEW i \in Ring
    PROVE  NextIdx(i) = IF i = QueueDepth - 1 THEN 0 ELSE i + 1
  BY Sizes DEF NextIdx, Ring

(* ... which stays on the ring. *)
LEMMA NextIdxType ==
    ASSUME NEW i \in Ring
    PROVE  NextIdx(i) \in Ring
  BY Sizes, NextIdxWraps DEF Ring

(* QueueFIFO, index by index. *)
LEMMA FIFOAt ==
    ASSUME QueueFIFO, NEW i \in 0..(QueueDepth - 1)
    PROVE  /\ i < pending => /\ queue[Occ(i)] \in Callers
                             /\ pc[queue[Occ(i)]] = "wait"
                             /\ ~req[queue[Occ(i)]].done
                             /\ req[queue[Occ(i)]].serial = Finished + inflight + i + 1
           /\ ~(i < pending) => queue[Occ(i)] = NULL
  BY DEF QueueFIFO

(* The oldest waiting request is at head. *)
LEMMA FIFOHead ==
    ASSUME QueueFIFO, head \in Ring, pending \in Nat, pending > 0
    PROVE  /\ queue[head] \in Callers
           /\ pc[queue[head]] = "wait"
           /\ ~req[queue[head]].done
           /\ req[queue[head]].serial = Finished + inflight + 0 + 1
  <1>1. 0 \in 0..(QueueDepth - 1) /\ 0 < pending
    BY Sizes
  <1>2. Occ(0) = head
    BY Sizes DEF Occ, Ring
  <1> QED
    BY <1>1, <1>2, FIFOAt

(* The initial state satisfies the invariant. *)
LEMMA QueueInit == Init => QueueInv
  <1> SUFFICES ASSUME Init PROVE QueueInv
    OBVIOUS
  <1>1. NoPeer \in PeerRecords /\ NoReq \in Requests
    BY DEF NoPeer, NoReq, PeerRecords, Requests, Codes
  <1>2. TypeOK
    <2>1. jfc \in Seq([user_ctx : Nat, success : BOOLEAN])
      BY DEF Init
    <2>2. /\ peers \in [Slots -> PeerRecords]
          /\ held \in [Callers -> PeerRecords]
          /\ req \in [Callers -> Requests]
      BY <1>1 DEF Init
    <2>3. /\ queue \in [Ring -> Callers \cup {NULL}]
          /\ head \in Ring /\ tail \in Ring
          /\ pending \in 0..QueueDepth /\ inflight \in 0..1
          /\ completed \in Nat /\ failed \in Nat /\ accepted \in Nat
      BY Sizes DEF Init, Ring
    <2>4. /\ size \in [Handles -> Nat]
          /\ pc \in [Callers -> {"idle", "connect", "release", "wait"}]
          /\ wbuf \in SUBSET Handles
          /\ wrs \subseteq [user_ctx : Nat, serial : Nat, res : SUBSET Handles]
          /\ wrc \in Codes
      BY DEF Init, Codes
    <2>5. enabled \in BOOLEAN /\ crashed \in BOOLEAN
      BY Zenon DEF Init
    <2>6. /\ life \in {"off", "running", "stopping"}
          /\ wpc \in {"wait", "exec", "load", "copy", "poll", "finish", "log", "exited"}
          /\ wreq \in Callers \cup {NULL}
          /\ wslot \in Slots \cup {0}
          /\ woff \in Int
      BY DEF Init
    <2> QED
      BY <2>1, <2>2, <2>3, <2>4, <2>5, <2>6, Zenon DEF TypeOK
  <1>3. Control /\ QueueFIFO /\ NoLostRequest
    BY Sizes DEF Init, Control, QueueFIFO, NoLostRequest, Busy, Occ, Finished, Ring
  <1> QED
    BY <1>2, <1>3 DEF QueueInv

(***************************************************************************)
(* Types.                                                                  *)
(***************************************************************************)

(* Every verdict of validate_xfer_locked is an error code. *)
LEMMA ValidateType ==
    ASSUME NEW x, NEW remote
    PROVE  ValidateXfer(x, remote) \in Codes
  BY DEF ValidateXfer, Codes

(* Rewriting the mutable fields of a request gives a request; its identity *)
(* (serial, xfer, request_id) stays.                                       *)
LEMMA RewriteType ==
    ASSUME NEW q \in Requests, NEW remote \in Nat, NEW status \in Codes,
           NEW done \in BOOLEAN, NEW moved \in BOOLEAN
    PROVE  Rewrite(q, remote, status, done, moved) \in Requests
  BY DEF Rewrite, Requests

(* ... and so does marking its bytes as moved. *)
LEMMA MovedType ==
    ASSUME NEW q \in Requests
    PROVE  Moved(q) \in Requests
  <1>1. q.remote \in Nat /\ q.status \in Codes /\ q.done \in BOOLEAN
    BY DEF Requests
  <1> QED
    BY <1>1, RewriteType, Zenon DEF Moved

(* Steps of main keep the types. *)
LEMMA TypeMain ==
    ASSUME QueueInv, MainStep
    PROVE  TypeOK'
  <1> USE DEF QueueInv, TypeOK
  <1>1. CASE MgrInit
    <2>1. peers' \in [Slots -> PeerRecords]
      BY <1>1 DEF MgrInit, NoPeer, PeerRecords
    <2> QED
      BY <1>1, <2>1, Sizes DEF MgrInit, callerVars, deviceVars, Ring, Codes
  <1>2. CASE MgrStop
    BY <1>2 DEF MgrStop, tableVars, ringVars, countVars, callerVars, workerVars, deviceVars
  <1>3. CASE MgrDestroy
    <2>1. peers' \in [Slots -> PeerRecords]
      BY <1>3 DEF MgrDestroy, Retired, PeerRecords
    <2>2. size' \in [Handles -> Nat]
      BY <1>3 DEF MgrDestroy, Release
    <2>3. wrs' \subseteq [user_ctx : Nat, serial : Nat, res : SUBSET Handles]
      BY <1>3 DEF MgrDestroy
    <2>4. jfc' \in Seq([user_ctx : Nat, success : BOOLEAN])
      BY <1>3 DEF MgrDestroy
    <2> QED
      BY <1>3, <2>1, <2>2, <2>3, <2>4
      DEF MgrDestroy, ringVars, countVars, callerVars, workerVars
  <1> QED
    BY <1>1, <1>2, <1>3, Zenon DEF MainStep

(* Steps of a caller keep the types. *)
LEMMA TypeCaller ==
    ASSUME QueueInv, NEW c \in Callers, CallerBegins(c) \/ CallerContinues(c)
    PROVE  TypeOK'
  <1> USE DEF QueueInv, TypeOK, tableVars, ringVars, countVars, callerVars,
              workerVars, deviceVars
  <1>1. CASE Enable(c) \/ Disable(c)
    BY <1>1, Zenon DEF Enable, Disable
  <1>2. ASSUME NEW id \in PeerIds, NEW seg \in Segments, ConnectBegin(c, id, seg)
        PROVE  TypeOK'
    <2>1. PICK r \in SUBSET Handles :
            /\ size' = [h \in Handles |-> IF h \in r THEN seg.len ELSE size[h]]
            /\ held' = [held EXCEPT ![c] =
                          [active |-> TRUE, peer_id |-> id, seg_va |-> seg.va,
                           seg_len |-> seg.len, res |-> r]]
      BY <1>2, Zenon DEF ConnectBegin, PeerResources, FreeHandles
    <2>2. seg.va \in Nat /\ seg.len \in Nat
      BY Inputs
    <2>3. size' \in [Handles -> Nat]
      BY <2>1, <2>2
    <2>4. held' \in [Callers -> PeerRecords]
      BY <2>1, <2>2 DEF PeerRecords
    <2> QED
      BY <1>2, <2>3, <2>4 DEF ConnectBegin
  <1>3. ASSUME NEW id \in PeerIds, Disconnect(c, id)
        PROVE  TypeOK'
    <2>1. NoPeer \in PeerRecords
      BY DEF NoPeer, PeerRecords
    <2> QED
      BY <1>3, <2>1 DEF Disconnect, FindPeer
  <1>4. ASSUME NEW x \in Xfers, TransferEnqueue(c, x)
        PROVE  TypeOK'
    <2>1. req' \in [Callers -> Requests]
      BY <1>4, Inputs, Sizes DEF TransferEnqueue, Requests, RequestIds, Codes
    <2>2. tail' \in Ring
      BY <1>4, NextIdxType DEF TransferEnqueue
    <2> QED
      BY <1>4, <2>1, <2>2, Sizes DEF TransferEnqueue, QueueFull
  <1>5. CASE ConnectInstall(c)
    <2>1. NoPeer \in PeerRecords
      BY DEF NoPeer, PeerRecords
    <2> QED
      BY <1>5, <2>1 DEF ConnectInstall
  <1>6. CASE ConnectRefuse(c)
    BY <1>6 DEF ConnectRefuse
  <1>7. CASE ReleaseHeld(c)
    <2>1. NoPeer \in PeerRecords
      BY DEF NoPeer, PeerRecords
    <2> QED
      BY <1>7, <2>1 DEF ReleaseHeld, Release
  <1>8. CASE TransferReturn(c)
    <2>1. NoReq \in Requests
      BY DEF NoReq, Requests, Codes
    <2> QED
      BY <1>8, <2>1 DEF TransferReturn
  <1> QED
    BY <1>1, <1>2, <1>3, <1>4, <1>5, <1>6, <1>7, <1>8, Zenon DEF CallerBegins, CallerContinues

(* Steps of the worker and of the device keep the types.  A dequeue reads a *)
(* request: queue[head] is a caller because pending > 0.                    *)
LEMMA TypeWorker ==
    ASSUME QueueInv, WorkerStep \/ DeviceStep
    PROVE  TypeOK'
  <1> USE DEF QueueInv, TypeOK, tableVars, ringVars, countVars, callerVars,
              workerVars, deviceVars
  <1>1. CASE WorkerExit
    BY <1>1 DEF WorkerExit
  <1>2. CASE WorkerDequeue
    <2> DEFINE c == queue[head]
    <2>1. c \in Callers
      BY <1>2, FIFOHead DEF WorkerDequeue
    <2>2. wrc' \in Codes
      BY <1>2, ValidateType DEF WorkerDequeue
    <2>3. PICK s \in Slots \cup {0} :
            /\ wslot' = s
            /\ crashed' = (s = 0)
            /\ req' = IF s = 0 THEN req
                      ELSE [req EXCEPT ![c] = Rewrite(req[c], peers[s].seg_va,
                              req[c].status, req[c].done, req[c].moved)]
      BY <1>2, Zenon DEF WorkerDequeue, PeerOut, FindPeer
    <2>6. req' \in [Callers -> Requests]
      <3>1. CASE s = 0
        BY <2>3, <3>1
      <3>2. CASE s \in Slots
        <4>1. peers[s].seg_va \in Nat
          BY <3>2 DEF PeerRecords
        <4>2. /\ req[c].status \in Codes
              /\ req[c].done \in BOOLEAN
              /\ req[c].moved \in BOOLEAN
          BY <2>1 DEF Requests
        <4>3. Rewrite(req[c], peers[s].seg_va, req[c].status, req[c].done,
                      req[c].moved) \in Requests
          BY <2>1, <4>1, <4>2, RewriteType
        <4> QED
          BY <2>3, <4>3, <2>1
      <3> QED
        BY <3>1, <3>2
    <2>4. head' \in Ring
      BY <1>2, NextIdxType DEF WorkerDequeue
    <2>5. inflight' \in 0..1 /\ pending' \in 0..QueueDepth
      BY <1>2, Sizes DEF WorkerDequeue, Control, Busy
    <2> QED
      BY <1>2, <2>1, <2>2, <2>3, <2>4, <2>5, <2>6 DEF WorkerDequeue
  <1>3. CASE WorkerCheck
    BY <1>3 DEF WorkerCheck, Control, Busy, Codes, Requests, PeerRecords
  <1>4. CASE WorkerLoad
    BY <1>4 DEF WorkerLoad, Control, PeerRecords
  <1>5. CASE WorkerCopy
    BY <1>5, MovedType DEF WorkerCopy, Control, Busy
  <1>6. CASE WorkerPost
    BY <1>6 DEF WorkerPost, Control, Busy, Requests, Codes
  <1>7. CASE WorkerPoll
    BY <1>7 DEF WorkerPoll, Codes
  <1>8. CASE WorkerGiveUp
    BY <1>8 DEF WorkerGiveUp, Codes
  <1>9. CASE WorkerFinish
    <2>1. wreq \in Callers /\ inflight = 1
      BY <1>9 DEF WorkerFinish, Control, Busy
    <2>2. Rewrite(req[wreq], req[wreq].remote, wrc, TRUE, req[wreq].moved) \in Requests
      <3>1. req[wreq].remote \in Nat /\ req[wreq].moved \in BOOLEAN
        BY <2>1 DEF Requests
      <3> QED
        BY <3>1, <2>1, RewriteType, Zenon
    <2>3. req' \in [Callers -> Requests]
      BY <1>9, <2>1, <2>2, Zenon DEF WorkerFinish, Complete
    <2>4. inflight' \in 0..1 /\ completed' \in Nat /\ failed' \in Nat
      BY <1>9, <2>1 DEF WorkerFinish
    <2> QED
      BY <1>9, <2>3, <2>4 DEF WorkerFinish
  <1>10. CASE WorkerLog
    BY <1>10 DEF WorkerLog, Codes
  <1>11. ASSUME NEW wr \in wrs, DeviceComplete(wr)
         PROVE  TypeOK'
    <2>1. PICK success \in BOOLEAN :
            /\ jfc' = Append(jfc, [user_ctx |-> wr.user_ctx, success |-> success])
            /\ req' = [c \in Callers |->
                         IF success /\ req[c].live /\ req[c].serial = wr.serial
                           THEN Moved(req[c]) ELSE req[c]]
      BY <1>11 DEF DeviceComplete
    <2>2. req' \in [Callers -> Requests]
      BY <2>1, MovedType
    <2>3. jfc' \in Seq([user_ctx : Nat, success : BOOLEAN])
      BY <2>1
    <2> QED
      BY <1>11, <2>2, <2>3 DEF DeviceComplete
  <1> QED
    BY <1>1, <1>2, <1>3, <1>4, <1>5, <1>6, <1>7, <1>8, <1>9, <1>10, <1>11, Zenon
    DEF WorkerStep, DeviceStep

(***************************************************************************)
(* The ring.                                                               *)
(***************************************************************************)

(* A step that leaves the ring, the counters and the progress of every     *)
(* waiting request alone keeps the order of the ring.                      *)
LEMMA RingFrame ==
    ASSUME QueueInv, UNCHANGED <<ringVars, countVars>>,
           Busy' <=> Busy, Busy => wreq' = wreq,
           \A c \in Callers : /\ pc[c] = "wait" <=> pc'[c] = "wait"
                              /\ req'[c].done = req[c].done
                              /\ req'[c].serial = req[c].serial
    PROVE  QueueFIFO' /\ NoLostRequest'
  <1> USE DEF QueueInv, Control, ringVars, countVars, Occ, Finished, Ring
  <1>1. QueueFIFO'
    BY DEF QueueFIFO
  <1>2. NoLostRequest'
    BY DEF NoLostRequest
  <1> QED
    BY <1>1, <1>2

(* Nobody waits while the manager is not running, so the ring is empty and *)
(* the worker has no request.                                              *)
LEMMA NotRunning ==
    ASSUME QueueInv, life # "running"
    PROVE  pending = 0 /\ ~Busy
  <1>1. ~Busy
    BY DEF QueueInv, Control, QueueFIFO
  <1>2. pending = 0
    <2> SUFFICES ASSUME pending # 0 PROVE FALSE
      OBVIOUS
    <2>1. 0 \in 0..(QueueDepth - 1) /\ 0 < pending
      BY Sizes DEF QueueInv, TypeOK
    <2> QED
      BY <2>1 DEF QueueInv, Control, QueueFIFO
  <1> QED
    BY <1>1, <1>2

(* What main does. *)
LEMMA RingMain ==
    ASSUME QueueInv, MainStep
    PROVE  Control' /\ QueueFIFO' /\ NoLostRequest'
  <1>1. CASE MgrInit
    <2>1. /\ queue' = [i \in Ring |-> NULL]
          /\ head' = 0 /\ tail' = 0 /\ pending' = 0 /\ inflight' = 0
          /\ completed' = 0 /\ failed' = 0 /\ accepted' = 0
          /\ wpc' = "wait" /\ pc' = pc
      BY <1>1 DEF MgrInit, callerVars
    <2>2. \A c \in Callers : pc[c] = "idle"
      BY <1>1 DEF MgrInit, QueueInv, Control
    <2>3. Control'
      BY <2>1, <2>2 DEF Control, Busy
    <2>4. QueueFIFO'
      BY <2>1, Sizes DEF QueueFIFO, Busy, Occ, Ring
    <2>5. NoLostRequest'
      BY <2>1, <2>2 DEF NoLostRequest, Finished
    <2> QED
      BY <2>3, <2>4, <2>5
  <1>2. CASE MgrStop
    <2>1. QueueFIFO' /\ NoLostRequest'
      BY <1>2, RingFrame DEF MgrStop, callerVars, workerVars, Busy
    <2> QED
      BY <1>2, <2>1 DEF MgrStop, QueueInv, Control, callerVars, workerVars, countVars, Busy
  <1>3. CASE MgrDestroy
    <2>1. QueueFIFO' /\ NoLostRequest'
      BY <1>3, RingFrame DEF MgrDestroy, callerVars, workerVars, Busy
    <2> QED
      BY <1>3, <2>1 DEF MgrDestroy, QueueInv, Control, callerVars, workerVars, countVars, Busy
  <1> QED
    BY <1>1, <1>2, <1>3 DEF MainStep

(* The indices from head on run through the whole ring, each once. *)
LEMMA OccInjective ==
    ASSUME head \in Ring, NEW i \in Ring, NEW j \in Ring
    PROVE  Occ(i) \in Ring /\ (Occ(i) = Occ(j) => i = j)
  BY Sizes DEF Occ, Ring

(* When tail moves on, it is past one more request. *)
LEMMA OccNext ==
    ASSUME head \in Ring, NEW n \in Ring
    PROVE  NextIdx(Occ(n)) = Occ(n + 1)
  <1>1. NextIdx(Occ(n)) = IF Occ(n) = QueueDepth - 1 THEN 0 ELSE Occ(n) + 1
    BY OccInjective, NextIdxWraps
  <1> QED
    BY <1>1, Sizes DEF Occ, Ring

(* When head moves on, what was at i + 1 is at i, and the last index is the *)
(* old head.                                                                *)
LEMMA OccShift ==
    ASSUME head \in Ring, head' = NextIdx(head)
    PROVE  /\ \A i \in 0..(QueueDepth - 1) : Occ(i)' = Occ(i + 1)
           /\ Occ(QueueDepth) = head
  <1>1. head' = IF head = QueueDepth - 1 THEN 0 ELSE head + 1
    BY NextIdxWraps
  <1> QED
    BY <1>1, Sizes DEF Occ, Ring

(* ramdisk_urma_transfer_sync writes at tail, past the last waiting request: *)
(* the slot is free because the ring is not full.                            *)
LEMMA RingEnqueue ==
    ASSUME QueueInv, NEW c \in Callers, NEW x \in Xfers, TransferEnqueue(c, x)
    PROVE  Control' /\ QueueFIFO' /\ NoLostRequest'
  <1> USE DEF QueueInv
  <1>0. /\ queue \in [Ring -> Callers \cup {NULL}]
        /\ head \in Ring /\ tail \in Ring
        /\ pending \in 0..QueueDepth /\ inflight \in 0..1
        /\ completed \in Nat /\ failed \in Nat /\ accepted \in Nat
        /\ pc \in [Callers -> {"idle", "connect", "release", "wait"}]
        /\ req \in [Callers -> Requests]
    BY DEF TypeOK
  <1> USE <1>0
  <1>1. /\ pc[c] = "idle" /\ life = "running"
        /\ queue' = [queue EXCEPT ![tail] = c]
        /\ tail' = NextIdx(tail)
        /\ pending' = pending + 1 /\ accepted' = accepted + 1
        /\ pc' = [pc EXCEPT ![c] = "wait"]
        /\ UNCHANGED <<life, head, inflight, completed, failed, wpc, wreq, wslot>>
        /\ pending < QueueDepth
    <2>1. pending < QueueDepth
      <3>1. pending # QueueDepth
        BY DEF TransferEnqueue, QueueFull
      <3> QED
        BY <3>1, Sizes
    <2> QED
      BY <2>1 DEF TransferEnqueue, workerVars
  <1>2. /\ \A d \in Callers \ {c} : req'[d] = req[d]
        /\ ~req'[c].done /\ req'[c].serial = accepted + 1
    <2>1. PICK id \in RequestIds :
            req' = [req EXCEPT ![c] =
                      [live |-> TRUE, xfer |-> x, remote |-> x.remote, request_id |-> id,
                       status |-> "OK", done |-> FALSE, serial |-> accepted + 1,
                       moved |-> FALSE]]
      BY Zenon DEF TransferEnqueue
    <2> QED
      BY <2>1
  <1>3. pending \in Ring /\ tail = Occ(pending) /\ queue[tail] = NULL
    <2>1. pending \in 0..(QueueDepth - 1) /\ ~(pending < pending)
      BY <1>1, Sizes
    <2>2. tail = Occ(pending)
      BY DEF QueueFIFO
    <2> QED
      BY <2>1, <2>2, FIFOAt DEF Ring
  <1>4. \A i \in Ring : i # pending => Occ(i) # tail /\ Occ(i) \in Ring
    BY <1>3, OccInjective
  <1>5. Control'
    BY <1>1 DEF Control, Busy
  <1>6. QueueFIFO'
    <2>1. tail' = Occ(pending + 1)
      BY <1>1, <1>3, OccNext
    <2>2. ASSUME NEW i \in 0..(QueueDepth - 1)
          PROVE  IF i < pending + 1
                   THEN /\ queue'[Occ(i)] \in Callers
                        /\ pc'[queue'[Occ(i)]] = "wait"
                        /\ ~req'[queue'[Occ(i)]].done
                        /\ req'[queue'[Occ(i)]].serial = Finished + inflight + i + 1
                   ELSE queue'[Occ(i)] = NULL
      <3>1. CASE i < pending
        <4>1. /\ queue[Occ(i)] \in Callers /\ pc[queue[Occ(i)]] = "wait"
              /\ ~req[queue[Occ(i)]].done
              /\ req[queue[Occ(i)]].serial = Finished + inflight + i + 1
          BY <3>1, FIFOAt
        <4>2. queue'[Occ(i)] = queue[Occ(i)]
          BY <1>1, <1>4, <3>1 DEF Ring
        <4>3. queue[Occ(i)] # c
          BY <4>1, <1>1
        <4>4. PICK d \in Callers \ {c} : d = queue[Occ(i)]
          BY <4>1, <4>3
        <4>5. pc'[d] = pc[d] /\ req'[d] = req[d]
          BY <1>1, <1>2
        <4>6. queue'[Occ(i)] = d /\ i < pending + 1
          BY <3>1, <4>2, <4>4
        <4> QED
          BY <4>1, <4>4, <4>5, <4>6
      <3>2. CASE i = pending
        <4>1. queue'[Occ(i)] = c
          BY <1>1, <1>3, <3>2
        <4>2. req'[c].serial = Finished + inflight + i + 1
          BY <1>2, <3>2 DEF NoLostRequest, Finished
        <4>3. pc'[c] = "wait" /\ ~req'[c].done
          BY <1>1, <1>2
        <4>4. i < pending + 1
          BY <3>2
        <4> QED
          BY <4>1, <4>2, <4>3, <4>4
      <3>3. CASE i > pending
        <4>1. queue'[Occ(i)] = queue[Occ(i)]
          BY <1>1, <1>4, <3>3 DEF Ring
        <4>2. queue[Occ(i)] = NULL
          BY <3>3, FIFOAt
        <4>3. ~(i < pending + 1)
          BY <3>3
        <4> QED
          BY <4>1, <4>2, <4>3
      <3>4. i < pending \/ i = pending \/ i > pending
        OBVIOUS
      <3> QED
        BY <3>1, <3>2, <3>3, <3>4
    <2>3. Busy => /\ wreq \in Callers /\ wreq # c
                  /\ pc[wreq] = "wait" /\ ~req[wreq].done /\ req[wreq].serial = Finished + 1
      BY <1>1 DEF QueueFIFO, Control
    <2>4. Busy' => /\ pc'[wreq'] = "wait" /\ ~req'[wreq'].done
                   /\ req'[wreq'].serial = Finished + 1
      BY <2>3, <1>1, <1>2 DEF Busy
    <2> QED
      BY <1>1, <2>1, <2>2, <2>4 DEF QueueFIFO, Occ, Finished
  <1>7. NoLostRequest'
    <2>1. ASSUME NEW d \in Callers, pc'[d] = "wait", ~req'[d].done
          PROVE  (Busy' /\ wreq' = d) \/ \E i \in Ring : queue'[i] = d
      <3>1. CASE d = c
        BY <1>1, <3>1
      <3>2. CASE d # c
        <4>1. (Busy /\ wreq = d) \/ \E i \in Ring : queue[i] = d
          BY <2>1, <3>2, <1>1, <1>2 DEF NoLostRequest
        <4> QED
          BY <4>1, <1>1, <1>3, Inputs DEF Busy
      <3> QED
        BY <3>1, <3>2
    <2>2. accepted' = Finished' + inflight' + pending'
      BY <1>1 DEF NoLostRequest, Finished
    <2> QED
      BY <2>1, <2>2 DEF NoLostRequest
  <1> QED
    BY <1>5, <1>6, <1>7

(* A caller returns only when its request is done, so its stack is no      *)
(* longer on the ring nor in the worker's hands.                           *)
LEMMA RingReturn ==
    ASSUME QueueInv, NEW c \in Callers, TransferReturn(c)
    PROVE  Control' /\ QueueFIFO' /\ NoLostRequest'
  <1> USE DEF QueueInv, TypeOK, ringVars, countVars, workerVars
  <1>1. /\ req[c].done /\ pc[c] = "wait"
        /\ pc' = [pc EXCEPT ![c] = "idle"]
        /\ \A d \in Callers \ {c} : req'[d] = req[d]
        /\ UNCHANGED <<life, ringVars, countVars, workerVars>>
    BY DEF TransferReturn
  <1>2. Control'
    BY <1>1 DEF Control, Busy
  <1>3. QueueFIFO'
    <2>1. \A i \in 0..(QueueDepth - 1) : i < pending =>
            queue[Occ(i)] \in Callers /\ queue[Occ(i)] # c
      BY <1>1 DEF QueueFIFO
    <2>2. Busy => wreq \in Callers /\ wreq # c
      BY <1>1 DEF QueueFIFO, Control
    <2> QED
      BY <1>1, <2>1, <2>2 DEF QueueFIFO, Occ, Finished, Busy
  <1>4. NoLostRequest'
    BY <1>1 DEF NoLostRequest, Finished, Busy
  <1> QED
    BY <1>2, <1>3, <1>4

(* The other steps of a caller do not reach the ring. *)
LEMMA RingCaller ==
    ASSUME QueueInv, NEW c \in Callers, CallerBegins(c) \/ CallerContinues(c)
    PROVE  Control' /\ QueueFIFO' /\ NoLostRequest'
  <1> USE DEF QueueInv, TypeOK, callerVars, workerVars
  <1>1. ASSUME UNCHANGED <<life, req, ringVars, countVars, workerVars>>,
               pc[c] # "wait",
               \/ pc' = pc /\ life = "running"
               \/ \E l \in {"idle", "connect", "release"} :
                    /\ pc' = [pc EXCEPT ![c] = l]
                    /\ pc[c] # "idle" \/ life = "running"
        PROVE  Control' /\ QueueFIFO' /\ NoLostRequest'
    <2>1. \A d \in Callers : pc[d] = "wait" <=> pc'[d] = "wait"
      BY <1>1
    <2>2. QueueFIFO' /\ NoLostRequest'
      BY <1>1, <2>1, RingFrame DEF Busy
    <2>3. Control'
      BY <1>1 DEF Control, Busy, countVars
    <2> QED
      BY <2>2, <2>3
  <1>2. CASE Enable(c) \/ Disable(c)
    BY <1>1, <1>2 DEF Enable, Disable
  <1>3. CASE \E id \in PeerIds, seg \in Segments : ConnectBegin(c, id, seg)
    BY <1>1, <1>3 DEF ConnectBegin
  <1>4. CASE \E id \in PeerIds : Disconnect(c, id)
    BY <1>1, <1>4 DEF Disconnect
  <1>5. CASE \E x \in Xfers : TransferEnqueue(c, x)
    BY <1>5, RingEnqueue
  <1>6. CASE ConnectInstall(c)
    BY <1>1, <1>6 DEF ConnectInstall
  <1>7. CASE ConnectRefuse(c)
    BY <1>1, <1>7 DEF ConnectRefuse
  <1>8. CASE ReleaseHeld(c)
    BY <1>1, <1>8 DEF ReleaseHeld
  <1>9. CASE TransferReturn(c)
    BY <1>9, RingReturn
  <1> QED
    BY <1>2, <1>3, <1>4, <1>5, <1>6, <1>7, <1>8, <1>9 DEF CallerBegins, CallerContinues

(* urma_worker_main takes the request at head, the oldest; every other     *)
(* waiting request moves up by one.                                        *)
LEMMA RingDequeue ==
    ASSUME QueueInv, WorkerDequeue
    PROVE  Control' /\ QueueFIFO' /\ NoLostRequest'
  <1> USE DEF QueueInv
  <1>0. /\ queue \in [Ring -> Callers \cup {NULL}]
        /\ head \in Ring /\ tail \in Ring
        /\ pending \in 0..QueueDepth /\ inflight \in 0..1
        /\ completed \in Nat /\ failed \in Nat /\ accepted \in Nat
        /\ pc \in [Callers -> {"idle", "connect", "release", "wait"}]
        /\ req \in [Callers -> Requests]
    BY DEF TypeOK
  <1> USE <1>0
  <1> DEFINE c == queue[head]
  <1>1. /\ wpc = "wait" /\ pending > 0
        /\ wreq' = c /\ wpc' \in {"exec", "finish"}
        /\ queue' = [queue EXCEPT ![head] = NULL]
        /\ head' = NextIdx(head)
        /\ pending' = pending - 1 /\ inflight' = inflight + 1
        /\ UNCHANGED <<life, tail, completed, failed, accepted, pc>>
    BY DEF WorkerDequeue
  <1>2. ~Busy /\ inflight = 0
    BY <1>1 DEF Busy, Control
  <1>3. Busy'
    BY <1>1 DEF Busy
  <1>4. /\ 0 \in Ring /\ Occ(0) = head
        /\ c \in Callers /\ pc[c] = "wait" /\ ~req[c].done
        /\ req[c].serial = Finished + 1
    <2>1. 0 \in Ring /\ Occ(0) = head
      BY Sizes DEF Occ, Ring
    <2>2. /\ queue[head] \in Callers /\ pc[queue[head]] = "wait"
          /\ ~req[queue[head]].done
          /\ req[queue[head]].serial = Finished + inflight + 0 + 1
      BY <1>1, FIFOHead
    <2>3. Finished + inflight + 0 + 1 = Finished + 1
      BY <1>2 DEF Finished
    <2> QED
      BY <2>1, <2>2, <2>3
  <1>5. \A d \in Callers : req'[d].done = req[d].done /\ req'[d].serial = req[d].serial
    <2>1. PICK s \in Slots \cup {0} :
            req' = IF s = 0 THEN req
                   ELSE [req EXCEPT ![c] = Rewrite(req[c], peers[s].seg_va,
                           req[c].status, req[c].done, req[c].moved)]
      BY Zenon DEF WorkerDequeue, PeerOut, FindPeer
    <2> QED
      BY <1>4, <2>1 DEF Rewrite
  <1>6. wpc' = "exec" => wslot' \in Slots
    BY DEF WorkerDequeue, PeerOut, FindPeer
  <1>7. Control'
    BY <1>1, <1>2, <1>3, <1>4, <1>6 DEF Control
  <1>8. QueueFIFO'
    <2>1. /\ \A i \in 0..(QueueDepth - 1) : Occ(i)' = Occ(i + 1)
          /\ Occ(QueueDepth) = head
      BY <1>1, OccShift
    <2>2. ASSUME NEW i \in 0..(QueueDepth - 1)
          PROVE  IF i < pending'
                   THEN /\ queue'[Occ(i)'] \in Callers
                        /\ pc'[queue'[Occ(i)']] = "wait"
                        /\ ~req'[queue'[Occ(i)']].done
                        /\ req'[queue'[Occ(i)']].serial = Finished' + inflight' + i + 1
                   ELSE queue'[Occ(i)'] = NULL
      <3>1. CASE i = QueueDepth - 1
        <4>1. Occ(i)' = head
          BY <3>1, <2>1, Sizes
        <4>2. queue'[head] = NULL
          BY <1>1
        <4>3. ~(i < pending')
          BY <3>1, <1>1, Sizes
        <4> QED
          BY <4>1, <4>2, <4>3
      <3>2. CASE i # QueueDepth - 1
        <4>1. i + 1 \in Ring /\ Occ(i)' = Occ(i + 1)
          BY <3>2, <2>1, Sizes DEF Ring
        <4>2. Occ(i + 1) \in Ring /\ Occ(i + 1) # head
          <5>1. i + 1 # 0
            BY Sizes
          <5> QED
            BY <4>1, <5>1, <1>4, OccInjective
        <4>3. queue'[Occ(i)'] = queue[Occ(i + 1)]
          BY <4>1, <4>2, <1>1
        <4>4. /\ i + 1 < pending =>
                   /\ queue[Occ(i + 1)] \in Callers
                   /\ pc[queue[Occ(i + 1)]] = "wait"
                   /\ ~req[queue[Occ(i + 1)]].done
                   /\ req[queue[Occ(i + 1)]].serial = Finished + inflight + (i + 1) + 1
              /\ ~(i + 1 < pending) => queue[Occ(i + 1)] = NULL
          BY <4>1, FIFOAt DEF Ring
        <4>5. Finished + inflight + (i + 1) + 1 = Finished' + inflight' + i + 1
          BY <1>1, <1>2 DEF Finished
        <4>6. CASE i + 1 < pending
          <5>1. PICK d \in Callers : d = queue[Occ(i + 1)]
            BY <4>4, <4>6
          <5>2. /\ pc'[d] = "wait" /\ ~req'[d].done
                /\ req'[d].serial = Finished' + inflight' + i + 1
            BY <4>4, <4>5, <4>6, <5>1, <1>1, <1>5
          <5>3. i < pending' /\ queue'[Occ(i)'] = d
            BY <4>3, <4>6, <5>1, <1>1
          <5> QED
            BY <5>2, <5>3
        <4>7. CASE ~(i + 1 < pending)
          <5>1. ~(i < pending')
            BY <4>7, <1>1
          <5> QED
            BY <4>3, <4>4, <4>7, <5>1
        <4> QED
          BY <4>6, <4>7
      <3> QED
        BY <3>1, <3>2
    <2>3. tail' = Occ(pending)'
      <3>1. tail = Occ(pending)
        BY DEF QueueFIFO
      <3> QED
        BY <3>1, <1>1, <2>1, Sizes
    <2>4. pc'[wreq'] = "wait" /\ ~req'[wreq'].done /\ req'[wreq'].serial = Finished' + 1
      BY <1>1, <1>4, <1>5 DEF Finished
    <2> QED
      BY <2>2, <2>3, <2>4 DEF QueueFIFO
  <1>9. NoLostRequest'
    <2>1. accepted' = Finished' + inflight' + pending'
      BY <1>1 DEF NoLostRequest, Finished
    <2>2. ASSUME NEW d \in Callers, pc'[d] = "wait", ~req'[d].done
          PROVE  wreq' = d \/ \E i \in Ring : queue'[i] = d
      <3>1. PICK i \in Ring : queue[i] = d
        BY <2>2, <1>1, <1>2, <1>5 DEF NoLostRequest
      <3> QED
        BY <3>1, <1>1
    <2> QED
      BY <2>1, <2>2, <1>3 DEF NoLostRequest
  <1> QED
    BY <1>7, <1>8, <1>9

(* The worker's second critical section completes the oldest request, which *)
(* is not on the ring: its serial is below every serial there.              *)
LEMMA RingFinish ==
    ASSUME QueueInv, WorkerFinish
    PROVE  Control' /\ QueueFIFO' /\ NoLostRequest'
  <1> USE DEF QueueInv, ringVars
  <1>0. /\ queue \in [Ring -> Callers \cup {NULL}]
        /\ head \in Ring /\ tail \in Ring
        /\ pending \in 0..QueueDepth /\ inflight \in 0..1
        /\ completed \in Nat /\ failed \in Nat /\ accepted \in Nat
        /\ pc \in [Callers -> {"idle", "connect", "release", "wait"}]
        /\ req \in [Callers -> Requests]
    BY DEF TypeOK
  <1> USE <1>0
  <1>1. /\ wpc = "finish" /\ wpc' = "log"
        /\ inflight' = inflight - 1
        /\ req' = [req EXCEPT ![wreq] = Rewrite(req[wreq], req[wreq].remote, wrc, TRUE,
                                                req[wreq].moved)]
        /\ \/ completed' = completed + 1 /\ failed' = failed
           \/ completed' = completed /\ failed' = failed + 1
        /\ UNCHANGED <<life, ringVars, accepted, pc, wreq, wslot>>
    <2>1. \/ completed' = completed + 1 /\ failed' = failed
          \/ completed' = completed /\ failed' = failed + 1
      BY DEF WorkerFinish
    <2> QED
      BY <2>1, Zenon DEF WorkerFinish, Complete
  <1>2. Busy /\ ~Busy' /\ inflight = 1 /\ wreq \in Callers
    BY <1>1 DEF Busy, Control
  <1>3. Finished' = Finished + 1
    BY <1>1 DEF Finished
  <1>4. \A d \in Callers : /\ req'[d].serial = req[d].serial
                           /\ d # wreq => req'[d].done = req[d].done
                           /\ d = wreq => req'[d].done
    BY <1>1, <1>2, Zenon DEF Rewrite
  <1>5. Control'
    BY <1>1, <1>2 DEF Control
  <1>6. QueueFIFO'
    <2>1. ASSUME NEW i \in 0..(QueueDepth - 1), i < pending
          PROVE  /\ queue[Occ(i)] \in Callers /\ queue[Occ(i)] # wreq
                 /\ pc[queue[Occ(i)]] = "wait" /\ ~req[queue[Occ(i)]].done
                 /\ req[queue[Occ(i)]].serial = Finished' + inflight' + i + 1
      <3>1. /\ queue[Occ(i)] \in Callers /\ pc[queue[Occ(i)]] = "wait"
            /\ ~req[queue[Occ(i)]].done
            /\ req[queue[Occ(i)]].serial = Finished + inflight + i + 1
        BY <2>1, FIFOAt
      <3>2. req[wreq].serial = Finished + 1
        BY <1>2 DEF QueueFIFO
      <3>3. Finished \in Nat
        BY DEF Finished
      <3>4. Finished + inflight + i + 1 = Finished' + inflight' + i + 1
        BY <1>1, <1>2, <1>3, <3>3
      <3>5. Finished + inflight + i + 1 # Finished + 1
        BY <1>2, <3>3
      <3> QED
        BY <3>1, <3>2, <3>4, <3>5
    <2>2. \A i \in 0..(QueueDepth - 1) : Occ(i)' = Occ(i)
      BY <1>1 DEF Occ
    <2>3. tail' = Occ(pending)'
      BY <1>1 DEF QueueFIFO, Occ
    <2>4. ASSUME NEW i \in 0..(QueueDepth - 1), ~(i < pending)
          PROVE  queue[Occ(i)] = NULL
      BY <2>4, FIFOAt
    <2>5. ASSUME NEW i \in 0..(QueueDepth - 1)
          PROVE  (IF i < pending
                    THEN /\ queue[Occ(i)] \in Callers
                         /\ pc[queue[Occ(i)]] = "wait"
                         /\ ~req[queue[Occ(i)]].done
                         /\ req[queue[Occ(i)]].serial = Finished + inflight + i + 1
                    ELSE queue[Occ(i)] = NULL)'
      <3>1. Occ(i)' = Occ(i) /\ queue' = queue /\ pc' = pc /\ pending' = pending
        BY <1>1, <2>2
      <3>2. CASE i < pending
        <4>1. /\ queue[Occ(i)] \in Callers /\ queue[Occ(i)] # wreq
              /\ pc[queue[Occ(i)]] = "wait" /\ ~req[queue[Occ(i)]].done
              /\ req[queue[Occ(i)]].serial = Finished' + inflight' + i + 1
          BY <3>2, <2>1
        <4>2. /\ ~req'[queue[Occ(i)]].done
              /\ req'[queue[Occ(i)]].serial = Finished' + inflight' + i + 1
          BY <4>1, <1>4
        <4> QED
          BY <3>1, <3>2, <4>1, <4>2
      <3>3. CASE ~(i < pending)
        BY <3>1, <3>3, <2>4
      <3> QED
        BY <3>2, <3>3
    <2> QED
      BY <1>2, <2>3, <2>5 DEF QueueFIFO
  <1>7. NoLostRequest'
    <2>1. accepted' = Finished' + inflight' + pending'
      <3>1. accepted = Finished + inflight + pending /\ Finished \in Nat
        BY DEF NoLostRequest, Finished
      <3> QED
        BY <3>1, <1>1, <1>2, <1>3
    <2> QED
      BY <1>1, <1>2, <1>4, <2>1, Zenon DEF NoLostRequest
  <1> QED
    BY <1>5, <1>6, <1>7

(* The other steps of the worker, and the device, do not reach the ring. *)
LEMMA RingWorker ==
    ASSUME QueueInv, WorkerStep \/ DeviceStep
    PROVE  Control' /\ QueueFIFO' /\ NoLostRequest'
  <1> USE DEF QueueInv, TypeOK, callerVars
  <1>1. ASSUME UNCHANGED <<life, ringVars, countVars, pc>>, Busy' <=> Busy,
               Busy => wreq' = wreq,
               wpc' \in {"exec", "load", "copy"} =>
                  wpc \in {"exec", "load", "copy"} /\ wslot' = wslot,
               \A c \in Callers : req'[c].done = req[c].done /\ req'[c].serial = req[c].serial
        PROVE  Control' /\ QueueFIFO' /\ NoLostRequest'
    <2>1. QueueFIFO' /\ NoLostRequest'
      BY <1>1, RingFrame
    <2>2. Control'
      BY <1>1 DEF Control, countVars
    <2> QED
      BY <2>1, <2>2
  <1>2. CASE WorkerExit
    BY <1>1, <1>2 DEF WorkerExit, Busy
  <1>3. CASE WorkerDequeue
    BY <1>3, RingDequeue
  <1>4. CASE WorkerCheck
    BY <1>1, <1>4 DEF WorkerCheck, Busy
  <1>5. CASE WorkerLoad
    BY <1>1, <1>5 DEF WorkerLoad, Busy
  <1>6. CASE WorkerCopy
    <2>1. \A c \in Callers : req'[c].done = req[c].done /\ req'[c].serial = req[c].serial
      BY <1>6 DEF WorkerCopy, Control, Busy, Moved, Rewrite
    <2> QED
      BY <1>1, <1>6, <2>1 DEF WorkerCopy, Busy
  <1>7. CASE WorkerPost
    BY <1>1, <1>7 DEF WorkerPost, Busy
  <1>8. CASE WorkerPoll
    BY <1>1, <1>8 DEF WorkerPoll, Busy
  <1>9. CASE WorkerGiveUp
    BY <1>1, <1>9 DEF WorkerGiveUp, Busy
  <1>10. CASE WorkerFinish
    BY <1>10, RingFinish
  <1>11. CASE WorkerLog
    BY <1>1, <1>11 DEF WorkerLog, Busy
  <1>12. CASE DeviceStep
    <2>1. \A c \in Callers : req'[c].done = req[c].done /\ req'[c].serial = req[c].serial
      <3>1. \A c \in Callers : req'[c] \in {req[c], Moved(req[c])}
        BY <1>12 DEF DeviceStep, DeviceComplete
      <3>2. ASSUME NEW q PROVE Moved(q).done = q.done /\ Moved(q).serial = q.serial
        BY DEF Moved, Rewrite
      <3> QED
        BY <3>1, <3>2, Zenon
    <2> QED
      BY <1>1, <1>12, <2>1 DEF DeviceStep, DeviceComplete, workerVars, Busy
  <1> QED
    BY <1>2, <1>3, <1>4, <1>5, <1>6, <1>7, <1>8, <1>9, <1>10, <1>11, <1>12 DEF WorkerStep

(* The invariant is inductive. *)
LEMMA QueueStep ==
    ASSUME QueueInv, [Next]_vars
    PROVE  QueueInv'
  <1>1. CASE MainStep
    BY <1>1, TypeMain, RingMain DEF QueueInv
  <1>2. CASE \E c \in Callers : CallerBegins(c) \/ CallerContinues(c)
    BY <1>2, TypeCaller, RingCaller DEF QueueInv
  <1>3. CASE WorkerStep \/ DeviceStep
    BY <1>3, TypeWorker, RingWorker DEF QueueInv
  <1>4. CASE UNCHANGED vars
    <2> USE <1>4 DEF QueueInv, vars, tableVars, ringVars, countVars, callerVars,
                     workerVars, deviceVars
    <2>1. TypeOK'
      BY Zenon DEF TypeOK
    <2>2. Control'
      BY DEF Control, Busy
    <2>3. QueueFIFO' /\ NoLostRequest'
      BY RingFrame DEF Busy
    <2> QED
      BY <2>1, <2>2, <2>3
  <1> QED
    BY <1>1, <1>2, <1>3, <1>4 DEF Next

(* The invariant holds in every reachable state. *)
THEOREM QueueInvariant == Spec => []QueueInv
  BY QueueInit, QueueStep, PTL DEF Spec

(* Every variable of the manager keeps its type: in particular pending never *)
(* exceeds queue_depth, and head and tail never leave the ring.              *)
THEOREM Types == Spec => []TypeOK
  <1>1. QueueInv => TypeOK
    BY DEF QueueInv
  <1> QED
    BY <1>1, QueueInvariant, PTL

(* For any number of threads and any queue depth the ring of                *)
(* ramdisk_urma.c is a FIFO: requests are run once, in the order they were  *)
(* accepted.                                                                *)
THEOREM RingIsFIFO == Spec => []QueueFIFO
  <1>1. QueueInv => QueueFIFO
    BY DEF QueueInv
  <1> QED
    BY <1>1, QueueInvariant, PTL

(* ... and no accepted request is forgotten: a blocked caller's request is  *)
(* on the ring or with the worker, and pending + inflight + completed +     *)
(* failed is the number accepted.                                           *)
THEOREM NothingLost == Spec => []NoLostRequest
  <1>1. QueueInv => NoLostRequest
    BY DEF QueueInv
  <1> QED
    BY <1>1, QueueInvariant, PTL

-----------------------------------------------------------------------------
(* The peer table.                                                         *)

(***************************************************************************)
(* ResourcesOwned, handle by handle: h is live iff somebody owns it, and   *)
(* no two owners share it.                                                 *)
(***************************************************************************)
OneOwner(h) ==
    /\ size[h] # 0 <=> \/ \E s \in Slots : h \in peers[s].res
                       \/ \E c \in Callers : h \in held[c].res
    /\ \A s, t \in Slots : h \in peers[s].res /\ h \in peers[t].res => s = t
    /\ \A c, d \in Callers : h \in held[c].res /\ h \in held[d].res => c = d
    /\ \A s \in Slots, c \in Callers : ~(h \in peers[s].res /\ h \in held[c].res)

(***************************************************************************)
(* The inductive invariant of the table.  It adds who can own at all: an   *)
(* inactive slot owns nothing, a caller owns something only between its    *)
(* allocation and its install or release, and the table is empty when the  *)
(* manager is off.                                                         *)
(***************************************************************************)
TableInv ==
    /\ PeersUnique
    /\ \A h \in Handles : OneOwner(h)
    /\ \A s \in Slots : ~peers[s].active => peers[s].res = {}
    /\ \A c \in Callers : pc[c] \in {"idle", "wait"} => held[c].res = {}
    /\ \A c \in Callers : pc[c] = "connect" => held[c].active
    /\ life = "off" => \A s \in Slots : ~peers[s].active

(* One owner for every handle is what ResourcesOwned says. *)
LEMMA OwnersImplyOwned ==
    ASSUME TypeOK, \A h \in Handles : OneOwner(h)
    PROVE  ResourcesOwned
  <1>1. /\ \A s \in Slots : peers[s].res \subseteq Handles
        /\ \A c \in Callers : held[c].res \subseteq Handles
    BY DEF TypeOK, PeerRecords
  <1>2. ASSUME NEW h \in Handles
        PROVE  h \in Live <=> \/ \E s \in Slots : h \in peers[s].res
                              \/ \E c \in Callers : h \in held[c].res
    BY DEF Live, OneOwner
  <1>3. Live = (UNION {peers[s].res : s \in Slots}) \cup (UNION {held[c].res : c \in Callers})
    <2> DEFINE InTable == UNION {peers[s].res : s \in Slots}
               OnStacks == UNION {held[c].res : c \in Callers}
    <2>1. ASSUME NEW h
          PROVE  /\ h \in InTable <=> \E s \in Slots : h \in peers[s].res
                 /\ h \in OnStacks <=> \E c \in Callers : h \in held[c].res
      BY Zenon
    <2>2. Live \subseteq Handles
      BY DEF Live
    <2> HIDE DEF InTable, OnStacks
    <2>3. ASSUME NEW h
          PROVE  h \in Live <=> h \in InTable \/ h \in OnStacks
      BY <1>1, <1>2, <2>1, <2>2
    <2>4. Live = InTable \cup OnStacks
      BY <2>3
    <2> QED
      BY <2>4 DEF InTable, OnStacks
  <1>4. \A s, t \in Slots : s # t => peers[s].res \cap peers[t].res = {}
    BY <1>1 DEF OneOwner
  <1>5. \A c, d \in Callers : c # d => held[c].res \cap held[d].res = {}
    BY <1>1 DEF OneOwner
  <1>6. \A s \in Slots, c \in Callers : peers[s].res \cap held[c].res = {}
    BY <1>1 DEF OneOwner
  <1> QED
    BY <1>3, <1>4, <1>5, <1>6 DEF ResourcesOwned

(* At the start nothing is allocated. *)
LEMMA TableInit == Init => TableInv
  <1> SUFFICES ASSUME Init PROVE TableInv
    OBVIOUS
  <1>1. NoPeer.res = {} /\ ~NoPeer.active
    BY DEF NoPeer
  <1> QED
    BY <1>1 DEF Init, TableInv, OneOwner, PeersUnique

(* A step that leaves the table, the allocations and what callers hold     *)
(* alone keeps the invariant.                                              *)
LEMMA TableFrame ==
    ASSUME TableInv, UNCHANGED <<peers, size, held>>,
           life' = "off" => life = "off",
           \A c \in Callers : /\ pc'[c] \in {"idle", "wait"} => pc[c] \in {"idle", "wait"}
                              /\ pc'[c] = "connect" => pc[c] = "connect"
    PROVE  TableInv'
  BY DEF TableInv, OneOwner, PeersUnique

(* What main does: init forgets an empty table, destroy frees the rest. *)
LEMMA TableMain ==
    ASSUME QueueInv, TableInv, MainStep
    PROVE  TableInv'
  <1> USE DEF QueueInv, TypeOK
  <1>1. CASE MgrInit
    <2>1. /\ \A s \in Slots : peers'[s].res = {} /\ ~peers'[s].active /\ peers[s].res = {}
          /\ life' # "off"
      BY <1>1 DEF MgrInit, NoPeer, TableInv
    <2>2. UNCHANGED <<size, held, pc>>
      BY <1>1 DEF MgrInit, callerVars
    <2> QED
      BY <2>1, <2>2, Zenon DEF TableInv, OneOwner, PeersUnique
  <1>2. CASE MgrStop
    BY <1>2, TableFrame DEF MgrStop, tableVars, callerVars
  <1>3. CASE MgrDestroy
    <2>1. /\ \A s \in Slots : peers'[s].res = {} /\ ~peers'[s].active
          /\ UNCHANGED <<held, pc>>
      BY <1>3 DEF MgrDestroy, Retired, TableInv, callerVars
    <2>2. \A c \in Callers : held[c].res = {}
      BY <1>3 DEF MgrDestroy, Control, TableInv
    <2>3. ASSUME NEW h \in Handles
          PROVE  size'[h] = 0
      <3>1. size'[h] = IF h \in UNION {peers[s].res : s \in {t \in Slots : peers[t].active}}
                       THEN 0 ELSE size[h]
        BY <1>3 DEF MgrDestroy, Release
      <3>2. CASE size[h] = 0
        BY <3>1, <3>2
      <3>3. CASE size[h] # 0
        <4>1. PICK s \in Slots : h \in peers[s].res
          BY <2>2, <3>3, Zenon DEF TableInv, OneOwner
        <4>2. peers[s].active
          BY <4>1 DEF TableInv
        <4> QED
          BY <3>1, <4>1, <4>2
      <3> QED
        BY <3>2, <3>3
    <2> QED
      BY <2>1, <2>2, <2>3 DEF TableInv, OneOwner, PeersUnique
  <1> QED
    BY <1>1, <1>2, <1>3 DEF MainStep

(* A handle taken for a new peer was free, so nobody owned it. *)
LEMMA TableConnectBegin ==
    ASSUME QueueInv, TableInv, NEW c \in Callers, NEW id \in PeerIds, NEW seg \in Segments,
           ConnectBegin(c, id, seg)
    PROVE  TableInv'
  <1> USE DEF QueueInv, TypeOK
  <1>1. PICK r \in SUBSET Handles :
          /\ \A h \in r : size[h] = 0
          /\ size' = [h \in Handles |-> IF h \in r THEN seg.len ELSE size[h]]
          /\ held' = [held EXCEPT ![c] =
                        [active |-> TRUE, peer_id |-> id, seg_va |-> seg.va,
                         seg_len |-> seg.len, res |-> r]]
    BY Zenon DEF ConnectBegin, PeerResources, FreeHandles
  <1>2. /\ pc[c] = "idle" /\ held[c].res = {}
        /\ pc' = [pc EXCEPT ![c] = "connect"]
        /\ UNCHANGED <<life, peers>>
    BY DEF ConnectBegin, TableInv
  <1>3. /\ held'[c].res = r /\ held'[c].active
        /\ \A d \in Callers \ {c} : held'[d] = held[d]
    BY <1>1
  <1>4. seg.len # 0
    BY Inputs
  <1>5. ASSUME NEW h \in Handles
        PROVE  OneOwner(h)'
    <2>1. CASE h \in r
      <3>1. /\ \A s \in Slots : h \notin peers[s].res
            /\ \A d \in Callers : h \notin held[d].res
        BY <1>1, <2>1 DEF TableInv, OneOwner
      <3>2. size'[h] # 0
        BY <1>1, <1>4, <2>1
      <3> QED
        BY <1>2, <1>3, <2>1, <3>1, <3>2 DEF OneOwner
    <2>2. CASE h \notin r
      <3>1. size'[h] = size[h]
        BY <1>1, <2>2
      <3>2. \A d \in Callers : h \in held'[d].res <=> h \in held[d].res
        BY <1>2, <1>3, <2>2
      <3> QED
        BY <1>2, <3>1, <3>2 DEF OneOwner, TableInv
    <2> QED
      BY <2>1, <2>2
  <1> QED
    BY <1>2, <1>3, <1>5 DEF TableInv, PeersUnique

(* Install moves what the caller holds into a free slot; the critical      *)
(* section has just checked that the id is not in the table.               *)
LEMMA TableInstall ==
    ASSUME QueueInv, TableInv, NEW c \in Callers, ConnectInstall(c)
    PROVE  TableInv'
  <1> USE DEF QueueInv, TypeOK
  <1>1. PICK s \in Slots : ~peers[s].active /\ peers' = [peers EXCEPT ![s] = held[c]]
    BY Zenon DEF ConnectInstall, FreeSlot
  <1>2. /\ pc[c] = "connect" /\ held[c].active /\ peers[s].res = {}
        /\ \A t \in Slots : peers[t].active => peers[t].peer_id # held[c].peer_id
        /\ pc' = [pc EXCEPT ![c] = "idle"]
        /\ held' = [held EXCEPT ![c] = NoPeer]
        /\ UNCHANGED <<life, size>>
    BY <1>1 DEF ConnectInstall, NotConnected, FindPeer, Matches, TableInv
  <1>3. /\ peers'[s] = held[c] /\ held'[c].res = {}
        /\ \A t \in Slots \ {s} : peers'[t] = peers[t]
        /\ \A d \in Callers \ {c} : held'[d] = held[d]
    BY <1>1, <1>2 DEF NoPeer
  <1>4. PeersUnique'
    <2> SUFFICES ASSUME NEW t \in Slots, NEW u \in Slots, t # u,
                        peers'[t].active, peers'[u].active
                 PROVE  peers'[t].peer_id # peers'[u].peer_id
      BY DEF PeersUnique
    <2>1. CASE t # s /\ u # s
      BY <1>3, <2>1 DEF PeersUnique, TableInv
    <2>2. CASE t = s
      <3>1. peers'[t] = held[c] /\ peers'[u] = peers[u] /\ peers[u].active
        BY Zenon, <1>3, <2>2
      <3> QED
        BY Zenon, <1>2, <3>1
    <2>3. CASE u = s
      <3>1. peers'[u] = held[c] /\ peers'[t] = peers[t] /\ peers[t].active
        BY Zenon, <1>3, <2>3
      <3> QED
        BY Zenon, <1>2, <3>1
    <2> QED
      BY Zenon, <2>1, <2>2, <2>3
  <1>5. ASSUME NEW h \in Handles
        PROVE  OneOwner(h)'
    <2>1. OneOwner(h) /\ h \notin peers[s].res
      BY <1>2 DEF TableInv
    <2>2. /\ \A t \in Slots : h \in peers'[t].res <=>
               IF t = s THEN h \in held[c].res ELSE h \in peers[t].res
          /\ \A d \in Callers : h \in held'[d].res <=> d # c /\ h \in held[d].res
      BY <1>3
    <2>3. CASE h \in held[c].res
      BY <1>2, <2>1, <2>2, <2>3 DEF OneOwner
    <2>4. CASE h \notin held[c].res
      BY <1>2, <2>1, <2>2, <2>4 DEF OneOwner
    <2> QED
      BY <2>3, <2>4
  <1>6. life' # "off"
    BY <1>2 DEF Control
  <1>7. \A t \in Slots : ~peers'[t].active => peers'[t].res = {}
    BY <1>2, <1>3 DEF TableInv
  <1>8. \A d \in Callers : /\ pc'[d] \in {"idle", "wait"} => held'[d].res = {}
                           /\ pc'[d] = "connect" => held'[d].active
    BY <1>2, <1>3 DEF TableInv
  <1> QED
    BY <1>4, <1>5, <1>6, <1>7, <1>8 DEF TableInv

(* Disconnect moves what the slot owns onto the caller's stack. *)
LEMMA TableDisconnect ==
    ASSUME QueueInv, TableInv, NEW c \in Callers, NEW id \in PeerIds, Disconnect(c, id)
    PROVE  TableInv'
  <1> USE DEF QueueInv, TypeOK
  <1>1. PICK s \in Slots : /\ held' = [held EXCEPT ![c] = peers[s]]
                           /\ peers' = [peers EXCEPT ![s] = NoPeer]
    BY Zenon DEF Disconnect, FindPeer
  <1>2. /\ life = "running" /\ pc[c] = "idle" /\ held[c].res = {}
        /\ pc' = [pc EXCEPT ![c] = "release"]
        /\ UNCHANGED <<life, size>>
    BY DEF Disconnect, TableInv
  <1>3. /\ held'[c] = peers[s] /\ peers'[s].res = {} /\ ~peers'[s].active
        /\ \A t \in Slots \ {s} : peers'[t] = peers[t]
        /\ \A d \in Callers \ {c} : held'[d] = held[d]
    BY <1>1 DEF NoPeer
  <1>4. PeersUnique'
    BY <1>3, Zenon DEF PeersUnique, TableInv
  <1>5. ASSUME NEW h \in Handles
        PROVE  OneOwner(h)'
    <2>1. OneOwner(h) /\ h \notin held[c].res
      BY <1>2 DEF TableInv
    <2>2. /\ \A t \in Slots : h \in peers'[t].res <=> t # s /\ h \in peers[t].res
          /\ \A d \in Callers : h \in held'[d].res <=>
               IF d = c THEN h \in peers[s].res ELSE h \in held[d].res
      BY <1>3
    <2>3. CASE h \in peers[s].res
      BY <1>2, <2>1, <2>2, <2>3 DEF OneOwner
    <2>4. CASE h \notin peers[s].res
      BY <1>2, <2>1, <2>2, <2>4 DEF OneOwner
    <2> QED
      BY <2>3, <2>4
  <1> QED
    BY <1>2, <1>3, <1>4, <1>5 DEF TableInv

(* Releasing frees exactly what the caller holds. *)
LEMMA TableRelease ==
    ASSUME QueueInv, TableInv, NEW c \in Callers, ReleaseHeld(c)
    PROVE  TableInv'
  <1> USE DEF QueueInv, TypeOK
  <1>1. /\ held' = [held EXCEPT ![c] = NoPeer]
        /\ pc' = [pc EXCEPT ![c] = "idle"]
        /\ size' = [h \in Handles |-> IF h \in held[c].res THEN 0 ELSE size[h]]
        /\ UNCHANGED <<life, peers>>
    BY DEF ReleaseHeld, Release
  <1>2. held'[c].res = {} /\ \A d \in Callers \ {c} : held'[d] = held[d]
    BY <1>1 DEF NoPeer
  <1>3. ASSUME NEW h \in Handles
        PROVE  OneOwner(h)'
    <2>1. OneOwner(h)
      BY DEF TableInv
    <2>2. CASE h \in held[c].res
      BY <1>1, <1>2, <2>1, <2>2 DEF OneOwner
    <2>3. CASE h \notin held[c].res
      BY <1>1, <1>2, <2>1, <2>3 DEF OneOwner
    <2> QED
      BY <2>2, <2>3
  <1> QED
    BY <1>1, <1>2, <1>3 DEF TableInv, PeersUnique

(* Every step of a caller keeps the table. *)
LEMMA TableCaller ==
    ASSUME QueueInv, TableInv, NEW c \in Callers, CallerBegins(c) \/ CallerContinues(c)
    PROVE  TableInv'
  <1> USE DEF tableVars, callerVars
  <1>1. CASE Enable(c) \/ Disable(c)
    BY <1>1, TableFrame DEF Enable, Disable
  <1>2. CASE \E id \in PeerIds, seg \in Segments : ConnectBegin(c, id, seg)
    BY <1>2, TableConnectBegin
  <1>3. CASE \E id \in PeerIds : Disconnect(c, id)
    BY <1>3, TableDisconnect
  <1>4. CASE \E x \in Xfers : TransferEnqueue(c, x)
    BY <1>4, TableFrame DEF TransferEnqueue, QueueInv, TypeOK
  <1>5. CASE ConnectInstall(c)
    BY <1>5, TableInstall
  <1>6. CASE ConnectRefuse(c)
    BY <1>6, TableFrame DEF ConnectRefuse, QueueInv, TypeOK
  <1>7. CASE ReleaseHeld(c)
    BY <1>7, TableRelease
  <1>8. CASE TransferReturn(c)
    BY <1>8, TableFrame DEF TransferReturn, QueueInv, TypeOK
  <1> QED
    BY <1>1, <1>2, <1>3, <1>4, <1>5, <1>6, <1>7, <1>8 DEF CallerBegins, CallerContinues

(* The worker and the device never write the table. *)
LEMMA TableWorker ==
    ASSUME TableInv, WorkerStep \/ DeviceStep
    PROVE  TableInv'
  <1>1. UNCHANGED <<life, peers, size, held, pc>>
    BY DEF WorkerStep, DeviceStep, WorkerExit, WorkerDequeue, WorkerCheck, WorkerLoad,
           WorkerCopy, WorkerPost, WorkerPoll, WorkerGiveUp, WorkerFinish, WorkerLog,
           DeviceComplete, tableVars, callerVars
  <1> QED
    BY <1>1, TableFrame

(* The invariant of the table holds in every reachable state. *)
THEOREM TableInvariant == Spec => []TableInv
  <1>1. ASSUME QueueInv, TableInv, [Next]_vars
        PROVE  TableInv'
    <2>1. CASE MainStep
      BY <1>1, <2>1, TableMain
    <2>2. CASE \E c \in Callers : CallerBegins(c) \/ CallerContinues(c)
      BY <1>1, <2>2, TableCaller
    <2>3. CASE WorkerStep \/ DeviceStep
      BY <1>1, <2>3, TableWorker
    <2>4. CASE UNCHANGED vars
      BY <1>1, <2>4, TableFrame DEF vars, tableVars, callerVars
    <2> QED
      BY <1>1, <2>1, <2>2, <2>3, <2>4 DEF Next
  <1> QED
    BY <1>1, TableInit, QueueInvariant, PTL DEF Spec

(* However many threads connect and disconnect at once, and although        *)
(* ramdisk_urma_peer_connect checks for a duplicate only after it allocated, *)
(* the table never holds two active peers with one id.                      *)
THEOREM PeersStayUnique == Spec => []PeersUnique
  <1>1. TableInv => PeersUnique
    BY DEF TableInv
  <1> QED
    BY <1>1, TableInvariant, PTL

(* No path of connect, disconnect, refusal and destroy leaks a buffer or an *)
(* import, or frees one twice.                                              *)
THEOREM ResourcesStayOwned == Spec => []ResourcesOwned
  <1>1. QueueInv /\ TableInv => ResourcesOwned
    BY OwnersImplyOwned DEF QueueInv, TableInv
  <1> QED
    BY <1>1, QueueInvariant, TableInvariant, PTL

-----------------------------------------------------------------------------
(* The sizes of what peers own.                                            *)

(***************************************************************************)
(* What a peer owns is there and has the size of its segment.              *)
(***************************************************************************)
Sized(p) == p.res # {} /\ \A h \in p.res : size[h] = p.seg_len

SizeInv ==
    /\ \A s \in Slots : peers[s].active => Sized(peers[s])
    /\ \A c \in Callers : pc[c] = "connect" => Sized(held[c])

(* What the proofs below use of the types. *)
LEMMA Domains ==
    ASSUME QueueInv
    PROVE  /\ DOMAIN peers = Slots /\ DOMAIN size = Handles
           /\ DOMAIN pc = Callers /\ DOMAIN held = Callers
           /\ \A s \in Slots : peers[s].res \subseteq Handles
           /\ \A c \in Callers : held[c].res \subseteq Handles
  BY DEF QueueInv, TypeOK, PeerRecords

(* A step that leaves the table, the allocations and what callers hold alone. *)
LEMMA SizeFrame ==
    ASSUME SizeInv, UNCHANGED <<peers, size, held>>,
           \A c \in Callers : pc'[c] = "connect" => pc[c] = "connect"
    PROVE  SizeInv'
  BY DEF SizeInv, Sized

(* What main does leaves no active peer, or changes nothing. *)
LEMMA SizeMain ==
    ASSUME QueueInv, SizeInv, MainStep
    PROVE  SizeInv'
  <1>1. CASE MgrInit \/ MgrDestroy
    <2>1. /\ \A s \in Slots : ~peers'[s].active
          /\ \A c \in Callers : pc'[c] = "idle"
      <3>4. \/ peers' = [s \in Slots |-> NoPeer]
            \/ peers' = [s \in Slots |-> IF peers[s].active THEN Retired(peers[s]) ELSE peers[s]]
        BY Zenon, <1>1 DEF MgrInit, MgrDestroy
      <3>5. ~NoPeer.active /\ \A p : ~Retired(p).active
        BY DEF NoPeer, Retired
      <3>1. \A s \in Slots : ~peers'[s].active
        BY <3>4, <3>5
      <3>2. pc' = pc /\ life # "running"
        BY <1>1 DEF MgrInit, MgrDestroy, callerVars
      <3>3. \A c \in Callers : pc[c] = "idle"
        BY <3>2 DEF QueueInv, Control
      <3> QED
        BY Zenon, <3>1, <3>2, <3>3
    <2> QED
      BY <2>1 DEF SizeInv
  <1>2. CASE MgrStop
    BY <1>2, SizeFrame DEF MgrStop, tableVars, callerVars
  <1> QED
    BY <1>1, <1>2 DEF MainStep

(* What a connect allocates has the size of the segment, and was free: no   *)
(* other peer's memory changes.                                             *)
LEMMA SizeConnectBegin ==
    ASSUME QueueInv, TableInv, SizeInv, NEW c \in Callers, NEW id \in PeerIds,
           NEW seg \in Segments, ConnectBegin(c, id, seg)
    PROVE  SizeInv'
  <1>1. PICK r \in PeerResources :
          /\ size' = [h \in Handles |-> IF h \in r THEN seg.len ELSE size[h]]
          /\ held' = [held EXCEPT ![c] =
                        [active |-> TRUE, peer_id |-> id, seg_va |-> seg.va,
                         seg_len |-> seg.len, res |-> r]]
    BY Zenon DEF ConnectBegin
  <1>2. r \subseteq Handles /\ \A h \in r : size[h] = 0
    BY DEF PeerResources, FreeHandles
  <1>3. r # {}
    <2>1. Cardinality(r) = IF UseMock THEN 1 ELSE 2
      BY DEF PeerResources
    <2>2. Cardinality(r) # 0
      BY <2>1
    <2> QED
      BY <2>2, FS_EmptySet, Zenon
  <1>4. /\ pc' = [pc EXCEPT ![c] = "connect"]
        /\ UNCHANGED peers
    BY DEF ConnectBegin
  <1>5. /\ \A s \in Slots : \A h \in peers[s].res : h \in Handles /\ size[h] # 0
        /\ \A d \in Callers : \A h \in held[d].res : h \in Handles /\ size[h] # 0
    BY Domains DEF TableInv, OneOwner
  <1>6. ASSUME NEW h \in Handles, size[h] # 0 PROVE size'[h] = size[h]
    BY <1>1, <1>2, <1>6
  <1>7. ASSUME NEW s \in Slots, peers'[s].active PROVE Sized(peers[s])'
    BY <1>4, <1>5, <1>6, <1>7 DEF SizeInv, Sized
  <1>8. ASSUME NEW d \in Callers, pc'[d] = "connect" PROVE Sized(held[d])'
    <2>1. CASE d = c
      BY <1>1, <1>2, <1>3, <2>1, Domains DEF Sized
    <2>2. CASE d # c
      <3>1. held'[d] = held[d] /\ pc'[d] = pc[d]
        BY <1>1, <1>4, <2>2, Domains
      <3> QED
        BY <1>5, <1>6, <1>8, <3>1 DEF SizeInv, Sized
    <2> QED
      BY <2>1, <2>2
  <1> QED
    BY <1>7, <1>8 DEF SizeInv

(* Install moves the peer with its sizes; disconnect leaves an empty slot. *)
LEMMA SizeMove ==
    ASSUME QueueInv, SizeInv, NEW c \in Callers,
           ConnectInstall(c) \/ \E id \in PeerIds : Disconnect(c, id)
    PROVE  SizeInv'
  <1>1. PICK s \in Slots :
          /\ \A t \in Slots \ {s} : peers'[t] = peers[t]
          /\ ~peers'[s].active \/ (pc[c] = "connect" /\ peers'[s] = held[c])
    <2>1. CASE ConnectInstall(c)
      BY <2>1, Domains DEF ConnectInstall
    <2>2. ASSUME NEW id \in PeerIds, Disconnect(c, id)
          PROVE  \E s \in Slots : /\ \A t \in Slots \ {s} : peers'[t] = peers[t]
                                  /\ ~peers'[s].active
      <3>1. PICK s \in Slots : peers' = [peers EXCEPT ![s] = NoPeer]
        BY <2>2, Zenon DEF Disconnect, FindPeer
      <3> QED
        BY <3>1, Domains DEF NoPeer
    <2> QED
      BY <2>1, <2>2
  <1>2. /\ UNCHANGED size /\ pc'[c] # "connect"
        /\ \A d \in Callers \ {c} : held'[d] = held[d] /\ pc'[d] = pc[d]
    BY Domains DEF ConnectInstall, Disconnect
  <1>3. ASSUME NEW t \in Slots, peers'[t].active PROVE Sized(peers[t])'
    <2>1. CASE t = s
      <3>1. pc[c] = "connect" /\ peers'[t] = held[c]
        BY <1>1, <1>3, <2>1
      <3>2. Sized(held[c])
        BY <3>1 DEF SizeInv
      <3> QED
        BY <1>2, <3>1, <3>2 DEF Sized
    <2>2. CASE t # s
      <3>1. peers[t].active /\ peers'[t] = peers[t]
        BY <1>1, <1>3, <2>2
      <3>2. Sized(peers[t])
        BY <3>1 DEF SizeInv
      <3> QED
        BY <1>2, <3>1, <3>2 DEF Sized
    <2> QED
      BY <2>1, <2>2
  <1>4. ASSUME NEW d \in Callers, pc'[d] = "connect" PROVE Sized(held[d])'
    <2>1. held'[d] = held[d] /\ pc[d] = "connect"
      BY Zenon, <1>2, <1>4
    <2>2. Sized(held[d])
      BY Zenon, <2>1 DEF SizeInv
    <2> QED
      BY Zenon, <1>2, <2>1, <2>2 DEF Sized
  <1> QED
    BY <1>3, <1>4 DEF SizeInv

(* Releasing frees what the caller holds, which no slot and no other caller *)
(* has.                                                                     *)
LEMMA SizeRelease ==
    ASSUME QueueInv, TableInv, SizeInv, NEW c \in Callers, ReleaseHeld(c)
    PROVE  SizeInv'
  <1>1. /\ held' = [held EXCEPT ![c] = NoPeer]
        /\ pc' = [pc EXCEPT ![c] = "idle"]
        /\ size' = [h \in Handles |-> IF h \in held[c].res THEN 0 ELSE size[h]]
        /\ UNCHANGED peers
    BY DEF ReleaseHeld, Release
  <1>2. /\ \A s \in Slots : \A h \in peers[s].res : h \in Handles /\ h \notin held[c].res
        /\ \A d \in Callers \ {c} : \A h \in held[d].res : h \in Handles /\ h \notin held[c].res
    BY Domains DEF TableInv, OneOwner
  <1>3. ASSUME NEW h \in Handles, h \notin held[c].res PROVE size'[h] = size[h]
    BY <1>1, <1>3
  <1>4. ASSUME NEW s \in Slots, peers'[s].active PROVE Sized(peers[s])'
    <2>1. peers'[s] = peers[s] /\ peers[s].active
      BY Zenon, <1>1, <1>4
    <2>2. Sized(peers[s])
      BY Zenon, <2>1 DEF SizeInv
    <2>3. \A h \in peers[s].res : size'[h] = size[h]
      BY Zenon, <1>2, <1>3
    <2> QED
      BY Zenon, <2>1, <2>2, <2>3 DEF Sized
  <1>5. ASSUME NEW d \in Callers, pc'[d] = "connect" PROVE Sized(held[d])'
    <2>1. d # c /\ held'[d] = held[d] /\ pc[d] = "connect"
      BY <1>1, <1>5, Domains DEF NoPeer
    <2>2. Sized(held[d])
      BY Zenon, <2>1 DEF SizeInv
    <2>3. \A h \in held[d].res : size'[h] = size[h]
      BY Zenon, <1>2, <1>3, <2>1
    <2> QED
      BY Zenon, <2>1, <2>2, <2>3 DEF Sized
  <1> QED
    BY <1>4, <1>5 DEF SizeInv

(* What an active peer owns exists and has the size of its segment. *)
LEMMA SizeInvariant == Spec => []SizeInv
  <1>1. ASSUME Init PROVE SizeInv
    <2>1. peers = [s \in Slots |-> NoPeer] /\ pc = [c \in Callers |-> "idle"]
      BY <1>1 DEF Init
    <2> QED
      BY <2>1 DEF SizeInv, NoPeer
  <1>2. ASSUME QueueInv, TableInv, SizeInv, [Next]_vars
        PROVE  SizeInv'
    <2>1. CASE MainStep
      BY <1>2, <2>1, SizeMain
    <2>2. ASSUME NEW c \in Callers, CallerBegins(c) \/ CallerContinues(c)
          PROVE  SizeInv'
      <3>1. CASE \E id \in PeerIds, seg \in Segments : ConnectBegin(c, id, seg)
        BY <1>2, <3>1, SizeConnectBegin
      <3>2. CASE ConnectInstall(c) \/ \E id \in PeerIds : Disconnect(c, id)
        BY <1>2, <3>2, SizeMove
      <3>3. CASE ReleaseHeld(c)
        BY <1>2, <3>3, SizeRelease
      <3>4. CASE \/ Enable(c) \/ Disable(c) \/ ConnectRefuse(c) \/ TransferReturn(c)
                 \/ \E x \in Xfers : TransferEnqueue(c, x)
        <4>1. /\ UNCHANGED <<peers, size, held>>
              /\ pc' = pc \/ \E v \in {"idle", "release", "wait"} : pc' = [pc EXCEPT ![c] = v]
          BY <3>4 DEF Enable, Disable, ConnectRefuse, TransferReturn, TransferEnqueue,
                      tableVars, callerVars
        <4> QED
          BY <1>2, <4>1, SizeFrame DEF QueueInv, TypeOK
      <3> QED
        BY <2>2, <3>1, <3>2, <3>3, <3>4 DEF CallerBegins, CallerContinues
    <2>3. CASE WorkerStep \/ DeviceStep \/ UNCHANGED vars
      <3>1. UNCHANGED <<peers, size, held, pc>>
        BY <2>3 DEF WorkerStep, DeviceStep, WorkerExit, WorkerDequeue, WorkerCheck, WorkerLoad,
               WorkerCopy, WorkerPost, WorkerPoll, WorkerGiveUp, WorkerFinish, WorkerLog,
               DeviceComplete, vars, tableVars, callerVars
      <3> QED
        BY <1>2, <3>1, SizeFrame
    <2> QED
      BY <1>2, <2>1, <2>2, <2>3 DEF Next
  <1> QED
    BY <1>1, <1>2, QueueInvariant, TableInvariant, PTL DEF Spec

=============================================================================
