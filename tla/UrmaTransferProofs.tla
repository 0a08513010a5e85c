------------------------- MODULE UrmaTransferProofs -------------------------
(***************************************************************************)
(* Proofs about the transfers of UrmaMgr: OK means the bytes were moved,   *)
(* when clients number their requests, and with one caller the worker      *)
(* only touches the memory of a live peer.                                 *)
(***************************************************************************)
EXTENDS UrmaMgrProofs

-----------------------------------------------------------------------------
(* What OK means.                                                          *)

(***************************************************************************)
(* The numbers clients give their requests are the serials, a completion   *)
(* of the device that says success has moved the bytes of the request it   *)
(* names, if that one is still there, and the worker reports OK only then. *)
(***************************************************************************)
OkInv ==
    /\ \A c \in Callers :
         IF pc[c] = "wait"
           THEN req[c].request_id = req[c].serial /\ req[c].live /\ req[c].serial <= accepted
           ELSE ~req[c].live /\ ~req[c].done
    /\ \A wr \in wrs : wr.user_ctx = wr.serial /\ wr.serial <= accepted
    /\ \A i \in DOMAIN jfc :
         /\ jfc[i].user_ctx <= accepted
         /\ jfc[i].success =>
              \A c \in Callers : req[c].live /\ req[c].serial = jfc[i].user_ctx => req[c].moved
    /\ wpc = "finish" /\ wrc = "OK" => req[wreq].moved
    /\ life = "off" => wrs = {} /\ jfc = <<>>
    /\ OkMeansMoved

(* A request keeps its identity, and is moved or completed as OkInv wants. *)
Keeps(c) ==
    /\ req'[c].live = req[c].live
    /\ req'[c].request_id = req[c].request_id
    /\ req'[c].serial = req[c].serial
    /\ req[c].moved => req'[c].moved
    /\ req'[c].done => req[c].done \/ pc[c] = "wait"
    /\ req'[c].done /\ req'[c].status = "OK" => req'[c].moved

(* A step that starts and ends no call, posts nothing and completes nothing. *)
LEMMA OkFrame ==
    ASSUME OkInv, UNCHANGED <<accepted, wrs, jfc>>,
           life' = "off" => life = "off",
           \A c \in Callers : pc'[c] = "wait" <=> pc[c] = "wait",
           \A c \in Callers : Keeps(c),
           wpc' = "finish" /\ wrc' = "OK" => req'[wreq'].moved
    PROVE  OkInv'
  <1>1. \A c \in Callers :
          IF pc'[c] = "wait"
            THEN /\ req'[c].request_id = req'[c].serial /\ req'[c].live
                 /\ req'[c].serial <= accepted'
            ELSE ~req'[c].live /\ ~req'[c].done
    BY DEF OkInv, Keeps
  <1>2. \A wr \in wrs' : wr.user_ctx = wr.serial /\ wr.serial <= accepted'
    BY DEF OkInv
  <1>3. \A i \in DOMAIN jfc' :
          /\ jfc'[i].user_ctx <= accepted'
          /\ jfc'[i].success =>
               \A c \in Callers : req'[c].live /\ req'[c].serial = jfc'[i].user_ctx => req'[c].moved
    BY DEF OkInv, Keeps
  <1>4. life' = "off" => wrs' = {} /\ jfc' = <<>>
    BY DEF OkInv
  <1>5. OkMeansMoved'
    BY DEF OkMeansMoved, Keeps
  <1> QED
    BY <1>1, <1>2, <1>3, <1>4, <1>5 DEF OkInv

(* Unchanged requests keep themselves. *)
LEMMA SameKeeps ==
    ASSUME OkInv, UNCHANGED req
    PROVE  \A c \in Callers : Keeps(c)
  BY DEF OkInv, OkMeansMoved, Keeps

(* What main does: when the manager starts nothing is left of an earlier     *)
(* life, and destroy takes the completion queue away.                        *)
LEMMA OkMain ==
    ASSUME QueueInv, OkInv, MainStep
    PROVE  OkInv'
  <1>1. CASE MgrInit \/ MgrDestroy
    <2>1. /\ wrs' = {} /\ jfc' = <<>> /\ UNCHANGED <<req, pc>>
          /\ \A c \in Callers : pc[c] = "idle"
          /\ wpc' # "finish"
      BY <1>1 DEF MgrInit, MgrDestroy, callerVars, workerVars, deviceVars, OkInv, QueueInv, Control
    <2>2. DOMAIN jfc' = {}
      BY <2>1
    <2> QED
      BY <2>1, <2>2 DEF OkInv, OkMeansMoved
  <1>2. CASE MgrStop
    <2>1. UNCHANGED <<accepted, wrs, jfc, pc, req, wpc, wrc, wreq>> /\ life' # "off"
      BY <1>2 DEF MgrStop, countVars, deviceVars, callerVars, workerVars
    <2>2. wpc' = "finish" /\ wrc' = "OK" => req'[wreq'].moved
      BY <2>1 DEF OkInv
    <2> QED
      BY <2>1, <2>2, OkFrame, SameKeeps
  <1> QED
    BY <1>1, <1>2 DEF MainStep

(* The elements of a sequence. *)
LEMMA ElementOf ==
    ASSUME NEW S, NEW q \in Seq(S), NEW i \in DOMAIN q
    PROVE  q[i] \in S
  OBVIOUS

(* ... of its tail ... *)
LEMMA Tails ==
    ASSUME NEW S, NEW q \in Seq(S), q # <<>>
    PROVE  /\ 1 \in DOMAIN q /\ Head(q) = q[1]
           /\ DOMAIN Tail(q) = 1 .. Len(q) - 1
           /\ \A i \in 1 .. Len(q) - 1 : i + 1 \in DOMAIN q /\ Tail(q)[i] = q[i + 1]
  OBVIOUS

(* ... and of what is appended to it. *)
LEMMA Appended ==
    ASSUME NEW S, NEW q \in Seq(S), NEW e, NEW i \in DOMAIN Append(q, e)
    PROVE  (i \in DOMAIN q /\ Append(q, e)[i] = q[i]) \/ Append(q, e)[i] = e
  OBVIOUS

(* A caller numbers its request with a serial no completion has.             *)
LEMMA OkEnqueue ==
    ASSUME UniqueIds, QueueInv, OkInv, NEW c \in Callers, NEW x \in Xfers, TransferEnqueue(c, x)
    PROVE  OkInv'
  <1>0. DOMAIN req = Callers /\ DOMAIN pc = Callers
    BY DEF QueueInv, TypeOK
  <1>1. /\ req' = [req EXCEPT ![c] =
                    [live |-> TRUE, xfer |-> x, remote |-> x.remote, request_id |-> accepted + 1,
                     status |-> "OK", done |-> FALSE, serial |-> accepted + 1, moved |-> FALSE]]
        /\ accepted' = accepted + 1 /\ pc' = [pc EXCEPT ![c] = "wait"] /\ pc[c] = "idle"
        /\ UNCHANGED <<life, wrs, jfc, wpc, wrc, wreq>>
    BY DEF TransferEnqueue, RequestIds, workerVars, deviceVars
  <1>2. /\ req'[c].live /\ req'[c].request_id = accepted + 1 /\ req'[c].serial = accepted + 1
        /\ ~req'[c].done /\ pc'[c] = "wait"
        /\ \A d \in Callers \ {c} : req'[d] = req[d] /\ pc'[d] = pc[d]
    BY <1>0, <1>1
  <1>3. /\ accepted \in Nat
        /\ \A d \in Callers : req[d].serial \in Nat
        /\ \A wr \in wrs : wr.serial \in Nat
        /\ \A i \in DOMAIN jfc : jfc[i].user_ctx \in Nat
    <2>1. accepted \in Nat /\ \A d \in Callers : req[d].serial \in Nat
      BY DEF Requests, QueueInv, TypeOK
    <2>2. \A wr \in wrs : wr.serial \in Nat
      BY DEF QueueInv, TypeOK
    <2>3. ASSUME NEW i \in DOMAIN jfc PROVE jfc[i].user_ctx \in Nat
      <3>1. jfc \in Seq([user_ctx : Nat, success : BOOLEAN])
        BY DEF QueueInv, TypeOK
      <3>2. jfc[i] \in [user_ctx : Nat, success : BOOLEAN]
        BY <3>1, ElementOf, Zenon
      <3> QED
        BY <3>2
    <2> QED
      BY <2>1, <2>2, <2>3
  <1>4. \A d \in Callers :
          IF pc'[d] = "wait"
            THEN /\ req'[d].request_id = req'[d].serial /\ req'[d].live
                 /\ req'[d].serial <= accepted'
            ELSE ~req'[d].live /\ ~req'[d].done
    <2> SUFFICES ASSUME NEW d \in Callers
                 PROVE  IF pc'[d] = "wait"
                          THEN /\ req'[d].request_id = req'[d].serial /\ req'[d].live
                               /\ req'[d].serial <= accepted'
                          ELSE ~req'[d].live /\ ~req'[d].done
      OBVIOUS
    <2>1. CASE d = c
      BY <1>1, <1>2, <1>3, <2>1
    <2>2. CASE d # c
      BY <1>1, <1>2, <1>3, <2>2 DEF OkInv
    <2> QED
      BY <2>1, <2>2
  <1>5. \A wr \in wrs' : wr.user_ctx = wr.serial /\ wr.serial <= accepted'
    BY <1>1, <1>3 DEF OkInv
  <1>6. ASSUME NEW i \in DOMAIN jfc
        PROVE  /\ jfc[i].user_ctx <= accepted + 1
               /\ jfc[i].success =>
                    \A d \in Callers : req'[d].live /\ req'[d].serial = jfc[i].user_ctx => req'[d].moved
    <2>a. jfc[i].user_ctx <= accepted
      BY DEF OkInv
    <2>1. jfc[i].user_ctx <= accepted + 1 /\ jfc[i].user_ctx # accepted + 1
      BY <1>3, <2>a
    <2>2. jfc[i].success =>
            \A d \in Callers : req[d].live /\ req[d].serial = jfc[i].user_ctx => req[d].moved
      BY DEF OkInv
    <2> QED
      BY <1>2, <1>3, <2>1, <2>2, Zenon
  <1>7. wpc' = "finish" /\ wrc' = "OK" => req'[wreq'].moved
    <2>1. wpc = "finish" => wreq \in Callers /\ wreq # c
      BY <1>1 DEF QueueInv, Control, QueueFIFO, Busy
    <2> QED
      BY <1>1, <1>2, <2>1 DEF OkInv
  <1>8. OkMeansMoved'
    BY <1>2, Zenon DEF OkInv, OkMeansMoved
  <1>9. UNCHANGED <<life, wrs, jfc>> /\ accepted' = accepted + 1
    BY <1>1
  <1> QED
    BY <1>4, <1>5, <1>6, <1>7, <1>8, <1>9 DEF OkInv

(* A call that returns leaves no request behind; it is not the worker's.     *)
LEMMA OkReturn ==
    ASSUME QueueInv, OkInv, NEW c \in Callers, TransferReturn(c)
    PROVE  OkInv'
  <1>0. DOMAIN req = Callers /\ DOMAIN pc = Callers
    BY DEF QueueInv, TypeOK
  <1>1. /\ req' = [req EXCEPT ![c] = NoReq] /\ pc' = [pc EXCEPT ![c] = "idle"]
        /\ pc[c] = "wait" /\ req[c].done
        /\ UNCHANGED <<life, accepted, wrs, jfc, wpc, wrc, wreq>>
    BY DEF TransferReturn, countVars, workerVars, deviceVars
  <1>2. /\ ~req'[c].live /\ ~req'[c].done /\ pc'[c] # "wait"
        /\ \A d \in Callers \ {c} : req'[d] = req[d] /\ pc'[d] = pc[d]
    BY <1>0, <1>1 DEF NoReq
  <1>3. wpc' = "finish" /\ wrc' = "OK" => req'[wreq'].moved
    <2>1. wpc = "finish" => wreq \in Callers /\ wreq # c
      BY <1>1 DEF QueueInv, Control, QueueFIFO, Busy
    <2> QED
      BY <1>1, <1>2, <2>1 DEF OkInv
  <1>4. OkMeansMoved'
    BY <1>2, Zenon DEF OkInv, OkMeansMoved
  <1> QED
    BY <1>1, <1>2, <1>3, <1>4 DEF OkInv

(* Every step of a caller keeps OkInv. *)
LEMMA OkCaller ==
    ASSUME UniqueIds, QueueInv, OkInv, NEW c \in Callers, CallerBegins(c) \/ CallerContinues(c)
    PROVE  OkInv'
  <1>1. CASE \E x \in Xfers : TransferEnqueue(c, x)
    BY <1>1, OkEnqueue
  <1>2. CASE TransferReturn(c)
    BY <1>2, OkReturn
  <1>3. CASE \/ Enable(c) \/ Disable(c) \/ ConnectInstall(c) \/ ConnectRefuse(c) \/ ReleaseHeld(c)
             \/ \E id \in PeerIds, seg \in Segments : ConnectBegin(c, id, seg)
             \/ \E id \in PeerIds : Disconnect(c, id)
    <2>1. /\ UNCHANGED <<life, req, accepted, wrs, jfc, wpc, wrc, wreq>>
          /\ pc' = pc \/ (pc[c] # "wait" /\ \E v \in {"idle", "connect", "release"} :
                                               pc' = [pc EXCEPT ![c] = v])
      BY <1>3 DEF Enable, Disable, ConnectInstall, ConnectRefuse, ReleaseHeld, ConnectBegin,
                  Disconnect, countVars, callerVars, workerVars, deviceVars
    <2>2. \A d \in Callers : pc'[d] = "wait" <=> pc[d] = "wait"
      BY <2>1 DEF QueueInv, TypeOK
    <2>3. wpc' = "finish" /\ wrc' = "OK" => req'[wreq'].moved
      BY <2>1 DEF OkInv
    <2> QED
      BY <2>1, <2>2, <2>3, OkFrame, SameKeeps
  <1> QED
    BY <1>1, <1>2, <1>3 DEF CallerBegins, CallerContinues

(* A rewritten request keeps its identity. *)
LEMMA RewriteFields ==
    ASSUME NEW q, NEW remote, NEW status, NEW done, NEW moved
    PROVE  LET r == Rewrite(q, remote, status, done, moved)
           IN  /\ r.live = q.live /\ r.request_id = q.request_id /\ r.serial = q.serial
               /\ r.remote = remote /\ r.status = status /\ r.done = done /\ r.moved = moved
               /\ r.xfer = q.xfer
  BY DEF Rewrite

(* The worker, outside its poll and its post: it reports OK for what it has  *)
(* copied itself.                                                            *)
LEMMA OkWorker ==
    ASSUME QueueInv, OkInv,
           \/ WorkerExit \/ WorkerDequeue \/ WorkerCheck \/ WorkerLoad \/ WorkerCopy
           \/ WorkerGiveUp \/ WorkerFinish \/ WorkerLog
    PROVE  OkInv'
  <1>0. UNCHANGED <<life, accepted, wrs, jfc, pc>>
    BY DEF WorkerExit, WorkerDequeue, WorkerCheck, WorkerLoad, WorkerCopy, WorkerGiveUp,
           WorkerFinish, WorkerLog, countVars, callerVars, deviceVars
  <1>a. DOMAIN req = Callers
    BY DEF QueueInv, TypeOK
  <1>1. CASE WorkerExit \/ WorkerCheck \/ WorkerLoad \/ WorkerGiveUp \/ WorkerLog
    <2>1. UNCHANGED req /\ (wpc' = "finish" => wrc' # "OK")
      BY <1>1 DEF WorkerExit, WorkerCheck, WorkerLoad, WorkerGiveUp, WorkerLog, callerVars
    <2> QED
      BY <1>0, <2>1, OkFrame, SameKeeps
  <1>2. CASE WorkerDequeue
    <2> DEFINE c == queue[head]
               rc == ValidateXfer(req[c].xfer, req[c].remote)
    <2>1. PICK s : req' = IF s = 0 THEN req
                          ELSE [req EXCEPT ![c] = Rewrite(req[c], peers[s].seg_va,
                                   req[c].status, req[c].done, req[c].moved)]
      BY <1>2, Zenon DEF WorkerDequeue
    <2>2. ASSUME NEW d \in Callers PROVE Keeps(d)
      <3>1. CASE s = 0 \/ d # c
        BY <1>a, <2>1, <3>1, SameKeeps, Zenon DEF OkInv, OkMeansMoved, Keeps
      <3>2. CASE s # 0 /\ d = c
        <4>1. req'[d] = Rewrite(req[d], peers[s].seg_va, req[d].status, req[d].done, req[d].moved)
          BY <1>a, <2>1, <3>2
        <4>2. req[d].done /\ req[d].status = "OK" => req[d].moved
          BY DEF OkInv, OkMeansMoved
        <4>3. /\ req'[d].live = req[d].live /\ req'[d].request_id = req[d].request_id
              /\ req'[d].serial = req[d].serial /\ req'[d].moved = req[d].moved
              /\ req'[d].done = req[d].done /\ req'[d].status = req[d].status
          BY <4>1 DEF Rewrite
        <4> QED
          BY <4>2, <4>3, Zenon DEF Keeps
      <3> QED
        BY <3>1, <3>2
    <2>3. wpc' = "finish" => wrc' # "OK"
      BY <1>2 DEF WorkerDequeue
    <2> QED
      BY <1>0, <2>2, <2>3, OkFrame
  <1>3. CASE WorkerCopy \/ WorkerFinish
    <2>1. /\ wreq \in Callers /\ pc[wreq] = "wait" /\ UNCHANGED wreq
          /\ WorkerFinish => wpc = "finish"
      BY <1>3 DEF WorkerCopy, WorkerFinish, QueueInv, Control, QueueFIFO, Busy
    <2>2. /\ \A d \in Callers \ {wreq} : req'[d] = req[d]
          /\ \/ req'[wreq] = Rewrite(req[wreq], req[wreq].remote, req[wreq].status, req[wreq].done, TRUE)
             \/ /\ WorkerFinish
                /\ req'[wreq] = Rewrite(req[wreq], req[wreq].remote, wrc, TRUE, req[wreq].moved)
      BY <1>3, <1>a, <2>1, Zenon DEF WorkerCopy, WorkerFinish, Complete, Moved
    <2>3. ASSUME NEW d \in Callers PROVE Keeps(d)
      <3>1. CASE d # wreq
        BY <2>2, <3>1 DEF OkInv, OkMeansMoved, Keeps
      <3>2. CASE d = wreq
        <4>1. /\ req'[d].live = req[d].live /\ req'[d].request_id = req[d].request_id
              /\ req'[d].serial = req[d].serial
              /\ \/ req'[d].moved
                 \/ wpc = "finish" /\ req'[d].status = wrc /\ req'[d].moved = req[d].moved
          BY <2>1, <2>2, <3>2 DEF Rewrite
        <4>2. wpc = "finish" /\ wrc = "OK" => req[d].moved
          BY <3>2 DEF OkInv
        <4> QED
          BY <2>1, <3>2, <4>1, <4>2 DEF Keeps
      <3> QED
        BY <3>1, <3>2
    <2>4. wpc' = "finish" => req'[wreq'].moved
      <3>1. wpc' = "finish" => req'[wreq] = Rewrite(req[wreq], req[wreq].remote,
                                              req[wreq].status, req[wreq].done, TRUE)
        BY <1>3, <1>a, <2>1 DEF WorkerCopy, WorkerFinish, Moved
      <3>2. Rewrite(req[wreq], req[wreq].remote, req[wreq].status, req[wreq].done, TRUE).moved
        BY DEF Rewrite
      <3> QED
        BY <2>1, <3>1, <3>2, Zenon
    <2> QED
      BY <1>0, <2>3, <2>4, OkFrame
  <1> QED
    BY <1>1, <1>2, <1>3

(* The worker's work request carries the number of its request. *)
LEMMA OkPost ==
    ASSUME QueueInv, OkInv, WorkerPost
    PROVE  OkInv'
  <1>1. /\ wreq \in Callers /\ pc[wreq] = "wait"
        /\ UNCHANGED <<life, accepted, jfc, pc, req>>
        /\ wpc' = "finish" => wrc' # "OK"
    BY DEF WorkerPost, QueueInv, Control, QueueFIFO, Busy, countVars, callerVars
  <1>2. req[wreq].request_id = req[wreq].serial /\ req[wreq].serial <= accepted
    BY <1>1 DEF OkInv
  <1>3. \A wr \in wrs' : wr.user_ctx = wr.serial /\ wr.serial <= accepted
    <2>1. \A wr \in wrs : wr.user_ctx = wr.serial /\ wr.serial <= accepted
      BY DEF OkInv
    <2>2. \A wr \in wrs' : wr \in wrs \/ wr = [user_ctx |-> req[wreq].request_id,
                                              serial |-> req[wreq].serial, res |-> wbuf]
      BY DEF WorkerPost
    <2> QED
      BY <1>2, <2>1, <2>2
  <1>4. life # "off"
    BY <1>1 DEF QueueInv, TypeOK, Control
  <1> QED
    BY <1>1, <1>3, <1>4 DEF OkInv, OkMeansMoved

(* The completion the worker takes for its own is its own. *)
LEMMA OkPoll ==
    ASSUME QueueInv, OkInv, WorkerPoll
    PROVE  OkInv'
  <1>1. /\ wreq \in Callers /\ pc[wreq] = "wait"
        /\ UNCHANGED <<life, accepted, wrs, pc, req, wreq>>
    BY DEF WorkerPoll, QueueInv, Control, QueueFIFO, Busy, countVars, callerVars
  <1>2. req[wreq].request_id = req[wreq].serial /\ req[wreq].live
    BY <1>1 DEF OkInv
  <1>3. /\ 1 \in DOMAIN jfc /\ Head(jfc) = jfc[1]
        /\ DOMAIN Tail(jfc) = 1 .. Len(jfc) - 1
        /\ \A i \in 1 .. Len(jfc) - 1 : i + 1 \in DOMAIN jfc /\ Tail(jfc)[i] = jfc[i + 1]
    <2>1. jfc \in Seq([user_ctx : Nat, success : BOOLEAN]) /\ jfc # <<>>
      BY DEF QueueInv, TypeOK, WorkerPoll
    <2> QED
      BY <2>1, Tails
  <1>4. wpc' = "finish" /\ wrc' = "OK" => req'[wreq'].moved
    <2>1. wpc' = "finish" /\ wrc' = "OK" => jfc[1].success /\ jfc[1].user_ctx = req[wreq].serial
      BY <1>2, <1>3 DEF WorkerPoll, Mine
    <2>2. jfc[1].success => (req[wreq].serial = jfc[1].user_ctx => req[wreq].moved)
      BY <1>1, <1>2, <1>3 DEF OkInv
    <2> QED
      BY <1>1, <2>1, <2>2
  <1>5. \A i \in DOMAIN jfc' :
          /\ jfc'[i].user_ctx <= accepted
          /\ jfc'[i].success =>
               \A c \in Callers : req[c].live /\ req[c].serial = jfc'[i].user_ctx => req[c].moved
    <2>1. jfc' = Tail(jfc)
      BY DEF WorkerPoll
    <2>2. \A i \in DOMAIN jfc :
          /\ jfc[i].user_ctx <= accepted
          /\ jfc[i].success =>
               \A c \in Callers : req[c].live /\ req[c].serial = jfc[i].user_ctx => req[c].moved
      BY DEF OkInv
    <2> SUFFICES ASSUME NEW i \in DOMAIN jfc'
                 PROVE  /\ jfc'[i].user_ctx <= accepted
                        /\ jfc'[i].success =>
                             \A c \in Callers : req[c].live /\ req[c].serial = jfc'[i].user_ctx => req[c].moved
      OBVIOUS
    <2>3. i + 1 \in DOMAIN jfc /\ jfc'[i] = jfc[i + 1]
      BY <1>3, <2>1
    <2> QED
      BY <2>2, <2>3, Zenon
  <1>6. life # "off"
    BY <1>1 DEF QueueInv, TypeOK, Control
  <1> QED
    BY <1>1, <1>4, <1>5, <1>6 DEF OkInv, OkMeansMoved

(* The device moves the bytes of the request it completes with success. *)
LEMMA OkDevice ==
    ASSUME QueueInv, OkInv, NEW wr \in wrs, DeviceComplete(wr)
    PROVE  OkInv'
  <1>1. PICK success \in BOOLEAN :
          /\ jfc' = Append(jfc, [user_ctx |-> wr.user_ctx, success |-> success])
          /\ req' = [c \in Callers |->
                       IF success /\ req[c].live /\ req[c].serial = wr.serial
                         THEN Moved(req[c]) ELSE req[c]]
    BY DEF DeviceComplete
  <1>2. /\ UNCHANGED <<life, accepted, pc, wpc, wrc, wreq>>
        /\ wrs' = wrs \ {wr}
    BY DEF DeviceComplete, countVars, workerVars
  <1>3. wr.user_ctx = wr.serial /\ wr.serial <= accepted /\ life # "off"
    BY DEF OkInv
  <1>4. ASSUME NEW c \in Callers
        PROVE  /\ req'[c].live = req[c].live /\ req'[c].request_id = req[c].request_id
               /\ req'[c].serial = req[c].serial
               /\ req'[c].done = req[c].done /\ req'[c].status = req[c].status
               /\ req[c].moved => req'[c].moved
               /\ success /\ req[c].live /\ req[c].serial = wr.serial => req'[c].moved
    BY <1>1 DEF Moved, Rewrite
  <1>5. ASSUME NEW i \in DOMAIN jfc'
        PROVE  /\ jfc'[i].user_ctx <= accepted
               /\ jfc'[i].success =>
                    \A c \in Callers : req'[c].live /\ req'[c].serial = jfc'[i].user_ctx => req'[c].moved
    <2>1. \/ i \in DOMAIN jfc /\ jfc'[i] = jfc[i]
          \/ jfc'[i] = [user_ctx |-> wr.user_ctx, success |-> success]
      <3>1. jfc \in Seq([user_ctx : Nat, success : BOOLEAN])
        BY DEF QueueInv, TypeOK
      <3> DEFINE e == [user_ctx |-> wr.user_ctx, success |-> success]
      <3>2. jfc' = Append(jfc, e)
        BY <1>1
      <3> HIDE DEF e
      <3>3. (i \in DOMAIN jfc /\ Append(jfc, e)[i] = jfc[i]) \/ Append(jfc, e)[i] = e
        BY <3>1, <3>2, Appended
      <3> QED
        BY Zenon, <3>2, <3>3 DEF e
    <2>2. CASE i \in DOMAIN jfc /\ jfc'[i] = jfc[i]
      <3>1. /\ jfc[i].user_ctx <= accepted
            /\ jfc[i].success =>
                 \A c \in Callers : req[c].live /\ req[c].serial = jfc[i].user_ctx => req[c].moved
        BY <2>2 DEF OkInv
      <3> QED
        BY <1>4, <2>2, <3>1
    <2>3. CASE jfc'[i] = [user_ctx |-> wr.user_ctx, success |-> success]
      <3>1. jfc'[i].user_ctx = wr.serial /\ jfc'[i].success = success
        BY <1>3, <2>3
      <3> QED
        BY <1>3, <1>4, <3>1
    <2> QED
      BY <2>1, <2>2, <2>3
  <1>6. wpc' = "finish" /\ wrc' = "OK" => req'[wreq'].moved
    <2>1. wpc = "finish" => wreq \in Callers
      BY DEF QueueInv, Control, Busy
    <2> QED
      BY <1>2, <1>4, <2>1 DEF OkInv
  <1>7. \A c \in Callers :
          IF pc'[c] = "wait"
            THEN /\ req'[c].request_id = req'[c].serial /\ req'[c].live
                 /\ req'[c].serial <= accepted'
            ELSE ~req'[c].live /\ ~req'[c].done
    BY <1>2, <1>4 DEF OkInv
  <1>8. OkMeansMoved'
    BY <1>4 DEF OkInv, OkMeansMoved
  <1>9. \A w \in wrs' : w.user_ctx = w.serial /\ w.serial <= accepted'
    BY <1>2 DEF OkInv
  <1> QED
    BY <1>2, <1>3, <1>5, <1>6, <1>7, <1>8, <1>9 DEF OkInv

(* With clients that number their requests, a transfer that is reported OK   *)
(* has moved its own bytes, for any number of callers and both providers,    *)
(* whatever completions of requests that timed out are still under way       *)
(* (OkMeansMoved).                                                           *)
THEOREM OkWasMoved == UniqueIds => (Spec => []OkMeansMoved)
  <1> SUFFICES ASSUME UniqueIds PROVE Spec => []OkMeansMoved
    OBVIOUS
  <1>1. Init => OkInv
    <2> SUFFICES ASSUME Init PROVE OkInv
      OBVIOUS
    <2>1. DOMAIN jfc = {} /\ wpc # "finish"
      BY DEF Init
    <2> QED
      BY <2>1 DEF Init, OkInv, OkMeansMoved, NoReq
  <1>2. ASSUME QueueInv, OkInv, [Next]_vars
        PROVE  OkInv'
    <2>1. CASE MainStep
      BY <1>2, <2>1, OkMain
    <2>2. CASE \E c \in Callers : CallerBegins(c) \/ CallerContinues(c)
      BY <1>2, <2>2, OkCaller
    <2>3. CASE WorkerStep
      BY <1>2, <2>3, OkWorker, OkPost, OkPoll DEF WorkerStep
    <2>4. CASE DeviceStep
      BY <1>2, <2>4, OkDevice DEF DeviceStep
    <2>5. CASE UNCHANGED vars
      <3>1. UNCHANGED <<life, accepted, wrs, jfc, pc, req, wpc, wrc, wreq>>
        BY <2>5 DEF vars, countVars, callerVars, workerVars, deviceVars
      <3> QED
        BY <1>2, <3>1 DEF OkInv, OkMeansMoved
    <2> QED
      BY <1>2, <2>1, <2>2, <2>3, <2>4, <2>5 DEF Next
  <1>3. OkInv => OkMeansMoved
    BY DEF OkInv
  <1> QED
    BY <1>1, <1>2, <1>3, QueueInvariant, PTL DEF Spec

-----------------------------------------------------------------------------
(* One caller: the API as the daemon uses it, from its control thread.     *)

OneCaller == \A c, d \in Callers : c = d

(***************************************************************************)
(* Between the enqueue and the completion of a transfer the only caller is *)
(* blocked, so the verdict of validate_xfer_locked stays what it was, and  *)
(* the slot the worker found stays the request's peer.                     *)
(***************************************************************************)
TouchInv ==
    /\ ~crashed
    /\ \A c \in Callers : pc[c] = "wait" /\ ~req[c].done =>
         /\ req[c].xfer \in Xfers
         /\ ~Busy => ValidateXfer(req[c].xfer, req[c].remote) = "OK"
         /\ wpc \in {"exec", "load", "copy"} =>
              /\ wslot \in FindPeer(req[c].xfer.peer_id)
              /\ req[c].remote = peers[wslot].seg_va
              /\ req[c].xfer.length <= peers[wslot].seg_len
              /\ wpc \in {"load", "copy"} => woff = 0
              /\ wpc = "copy" => wbuf = peers[wslot].res

(* A busy worker's request is the caller's. *)
LEMMA BusyBlocks ==
    ASSUME OneCaller, QueueInv, Busy, NEW c \in Callers
    PROVE  c = wreq /\ pc[c] = "wait" /\ ~req[c].done
  BY DEF OneCaller, QueueInv, Control, QueueFIFO

(* Main and the calls other than a transfer run while no transfer waits. *)
LEMMA TouchIdle ==
    ASSUME TouchInv, UNCHANGED crashed, \A c \in Callers : pc'[c] # "wait"
    PROVE  TouchInv'
  BY DEF TouchInv

(* A step that leaves the table alone and takes no request. *)
LEMMA TouchFrame ==
    ASSUME TouchInv, UNCHANGED <<enabled, peers, pc, wslot, woff, wbuf, crashed>>,
           \A c \in Callers : /\ req'[c].xfer = req[c].xfer /\ req'[c].remote = req[c].remote
                              /\ ~req'[c].done => ~req[c].done,
           Busy => Busy',
           wpc' \in {"exec", "load", "copy"} => wpc' = wpc
    PROVE  TouchInv'
  <1> SUFFICES ASSUME NEW c \in Callers, pc'[c] = "wait", ~req'[c].done
               PROVE  /\ req'[c].xfer \in Xfers
                      /\ ~Busy' => ValidateXfer(req[c].xfer, req[c].remote)' = "OK"
                      /\ wpc' \in {"exec", "load", "copy"} =>
                           /\ wslot' \in FindPeer(req[c].xfer.peer_id)'
                           /\ req'[c].remote = peers'[wslot'].seg_va
                           /\ req'[c].xfer.length <= peers'[wslot'].seg_len
                           /\ wpc' \in {"load", "copy"} => woff' = 0
                           /\ wpc' = "copy" => wbuf' = peers'[wslot'].res
    BY DEF TouchInv
  <1>1. pc[c] = "wait" /\ ~req[c].done
    OBVIOUS
  <1>2. ~Busy' => ValidateXfer(req[c].xfer, req[c].remote)' = "OK"
    <2>1. ~Busy' => ValidateXfer(req[c].xfer, req[c].remote) = "OK"
      BY <1>1 DEF TouchInv
    <2>2. ValidateXfer(req[c].xfer, req[c].remote)' = ValidateXfer(req[c].xfer, req[c].remote)
      BY DEF ValidateXfer, FindPeer, Matches, InSegment, RangeOk, Aligned
    <2> QED
      BY <2>1, <2>2
  <1>3. FindPeer(req[c].xfer.peer_id)' = FindPeer(req[c].xfer.peer_id)
    BY DEF FindPeer, Matches
  <1> QED
    BY <1>1, <1>2, <1>3 DEF TouchInv

(* The caller starts a transfer while the worker has none. *)
LEMMA TouchEnqueue ==
    ASSUME OneCaller, QueueInv, TouchInv, NEW c \in Callers, NEW x \in Xfers, TransferEnqueue(c, x)
    PROVE  TouchInv'
  <1>1. /\ pc[c] = "idle" /\ ValidateXfer(x, x.remote) = "OK"
        /\ UNCHANGED <<enabled, peers, wpc, crashed>>
    BY DEF TransferEnqueue, tableVars, workerVars
  <1>2. req'[c].xfer = x /\ req'[c].remote = x.remote
    BY DEF TransferEnqueue, QueueInv, TypeOK
  <1>3. ~Busy
    BY <1>1, BusyBlocks
  <1>4. ValidateXfer(req[c].xfer, req[c].remote)' = "OK"
    BY <1>1, <1>2 DEF ValidateXfer, FindPeer, Matches, InSegment, RangeOk, Aligned
  <1> QED
    BY <1>1, <1>2, <1>3, <1>4 DEF OneCaller, TouchInv, Busy

(* The worker revalidates with the same result, so the pointer it uses is the *)
(* one validate_xfer_locked found.                                            *)
LEMMA TouchDequeue ==
    ASSUME OneCaller, QueueInv, TouchInv, WorkerDequeue
    PROVE  TouchInv'
  <1>1. PICK c \in Callers : c = queue[head] /\ pc[c] = "wait" /\ ~req[c].done
    <2>1. head \in Ring /\ pending \in Nat /\ pending > 0 /\ QueueFIFO
      BY DEF QueueInv, TypeOK, WorkerDequeue
    <2> QED
      BY <2>1, FIFOHead
  <1>x. PICK x \in Xfers : x = req[c].xfer
    BY <1>1 DEF TouchInv
  <1>2. ValidateXfer(x, req[c].remote) = "OK"
    BY <1>1, <1>x DEF TouchInv, WorkerDequeue, Busy
  <1>3. PICK s \in FindPeer(x.peer_id) :
          /\ wslot' = s /\ crashed' = (s = 0) /\ wpc' = "exec"
          /\ req' = IF s = 0 THEN req
                    ELSE [req EXCEPT ![c] = Rewrite(req[c], peers[s].seg_va,
                             req[c].status, req[c].done, req[c].moved)]
    BY <1>1, <1>2, <1>x, Zenon DEF WorkerDequeue, PeerOut
  <1>4. s \in Slots /\ s # 0
    BY <1>3 DEF FindPeer, Slots
  <1>5. InSegment(s, req[c].remote, x.length)
    BY <1>2, <1>3 DEF ValidateXfer
  <1>6. req'[c] = Rewrite(req[c], peers[s].seg_va, req[c].status, req[c].done, req[c].moved)
    <2>1. DOMAIN req = Callers
      BY DEF QueueInv, TypeOK
    <2> QED
      BY <1>1, <1>3, <1>4, <2>1
  <1>7. req'[c].xfer = x /\ req'[c].remote = peers[s].seg_va
    <2>1. \A q, v, a, b, m : Rewrite(q, v, a, b, m).xfer = q.xfer /\ Rewrite(q, v, a, b, m).remote = v
      BY DEF Rewrite
    <2> QED
      BY <1>6, <1>x, <2>1
  <1>8. x.length <= peers[s].seg_len
    <2>1. /\ x.length \in Nat /\ req[c].remote \in Nat
          /\ peers[s].seg_va \in Nat /\ peers[s].seg_len \in Nat
      <3>1. peers[s] \in PeerRecords /\ req[c] \in Requests
        BY <1>4 DEF QueueInv, TypeOK
      <3>2. x.length \in Nat
        BY Inputs
      <3> QED
        BY <3>1, <3>2 DEF PeerRecords, Requests
    <2> QED
      BY <1>5, <2>1 DEF InSegment
  <1>9. UNCHANGED <<enabled, peers, pc>> /\ wslot' = s /\ wpc' = "exec" /\ ~crashed'
    BY <1>3, <1>4, Zenon DEF WorkerDequeue, tableVars
  <1>10. FindPeer(req[c].xfer.peer_id)' = FindPeer(x.peer_id)
    BY <1>7, <1>9 DEF FindPeer, Matches
  <1>11. Busy' /\ ~crashed' /\ \A d \in Callers : d = c
    BY <1>9 DEF OneCaller, Busy
  <1>12. wslot' \in FindPeer(req[c].xfer.peer_id)' /\ peers'[wslot'] = peers[s]
    BY <1>9, <1>10
  <1> QED
    BY <1>7, <1>8, <1>9, <1>11, <1>12 DEF TouchInv

(* The checks of the peer find its resources, which the copy then uses. *)
LEMMA TouchExec ==
    ASSUME OneCaller, QueueInv, SizeInv, TouchInv, WorkerCheck \/ WorkerLoad
    PROVE  TouchInv'
  <1>1. /\ UNCHANGED <<enabled, peers, pc, req, wslot, wreq>>
        /\ wpc \in {"exec", "load"}
    BY DEF WorkerCheck, WorkerLoad, tableVars, callerVars
  <1>2. wreq \in Callers /\ pc[wreq] = "wait" /\ ~req[wreq].done
    BY <1>1 DEF QueueInv, Control, QueueFIFO, Busy
  <1>3. /\ wslot \in FindPeer(req[wreq].xfer.peer_id) /\ req[wreq].xfer \in Xfers
        /\ req[wreq].remote = peers[wslot].seg_va
        /\ req[wreq].xfer.length <= peers[wslot].seg_len
        /\ wpc = "load" => woff = 0
    BY <1>1, <1>2 DEF TouchInv
  <1>4. peers[wslot].res # {} /\ peers[wslot].seg_va \in Nat
    BY <1>3 DEF FindPeer, Matches, SizeInv, Sized, QueueInv, TypeOK, PeerRecords
  <1>5. /\ ~crashed'
        /\ \/ wpc' = "load" /\ woff' = 0
           \/ wpc' = "copy" /\ woff' = 0 /\ wbuf' = peers[wslot].res
    <2>1. CASE WorkerCheck
      <3>0. woff' = req[wreq].remote - peers[wslot].seg_va
        BY <2>1, Zenon DEF WorkerCheck
      <3>1. woff' = 0
        BY <1>3, <1>4, <3>0
      <3>2. wpc' = "load" /\ ~crashed'
        BY <1>4, <2>1 DEF WorkerCheck, TouchInv
      <3> QED
        BY <3>1, <3>2
    <2>2. CASE WorkerLoad
      BY <1>3, <1>4, <2>2, Zenon DEF WorkerLoad
    <2> QED
      BY <2>1, <2>2
  <1>6. \A c \in Callers : c = wreq
    BY <1>2 DEF OneCaller
  <1>7. FindPeer(req[wreq].xfer.peer_id)' = FindPeer(req[wreq].xfer.peer_id)
    BY <1>1 DEF FindPeer, Matches
  <1> QED
    BY <1>1, <1>2, <1>3, <1>5, <1>6, <1>7 DEF TouchInv, Busy

(* Marking a request as moved touches nothing else. *)
LEMMA MovedFields ==
    ASSUME NEW q
    PROVE  /\ Moved(q).xfer = q.xfer /\ Moved(q).remote = q.remote /\ Moved(q).done = q.done
  BY DEF Moved, Rewrite

(* The other steps of the worker, and the device. *)
LEMMA TouchRest ==
    ASSUME OneCaller, QueueInv, TouchInv,
           \/ WorkerExit \/ WorkerCopy \/ WorkerPost \/ WorkerPoll \/ WorkerGiveUp
           \/ WorkerFinish \/ WorkerLog \/ DeviceStep
    PROVE  TouchInv'
  <1>0. DOMAIN req = Callers
    BY DEF QueueInv, TypeOK
  <1>1. CASE WorkerFinish
    <2>1. wreq \in Callers
      BY <1>1 DEF WorkerFinish, QueueInv, Control, Busy
    <2>2. \A c \in Callers : req'[c].done
      BY <1>0, <1>1, <2>1 DEF WorkerFinish, Complete, Rewrite, OneCaller
    <2>3. UNCHANGED crashed
      BY <1>1 DEF WorkerFinish
    <2> QED
      BY <2>2, <2>3 DEF TouchInv
  <1>2. CASE WorkerLog
    <2>1. wpc = "log" /\ wpc' = "wait" /\ UNCHANGED <<req, enabled, peers, pc, crashed>>
      BY <1>2 DEF WorkerLog, callerVars, tableVars
    <2>2. ASSUME NEW c \in Callers, pc'[c] = "wait", ~req'[c].done
          PROVE  ValidateXfer(req[c].xfer, req[c].remote)' = "OK" /\ req'[c].xfer \in Xfers
      <3>1. ValidateXfer(req[c].xfer, req[c].remote) = "OK" /\ req[c].xfer \in Xfers
        BY <2>1, <2>2 DEF TouchInv, Busy
      <3> QED
        BY <2>1, <3>1 DEF ValidateXfer, FindPeer, Matches, InSegment, RangeOk, Aligned
    <2> QED
      BY <2>1, <2>2 DEF TouchInv
  <1>3. CASE WorkerExit \/ WorkerPost \/ WorkerPoll \/ WorkerGiveUp
    <2>1. /\ UNCHANGED <<enabled, peers, pc, crashed, req, wslot, woff, wbuf>>
          /\ (Busy => Busy') /\ wpc' \notin {"exec", "load", "copy"}
      <3>1. CASE WorkerExit
        BY <3>1 DEF WorkerExit, callerVars, tableVars, Busy
      <3>2. CASE WorkerPost
        BY <3>2 DEF WorkerPost, callerVars, tableVars, Busy
      <3>3. CASE WorkerPoll \/ WorkerGiveUp
        BY <3>3 DEF WorkerPoll, WorkerGiveUp, callerVars, tableVars, Busy
      <3> QED
        BY <1>3, <3>1, <3>2, <3>3
    <2> QED
      BY <2>1, TouchFrame
  <1>4. CASE WorkerCopy
    <2>1. /\ UNCHANGED <<enabled, peers, pc, crashed, wslot, woff, wbuf>>
          /\ (Busy => Busy') /\ wpc' \notin {"exec", "load", "copy"}
      BY <1>4 DEF WorkerCopy, tableVars, Busy
    <2>2. ASSUME NEW c \in Callers PROVE req'[c] = req[c] \/ req'[c] = Moved(req[c])
      BY <1>0, <1>4 DEF WorkerCopy
    <2>3. \A c \in Callers : /\ req'[c].xfer = req[c].xfer /\ req'[c].remote = req[c].remote
                             /\ ~req'[c].done => ~req[c].done
      BY <2>2, MovedFields
    <2> QED
      BY <2>1, <2>3, TouchFrame
  <1>5. CASE DeviceStep
    <2>1. UNCHANGED <<enabled, peers, pc, crashed, wpc, wslot, woff, wbuf>>
      BY <1>5 DEF DeviceStep, DeviceComplete, tableVars, workerVars
    <2>2. ASSUME NEW c \in Callers PROVE req'[c] = req[c] \/ req'[c] = Moved(req[c])
      BY <1>5 DEF DeviceStep, DeviceComplete
    <2>3. \A c \in Callers : /\ req'[c].xfer = req[c].xfer /\ req'[c].remote = req[c].remote
                             /\ ~req'[c].done => ~req[c].done
      BY <2>2, MovedFields
    <2> QED
      BY <2>1, <2>3, TouchFrame DEF Busy
  <1> QED
    BY <1>1, <1>2, <1>3, <1>4, <1>5

(* The invariant of one caller. *)
LEMMA TouchInvariant == OneCaller => (Spec => []TouchInv)
  <1> SUFFICES ASSUME OneCaller PROVE Spec => []TouchInv
    OBVIOUS
  <1>1. Init => TouchInv
    BY DEF Init, TouchInv
  <1>2. ASSUME QueueInv, SizeInv, TouchInv, [Next]_vars
        PROVE  TouchInv'
    <2>1. CASE MainStep
      <3>1. UNCHANGED <<crashed, pc>> /\ \A c \in Callers : pc[c] = "idle"
        BY <1>2, <2>1 DEF MainStep, MgrInit, MgrStop, MgrDestroy, callerVars, QueueInv, Control
      <3> QED
        BY <1>2, <3>1, TouchIdle
    <2>2. ASSUME NEW c \in Callers, CallerBegins(c) \/ CallerContinues(c)
          PROVE  TouchInv'
      <3>1. CASE \E x \in Xfers : TransferEnqueue(c, x)
        BY <1>2, <3>1, TouchEnqueue
      <3>2. CASE ~\E x \in Xfers : TransferEnqueue(c, x)
        <4>1. UNCHANGED crashed /\ pc'[c] # "wait"
          BY <1>2, <2>2, <3>2 DEF CallerBegins, CallerContinues, Enable, Disable, ConnectBegin,
             ConnectInstall, ConnectRefuse, Disconnect, ReleaseHeld, TransferReturn, callerVars,
             QueueInv, TypeOK
        <4> QED
          BY <1>2, <4>1, TouchIdle DEF OneCaller
      <3> QED
        BY <3>1, <3>2
    <2>3. CASE WorkerStep \/ DeviceStep
      BY <1>2, <2>3, TouchDequeue, TouchExec, TouchRest DEF WorkerStep
    <2>4. CASE UNCHANGED vars
      BY <1>2, <2>4, TouchFrame DEF vars, tableVars, callerVars, workerVars, Busy
    <2> QED
      BY <1>2, <2>1, <2>2, <2>3, <2>4 DEF Next
  <1> QED
    BY <1>1, <1>2, QueueInvariant, SizeInvariant, PTL DEF Spec

(* As long as one thread at a time uses the API, the slot the worker points  *)
(* to while it runs a transfer outside the lock stays the request's peer,    *)
(* and the bytes it touches are inside memory that is allocated              *)
(* (TransferTouchesLivePeer), for any table, ring, segments and provider.    *)
THEOREM OneCallerTouchesLivePeer == OneCaller => (Spec => []TransferTouchesLivePeer)
  <1>1. QueueInv /\ SizeInv /\ TouchInv => TransferTouchesLivePeer
    <2> SUFFICES ASSUME QueueInv, SizeInv, TouchInv, wpc \in {"exec", "load", "copy"}
                 PROVE  /\ wslot \in Slots /\ peers[wslot].active
                        /\ peers[wslot].peer_id = req[wreq].xfer.peer_id
                        /\ wpc = "copy" =>
                             /\ wbuf # {}
                             /\ \A h \in wbuf : /\ 0 <= woff
                                                /\ woff + req[wreq].xfer.length <= size[h]
      BY DEF TransferTouchesLivePeer
    <2>1. wreq \in Callers /\ pc[wreq] = "wait" /\ ~req[wreq].done
      BY DEF QueueInv, Control, QueueFIFO, Busy
    <2>2. /\ wslot \in FindPeer(req[wreq].xfer.peer_id) /\ req[wreq].xfer \in Xfers
          /\ req[wreq].xfer.length <= peers[wslot].seg_len
          /\ wpc = "copy" => woff = 0 /\ wbuf = peers[wslot].res
      BY <2>1 DEF TouchInv
    <2>3. wslot \in Slots /\ peers[wslot].active /\ peers[wslot].peer_id = req[wreq].xfer.peer_id
      BY <2>2 DEF FindPeer, Matches
    <2>4. peers[wslot].res # {} /\ \A h \in peers[wslot].res : size[h] = peers[wslot].seg_len
      BY <2>3 DEF SizeInv, Sized
    <2>5. req[wreq].xfer.length \in Nat /\ peers[wslot].seg_len \in Nat
      BY <2>2, <2>3, Inputs DEF QueueInv, TypeOK, PeerRecords
    <2>6. ASSUME wpc = "copy", NEW h \in wbuf
          PROVE  0 <= woff /\ woff + req[wreq].xfer.length <= size[h]
      BY <2>2, <2>4, <2>5, <2>6
    <2> QED
      BY <2>2, <2>3, <2>4, <2>6
  <1> QED
    BY <1>1, TouchInvariant, QueueInvariant, SizeInvariant, PTL

(* ... and the process never follows a pointer that is not one: the worker's *)
(* revalidation, whose verdict it overrides by using the pointer anyway,     *)
(* never fails.                                                              *)
THEOREM OneCallerNeverCrashes == OneCaller => (Spec => []~crashed)
  <1>1. TouchInv => ~crashed
    BY DEF TouchInv
  <1> QED
    BY <1>1, TouchInvariant, PTL
=============================================================================
