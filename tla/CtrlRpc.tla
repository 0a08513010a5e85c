------------------------------ MODULE CtrlRpc -------------------------------
(***************************************************************************)
(* The control client library against the control thread of the daemon.    *)
(* A call is a connection of its own; header, payload, response and        *)
(* response data are separate writes and reads on it.  Processes and the   *)
(* daemon may be killed between any two of them.                           *)
(*                                                                         *)
(* Clients run business_client_example (Examples) or ramdiskctl, or call   *)
(* ramdisk_ctrl_transact themselves.                                       *)
(***************************************************************************)
EXTENDS CtrlTable, UrmaProvider

CONSTANTS
    Clients,        \* processes
    Examples,       \* those that run the example; its peer id is the process
    CtlRequests,    \* requests of the others
    Slots,          \* connections that may exist together
    MaxRuns,        \* times an example is started
    Kills           \* may processes be killed

VARIABLES
    \* each client: where it is in ramdisk_ctrl_transact, the call of the
    \* example's main it has reached, how often it was started, its connection,
    \* and what it holds of the URMA library
    pc, step, runs, slot, own,
    conn,           \* the connections
    \* the daemon: is it there, its table, and the control thread: pending
    \* connections, the one served, hdr and payload
    alive, table, backlog, spc, cur, hdr, payload

client == <<pc, step, runs, slot, own>>
server == <<spc, cur, hdr, payload>>
daemon == <<alive, table, backlog, server>>
vars == <<client, conn, daemon>>

InCall(c) == pc[c] \in {"hdr", "payload", "resp", "data", "close"}

Arg(i, seg) == [id |-> i, seg |-> seg]

\* The calls of the example's main, in order.
Script == <<"status", "enable", "connect", "transfer", "transfer", "status">>

\* The segment of an example is the one of its current run.
Segment(c) == <<c, runs[c]>>

ExampleRequest(c) ==
    [op |-> Script[step[c]],
     arg |-> IF HasPayload(Script[step[c]]) THEN Arg(c, Segment(c)) ELSE NULL]

Requests == CtlRequests \cup
    [op : {Script[i] : i \in DOMAIN Script},
     arg : {NULL} \cup [id : Examples, seg : Examples \X (1 .. MaxRuns)]]

\* What payload can hold: 0 in place of a run stands for bytes nobody sent.
Args == {r.arg : r \in Requests} \cup {NULL} \cup {Arg(i, <<i, 0>>) : i \in Ids}

\* What the daemon answers, what a caller may be told, and the bytes on their
\* way to the daemon.
Codes == {"OK", "EIO", "EINVAL", "EOPNOTSUPP", "EEXIST", "ENOENT", "ENODEV"}
Told == Codes \cup {"waiting", "failed", "gone"}
Bytes == Seq(Ops) \cup Seq(Args) \cup (Ops \X Args)

Conns ==
    [req : Requests, up : Bytes, down : Seq(Codes), cend : BOOLEAN, send : BOOLEAN,
     ran : Codes \cup {"lost", NULL}, told : Told]

Calls == [req : Requests, ran : Codes \cup {"lost", NULL}, told : Told]

ASSUME CtrlConstants ==
    /\ Examples \subseteq Clients /\ Examples \subseteq Ids
    /\ MaxRuns \in Nat
    /\ \A r \in CtlRequests : r = [op |-> r.op, arg |-> r.arg] /\ r.op \in Ops
    /\ NULL \notin Slots /\ NULL \notin Codes \cup {"lost"}
    /\ NULL \notin Conns /\ NULL \notin Calls

-----------------------------------------------------------------------------
(* Connections.  up and down are the bytes on their way; cend and send say  *)
(* whether the client's and the daemon's end are open.  ran and told record *)
(* what the request ran to and what its caller was told.                    *)

NewConn(r) ==
    [req |-> r, up |-> <<>>, down |-> <<>>, cend |-> TRUE, send |-> TRUE,
     ran |-> NULL, told |-> "waiting"]

\* A connection is gone once both ends are closed.
ClientCloses(k, told) ==
    IF conn[k].send THEN [conn[k] EXCEPT !.cend = FALSE, !.told = told] ELSE NULL

KeepsOpen(k) == conn[k]

ServerCloses(k) ==
    IF conn[k].cend THEN [conn[k] EXCEPT !.send = FALSE, !.up = <<>>] ELSE NULL

-----------------------------------------------------------------------------
(* The client.                                                              *)

\* main of the example: create_business_urma and fill_peer_from_urma.  When a
\* part of the creation fails main returns.
StartExample(c) ==
    /\ c \in Examples /\ pc[c] = "off" /\ runs[c] < MaxRuns
    /\ \/ /\ pc' = [pc EXCEPT ![c] = "ready"]
          /\ step' = [step EXCEPT ![c] = 1]
          /\ runs' = [runs EXCEPT ![c] = @ + 1]
          /\ own' = [own EXCEPT ![c] = Provided("example")]
       \/ /\ \E i \in DOMAIN Parts("example") :
               own' = [own EXCEPT ![c] = LeftAfter("example", i)]
          /\ UNCHANGED <<pc, step, runs>>
    /\ UNCHANGED <<slot, conn, daemon>>

\* What main does with a status: the example goes on after OK, and after
\* EEXIST of its connect; otherwise it destroys its URMA resources and ends,
\* as ramdiskctl does after its one call.
Proceeds(c, rc) ==
    LET on == /\ c \in Examples /\ step[c] < Len(Script)
              /\ rc = "OK" \/ (rc = "EEXIST" /\ Script[step[c]] = "connect")
    IN  /\ pc' = [pc EXCEPT ![c] = IF on THEN "ready" ELSE "off"]
        /\ step' = [step EXCEPT ![c] = IF on THEN @ + 1 ELSE 0]
        /\ slot' = [slot EXCEPT ![c] = NULL]
        /\ own' = [own EXCEPT ![c] = IF on THEN @ ELSE @ \ Range(DestroyOrder("example"))]
        /\ UNCHANGED runs

Connect(c) ==
    /\ pc[c] = IF c \in Examples THEN "ready" ELSE "off"
    /\ alive
    /\ \E r \in IF c \in Examples THEN {ExampleRequest(c)} ELSE CtlRequests :
       \E k \in Slots :
         /\ conn[k] = NULL /\ \A j \in Slots : j < k => conn[j] # NULL
         /\ conn' = [conn EXCEPT ![k] = NewConn(r)]
         /\ slot' = [slot EXCEPT ![c] = k]
         /\ backlog' = Append(backlog, k)
    /\ pc' = [pc EXCEPT ![c] = "hdr"]
    /\ UNCHANGED <<step, runs, own, alive, table, server>>

\* connect() fails: nobody listens.
ConnectRefused(c) ==
    /\ c \in Examples /\ pc[c] = "ready"
    /\ ~alive
    /\ Proceeds(c, "ECONNREFUSED")
    /\ UNCHANGED <<conn, daemon>>

\* The process ends; the system closes its socket and frees its resources.
Ends(c) ==
    /\ pc' = [pc EXCEPT ![c] = "off"]
    /\ step' = [step EXCEPT ![c] = 0]
    /\ slot' = [slot EXCEPT ![c] = NULL]
    /\ own' = [own EXCEPT ![c] = {}]
    /\ conn' = IF slot[c] = NULL THEN conn
               ELSE [conn EXCEPT ![slot[c]] =
                      ClientCloses(slot[c], IF @.told = "waiting" THEN "gone" ELSE @.told)]
    /\ UNCHANGED <<runs, daemon>>

\* write_full to an end that is closed: the process has no handler for SIGPIPE.
Send(c, item, next) ==
    LET k == slot[c]
    IN  IF ~conn[k].send THEN Ends(c)
        ELSE /\ conn' = [conn EXCEPT ![k].up = Append(@, item)]
             /\ pc' = [pc EXCEPT ![c] = next]
             /\ UNCHANGED <<step, runs, slot, own, daemon>>

SendHdr(c) ==
    /\ pc[c] = "hdr"
    /\ LET op == conn[slot[c]].req.op
       IN  Send(c, op, IF HasPayload(op) THEN "payload" ELSE "resp")

SendPayload(c) ==
    /\ pc[c] = "payload"
    /\ Send(c, conn[slot[c]].req.arg, "resp")

\* goto out with a status.
Out(c, k, told) ==
    /\ conn' = [conn EXCEPT ![k].told = told]
    /\ pc' = [pc EXCEPT ![c] = "close"]

\* read_full of the response: EOF is EPIPE.  Data without a buffer is ENOSPC.
RecvResp(c) ==
    /\ pc[c] = "resp"
    /\ LET k == slot[c]
       IN  \/ /\ conn[k].down # <<>>
              /\ CASE conn[k].req.op = "status" ->
                        /\ conn' = [conn EXCEPT ![k].down = Tail(@)]
                        /\ pc' = [pc EXCEPT ![c] = "data"]
                   [] conn[k].req.op = "query" -> Out(c, k, "failed")
                   [] OTHER -> Out(c, k, Head(conn[k].down))
           \/ conn[k].down = <<>> /\ ~conn[k].send /\ Out(c, k, "failed")
    /\ UNCHANGED <<step, runs, slot, own, daemon>>

\* read_full of the data, then rc = resp.status.
RecvData(c) ==
    /\ pc[c] = "data"
    /\ LET k == slot[c]
       IN  \/ conn[k].down # <<>> /\ Out(c, k, Head(conn[k].down))
           \/ conn[k].down = <<>> /\ ~conn[k].send /\ Out(c, k, "failed")
    /\ UNCHANGED <<step, runs, slot, own, daemon>>

\* close(fd), and the call returns.
Close(c) ==
    /\ pc[c] = "close"
    /\ LET k == slot[c]
       IN  /\ Proceeds(c, conn[k].told)
           /\ conn' = [conn EXCEPT ![k] = ClientCloses(k, @.told)]
    /\ UNCHANGED daemon

Kill(c) ==
    /\ Kills
    /\ pc[c] # "off"
    /\ Ends(c)

-----------------------------------------------------------------------------
(* The daemon.                                                              *)

Dies ==
    /\ alive' = FALSE
    /\ table' = EmptyTable
    /\ backlog' = <<>>
    /\ spc' = "accept" /\ cur' = NULL /\ hdr' = NULL /\ payload' = NULL
    /\ conn' = [k \in Slots |->
                  IF conn[k] = NULL \/ ~conn[k].cend THEN NULL
                  ELSE [conn[k] EXCEPT !.send = FALSE, !.up = <<>>,
                                       !.ran = IF @ = NULL THEN "lost" ELSE @]]
    /\ UNCHANGED client

DaemonKilled ==
    /\ Kills /\ alive
    /\ Dies

DaemonStarts ==
    /\ ~alive
    /\ alive' = TRUE
    /\ UNCHANGED <<client, conn, table, backlog, server>>

\* ctrl_server_main takes the next connection; its client may have left.
Accept ==
    /\ alive /\ spc = "accept" /\ backlog # <<>>
    /\ cur' = Head(backlog)
    /\ backlog' = Tail(backlog)
    /\ spc' = "hdr"
    /\ UNCHANGED <<client, conn, alive, table, hdr, payload>>

\* serve_client returns, and ctrl_server_main closes the connection.
CloseClient ==
    /\ conn' = [conn EXCEPT ![cur] = ServerCloses(cur)]
    /\ spc' = "accept" /\ cur' = NULL /\ hdr' = NULL
    /\ UNCHANGED <<client, alive, table, backlog, payload>>

AtEOF == conn[cur].up = <<>> /\ ~conn[cur].cend

ReadHdrOnly ==
    /\ alive /\ spc = "hdr"
    /\ conn[cur].up # <<>>
    /\ hdr' = Head(conn[cur].up)
    /\ conn' = [conn EXCEPT ![cur].up = Tail(@)]
    /\ spc' = IF HasPayload(hdr') /\ hdr' # "huge" THEN "payload" ELSE "run"
    /\ UNCHANGED <<client, alive, table, backlog, cur, payload>>

\* The header is read; a payload follows unless the header is refused.
ReadHdr ==
    /\ alive /\ spc = "hdr"
    /\ \/ AtEOF /\ CloseClient
       \/ /\ conn[cur].up # <<>>
          /\ hdr' = Head(conn[cur].up)
          /\ conn' = [conn EXCEPT ![cur].up = Tail(@)]
          /\ spc' = IF HasPayload(hdr') /\ hdr' # "huge" THEN "payload" ELSE "run"
          /\ UNCHANGED <<client, alive, table, backlog, cur, payload>>

DropPayload ==
    /\ alive /\ spc = "payload"
    /\ conn[cur].up # <<>>
    /\ conn' = [conn EXCEPT ![cur].up = Tail(@)]
    /\ spc' = "run"
    /\ UNCHANGED <<client, alive, table, backlog, cur, hdr, payload>>

\* read_full returns 0 at EOF before the first byte, which is no error here:
\* the request is handled with whatever the stack holds.
ReadPayload ==
    /\ alive /\ spc = "payload"
    /\ \/ AtEOF /\ payload' \in Args /\ UNCHANGED conn
       \/ /\ conn[cur].up # <<>>
          /\ payload' = Head(conn[cur].up)
          /\ conn' = [conn EXCEPT ![cur].up = Tail(@)]
    /\ spc' = "run"
    /\ UNCHANGED <<client, alive, table, backlog, cur, hdr>>

\* handle_request up to its response; payload ends with the turn of the loop.
Handle ==
    /\ alive /\ spc = "run"
    /\ \E o \in Outcomes(hdr, payload, table) :
         /\ table' = o.table
         /\ conn' = [conn EXCEPT ![cur].ran = o.rc]
    /\ spc' = "resp"
    /\ payload' = NULL
    /\ UNCHANGED <<client, alive, backlog, cur, hdr>>

\* send_response.  A write to a client that has left raises SIGPIPE.
Respond ==
    /\ alive /\ spc = "resp"
    /\ IF ~conn[cur].cend THEN Dies
       ELSE /\ conn' = [conn EXCEPT ![cur].down = Append(@, conn[cur].ran)]
            /\ spc' = IF HasData(hdr) THEN "data" ELSE IF hdr = "huge" THEN "close" ELSE "hdr"
            /\ UNCHANGED <<client, alive, table, backlog, cur, hdr, payload>>

RespondData ==
    /\ alive /\ spc = "data"
    /\ IF ~conn[cur].cend THEN Dies
       ELSE /\ conn' = [conn EXCEPT ![cur].down = Append(@, conn[cur].ran)]
            /\ spc' = "hdr"
            /\ UNCHANGED <<client, alive, table, backlog, cur, hdr, payload>>

\* After the response to a header that is refused, serve_client returns.
Refused ==
    /\ alive /\ spc = "close"
    /\ CloseClient

-----------------------------------------------------------------------------
Init ==
    /\ pc = [c \in Clients |-> "off"] /\ step = [c \in Clients |-> 0]
    /\ runs = [c \in Clients |-> 0] /\ slot = [c \in Clients |-> NULL]
    /\ own = [c \in Clients |-> {}]
    /\ conn = [k \in Slots |-> NULL]
    /\ alive = TRUE /\ table = EmptyTable /\ backlog = <<>>
    /\ spc = "accept" /\ cur = NULL /\ hdr = NULL /\ payload = NULL

InTransact(c) == SendHdr(c) \/ SendPayload(c) \/ RecvResp(c) \/ RecvData(c) \/ Close(c)

Serve == Accept \/ ReadHdr \/ ReadPayload \/ Handle \/ Respond \/ RespondData \/ Refused

Next ==
    \/ \E c \in Clients : StartExample(c) \/ Connect(c) \/ ConnectRefused(c)
                          \/ InTransact(c) \/ Kill(c)
    \/ Serve \/ DaemonKilled \/ DaemonStarts

Spec == Init /\ [][Next]_vars

\* Who is inside a call goes on, and so does the control thread.  Nobody has to
\* start a call, a process or the daemon.
FairSpec ==
    /\ Spec
    /\ \A c \in Clients : WF_vars(InTransact(c))
    /\ WF_vars(Serve)

-----------------------------------------------------------------------------
\* Every variable has its type, and connections, clients and the control
\* thread agree about each other: a client inside a call has an open
\* connection of its own, and what is pending or served is open for the daemon.
TypeOK ==
    /\ pc \in [Clients -> {"off", "ready", "hdr", "payload", "resp", "data", "close"}]
    /\ step \in [Clients -> 0 .. Len(Script)]
    /\ runs \in [Clients -> 0 .. MaxRuns]
    /\ \A c \in Clients :
         /\ InCall(c) <=> slot[c] # NULL
         /\ InCall(c) => conn[slot[c]] # NULL /\ conn[slot[c]].cend
         /\ \A d \in Clients \ {c} : slot[c] # NULL => slot[d] # slot[c]
    /\ \A k \in Slots : conn[k] # NULL =>
         /\ conn[k].req \in Requests
         /\ Len(conn[k].up) <= 2 /\ Len(conn[k].down) <= 2
         /\ conn[k].cend <=> \E c \in Clients : slot[c] = k
         /\ conn[k].send <=> k = cur \/ \E i \in DOMAIN backlog : backlog[i] = k
    /\ spc \in {"accept", "hdr", "payload", "run", "resp", "data", "close"}
    /\ payload \in Args
    /\ spc = "accept" <=> cur = NULL

\* What is recorded of the call on a connection.
CallOn(r) == IF r = NULL THEN NULL ELSE [req |-> r.req, ran |-> r.ran, told |-> r.told]

CallsMade == [k \in Slots |-> CallOn(conn[k])]

Service == INSTANCE CtrlService WITH call <- CallsMade

\* The library and the control thread implement CtrlService: whatever is cut,
\* killed or restarted, a call that returns 0 was carried out exactly once and
\* with its own arguments, although ramdisk_ctrl_transact compares neither
\* opcode nor request_id of the response, and a call that has returned an
\* error is not carried out later.
ImplementsService == Service!Spec

\* Every connection is closed by both sides in the end: ramdisk_ctrl_transact
\* returns on each of its paths, and serve_client leaves every client it was
\* given, so that a client that dies does not hold up the ones behind it.
ConnectionsEnd == \A k \in Slots : conn[k] # NULL ~> conn[k] = NULL

\* A process that is not running has given back all it acquired, wherever
\* create_business_urma failed and at whichever call main gave up; one that
\* talks to the daemon has all of its endpoint.
EndpointComplete ==
    \A c \in Clients :
      own[c] = IF c \in Examples /\ pc[c] # "off" THEN Provided("example") ELSE {}
=============================================================================
