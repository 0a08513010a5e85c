--------------------------- MODULE CtrlRpcProofs ----------------------------
(***************************************************************************)
(* The control client and the control thread implement CtrlService, for    *)
(* any number of clients, connections and requests, and any kills and      *)
(* restarts.                                                               *)
(***************************************************************************)
EXTENDS CtrlRpc, TLAPS

\* Where the client of connection k is, for connections s and places p of the
\* clients, and where the daemon is with it.
AtOf(s, p, k) ==
    IF \E c \in Clients : s[c] = k THEN p[CHOOSE c \in Clients : s[c] = k] ELSE "gone"

Queued(b) == {b[i] : i \in DOMAIN b}

PosOf(cu, sp, b, k) == IF k = cu THEN sp ELSE IF k \in Queued(b) THEN "queued" ELSE "closed"

At(k) == AtOf(slot, pc, k)
Pos(k) == PosOf(cur, spc, backlog, k)

(***************************************************************************)
(* What is on its way to the daemon: nothing of the request has been read, *)
(* the header has, or all.                                                 *)
(***************************************************************************)
Full(q) == IF HasPayload(q.op) THEN <<q.op, q.arg>> ELSE <<q.op>>

Unread(r, at) ==
    /\ at = "hdr" => r.up = <<>>
    /\ at = "payload" => r.up = <<r.req.op>>
    /\ at \in {"resp", "data", "close"} => r.up = Full(r.req)
    /\ at = "gone" => r.up \in {<<>>, <<r.req.op>>, Full(r.req)}

HdrRead(r, at) ==
    /\ HasPayload(r.req.op) /\ at # "hdr"
    /\ at = "payload" => r.up = <<>>
    /\ at \in {"resp", "data", "close"} => r.up = <<r.req.arg>>
    /\ at = "gone" => r.up \in {<<>>, <<r.req.arg>>}

AllRead(r, at) == r.up = <<>> /\ at \notin {"hdr", "payload"}

\* What is left of the request once the daemon has decided to run it.
Rest(r, at) == IF r.req.op = "huge" THEN HdrRead(r, at) ELSE AllRead(r, at)

(***************************************************************************)
(* One connection: what its two ends and its records say of each other.    *)
(***************************************************************************)
ClientSide(r, at) ==
    /\ at = "gone" <=> ~r.cend
    /\ r.told = "waiting" <=> at \in {"hdr", "payload", "resp", "data"}
    /\ at \in {"hdr", "payload", "resp", "data", "close", "gone"}
    /\ at = "payload" => HasPayload(r.req.op)
    /\ at = "data" => r.req.op = "status"

Answer(r) ==
    /\ r.ran = NULL => r.told \in {"waiting", "gone"} /\ r.down = <<>> /\ r.send
    /\ Len(r.down) <= 2
    /\ \A i \in DOMAIN r.down : r.down[i] = r.ran

ServerSide(r, at, pos, h, p) ==
    /\ pos = "closed" <=> ~r.send
    /\ pos = "closed" => r.up = <<>>
    /\ pos = "queued" => r.ran = NULL /\ Unread(r, at)
    /\ pos = "hdr" => IF r.ran = NULL THEN Unread(r, at) ELSE AllRead(r, at)
    /\ pos = "payload" =>
         r.ran = NULL /\ h = r.req.op /\ h # "huge" /\ HdrRead(r, at)
    /\ pos = "run" =>
         /\ r.ran = NULL /\ h = r.req.op /\ Rest(r, at)
         /\ HasPayload(h) /\ h # "huge" /\ r.told = "waiting" => p = r.req.arg
    /\ pos = "resp" => r.ran \in Codes /\ h = r.req.op /\ r.down = <<>> /\ Rest(r, at)
    /\ pos = "data" =>
         r.ran \in Codes /\ Len(r.down) <= 1 /\ HasData(r.req.op) /\ AllRead(r, at)
    /\ pos = "close" => r.ran \in Codes /\ r.req.op = "huge" /\ Rest(r, at)
    /\ pos \in {"queued", "hdr", "payload", "run", "resp", "data", "close", "closed"}

Good(r, at, pos, h, p) == ClientSide(r, at) /\ Answer(r) /\ ServerSide(r, at, pos, h, p)

ConnInv == \A k \in Slots : conn[k] # NULL => Good(conn[k], At(k), Pos(k), hdr, payload)

Links ==
    /\ \A c \in Clients : InCall(c) <=> slot[c] # NULL
    /\ \A c, d \in Clients : slot[c] # NULL /\ slot[c] = slot[d] => c = d
    /\ \A c \in Clients : slot[c] # NULL => conn[slot[c]] # NULL
    /\ cur # NULL => conn[cur] # NULL /\ cur \notin Queued(backlog)
    /\ \A k \in Queued(backlog) : conn[k] # NULL
    /\ \A i, j \in DOMAIN backlog : backlog[i] = backlog[j] => i = j
    /\ spc = "accept" <=> cur = NULL
    /\ ~alive => cur = NULL /\ backlog = <<>>
    /\ spc # "run" => payload = NULL

Places == {"off", "ready", "hdr", "payload", "resp", "data", "close"}

Types ==
    /\ slot \in [Clients -> Slots \cup {NULL}]
    /\ pc \in [Clients -> Places]
    /\ conn \in [Slots -> Conns \cup {NULL}]
    /\ backlog \in Seq(Slots)
    /\ spc \in {"accept", "hdr", "payload", "run", "resp", "data", "close"}
    /\ cur \in Slots \cup {NULL}
    /\ payload \in Args

Inv == Types /\ Links /\ ConnInv

(***************************************************************************)
(* The processes by themselves.                                            *)
(***************************************************************************)
ProcInv ==
    /\ pc \in [Clients -> Places]
    /\ step \in [Clients -> 0 .. 6]
    /\ runs \in [Clients -> 0 .. MaxRuns]
    /\ own \in [Clients -> SUBSET Provided("example")]
    /\ \A c \in Clients : pc[c] # "off" =>
         IF c \in Examples THEN step[c] # 0 /\ runs[c] # 0 ELSE pc[c] # "ready"
    /\ EndpointComplete

-----------------------------------------------------------------------------
(* What the example holds of the URMA library.                              *)

\* What create_business_urma acquires, part by part.
LEMMA EndpointParts ==
    /\ DOMAIN Parts("example") = 1 .. 9
    /\ Parts("example")[1] = "init" /\ Parts("example")[2] = "device"
    /\ Parts("example")[3] = "ctx" /\ Parts("example")[4] = "jfce"
    /\ Parts("example")[5] = "jfc" /\ Parts("example")[6] = "jfr"
    /\ Parts("example")[7] = "jetty" /\ Parts("example")[8] = "buf"
    /\ Parts("example")[9] = "seg"
<1>1. Parts("example")
        = <<"init", "device", "ctx", "jfce", "jfc", "jfr", "jetty">> \o <<"buf", "seg">>
  BY DEF Parts
<1> QED
  BY <1>1

\* destroy_business_urma gives back all that create_business_urma acquired.
LEMMA DestroyedIsNothing ==
    ASSUME NEW o \in SUBSET Provided("example")
    PROVE  o \ Range(DestroyOrder("example")) = {}
<1> DEFINE d == DestroyOrder("example")
<1>1. /\ DOMAIN d = 1 .. 8
      /\ d[1] = "seg" /\ d[2] = "jetty" /\ d[3] = "jfr" /\ d[4] = "jfc" /\ d[5] = "jfce"
      /\ d[6] = "buf" /\ d[7] = "ctx" /\ d[8] = "init"
  <2>1. d = <<"seg", "jetty", "jfr", "jfc", "jfce">> \o <<"buf">> \o <<"ctx", "init">>
    BY DEF DestroyOrder
  <2> QED
    BY <2>1
<1>2. Range(Parts("example"))
        = {"init", "device", "ctx", "jfce", "jfc", "jfr", "jetty", "buf", "seg"}
  BY EndpointParts DEF Range
<1> HIDE DEF d
<1>3. Range(d) = {"seg", "jetty", "jfr", "jfc", "jfce", "buf", "ctx", "init"}
  BY <1>1 DEF Range
<1> QED
  BY <1>2, <1>3 DEF Provided, d

\* Whichever part of create_business_urma fails, its error labels release all
\* the parts before it.
LEMMA FailedCreateLeavesNothing ==
    ASSUME NEW i \in DOMAIN Parts("example")
    PROVE  LeftAfter("example", i) = {}
<1> DEFINE p == Parts("example")
           labels == FailLabels("example")
           run == LabelsRun("example", p[i])
<1>1. /\ Len(labels) = 7
      /\ labels[1] = "buf" /\ labels[2] = "jetty" /\ labels[3] = "jfr" /\ labels[4] = "jfc"
      /\ labels[5] = "jfce" /\ labels[6] = "ctx" /\ labels[7] = "init"
  <2>1. labels = <<"buf">> \o <<"jetty", "jfr", "jfc", "jfce", "ctx", "init">>
    BY DEF FailLabels
  <2> QED
    BY <2>1
<1>2. i \in 1 .. 9
  BY EndpointParts
<1>3. run = IF i = 1 THEN 0 ELSE IF i = 2 THEN 1 ELSE i - 2
  BY <1>2, EndpointParts DEF LabelsRun
<1>4. ASSUME NEW j \in 1 .. i - 1, p[j] # "device"
      PROVE  \E k \in Len(labels) - run + 1 .. Len(labels) : p[j] = labels[k]
  <2> DEFINE k == IF j = 1 THEN 7 ELSE 9 - j
  <2>1. j # 2
    BY <1>4, EndpointParts
  <2>2. p[j] = labels[k]
    BY <1>1, <1>2, <2>1, EndpointParts
  <2> HIDE DEF p, labels, run
  <2>3. k \in Len(labels) - run + 1 .. Len(labels)
    BY <1>1, <1>2, <1>3, <2>1
  <2> QED
    BY <2>2, <2>3
<1> QED
  BY <1>4 DEF LeftAfter

\* A process that ends has given back all.
LEMMA ProcEnds ==
    ASSUME ProcInv, NEW c \in Clients, Ends(c)
    PROVE  ProcInv'
<1>1. /\ pc' = [pc EXCEPT ![c] = "off"] /\ step' = [step EXCEPT ![c] = 0]
      /\ own' = [own EXCEPT ![c] = {}] /\ runs' = runs
  BY DEF Ends
<1>2. /\ pc' \in [Clients -> Places] /\ step' \in [Clients -> 0 .. 6]
      /\ runs' \in [Clients -> 0 .. MaxRuns]
      /\ own' \in [Clients -> SUBSET Provided("example")]
  BY <1>1 DEF ProcInv, Places
<1>3. \A d \in Clients : pc'[d] # "off" =>
        IF d \in Examples THEN step'[d] # 0 /\ runs'[d] # 0 ELSE pc'[d] # "ready"
  BY <1>1 DEF ProcInv
<1>4. EndpointComplete'
  BY Zenon, <1>1 DEF ProcInv, EndpointComplete
<1> QED
  BY <1>2, <1>3, <1>4 DEF ProcInv

\* main goes on with its endpoint, or destroys it.
LEMMA ProcProceeds ==
    ASSUME ProcInv, NEW c \in Clients, pc[c] # "off", NEW rc, Proceeds(c, rc)
    PROVE  ProcInv'
<1> DEFINE on == /\ c \in Examples /\ step[c] < Len(Script)
                 /\ rc = "OK" \/ (rc = "EEXIST" /\ Script[step[c]] = "connect")
<1>1. /\ pc' = [pc EXCEPT ![c] = IF on THEN "ready" ELSE "off"]
      /\ step' = [step EXCEPT ![c] = IF on THEN @ + 1 ELSE 0]
      /\ own' = [own EXCEPT ![c] = IF on THEN @ ELSE @ \ Range(DestroyOrder("example"))]
      /\ runs' = runs
  BY DEF Proceeds
<1>2. on => c \in Examples /\ step[c] + 1 \in 1 .. 6
  BY DEF ProcInv, Script
<1>3. own[c] \ Range(DestroyOrder("example")) = {}
  BY DestroyedIsNothing DEF ProcInv
<1> HIDE DEF on
<1>4. /\ pc' \in [Clients -> Places] /\ step' \in [Clients -> 0 .. 6]
      /\ runs' \in [Clients -> 0 .. MaxRuns]
      /\ own' \in [Clients -> SUBSET Provided("example")]
  BY <1>1, <1>2, <1>3 DEF ProcInv, Places
<1>5. \A d \in Clients : pc'[d] # "off" =>
        IF d \in Examples THEN step'[d] # 0 /\ runs'[d] # 0 ELSE pc'[d] # "ready"
  BY <1>1, <1>2 DEF ProcInv, Places
<1>6. EndpointComplete'
  BY Zenon, <1>1, <1>2, <1>3 DEF ProcInv, EndpointComplete
<1> QED
  BY <1>4, <1>5, <1>6 DEF ProcInv

\* A process that makes a call keeps what it holds.
LEMMA ProcCalls ==
    ASSUME ProcInv, NEW c \in Clients, NEW x \in {"hdr", "payload", "resp", "data", "close"},
           c \in Examples => pc[c] # "off",
           pc' = [pc EXCEPT ![c] = x], UNCHANGED <<step, runs, own>>
    PROVE  ProcInv'
  BY DEF ProcInv, Places, EndpointComplete

\* main of the example starts, or gives up where a part of its endpoint is refused.
LEMMA ProcStarts ==
    ASSUME ProcInv, NEW c \in Clients, StartExample(c)
    PROVE  ProcInv'
<1>1. CASE UNCHANGED <<pc, step, runs>>
  <2>1. PICK i \in DOMAIN Parts("example") : own' = [own EXCEPT ![c] = LeftAfter("example", i)]
    BY <1>1 DEF StartExample, ProcInv
  <2>2. own' = [own EXCEPT ![c] = {}] /\ pc[c] = "off"
    BY Zenon, <2>1, FailedCreateLeavesNothing DEF StartExample
  <2> QED
    BY <1>1, <2>2 DEF ProcInv, EndpointComplete
<1>2. CASE /\ pc' = [pc EXCEPT ![c] = "ready"] /\ step' = [step EXCEPT ![c] = 1]
           /\ runs' = [runs EXCEPT ![c] = @ + 1]
           /\ own' = [own EXCEPT ![c] = Provided("example")]
  <2>1. c \in Examples /\ runs[c] + 1 \in 1 .. MaxRuns
    BY CtrlConstants DEF StartExample, ProcInv
  <2>2. /\ pc' \in [Clients -> Places] /\ step' \in [Clients -> 0 .. 6]
        /\ runs' \in [Clients -> 0 .. MaxRuns]
        /\ own' \in [Clients -> SUBSET Provided("example")]
    BY <1>2, <2>1 DEF ProcInv, Places
  <2>3. \A d \in Clients : pc'[d] # "off" =>
          IF d \in Examples THEN step'[d] # 0 /\ runs'[d] # 0 ELSE pc'[d] # "ready"
    BY <1>2, <2>1 DEF ProcInv
  <2>4. EndpointComplete'
    BY Zenon, <1>2, <2>1 DEF ProcInv, EndpointComplete
  <2> QED
    BY <2>2, <2>3, <2>4 DEF ProcInv
<1> QED
  BY <1>1, <1>2 DEF StartExample

\* Every step keeps what a process says of itself.
LEMMA ProcStep ==
    ASSUME ProcInv, [Next]_vars
    PROVE  ProcInv'
<1>1. ASSUME UNCHANGED client PROVE ProcInv'
  BY <1>1 DEF ProcInv, client, EndpointComplete
<1>2. ASSUME NEW c \in Clients, StartExample(c) PROVE ProcInv'
  BY <1>2, ProcStarts
<1>3. ASSUME NEW c \in Clients, Connect(c) PROVE ProcInv'
  BY Zenon, <1>3, ProcCalls DEF Connect
<1>4. ASSUME NEW c \in Clients, ConnectRefused(c) PROVE ProcInv'
  BY <1>4, ProcProceeds DEF ConnectRefused
<1>5. ASSUME NEW c \in Clients, NEW item, NEW x \in {"payload", "resp"}, pc[c] # "off",
             Send(c, item, x)
      PROVE  ProcInv'
  <2>1. Ends(c) \/ (pc' = [pc EXCEPT ![c] = x] /\ UNCHANGED <<step, runs, own>>)
    BY <1>5 DEF Send
  <2> QED
    BY <1>5, <2>1, ProcEnds, ProcCalls
<1>6. ASSUME NEW c \in Clients, InTransact(c) PROVE ProcInv'
  <2>1. CASE SendHdr(c)
    BY <2>1, <1>5 DEF SendHdr
  <2>2. CASE SendPayload(c)
    BY <2>2, <1>5 DEF SendPayload
  <2>3. CASE RecvResp(c)
    <3>1. /\ pc' = [pc EXCEPT ![c] = "data"] \/ pc' = [pc EXCEPT ![c] = "close"]
          /\ UNCHANGED <<step, runs, own>> /\ pc[c] # "off"
      BY <2>3 DEF RecvResp, Out
    <3> QED
      BY <3>1, ProcCalls
  <2>4. CASE RecvData(c)
    <3>1. /\ pc' = [pc EXCEPT ![c] = "close"]
          /\ UNCHANGED <<step, runs, own>> /\ pc[c] # "off"
      BY <2>4 DEF RecvData, Out
    <3> QED
      BY Zenon, <3>1, ProcCalls
  <2>5. CASE Close(c)
    BY <2>5, ProcProceeds DEF Close
  <2> QED
    BY <1>6, <2>1, <2>2, <2>3, <2>4, <2>5 DEF InTransact
<1>7. ASSUME NEW c \in Clients, Kill(c) PROVE ProcInv'
  BY <1>7, ProcEnds DEF Kill
<1>8. CASE Serve \/ DaemonKilled \/ DaemonStarts
  <2>1. UNCHANGED client
    BY Zenon, <1>8 DEF Serve, DaemonKilled, DaemonStarts, Dies, Accept, ReadHdr, ReadPayload, Handle,
         Respond, RespondData, Refused, CloseClient
  <2> QED
    BY <1>1, <2>1
<1>9. CASE UNCHANGED vars
  BY <1>1, <1>9 DEF vars
<1> QED
  BY <1>2, <1>3, <1>4, <1>6, <1>7, <1>8, <1>9 DEF Next

\* No process runs at first.
LEMMA ProcInitially == Init => ProcInv
  BY CtrlConstants DEF Init, ProcInv, Places, EndpointComplete

\* A process that is not running has given back all it acquired, wherever
\* create_business_urma failed and at whichever call main gave up; one that
\* talks to the daemon has all of its endpoint.
THEOREM EndpointsComplete == Spec => []EndpointComplete
<1>1. ProcInv => EndpointComplete
  BY DEF ProcInv
<1> QED
  BY ProcInitially, ProcStep, <1>1, PTL DEF Spec

-----------------------------------------------------------------------------
(* One connection.                                                          *)

\* A request is an operation and an argument.
LEMMA RequestsAreRequests ==
    ASSUME NEW q \in Requests
    PROVE  q.op \in Ops /\ q.arg \in Args
<1>1. q.op \in Ops
  BY CtrlConstants DEF Requests, Script, Ops
<1> QED
  BY <1>1 DEF Args

\* What Append does, element by element.
LEMMA Appending ==
    ASSUME NEW S, NEW q \in Seq(S), NEW e \in S
    PROVE  /\ Append(q, e) \in Seq(S) /\ Append(q, e) # <<>>
           /\ Len(q) \in Nat /\ Len(Append(q, e)) = Len(q) + 1
           /\ \A i \in 1 .. Len(q) : Append(q, e)[i] = q[i]
           /\ Append(q, e)[Len(q) + 1] = e
  OBVIOUS

\* What Head and Tail do.
LEMMA Taking ==
    ASSUME NEW S, NEW q \in Seq(S), q # <<>>
    PROVE  /\ Head(q) = q[1] /\ q[1] \in S /\ Tail(q) \in Seq(S)
           /\ Len(q) \in Nat \ {0} /\ Len(Tail(q)) = Len(q) - 1
           /\ \A i \in 1 .. Len(Tail(q)) : Tail(q)[i] = q[i + 1]
  OBVIOUS

\* What is written on a connection, and what a read leaves.
LEMMA BytesAre ==
    ASSUME NEW a \in Ops, NEW b \in Args
    PROVE  /\ <<>> \in Bytes /\ <<a>> \in Bytes /\ <<b>> \in Bytes /\ <<a, b>> \in Bytes
           /\ Append(<<>>, a) = <<a>> /\ Append(<<>>, b) = <<b>> /\ Append(<<a>>, b) = <<a, b>>
           /\ Head(<<a>>) = a /\ Head(<<b>>) = b /\ Head(<<a, b>>) = a
           /\ Tail(<<a>>) = <<>> /\ Tail(<<b>>) = <<>> /\ Tail(<<a, b>>) = <<b>>
           /\ <<a>> # <<>> /\ <<b>> # <<>> /\ <<a, b>> # <<>>
<1>1. <<>> \in Bytes /\ <<a>> \in Bytes
  BY DEF Bytes
<1>2. <<b>> \in Bytes
  BY DEF Bytes
<1>3. <<a, b>> \in Bytes
  BY DEF Bytes
<1>4. Append(<<>>, a) = <<a>> /\ Append(<<>>, b) = <<b>>
  OBVIOUS
<1>5. Head(<<a>>) = a /\ Head(<<b>>) = b /\ Head(<<a, b>>) = a
  OBVIOUS
<1>6. Append(<<a>>, b) = <<a, b>>
  <2> DEFINE t == Append(<<a>>, b)
  <2>1. <<a>> \in Seq({a, b}) /\ Len(<<a>>) = 1
    OBVIOUS
  <2>2. t \in Seq({a, b}) /\ Len(t) = 2 /\ t[1] = <<a>>[1] /\ t[2] = b
    BY <2>1, Appending
  <2> HIDE DEF t
  <2>3. t = <<a, b>>
    BY <2>2
  <2> QED
    BY <2>3 DEF t
<1>7. Tail(<<a>>) = <<>> /\ Tail(<<b>>) = <<>>
  OBVIOUS
<1>8. Tail(<<a, b>>) = <<b>>
  <2> DEFINE t == Tail(<<a, b>>)
  <2>1. <<a, b>> \in Seq({a, b}) /\ <<a, b>> # <<>> /\ Len(<<a, b>>) = 2
    OBVIOUS
  <2>2. t \in Seq({a, b}) /\ Len(t) = 1 /\ t[1] = <<a, b>>[2]
    BY <2>1, Taking
  <2> HIDE DEF t
  <2>3. t = <<b>>
    BY <2>2
  <2> QED
    BY <2>3 DEF t
<1>9. <<a>> # <<>> /\ <<b>> # <<>> /\ <<a, b>> # <<>>
  OBVIOUS
<1> QED
  BY <1>1, <1>2, <1>3, <1>4, <1>7, <1>8, <1>9, <1>5, <1>6

\* A connection changed in one field or more remains one.
LEMMA ConnUpdates ==
    ASSUME NEW r \in Conns
    PROVE  /\ \A u \in Bytes : [r EXCEPT !.up = u] \in Conns
           /\ \A d \in Seq(Codes) : [r EXCEPT !.down = d] \in Conns
           /\ \A t \in Told : [r EXCEPT !.told = t] \in Conns
           /\ \A t \in Told : [r EXCEPT !.cend = FALSE, !.told = t] \in Conns
           /\ \A x \in Codes : [r EXCEPT !.ran = x] \in Conns
           /\ [r EXCEPT !.send = FALSE, !.up = <<>>] \in Conns
           /\ [r EXCEPT !.send = FALSE, !.up = <<>>,
                        !.ran = IF @ = NULL THEN "lost" ELSE @] \in Conns
<1>1. <<>> \in Bytes
  BY DEF Bytes
<1> QED
  BY Zenon, <1>1 DEF Conns

\* connect() makes a connection on which nothing has been sent.
LEMMA NewIsGood ==
    ASSUME NEW q \in Requests, NEW h, NEW p
    PROVE  NewConn(q) \in Conns /\ Good(NewConn(q), "hdr", "queued", h, p)
<1>1. <<>> \in Bytes /\ <<>> \in Seq(Codes)
  BY DEF Bytes
<1>2. NewConn(q) \in Conns
  BY <1>1 DEF NewConn, Conns, Told
<1>3. ClientSide(NewConn(q), "hdr") /\ Answer(NewConn(q))
  BY DEF NewConn, ClientSide, Answer
<1>4. ServerSide(NewConn(q), "hdr", "queued", h, p)
  BY DEF NewConn, ServerSide, Unread
<1> QED
  BY <1>2, <1>3, <1>4 DEF Good

\* A write of the client lengthens what is on its way; nothing else changes.
LEMMA Written ==
    ASSUME NEW r \in Conns, NEW u \in Bytes
    PROVE  LET s == [r EXCEPT !.up = u]
           IN  /\ s.req = r.req /\ s.up = u /\ s.down = r.down /\ s.cend = r.cend
               /\ s.send = r.send /\ s.ran = r.ran /\ s.told = r.told
  BY DEF Conns

\* The client writes the header.
LEMMA SendHdrIsGood ==
    ASSUME NEW r \in Conns, NEW pos, NEW h, NEW p, Good(r, "hdr", pos, h, p), r.send
    PROVE  /\ [r EXCEPT !.up = Append(@, r.req.op)] \in Conns
           /\ Good([r EXCEPT !.up = Append(@, r.req.op)],
                   IF HasPayload(r.req.op) THEN "payload" ELSE "resp", pos, h, p)
<1> DEFINE op == r.req.op
           s == [r EXCEPT !.up = <<op>>]
           at == IF HasPayload(op) THEN "payload" ELSE "resp"
<1>1. r.req \in Requests
  BY DEF Conns
<1>2. op \in Ops /\ r.req.arg \in Args
  BY <1>1, RequestsAreRequests
<1>3. pos \in {"queued", "hdr"} /\ r.up = <<>> /\ r.ran = NULL /\ ClientSide(r, "hdr") /\ Answer(r)
  BY DEF Good, ServerSide, Unread, AllRead, HdrRead, Rest
<1>4. Append(r.up, op) = <<op>> /\ <<op>> \in Bytes
  BY Zenon, <1>2, <1>3, BytesAre
<1>5. s \in Conns
  BY Zenon, <1>4, ConnUpdates
<1>6. /\ s.req = r.req /\ s.up = <<op>> /\ s.down = r.down /\ s.cend = r.cend
      /\ s.send = r.send /\ s.ran = r.ran /\ s.told = r.told
  BY Zenon, <1>4, Written
<1> HIDE DEF s
<1>7. ClientSide(s, at) /\ Answer(s)
  BY <1>3, <1>6 DEF ClientSide, Answer
<1>8. ServerSide(s, at, pos, h, p)
  BY <1>3, <1>6 DEF ServerSide, Unread, Full
<1> QED
  BY <1>4, <1>5, <1>7, <1>8 DEF Good, s

\* The client writes the payload.
LEMMA SendPayloadIsGood ==
    ASSUME NEW r \in Conns, NEW pos, NEW h, NEW p, Good(r, "payload", pos, h, p), r.send
    PROVE  /\ [r EXCEPT !.up = Append(@, r.req.arg)] \in Conns
           /\ Good([r EXCEPT !.up = Append(@, r.req.arg)], "resp", pos, h, p)
<1> DEFINE u == Append(r.up, r.req.arg)
           s == [r EXCEPT !.up = u]
<1>1. r.req \in Requests
  BY DEF Conns
<1>2. r.req.op \in Ops /\ r.req.arg \in Args
  BY <1>1, RequestsAreRequests
<1>3. /\ pos # "closed" /\ pos # "data" /\ HasPayload(r.req.op)
      /\ ClientSide(r, "payload") /\ Answer(r) /\ ServerSide(r, "payload", pos, h, p)
  BY DEF Good, ClientSide, ServerSide, AllRead
<1>4. \/ pos \in {"queued", "hdr"} /\ r.ran = NULL /\ r.up = <<r.req.op>>
      \/ /\ pos \in {"payload", "run", "resp", "close"} /\ r.up = <<>>
         /\ pos # "payload" => r.req.op = "huge"
  BY <1>3 DEF ServerSide, Unread, AllRead, HdrRead, Rest
<1>5. \/ pos \in {"queued", "hdr"} /\ r.ran = NULL /\ u = Full(r.req)
      \/ /\ pos \in {"payload", "run", "resp", "close"} /\ u = <<r.req.arg>>
         /\ pos # "payload" => r.req.op = "huge"
  <2>1. r.up = <<r.req.op>> => u = Full(r.req)
    BY Zenon, <1>2, <1>3, BytesAre DEF Full
  <2>2. r.up = <<>> => u = <<r.req.arg>>
    BY Zenon, <1>2, BytesAre
  <2> QED
    BY Zenon, <1>4, <2>1, <2>2
<1>6. u \in Bytes
  BY Zenon, <1>2, <1>3, <1>5, BytesAre DEF Full
<1> HIDE DEF u
<1>7. s \in Conns
  BY Zenon, <1>6, ConnUpdates
<1>8. /\ s.req = r.req /\ s.up = u /\ s.down = r.down /\ s.cend = r.cend
      /\ s.send = r.send /\ s.ran = r.ran /\ s.told = r.told
  BY Zenon, <1>6, Written
<1> HIDE DEF s
<1>9. ClientSide(s, "resp") /\ Answer(s)
  BY <1>3, <1>8 DEF ClientSide, Answer
<1>10. ServerSide(s, "resp", pos, h, p)
  BY <1>3, <1>5, <1>8 DEF ServerSide, Unread, HdrRead, Rest
<1> QED
  BY <1>7, <1>9, <1>10 DEF Good, s, u

\* An answer on its way is what the request ran to.
LEMMA AnswerIsRan ==
    ASSUME NEW r \in Conns, Answer(r), r.down # <<>>
    PROVE  /\ Head(r.down) = r.ran /\ r.ran \in Codes /\ r.ran # NULL /\ r.ran # "lost"
           /\ Tail(r.down) \in Seq(Codes) /\ Len(Tail(r.down)) = Len(r.down) - 1
           /\ \A i \in DOMAIN Tail(r.down) : Tail(r.down)[i] = r.ran
<1>1. r.down \in Seq(Codes)
  BY DEF Conns
<1>2. /\ Head(r.down) \in Codes /\ Tail(r.down) \in Seq(Codes) /\ Head(r.down) = r.down[1]
      /\ Len(Tail(r.down)) = Len(r.down) - 1 /\ 1 \in DOMAIN r.down
      /\ \A i \in 1 .. Len(Tail(r.down)) : Tail(r.down)[i] = r.down[i + 1] /\ i + 1 \in DOMAIN r.down
  BY <1>1, Taking
<1>3. Head(r.down) = r.ran
  BY <1>2 DEF Answer
<1>4. r.ran # NULL /\ r.ran # "lost"
  BY <1>2, <1>3, CtrlConstants DEF Codes
<1>5. \A i \in DOMAIN Tail(r.down) : Tail(r.down)[i] = r.ran
  BY <1>2 DEF Answer
<1> QED
  BY <1>2, <1>3, <1>4, <1>5

\* The client reads the response, and goes on to its data.
LEMMA RecvRespIsGood ==
    ASSUME NEW r \in Conns, NEW pos, NEW h, NEW p, Good(r, "resp", pos, h, p),
           r.down # <<>>, r.req.op = "status"
    PROVE  /\ [r EXCEPT !.down = Tail(@)] \in Conns
           /\ Good([r EXCEPT !.down = Tail(@)], "data", pos, h, p)
<1> DEFINE d == Tail(r.down)
           s == [r EXCEPT !.down = d]
<1>1. ClientSide(r, "resp") /\ Answer(r) /\ ServerSide(r, "resp", pos, h, p)
  BY DEF Good
<1>2. /\ d \in Seq(Codes) /\ Len(d) = Len(r.down) - 1 /\ r.ran # NULL
      /\ \A i \in DOMAIN d : d[i] = r.ran
  BY <1>1, AnswerIsRan
<1>3. Len(r.down) \in Nat /\ Len(r.down) <= 2
  BY <1>1 DEF Answer, Conns
<1> HIDE DEF d
<1>4. s \in Conns
  BY Zenon, <1>2, ConnUpdates
<1>5. /\ s.req = r.req /\ s.up = r.up /\ s.down = d /\ s.cend = r.cend
      /\ s.send = r.send /\ s.ran = r.ran /\ s.told = r.told
  BY <1>2 DEF Conns
<1> HIDE DEF s
<1>6. ClientSide(s, "data")
  BY <1>1, <1>5 DEF ClientSide
<1>7. Answer(s)
  BY <1>2, <1>3, <1>5 DEF Answer
<1>8. pos # "resp" /\ pos # "run" /\ pos # "queued" /\ pos # "payload"
  BY <1>1, <1>2 DEF ServerSide
<1>9. ServerSide(s, "data", pos, h, p)
  <2>1. Rest(r, "resp") => Rest(s, "data")
    BY <1>5 DEF Rest, AllRead, HdrRead
  <2>2. AllRead(r, "resp") => AllRead(s, "data")
    BY <1>5 DEF AllRead
  <2>3. Len(d) <= 1
    BY <1>2, <1>3
  <2> QED
    BY <1>1, <1>2, <1>5, <1>8, <2>1, <2>2, <2>3 DEF ServerSide
<1> QED
  BY <1>4, <1>6, <1>7, <1>9 DEF Good, s, d

\* The client has its status.
LEMMA OutIsGood ==
    ASSUME NEW r \in Conns, NEW at \in {"resp", "data"}, NEW pos, NEW h, NEW p,
           Good(r, at, pos, h, p), r.ran # NULL, NEW t \in Codes \cup {"failed"}
    PROVE  /\ [r EXCEPT !.told = t] \in Conns
           /\ Good([r EXCEPT !.told = t], "close", pos, h, p)
<1> DEFINE s == [r EXCEPT !.told = t]
<1>1. ClientSide(r, at) /\ Answer(r) /\ ServerSide(r, at, pos, h, p)
  BY DEF Good
<1>2. t \in Told /\ t # "waiting"
  BY DEF Told, Codes
<1>3. s \in Conns
  BY Zenon, <1>2, ConnUpdates
<1>4. /\ s.req = r.req /\ s.up = r.up /\ s.down = r.down /\ s.cend = r.cend
      /\ s.send = r.send /\ s.ran = r.ran /\ s.told = t
  BY <1>2 DEF Conns
<1> HIDE DEF s
<1>5. ClientSide(s, "close") /\ Answer(s)
  BY <1>1, <1>2, <1>4 DEF ClientSide, Answer
<1>6. pos # "run" /\ pos # "queued" /\ pos # "payload"
  BY <1>1 DEF ServerSide
<1>7. ServerSide(s, "close", pos, h, p)
  BY <1>1, <1>4, <1>6 DEF ServerSide, AllRead, HdrRead, Rest
<1> QED
  BY <1>3, <1>5, <1>7 DEF Good, s

\* The client closes, or is killed.
LEMMA ClosingIsGood ==
    ASSUME NEW r \in Conns, NEW at, at # "gone", NEW pos, NEW h, NEW p,
           Good(r, at, pos, h, p), NEW t \in Told, t # "waiting", r.ran = NULL => t = "gone"
    PROVE  /\ [r EXCEPT !.cend = FALSE, !.told = t] \in Conns
           /\ Good([r EXCEPT !.cend = FALSE, !.told = t], "gone", pos, h, p)
<1> DEFINE s == [r EXCEPT !.cend = FALSE, !.told = t]
<1>1. ClientSide(r, at) /\ Answer(r) /\ ServerSide(r, at, pos, h, p)
  BY DEF Good
<1>2. s \in Conns
  BY Zenon, ConnUpdates
<1>3. /\ s.req = r.req /\ s.up = r.up /\ s.down = r.down /\ s.cend = FALSE
      /\ s.send = r.send /\ s.ran = r.ran /\ s.told = t
  BY DEF Conns
<1> HIDE DEF s
<1>4. ClientSide(s, "gone") /\ Answer(s)
  BY <1>1, <1>3 DEF ClientSide, Answer
<1>5. at \in {"hdr", "payload", "resp", "data", "close"}
  BY <1>1 DEF ClientSide
<1>6. Unread(r, at) => Unread(s, "gone")
  BY Zenon, <1>3, <1>5 DEF Unread
<1>7. /\ HdrRead(r, at) => HdrRead(s, "gone")
      /\ AllRead(r, at) => AllRead(s, "gone")
  BY Zenon, <1>3, <1>5 DEF HdrRead, AllRead
<1>8. Rest(r, at) => Rest(s, "gone")
  BY <1>3, <1>7 DEF Rest
<1>9. ServerSide(s, "gone", pos, h, p)
  BY <1>1, <1>3, <1>6, <1>7, <1>8 DEF ServerSide
<1> QED
  BY <1>2, <1>4, <1>9 DEF Good, s

\* The header the daemon reads is the one of the request, which has not run.
LEMMA ReadHdrIsGood ==
    ASSUME NEW r \in Conns, NEW at, NEW h, NEW p, Good(r, at, "hdr", h, p), r.up # <<>>
    PROVE  /\ Head(r.up) = r.req.op
           /\ [r EXCEPT !.up = Tail(@)] \in Conns
           /\ Good([r EXCEPT !.up = Tail(@)], at,
                   IF HasPayload(r.req.op) /\ r.req.op # "huge" THEN "payload" ELSE "run",
                   r.req.op, NULL)
<1> DEFINE op == r.req.op
           u == Tail(r.up)
           s == [r EXCEPT !.up = u]
           pos == IF HasPayload(op) /\ op # "huge" THEN "payload" ELSE "run"
<1>1. ClientSide(r, at) /\ Answer(r) /\ ServerSide(r, at, "hdr", h, p)
  BY DEF Good
<1>2. r.req \in Requests
  BY DEF Conns
<1>3. op \in Ops /\ r.req.arg \in Args
  BY <1>2, RequestsAreRequests
<1>4. r.ran = NULL /\ Unread(r, at) /\ r.send
  BY <1>1 DEF ServerSide, AllRead
<1>5. /\ at \in {"payload", "resp", "data", "close", "gone"}
      /\ r.up = <<op>> \/ r.up = Full(r.req)
  BY <1>1, <1>4 DEF Unread, ClientSide
<1>6. Head(r.up) = op
  BY Zenon, <1>3, <1>5, BytesAre DEF Full
<1>7. u \in Bytes
  BY Zenon, <1>3, <1>5, BytesAre DEF Full
<1>8. /\ r.up = <<op>> => u = <<>>
      /\ r.up = Full(r.req) => u = IF HasPayload(op) THEN <<r.req.arg>> ELSE <<>>
  BY Zenon, <1>3, BytesAre DEF Full
<1> HIDE DEF u
<1>9. s \in Conns
  BY Zenon, <1>7, ConnUpdates
<1>10. /\ s.req = r.req /\ s.up = u /\ s.down = r.down /\ s.cend = r.cend
       /\ s.send = r.send /\ s.ran = r.ran /\ s.told = r.told
  BY <1>7, Written
<1> HIDE DEF s
<1>11. ClientSide(s, at) /\ Answer(s)
  BY <1>1, <1>10 DEF ClientSide, Answer
<1>12. CASE HasPayload(op)
  <2>1. HdrRead(s, at)
    BY <1>4, <1>5, <1>8, <1>10, <1>12 DEF HdrRead, Unread
  <2> QED
    BY <1>4, <1>6, <1>9, <1>10, <1>11, <1>12, <2>1 DEF Good, ServerSide, Rest, s, u
<1>13. CASE ~HasPayload(op)
  <2>1. AllRead(s, at)
    BY <1>1, <1>4, <1>5, <1>8, <1>10, <1>13 DEF AllRead, ClientSide, Full
  <2>2. op # "huge"
    BY <1>13 DEF HasPayload
  <2> QED
    BY <1>4, <1>6, <1>9, <1>10, <1>11, <1>13, <2>1, <2>2 DEF Good, ServerSide, Rest, s, u
<1> QED
  BY <1>12, <1>13

\* The payload the daemon reads is the argument of the request.
LEMMA ReadPayloadIsGood ==
    ASSUME NEW r \in Conns, NEW at, NEW h, NEW p, Good(r, at, "payload", h, p), r.up # <<>>
    PROVE  /\ Head(r.up) \in Args
           /\ [r EXCEPT !.up = Tail(@)] \in Conns
           /\ Good([r EXCEPT !.up = Tail(@)], at, "run", h, Head(r.up))
<1> DEFINE s == [r EXCEPT !.up = Tail(@)]
<1>1. ClientSide(r, at) /\ Answer(r) /\ ServerSide(r, at, "payload", h, p)
  BY DEF Good
<1>2. r.req \in Requests
  BY DEF Conns
<1>3. r.req.op \in Ops /\ r.req.arg \in Args
  BY <1>2, RequestsAreRequests
<1>4. /\ r.ran = NULL /\ h = r.req.op /\ h # "huge" /\ HasPayload(h) /\ r.send
      /\ at \notin {"hdr", "payload"} /\ r.up = <<r.req.arg>>
  BY <1>1 DEF ServerSide, HdrRead, ClientSide
<1>5. Head(r.up) = r.req.arg /\ Tail(r.up) = <<>> /\ <<>> \in Bytes
  BY Zenon, <1>3, <1>4, BytesAre
<1>6. s \in Conns
  BY Zenon, <1>5, ConnUpdates
<1>7. /\ s.req = r.req /\ s.up = <<>> /\ s.down = r.down /\ s.cend = r.cend
      /\ s.send = r.send /\ s.ran = r.ran /\ s.told = r.told
  BY <1>5, Written
<1> HIDE DEF s
<1>8. ClientSide(s, at) /\ Answer(s)
  BY <1>1, <1>7 DEF ClientSide, Answer
<1>9. ServerSide(s, at, "run", h, Head(r.up))
  BY <1>4, <1>5, <1>7 DEF ServerSide, Rest, AllRead
<1> QED
  BY <1>3, <1>5, <1>6, <1>8, <1>9 DEF Good, s

\* At the end of the stream the daemon runs with whatever it holds; the caller
\* is gone by then.
LEMMA NoPayloadIsGood ==
    ASSUME NEW r \in Conns, NEW at, NEW h, NEW p, NEW q, Good(r, at, "payload", h, p),
           r.up = <<>>, ~r.cend
    PROVE  Good(r, at, "run", h, q)
<1>1. ClientSide(r, at) /\ Answer(r) /\ ServerSide(r, at, "payload", h, p) /\ at = "gone"
  BY DEF Good, ClientSide
<1>2. ServerSide(r, at, "run", h, q)
  BY <1>1 DEF ServerSide, ClientSide, Rest, AllRead
<1> QED
  BY <1>1, <1>2 DEF Good

\* The daemon carries the request out.
LEMMA HandleIsGood ==
    ASSUME NEW r \in Conns, NEW at, NEW h, NEW p, Good(r, at, "run", h, p), NEW rc \in Codes
    PROVE  /\ [r EXCEPT !.ran = rc] \in Conns
           /\ Good([r EXCEPT !.ran = rc], at, "resp", h, NULL)
<1> DEFINE s == [r EXCEPT !.ran = rc]
<1>1. ClientSide(r, at) /\ Answer(r) /\ ServerSide(r, at, "run", h, p)
  BY DEF Good
<1>2. r.ran = NULL /\ h = r.req.op /\ Rest(r, at) /\ r.down = <<>> /\ r.send
  BY <1>1 DEF ServerSide, Answer
<1>3. s \in Conns
  BY Zenon, ConnUpdates
<1>4. /\ s.req = r.req /\ s.up = r.up /\ s.down = r.down /\ s.cend = r.cend
      /\ s.send = r.send /\ s.ran = rc /\ s.told = r.told
  BY DEF Conns
<1> HIDE DEF s
<1>5. ClientSide(s, at)
  BY <1>1, <1>4 DEF ClientSide
<1>6. Answer(s)
  BY <1>2, <1>4, CtrlConstants DEF Answer
<1>7. Rest(s, at)
  BY <1>2, <1>4 DEF Rest, HdrRead, AllRead
<1>8. ServerSide(s, at, "resp", h, NULL)
  BY <1>2, <1>4, <1>7 DEF ServerSide
<1> QED
  BY <1>3, <1>5, <1>6, <1>8 DEF Good, s

\* One answer more on its way.
LEMMA Answered ==
    ASSUME NEW r \in Conns, Answer(r), r.ran \in Codes, Len(r.down) <= 1
    PROVE  LET s == [r EXCEPT !.down = Append(@, r.ran)]
           IN  /\ s \in Conns /\ Answer(s) /\ Len(s.down) = Len(r.down) + 1
               /\ s.req = r.req /\ s.up = r.up /\ s.cend = r.cend
               /\ s.send = r.send /\ s.ran = r.ran /\ s.told = r.told
<1> DEFINE d == Append(r.down, r.ran)
           s == [r EXCEPT !.down = d]
<1>1. r.down \in Seq(Codes)
  BY DEF Conns
<1>2. /\ d \in Seq(Codes) /\ Len(d) = Len(r.down) + 1 /\ Len(r.down) \in Nat
      /\ \A i \in 1 .. Len(r.down) : d[i] = r.down[i]
      /\ d[Len(r.down) + 1] = r.ran
  BY <1>1, Appending
<1> HIDE DEF d
<1>3. \A i \in DOMAIN d : d[i] = r.ran
  BY <1>1, <1>2 DEF Answer
<1>4. s \in Conns
  BY Zenon, <1>2, ConnUpdates
<1>5. /\ s.req = r.req /\ s.up = r.up /\ s.down = d /\ s.cend = r.cend
      /\ s.send = r.send /\ s.ran = r.ran /\ s.told = r.told
  BY <1>2 DEF Conns
<1> HIDE DEF s
<1>6. Answer(s)
  BY <1>2, <1>3, <1>5, CtrlConstants DEF Answer
<1> QED
  BY <1>2, <1>4, <1>5, <1>6 DEF s, d

\* The daemon writes the response.
LEMMA RespondIsGood ==
    ASSUME NEW r \in Conns, NEW at, NEW h, NEW p, Good(r, at, "resp", h, p)
    PROVE  /\ [r EXCEPT !.down = Append(@, r.ran)] \in Conns
           /\ Good([r EXCEPT !.down = Append(@, r.ran)], at,
                   IF HasData(h) THEN "data" ELSE IF h = "huge" THEN "close" ELSE "hdr", h, p)
<1> DEFINE s == [r EXCEPT !.down = Append(@, r.ran)]
<1>1. ClientSide(r, at) /\ Answer(r) /\ ServerSide(r, at, "resp", h, p)
  BY DEF Good
<1>2. /\ r.ran \in Codes /\ h = r.req.op /\ Rest(r, at) /\ r.send /\ Len(r.down) = 0
      /\ r.ran # NULL
  BY <1>1, CtrlConstants DEF ServerSide
<1>3. Len(r.down) <= 1
  BY <1>2
<1>4. /\ s \in Conns /\ Answer(s) /\ Len(s.down) = Len(r.down) + 1
      /\ s.req = r.req /\ s.up = r.up /\ s.cend = r.cend
      /\ s.send = r.send /\ s.ran = r.ran /\ s.told = r.told
  BY Zenon, <1>1, <1>2, <1>3, Answered
<1> HIDE DEF s
<1>5. ClientSide(s, at)
  BY <1>1, <1>4 DEF ClientSide
<1>6. Rest(s, at)
  BY <1>2, <1>4 DEF Rest, HdrRead, AllRead
<1>7. Len(s.down) <= 1
  BY <1>2, <1>4
<1>8. ServerSide(s, at, IF HasData(h) THEN "data" ELSE IF h = "huge" THEN "close" ELSE "hdr", h, p)
  BY <1>2, <1>4, <1>6, <1>7 DEF ServerSide, Rest, HasData
<1> QED
  BY <1>4, <1>5, <1>8 DEF Good, s

\* The daemon writes the data of the response.
LEMMA RespondDataIsGood ==
    ASSUME NEW r \in Conns, NEW at, NEW h, NEW p, Good(r, at, "data", h, p)
    PROVE  /\ [r EXCEPT !.down = Append(@, r.ran)] \in Conns
           /\ Good([r EXCEPT !.down = Append(@, r.ran)], at, "hdr", h, p)
<1> DEFINE s == [r EXCEPT !.down = Append(@, r.ran)]
<1>1. ClientSide(r, at) /\ Answer(r) /\ ServerSide(r, at, "data", h, p)
  BY DEF Good
<1>2. r.ran \in Codes /\ AllRead(r, at) /\ r.send /\ Len(r.down) <= 1 /\ r.ran # NULL
  BY <1>1, CtrlConstants DEF ServerSide
<1>3. /\ s \in Conns /\ Answer(s)
      /\ s.req = r.req /\ s.up = r.up /\ s.cend = r.cend
      /\ s.send = r.send /\ s.ran = r.ran /\ s.told = r.told
  BY Zenon, <1>1, <1>2, Answered
<1> HIDE DEF s
<1>4. ClientSide(s, at)
  BY <1>1, <1>3 DEF ClientSide
<1>5. ServerSide(s, at, "hdr", h, p)
  BY <1>2, <1>3 DEF ServerSide, AllRead
<1> QED
  BY <1>3, <1>4, <1>5 DEF Good, s

\* The daemon closes a connection it has answered.
LEMMA ServerClosesIsGood ==
    ASSUME NEW r \in Conns, NEW at, NEW pos, NEW h, NEW p, Good(r, at, pos, h, p),
           r.ran # NULL, NEW g, NEW q
    PROVE  /\ [r EXCEPT !.send = FALSE, !.up = <<>>] \in Conns
           /\ Good([r EXCEPT !.send = FALSE, !.up = <<>>], at, "closed", g, q)
<1> DEFINE s == [r EXCEPT !.send = FALSE, !.up = <<>>]
<1>1. ClientSide(r, at) /\ Answer(r)
  BY DEF Good
<1>2. s \in Conns
  BY Zenon, ConnUpdates
<1>3. /\ s.req = r.req /\ s.up = <<>> /\ s.down = r.down /\ s.cend = r.cend
      /\ s.send = FALSE /\ s.ran = r.ran /\ s.told = r.told
  BY DEF Conns
<1> HIDE DEF s
<1>4. ClientSide(s, at) /\ Answer(s) /\ ServerSide(s, at, "closed", g, q)
  BY <1>1, <1>3 DEF ClientSide, Answer, ServerSide
<1> QED
  BY <1>2, <1>4 DEF Good, s

\* The daemon ends, and with it its end of the connection.
LEMMA DiesIsGood ==
    ASSUME NEW r \in Conns, NEW at, NEW pos, NEW h, NEW p, Good(r, at, pos, h, p),
           r.cend, NEW g, NEW q
    PROVE  LET s == [r EXCEPT !.send = FALSE, !.up = <<>>,
                              !.ran = IF @ = NULL THEN "lost" ELSE @]
           IN  s \in Conns /\ Good(s, at, "closed", g, q)
<1> DEFINE s == [r EXCEPT !.send = FALSE, !.up = <<>>, !.ran = IF @ = NULL THEN "lost" ELSE @]
<1>1. ClientSide(r, at) /\ Answer(r)
  BY DEF Good
<1>2. s \in Conns
  BY Zenon, ConnUpdates
<1>3. /\ s.req = r.req /\ s.up = <<>> /\ s.down = r.down /\ s.cend = r.cend
      /\ s.send = FALSE /\ s.ran = (IF r.ran = NULL THEN "lost" ELSE r.ran) /\ s.told = r.told
  BY Zenon DEF Conns
<1> HIDE DEF s
<1>4. ClientSide(s, at) /\ ServerSide(s, at, "closed", g, q)
  BY <1>1, <1>3 DEF ClientSide, ServerSide
<1>5. Answer(s)
  BY <1>1, <1>3, CtrlConstants DEF Answer
<1> QED
  BY <1>2, <1>4, <1>5 DEF Good, s

\* hdr and payload of the control thread say nothing of a connection that is
\* not served.
LEMMA GoodElsewhere ==
    ASSUME NEW r, NEW at, NEW pos \in {"queued", "closed"}, NEW h, NEW p, NEW g, NEW q,
           Good(r, at, pos, h, p)
    PROVE  Good(r, at, pos, g, q)
  BY DEF Good, ServerSide

-----------------------------------------------------------------------------
(* All connections.                                                         *)

\* The place of a connection is that of its only client,
LEMMA AtIs ==
    ASSUME NEW s, NEW p, NEW c \in Clients, \A d \in Clients : s[d] = s[c] => d = c
    PROVE  AtOf(s, p, s[c]) = p[c]
<1> DEFINE d == CHOOSE d \in Clients : s[d] = s[c]
<1>1. d \in Clients /\ s[d] = s[c]
  OBVIOUS
<1>2. d = c
  BY <1>1
<1> QED
  BY <1>2 DEF AtOf

\* and "gone" when it has none.
LEMMA AtGone ==
    ASSUME NEW s, NEW p, NEW k, \A c \in Clients : s[c] # k
    PROVE  AtOf(s, p, k) = "gone"
  BY DEF AtOf

\* Only its own client moves a connection on.
LEMMA AtSame ==
    ASSUME NEW s, NEW p, NEW t, NEW q, NEW k,
           \A c, d \in Clients : s[c] = k /\ s[d] = k => c = d,
           \A c \in Clients : s[c] = k <=> t[c] = k,
           \A c \in Clients : s[c] = k => p[c] = q[c]
    PROVE  AtOf(t, q, k) = AtOf(s, p, k)
<1>1. CASE \A c \in Clients : s[c] # k
  BY <1>1, AtGone
<1>2. ASSUME NEW c \in Clients, s[c] = k PROVE AtOf(t, q, k) = AtOf(s, p, k)
  <2>1. AtOf(s, p, k) = p[c]
    BY <1>2, AtIs
  <2>2. t[c] = k /\ \A d \in Clients : t[d] = t[c] => d = c
    BY <1>2
  <2>3. AtOf(t, q, k) = q[c]
    BY <2>2, AtIs
  <2> QED
    BY <1>2, <2>1, <2>3
<1> QED
  BY <1>1, <1>2

\* The same of the next state.
LEMMA AtIsNext ==
    ASSUME NEW c \in Clients, NEW k, slot'[c] = k, \A d \in Clients : slot'[d] = k => d = c
    PROVE  At(k)' = pc'[c]
<1> DEFINE s == slot'
           p == pc'
<1>1. s[c] = k /\ \A d \in Clients : s[d] = s[c] => d = c
  OBVIOUS
<1> HIDE DEF s, p
<1>2. AtOf(s, p, s[c]) = p[c]
  BY Zenon, <1>1, AtIs
<1> QED
  BY <1>2 DEF s, p, At

\* A connection without a client after a step,
LEMMA AtGoneNext ==
    ASSUME NEW k, \A c \in Clients : slot'[c] # k
    PROVE  At(k)' = "gone"
  BY DEF At, AtOf

\* and one whose client stays where it is.
LEMMA AtSameNext ==
    ASSUME NEW k, \A c, d \in Clients : slot[c] = k /\ slot[d] = k => c = d,
           \A c \in Clients : slot[c] = k <=> slot'[c] = k,
           \A c \in Clients : slot[c] = k => pc[c] = pc'[c]
    PROVE  At(k)' = At(k)
<1> DEFINE s == slot
           p == pc
           t == slot'
           q == pc'
<1>1. /\ \A c, d \in Clients : s[c] = k /\ s[d] = k => c = d
      /\ \A c \in Clients : s[c] = k <=> t[c] = k
      /\ \A c \in Clients : s[c] = k => p[c] = q[c]
  OBVIOUS
<1> HIDE DEF s, p, t, q
<1>2. AtOf(t, q, k) = AtOf(s, p, k)
  BY <1>1, AtSame
<1> QED
  BY <1>2 DEF s, p, t, q, At

\* What is pending is a connection.
LEMMA QueuedAreSlots ==
    ASSUME Types
    PROVE  \A j \in Queued(backlog) : j \in Slots
<1>1. \A i \in DOMAIN backlog : backlog[i] \in Slots
  BY DEF Types
<1> QED
  BY Zenon, <1>1 DEF Queued

\* The connection a client has.
LEMMA Mine ==
    ASSUME Inv, NEW c \in Clients, slot[c] # NULL
    PROVE  /\ slot[c] \in Slots /\ conn[slot[c]] # NULL /\ conn[slot[c]] \in Conns
           /\ At(slot[c]) = pc[c]
           /\ Good(conn[slot[c]], pc[c], Pos(slot[c]), hdr, payload)
<1>1. slot[c] \in Slots /\ conn[slot[c]] # NULL
  BY DEF Inv, Types, Links
<1>2. conn[slot[c]] \in Conns
  BY <1>1 DEF Inv, Types
<1>3. At(slot[c]) = pc[c]
  BY AtIs DEF Inv, Links, At
<1> QED
  BY <1>1, <1>2, <1>3 DEF Inv, ConnInv

\* The connection the daemon serves.
LEMMA Served ==
    ASSUME Inv, cur # NULL
    PROVE  /\ cur \in Slots /\ conn[cur] # NULL /\ conn[cur] \in Conns
           /\ Pos(cur) = spc
           /\ Good(conn[cur], At(cur), spc, hdr, payload)
<1>1. cur \in Slots /\ conn[cur] # NULL
  BY DEF Inv, Types, Links
<1>2. conn[cur] \in Conns
  BY <1>1 DEF Inv, Types
<1>3. Pos(cur) = spc
  BY DEF Pos, PosOf
<1> QED
  BY <1>1, <1>2, <1>3 DEF Inv, ConnInv

(***************************************************************************)
(* A client moves on inside its call.                                      *)
(***************************************************************************)
LEMMA ClientMoves ==
    ASSUME Inv, NEW c \in Clients, slot[c] # NULL,
           NEW x \in {"hdr", "payload", "resp", "data", "close"},
           NEW r \in Conns, Good(r, x, Pos(slot[c]), hdr, payload),
           conn' = [conn EXCEPT ![slot[c]] = r], pc' = [pc EXCEPT ![c] = x],
           UNCHANGED <<slot, alive, backlog, spc, cur, hdr, payload>>
    PROVE  Inv'
<1> DEFINE k == slot[c]
<1>1. /\ k \in Slots /\ conn \in [Slots -> Conns \cup {NULL}] /\ pc \in [Clients -> Places]
      /\ r # NULL
  BY Mine, CtrlConstants DEF Inv, Types
<1>2. conn'[k] = r /\ pc'[c] = x /\ \A j \in Slots \ {k} : conn'[j] = conn[j]
  BY <1>1
<1>3. Types'
  BY <1>1 DEF Inv, Types, Places
<1>4. \A d \in Clients : InCall(d)' <=> InCall(d)
  <2>1. InCall(c) /\ InCall(c)'
    BY <1>2 DEF Inv, Links, InCall
  <2>2. \A d \in Clients \ {c} : pc'[d] = pc[d]
    BY <1>1
  <2> QED
    BY <2>1, <2>2 DEF InCall
<1>5. \A j \in Slots : conn[j] # NULL => conn'[j] # NULL
  BY <1>1, <1>2
<1>6. Links'
  <2>1. \A j \in Queued(backlog) : j \in Slots
    BY QueuedAreSlots DEF Inv
  <2> QED
    BY <1>1, <1>4, <1>5, <2>1 DEF Inv, Links, Types
<1>7. ASSUME NEW j \in Slots, conn'[j] # NULL
      PROVE  Good(conn'[j], At(j)', Pos(j)', hdr', payload')
  <2>1. Pos(j)' = Pos(j)
    BY DEF Pos
  <2>2. CASE j = k
    <3>1. \A d \in Clients : slot'[d] = slot'[c] => d = c
      BY DEF Inv, Links
    <3>2. At(j)' = x
      BY <1>2, <2>2, <3>1, AtIsNext
    <3> QED
      BY <1>2, <2>1, <2>2, <3>2
  <2>3. CASE j # k
    <3>1. At(j)' = At(j)
      <4>1. \A d \in Clients : slot[d] = j => pc[d] = pc'[d]
        BY <1>1, <2>3
      <4>2. \A d, e \in Clients : slot[d] = j /\ slot[e] = j => d = e
        BY CtrlConstants DEF Inv, Links
      <4>3. \A d \in Clients : slot[d] = j <=> slot'[d] = j
        OBVIOUS
      <4> QED
        BY <4>1, <4>2, <4>3, AtSameNext
    <3> QED
      BY <1>2, <1>7, <2>1, <2>3, <3>1 DEF Inv, ConnInv
  <2> QED
    BY <2>2, <2>3
<1>8. ConnInv'
  BY <1>7 DEF ConnInv
<1> QED
  BY <1>3, <1>6, <1>8 DEF Inv

(***************************************************************************)
(* A client closes its end.  What it was told, if it was told nothing, is  *)
(* that nobody is left to be told.                                         *)
(***************************************************************************)
LEMMA ClientLeaves ==
    ASSUME Inv, NEW c \in Clients, slot[c] # NULL, NEW x \in {"off", "ready"},
           NEW t \in Told, t # "waiting", conn[slot[c]].ran = NULL => t = "gone",
           conn' = [conn EXCEPT ![slot[c]] = ClientCloses(slot[c], t)],
           pc' = [pc EXCEPT ![c] = x], slot' = [slot EXCEPT ![c] = NULL],
           UNCHANGED <<alive, backlog, spc, cur, hdr, payload>>
    PROVE  Inv'
<1> DEFINE k == slot[c]
           r == ClientCloses(k, t)
<1>1. /\ k \in Slots /\ conn \in [Slots -> Conns \cup {NULL}] /\ pc \in [Clients -> Places]
      /\ slot \in [Clients -> Slots \cup {NULL}] /\ conn[k] \in Conns
      /\ Good(conn[k], pc[c], Pos(k), hdr, payload)
  BY Mine DEF Inv, Types
<1>2. pc[c] \in {"hdr", "payload", "resp", "data", "close"}
  BY DEF Inv, Links, InCall
<1>3. conn[k].send => r \in Conns /\ r # NULL /\ Good(r, "gone", Pos(k), hdr, payload)
  <2> SUFFICES ASSUME conn[k].send
               PROVE  r \in Conns /\ r # NULL /\ Good(r, "gone", Pos(k), hdr, payload)
    OBVIOUS
  <2>1. r = [conn[k] EXCEPT !.cend = FALSE, !.told = t]
    BY DEF ClientCloses
  <2>2. pc[c] # "gone"
    BY <1>2
  <2>3. conn[k].ran = NULL => t = "gone"
    OBVIOUS
  <2> HIDE DEF r, k
  <2>4. /\ [conn[k] EXCEPT !.cend = FALSE, !.told = t] \in Conns
        /\ Good([conn[k] EXCEPT !.cend = FALSE, !.told = t], "gone", Pos(k), hdr, payload)
    BY Zenon, <1>1, <2>2, <2>3, ClosingIsGood
  <2>5. r \in Conns /\ Good(r, "gone", Pos(k), hdr, payload)
    BY Zenon, <2>1, <2>4
  <2> QED
    BY Zenon, <2>5, CtrlConstants
<1>4. ~conn[k].send => r = NULL
  BY DEF ClientCloses
<1>5. conn[k].send <=> Pos(k) # "closed"
  BY <1>1 DEF Good, ServerSide, Conns
<1>6. Pos(k) = "closed" => k # cur /\ k \notin Queued(backlog)
  BY <1>1 DEF Inv, Types, Pos, PosOf
<1> HIDE DEF r
<1>7. /\ conn'[k] = r /\ pc'[c] = x /\ slot'[c] = NULL
      /\ \A j \in Slots \ {k} : conn'[j] = conn[j]
      /\ \A d \in Clients \ {c} : pc'[d] = pc[d] /\ slot'[d] = slot[d]
  BY <1>1 DEF r
<1>8. Types'
  BY <1>1, <1>3, <1>4 DEF Inv, Types, Places, r
<1>9. Links'
  <2>1. \A d \in Clients : InCall(d)' <=> slot'[d] # NULL
    BY <1>7 DEF Inv, Links, InCall
  <2>2. \A d \in Clients : slot'[d] # NULL => d # c /\ slot'[d] = slot[d] /\ slot[d] # k
    BY <1>7 DEF Inv, Links
  <2>3. \A d, e \in Clients : slot'[d] # NULL /\ slot'[d] = slot'[e] => d = e
    BY <2>2 DEF Inv, Links
  <2>4. \A d \in Clients : slot'[d] # NULL => conn'[slot'[d]] # NULL
    BY <1>1, <1>7, <2>2 DEF Inv, Links
  <2>5. \A j \in Slots : conn[j] # NULL /\ (j = cur \/ j \in Queued(backlog)) => conn'[j] # NULL
    BY <1>3, <1>5, <1>6, <1>7
  <2>6. \A j \in Queued(backlog) : j \in Slots
    BY QueuedAreSlots DEF Inv
  <2>7. /\ cur' # NULL => conn'[cur'] # NULL /\ cur' \notin Queued(backlog')
        /\ \A j \in Queued(backlog') : conn'[j] # NULL
    BY <2>5, <2>6 DEF Inv, Links, Types
  <2> QED
    BY <2>1, <2>3, <2>4, <2>7 DEF Inv, Links
<1>10. ASSUME NEW j \in Slots, conn'[j] # NULL
       PROVE  Good(conn'[j], At(j)', Pos(j)', hdr', payload')
  <2>1. Pos(j)' = Pos(j)
    BY DEF Pos
  <2>2. CASE j = k
    <3>1. \A d \in Clients : slot'[d] # j
      BY <1>7, <2>2, CtrlConstants DEF Inv, Links
    <3>2. At(j)' = "gone"
      BY <3>1, AtGoneNext
    <3> QED
      BY <1>3, <1>4, <1>7, <1>10, <2>1, <2>2, <3>2
  <2>3. CASE j # k
    <3>1. /\ \A d \in Clients : slot[d] = j <=> slot'[d] = j
          /\ \A d \in Clients : slot[d] = j => pc[d] = pc'[d]
      BY <1>7, <2>3, CtrlConstants
    <3>2. \A d, e \in Clients : slot[d] = j /\ slot[e] = j => d = e
      BY CtrlConstants DEF Inv, Links
    <3>3. At(j)' = At(j)
      BY <3>1, <3>2, AtSameNext
    <3> QED
      BY <1>7, <1>10, <2>1, <2>3, <3>3 DEF Inv, ConnInv
  <2> QED
    BY <2>2, <2>3
<1>11. ConnInv'
  BY <1>10 DEF ConnInv
<1> QED
  BY <1>8, <1>9, <1>11 DEF Inv

(***************************************************************************)
(* The control thread moves on with the connection it serves.              *)
(***************************************************************************)
LEMMA ServerMoves ==
    ASSUME Inv, cur # NULL, NEW r \in Conns,
           spc' \in {"hdr", "payload", "run", "resp", "data", "close"},
           Good(r, At(cur), spc', hdr', payload'),
           conn' = [conn EXCEPT ![cur] = r],
           payload' \in Args, spc' # "run" => payload' = NULL,
           UNCHANGED <<pc, slot, alive, backlog, cur>>
    PROVE  Inv'
<1>1. /\ cur \in Slots /\ conn \in [Slots -> Conns \cup {NULL}] /\ r # NULL
  BY Served, CtrlConstants DEF Inv, Types
<1>2. conn'[cur] = r /\ \A j \in Slots \ {cur} : conn'[j] = conn[j]
  BY <1>1
<1>3. Types'
  BY <1>1 DEF Inv, Types
<1>4. \A j \in Slots : conn[j] # NULL => conn'[j] # NULL
  BY <1>1, <1>2
<1>5. Links'
  <2>1. \A j \in Queued(backlog) : j \in Slots
    BY QueuedAreSlots DEF Inv
  <2>2. \A d \in Clients : slot[d] # NULL => slot[d] \in Slots
    BY DEF Inv, Types
  <2> QED
    BY <1>1, <1>4, <2>1, <2>2 DEF Inv, Links, InCall
<1>6. ASSUME NEW j \in Slots, conn'[j] # NULL
      PROVE  Good(conn'[j], At(j)', Pos(j)', hdr', payload')
  <2>1. At(j)' = At(j)
    BY DEF At
  <2>2. CASE j = cur
    <3>1. Pos(j)' = spc'
      BY <2>2 DEF Pos, PosOf
    <3> QED
      BY <1>2, <2>1, <2>2, <3>1
  <2>3. CASE j # cur
    <3>1. Pos(j)' = Pos(j) /\ Pos(j) \in {"queued", "closed"}
      BY <2>3 DEF Pos, PosOf
    <3>2. Good(conn[j], At(j), Pos(j), hdr, payload)
      BY <1>2, <1>6, <2>3 DEF Inv, ConnInv
    <3>3. Good(conn[j], At(j), Pos(j), hdr', payload')
      BY <3>1, <3>2, GoodElsewhere
    <3> QED
      BY <1>2, <2>1, <2>3, <3>1, <3>3
  <2> QED
    BY <2>2, <2>3
<1>7. ConnInv'
  BY <1>6 DEF ConnInv
<1> QED
  BY <1>3, <1>5, <1>7 DEF Inv

\* serve_client returns, and the connection is closed: its client has left, or
\* it has its answer.
LEMMA ServerLeaves ==
    ASSUME Inv, cur # NULL, spc # "run", conn[cur].cend => conn[cur].ran # NULL, CloseClient
    PROVE  Inv'
<1> DEFINE r == ServerCloses(cur)
<1>1. /\ cur \in Slots /\ conn \in [Slots -> Conns \cup {NULL}] /\ conn[cur] \in Conns
      /\ Good(conn[cur], At(cur), spc, hdr, payload)
  BY Served DEF Inv, Types
<1>2. /\ conn' = [conn EXCEPT ![cur] = r] /\ spc' = "accept" /\ cur' = NULL
      /\ pc' = pc /\ slot' = slot /\ alive' = alive /\ backlog' = backlog /\ payload' = payload
  BY DEF CloseClient, client
<1>3. /\ conn[cur].cend => r \in Conns /\ r # NULL /\ Good(r, At(cur), "closed", hdr', payload')
      /\ ~conn[cur].cend => r = NULL
  BY Zenon, <1>1, ServerClosesIsGood, CtrlConstants DEF ServerCloses
<1>4. ~conn[cur].cend => \A c \in Clients : slot[c] # cur
  <2> SUFFICES ASSUME NEW c \in Clients, slot[c] = cur PROVE conn[cur].cend
    BY <1>1 DEF Conns
  <2>1. Good(conn[cur], pc[c], Pos(cur), hdr, payload)
    BY Mine
  <2>2. pc[c] # "gone"
    BY DEF Inv, Types, Places
  <2> QED
    BY <1>1, <2>1, <2>2 DEF Good, ClientSide, Conns
<1> HIDE DEF r
<1>5. conn'[cur] = r /\ \A j \in Slots \ {cur} : conn'[j] = conn[j]
  BY <1>1, <1>2
<1>6. Types'
  BY <1>1, <1>2, <1>3 DEF Inv, Types
<1>7. Links'
  <2>1. \A j \in Queued(backlog) : j \in Slots /\ j # cur
    BY QueuedAreSlots, CtrlConstants DEF Inv, Links
  <2>2. \A d \in Clients : slot[d] # NULL => slot[d] \in Slots /\ conn'[slot[d]] # NULL
    BY <1>3, <1>4, <1>5 DEF Inv, Types, Links
  <2>3. \A j \in Queued(backlog') : conn'[j] # NULL
    BY <1>2, <1>5, <2>1 DEF Inv, Links
  <2> QED
    BY <1>2, <2>2, <2>3 DEF Inv, Links, InCall
<1>8. ASSUME NEW j \in Slots, conn'[j] # NULL
      PROVE  Good(conn'[j], At(j)', Pos(j)', hdr', payload')
  <2>1. At(j)' = At(j)
    BY <1>2 DEF At
  <2>2. CASE j = cur
    <3>1. j \notin Queued(backlog)
      BY <2>2 DEF Inv, Links
    <3>2. Pos(j)' = "closed"
      BY <1>2, <3>1, CtrlConstants DEF Pos, PosOf
    <3> QED
      BY <1>3, <1>5, <1>8, <2>1, <2>2, <3>2
  <2>3. CASE j # cur
    <3>1. Pos(j)' = Pos(j) /\ Pos(j) \in {"queued", "closed"}
      BY <1>2, <2>3, CtrlConstants DEF Pos, PosOf
    <3>2. Good(conn[j], At(j), Pos(j), hdr, payload)
      BY <1>5, <1>8, <2>3 DEF Inv, ConnInv
    <3>3. Good(conn[j], At(j), Pos(j), hdr', payload')
      BY <3>1, <3>2, GoodElsewhere
    <3> QED
      BY <1>5, <2>1, <2>3, <3>1, <3>3
  <2> QED
    BY <2>2, <2>3
<1>9. ConnInv'
  BY <1>8 DEF ConnInv
<1> QED
  BY <1>6, <1>7, <1>9 DEF Inv

\* The daemon ends: nothing is served or pending, and what has no client is gone.
LEMMA AllLost ==
    ASSUME Inv, Dies
    PROVE  Inv'
<1> DEFINE D(k) == [conn[k] EXCEPT !.send = FALSE, !.up = <<>>,
                                   !.ran = IF @ = NULL THEN "lost" ELSE @]
<1>1. /\ conn' = [k \in Slots |-> IF conn[k] = NULL \/ ~conn[k].cend THEN NULL ELSE D(k)]
      /\ alive' = FALSE /\ backlog' = <<>> /\ spc' = "accept" /\ cur' = NULL
      /\ payload' = NULL /\ pc' = pc /\ slot' = slot
  BY Zenon DEF Dies, client
<1>2. ASSUME NEW k \in Slots, conn[k] # NULL, conn[k].cend
      PROVE  D(k) \in Conns /\ D(k) # NULL /\ Good(D(k), At(k), "closed", hdr', payload')
  <2>1. conn[k] \in Conns /\ Good(conn[k], At(k), Pos(k), hdr, payload)
    BY <1>2 DEF Inv, Types, ConnInv
  <2>2. D(k) \in Conns /\ Good(D(k), At(k), "closed", hdr', payload')
    BY Zenon, <1>2, <2>1, DiesIsGood
  <2> QED
    BY <2>2, CtrlConstants
<1> HIDE DEF D
<1>3. NULL \in Args /\ <<>> \in Seq(Slots)
  BY DEF Args
<1>4. Types'
  BY <1>1, <1>2, <1>3 DEF Inv, Types
<1>5. Queued(backlog') = {}
  BY <1>1 DEF Queued
<1>6. \A c \in Clients : slot[c] # NULL => slot[c] \in Slots /\ conn'[slot[c]] # NULL
  <2> SUFFICES ASSUME NEW c \in Clients, slot[c] # NULL
               PROVE  slot[c] \in Slots /\ conn'[slot[c]] # NULL
    OBVIOUS
  <2>1. /\ slot[c] \in Slots /\ conn[slot[c]] # NULL /\ conn[slot[c]] \in Conns
        /\ Good(conn[slot[c]], pc[c], Pos(slot[c]), hdr, payload)
    BY Mine
  <2>2. pc[c] # "gone"
    BY DEF Inv, Types, Places
  <2>3. conn[slot[c]].cend
    BY <2>1, <2>2 DEF Good, ClientSide, Conns
  <2> QED
    BY <1>1, <1>2, <2>1, <2>3
<1>7. Links'
  <2>1. /\ \A c \in Clients : InCall(c)' <=> slot'[c] # NULL
        /\ \A c, d \in Clients : slot'[c] # NULL /\ slot'[c] = slot'[d] => c = d
    BY <1>1 DEF Inv, Links, InCall
  <2>2. \A i, j \in DOMAIN backlog' : backlog'[i] = backlog'[j] => i = j
    BY <1>1
  <2>3. \A c \in Clients : slot'[c] # NULL => conn'[slot'[c]] # NULL
    BY Zenon, <1>1, <1>6
  <2>4. \A k \in Queued(backlog') : conn'[k] # NULL
    BY Zenon, <1>5
  <2>5. /\ cur' = NULL /\ spc' = "accept" /\ backlog' = <<>> /\ payload' = NULL
    BY <1>1
  <2> QED
    BY Zenon, <2>1, <2>2, <2>3, <2>4, <2>5 DEF Links, Queued
<1>8. ASSUME NEW k \in Slots, conn'[k] # NULL
      PROVE  Good(conn'[k], At(k)', Pos(k)', hdr', payload')
  <2>1. At(k)' = At(k)
    BY <1>1 DEF At
  <2>2. Pos(k)' = "closed"
    BY <1>1, <1>5, CtrlConstants DEF Pos, PosOf
  <2> QED
    BY <1>1, <1>2, <1>8, <2>1, <2>2
<1>9. ConnInv'
  BY <1>8 DEF ConnInv
<1> QED
  BY <1>4, <1>7, <1>9 DEF Inv

Distinct(b) == \A i, j \in DOMAIN b : b[i] = b[j] => i = j

\* The first of the pending connections is taken out.
LEMMA QueueTakes ==
    ASSUME NEW b \in Seq(Slots), b # <<>>, Distinct(b)
    PROVE  /\ Tail(b) \in Seq(Slots) /\ Head(b) \in Slots /\ Distinct(Tail(b))
           /\ Head(b) \in Queued(b) /\ Queued(Tail(b)) = Queued(b) \ {Head(b)}
<1> DEFINE t == Tail(b)
<1>1. /\ t \in Seq(Slots) /\ Head(b) \in Slots /\ Head(b) = b[1] /\ Len(t) = Len(b) - 1
      /\ Len(b) \in Nat /\ Len(b) >= 1
      /\ \A i \in 1 .. Len(t) : t[i] = b[i + 1]
      /\ DOMAIN b = 1 .. Len(b)
  BY Taking
<1> HIDE DEF t
<1>2. DOMAIN t = 1 .. Len(b) - 1
  BY <1>1
<1>3. Distinct(t)
  <2> SUFFICES ASSUME NEW i \in DOMAIN t, NEW j \in DOMAIN t, t[i] = t[j] PROVE i = j
    BY DEF Distinct
  <2>1. b[i + 1] = b[j + 1] /\ i + 1 \in DOMAIN b /\ j + 1 \in DOMAIN b /\ i \in Nat /\ j \in Nat
    BY <1>1, <1>2
  <2>2. i + 1 = j + 1
    BY <2>1 DEF Distinct
  <2> QED
    BY <2>1, <2>2
<1>4. 1 \in DOMAIN b
  BY <1>1
<1>5. Head(b) \in Queued(b)
  BY <1>1, <1>4 DEF Queued
<1>6. ASSUME NEW k \in Queued(t) PROVE k \in Queued(b) /\ k # Head(b)
  <2>1. PICK i \in DOMAIN t : k = t[i]
    BY <1>6 DEF Queued
  <2>2. k = b[i + 1] /\ i + 1 \in DOMAIN b /\ i + 1 # 1
    BY <1>1, <1>2, <2>1
  <2> QED
    BY <1>1, <1>4, <2>2 DEF Queued, Distinct
<1>7. ASSUME NEW k \in Queued(b), k # Head(b) PROVE k \in Queued(t)
  <2>1. PICK i \in DOMAIN b : k = b[i]
    BY <1>7 DEF Queued
  <2>2. i # 1
    BY <1>1, <1>7, <2>1
  <2>3. i - 1 \in DOMAIN t /\ t[i - 1] = b[i]
    BY <1>1, <1>2, <2>2
  <2> QED
    BY <2>1, <2>3 DEF Queued
<1> QED
  BY <1>1, <1>3, <1>5, <1>6, <1>7 DEF t

\* A new connection is the last of the pending ones.
LEMMA QueueAdds ==
    ASSUME NEW b \in Seq(Slots), Distinct(b), NEW k \in Slots, k \notin Queued(b)
    PROVE  /\ Append(b, k) \in Seq(Slots) /\ Distinct(Append(b, k))
           /\ Queued(Append(b, k)) = Queued(b) \cup {k}
<1> DEFINE a == Append(b, k)
<1>1. /\ a \in Seq(Slots) /\ Len(a) = Len(b) + 1 /\ Len(b) \in Nat
      /\ \A i \in 1 .. Len(b) : a[i] = b[i]
      /\ a[Len(b) + 1] = k /\ DOMAIN b = 1 .. Len(b)
  BY Appending
<1> HIDE DEF a
<1>2. DOMAIN a = 1 .. Len(b) + 1
  BY <1>1
<1>3. \A i \in DOMAIN a : (i \in DOMAIN b /\ a[i] = b[i]) \/ (i = Len(b) + 1 /\ a[i] = k)
  BY <1>1, <1>2
<1>4. \A i \in DOMAIN b : b[i] # k /\ i \in DOMAIN a
  BY <1>1, <1>2 DEF Queued
<1>5. Distinct(a)
  BY <1>3, <1>4 DEF Distinct
<1>6. Len(b) + 1 \in DOMAIN a
  BY <1>1, <1>2
<1>7. Queued(a) = Queued(b) \cup {k}
  <2>1. ASSUME NEW x \in Queued(a) PROVE x \in Queued(b) \cup {k}
    BY <1>3, <2>1 DEF Queued
  <2>2. ASSUME NEW x \in Queued(b) \cup {k} PROVE x \in Queued(a)
    BY <1>1, <1>4, <1>6, <2>2 DEF Queued
  <2> QED
    BY <2>1, <2>2
<1> QED
  BY <1>1, <1>5, <1>7 DEF a

\* ctrl_server_main takes the next connection.
LEMMA Accepted ==
    ASSUME Inv, Accept
    PROVE  Inv'
<1>1. /\ alive /\ spc = "accept" /\ backlog # <<>> /\ cur' = Head(backlog)
      /\ backlog' = Tail(backlog) /\ spc' = "hdr" /\ hdr' = hdr /\ payload' = payload
      /\ pc' = pc /\ slot' = slot /\ conn' = conn /\ alive' = alive
  BY DEF Accept, client
<1>2. cur = NULL /\ payload = NULL /\ backlog \in Seq(Slots) /\ Distinct(backlog)
  BY <1>1 DEF Inv, Links, Types, Distinct
<1>3. /\ backlog' \in Seq(Slots) /\ cur' \in Slots /\ Distinct(backlog')
      /\ cur' \in Queued(backlog) /\ Queued(backlog') = Queued(backlog) \ {cur'}
  BY <1>1, <1>2, QueueTakes
<1>4. Types'
  BY <1>1, <1>3 DEF Inv, Types
<1>5. Links'
  <2>1. cur' # NULL /\ conn'[cur'] # NULL /\ cur' \notin Queued(backlog')
    BY <1>1, <1>3, CtrlConstants DEF Inv, Links
  <2>2. \A i, j \in DOMAIN backlog' : backlog'[i] = backlog'[j] => i = j
    BY <1>3 DEF Distinct
  <2>3. \A k \in Queued(backlog') : conn'[k] # NULL
    BY <1>1, <1>3 DEF Inv, Links
  <2> QED
    BY <1>1, <1>2, <2>1, <2>2, <2>3 DEF Inv, Links, InCall
<1>6. ASSUME NEW k \in Slots, conn'[k] # NULL
      PROVE  Good(conn'[k], At(k)', Pos(k)', hdr', payload')
  <2>1. At(k)' = At(k)
    BY <1>1 DEF At
  <2>2. Good(conn[k], At(k), Pos(k), hdr, payload)
    BY <1>1, <1>6 DEF Inv, ConnInv
  <2>3. CASE k = cur'
    <3>1. Pos(k) = "queued" /\ Pos(k)' = "hdr"
      BY <1>1, <1>2, <1>3, <2>3, CtrlConstants DEF Pos, PosOf
    <3>2. Good(conn[k], At(k), "hdr", hdr, payload)
      BY <2>2, <3>1 DEF Good, ServerSide
    <3> QED
      BY <1>1, <2>1, <3>1, <3>2
  <2>4. CASE k # cur'
    <3>1. Pos(k)' = Pos(k)
      BY <1>2, <1>3, <2>4, CtrlConstants DEF Pos, PosOf
    <3> QED
      BY <1>1, <2>1, <2>2, <3>1
  <2> QED
    BY <2>3, <2>4
<1>7. ConnInv'
  BY <1>6 DEF ConnInv
<1> QED
  BY <1>4, <1>5, <1>7 DEF Inv

\* What a process asks for is a request.
LEMMA AsksARequest ==
    ASSUME ProcInv, NEW c \in Clients, pc[c] = (IF c \in Examples THEN "ready" ELSE "off"),
           NEW q \in IF c \in Examples THEN {ExampleRequest(c)} ELSE CtlRequests
    PROVE  q \in Requests
<1>1. CASE c \notin Examples
  BY <1>1 DEF Requests
<1>2. CASE c \in Examples
  <2>1. step[c] \in 1 .. 6 /\ runs[c] \in 1 .. MaxRuns
    BY <1>2, CtrlConstants DEF ProcInv
  <2>2. step[c] \in DOMAIN Script
    BY <2>1 DEF Script
  <2>3. Arg(c, Segment(c)) \in [id : Examples, seg : Examples \X (1 .. MaxRuns)]
    BY <1>2, <2>1 DEF Arg, Segment
  <2>4. q = ExampleRequest(c)
    BY <1>2
  <2> QED
    BY <2>2, <2>3, <2>4 DEF ExampleRequest, Requests
<1> QED
  BY <1>1, <1>2

\* ramdisk_ctrl_transact connects: the connection is new, and the last in the queue.
LEMMA Connected ==
    ASSUME Inv, ProcInv, NEW c \in Clients, Connect(c)
    PROVE  Inv'
<1>1. PICK q \in IF c \in Examples THEN {ExampleRequest(c)} ELSE CtlRequests, k \in Slots :
        /\ conn[k] = NULL /\ conn' = [conn EXCEPT ![k] = NewConn(q)]
        /\ slot' = [slot EXCEPT ![c] = k] /\ backlog' = Append(backlog, k)
  BY Zenon DEF Connect
<1>2. /\ pc[c] = (IF c \in Examples THEN "ready" ELSE "off") /\ alive
      /\ pc' = [pc EXCEPT ![c] = "hdr"] /\ alive' = alive
      /\ spc' = spc /\ cur' = cur /\ hdr' = hdr /\ payload' = payload
  BY DEF Connect, server
<1>3. q \in Requests
  BY <1>2, AsksARequest
<1> DEFINE r == NewConn(q)
<1>4. r \in Conns /\ r # NULL /\ Good(r, "hdr", "queued", hdr', payload')
  BY <1>3, NewIsGood, CtrlConstants
<1> HIDE DEF r
<1>5. /\ conn \in [Slots -> Conns \cup {NULL}] /\ pc \in [Clients -> Places]
      /\ slot \in [Clients -> Slots \cup {NULL}] /\ backlog \in Seq(Slots) /\ Distinct(backlog)
  BY DEF Inv, Types, Links, Distinct
<1>6. k # cur /\ k \notin Queued(backlog) /\ \A d \in Clients : slot[d] # k
  BY <1>1, CtrlConstants DEF Inv, Links
<1>7. /\ backlog' \in Seq(Slots) /\ Distinct(backlog')
      /\ Queued(backlog') = Queued(backlog) \cup {k}
  BY <1>1, <1>5, <1>6, QueueAdds
<1>8. slot[c] = NULL
  BY <1>2 DEF Inv, Links, InCall
<1>9. /\ conn'[k] = r /\ pc'[c] = "hdr" /\ slot'[c] = k
      /\ \A j \in Slots \ {k} : conn'[j] = conn[j]
      /\ \A d \in Clients \ {c} : pc'[d] = pc[d] /\ slot'[d] = slot[d]
  BY <1>1, <1>2, <1>5 DEF r
<1>10. Types'
  BY <1>1, <1>2, <1>4, <1>5, <1>7 DEF Inv, Types, Places, r
<1>11. Links'
  <2>1. \A d \in Clients : InCall(d)' <=> slot'[d] # NULL
    BY <1>9, CtrlConstants DEF Inv, Links, InCall
  <2>2. \A d, e \in Clients : slot'[d] # NULL /\ slot'[d] = slot'[e] => d = e
    <3>1. \A d, e \in Clients : slot[d] # NULL /\ slot[d] = slot[e] => d = e
      BY DEF Inv, Links
    <3> SUFFICES ASSUME NEW d \in Clients, NEW e \in Clients,
                        slot'[d] # NULL, slot'[d] = slot'[e], d # e
                 PROVE  FALSE
      BY Zenon
    <3>2. CASE d = c
      BY Zenon, <1>6, <1>9, <3>2
    <3>3. CASE e = c
      BY Zenon, <1>6, <1>9, <3>3
    <3>4. CASE d # c /\ e # c
      BY Zenon, <1>9, <3>1, <3>4
    <3> QED
      BY Zenon, <3>2, <3>3, <3>4
  <2>3. \A j \in Slots : conn[j] # NULL => conn'[j] # NULL
    BY <1>1, <1>9
  <2>4. \A d \in Clients : slot'[d] # NULL => conn'[slot'[d]] # NULL
    <3>1. \A d \in Clients : slot[d] # NULL => slot[d] \in Slots /\ conn[slot[d]] # NULL
      BY <1>5 DEF Inv, Links
    <3> QED
      BY <1>4, <1>9, <2>3, <3>1
  <2>5. cur' # NULL => conn'[cur'] # NULL /\ cur' \notin Queued(backlog')
    BY <1>2, <1>6, <1>7, <2>3 DEF Inv, Links, Types
  <2>6. \A j \in Queued(backlog) : j \in Slots
    BY QueuedAreSlots DEF Inv
  <2>7. \A j \in Queued(backlog') : conn'[j] # NULL
    BY <1>4, <1>7, <1>9, <2>3, <2>6 DEF Inv, Links
  <2>8. \A i, j \in DOMAIN backlog' : backlog'[i] = backlog'[j] => i = j
    BY <1>7 DEF Distinct
  <2> QED
    BY <1>2, <2>1, <2>2, <2>4, <2>5, <2>7, <2>8 DEF Inv, Links
<1>12. ASSUME NEW j \in Slots, conn'[j] # NULL
       PROVE  Good(conn'[j], At(j)', Pos(j)', hdr', payload')
  <2>1. CASE j = k
    <3>1. \A d \in Clients : slot'[d] = k => d = c
      BY <1>6, <1>9
    <3>2. At(j)' = "hdr"
      BY <1>9, <2>1, <3>1, AtIsNext
    <3>3. Pos(j)' = "queued"
      BY <1>2, <1>6, <1>7, <2>1 DEF Pos, PosOf
    <3> QED
      BY <1>4, <1>9, <2>1, <3>2, <3>3
  <2>2. CASE j # k
    <3>1. /\ \A d \in Clients : slot[d] = j <=> slot'[d] = j
          /\ \A d \in Clients : slot[d] = j => pc[d] = pc'[d]
      BY <1>8, <1>9, <2>2, CtrlConstants
    <3>2. \A d, e \in Clients : slot[d] = j /\ slot[e] = j => d = e
      BY CtrlConstants DEF Inv, Links
    <3>3. At(j)' = At(j)
      BY <3>1, <3>2, AtSameNext
    <3>4. Pos(j)' = Pos(j)
      BY <1>2, <1>7, <2>2 DEF Pos, PosOf
    <3>5. Good(conn[j], At(j), Pos(j), hdr, payload)
      BY <1>9, <1>12, <2>2 DEF Inv, ConnInv
    <3> QED
      BY <1>2, <1>9, <2>2, <3>3, <3>4, <3>5
  <2> QED
    BY <2>1, <2>2
<1>13. ConnInv'
  BY <1>12 DEF ConnInv
<1> QED
  BY <1>10, <1>11, <1>13 DEF Inv

\* A process outside a call does what it likes.
LEMMA OutsideCalls ==
    ASSUME Inv, NEW c \in Clients, slot[c] = NULL, NEW x \in {"off", "ready"},
           pc' = [pc EXCEPT ![c] = x], slot' = [slot EXCEPT ![c] = NULL],
           UNCHANGED <<conn, alive, backlog, spc, cur, hdr, payload>>
    PROVE  Inv'
<1>1. /\ slot' = slot /\ pc \in [Clients -> Places]
      /\ slot \in [Clients -> Slots \cup {NULL}]
  BY DEF Inv, Types
<1>2. pc'[c] = x /\ \A d \in Clients \ {c} : pc'[d] = pc[d]
  BY <1>1
<1>3. Types'
  BY <1>1 DEF Inv, Types, Places
<1>4. \A d \in Clients : InCall(d)' <=> slot'[d] # NULL
  BY <1>1, <1>2 DEF Inv, Links, InCall
<1>5. Links'
  BY <1>1, <1>4 DEF Inv, Links
<1>6. ASSUME NEW j \in Slots PROVE At(j)' = At(j) /\ Pos(j)' = Pos(j)
  <2>1. /\ \A d \in Clients : slot[d] = j <=> slot'[d] = j
        /\ \A d \in Clients : slot[d] = j => pc[d] = pc'[d]
    BY <1>1, <1>2, CtrlConstants
  <2>2. \A d, e \in Clients : slot[d] = j /\ slot[e] = j => d = e
    BY CtrlConstants DEF Inv, Links
  <2>3. At(j)' = At(j)
    BY <2>1, <2>2, AtSameNext
  <2> QED
    BY <2>3 DEF Pos
<1>7. ConnInv'
  BY <1>6 DEF Inv, ConnInv
<1> QED
  BY <1>3, <1>5, <1>7 DEF Inv

-----------------------------------------------------------------------------
(* The steps.                                                               *)

\* Every operation ends with a status.
LEMMA OutcomesAreCodes ==
    ASSUME NEW op \in Ops, NEW a, NEW t, NEW o \in Outcomes(op, a, t)
    PROVE  o.rc \in Codes
<1>1. CASE op \in {"status", "query", "enable", "disable", "short", "huge", "unknown"}
  BY <1>1 DEF Outcomes, HasData, Codes
<1>2. CASE op = "connect"
  BY <1>2 DEF Outcomes, HasData, Codes
<1>3. CASE op = "disconnect"
  BY <1>3 DEF Outcomes, HasData, Codes
<1>4. CASE op = "transfer"
  BY <1>4 DEF Outcomes, HasData, Codes
<1> QED
  BY <1>1, <1>2, <1>3, <1>4 DEF Ops

\* A process ends in a call or outside of one.
LEMMA InvEnds ==
    ASSUME Inv, NEW c \in Clients, Ends(c)
    PROVE  Inv'
<1>1. /\ pc' = [pc EXCEPT ![c] = "off"] /\ slot' = [slot EXCEPT ![c] = NULL]
      /\ UNCHANGED <<alive, backlog, spc, cur, hdr, payload>>
  BY DEF Ends, daemon, server
<1>2. CASE slot[c] = NULL
  <2>1. conn' = conn
    BY <1>2 DEF Ends
  <2> QED
    BY Zenon, <1>1, <1>2, <2>1, OutsideCalls
<1>3. CASE slot[c] # NULL
  <2> DEFINE k == slot[c]
             t == IF conn[k].told = "waiting" THEN "gone" ELSE conn[k].told
  <2>1. k \in Slots /\ conn[k] \in Conns /\ Good(conn[k], pc[c], Pos(k), hdr, payload)
    BY <1>3, Mine
  <2>2. conn' = [conn EXCEPT ![k] = ClientCloses(k, t)]
    BY <1>3 DEF Ends
  <2>3. t \in Told /\ t # "waiting" /\ (conn[k].ran = NULL => t = "gone")
    BY <2>1 DEF Good, Answer, Conns, Told
  <2> HIDE DEF t
  <2> QED
    BY Zenon, <1>1, <1>3, <2>2, <2>3, ClientLeaves
<1> QED
  BY <1>2, <1>3

\* write_full of the client, to an end that is open or closed.
LEMMA InvSends ==
    ASSUME Inv, NEW c \in Clients, SendHdr(c) \/ SendPayload(c)
    PROVE  Inv'
<1> DEFINE k == slot[c]
<1>1. slot[c] # NULL
  BY DEF SendHdr, SendPayload, Inv, Links, InCall
<1>2. /\ k \in Slots /\ conn[k] \in Conns /\ Good(conn[k], pc[c], Pos(k), hdr, payload)
      /\ conn \in [Slots -> Conns \cup {NULL}]
  BY <1>1, Mine DEF Inv, Types
<1>3. CASE ~conn[k].send
  <2>1. Ends(c)
    BY <1>3 DEF SendHdr, SendPayload, Send
  <2> QED
    BY <2>1, InvEnds
<1>4. CASE conn[k].send /\ SendHdr(c)
  <2> DEFINE r == [conn[k] EXCEPT !.up = Append(@, conn[k].req.op)]
             x == IF HasPayload(conn[k].req.op) THEN "payload" ELSE "resp"
  <2>1. /\ pc[c] = "hdr" /\ conn' = [conn EXCEPT ![k].up = Append(@, conn[k].req.op)]
        /\ pc' = [pc EXCEPT ![c] = x]
        /\ UNCHANGED <<slot, alive, backlog, spc, cur, hdr, payload>>
    BY <1>4 DEF SendHdr, Send, daemon, server
  <2>2. conn' = [conn EXCEPT ![k] = r]
    BY <1>2, <2>1
  <2>3. r \in Conns /\ Good(r, x, Pos(k), hdr, payload)
    BY <1>2, <1>4, <2>1, SendHdrIsGood
  <2>4. x \in {"hdr", "payload", "resp", "data", "close"}
    OBVIOUS
  <2> HIDE DEF r, x
  <2>5. pc' = [pc EXCEPT ![c] = x] /\ UNCHANGED <<slot, alive, backlog, spc, cur, hdr, payload>>
    BY <2>1
  <2> QED
    BY Zenon, <1>1, <2>2, <2>3, <2>4, <2>5, ClientMoves
<1>5. CASE conn[k].send /\ SendPayload(c)
  <2> DEFINE r == [conn[k] EXCEPT !.up = Append(@, conn[k].req.arg)]
  <2>1. /\ pc[c] = "payload" /\ conn' = [conn EXCEPT ![k].up = Append(@, conn[k].req.arg)]
        /\ pc' = [pc EXCEPT ![c] = "resp"]
        /\ UNCHANGED <<slot, alive, backlog, spc, cur, hdr, payload>>
    BY <1>5 DEF SendPayload, Send, daemon, server
  <2>2. conn' = [conn EXCEPT ![k] = r]
    BY <1>2, <2>1
  <2>3. r \in Conns /\ Good(r, "resp", Pos(k), hdr, payload)
    BY Zenon, <1>2, <1>5, <2>1, SendPayloadIsGood
  <2> HIDE DEF r
  <2> QED
    BY Zenon, <1>1, <2>1, <2>2, <2>3, ClientMoves
<1> QED
  BY <1>3, <1>4, <1>5

\* What ramdisk_ctrl_transact does when it is told something, or reads on.
IsTold(c, t) ==
    /\ conn[slot[c]].ran # NULL /\ t \in Codes \cup {"failed"}
    /\ t \in {conn[slot[c]].ran, "failed"}
    /\ conn' = [conn EXCEPT ![slot[c]].told = t]
    /\ pc' = [pc EXCEPT ![c] = "close"]

\* read_full of the client: it is told something that the request ran to, or an error
\* of the call when the request has run or is lost; or it reads on.
LEMMA Receives ==
    ASSUME Inv, NEW c \in Clients, RecvResp(c) \/ RecvData(c)
    PROVE  /\ slot[c] # NULL /\ pc[c] \in {"resp", "data"}
           /\ UNCHANGED <<slot, alive, table, backlog, spc, cur, hdr, payload>>
           /\ \/ \E t : IsTold(c, t)
              \/ /\ pc[c] = "resp" /\ conn[slot[c]].down # <<>> /\ conn[slot[c]].req.op = "status"
                 /\ conn' = [conn EXCEPT ![slot[c]].down = Tail(@)]
                 /\ pc' = [pc EXCEPT ![c] = "data"]
<1> DEFINE k == slot[c]
<1>1. slot[c] # NULL /\ pc[c] \in {"resp", "data"}
  BY DEF RecvResp, RecvData, Inv, Links, InCall
<1>2. k \in Slots /\ conn[k] \in Conns /\ Answer(conn[k])
  BY <1>1, Mine DEF Good
<1>3. UNCHANGED <<slot, alive, table, backlog, spc, cur, hdr, payload>>
  BY DEF RecvResp, RecvData, daemon, server
<1>4. \/ conn[k].down # <<>> /\ Out(c, k, Head(conn[k].down))
      \/ conn[k].down # <<>> /\ Out(c, k, "failed")
      \/ conn[k].down = <<>> /\ ~conn[k].send /\ Out(c, k, "failed")
      \/ /\ pc[c] = "resp" /\ conn[k].down # <<>> /\ conn[k].req.op = "status"
         /\ conn' = [conn EXCEPT ![k].down = Tail(@)]
         /\ pc' = [pc EXCEPT ![c] = "data"]
  BY DEF RecvResp, RecvData
<1>5. CASE conn[k].down # <<>> /\ Out(c, k, Head(conn[k].down))
  BY Zenon, <1>1, <1>2, <1>3, <1>5, AnswerIsRan DEF Out, IsTold
<1>6. CASE conn[k].down # <<>> /\ Out(c, k, "failed")
  BY Zenon, <1>1, <1>2, <1>3, <1>6, AnswerIsRan DEF Out, IsTold
<1>7. CASE conn[k].down = <<>> /\ ~conn[k].send /\ Out(c, k, "failed")
  BY Zenon, <1>1, <1>2, <1>3, <1>7 DEF Out, IsTold, Answer
<1> QED
  BY <1>1, <1>3, <1>4, <1>5, <1>6, <1>7

\* read_full of the client.
LEMMA InvReceives ==
    ASSUME Inv, NEW c \in Clients, RecvResp(c) \/ RecvData(c)
    PROVE  Inv'
<1> DEFINE k == slot[c]
<1>1. /\ slot[c] # NULL /\ pc[c] \in {"resp", "data"}
      /\ UNCHANGED <<slot, alive, backlog, spc, cur, hdr, payload>>
  BY Zenon, Receives
<1>2. /\ k \in Slots /\ conn[k] \in Conns /\ Good(conn[k], pc[c], Pos(k), hdr, payload)
      /\ conn \in [Slots -> Conns \cup {NULL}]
  BY <1>1, Mine DEF Inv, Types
<1>3. ASSUME NEW t, IsTold(c, t) PROVE Inv'
  <2> DEFINE r == [conn[k] EXCEPT !.told = t]
  <2>1. r \in Conns /\ Good(r, "close", Pos(k), hdr, payload)
    BY Zenon, <1>1, <1>2, <1>3, OutIsGood DEF IsTold
  <2>2. conn' = [conn EXCEPT ![k] = r] /\ pc' = [pc EXCEPT ![c] = "close"]
    BY <1>2, <1>3 DEF IsTold
  <2> HIDE DEF r
  <2> QED
    BY Zenon, <1>1, <2>1, <2>2, ClientMoves
<1>4. CASE /\ pc[c] = "resp" /\ conn[k].down # <<>> /\ conn[k].req.op = "status"
           /\ conn' = [conn EXCEPT ![k].down = Tail(@)]
           /\ pc' = [pc EXCEPT ![c] = "data"]
  <2> DEFINE r == [conn[k] EXCEPT !.down = Tail(@)]
  <2>1. r \in Conns /\ Good(r, "data", Pos(k), hdr, payload)
    BY Zenon, <1>2, <1>4, RecvRespIsGood
  <2>2. conn' = [conn EXCEPT ![k] = r] /\ pc' = [pc EXCEPT ![c] = "data"]
    BY <1>2, <1>4
  <2> HIDE DEF r
  <2> QED
    BY Zenon, <1>1, <2>1, <2>2, ClientMoves
<1> QED
  BY <1>3, <1>4, Receives

\* close of the client.
LEMMA InvCloses ==
    ASSUME Inv, NEW c \in Clients, Close(c)
    PROVE  Inv'
<1> DEFINE k == slot[c]
           t == conn[k].told
<1>1. slot[c] # NULL /\ pc[c] = "close"
  BY DEF Close, Inv, Links, InCall
<1>2. k \in Slots /\ conn[k] \in Conns /\ Good(conn[k], "close", Pos(k), hdr, payload)
  BY <1>1, Mine
<1>3. t \in Told /\ t # "waiting" /\ (conn[k].ran = NULL => t = "gone")
  BY <1>2 DEF Good, ClientSide, Answer, Conns
<1>4. /\ conn' = [conn EXCEPT ![k] = ClientCloses(k, t)]
      /\ slot' = [slot EXCEPT ![c] = NULL]
      /\ UNCHANGED <<alive, backlog, spc, cur, hdr, payload>>
  BY DEF Close, Proceeds, daemon, server
<1>5. pc' = [pc EXCEPT ![c] = "ready"] \/ pc' = [pc EXCEPT ![c] = "off"]
  BY Zenon DEF Close, Proceeds
<1> HIDE DEF t
<1> QED
  BY Zenon, <1>1, <1>3, <1>4, <1>5, ClientLeaves

\* A process starts, or gives up before it calls.
LEMMA InvOutside ==
    ASSUME Inv, NEW c \in Clients, StartExample(c) \/ ConnectRefused(c)
    PROVE  Inv'
<1>1. slot[c] = NULL /\ pc[c] \in {"off", "ready"}
  BY DEF StartExample, ConnectRefused, Inv, Links, InCall
<1>2. UNCHANGED <<conn, alive, backlog, spc, cur, hdr, payload>>
  BY DEF StartExample, ConnectRefused, daemon, server
<1>3. slot' = [slot EXCEPT ![c] = NULL] /\ pc \in [Clients -> Places]
  BY <1>1 DEF StartExample, ConnectRefused, Proceeds, Inv, Types
<1>4. \/ pc' = [pc EXCEPT ![c] = "ready"] \/ pc' = [pc EXCEPT ![c] = "off"]
      \/ pc' = [pc EXCEPT ![c] = pc[c]]
  BY <1>3 DEF StartExample, ConnectRefused, Proceeds
<1> QED
  BY Zenon, <1>1, <1>2, <1>3, <1>4, OutsideCalls

\* read_full of the control thread.
LEMMA InvReads ==
    ASSUME Inv, ReadHdr \/ ReadPayload
    PROVE  Inv'
<1>1. cur # NULL /\ spc \in {"hdr", "payload"} /\ payload = NULL
  BY DEF ReadHdr, ReadPayload, Inv, Links
<1>2. /\ cur \in Slots /\ conn[cur] \in Conns /\ conn \in [Slots -> Conns \cup {NULL}]
      /\ Good(conn[cur], At(cur), spc, hdr, payload)
  BY <1>1, Served DEF Inv, Types
<1> DEFINE r == [conn[cur] EXCEPT !.up = Tail(@)]
<1>3. CASE AtEOF /\ CloseClient
  <2>1. ~conn[cur].cend
    BY <1>3 DEF AtEOF
  <2> QED
    BY <1>1, <1>3, <2>1, ServerLeaves
<1>4. CASE /\ spc = "hdr" /\ conn[cur].up # <<>> /\ hdr' = Head(conn[cur].up)
           /\ conn' = [conn EXCEPT ![cur].up = Tail(@)]
           /\ spc' = (IF HasPayload(hdr') /\ hdr' # "huge" THEN "payload" ELSE "run")
           /\ UNCHANGED <<client, alive, table, backlog, cur, payload>>
  <2>1. /\ hdr' = conn[cur].req.op /\ r \in Conns
        /\ Good(r, At(cur), spc', hdr', payload')
    BY <1>1, <1>2, <1>4, ReadHdrIsGood
  <2>2. conn' = [conn EXCEPT ![cur] = r]
    BY <1>2, <1>4
  <2>3. /\ spc' \in {"hdr", "payload", "run", "resp", "data", "close"}
        /\ payload' \in Args /\ payload' = NULL
        /\ UNCHANGED <<pc, slot, alive, backlog, cur>>
    BY <1>1, <1>4 DEF client, Args
  <2> HIDE DEF r
  <2> QED
    BY Zenon, <1>1, <2>1, <2>2, <2>3, ServerMoves
<1>5. CASE /\ spc = "payload" /\ AtEOF /\ payload' \in Args /\ UNCHANGED conn /\ spc' = "run"
           /\ UNCHANGED <<client, alive, table, backlog, cur, hdr>>
  <2>1. Good(conn[cur], At(cur), "run", hdr, payload')
    BY <1>2, <1>5, NoPayloadIsGood DEF AtEOF
  <2>2. conn' = [conn EXCEPT ![cur] = conn[cur]]
    BY <1>2, <1>5
  <2>3. /\ UNCHANGED <<pc, slot, alive, backlog, cur>> /\ hdr' = hdr
        /\ spc' = "run" /\ payload' \in Args
    BY <1>5 DEF client
  <2> DEFINE q == conn[cur]
  <2>4. q \in Conns /\ Good(q, At(cur), spc', hdr', payload') /\ conn' = [conn EXCEPT ![cur] = q]
    BY <1>2, <2>1, <2>2, <2>3
  <2> HIDE DEF q
  <2> QED
    BY Zenon, <1>1, <2>3, <2>4, ServerMoves
<1>6. CASE /\ spc = "payload" /\ conn[cur].up # <<>> /\ payload' = Head(conn[cur].up)
           /\ conn' = [conn EXCEPT ![cur].up = Tail(@)] /\ spc' = "run"
           /\ UNCHANGED <<client, alive, table, backlog, cur, hdr>>
  <2>1. payload' \in Args /\ r \in Conns /\ Good(r, At(cur), spc', hdr', payload')
    BY Zenon, <1>2, <1>6, ReadPayloadIsGood
  <2>2. conn' = [conn EXCEPT ![cur] = r]
    BY <1>2, <1>6
  <2>3. UNCHANGED <<pc, slot, alive, backlog, cur>> /\ spc' = "run"
    BY <1>6 DEF client
  <2> HIDE DEF r
  <2> QED
    BY Zenon, <1>1, <2>1, <2>2, <2>3, ServerMoves
<1> QED
  BY <1>3, <1>4, <1>5, <1>6 DEF ReadHdr, ReadPayload

\* handle_request up to its response.
LEMMA InvHandles ==
    ASSUME Inv, Handle
    PROVE  Inv'
<1>1. cur # NULL /\ spc = "run"
  BY DEF Handle, Inv, Links
<1>2. /\ cur \in Slots /\ conn[cur] \in Conns /\ conn \in [Slots -> Conns \cup {NULL}]
      /\ Good(conn[cur], At(cur), "run", hdr, payload)
  BY <1>1, Served DEF Inv, Types
<1>3. hdr \in Ops
  <2>1. conn[cur].req \in Requests /\ hdr = conn[cur].req.op
    BY <1>2 DEF Conns, Good, ServerSide
  <2> QED
    BY <2>1, RequestsAreRequests
<1>4. PICK o \in Outcomes(hdr, payload, table) : conn' = [conn EXCEPT ![cur].ran = o.rc]
  BY Zenon DEF Handle
<1> DEFINE r == [conn[cur] EXCEPT !.ran = o.rc]
<1>5. o.rc \in Codes
  BY <1>3, OutcomesAreCodes
<1>6. /\ spc' = "resp" /\ payload' = NULL /\ hdr' = hdr /\ payload' \in Args
      /\ UNCHANGED <<pc, slot, alive, backlog, cur>>
  BY DEF Handle, client, Args
<1>7. r \in Conns /\ Good(r, At(cur), spc', hdr', payload')
  BY <1>2, <1>5, <1>6, HandleIsGood
<1>8. conn' = [conn EXCEPT ![cur] = r]
  BY <1>2, <1>4
<1> HIDE DEF r
<1> QED
  BY Zenon, <1>1, <1>6, <1>7, <1>8, ServerMoves

\* send_response of the control thread.
LEMMA InvResponds ==
    ASSUME Inv, Respond \/ RespondData
    PROVE  Inv'
<1>1. cur # NULL /\ spc \in {"resp", "data"} /\ payload = NULL
  BY DEF Respond, RespondData, Inv, Links
<1>2. /\ cur \in Slots /\ conn[cur] \in Conns /\ conn \in [Slots -> Conns \cup {NULL}]
      /\ Good(conn[cur], At(cur), spc, hdr, payload)
  BY <1>1, Served DEF Inv, Types
<1>3. CASE Dies
  BY <1>3, AllLost
<1>4. CASE ~Dies
  <2> DEFINE r == [conn[cur] EXCEPT !.down = Append(@, conn[cur].ran)]
  <2>1. /\ conn' = [conn EXCEPT ![cur].down = Append(@, conn[cur].ran)]
        /\ hdr' = hdr /\ payload' = payload /\ UNCHANGED <<pc, slot, alive, backlog, cur>>
    BY <1>4 DEF Respond, RespondData, client
  <2>2. \/ /\ spc = "resp"
           /\ spc' = (IF HasData(hdr) THEN "data" ELSE IF hdr = "huge" THEN "close" ELSE "hdr")
        \/ spc = "data" /\ spc' = "hdr"
    BY <1>4 DEF Respond, RespondData
  <2>3. r \in Conns /\ Good(r, At(cur), spc', hdr', payload')
    <3>1. CASE spc = "resp"
      <4>1. Good(conn[cur], At(cur), "resp", hdr, payload)
        BY <1>2, <3>1
      <4>2. /\ r \in Conns
            /\ Good(r, At(cur), IF HasData(hdr) THEN "data" ELSE IF hdr = "huge" THEN "close" ELSE "hdr",
                    hdr, payload)
        BY <1>2, <4>1, RespondIsGood
      <4> QED
        BY <2>1, <2>2, <3>1, <4>2
    <3>2. CASE spc = "data"
      <4>1. Good(conn[cur], At(cur), "data", hdr, payload)
        BY <1>2, <3>2
      <4>2. r \in Conns /\ Good(r, At(cur), "hdr", hdr, payload)
        BY <1>2, <4>1, RespondDataIsGood
      <4> QED
        BY <2>1, <2>2, <3>2, <4>2
    <3> QED
      BY <1>1, <3>1, <3>2
  <2>4. conn' = [conn EXCEPT ![cur] = r]
    BY <1>2, <2>1
  <2>5. /\ spc' \in {"hdr", "payload", "run", "resp", "data", "close"}
        /\ payload' \in Args /\ payload' = NULL
    BY <1>1, <2>1, <2>2 DEF Args
  <2> HIDE DEF r
  <2> QED
    BY Zenon, <1>1, <2>1, <2>3, <2>4, <2>5, ServerMoves
<1> QED
  BY <1>3, <1>4

\* serve_client gives up a connection with a header it refused.
LEMMA InvRefuses ==
    ASSUME Inv, Refused
    PROVE  Inv'
<1>1. cur # NULL /\ spc = "close" /\ CloseClient
  BY DEF Refused, Inv, Links
<1>2. conn[cur] \in Conns /\ Good(conn[cur], At(cur), "close", hdr, payload)
  BY <1>1, Served
<1>3. conn[cur].ran # NULL
  BY <1>2, CtrlConstants DEF Good, ServerSide
<1> QED
  BY <1>1, <1>3, ServerLeaves

\* Every step keeps the invariant.
LEMMA InvStep ==
    ASSUME Inv, ProcInv, [Next]_vars
    PROVE  Inv'
<1>1. ASSUME UNCHANGED <<pc, slot, conn, backlog, spc, cur, hdr, payload>>,
             alive' = TRUE \/ alive' = alive
      PROVE  Inv'
  <2>1. \A k \in Slots : At(k)' = At(k) /\ Pos(k)' = Pos(k)
    BY <1>1 DEF At, Pos
  <2>2. ConnInv'
    BY <1>1, <2>1 DEF Inv, ConnInv
  <2>3. Types'
    BY <1>1 DEF Inv, Types
  <2>4. Links'
    BY <1>1 DEF Inv, Links, InCall
  <2> QED
    BY <2>2, <2>3, <2>4 DEF Inv
<1>2. ASSUME NEW c \in Clients, StartExample(c) \/ ConnectRefused(c) PROVE Inv'
  BY <1>2, InvOutside
<1>3. ASSUME NEW c \in Clients, Connect(c) PROVE Inv'
  BY <1>3, Connected
<1>4. ASSUME NEW c \in Clients, InTransact(c) PROVE Inv'
  BY <1>4, InvSends, InvReceives, InvCloses DEF InTransact
<1>5. ASSUME NEW c \in Clients, Kill(c) PROVE Inv'
  BY <1>5, InvEnds DEF Kill
<1>6. CASE Serve
  BY <1>6, Accepted, InvReads, InvHandles, InvResponds, InvRefuses DEF Serve
<1>7. CASE DaemonKilled
  BY <1>7, AllLost DEF DaemonKilled
<1>8. CASE DaemonStarts
  BY <1>8, <1>1 DEF DaemonStarts, client, server
<1>9. CASE UNCHANGED vars
  BY <1>9, <1>1 DEF vars, client, daemon, server
<1> QED
  BY <1>2, <1>3, <1>4, <1>5, <1>6, <1>7, <1>8, <1>9 DEF Next

\* No connection is there at first.
LEMMA InvInitially == Init => Inv
<1> SUFFICES ASSUME Init PROVE Inv
  OBVIOUS
<1>1. Types
  BY DEF Init, Types, Places, Args
<1>2. Queued(backlog) = {}
  BY DEF Init, Queued
<1>3. Links
  BY <1>2 DEF Init, Links, InCall
<1>4. ConnInv
  BY DEF Init, ConnInv
<1> QED
  BY <1>1, <1>3, <1>4 DEF Inv

\* The inductive invariant holds.
LEMMA Invariant == Spec => [](ProcInv /\ Inv)
  BY ProcInitially, InvInitially, ProcStep, InvStep, PTL DEF Spec

\* A header and a payload are two messages at most.
LEMMA AtMostTwo ==
    ASSUME NEW a, NEW b, NEW s, s \in {<<>>, <<a>>, <<b>>, <<a, b>>}
    PROVE  Len(s) <= 2
<1>1. CASE s = <<a, b>>
  BY <1>1
<1>2. CASE s = <<a>>
  BY <1>2
<1>3. CASE s = <<b>>
  BY <1>3
<1>4. CASE s = <<>>
  BY <1>4
<1> QED
  BY <1>1, <1>2, <1>3, <1>4

\* What the invariant says of one connection, in the words of TypeOK.
LEMMA ConnTypes ==
    ASSUME Inv, NEW k \in Slots, conn[k] # NULL
    PROVE  /\ conn[k].req \in Requests
           /\ Len(conn[k].up) <= 2 /\ Len(conn[k].down) <= 2
           /\ conn[k].cend <=> \E c \in Clients : slot[c] = k
           /\ conn[k].send <=> k = cur \/ \E i \in DOMAIN backlog : backlog[i] = k
<1> DEFINE r == conn[k]
<1>1. r \in Conns /\ Good(r, At(k), Pos(k), hdr, payload)
  BY DEF Inv, Types, ConnInv
<1>2. Pos(k) # "closed" <=> k = cur \/ \E i \in DOMAIN backlog : backlog[i] = k
  BY DEF Pos, PosOf, Queued, Inv, Types
<1>3. r.cend <=> \E c \in Clients : slot[c] = k
  <2>1. ASSUME NEW c \in Clients, slot[c] = k PROVE At(k) # "gone"
    <3>1. At(k) = pc[c]
      BY <2>1, Mine, CtrlConstants
    <3> QED
      BY <3>1 DEF Inv, Types, Places
  <2>2. ASSUME \A c \in Clients : slot[c] # k PROVE At(k) = "gone"
    BY <2>2, AtGone DEF At
  <2> QED
    BY <1>1, <2>1, <2>2 DEF Good, ClientSide, Conns
<1>4. Len(r.up) <= 2
  <2>1. r.up \in {<<>>, <<r.req.op>>, <<r.req.arg>>, <<r.req.op, r.req.arg>>}
    <3> USE DEF Unread, HdrRead, AllRead, Rest, Full
    <3>1. At(k) \in {"hdr", "payload", "resp", "data", "close", "gone"}
      BY <1>1 DEF Good, ClientSide
    <3>2. Unread(r, At(k)) \/ HdrRead(r, At(k)) \/ r.up = <<>>
      BY Zenon, <1>1 DEF Good, ServerSide
    <3> QED
      BY <3>1, <3>2
  <2> QED
    BY Zenon, <2>1, AtMostTwo
<1> QED
  BY <1>1, <1>2, <1>3, <1>4 DEF Good, Answer, ServerSide, Conns

\* Clients, connections and the control thread agree about each other: a client
\* inside a call has an open connection of its own, what is pending or served is
\* open for the daemon, and no connection ever carries more than one request
\* and its answer.
THEOREM TypesHold == Spec => []TypeOK
<1>1. ProcInv /\ Inv => TypeOK
  <2> SUFFICES ASSUME ProcInv, Inv PROVE TypeOK
    OBVIOUS
  <2>1. /\ pc \in [Clients -> {"off", "ready", "hdr", "payload", "resp", "data", "close"}]
        /\ step \in [Clients -> 0 .. Len(Script)] /\ runs \in [Clients -> 0 .. MaxRuns]
    BY DEF ProcInv, Places, Script
  <2>2. ASSUME NEW c \in Clients
        PROVE  /\ InCall(c) <=> slot[c] # NULL
               /\ InCall(c) => conn[slot[c]] # NULL /\ conn[slot[c]].cend
               /\ \A d \in Clients \ {c} : slot[c] # NULL => slot[d] # slot[c]
    <3>1. InCall(c) <=> slot[c] # NULL
      BY DEF Inv, Links
    <3>2. slot[c] # NULL => slot[c] \in Slots /\ conn[slot[c]] # NULL
      BY DEF Inv, Links, Types
    <3>3. \A d \in Clients \ {c} : slot[c] # NULL => slot[d] # slot[c]
      BY DEF Inv, Links
    <3> QED
      BY <3>1, <3>2, <3>3, ConnTypes
  <2>3. /\ spc \in {"accept", "hdr", "payload", "run", "resp", "data", "close"}
        /\ payload \in Args
        /\ spc = "accept" <=> cur = NULL
    BY DEF Inv, Types, Links
  <2> QED
    BY <2>1, <2>2, <2>3, ConnTypes DEF TypeOK
<1> QED
  BY Invariant, <1>1, PTL

-----------------------------------------------------------------------------
(* What each step is to CtrlService.                                        *)

\* What CtrlService sees of a connection.
LEMMA CallOnIs ==
    ASSUME NEW r \in Conns
    PROVE  /\ CallOn(r) = [req |-> r.req, ran |-> r.ran, told |-> r.told]
           /\ CallOn(r) \in Calls /\ CallOn(r) # NULL /\ CallOn(NULL) = NULL
           /\ CallOn(r).req = r.req /\ CallOn(r).ran = r.ran /\ CallOn(r).told = r.told
<1>1. r # NULL
  BY CtrlConstants
<1>2. CallOn(r) = [req |-> r.req, ran |-> r.ran, told |-> r.told] /\ CallOn(NULL) = NULL
  BY <1>1 DEF CallOn
<1>3. CallOn(r) \in Calls
  BY <1>2 DEF Calls, Conns
<1>4. CallOn(r).req = r.req /\ CallOn(r).ran = r.ran /\ CallOn(r).told = r.told
  BY <1>2
<1> QED
  BY <1>2, <1>3, <1>4, CtrlConstants

\* The call on one connection changes.
LEMMA CallsAfter ==
    ASSUME Types, NEW k \in Slots, NEW r, conn' = [conn EXCEPT ![k] = r]
    PROVE  CallsMade' = [CallsMade EXCEPT ![k] = CallOn(r)] /\ CallsMade[k] = CallOn(conn[k])
<1>1. conn \in [Slots -> Conns \cup {NULL}]
  BY DEF Types
<1>2. \A j \in Slots : conn'[j] = IF j = k THEN r ELSE conn[j]
  BY <1>1
<1>3. \A j \in Slots : CallOn(conn'[j]) = IF j = k THEN CallOn(r) ELSE CallOn(conn[j])
  BY <1>2
<1>4. CallsMade' = [j \in Slots |-> IF j = k THEN CallOn(r) ELSE CallOn(conn[j])]
  BY <1>3 DEF CallsMade
<1> QED
  BY Zenon, <1>4 DEF CallsMade

\* A step that leaves the call on the one connection it changes is none of CtrlService.
LEMMA AsStutter ==
    ASSUME Types, NEW k \in Slots, NEW r, conn' = [conn EXCEPT ![k] = r],
           CallOn(r) = CallOn(conn[k]), table' = table
    PROVE  UNCHANGED Service!vars
<1>1. CallsMade' = [CallsMade EXCEPT ![k] = CallsMade[k]]
  BY Zenon, CallsAfter
<1>2. CallsMade' = CallsMade
  BY <1>1 DEF CallsMade
<1> QED
  BY <1>2 DEF Service!vars

\* An answer, or an error of the call itself.
LEMMA AsTold ==
    ASSUME Types, NEW k \in Slots, conn[k] \in Conns, conn[k].told = "waiting",
           conn[k].ran # NULL, NEW t, t \in Codes \cup {"failed"}, t \in {conn[k].ran, "failed"},
           conn' = [conn EXCEPT ![k].told = t], table' = table
    PROVE  Service!Next
<1> DEFINE r == [conn[k] EXCEPT !.told = t]
<1>1. r \in Conns /\ r.req = conn[k].req /\ r.ran = conn[k].ran /\ r.told = t
  BY DEF Conns, Told
<1>2. conn' = [conn EXCEPT ![k] = r]
  BY DEF Types
<1> HIDE DEF r
<1>3. CallsMade' = [CallsMade EXCEPT ![k] = CallOn(r)] /\ CallsMade[k] = CallOn(conn[k])
  BY Zenon, <1>2, CallsAfter
<1>4. /\ CallsMade[k] = [req |-> conn[k].req, ran |-> conn[k].ran, told |-> "waiting"]
      /\ CallsMade[k] # NULL
      /\ CallOn(r) = [req |-> conn[k].req, ran |-> conn[k].ran, told |-> t]
  BY <1>1, <1>3, CallOnIs
<1>5. [CallsMade[k] EXCEPT !.told = t] = CallOn(r)
  BY <1>4
<1>6. CallsMade' = [CallsMade EXCEPT ![k].told = t]
  BY Zenon, <1>3, <1>5
<1>7. CASE t = "failed"
  <2>1. Service!Fail(k)
    BY <1>4, <1>6, <1>7 DEF Service!Fail
  <2> QED
    BY <2>1 DEF Service!Next
<1>8. CASE t # "failed"
  <2>1. t = conn[k].ran /\ conn[k].ran # "lost"
    BY <1>8 DEF Codes
  <2>2. Service!Tell(k)
    BY <1>4, <1>6, <2>1 DEF Service!Tell
  <2> QED
    BY <2>2 DEF Service!Next
<1> QED
  BY <1>7, <1>8

\* A client closes: its call is over, or its process is gone.
LEMMA AsLeft ==
    ASSUME Types, NEW k \in Slots, conn[k] \in Conns, table' = table, NEW t \in Told,
           t = IF conn[k].told = "waiting" THEN "gone" ELSE conn[k].told,
           conn' = [conn EXCEPT ![k] = ClientCloses(k, t)]
    PROVE  [Service!Next]_Service!vars
<1> DEFINE r == ClientCloses(k, t)
<1>1. CallsMade' = [CallsMade EXCEPT ![k] = CallOn(r)] /\ CallsMade[k] = CallOn(conn[k])
  BY Zenon, CallsAfter
<1>2. /\ CallsMade[k] = [req |-> conn[k].req, ran |-> conn[k].ran, told |-> conn[k].told]
      /\ CallsMade[k] # NULL /\ CallOn(NULL) = NULL
  BY <1>1, CallOnIs
<1>3. CASE ~conn[k].send
  <2>1. CallsMade' = [CallsMade EXCEPT ![k] = NULL]
    BY <1>1, <1>2, <1>3 DEF ClientCloses
  <2>2. CASE conn[k].told = "waiting"
    <3>1. Service!Vanish(k)
      BY <1>2, <2>1, <2>2 DEF Service!Vanish
    <3> QED
      BY <3>1 DEF Service!Next
  <2>3. CASE conn[k].told # "waiting"
    <3>1. Service!Forget(k)
      BY <1>2, <2>1, <2>3 DEF Service!Forget
    <3> QED
      BY <3>1 DEF Service!Next
  <2> QED
    BY <2>2, <2>3
<1>4. CASE conn[k].send
  <2>1. r = [conn[k] EXCEPT !.cend = FALSE, !.told = t]
    BY <1>4 DEF ClientCloses
  <2>2. r \in Conns /\ r.req = conn[k].req /\ r.ran = conn[k].ran /\ r.told = t
    BY Zenon, <2>1 DEF Conns
  <2> HIDE DEF r
  <2>3. CallOn(r) = [req |-> conn[k].req, ran |-> conn[k].ran, told |-> t]
    BY <2>2, CallOnIs
  <2>4. CASE conn[k].told = "waiting"
    <3>1. [CallsMade[k] EXCEPT !.told = "gone"] = CallOn(r)
      BY <1>2, <2>3, <2>4
    <3>2. CallsMade' = [CallsMade EXCEPT ![k].told = "gone"]
      BY Zenon, <1>1, <3>1
    <3>3. CallsMade[k].told = "waiting" /\ CallsMade[k] # NULL
      BY Zenon, <1>1, <1>2, <2>4, CallOnIs
    <3>4. Service!Vanish(k)
      BY Zenon, <3>2, <3>3 DEF Service!Vanish
    <3> QED
      BY <3>4 DEF Service!Next
  <2>5. CASE conn[k].told # "waiting"
    <3>1. CallOn(r) = CallOn(conn[k])
      BY <1>1, <1>2, <2>3, <2>5
    <3>2. UNCHANGED Service!vars
      BY Zenon, <3>1, AsStutter DEF r
    <3> QED
      BY <3>2
  <2> QED
    BY <2>4, <2>5
<1> QED
  BY <1>3, <1>4 DEF Conns

\* The daemon closes: the call goes on to its end without it, or was over.
LEMMA AsServerLeft ==
    ASSUME Inv, cur # NULL, CloseClient
    PROVE  [Service!Next]_Service!vars
<1> DEFINE r == ServerCloses(cur)
<1>1. /\ cur \in Slots /\ conn[cur] \in Conns /\ Types /\ table' = table
      /\ Good(conn[cur], At(cur), spc, hdr, payload) /\ conn' = [conn EXCEPT ![cur] = r]
  BY Served DEF Inv, CloseClient
<1>2. CASE conn[cur].cend
  <2>1. r = [conn[cur] EXCEPT !.send = FALSE, !.up = <<>>]
    BY <1>2 DEF ServerCloses
  <2>2. r \in Conns
    BY Zenon, <1>1, <2>1, ConnUpdates
  <2>3. r.req = conn[cur].req /\ r.ran = conn[cur].ran /\ r.told = conn[cur].told
    BY <1>1, <2>1 DEF Conns
  <2> HIDE DEF r
  <2>4. CallOn(r) = CallOn(conn[cur])
    <3>1. CallOn(r) = [req |-> r.req, ran |-> r.ran, told |-> r.told]
      BY Zenon, <2>2, CallOnIs
    <3>2. CallOn(conn[cur]) = [req |-> conn[cur].req, ran |-> conn[cur].ran,
                               told |-> conn[cur].told]
      BY Zenon, <1>1, CallOnIs
    <3> QED
      BY Zenon, <2>3, <3>1, <3>2
  <2>5. UNCHANGED Service!vars
    BY Zenon, <1>1, <2>4, AsStutter
  <2> QED
    BY <2>5
<1>3. CASE ~conn[cur].cend
  <2>1. r = NULL
    BY <1>3 DEF ServerCloses
  <2>2. conn[cur].told # "waiting"
    BY <1>1, <1>3 DEF Good, ClientSide
  <2>3. /\ CallsMade' = [CallsMade EXCEPT ![cur] = NULL]
        /\ CallsMade[cur] # NULL /\ CallsMade[cur].told = conn[cur].told
    <3>1. /\ CallsMade' = [CallsMade EXCEPT ![cur] = CallOn(NULL)]
          /\ CallsMade[cur] = CallOn(conn[cur])
      BY Zenon, <1>1, <2>1, CallsAfter
    <3>2. /\ CallOn(conn[cur]).told = conn[cur].told
          /\ CallOn(conn[cur]) # NULL /\ CallOn(NULL) = NULL
      BY <1>1, CallOnIs
    <3> QED
      BY <3>1, <3>2
  <2>4. Service!Forget(cur)
    BY <1>1, <2>2, <2>3 DEF Service!Forget
  <2> QED
    BY <1>1, <2>4 DEF Service!Next
<1> QED
  BY <1>2, <1>3

\* The daemon ends: calls whose process is gone are forgotten, and the others
\* will not be carried out if they have not been.
LEMMA AsDied ==
    ASSUME Inv, Dies
    PROVE  Service!Next
<1> DEFINE ended == {k \in Slots : conn[k] # NULL /\ ~conn[k].cend}
           D(k) == [conn[k] EXCEPT !.send = FALSE, !.up = <<>>,
                                   !.ran = IF @ = NULL THEN "lost" ELSE @]
           E(k) == IF k \in ended THEN NULL
                   ELSE IF CallsMade[k] # NULL /\ CallsMade[k].ran = NULL
                     THEN [CallsMade[k] EXCEPT !.ran = "lost"]
                   ELSE CallsMade[k]
<1>1. /\ conn' = [k \in Slots |-> IF conn[k] = NULL \/ ~conn[k].cend THEN NULL ELSE D(k)]
      /\ table' = EmptyTable
  BY Zenon DEF Dies
<1>2. ASSUME NEW k \in Slots PROVE CallOn(conn'[k]) = E(k)
  <2>1. CallsMade[k] = CallOn(conn[k])
    BY DEF CallsMade
  <2>2. CASE conn[k] = NULL
    <3>1. conn'[k] = NULL /\ CallOn(NULL) = NULL
      BY Zenon, <1>1, <2>2 DEF CallOn
    <3> QED
      BY <2>1, <2>2, <3>1
  <2>3. CASE conn[k] # NULL /\ ~conn[k].cend
    <3>1. conn'[k] = NULL /\ CallOn(NULL) = NULL
      BY Zenon, <1>1, <2>3 DEF CallOn
    <3> QED
      BY <2>3, <3>1
  <2>4. CASE conn[k] # NULL /\ conn[k].cend
    <3>1. conn[k] \in Conns
      BY <2>4 DEF Inv, Types
    <3>2. conn'[k] = D(k) /\ k \notin ended
      BY Zenon, <1>1, <2>4
    <3>3. /\ D(k) \in Conns /\ D(k).req = conn[k].req /\ D(k).told = conn[k].told
          /\ D(k).ran = IF conn[k].ran = NULL THEN "lost" ELSE conn[k].ran
      <4>1. D(k) \in Conns
        BY Zenon, <3>1, ConnUpdates
      <4>2. /\ D(k).req = conn[k].req /\ D(k).told = conn[k].told
            /\ D(k).ran = IF conn[k].ran = NULL THEN "lost" ELSE conn[k].ran
        BY <3>1 DEF Conns
      <4> QED
        BY <4>1, <4>2
    <3> HIDE DEF D, ended
    <3>4. CallOn(conn'[k]) = [req |-> conn[k].req, ran |-> D(k).ran, told |-> conn[k].told]
      BY <3>2, <3>3, CallOnIs
    <3>5. /\ CallsMade[k] = [req |-> conn[k].req, ran |-> conn[k].ran, told |-> conn[k].told]
          /\ CallsMade[k] # NULL /\ CallsMade[k].ran = conn[k].ran
      BY <2>1, <3>1, CallOnIs
    <3>6. CASE conn[k].ran = NULL
      <4>1. CallsMade[k].ran = NULL /\ [CallsMade[k] EXCEPT !.ran = "lost"]
              = [req |-> conn[k].req, ran |-> "lost", told |-> conn[k].told]
        BY <3>5, <3>6
      <4>2. E(k) = [CallsMade[k] EXCEPT !.ran = "lost"]
        BY Zenon, <3>2, <3>5, <4>1
      <4> HIDE DEF E
      <4> QED
        BY <3>3, <3>4, <3>6, <4>1, <4>2
    <3>7. CASE conn[k].ran # NULL
      <4>1. CallsMade[k].ran # NULL
        BY <3>5, <3>7
      <4>2. E(k) = CallsMade[k]
        BY Zenon, <3>2, <4>1
      <4> HIDE DEF E
      <4> QED
        BY <3>3, <3>4, <3>5, <3>7, <4>2
    <3> QED
      BY <3>6, <3>7
  <2> QED
    BY <2>2, <2>3, <2>4
<1>3. CallsMade' = [k \in Slots |-> E(k)]
  BY <1>2 DEF CallsMade
<1>4. ended \in SUBSET {k \in Slots : CallsMade[k] # NULL /\ CallsMade[k].told # "waiting"}
  <2> SUFFICES ASSUME NEW k \in ended
               PROVE  CallsMade[k] # NULL /\ CallsMade[k].told # "waiting"
    OBVIOUS
  <2>1. conn[k] \in Conns /\ ClientSide(conn[k], At(k)) /\ ~conn[k].cend
    BY DEF Inv, Types, ConnInv, Good
  <2>2. conn[k].told # "waiting"
    BY <2>1 DEF ClientSide
  <2>3. CallsMade[k] = CallOn(conn[k])
    BY DEF CallsMade
  <2>4. CallOn(conn[k]) # NULL /\ CallOn(conn[k]).told = conn[k].told
    BY <2>1, CallOnIs
  <2> QED
    BY <2>2, <2>3, <2>4
<1>5. table' = Service!EmptyTable
  BY Zenon, <1>1 DEF EmptyTable, Service!EmptyTable
<1> HIDE DEF ended
<1>6. Service!Die
  BY Zenon, <1>3, <1>4, <1>5 DEF Service!Die
<1> QED
  BY <1>6 DEF Service!Next

\* The abstract service runs the same operations.
LEMMA SameOutcomes ==
    ASSUME NEW op, NEW a, NEW t
    PROVE  Service!Outcomes(op, a, t) = Outcomes(op, a, t)
  BY DEF Outcomes, HasData, Service!Outcomes, Service!HasData

\* An operation that carries no payload does not look at one.
LEMMA PayloadUnused ==
    ASSUME NEW op \in Ops, ~HasPayload(op) \/ op = "huge", NEW a, NEW b, NEW t
    PROVE  Outcomes(op, a, t) = Outcomes(op, b, t)
<1>1. op \in {"status", "query", "enable", "disable", "huge", "unknown"}
  BY DEF Ops, HasPayload
<1> QED
  BY <1>1 DEF Outcomes, HasData

\* handle_request carries the request out, once and with its own arguments
\* unless its caller is gone.
LEMMA AsRun ==
    ASSUME Inv, Handle
    PROVE  Service!Next
<1>1. cur # NULL /\ spc = "run"
  BY DEF Handle, Inv, Links
<1>2. /\ cur \in Slots /\ conn[cur] \in Conns /\ Types /\ payload \in Args
      /\ Good(conn[cur], At(cur), "run", hdr, payload)
  BY <1>1, Served DEF Inv, Types
<1>3. /\ conn[cur].ran = NULL /\ hdr = conn[cur].req.op
      /\ HasPayload(hdr) /\ hdr # "huge" /\ conn[cur].told = "waiting"
           => payload = conn[cur].req.arg
      /\ conn[cur].told \in {"waiting", "gone"}
  BY <1>2 DEF Good, ServerSide, Answer
<1>4. hdr \in Ops
  <2>1. conn[cur].req \in Requests
    BY <1>2 DEF Conns
  <2> QED
    BY <1>3, <2>1, RequestsAreRequests
<1>5. PICK o \in Outcomes(hdr, payload, table) :
        table' = o.table /\ conn' = [conn EXCEPT ![cur].ran = o.rc]
  BY Zenon DEF Handle
<1> DEFINE r == [conn[cur] EXCEPT !.ran = o.rc]
           call == CallsMade[cur]
<1>6. o.rc \in Codes
  BY <1>4, OutcomesAreCodes
<1>7. conn' = [conn EXCEPT ![cur] = r]
  BY <1>2, <1>5 DEF Types
<1>8. r \in Conns /\ r.req = conn[cur].req /\ r.ran = o.rc /\ r.told = conn[cur].told
  <2>1. r \in Conns
    BY Zenon, <1>2, <1>6, ConnUpdates
  <2>2. r.req = conn[cur].req /\ r.ran = o.rc /\ r.told = conn[cur].told
    BY <1>2 DEF Conns
  <2> QED
    BY <2>1, <2>2
<1> HIDE DEF r
<1>9. /\ CallOn(r) = [req |-> conn[cur].req, ran |-> o.rc, told |-> conn[cur].told]
      /\ CallOn(conn[cur]) = [req |-> conn[cur].req, ran |-> NULL, told |-> conn[cur].told]
      /\ CallOn(conn[cur]) # NULL
      /\ CallOn(conn[cur]).req = conn[cur].req /\ CallOn(conn[cur]).ran = NULL
      /\ CallOn(conn[cur]).told = conn[cur].told
  BY <1>2, <1>3, <1>8, CallOnIs
<1>10. /\ CallsMade' = [CallsMade EXCEPT ![cur] = CallOn(r)]
       /\ call = CallOn(conn[cur])
  BY Zenon, <1>2, <1>7, CallsAfter
<1>11. /\ call # NULL /\ call.ran = NULL /\ call.told \in {"waiting", "gone"}
       /\ call.req.op = hdr /\ call.req.arg = conn[cur].req.arg
       /\ call.told = conn[cur].told
  BY <1>3, <1>9, <1>10
<1>12. CallsMade' = [CallsMade EXCEPT ![cur].ran = o.rc]
  <2>1. [call EXCEPT !.ran = o.rc] = CallOn(r)
    BY <1>9, <1>10
  <2> QED
    BY Zenon, <1>10, <2>1
<1>13. \E a \in IF call.told = "gone" THEN Args ELSE {call.req.arg} :
         o \in Service!Outcomes(call.req.op, a, table)
  <2>1. CASE call.told = "gone"
    BY Zenon, <1>2, <1>5, <1>11, <2>1, SameOutcomes
  <2>2. CASE call.told # "gone"
    <3>1. o \in Outcomes(hdr, conn[cur].req.arg, table)
      <4>1. CASE HasPayload(hdr) /\ hdr # "huge"
        BY <1>3, <1>5, <1>11, <2>2, <4>1
      <4>2. CASE ~HasPayload(hdr) \/ hdr = "huge"
        BY Zenon, <1>4, <1>5, <4>2, PayloadUnused
      <4> QED
        BY <4>1, <4>2
    <3> QED
      BY Zenon, <1>11, <2>2, <3>1, SameOutcomes
  <2> QED
    BY <2>1, <2>2
<1> HIDE DEF call
<1>14. Service!Run(cur)
  BY Zenon, <1>5, <1>11, <1>12, <1>13 DEF Service!Run, call
<1> QED
  BY <1>2, <1>14 DEF Service!Next

\* ramdisk_ctrl_transact connects: a request is asked for.
LEMMA AsAsked ==
    ASSUME Inv, ProcInv, NEW c \in Clients, Connect(c)
    PROVE  Service!Next
<1>1. PICK q \in IF c \in Examples THEN {ExampleRequest(c)} ELSE CtlRequests, k \in Slots :
        conn[k] = NULL /\ conn' = [conn EXCEPT ![k] = NewConn(q)]
  BY Zenon DEF Connect
<1>2. pc[c] = (IF c \in Examples THEN "ready" ELSE "off") /\ table' = table /\ Types
  BY DEF Connect, Inv
<1>3. q \in Requests
  BY <1>2, AsksARequest
<1>4. NewConn(q) \in Conns
  BY <1>3, NewIsGood
<1>5. CallOn(NewConn(q)) = [req |-> q, ran |-> NULL, told |-> "waiting"] /\ CallOn(NULL) = NULL
  BY <1>4, CallOnIs DEF NewConn
<1>6. CallsMade' = [CallsMade EXCEPT ![k] = CallOn(NewConn(q))] /\ CallsMade[k] = CallOn(conn[k])
  BY Zenon, <1>1, <1>2, CallsAfter
<1>7. Service!Ask(k)
  BY Zenon, <1>1, <1>2, <1>3, <1>5, <1>6 DEF Service!Ask
<1> QED
  BY <1>7 DEF Service!Next

\* Bytes are written or read: nothing happens to the call.
LEMMA AsBytes ==
    ASSUME Types, NEW k \in Slots, conn[k] \in Conns, table' = table, NEW r \in Conns,
           r.req = conn[k].req, r.ran = conn[k].ran, r.told = conn[k].told,
           conn' = [conn EXCEPT ![k] = r]
    PROVE  UNCHANGED Service!vars
<1>1. CallOn(r) = CallOn(conn[k])
  BY CallOnIs
<1> QED
  BY Zenon, <1>1, AsStutter

\* A process ends in a call or outside of one.
LEMMA AsEnds ==
    ASSUME Inv, NEW c \in Clients, Ends(c)
    PROVE  [Service!Next]_Service!vars
<1>1. table' = table /\ Types
  BY DEF Ends, daemon, Inv
<1>2. CASE slot[c] = NULL
  BY <1>1, <1>2 DEF Ends, CallsMade, Service!vars
<1>3. CASE slot[c] # NULL
  <2> DEFINE k == slot[c]
             t == IF conn[k].told = "waiting" THEN "gone" ELSE conn[k].told
  <2>1. k \in Slots /\ conn[k] \in Conns
    BY <1>3, Mine
  <2>2. conn' = [conn EXCEPT ![k] = ClientCloses(k, t)]
    BY <1>3 DEF Ends
  <2>3. t \in Told /\ t = IF conn[k].told = "waiting" THEN "gone" ELSE conn[k].told
    BY <2>1 DEF Conns, Told
  <2> HIDE DEF t
  <2> QED
    BY Zenon, <1>1, <2>1, <2>2, <2>3, AsLeft
<1> QED
  BY <1>2, <1>3

\* write_full of the client.
LEMMA AsSends ==
    ASSUME Inv, NEW c \in Clients, SendHdr(c) \/ SendPayload(c)
    PROVE  [Service!Next]_Service!vars
<1> DEFINE k == slot[c]
<1>1. slot[c] # NULL
  BY DEF SendHdr, SendPayload, Inv, Links, InCall
<1>2. /\ k \in Slots /\ conn[k] \in Conns /\ Good(conn[k], pc[c], Pos(k), hdr, payload)
      /\ conn \in [Slots -> Conns \cup {NULL}] /\ Types
  BY <1>1, Mine DEF Inv, Types
<1>3. CASE ~conn[k].send
  <2>1. Ends(c)
    BY <1>3 DEF SendHdr, SendPayload, Send
  <2> QED
    BY <2>1, AsEnds
<1>4. ASSUME conn[k].send, NEW x, conn' = [conn EXCEPT ![k].up = Append(@, x)], table' = table,
             [conn[k] EXCEPT !.up = Append(@, x)] \in Conns
      PROVE  UNCHANGED Service!vars
  <2> DEFINE r == [conn[k] EXCEPT !.up = Append(@, x)]
  <2>1. conn' = [conn EXCEPT ![k] = r]
    BY <1>2, <1>4
  <2>2. r.req = conn[k].req /\ r.ran = conn[k].ran /\ r.told = conn[k].told
    BY <1>2 DEF Conns
  <2> HIDE DEF r
  <2>3. r \in Conns
    BY <1>4 DEF r
  <2> QED
    BY Zenon, <1>2, <1>4, <2>1, <2>2, <2>3, AsBytes
<1>5. CASE conn[k].send /\ SendHdr(c)
  <2>1. /\ pc[c] = "hdr" /\ conn' = [conn EXCEPT ![k].up = Append(@, conn[k].req.op)]
        /\ table' = table
    BY <1>5 DEF SendHdr, Send, daemon
  <2>2. [conn[k] EXCEPT !.up = Append(@, conn[k].req.op)] \in Conns
    BY <1>2, <1>5, <2>1, SendHdrIsGood
  <2> QED
    BY Zenon, <1>4, <1>5, <2>1, <2>2
<1>6. CASE conn[k].send /\ SendPayload(c)
  <2>1. /\ pc[c] = "payload" /\ conn' = [conn EXCEPT ![k].up = Append(@, conn[k].req.arg)]
        /\ table' = table
    BY <1>6 DEF SendPayload, Send, daemon
  <2>2. [conn[k] EXCEPT !.up = Append(@, conn[k].req.arg)] \in Conns
    BY <1>2, <1>6, <2>1, SendPayloadIsGood
  <2> QED
    BY Zenon, <1>4, <1>6, <2>1, <2>2
<1> QED
  BY <1>3, <1>5, <1>6

\* read_full of the client.
LEMMA AsReceives ==
    ASSUME Inv, NEW c \in Clients, RecvResp(c) \/ RecvData(c)
    PROVE  [Service!Next]_Service!vars
<1> DEFINE k == slot[c]
<1>1. slot[c] # NULL /\ pc[c] \in {"resp", "data"} /\ table' = table
  BY Zenon, Receives
<1>2. /\ k \in Slots /\ conn[k] \in Conns /\ Good(conn[k], pc[c], Pos(k), hdr, payload)
      /\ conn \in [Slots -> Conns \cup {NULL}] /\ Types
  BY <1>1, Mine DEF Inv, Types
<1>3. conn[k].told = "waiting"
  BY <1>1, <1>2 DEF Good, ClientSide
<1>4. ASSUME NEW t, IsTold(c, t) PROVE Service!Next
  <2>1. /\ conn[k].ran # NULL /\ t \in Codes \cup {"failed"} /\ t \in {conn[k].ran, "failed"}
        /\ conn' = [conn EXCEPT ![k].told = t]
    BY <1>4 DEF IsTold
  <2> QED
    BY Zenon, <1>1, <1>2, <1>3, <2>1, AsTold
<1>5. CASE /\ pc[c] = "resp" /\ conn[k].down # <<>> /\ conn[k].req.op = "status"
           /\ conn' = [conn EXCEPT ![k].down = Tail(@)]
  <2> DEFINE r == [conn[k] EXCEPT !.down = Tail(@)]
  <2>1. r \in Conns
    BY <1>2, <1>5, RecvRespIsGood
  <2>2. conn' = [conn EXCEPT ![k] = r]
    BY <1>2, <1>5
  <2>3. r.req = conn[k].req /\ r.ran = conn[k].ran /\ r.told = conn[k].told
    BY <1>2 DEF Conns
  <2> HIDE DEF r
  <2> QED
    BY Zenon, <1>1, <1>2, <2>1, <2>2, <2>3, AsBytes
<1> QED
  BY <1>4, <1>5, Receives

\* close of the client: it has been told.
LEMMA AsCloses ==
    ASSUME Inv, NEW c \in Clients, Close(c)
    PROVE  [Service!Next]_Service!vars
<1> DEFINE k == slot[c]
           t == conn[k].told
<1>1. slot[c] # NULL /\ pc[c] = "close"
  BY DEF Close, Inv, Links, InCall
<1>2. k \in Slots /\ conn[k] \in Conns /\ Good(conn[k], "close", Pos(k), hdr, payload) /\ Types
  BY <1>1, Mine DEF Inv
<1>3. t \in Told /\ t # "waiting" /\ t = conn[k].told
  BY <1>2 DEF Good, ClientSide, Conns
<1>4. conn' = [conn EXCEPT ![k] = ClientCloses(k, t)] /\ table' = table
  BY DEF Close, daemon
<1> HIDE DEF t
<1> QED
  BY Zenon, <1>2, <1>3, <1>4, AsLeft

\* read_full of the control thread, and the close when the client has left.
LEMMA AsReads ==
    ASSUME Inv, ReadHdr \/ ReadPayload
    PROVE  [Service!Next]_Service!vars
<1>1. cur # NULL /\ spc \in {"hdr", "payload"} /\ payload = NULL
  BY DEF ReadHdr, ReadPayload, Inv, Links
<1>2. /\ cur \in Slots /\ conn[cur] \in Conns /\ conn \in [Slots -> Conns \cup {NULL}]
      /\ Good(conn[cur], At(cur), spc, hdr, payload) /\ Types
  BY <1>1, Served DEF Inv, Types
<1> DEFINE r == [conn[cur] EXCEPT !.up = Tail(@)]
<1>3. ASSUME r \in Conns, conn' = [conn EXCEPT ![cur].up = Tail(@)], table' = table
      PROVE  UNCHANGED Service!vars
  <2>1. conn' = [conn EXCEPT ![cur] = r]
    BY <1>2, <1>3
  <2>2. r.req = conn[cur].req /\ r.ran = conn[cur].ran /\ r.told = conn[cur].told
    BY <1>2 DEF Conns
  <2>3. r \in Conns
    BY <1>3
  <2> HIDE DEF r
  <2> QED
    BY Zenon, <1>2, <1>3, <2>1, <2>2, <2>3, AsBytes
<1>4. CASE AtEOF /\ CloseClient
  BY <1>1, <1>4, AsServerLeft
<1>5. CASE /\ spc = "hdr" /\ conn[cur].up # <<>>
           /\ conn' = [conn EXCEPT ![cur].up = Tail(@)] /\ table' = table
  <2>1. r \in Conns
    BY <1>1, <1>2, <1>5, ReadHdrIsGood
  <2> QED
    BY <1>3, <1>5, <2>1
<1>6. CASE spc = "payload" /\ UNCHANGED conn /\ table' = table
  BY <1>6 DEF CallsMade, Service!vars
<1>7. CASE /\ spc = "payload" /\ conn[cur].up # <<>>
           /\ conn' = [conn EXCEPT ![cur].up = Tail(@)] /\ table' = table
  <2>1. r \in Conns
    BY Zenon, <1>2, <1>7, ReadPayloadIsGood
  <2> QED
    BY <1>3, <1>7, <2>1
<1> QED
  BY <1>4, <1>5, <1>6, <1>7 DEF ReadHdr, ReadPayload

\* send_response, and the end of a daemon that writes to a client that left.
LEMMA AsResponds ==
    ASSUME Inv, Respond \/ RespondData
    PROVE  [Service!Next]_Service!vars
<1>1. cur # NULL /\ spc \in {"resp", "data"}
  BY DEF Respond, RespondData, Inv, Links
<1>2. /\ cur \in Slots /\ conn[cur] \in Conns /\ conn \in [Slots -> Conns \cup {NULL}]
      /\ Good(conn[cur], At(cur), spc, hdr, payload) /\ Types
  BY <1>1, Served DEF Inv, Types
<1>3. CASE Dies
  BY <1>3, AsDied
<1>4. CASE ~Dies
  <2> DEFINE r == [conn[cur] EXCEPT !.down = Append(@, conn[cur].ran)]
  <2>1. conn' = [conn EXCEPT ![cur].down = Append(@, conn[cur].ran)] /\ table' = table
    BY <1>4 DEF Respond, RespondData
  <2>2. r \in Conns
    BY <1>1, <1>2, RespondIsGood, RespondDataIsGood
  <2>3. conn' = [conn EXCEPT ![cur] = r]
    BY <1>2, <2>1
  <2>4. r.req = conn[cur].req /\ r.ran = conn[cur].ran /\ r.told = conn[cur].told
    BY <1>2 DEF Conns
  <2> HIDE DEF r
  <2> QED
    BY Zenon, <1>2, <2>1, <2>2, <2>3, <2>4, AsBytes
<1> QED
  BY <1>3, <1>4

\* Every step of the library, the processes and the daemon is one of
\* CtrlService, or none.
LEMMA ServiceStep ==
    ASSUME Inv, ProcInv, [Next]_vars
    PROVE  [Service!Next]_Service!vars
<1>1. ASSUME UNCHANGED <<conn, table>> PROVE UNCHANGED Service!vars
  BY <1>1 DEF CallsMade, Service!vars
<1>2. ASSUME NEW c \in Clients, StartExample(c) \/ ConnectRefused(c)
      PROVE  UNCHANGED Service!vars
  BY <1>1, <1>2 DEF StartExample, ConnectRefused, daemon
<1>3. ASSUME NEW c \in Clients, Connect(c) PROVE Service!Next
  BY <1>3, AsAsked
<1>4. ASSUME NEW c \in Clients, InTransact(c) PROVE [Service!Next]_Service!vars
  BY <1>4, AsSends, AsReceives, AsCloses DEF InTransact
<1>5. ASSUME NEW c \in Clients, Kill(c) PROVE [Service!Next]_Service!vars
  BY <1>5, AsEnds DEF Kill
<1>6. CASE Accept
  BY <1>1, <1>6 DEF Accept
<1>7. CASE Refused
  <2>1. cur # NULL /\ CloseClient
    BY <1>7 DEF Refused, Inv, Links
  <2> QED
    BY <2>1, AsServerLeft
<1>8. CASE Serve
  BY <1>6, <1>7, <1>8, AsReads, AsRun, AsResponds DEF Serve
<1>9. CASE DaemonKilled
  BY <1>9, AsDied DEF DaemonKilled
<1>10. CASE DaemonStarts
  BY <1>1, <1>10 DEF DaemonStarts
<1>11. CASE UNCHANGED vars
  BY <1>1, <1>11 DEF vars, daemon
<1> QED
  BY <1>2, <1>3, <1>4, <1>5, <1>8, <1>9, <1>10, <1>11 DEF Next

\* Nothing has been asked for when the daemon starts.
LEMMA ServiceInitially == Init => Service!Init
<1> SUFFICES ASSUME Init PROVE Service!Init
  OBVIOUS
<1>1. table = Service!EmptyTable
  BY DEF Init, EmptyTable, Service!EmptyTable
<1>2. CallsMade = [k \in Slots |-> NULL]
  BY DEF Init, CallsMade, CallOn
<1> QED
  BY <1>1, <1>2 DEF Service!Init

\* ramdisk_ctrl_transact and the control thread implement CtrlService, however
\* many clients call it, whatever they ask for, and whoever is killed in between:
\* a request is carried out at most once, with the arguments of its caller, and
\* the status a caller is told is that of its own request; after it was told an
\* error of the call the request is not carried out any more.
THEOREM ServiceImplemented == Spec => ImplementsService
  BY Invariant, ServiceInitially, ServiceStep, PTL DEF Spec, ImplementsService, Service!Spec
=============================================================================
