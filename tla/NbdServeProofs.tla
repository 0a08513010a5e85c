--------------------------- MODULE NbdServeProofs ---------------------------
(***************************************************************************)
(* With the mock provider the backend lock makes one atomic disk of the    *)
(* NBD path and the transfer path, for any size, commands, transfers and   *)
(* number of requests, unless a socket ends between a header and its       *)
(* payload: NbdServe implements Disk.                                      *)
(***************************************************************************)
EXTENDS NbdServe, Integers, TLAPS

Locked == Urma = "mock" /\ ~CutAtPayload

(***************************************************************************)
(* The inductive invariant.  First what is on the wire and in serve_nbd's  *)
(* variables.                                                              *)
(***************************************************************************)
Messages ==
    {Header(h, c) : h \in Handles, c \in Commands} \cup {DiscHeader}
      \cup {Payload(c) : c \in Commands} \cup {Part}

Types ==
    /\ mem \in [0 .. Size - 1 -> Vals] /\ hbm \in [0 .. Size - 1 -> Vals]
    /\ buf \in Seq(Vals) /\ wire \in Seq(Messages)
    /\ cmds \in [Handles -> Commands \cup {NULL}]
    /\ sending = NULL \/ (sending \in Handles /\ cmds[sending] \in Commands)
    /\ answers \in [Handles -> Answers \cup {NULL}]
    /\ rc \in {"OK", "ENOMEM", "ERANGE"}
    /\ done \in Nat /\ udone \in Nat

\* A header as the kernel sends it, whose request has not been answered.
Asked(m) ==
    \/ m = DiscHeader
    \/ /\ m.h \in Handles /\ cmds[m.h] \in Commands
       /\ m = Header(m.h, cmds[m.h])
       /\ answers[m.h] = NULL

\* serve_nbd has a request in hand.
Serving == pc \in {"payload", "call", "copy", "reply", "data", "killed"}

\* Behind the header of a WRITE comes its payload, what the shutdown left of
\* it, or nothing yet.
PayloadNext(h, i) ==
    IF i = Len(wire) THEN sending = h /\ ~shut
    ELSE wire[i + 1] \in {Payload(cmds[h]), Part}

WireInv ==
    \A i \in DOMAIN wire : wire[i].kind = "header" =>
        /\ Asked(wire[i])
        /\ wire[i].h # NULL =>
             /\ Serving => req.h # wire[i].h
             /\ \A j \in DOMAIN wire \ {i} : wire[j].kind = "header" => wire[j].h # wire[i].h
        /\ wire[i].type = "WRITE" => PayloadNext(wire[i].h, i)

\* buf is long enough, and holds the payload of a WRITE.
HasRoom == req.len <= Len(buf)
HasPayload == req.type = "WRITE" => \A i \in 1 .. req.len : buf[i] = cmds[req.h].val

ServeInv ==
    /\ \A h \in Handles : cmds[h] = NULL => answers[h] = NULL
    /\ Serving => Asked(req)
    /\ pc = "payload" =>
         /\ req.type = "WRITE" /\ PayloadNext(req.h, 0)
         /\ rc = "ENOMEM" \/ (rc = "OK" /\ HasRoom)
    /\ pc = "call" =>
         /\ req.type \in {"READ", "WRITE", "TRIM"}
         /\ rc = "ENOMEM" \/ (rc = "OK" /\ HasRoom /\ HasPayload)
    /\ pc = "copy" =>
         /\ req.type \in {"READ", "WRITE", "TRIM"}
         /\ rc = "OK" /\ InRange(req) /\ done <= req.len
         /\ req.type # "TRIM" => HasRoom /\ HasPayload
    /\ pc \in {"reply", "data"} /\ WithData => HasRoom /\ req.len <= Size
    /\ pc = "data" => WithData

\* Who copies has the lock, so at most one of the two does.
LockInv ==
    /\ pc = "copy" => lock = "nbd"
    /\ upc = "copy" => lock = "urma" /\ xfer \in Transfers /\ udone <= xfer.len

Inv == Types /\ WireInv /\ ServeInv /\ LockInv

-----------------------------------------------------------------------------
(* Sequences, commands and messages.                                       *)

\* What Append, Head and Tail do, element by element.
LEMMA Appending ==
    ASSUME NEW S, NEW q \in Seq(S), NEW e \in S
    PROVE  /\ Append(q, e) \in Seq(S) /\ Len(q) \in Nat /\ Len(Append(q, e)) = Len(q) + 1
           /\ DOMAIN q = 1 .. Len(q) /\ DOMAIN Append(q, e) = 1 .. Len(q) + 1
           /\ \A i \in 1 .. Len(q) : Append(q, e)[i] = q[i]
           /\ Append(q, e)[Len(q) + 1] = e
  OBVIOUS

\* The head of a queue is taken.
LEMMA Taking ==
    ASSUME NEW S, NEW q \in Seq(S), q # <<>>
    PROVE  /\ Tail(q) \in Seq(S) /\ Len(q) \in Nat \ {0} /\ Len(Tail(q)) = Len(q) - 1
           /\ DOMAIN q = 1 .. Len(q) /\ DOMAIN Tail(q) = 1 .. Len(q) - 1
           /\ \A i \in 1 .. Len(q) - 1 : Tail(q)[i] = q[i + 1]
           /\ Head(q) = q[1] /\ q[1] \in S
  OBVIOUS

\* One place of a sequence is written.
LEMMA Overwriting ==
    ASSUME NEW S, NEW q \in Seq(S), NEW k, NEW e \in S
    PROVE  /\ [q EXCEPT ![k] = e] \in Seq(S) /\ Len([q EXCEPT ![k] = e]) = Len(q)
           /\ \A i \in 1 .. Len(q) : [q EXCEPT ![k] = e][i] = IF i = k THEN e ELSE q[i]
  <1>1. q \in [1 .. Len(q) -> S] /\ Len(q) \in Nat
    OBVIOUS
  <1>2. [q EXCEPT ![k] = e] \in [1 .. Len(q) -> S]
    BY Zenon, <1>1
  <1> QED
    BY <1>1, <1>2

\* What the assumptions say of a command.
LEMMA CommandFacts ==
    ASSUME NEW c \in Commands
    PROVE  /\ c.type \in {"READ", "WRITE", "TRIM", "FLUSH"}
           /\ c.from \in Nat /\ c.len \in Nat /\ c.val \in Vals /\ c # NULL
           /\ c.type = "FLUSH" => c.from = 0 /\ c.len = 0
           /\ c.type # "FLUSH" => c.len > 0
           /\ c.type # "WRITE" => c.val = 0
  BY ServeConstants

\* The fields of messages.
LEMMA MessageFields ==
    /\ \A h, c : /\ Header(h, c).kind = "header" /\ Header(h, c).h = h
                 /\ Header(h, c).type = c.type
                 /\ Header(h, c).from = c.from /\ Header(h, c).len = c.len
    /\ DiscHeader.kind = "header" /\ DiscHeader.h = NULL /\ DiscHeader.type = "DISC"
    /\ DiscHeader.from = 0 /\ DiscHeader.len = 0
    /\ \A c : Payload(c).kind = "payload" /\ Payload(c).val = c.val
    /\ Part.kind = "part"
  BY DEF Header, DiscHeader, Payload, Part

\* A header is DISC or of a request.
LEMMA HeaderFacts ==
    ASSUME Types, NEW m, Asked(m)
    PROVE  /\ m.kind = "header" /\ m.len \in Nat /\ m.from \in Nat
           /\ \/ m.h = NULL /\ m.type = "DISC" /\ m.len = 0
              \/ /\ m.h \in Handles /\ m.h # NULL /\ cmds[m.h] \in Commands /\ cmds[m.h] # NULL
                 /\ m.type = cmds[m.h].type /\ m.from = cmds[m.h].from /\ m.len = cmds[m.h].len
                 /\ m.type \in {"READ", "WRITE", "TRIM", "FLUSH"}
                 /\ answers[m.h] = NULL
  <1>1. CASE m = DiscHeader
    BY <1>1, MessageFields
  <1>2. CASE m # DiscHeader
    <2>1. /\ m.h \in Handles /\ cmds[m.h] \in Commands /\ answers[m.h] = NULL
          /\ m = Header(m.h, cmds[m.h])
      BY <1>2 DEF Asked
    <2>2. /\ m.kind = "header" /\ m.type = cmds[m.h].type /\ m.from = cmds[m.h].from
          /\ m.len = cmds[m.h].len
      <3>1. PICK h \in Handles, c \in Commands : h = m.h /\ c = cmds[m.h] /\ m = Header(h, c)
        BY <2>1
      <3>2. m.kind = "header" /\ m.type = c.type /\ m.from = c.from /\ m.len = c.len
        BY <3>1, MessageFields
      <3> QED
        BY Zenon, <3>1, <3>2
    <2>3. m.h # NULL
      BY <2>1, ServeConstants
    <2> QED
      BY <2>1, <2>2, <2>3, CommandFacts
  <1> QED
    BY <1>1, <1>2

-----------------------------------------------------------------------------
(* Types.                                                                  *)

\* The kernel appends at most one message, and asks under a handle once.
LEMMA KernelTypes ==
    ASSUME Types, Kernel
    PROVE  Types'
  <1>0. UNCHANGED <<mem, hbm, buf, answers, rc, done, udone>>
    BY DEF Kernel, KernelSend, KernelPayload, KernelShutdown, Signal, KernelDisc, backend, server,
           worker
  <1>a. \A m \in Messages : Append(wire, m) \in Seq(Messages)
    BY Appending DEF Types
  <1>b. wire \in Seq(Messages)
    BY DEF Types
  <1>1. ASSUME NEW h \in Handles, KernelSend(h)
        PROVE  /\ wire' \in Seq(Messages) /\ cmds' \in [Handles -> Commands \cup {NULL}]
               /\ sending' = NULL \/ (sending' \in Handles /\ cmds'[sending'] \in Commands)
    <2>1. PICK c \in Commands : /\ cmds' = [cmds EXCEPT ![h] = c]
                                /\ wire' = Append(wire, Header(h, c))
                                /\ sending' \in {h, NULL}
      BY Zenon, <1>1 DEF KernelSend
    <2>2. Header(h, c) \in Messages
      BY DEF Messages
    <2>3. wire' \in Seq(Messages)
      BY <1>a, <2>1, <2>2
    <2> QED
      BY <2>1, <2>3 DEF Types
  <1>2. CASE KernelPayload
    <2>1. wire' = Append(wire, Payload(cmds[sending])) /\ UNCHANGED cmds
          /\ sending # NULL /\ sending' = NULL
      BY <1>2 DEF KernelPayload
    <2>2. Payload(cmds[sending]) \in Messages
      BY <2>1 DEF Types, Messages
    <2>3. wire' \in Seq(Messages)
      BY <1>a, <2>1, <2>2
    <2> QED
      BY <1>0, <2>1, <2>3 DEF Types
  <1>3. CASE KernelShutdown
    <2>1. (wire' = Append(wire, Part) \/ wire' = wire) /\ UNCHANGED <<cmds, sending>> /\ Part \in Messages
      BY <1>3 DEF KernelShutdown, Messages
    <2>2. wire' \in Seq(Messages)
      BY <1>a, <1>b, <2>1
    <2> QED
      BY <1>0, <2>1, <2>2 DEF Types
  <1>4. CASE Signal
    BY <1>0, <1>4 DEF Signal, Types
  <1>5. CASE KernelDisc
    <2>1. wire' = Append(wire, DiscHeader) /\ UNCHANGED <<cmds, sending>>
          /\ DiscHeader \in Messages
      BY <1>5 DEF KernelDisc, Messages
    <2>2. wire' \in Seq(Messages)
      BY <1>a, <1>b, <2>1
    <2> QED
      BY <1>0, <2>1, <2>2 DEF Types
  <1>6. CASE \E h \in Handles : KernelSend(h)
    BY <1>0, <1>1, <1>6 DEF Types
  <1> QED
    BY <1>2, <1>3, <1>4, <1>5, <1>6 DEF Kernel

\* realloc: buf keeps its bytes, and is long enough or rc says that it is not.
LEMMA Growing ==
    ASSUME Types, NEW len \in Nat, Grow(len)
    PROVE  /\ buf' \in Seq(Vals)
           /\ rc' = "ENOMEM" \/ (rc' = "OK" /\ len <= Len(buf'))
           /\ len = 0 => rc' = "OK"
  <1>0. buf \in Seq(Vals) /\ Len(buf) \in Nat
    BY DEF Types
  <1>1. CASE len <= Len(buf) /\ rc' = "OK" /\ UNCHANGED buf
    BY <1>0, <1>1
  <1>2. CASE len > Len(buf) /\ rc' = "OK"
             /\ \E junk \in Junk :
                  buf' = [i \in 1 .. len |-> IF i <= Len(buf) THEN buf[i] ELSE junk]
    <2>1. PICK junk \in Vals :
            buf' = [i \in 1 .. len |-> IF i <= Len(buf) THEN buf[i] ELSE junk]
      BY <1>2, ServeConstants
    <2>2. buf' \in [1 .. len -> Vals]
      BY <1>0, <2>1
    <2> QED
      BY <1>0, <1>2, <2>2
  <1>3. CASE len > Len(buf) /\ rc' = "ENOMEM" /\ UNCHANGED buf
    BY <1>0, <1>3
  <1> QED
    BY <1>1, <1>2, <1>3 DEF Grow

\* The payload fills buf as far as it goes.
LEMMA Filling ==
    ASSUME Types, NEW len \in Nat, NEW val \in Vals
    PROVE  /\ Fill(len, val) \in Seq(Vals) /\ Len(Fill(len, val)) = Len(buf)
           /\ \A i \in 1 .. Len(buf) : i <= len => Fill(len, val)[i] = val
  <1>1. buf \in Seq(Vals) /\ Len(buf) \in Nat /\ DOMAIN buf = 1 .. Len(buf)
    BY DEF Types
  <1>2. Fill(len, val) \in [1 .. Len(buf) -> Vals]
    BY <1>1 DEF Fill
  <1> QED
    BY <1>1, <1>2 DEF Fill

\* The payload serve_nbd reads is the one of its request.
LEMMA PayloadHead ==
    ASSUME Types, ServeInv, pc = "payload", Arrived("payload")
    PROVE  /\ wire # <<>> /\ req.h \in Handles /\ req.len \in Nat
           /\ cmds[req.h].val \in Vals /\ Head(wire).val = cmds[req.h].val
  <1>1. Asked(req) /\ req.type = "WRITE" /\ PayloadNext(req.h, 0)
    BY DEF ServeInv, Serving
  <1>2. req.h \in Handles /\ req.len \in Nat /\ cmds[req.h] \in Commands
    BY <1>1, HeaderFacts
  <1>3. wire # <<>> /\ Head(wire).kind = "payload" /\ wire \in Seq(Messages)
    BY DEF Arrived, Types
  <1>4. Len(wire) # 0 /\ Head(wire) = wire[1]
    BY <1>3
  <1>5. wire[1] \in {Payload(cmds[req.h]), Part}
    BY <1>1, <1>4 DEF PayloadNext
  <1>6. wire[1] = Payload(cmds[req.h])
    BY <1>3, <1>4, <1>5, MessageFields
  <1> QED
    BY <1>2, <1>3, <1>4, <1>6, CommandFacts, MessageFields

\* The verdict of a backend call before it copies a byte.
LEMMA Verdict ==
    ASSUME Types, ServeInv, pc = "call"
    PROVE  /\ req.h \in Handles /\ cmds[req.h] \in Commands /\ req.len \in Nat /\ req.from \in Nat
           /\ CallRc \in {"OK", "ENOMEM", "ERANGE"}
           /\ CallRc = "OK" => InRange(req) /\ (req.type # "TRIM" => HasRoom /\ HasPayload)
           /\ CallRc = "ERANGE" => ~InRange(req)
  <1>1. /\ Asked(req) /\ req.type \in {"READ", "WRITE", "TRIM"}
        /\ rc = "ENOMEM" \/ (rc = "OK" /\ HasRoom /\ HasPayload)
    BY DEF ServeInv, Serving
  <1>2. /\ req.h \in Handles /\ cmds[req.h] \in Commands /\ req.len \in Nat /\ req.from \in Nat
        /\ req.len = cmds[req.h].len /\ req.type = cmds[req.h].type
    BY <1>1, HeaderFacts
  <1>3. req.len > 0
    BY <1>1, <1>2, CommandFacts
  <1>4. rc = "OK" => buf # <<>>
    <2>1. Len(buf) \in Nat /\ Len(<<>>) = 0
      BY DEF Types
    <2> QED
      BY <1>1, <1>2, <1>3, <2>1 DEF HasRoom
  <1>5. CallRc \in {"OK", "ENOMEM", "ERANGE"}
    BY <1>1, <1>4 DEF CallRc
  <1>6. CallRc = "OK" => InRange(req) /\ (req.type # "TRIM" => rc = "OK")
    BY <1>1, <1>4 DEF CallRc
  <1>7. CallRc = "ERANGE" => ~InRange(req)
    BY <1>1, <1>4 DEF CallRc
  <1> QED
    BY <1>1, <1>2, <1>5, <1>6, <1>7

\* A copy stays inside the disk and inside buf.
LEMMA CopyBounds ==
    ASSUME Types, ServeInv, pc = "copy"
    PROVE  /\ req.h \in Handles /\ cmds[req.h] \in Commands /\ req.len \in Nat /\ req.from \in Nat
           /\ req.type \in {"READ", "WRITE", "TRIM"} /\ req.type = cmds[req.h].type
           /\ req.from + req.len <= Size /\ done <= req.len /\ rc = "OK"
           /\ req.type # "TRIM" => req.len <= Len(buf) /\ HasPayload
  <1>1. /\ Asked(req) /\ req.type \in {"READ", "WRITE", "TRIM"} /\ rc = "OK"
        /\ InRange(req) /\ done <= req.len
        /\ req.type # "TRIM" => HasRoom /\ HasPayload
    BY DEF ServeInv, Serving
  <1>2. /\ req.h \in Handles /\ cmds[req.h] \in Commands /\ req.len \in Nat /\ req.from \in Nat
        /\ req.type = cmds[req.h].type
    BY <1>1, HeaderFacts
  <1>3. req.from + req.len <= Size
    BY <1>1, <1>2, ServeConstants DEF InRange
  <1> QED
    BY <1>1, <1>2, <1>3 DEF HasRoom

\* An answer without data, and one with the bytes of buf.
LEMMA AnswerTypes ==
    ASSUME Types
    PROVE  /\ [rc |-> rc, data |-> <<>>] \in Answers
           /\ \A n \in Nat : n <= Size /\ n <= Len(buf) =>
                [rc |-> "OK", data |-> [i \in 1 .. n |-> buf[i]]] \in Answers
  <1>1. rc \in {"OK", "ENOMEM", "ERANGE"} /\ buf \in Seq(Vals) /\ Len(buf) \in Nat /\ Size \in Nat
    BY ServeConstants DEF Types
  <1>2. <<>> \in [1 .. 0 -> Vals]
    OBVIOUS
  <1>3. <<>> \in UNION {[1 .. n -> Vals] : n \in 0 .. Size}
    BY <1>1, <1>2
  <1>4. ASSUME NEW n \in Nat, n <= Size, n <= Len(buf)
        PROVE  [i \in 1 .. n |-> buf[i]] \in UNION {[1 .. k -> Vals] : k \in 0 .. Size}
    <2>1. [i \in 1 .. n |-> buf[i]] \in [1 .. n -> Vals]
      BY <1>1, <1>4
    <2> QED
      BY <1>1, <1>4, <2>1
  <1> QED
    BY Zenon, <1>1, <1>3, <1>4 DEF Answers

\* The server keeps the types.
LEMMA ServeTypes ==
    ASSUME Types, WireInv, ServeInv, Serve
    PROVE  Types'
  <1>1. CASE LoopTest \/ ReadNothing \/ ReadPayloadCut \/ CallUnlock \/ Killed
    <2>1. UNCHANGED <<mem, hbm, buf, wire, cmds, sending, answers, rc, done, udone>>
      BY <1>1 DEF LoopTest, ReadNothing, ReadPayloadCut, CallUnlock, Killed, backend, kernel, worker
    <2> QED
      BY <2>1 DEF Types
  <1>2. CASE ReadHeader
    <2>1. /\ UNCHANGED <<mem, hbm, cmds, sending, answers, done, udone>>
          /\ wire' = Tail(wire) /\ wire # <<>> /\ Head(wire).kind = "header" /\ Grow(Head(wire).len)
      BY <1>2 DEF ReadHeader, Arrived, backend, worker
    <2>2. 1 \in DOMAIN wire /\ Head(wire) = wire[1] /\ wire' \in Seq(Messages)
      BY <2>1, Taking DEF Types
    <2>3. Head(wire).len \in Nat
      BY <2>1, <2>2, HeaderFacts DEF WireInv
    <2>4. buf' \in Seq(Vals) /\ rc' \in {"OK", "ENOMEM", "ERANGE"}
      BY <2>1, <2>3, Growing
    <2> QED
      BY <2>1, <2>2, <2>4 DEF Types
  <1>3. CASE ReadPayload \/ ReadPayloadShortBuf
    <2>1. /\ UNCHANGED <<mem, hbm, cmds, sending, answers, rc, done, udone>>
          /\ wire' = Tail(wire) /\ pc = "payload" /\ Arrived("payload")
          /\ buf' = Fill(req.len, Head(wire).val)
      BY <1>3 DEF ReadPayload, ReadPayloadShortBuf, backend, worker
    <2>2. wire # <<>> /\ req.len \in Nat /\ Head(wire).val \in Vals
      BY <2>1, PayloadHead
    <2>3. wire' \in Seq(Messages) /\ buf' \in Seq(Vals)
      BY <2>1, <2>2, Taking, Filling DEF Types
    <2> QED
      BY <2>1, <2>3 DEF Types
  <1>4. CASE CallRefused \/ CallLock
    <2>1. /\ UNCHANGED <<mem, hbm, buf, wire, cmds, sending, answers, udone>>
          /\ pc = "call" /\ rc' \in {CallRc, "OK"} /\ done' \in {0, done}
      BY <1>4 DEF CallRefused, CallLock, backend, kernel, worker
    <2>2. rc' \in {"OK", "ENOMEM", "ERANGE"}
      BY <2>1, Verdict
    <2> QED
      BY <2>1, <2>2 DEF Types
  <1>5. CASE CallCopy
    <2>1. /\ UNCHANGED <<hbm, wire, cmds, sending, answers, rc, udone>>
          /\ pc = "copy" /\ done < req.len /\ done' = done + 1
          /\ \/ req.type = "READ" /\ buf' = [buf EXCEPT ![done + 1] = mem[req.from + done]] /\ UNCHANGED mem
             \/ req.type = "WRITE" /\ mem' = [mem EXCEPT ![req.from + done] = buf[done + 1]] /\ UNCHANGED buf
             \/ req.type = "TRIM" /\ mem' = [mem EXCEPT ![req.from + done] = 0] /\ UNCHANGED buf
      BY <1>5 DEF CallCopy, kernel, worker
    <2>2. /\ req.from \in Nat /\ req.len \in Nat /\ done \in Nat /\ Size \in Nat /\ 0 \in Vals
          /\ req.from + req.len <= Size
          /\ req.type # "TRIM" => req.len <= Len(buf)
      BY <2>1, CopyBounds, ServeConstants DEF Types
    <2>3. req.from + done \in 0 .. Size - 1
      BY <2>1, <2>2
    <2>4. /\ mem \in [0 .. Size - 1 -> Vals] /\ buf \in Seq(Vals) /\ Len(buf) \in Nat
      BY DEF Types
    <2>5. req.type # "TRIM" => done + 1 \in 1 .. Len(buf)
      BY <2>1, <2>2, <2>4
    <2>6. mem' \in [0 .. Size - 1 -> Vals] /\ buf' \in Seq(Vals)
      <3>1. CASE req.type = "READ"
        <4>1. buf' = [buf EXCEPT ![done + 1] = mem[req.from + done]] /\ mem' = mem
          BY <2>1, <3>1
        <4>2. mem[req.from + done] \in Vals
          BY <2>3, <2>4
        <4> QED
          BY <2>4, <4>1, <4>2, Overwriting
      <3>2. CASE req.type = "WRITE"
        <4>1. mem' = [mem EXCEPT ![req.from + done] = buf[done + 1]] /\ buf' = buf
          BY <2>1, <3>2
        <4>2. buf[done + 1] \in Vals
          BY <2>4, <2>5, <3>2
        <4> QED
          BY Zenon, <2>4, <4>1, <4>2
      <3>3. CASE req.type = "TRIM"
        BY <2>1, <2>2, <2>4, <3>3
      <3> QED
        BY <2>1, <3>1, <3>2, <3>3
    <2> QED
      BY <2>1, <2>2, <2>6 DEF Types
  <1>6. CASE SendReply \/ SendData
    <2>1. /\ UNCHANGED <<mem, hbm, buf, wire, cmds, sending, rc, done, udone>>
          /\ \/ UNCHANGED answers
             \/ \E a \in Answers : answers' = [answers EXCEPT ![req.h] = a]
      <3>1. CASE SendReply
        BY <3>1, AnswerTypes DEF SendReply, Answer, backend, kernel, worker
      <3>2. CASE SendData
        <4>1. pc = "data" /\ req.len \in Nat /\ req.len <= Size /\ req.len <= Len(buf)
          BY <3>2, HeaderFacts DEF SendData, ServeInv, Serving, HasRoom
        <4>2. [rc |-> "OK", data |-> [i \in 1 .. req.len |-> buf[i]]] \in Answers
          BY <4>1, AnswerTypes
        <4> QED
          BY Zenon, <3>2, <4>2 DEF SendData, Answer, backend, kernel, worker
      <3> QED
        BY <1>6, <3>1, <3>2
    <2>2. answers' \in [Handles -> Answers \cup {NULL}]
      BY <2>1 DEF Types
    <2> QED
      BY <2>1, <2>2 DEF Types
  <1>7. CASE ServeReturn
    <2>1. UNCHANGED <<mem, hbm, wire, cmds, sending, answers, rc, done, udone>> /\ buf' = <<>>
      BY <1>7 DEF ServeReturn, backend, kernel, worker
    <2> QED
      BY <2>1 DEF Types
  <1> QED
    BY <1>1, <1>2, <1>3, <1>4, <1>5, <1>6, <1>7 DEF Serve

\* So do transfers, which are inside the disk.
LEMMA XferTypes ==
    ASSUME Types, LockInv, XferContinues \/ \E t \in Transfers : XferBegin(t)
    PROVE  Types'
  <1>1. UNCHANGED <<buf, wire, cmds, sending, answers, rc, done>>
    BY DEF XferContinues, XferBegin, XferCopy, XferEnd, kernel, server
  <1>2. CASE XferEnd \/ \E t \in Transfers : XferBegin(t)
    BY <1>1, <1>2 DEF XferEnd, XferBegin, Types
  <1>3. CASE XferCopy
    <2>1. /\ upc = "copy" /\ udone < xfer.len /\ udone' = udone + 1
          /\ \/ mem' = [mem EXCEPT ![xfer.off + udone] = hbm[xfer.off + udone]] /\ UNCHANGED hbm
             \/ hbm' = [hbm EXCEPT ![xfer.off + udone] = mem[xfer.off + udone]] /\ UNCHANGED mem
      BY <1>3 DEF XferCopy
    <2>2. /\ xfer.off \in Nat /\ xfer.len \in Nat /\ xfer.off + xfer.len <= Size
          /\ udone \in Nat /\ Size \in Nat
      BY <2>1, ServeConstants DEF LockInv, Types
    <2>3. xfer.off + udone \in 0 .. Size - 1
      BY <2>1, <2>2
    <2>4. mem \in [0 .. Size - 1 -> Vals] /\ hbm \in [0 .. Size - 1 -> Vals]
      BY DEF Types
    <2>5. mem' \in [0 .. Size - 1 -> Vals] /\ hbm' \in [0 .. Size - 1 -> Vals]
      BY <2>1, <2>3, <2>4
    <2> QED
      BY <1>1, <2>1, <2>2, <2>5 DEF Types
  <1> QED
    BY <1>2, <1>3 DEF XferContinues

-----------------------------------------------------------------------------
(* The wire.                                                               *)

\* A step that leaves the socket alone and takes no request in hand.
LEMMA WireFrame ==
    ASSUME WireInv, UNCHANGED <<wire, sending, shut, cmds, answers>>,
           Serving' => Serving /\ req' = req
    PROVE  WireInv'
  BY DEF WireInv, Asked, PayloadNext

\* What the kernel appends leaves the payloads where they belong.
LEMMA PayloadStays ==
    ASSUME Locked, Types, Kernel, NEW h \in Handles, cmds[h] \in Commands,
           NEW i \in 0 .. Len(wire), PayloadNext(h, i)
    PROVE  PayloadNext(h, i)'
  <1>0. /\ wire \in Seq(Messages) /\ Len(wire) \in Nat /\ h # NULL
        /\ \A m : Append(wire, m)[Len(wire) + 1] = m /\ Len(Append(wire, m)) = Len(wire) + 1
        /\ \A m : \A j \in 1 .. Len(wire) : Append(wire, m)[j] = wire[j]
    BY ServeConstants DEF Types
  <1>1. ASSUME NEW g \in Handles, KernelSend(g)
        PROVE  PayloadNext(h, i)'
    <2>1. i # Len(wire) /\ g # h
      BY <1>0, <1>1, CommandFacts DEF KernelSend, PayloadNext
    <2>2. PICK m : wire' = Append(wire, m) /\ cmds'[h] = cmds[h]
      BY <1>1, <2>1 DEF KernelSend, Types
    <2>3. wire[i + 1] \in {Payload(cmds[h]), Part} /\ i + 1 \in 1 .. Len(wire)
      BY <1>0, <2>1 DEF PayloadNext
    <2> QED
      BY <1>0, <2>2, <2>3 DEF PayloadNext
  <1>2. CASE KernelPayload
    <2>1. wire' = Append(wire, Payload(cmds[sending])) /\ UNCHANGED cmds
      BY <1>2 DEF KernelPayload
    <2>2. CASE i = Len(wire)
      BY <1>0, <2>1, <2>2 DEF PayloadNext
    <2>3. CASE i # Len(wire)
      <3>1. wire[i + 1] \in {Payload(cmds[h]), Part} /\ i + 1 \in 1 .. Len(wire)
        BY <1>0, <2>3 DEF PayloadNext
      <3> QED
        BY <1>0, <2>1, <3>1 DEF PayloadNext
    <2> QED
      BY <2>2, <2>3
  <1>3. CASE KernelShutdown
    <2>1. /\ wire' = Append(wire, Part) \/ (sending = NULL /\ wire' = wire)
          /\ UNCHANGED <<cmds, sending>>
      BY <1>3 DEF KernelShutdown, Locked
    <2>2. CASE i = Len(wire)
      BY <1>0, <2>1, <2>2 DEF PayloadNext
    <2>3. CASE i # Len(wire)
      <3>1. wire[i + 1] \in {Payload(cmds[h]), Part} /\ i + 1 \in 1 .. Len(wire)
        BY <1>0, <2>3 DEF PayloadNext
      <3> QED
        BY <1>0, <2>1, <3>1 DEF PayloadNext
    <2> QED
      BY <2>2, <2>3
  <1>4. CASE Signal
    BY <1>4 DEF Signal, PayloadNext
  <1>5. CASE KernelDisc
    <2>1. wire' = Append(wire, DiscHeader) /\ UNCHANGED cmds /\ sending = NULL
      BY <1>5 DEF KernelDisc
    <2>2. i # Len(wire)
      BY <1>0, <2>1 DEF PayloadNext
    <2>3. wire[i + 1] \in {Payload(cmds[h]), Part} /\ i + 1 \in 1 .. Len(wire)
      BY <1>0, <2>2 DEF PayloadNext
    <2> QED
      BY <1>0, <2>1, <2>3 DEF PayloadNext
  <1> QED
    BY <1>1, <1>2, <1>3, <1>4, <1>5 DEF Kernel

\* The header of a request that has not been asked yet.
NewHeader(m) ==
    \/ m = DiscHeader
    \/ /\ m.h \in Handles /\ cmds[m.h] = NULL /\ cmds'[m.h] \in Commands
       /\ m = Header(m.h, cmds'[m.h])
       /\ m.type = "WRITE" => sending' = m.h /\ ~shut'

\* All the kernel does to the wire is to append one message.
LEMMA KernelAppends ==
    ASSUME Types, Kernel
    PROVE  \E m \in Messages :
             /\ wire' = wire \/ wire' = Append(wire, m)
             /\ m.kind = "header" => NewHeader(m)
             /\ UNCHANGED <<answers, pc, req>>
             /\ \A h \in Handles : cmds[h] \in Commands => cmds'[h] = cmds[h]
  <1>0. UNCHANGED <<answers, pc, req>>
    BY DEF Kernel, KernelSend, KernelPayload, KernelShutdown, Signal, KernelDisc, server
  <1>1. ASSUME NEW g \in Handles, KernelSend(g)
        PROVE  \E m \in Messages :
                 /\ wire' = Append(wire, m) /\ NewHeader(m)
                 /\ \A h \in Handles : cmds[h] \in Commands => cmds'[h] = cmds[h]
    <2>1. PICK c \in Commands : /\ cmds' = [cmds EXCEPT ![g] = c] /\ cmds[g] = NULL
                                /\ wire' = Append(wire, Header(g, c))
                                /\ c.type = "WRITE" => sending' = g
                                /\ ~shut /\ UNCHANGED shut
      BY Zenon, <1>1 DEF KernelSend
    <2>2. PICK m \in Messages : m = Header(g, c)
      BY DEF Messages
    <2>3. m.h = g /\ m.type = c.type
      BY <2>2, MessageFields
    <2>4. cmds'[g] = c /\ \A h \in Handles : cmds[h] \in Commands => cmds'[h] = cmds[h]
      BY <2>1, CommandFacts DEF Types
    <2>5. NewHeader(m)
      BY <2>1, <2>2, <2>3, <2>4 DEF NewHeader
    <2> QED
      BY <2>1, <2>2, <2>4, <2>5
  <1>2. CASE KernelPayload
    <2>1. wire' = Append(wire, Payload(cmds[sending])) /\ UNCHANGED cmds /\ sending # NULL
      BY <1>2 DEF KernelPayload
    <2>2. PICK m \in Messages : m = Payload(cmds[sending])
      BY <2>1 DEF Types, Messages
    <2>3. m.kind # "header"
      BY <2>2, MessageFields
    <2> QED
      BY <1>0, <2>1, <2>2, <2>3
  <1>3. CASE KernelShutdown \/ Signal
    <2>1. (wire' = wire \/ wire' = Append(wire, Part)) /\ UNCHANGED cmds
      BY <1>3 DEF KernelShutdown, Signal
    <2>2. Part \in Messages /\ Part.kind # "header"
      BY MessageFields DEF Messages
    <2> QED
      BY <1>0, <2>1, <2>2
  <1>4. CASE KernelDisc
    <2>1. wire' = Append(wire, DiscHeader) /\ UNCHANGED cmds
      BY <1>4 DEF KernelDisc
    <2>2. DiscHeader \in Messages /\ NewHeader(DiscHeader)
      BY DEF Messages, NewHeader
    <2> QED
      BY <1>0, <2>1, <2>2
  <1> QED
    BY <1>0, <1>1, <1>2, <1>3, <1>4 DEF Kernel

\* The kernel's messages keep the order on the wire.
LEMMA WireKernel ==
    ASSUME Locked, Types, WireInv, ServeInv, Kernel
    PROVE  WireInv'
  <1>1. PICK m \in Messages :
          /\ wire' = wire \/ wire' = Append(wire, m)
          /\ m.kind = "header" => NewHeader(m)
          /\ UNCHANGED <<answers, pc, req>>
          /\ \A h \in Handles : cmds[h] \in Commands => cmds'[h] = cmds[h]
    BY KernelAppends
  <1>2. /\ Len(wire) \in Nat /\ DOMAIN wire = 1 .. Len(wire)
        /\ \A i \in 1 .. Len(wire) : wire'[i] = wire[i]
        /\ \A i \in DOMAIN wire' : \/ i \in 1 .. Len(wire)
                                   \/ i = Len(wire') /\ i \notin 1 .. Len(wire) /\ wire'[i] = m
    <2>1. wire \in Seq(Messages) /\ Len(wire) \in Nat /\ DOMAIN wire = 1 .. Len(wire)
      BY DEF Types
    <2>2. CASE wire' = wire
      BY <2>1, <2>2
    <2>3. CASE wire' = Append(wire, m)
      BY <2>1, <2>3, Appending
    <2> QED
      BY <1>1, <2>2, <2>3
  <1>3. Serving' = Serving /\ UNCHANGED <<answers, req>>
    BY <1>1 DEF Serving
  <1>4. ASSUME NEW i \in 1 .. Len(wire), wire[i].kind = "header"
        PROVE  /\ Asked(wire[i])'
               /\ wire[i].h # NULL /\ NewHeader(m) => m.h # wire[i].h
               /\ wire[i].type = "WRITE" => PayloadNext(wire[i].h, i)'
    <2>1. PICK n : n = wire[i]
      OBVIOUS
    <2>2. Asked(n) /\ (n.type = "WRITE" => PayloadNext(n.h, i))
      BY <1>2, <1>4, <2>1 DEF WireInv
    <2>3. \/ n = DiscHeader
          \/ /\ n.h \in Handles /\ cmds[n.h] \in Commands /\ cmds[n.h] # NULL
             /\ cmds'[n.h] = cmds[n.h] /\ n = Header(n.h, cmds[n.h]) /\ answers[n.h] = NULL
      BY <1>1, <2>2, CommandFacts DEF Asked
    <2>4. n = wire'[i]
      BY <1>2, <2>1
    <2>5. Asked(n)'
      BY <1>3, <2>3 DEF Asked
    <2>6. n.h # NULL /\ NewHeader(m) => m.h # n.h
      BY <2>3, MessageFields, ServeConstants DEF NewHeader
    <2>7. n.type = "WRITE" => PayloadNext(n.h, i)'
      <3>1. i \in 0 .. Len(wire)
        BY <1>2
      <3>2. n.type = "WRITE" => n.h \in Handles /\ cmds[n.h] \in Commands
        BY <2>3, MessageFields
      <3> QED
        BY Zenon, <2>2, <3>1, <3>2, PayloadStays
    <2> QED
      BY <2>1, <2>4, <2>5, <2>6, <2>7
  <1>5. ASSUME NEW i \in DOMAIN wire', i = Len(wire'), wire'[i] = m, m.kind = "header"
        PROVE  /\ Asked(wire[i])'
               /\ m.h # NULL => (Serving => req.h # m.h)
               /\ m.type = "WRITE" => PayloadNext(wire[i].h, i)'
    <2>1. NewHeader(m)
      BY <1>1, <1>5
    <2>2. CASE m = DiscHeader
      BY <1>5, <2>2, MessageFields DEF Asked
    <2>3. CASE m # DiscHeader
      <3>1. /\ m.h \in Handles /\ cmds[m.h] = NULL /\ cmds'[m.h] \in Commands
            /\ m = Header(m.h, cmds'[m.h]) /\ (m.type = "WRITE" => sending' = m.h /\ ~shut')
        BY <2>1, <2>3 DEF NewHeader
      <3>2. answers'[m.h] = NULL
        BY <1>3, <3>1 DEF ServeInv
      <3>3. Asked(m)'
        BY <3>1, <3>2 DEF Asked
      <3>4. Serving => req.h # m.h
        <4>1. Serving => req.h = NULL \/ cmds[req.h] # NULL
          BY HeaderFacts DEF ServeInv
        <4> QED
          BY <3>1, <4>1, ServeConstants
      <3>5. m.type = "WRITE" => PayloadNext(m.h, i)'
        BY <1>5, <3>1 DEF PayloadNext
      <3> QED
        BY <1>5, <3>3, <3>4, <3>5
    <2> QED
      BY <2>2, <2>3
  <1>6. ASSUME NEW i \in DOMAIN wire', wire'[i].kind = "header"
        PROVE  /\ Asked(wire[i])'
               /\ wire'[i].type = "WRITE" => PayloadNext(wire[i].h, i)'
               /\ wire'[i].h # NULL => (Serving' => req'.h # wire'[i].h)
    <2>1. CASE i \in 1 .. Len(wire)
      <3>1. wire'[i] = wire[i] /\ (wire[i].h # NULL => (Serving => req.h # wire[i].h))
        BY <1>2, <1>6, <2>1 DEF WireInv
      <3> QED
        BY <1>3, <1>4, <1>6, <2>1, <3>1
    <2>2. CASE i \notin 1 .. Len(wire)
      BY <1>2, <1>3, <1>5, <1>6, <2>2
    <2> QED
      BY <2>1, <2>2
  <1>7. ASSUME NEW i \in DOMAIN wire', NEW j \in DOMAIN wire', i # j,
               wire'[i].kind = "header", wire'[j].kind = "header", wire'[i].h # NULL
        PROVE  wire'[j].h # wire'[i].h
    <2>1. CASE i \in 1 .. Len(wire) /\ j \in 1 .. Len(wire)
      BY <1>2, <1>7, <2>1 DEF WireInv
    <2>2. CASE i \in 1 .. Len(wire) /\ j \notin 1 .. Len(wire)
      BY <1>1, <1>2, <1>4, <1>7, <2>2
    <2>3. CASE i \notin 1 .. Len(wire) /\ j \in 1 .. Len(wire)
      BY <1>1, <1>2, <1>4, <1>7, <2>3
    <2>4. CASE i \notin 1 .. Len(wire) /\ j \notin 1 .. Len(wire)
      BY <1>2, <1>7, <2>4
    <2> QED
      BY <2>1, <2>2, <2>3, <2>4
  <1> QED
    BY <1>6, <1>7 DEF WireInv

\* serve_nbd takes the first message.
LEMMA WireTake ==
    ASSUME Types, WireInv, wire # <<>>, wire' = Tail(wire),
           UNCHANGED <<sending, shut, cmds, answers>>,
           \A i \in 2 .. Len(wire) :
             wire[i].kind = "header" /\ wire[i].h # NULL => (Serving' => req'.h # wire[i].h)
    PROVE  WireInv'
  <1>1. /\ Len(wire) \in Nat \ {0} /\ Len(wire') = Len(wire) - 1 /\ DOMAIN wire = 1 .. Len(wire)
        /\ DOMAIN wire' = 1 .. Len(wire) - 1
        /\ \A i \in 1 .. Len(wire) - 1 : wire'[i] = wire[i + 1]
    BY Taking DEF Types
  <1>2. ASSUME NEW i \in DOMAIN wire', wire'[i].kind = "header"
        PROVE  /\ Asked(wire[i])'
               /\ wire'[i].type = "WRITE" => PayloadNext(wire[i].h, i)'
               /\ wire'[i].h # NULL => (Serving' => req'.h # wire'[i].h)
    <2>1. i + 1 \in 2 .. Len(wire) /\ wire'[i] = wire[i + 1] /\ i \in Nat
      BY <1>1
    <2>2. Asked(wire[i + 1]) /\ (wire[i + 1].type = "WRITE" => PayloadNext(wire[i + 1].h, i + 1))
      BY <1>1, <1>2, <2>1 DEF WireInv
    <2>3. Asked(wire[i])'
      BY <2>1, <2>2 DEF Asked
    <2>4. ASSUME wire[i + 1].type = "WRITE" PROVE PayloadNext(wire[i].h, i)'
      <3>1. CASE i = Len(wire')
        BY <1>1, <2>1, <2>2, <2>4, <3>1 DEF PayloadNext
      <3>2. CASE i # Len(wire')
        <4>1. i + 1 # Len(wire) /\ i + 1 \in 1 .. Len(wire) - 1
          BY <1>1, <2>1, <3>2
        <4>2. wire'[i + 1] = wire[i + 1 + 1]
          BY <1>1, <4>1
        <4>3. wire[i + 1 + 1] \in {Payload(cmds[wire[i + 1].h]), Part}
          BY <2>2, <2>4, <4>1 DEF PayloadNext
        <4> QED
          BY <2>1, <3>2, <4>2, <4>3 DEF PayloadNext
      <3> QED
        BY <3>1, <3>2
    <2> QED
      BY <1>2, <2>1, <2>3, <2>4
  <1>3. ASSUME NEW i \in DOMAIN wire', NEW j \in DOMAIN wire', i # j,
               wire'[i].kind = "header", wire'[j].kind = "header", wire'[i].h # NULL
        PROVE  wire'[j].h # wire'[i].h
    <2>1. /\ i + 1 \in 1 .. Len(wire) /\ wire'[i] = wire[i + 1]
          /\ j + 1 \in 1 .. Len(wire) /\ wire'[j] = wire[j + 1] /\ i + 1 # j + 1
      BY <1>1, <1>3
    <2> QED
      BY <1>1, <1>3, <2>1 DEF WireInv
  <1> QED
    BY <1>2, <1>3 DEF WireInv

\* The request that is answered is not on the wire.
LEMMA WireAnswer ==
    ASSUME Types, WireInv, Serving, ~Serving', UNCHANGED <<wire, sending, shut, cmds>>,
           NEW a, answers' = [answers EXCEPT ![req.h] = a]
    PROVE  WireInv'
  <1>1. ASSUME NEW i \in DOMAIN wire, wire[i].kind = "header"
        PROVE  Asked(wire[i])'
    <2>1. PICK n : n = wire[i]
      OBVIOUS
    <2>2. Asked(n) /\ (n.h # NULL => req.h # n.h)
      BY <1>1, <2>1 DEF WireInv
    <2>3. n = DiscHeader \/ (n.h \in Handles /\ n.h # NULL)
      BY <2>2, ServeConstants DEF Asked
    <2>4. Asked(n)'
      BY <2>2, <2>3 DEF Asked, Types
    <2> QED
      BY <2>1, <2>4
  <1>2. ASSUME NEW i \in DOMAIN wire, NEW h, PayloadNext(h, i)
        PROVE  PayloadNext(h, i)'
    BY <1>2 DEF PayloadNext
  <1> QED
    BY <1>1, <1>2 DEF WireInv

\* The server keeps the order on the wire.
LEMMA WireServe ==
    ASSUME Types, WireInv, ServeInv, Serve
    PROVE  WireInv'
  <1>1. CASE \/ LoopTest \/ ReadNothing \/ ReadPayloadCut \/ CallRefused \/ CallLock \/ CallCopy
             \/ CallUnlock \/ Killed \/ ServeReturn
    <2>1. UNCHANGED <<wire, sending, shut, cmds, answers, req>>
      BY <1>1 DEF LoopTest, ReadNothing, ReadPayloadCut, CallRefused, CallLock, CallCopy,
                  CallUnlock, Killed, ServeReturn, kernel
    <2>2. Serving' => Serving
      BY <1>1 DEF LoopTest, ReadNothing, ReadPayloadCut, CallRefused, CallLock, CallCopy,
                  CallUnlock, Killed, ServeReturn, Serving
    <2> QED
      BY <2>1, <2>2, WireFrame
  <1>2. CASE ReadHeader
    <2>1. /\ UNCHANGED <<sending, shut, cmds, answers>> /\ wire' = Tail(wire) /\ wire # <<>>
          /\ req' = Head(wire) /\ Head(wire).kind = "header"
      BY <1>2 DEF ReadHeader, Arrived
    <2>2. Head(wire) = wire[1] /\ DOMAIN wire = 1 .. Len(wire) /\ Len(wire) \in Nat \ {0}
      BY <2>1, Taking DEF Types
    <2>3. \A i \in 2 .. Len(wire) :
            wire[i].kind = "header" /\ wire[i].h # NULL => wire[1].h # wire[i].h
      BY <2>1, <2>2 DEF WireInv
    <2> QED
      BY <2>1, <2>2, <2>3, WireTake
  <1>3. CASE ReadPayload \/ ReadPayloadShortBuf
    <2>1. /\ UNCHANGED <<sending, shut, cmds, answers, req>> /\ wire' = Tail(wire) /\ wire # <<>>
          /\ Serving
      BY <1>3 DEF ReadPayload, ReadPayloadShortBuf, Arrived, Serving
    <2>2. DOMAIN wire = 1 .. Len(wire) /\ Len(wire) \in Nat
      BY DEF Types
    <2>3. \A i \in 2 .. Len(wire) :
            wire[i].kind = "header" /\ wire[i].h # NULL => req'.h # wire[i].h
      BY <2>1, <2>2 DEF WireInv
    <2> QED
      BY <2>1, <2>3, WireTake
  <1>4. CASE SendReply \/ SendData
    <2>1. UNCHANGED <<wire, sending, shut, cmds, req>> /\ Serving
      BY <1>4 DEF SendReply, SendData, kernel, Serving
    <2>2. UNCHANGED answers \/ (~Serving' /\ \E a : answers' = [answers EXCEPT ![req.h] = a])
      BY Zenon, <1>4 DEF SendReply, SendData, Answer, Serving
    <2> QED
      BY <2>1, <2>2, WireFrame, WireAnswer
  <1> QED
    BY <1>1, <1>2, <1>3, <1>4 DEF Serve

-----------------------------------------------------------------------------
(* The request in hand.                                                    *)

\* What the kernel sends does not disturb the request in hand.
LEMMA HandKernel ==
    ASSUME Locked, Types, ServeInv, Kernel
    PROVE  ServeInv'
  <1>1. /\ UNCHANGED <<answers, pc, req>>
        /\ \A h \in Handles : cmds[h] \in Commands => cmds'[h] = cmds[h]
    BY KernelAppends
  <1>2. UNCHANGED <<buf, rc, done>>
    BY DEF Kernel, KernelSend, KernelPayload, KernelShutdown, Signal, KernelDisc, server
  <1>3. \A h \in Handles : cmds'[h] = NULL => answers'[h] = NULL
    BY <1>1 DEF ServeInv, Types
  <1>4. ASSUME Serving PROVE Asked(req)'
    BY <1>1, <1>4 DEF ServeInv, Asked
  <1>5. ASSUME pc = "payload" PROVE PayloadNext(req.h, 0)'
    <2>1. Asked(req) /\ req.type = "WRITE" /\ PayloadNext(req.h, 0)
      BY <1>5 DEF ServeInv, Serving
    <2>2. req.h \in Handles /\ cmds[req.h] \in Commands
      BY <2>1, HeaderFacts
    <2>3. 0 \in 0 .. Len(wire)
      BY DEF Types
    <2>4. PICK h \in Handles : h = req.h
      BY <2>2
    <2>5. PayloadNext(h, 0)'
      BY <2>1, <2>2, <2>3, <2>4, PayloadStays
    <2> QED
      BY <1>1, <2>4, <2>5 DEF PayloadNext
  <1>6. ASSUME Serving, HasPayload PROVE HasPayload'
    <2>1. req.type = "WRITE" => req.h \in Handles /\ cmds[req.h] \in Commands
      BY <1>6, HeaderFacts DEF ServeInv
    <2> QED
      BY <1>1, <1>2, <1>6, <2>1 DEF HasPayload
  <1>7. (HasRoom' <=> HasRoom) /\ (WithData' <=> WithData) /\ (InRange(req)' <=> InRange(req))
    BY <1>1, <1>2 DEF HasRoom, WithData, InRange
  <1> QED
    BY <1>1, <1>2, <1>3, <1>4, <1>5, <1>6, <1>7 DEF ServeInv, Serving

\* serve_nbd reads a header.
LEMMA HandHeader ==
    ASSUME Types, WireInv, ServeInv, ReadHeader
    PROVE  ServeInv'
  <1>1. /\ UNCHANGED <<cmds, answers, sending, shut>> /\ wire # <<>> /\ wire' = Tail(wire)
        /\ req' = Head(wire) /\ Head(wire).kind = "header" /\ Grow(Head(wire).len)
        /\ pc' = After(Head(wire).type)
    BY DEF ReadHeader, Arrived
  <1>2. /\ Len(wire) \in Nat \ {0} /\ Len(wire') = Len(wire) - 1 /\ 1 \in DOMAIN wire
        /\ Head(wire) = wire[1] /\ (Len(wire) # 1 => wire'[1] = wire[2])
    <2>1. /\ Len(wire) \in Nat \ {0} /\ Len(wire') = Len(wire) - 1 /\ Head(wire) = wire[1]
          /\ DOMAIN wire = 1 .. Len(wire)
          /\ \A i \in 1 .. Len(wire) - 1 : wire'[i] = wire[i + 1]
      BY <1>1, Taking DEF Types
    <2>2. Len(wire) # 1 => 1 \in 1 .. Len(wire) - 1 /\ 1 + 1 = 2
      BY <2>1
    <2> QED
      BY <2>1, <2>2
  <1>3. PICK m : m = wire[1]
    OBVIOUS
  <1>4. Asked(m) /\ (m.type = "WRITE" => PayloadNext(m.h, 1))
    BY <1>1, <1>2, <1>3 DEF WireInv
  <1>5. /\ m.len \in Nat /\ m.type \in {"READ", "WRITE", "TRIM", "FLUSH", "DISC"}
    BY <1>4, HeaderFacts
  <1>6. Asked(m)'
    BY <1>1, <1>4 DEF Asked
  <1>7. (rc' = "ENOMEM" \/ (rc' = "OK" /\ m.len <= Len(buf'))) /\ req' = m
    BY <1>1, <1>2, <1>3, <1>5, Growing
  <1>8. m.type = "WRITE" => PayloadNext(m.h, 0)'
    BY <1>1, <1>2, <1>4 DEF PayloadNext
  <1>9. pc' = After(m.type)
    BY <1>1, <1>2, <1>3
  <1>10. \/ pc' = "payload" /\ m.type = "WRITE"
         \/ pc' = "call" /\ m.type \in {"READ", "TRIM"}
         \/ pc' = "reply" /\ m.type \in {"FLUSH", "DISC"}
    BY <1>5, <1>9 DEF After
  <1>11. HasRoom' <=> m.len <= Len(buf')
    BY <1>7 DEF HasRoom
  <1>12. (m.type # "WRITE" => HasPayload') /\ (m.type # "READ" => ~WithData')
    BY <1>7 DEF HasPayload, WithData
  <1> QED
    BY <1>1, <1>6, <1>7, <1>8, <1>10, <1>11, <1>12 DEF ServeInv, Serving

\* serve_nbd reads a payload, or what is left of it.
LEMMA HandPayload ==
    ASSUME Types, ServeInv, ReadPayload \/ ReadPayloadShortBuf \/ ReadPayloadCut
    PROVE  ServeInv'
  <1>1. /\ UNCHANGED <<cmds, answers, req, rc, done>> /\ pc = "payload"
    BY DEF ReadPayload, ReadPayloadShortBuf, ReadPayloadCut, kernel
  <1>2. /\ Asked(req) /\ req.type = "WRITE" /\ PayloadNext(req.h, 0)
        /\ rc = "ENOMEM" \/ (rc = "OK" /\ HasRoom)
    BY <1>1 DEF ServeInv, Serving
  <1>3. Asked(req)' /\ \A h \in Handles : cmds'[h] = NULL => answers'[h] = NULL
    BY <1>1, <1>2 DEF Asked, ServeInv
  <1>4. CASE ReadPayload
    <2>1. pc' = "call" /\ buf' = Fill(req.len, Head(wire).val) /\ req.len <= Len(buf)
      BY <1>4 DEF ReadPayload
    <2>2. /\ req.len \in Nat /\ cmds[req.h].val \in Vals /\ Head(wire).val = cmds[req.h].val
      BY <1>1, <1>4, PayloadHead DEF ReadPayload
    <2>3. PICK n \in Nat, v \in Vals : n = req.len /\ v = Head(wire).val
      BY <2>2
    <2>4. Len(Fill(n, v)) = Len(buf) /\ \A i \in 1 .. Len(buf) : i <= n => Fill(n, v)[i] = v
      BY Filling
    <2>5. Len(buf') = Len(buf) /\ \A i \in 1 .. Len(buf) : i <= n => buf'[i] = v
      BY <2>1, <2>3, <2>4
    <2>6. Len(buf) \in Nat
      BY DEF Types
    <2>7. \A i \in 1 .. n : buf'[i] = v
      BY <2>1, <2>3, <2>5, <2>6
    <2>8. HasRoom' /\ HasPayload'
      BY <1>1, <2>1, <2>2, <2>3, <2>5, <2>7 DEF HasRoom, HasPayload
    <2> QED
      BY <1>1, <1>2, <1>3, <2>1, <2>8 DEF ServeInv, Serving
  <1>5. CASE ReadPayloadShortBuf
    <2>1. pc' \in {"out", "crashed", "call"} /\ req.len > Len(buf)
      BY <1>5 DEF ReadPayloadShortBuf
    <2>2. rc = "ENOMEM"
      <3>1. Len(buf) \in Nat
        BY DEF Types
      <3>2. req.len \in Nat
        BY Zenon, <1>2, HeaderFacts
      <3> QED
        BY <1>2, <2>1, <3>1, <3>2 DEF HasRoom
    <2> QED
      BY <1>1, <1>2, <1>3, <2>1, <2>2 DEF ServeInv, Serving
  <1>6. CASE ReadPayloadCut
    <2>1. ~Eof
      BY <1>2 DEF Eof, PayloadNext
    <2> QED
      BY <1>1, <1>3, <1>6, <2>1 DEF ReadPayloadCut, ServeInv, Serving
  <1> QED
    BY <1>4, <1>5, <1>6

\* The backend call.
LEMMA HandCall ==
    ASSUME Types, ServeInv, CallRefused \/ CallLock \/ CallCopy \/ CallUnlock
    PROVE  ServeInv'
  <1>1. UNCHANGED <<cmds, answers, req>>
    BY DEF CallRefused, CallLock, CallCopy, CallUnlock, kernel
  <1>2. Asked(req)
    BY DEF ServeInv, Serving, CallRefused, CallLock, CallCopy, CallUnlock
  <1>3. Asked(req)' /\ \A h \in Handles : cmds'[h] = NULL => answers'[h] = NULL
    BY <1>1, <1>2 DEF Asked, ServeInv
  <1>4. CASE CallRefused
    BY <1>1, <1>3, <1>4 DEF CallRefused, ServeInv, Serving, WithData
  <1>5. CASE CallLock
    <2>1. /\ pc = "call" /\ CallRc = "OK" /\ rc' = "OK" /\ done' = 0 /\ pc' = "copy"
          /\ buf' = buf
      BY <1>5 DEF CallLock
    <2>2. /\ req.len \in Nat /\ InRange(req) /\ (req.type # "TRIM" => HasRoom /\ HasPayload)
      BY <2>1, Verdict
    <2>3. req.type \in {"READ", "WRITE", "TRIM"}
      BY <2>1 DEF ServeInv
    <2>4. InRange(req)' /\ (req.type # "TRIM" => HasRoom' /\ HasPayload')
      BY <1>1, <2>1, <2>2 DEF InRange, HasRoom, HasPayload
    <2>5. done' <= req'.len
      BY <1>1, <2>1, <2>2
    <2> QED
      BY Zenon, <1>1, <1>3, <2>1, <2>3, <2>4, <2>5 DEF ServeInv, Serving
  <1>6. CASE CallCopy
    <2>1. pc = "copy" /\ UNCHANGED <<pc, rc>> /\ done < req.len /\ done' = done + 1
      BY <1>6 DEF CallCopy
    <2>2. /\ req.type \in {"READ", "WRITE", "TRIM"} /\ rc = "OK" /\ InRange(req)
          /\ req.type # "TRIM" => HasRoom /\ HasPayload
      BY <2>1 DEF ServeInv
    <2>3. req.len \in Nat /\ done \in Nat /\ buf \in Seq(Vals)
      BY <2>1, CopyBounds DEF Types
    <2>4. /\ Len(buf') = Len(buf) /\ (req.type = "WRITE" => buf' = buf)
      BY <1>6, <2>3 DEF CallCopy
    <2>5. InRange(req)' /\ (req.type # "TRIM" => HasRoom' /\ HasPayload')
      BY <1>1, <2>2, <2>4 DEF InRange, HasRoom, HasPayload
    <2>6. done' <= req'.len
      BY <1>1, <2>1, <2>3
    <2> QED
      BY Zenon, <1>1, <1>3, <2>1, <2>2, <2>5, <2>6 DEF ServeInv, Serving
  <1>7. CASE CallUnlock
    <2>1. pc = "copy" /\ pc' = "reply" /\ UNCHANGED <<buf, rc>>
      BY <1>7 DEF CallUnlock
    <2>2. /\ req.from + req.len <= Size /\ req.len \in Nat /\ req.from \in Nat
          /\ req.type # "TRIM" => HasRoom
      BY <2>1, CopyBounds DEF HasRoom
    <2>3. WithData' => HasRoom' /\ req'.len <= Size
      BY <1>1, <2>1, <2>2, ServeConstants DEF WithData, HasRoom
    <2> QED
      BY <1>1, <1>3, <2>1, <2>3 DEF ServeInv, Serving
  <1> QED
    BY <1>4, <1>5, <1>6, <1>7

\* The reply, and the steps outside a request.
LEMMA HandReply ==
    ASSUME Types, ServeInv,
           LoopTest \/ ReadNothing \/ SendReply \/ SendData \/ Killed \/ ServeReturn
    PROVE  ServeInv'
  <1>1. CASE LoopTest \/ ReadNothing \/ ServeReturn
    <2>1. UNCHANGED <<cmds, answers>> /\ pc' \in {"out", "read", "done"}
      BY <1>1 DEF LoopTest, ReadNothing, ServeReturn, kernel
    <2> QED
      BY <2>1 DEF ServeInv, Serving
  <1>2. CASE Killed \/ SendReply \/ SendData
    <2>1. Asked(req) /\ UNCHANGED <<cmds, req, buf, rc>>
      BY <1>2 DEF Killed, SendReply, SendData, ServeInv, Serving, kernel
    <2>2. CASE Killed
      <3>1. Asked(req)'
        BY <2>1, <2>2 DEF Asked, Killed
      <3> QED
        BY <2>1, <2>2, <3>1 DEF Killed, ServeInv, Serving
    <2>3. CASE SendReply /\ WithData
      <3>1. UNCHANGED answers /\ pc = "reply" /\ pc' = "data"
        BY <2>3 DEF SendReply, WithData
      <3>2. HasRoom /\ req.len <= Size
        BY <2>3, <3>1 DEF ServeInv
      <3>3. HasRoom' /\ req'.len <= Size /\ WithData'
        BY <2>1, <2>3, <3>2 DEF HasRoom, WithData
      <3>4. Asked(req)'
        BY <2>1, <3>1 DEF Asked
      <3> QED
        BY <2>1, <3>1, <3>3, <3>4 DEF ServeInv, Serving
    <2>4. CASE (SendReply /\ ~WithData) \/ SendData
      <3>1. pc' \in {"out", "loop"}
        BY <2>4 DEF SendReply, SendData
      <3>2. UNCHANGED answers \/ (req.h # NULL /\ \E a : answers' = [answers EXCEPT ![req.h] = a])
        BY Zenon, <2>4 DEF SendReply, SendData, Answer
      <3>3. req.h # NULL => req.h \in Handles /\ cmds[req.h] # NULL
        BY <2>1, HeaderFacts
      <3>4. \A h \in Handles : cmds'[h] = NULL => answers'[h] = NULL
        BY <2>1, <3>2, <3>3 DEF ServeInv, Types
      <3> QED
        BY <3>1, <3>4 DEF ServeInv, Serving
    <2> QED
      BY <1>2, <2>2, <2>3, <2>4
  <1> QED
    BY <1>1, <1>2

\* A transfer leaves the request in hand alone.
LEMMA HandXfer ==
    ASSUME ServeInv, UNCHANGED <<cmds, answers, wire, sending, shut, pc, req, buf, rc, done>>
    PROVE  ServeInv'
  BY DEF ServeInv, Serving, Asked, PayloadNext, HasRoom, HasPayload, WithData, InRange

\* The lock excludes the other copy.
LEMMA LockStep ==
    ASSUME Urma = "mock", Types, ServeInv, LockInv, Next
    PROVE  LockInv'
  <1>0. NULL # "nbd" /\ NULL # "urma"
    BY ServeConstants
  <1>1. CASE Kernel
    BY <1>1 DEF Kernel, KernelSend, KernelPayload, KernelShutdown, Signal, KernelDisc, backend,
                server, worker, LockInv
  <1>2. CASE Serve
    <2>1. CASE CallLock
      BY <1>0, <2>1 DEF CallLock, LockFree, LockInv, worker
    <2>2. CASE CallUnlock
      BY <1>0, <2>2 DEF CallUnlock, LockInv, worker
    <2>3. CASE CallCopy
      BY <2>3 DEF CallCopy, LockInv, worker
    <2>4. CASE \/ LoopTest \/ ReadHeader \/ ReadNothing \/ ReadPayload \/ ReadPayloadShortBuf
               \/ ReadPayloadCut \/ CallRefused \/ SendReply \/ SendData \/ Killed \/ ServeReturn
      <3>1. UNCHANGED <<lock, upc, xfer, udone>> /\ pc' # "copy"
        BY <2>4 DEF LoopTest, ReadHeader, After, ReadNothing, ReadPayload, ReadPayloadShortBuf,
                    ReadPayloadCut, CallRefused, SendReply, SendData, Killed, ServeReturn,
                    backend, worker
      <3> QED
        BY <3>1 DEF LockInv
    <2> QED
      BY <1>2, <2>1, <2>2, <2>3, <2>4 DEF Serve
  <1>3. ASSUME NEW t \in Transfers, XferBegin(t)
        PROVE  LockInv'
    BY <1>0, <1>3, ServeConstants DEF XferBegin, LockInv, server
  <1>4. CASE XferCopy
    <2>1. xfer \in Transfers /\ udone \in Nat /\ udone < xfer.len /\ xfer.len \in Nat
      BY <1>4, ServeConstants DEF XferCopy, LockInv, Types
    <2> QED
      BY <1>4, <2>1 DEF XferCopy, LockInv, server
  <1>5. CASE XferEnd
    BY <1>0, <1>5 DEF XferEnd, LockInv, server
  <1> QED
    BY <1>1, <1>2, <1>3, <1>4, <1>5 DEF Next, XferContinues

-----------------------------------------------------------------------------
(* The invariant.                                                          *)

\* The invariant holds at first.
LEMMA InvInit ==
    ASSUME Init
    PROVE  Inv
  <1>1. Types
    BY ServeConstants DEF Init, Types
  <1>2. WireInv
    BY DEF Init, WireInv
  <1>3. ServeInv
    BY DEF Init, ServeInv, Serving
  <1>4. LockInv
    BY DEF Init, LockInv
  <1> QED
    BY <1>1, <1>2, <1>3, <1>4 DEF Inv

\* Every step keeps the invariant when the store is locked.
LEMMA InvStep ==
    ASSUME Locked, Inv, [Next]_vars
    PROVE  Inv'
  <1>0. Types /\ WireInv /\ ServeInv /\ LockInv
    BY DEF Inv
  <1>1. CASE UNCHANGED vars
    <2>1. /\ UNCHANGED <<mem, lock, hbm, wire, shut, sending, cmds, answers>>
          /\ UNCHANGED <<pc, req, buf, rc, done, upc, xfer, udone>>
      BY <1>1 DEF vars, backend, kernel, server, worker
    <2>2. Types'
      BY <1>0, <2>1 DEF Types
    <2>3. WireInv'
      BY <1>0, <2>1, WireFrame DEF Serving
    <2>4. ServeInv'
      BY <1>0, <2>1, HandXfer
    <2>5. LockInv'
      BY <1>0, <2>1 DEF LockInv
    <2> QED
      BY <2>2, <2>3, <2>4, <2>5 DEF Inv
  <1>2. CASE Next
    <2>1. LockInv'
      BY <1>0, <1>2, LockStep DEF Locked
    <2>2. CASE Kernel
      BY <1>0, <2>1, <2>2, KernelTypes, WireKernel, HandKernel DEF Inv
    <2>3. CASE Serve
      <3>1. ServeInv'
        BY <1>0, <2>3, HandHeader, HandPayload, HandCall, HandReply DEF Serve
      <3> QED
        BY <1>0, <2>1, <2>3, <3>1, ServeTypes, WireServe DEF Inv
    <2>4. CASE XferContinues \/ \E t \in Transfers : XferBegin(t)
      <3>1. UNCHANGED <<cmds, answers, wire, sending, shut, pc, req, buf, rc, done>>
        BY <2>4 DEF XferContinues, XferBegin, XferCopy, XferEnd, kernel, server
      <3>2. WireInv'
        BY <1>0, <3>1, WireFrame DEF Serving
      <3>3. ServeInv'
        BY <1>0, <3>1, HandXfer
      <3> QED
        BY <1>0, <2>1, <2>4, <3>2, <3>3, XferTypes DEF Inv
    <2> QED
      BY <1>2, <2>2, <2>3, <2>4 DEF Next
  <1> QED
    BY <1>1, <1>2

\* The invariant of the locked store.
LEMMA InvHolds == Locked => (Spec => []Inv)
  <1> SUFFICES ASSUME Locked PROVE Spec => []Inv
    OBVIOUS
  <1> QED
    BY InvInit, InvStep, PTL DEF Spec

-----------------------------------------------------------------------------
(* The refinement.  The results and the told handles of the abstract disk, *)
(* and each of its steps in terms of the views.                            *)

Results == [h \in Handles |-> ResultView(h)]
Told == {h \in Handles : answers[h] # NULL}

\* A step that changes nothing a client of the disk sees.
LEMMA AsStutter ==
    ASSUME UNCHANGED <<StoreView, HbmView, cmds, Results, Told>>
    PROVE  UNCHANGED Promise!vars
  BY DEF Promise!vars, Results, Told

\* A command is given to the server.
LEMMA AsSubmit ==
    ASSUME NEW h \in Handles, cmds[h] = NULL, NEW c \in Commands, cmds' = [cmds EXCEPT ![h] = c],
           UNCHANGED <<StoreView, HbmView, Results, Told>>
    PROVE  Promise!Next
  <1>1. Promise!Submit(h)
    BY Zenon DEF Promise!Submit, Results, Told
  <1> QED
    BY <1>1 DEF Promise!Next

\* A command takes effect, all of it at once.
LEMMA AsPerform ==
    ASSUME NEW h \in Handles, cmds[h] # NULL, ResultView(h) = NULL, InRange(cmds[h]),
           \A i \in 0 .. Size - 1 : StoreView'[i] =
             IF cmds[h].type \in {"WRITE", "TRIM"} /\ i \in Cells(cmds[h].from, cmds[h].len)
               THEN cmds[h].val ELSE StoreView[i],
           NEW d, Results' = [Results EXCEPT ![h] = [rc |-> "OK", data |-> d]],
           d = IF cmds[h].type = "READ"
                 THEN [i \in 1 .. cmds[h].len |-> StoreView[cmds[h].from + i - 1]] ELSE <<>>,
           UNCHANGED <<HbmView, cmds, Told>>
    PROVE  Promise!Next
  <1>1. Results[h] = NULL
    BY DEF Results
  <1>2. StoreView' = Promise!Apply(cmds[h], StoreView)
    BY DEF Promise!Apply, Promise!Cells, Cells, StoreView
  <1>3. d = Promise!Contents(cmds[h], StoreView)
    BY DEF Promise!Contents
  <1>4. Promise!InRange(cmds[h])
    BY DEF Promise!InRange, InRange
  <1>5. Promise!Perform(h)
    BY Zenon, <1>1, <1>2, <1>3, <1>4 DEF Promise!Perform, Results, Told
  <1> QED
    BY <1>5 DEF Promise!Next

\* A command is refused and has no effect.
LEMMA AsRefuse ==
    ASSUME NEW h \in Handles, cmds[h] # NULL, ResultView(h) = NULL,
           NEW r \in {"ENOMEM", "ERANGE"}, r = "ERANGE" => ~InRange(cmds[h]),
           Results' = [Results EXCEPT ![h] = [rc |-> r, data |-> <<>>]],
           UNCHANGED <<StoreView, HbmView, cmds, Told>>
    PROVE  Promise!Next
  <1>1. Results[h] = NULL
    BY DEF Results
  <1>2. r \in IF Promise!InRange(cmds[h]) THEN {"ENOMEM"} ELSE {"ERANGE", "ENOMEM"}
    BY DEF Promise!InRange, InRange
  <1>3. Promise!Refuse(h)
    BY Zenon, <1>1, <1>2 DEF Promise!Refuse, Results, Told
  <1> QED
    BY <1>3 DEF Promise!Next

\* A reply arrives.
LEMMA AsTell ==
    ASSUME NEW h \in Handles, ResultView(h) # NULL, Told' = Told \cup {h},
           UNCHANGED <<StoreView, HbmView, cmds, Results>>
    PROVE  Promise!Next
  <1>1. Results[h] # NULL
    BY DEF Results
  <1>2. Promise!Tell(h)
    BY <1>1 DEF Promise!Tell, Results, Told
  <1> QED
    BY <1>2 DEF Promise!Next

\* A transfer of the URMA side takes effect, all of it at once.
LEMMA AsTransfer ==
    ASSUME NEW t \in Transfers, UNCHANGED <<cmds, Results, Told>>,
           \/ /\ t.dir = "HBM_TO_RAMDISK" /\ HbmView' = HbmView
              /\ \A i \in 0 .. Size - 1 : StoreView'[i] =
                   IF i \in Cells(t.off, t.len) THEN HbmView[i] ELSE StoreView[i]
           \/ /\ t.dir = "RAMDISK_TO_HBM" /\ StoreView' = StoreView
              /\ \A i \in 0 .. Size - 1 : HbmView'[i] =
                   IF i \in Cells(t.off, t.len) THEN StoreView[i] ELSE HbmView[i]
    PROVE  Promise!Next
  <1>1. CASE t.dir = "HBM_TO_RAMDISK" /\ HbmView' = HbmView
               /\ \A i \in 0 .. Size - 1 : StoreView'[i] =
                    IF i \in Cells(t.off, t.len) THEN HbmView[i] ELSE StoreView[i]
    <2>1. StoreView' = [i \in 0 .. Size - 1 |->
                          IF i \in Cells(t.off, t.len) THEN HbmView[i] ELSE StoreView[i]]
      BY <1>1 DEF StoreView
    <2>2. Promise!Transfer(t)
      BY <1>1, <2>1 DEF Promise!Transfer, Promise!Cells, Cells, Results, Told
    <2> QED
      BY <2>2 DEF Promise!Next
  <1>2. CASE t.dir = "RAMDISK_TO_HBM" /\ StoreView' = StoreView
               /\ \A i \in 0 .. Size - 1 : HbmView'[i] =
                    IF i \in Cells(t.off, t.len) THEN StoreView[i] ELSE HbmView[i]
    <2>1. HbmView' = [i \in 0 .. Size - 1 |->
                        IF i \in Cells(t.off, t.len) THEN StoreView[i] ELSE HbmView[i]]
      BY <1>2 DEF HbmView
    <2>2. Promise!Transfer(t)
      BY <1>2, <2>1 DEF Promise!Transfer, Promise!Cells, Cells, Results, Told
    <2> QED
      BY <2>2 DEF Promise!Next
  <1> QED
    BY <1>1, <1>2

-----------------------------------------------------------------------------
(* Steps that the abstract disk does not see, and what it sees of others.  *)

\* A command whose result is settled and not yet told.
Settled == pc \in {"copy", "reply", "data", "killed"}

\* Nobody copies: the disk and the HBM stay as they are seen.
LEMMA MemoryFrame ==
    ASSUME UNCHANGED <<mem, hbm, upc, xfer, udone>>,
           UNCHANGED <<pc, req, buf, done>> \/ (pc # "copy" /\ pc' # "copy")
    PROVE  UNCHANGED <<StoreView, HbmView>>
  BY DEF StoreView, HbmView, Pending, Moving

\* No command is settled or told.
LEMMA ResultsFrame ==
    ASSUME UNCHANGED answers,
           \/ ~Settled /\ ~Settled'
           \/ /\ UNCHANGED <<pc, req, rc, buf, done>>
              /\ UNCHANGED mem \/ pc # "copy"
    PROVE  UNCHANGED <<Results, Told>>
  <1>1. Told' = Told
    BY DEF Told
  <1>2. ASSUME NEW h \in Handles PROVE ResultView(h)' = ResultView(h)
    <2>1. CASE ~Settled /\ ~Settled'
      BY <2>1 DEF ResultView, Settled
    <2>2. CASE UNCHANGED <<pc, req, rc, buf, done>> /\ (UNCHANGED mem \/ pc # "copy")
      <3>1. ReadView' = ReadView /\ WithData' = WithData
        BY <2>2 DEF ReadView, Pending, WithData
      <3> QED
        BY <2>2, <3>1 DEF ResultView
    <2> QED
      BY <2>1, <2>2
  <1>3. Results' = Results
    BY <1>2 DEF Results
  <1> QED
    BY <1>1, <1>3

\* One command gets its result.
LEMMA ResultSet ==
    ASSUME NEW h \in Handles, UNCHANGED answers, ~Settled, Settled', req'.h = h, answers[h] = NULL
    PROVE  /\ ResultView(h) = NULL /\ Told' = Told
           /\ Results' = [Results EXCEPT ![h] =
                [rc |-> rc', data |-> IF WithData' THEN ReadView' ELSE <<>>]]
  <1>1. \A g \in Handles \ {h} : ResultView(g)' = ResultView(g)
    BY DEF ResultView, Settled
  <1>2. ResultView(h)' = [rc |-> rc', data |-> IF WithData' THEN ReadView' ELSE <<>>]
    BY DEF ResultView, Settled
  <1>3. ResultView(h) = NULL /\ Told' = Told
    BY DEF ResultView, Settled, Told
  <1> QED
    BY Zenon, <1>1, <1>2, <1>3 DEF Results

\* One command's result is told.
LEMMA ResultTold ==
    ASSUME Types, NEW h \in Handles, Settled, ~Settled', req.h = h, answers[h] = NULL,
           NEW a \in Answers, answers' = [answers EXCEPT ![h] = a],
           a = [rc |-> rc, data |-> IF WithData THEN ReadView ELSE <<>>]
    PROVE  ResultView(h) # NULL /\ Told' = Told \cup {h} /\ Results' = Results
  <1>0. a # NULL /\ answers \in [Handles -> Answers \cup {NULL}]
    BY ServeConstants DEF Types
  <1>1. \A g \in Handles \ {h} : ResultView(g)' = ResultView(g)
    BY <1>0 DEF ResultView, Settled
  <1>2. ResultView(h)' = a
    BY <1>0 DEF ResultView
  <1>3. ResultView(h) = a
    BY <1>0 DEF ResultView, Settled
  <1>4. Told' = Told \cup {h}
    BY <1>0 DEF Told
  <1>5. Results' = Results
    BY <1>1, <1>2, <1>3 DEF Results
  <1> QED
    BY <1>0, <1>3, <1>4, <1>5

\* The kernel's steps.
LEMMA RefineKernel ==
    ASSUME Kernel
    PROVE  [Promise!Next]_Promise!vars
  <1>1. UNCHANGED <<mem, hbm, answers, pc, req, buf, rc, done, upc, xfer, udone>>
    BY DEF Kernel, KernelSend, KernelPayload, KernelShutdown, Signal, KernelDisc, backend, server,
           worker
  <1>2. UNCHANGED <<StoreView, HbmView, Results, Told>>
    BY <1>1, MemoryFrame, ResultsFrame
  <1>3. CASE UNCHANGED cmds
    BY <1>2, <1>3, AsStutter
  <1>4. CASE \E h \in Handles : KernelSend(h)
    <2>1. PICK h \in Handles, c \in Commands : cmds[h] = NULL /\ cmds' = [cmds EXCEPT ![h] = c]
      BY Zenon, <1>4 DEF KernelSend
    <2> QED
      BY Zenon, <1>2, <2>1, AsSubmit
  <1> QED
    BY <1>3, <1>4 DEF Kernel, KernelPayload, KernelShutdown, Signal, KernelDisc

\* The steps of serve_nbd that settle and tell nothing.
LEMMA RefineQuiet ==
    ASSUME \/ LoopTest \/ ReadNothing \/ ReadPayload \/ ReadPayloadShortBuf \/ ReadPayloadCut
           \/ ServeReturn
    PROVE  UNCHANGED Promise!vars
  <1>1. UNCHANGED <<mem, hbm, upc, xfer, udone, cmds, answers>>
    BY DEF LoopTest, ReadNothing, ReadPayload, ReadPayloadShortBuf, ReadPayloadCut, ServeReturn,
           backend, kernel, worker
  <1>2. ~Settled /\ ~Settled'
    BY DEF LoopTest, ReadNothing, ReadPayload, ReadPayloadShortBuf, ReadPayloadCut, ServeReturn,
           Settled
  <1>3. pc # "copy" /\ pc' # "copy"
    BY <1>2 DEF Settled
  <1>4. UNCHANGED <<StoreView, HbmView, Results, Told>>
    BY <1>1, <1>2, <1>3, MemoryFrame, ResultsFrame
  <1> QED
    BY <1>1, <1>4, AsStutter

\* The header of FLUSH settles it; the others settle nothing.
LEMMA RefineHeader ==
    ASSUME Types, WireInv, ReadHeader
    PROVE  [Promise!Next]_Promise!vars
  <1>1. /\ UNCHANGED <<mem, hbm, upc, xfer, udone, cmds, answers>> /\ wire # <<>>
        /\ req' = Head(wire) /\ Head(wire).kind = "header" /\ Grow(Head(wire).len)
        /\ pc' = After(Head(wire).type) /\ pc = "read"
    BY DEF ReadHeader, Arrived, backend, worker
  <1>2. PICK m : m = Head(wire) /\ Asked(m)
    <2>1. Head(wire) = wire[1] /\ 1 \in DOMAIN wire
      BY <1>1, Taking DEF Types
    <2> QED
      BY <1>1, <2>1 DEF WireInv
  <1>3. /\ m.len \in Nat
        /\ \/ m.h = NULL /\ m.type = "DISC"
           \/ /\ m.h \in Handles /\ cmds[m.h] \in Commands /\ cmds[m.h] # NULL
              /\ m.type = cmds[m.h].type
              /\ m.type \in {"READ", "WRITE", "TRIM", "FLUSH"} /\ answers[m.h] = NULL
    BY <1>2, HeaderFacts
  <1>4. req' = m /\ pc' = After(m.type) /\ Grow(m.len)
    BY <1>1, <1>2
  <1>5. UNCHANGED <<StoreView, HbmView>>
    <2>1. pc # "copy" /\ pc' # "copy"
      BY <1>1, <1>4 DEF After
    <2> QED
      BY <1>1, <2>1, MemoryFrame
  <1>6. CASE m.type \in {"READ", "WRITE", "TRIM"}
    <2>1. ~Settled /\ ~Settled'
      BY <1>1, <1>4, <1>6 DEF Settled, After
    <2> QED
      BY <1>1, <1>5, <2>1, ResultsFrame, AsStutter
  <1>7. CASE m.type = "DISC"
    <2>1. m.h = NULL /\ NULL \notin Handles
      BY <1>3, <1>7, ServeConstants
    <2>2. UNCHANGED <<Results, Told>>
      BY <1>1, <1>4, <2>1 DEF Results, ResultView, Told
    <2> QED
      BY <1>1, <1>5, <2>2, AsStutter
  <1>8. CASE m.type = "FLUSH"
    <2>1. PICK h \in Handles : h = m.h
      BY <1>3, <1>8
    <2>2. /\ cmds[h] # NULL /\ cmds[h].type = "FLUSH" /\ cmds[h].from = 0 /\ cmds[h].len = 0
          /\ answers[h] = NULL
      BY <1>3, <1>8, <2>1, CommandFacts
    <2>3. m.len = 0
      BY <1>2, <1>8, <2>1, <2>2, HeaderFacts
    <2>4. rc' = "OK"
      BY <1>4, <2>3, Growing
    <2>5. ~Settled /\ Settled' /\ ~WithData' /\ req'.h = h
      BY <1>1, <1>4, <1>8, <2>1 DEF Settled, After, WithData
    <2>6. /\ ResultView(h) = NULL /\ Told' = Told
          /\ Results' = [Results EXCEPT ![h] = [rc |-> "OK", data |-> <<>>]]
      BY <1>1, <2>2, <2>4, <2>5, ResultSet
    <2>7. InRange(cmds[h])
      BY <2>2, ServeConstants DEF InRange
    <2> QED
      BY Zenon, <1>1, <1>5, <2>2, <2>6, <2>7, AsPerform
  <1> QED
    BY <1>3, <1>6, <1>7, <1>8

\* A refused call settles the error.
LEMMA RefineRefused ==
    ASSUME Types, ServeInv, CallRefused
    PROVE  Promise!Next
  <1>1. /\ UNCHANGED <<mem, hbm, upc, xfer, udone, cmds, answers, req>>
        /\ pc = "call" /\ pc' = "reply" /\ rc' = CallRc /\ CallRc # "OK"
    BY DEF CallRefused, backend, kernel, worker
  <1>2. PICK h \in Handles, r \in {"ENOMEM", "ERANGE"} :
          h = req.h /\ r = CallRc /\ (r = "ERANGE" => ~InRange(req))
    BY <1>1, Verdict
  <1>3. /\ cmds[h] # NULL /\ answers[h] = NULL
        /\ req.from = cmds[h].from /\ req.len = cmds[h].len
    <2>1. Asked(req)
      BY <1>1 DEF ServeInv, Serving
    <2> QED
      BY <1>2, <2>1, HeaderFacts, ServeConstants
  <1>4. ~Settled /\ Settled' /\ ~WithData' /\ req'.h = h /\ rc' = r
    BY <1>1, <1>2 DEF Settled, WithData
  <1>5. /\ ResultView(h) = NULL /\ Told' = Told
        /\ Results' = [Results EXCEPT ![h] = [rc |-> r, data |-> <<>>]]
    BY <1>1, <1>3, <1>4, ResultSet
  <1>6. UNCHANGED <<StoreView, HbmView>>
    BY <1>1, MemoryFrame
  <1>7. r = "ERANGE" => ~InRange(cmds[h])
    BY <1>2, <1>3 DEF InRange
  <1> QED
    BY Zenon, <1>1, <1>3, <1>5, <1>6, <1>7, AsRefuse

\* While nobody moves bytes the views are the memories.
LEMMA ViewsAtRest ==
    ASSUME Types, pc # "copy", upc # "copy"
    PROVE  StoreView = mem /\ HbmView = hbm
  BY DEF Types, StoreView, HbmView, Pending, Moving

\* What ramdisk_backend_validate_range tests.
LEMMA RangeSum ==
    ASSUME NEW from \in Nat, NEW len \in Nat, NEW size \in Nat, from <= size, len <= size - from
    PROVE  from + len <= size
  OBVIOUS

\* Nothing has been copied yet.
LEMMA NothingCopied ==
    ASSUME NEW from \in Nat, NEW len \in Nat
    PROVE  from + 0 = from /\ len - 0 = len
  OBVIOUS

\* A call that gets the lock settles its effect and its result.
LEMMA RefineLock ==
    ASSUME Types, ServeInv, LockInv, CallLock
    PROVE  Promise!Next
  <1>1. /\ UNCHANGED <<mem, hbm, upc, xfer, udone, cmds, answers, req, buf>>
        /\ pc = "call" /\ pc' = "copy" /\ rc' = "OK" /\ CallRc = "OK" /\ done' = 0 /\ lock = NULL
    BY DEF CallLock, LockFree, kernel, worker
  <1>2. upc # "copy"
    BY <1>1, ServeConstants DEF LockInv
  <1>3. StoreView = mem /\ HbmView = hbm /\ mem \in [0 .. Size - 1 -> Vals]
    BY <1>1, <1>2, ViewsAtRest DEF Types
  <1>4. PICK h \in Handles, c \in Commands : h = req.h /\ c = cmds[h]
    BY <1>1, Verdict
  <1>5. /\ c # NULL /\ answers[h] = NULL /\ req.type = c.type
        /\ req.from = c.from /\ req.len = c.len /\ c.from \in Nat /\ c.len \in Nat
        /\ c.type # "WRITE" => c.val = 0
    <2>1. Asked(req)
      BY <1>1 DEF ServeInv, Serving
    <2>2. /\ answers[h] = NULL /\ req.type = c.type /\ req.from = c.from /\ req.len = c.len
      BY <1>4, <2>1, HeaderFacts, ServeConstants
    <2> QED
      BY <2>2, CommandFacts
  <1>6. InRange(req) /\ (req.type # "TRIM" => HasPayload) /\ req.type \in {"READ", "WRITE", "TRIM"}
    BY <1>1, Verdict DEF ServeInv
  <1>7. c.from + c.len <= Size /\ Size \in Nat
    <2>1. req.from <= Size /\ req.len <= Size - req.from
      BY <1>6 DEF InRange
    <2>2. Size \in Nat
      BY ServeConstants
    <2>3. c.from <= Size /\ c.len <= Size - c.from
      BY Zenon, <1>5, <2>1
    <2> QED
      BY Zenon, <1>5, <2>2, <2>3, RangeSum
  <1>8. \A i : Pending(i)' <=> i \in Cells(c.from, c.len)
    <2>1. c.from + 0 = c.from /\ c.len - 0 = c.len
      BY Zenon, <1>5, NothingCopied
    <2>2. req.from + 0 = c.from /\ req.len - 0 = c.len
      BY Zenon, <1>5, <2>1
    <2> QED
      BY <1>1, <2>2 DEF Pending
  <1>9. \A i \in 0 .. Size - 1 : StoreView'[i] =
          IF c.type \in {"WRITE", "TRIM"} /\ i \in Cells(c.from, c.len) THEN c.val ELSE mem[i]
    <2> TAKE i \in 0 .. Size - 1
    <2>1. ~Moving(i)'
      BY <1>1, <1>2 DEF Moving
    <2>2. CASE c.type = "WRITE" /\ i \in Cells(c.from, c.len)
      <3>1. StoreView'[i] = buf[i - c.from + 1]
        BY <1>1, <1>5, <1>8, <2>2 DEF StoreView
      <3>2. i - c.from + 1 \in 1 .. c.len
        BY <1>5, <2>2 DEF Cells
      <3> QED
        BY <1>4, <1>5, <1>6, <2>2, <3>1, <3>2 DEF HasPayload
    <2>3. CASE c.type = "TRIM" /\ i \in Cells(c.from, c.len)
      BY <1>1, <1>5, <1>8, <2>3 DEF StoreView
    <2>4. CASE ~(c.type \in {"WRITE", "TRIM"} /\ i \in Cells(c.from, c.len))
      BY <1>1, <1>5, <1>8, <2>1, <2>4 DEF StoreView
    <2> QED
      BY <2>2, <2>3, <2>4
  <1>10. HbmView' = HbmView
    BY <1>1, <1>2 DEF HbmView, Moving
  <1>11. WithData' <=> c.type = "READ"
    BY <1>1, <1>5 DEF WithData
  <1>12. ReadView' = [i \in 1 .. c.len |-> mem[c.from + i - 1]]
    <2>1. \A i \in 1 .. c.len : Pending(c.from + i - 1)'
      BY <1>5, <1>8 DEF Cells
    <2> QED
      BY <1>1, <1>5, <2>1 DEF ReadView
  <1>13. ~Settled /\ Settled' /\ req'.h = h
    BY <1>1, <1>4 DEF Settled
  <1>14. PICK d : d = IF c.type = "READ" THEN [i \in 1 .. c.len |-> mem[c.from + i - 1]] ELSE <<>>
    BY Zenon
  <1>15. /\ ResultView(h) = NULL /\ Told' = Told
         /\ Results' = [Results EXCEPT ![h] = [rc |-> "OK", data |-> d]]
    BY <1>1, <1>5, <1>11, <1>12, <1>13, <1>14, ResultSet
  <1>16. InRange(cmds[h])
    BY <1>4, <1>5, <1>6 DEF InRange
  <1> QED
    BY Zenon, <1>1, <1>3, <1>4, <1>5, <1>9, <1>10, <1>14, <1>15, <1>16, AsPerform

\* A byte more is copied.
LEMMA OneByte ==
    ASSUME NEW off \in Nat, NEW len \in Nat, NEW n \in Nat, n < len
    PROVE  /\ \A i \in Int : i \in Cells(off + n, len - n)
                <=> (i \in Cells(off + (n + 1), len - (n + 1)) \/ i = off + n)
           /\ off + n \notin Cells(off + (n + 1), len - (n + 1)) /\ off + n \in Int
  BY DEF Cells

\* A byte of the copy changes no view: it was counted as copied.
LEMMA RefineCopy ==
    ASSUME Types, ServeInv, LockInv, CallCopy
    PROVE  UNCHANGED Promise!vars
  <1>1. /\ UNCHANGED <<lock, hbm, upc, xfer, udone, cmds, answers, pc, req, rc>>
        /\ pc = "copy" /\ done < req.len /\ done' = done + 1
    BY DEF CallCopy, kernel, worker
  <1>2. upc # "copy"
    BY <1>1 DEF LockInv
  <1>3. /\ req.len \in Nat /\ req.from \in Nat /\ req.from + req.len <= Size /\ done \in Nat
        /\ req.type \in {"READ", "WRITE", "TRIM"} /\ (req.type # "TRIM" => req.len <= Len(buf))
        /\ mem \in [0 .. Size - 1 -> Vals] /\ buf \in Seq(Vals) /\ Size \in Nat
    BY <1>1, CopyBounds, ServeConstants DEF Types
  <1>4. PICK at \in 0 .. Size - 1 : at = req.from + done
    BY <1>1, <1>3
  <1>5. \A i \in Int : Pending(i) <=> (Pending(i)' \/ i = at)
    <2>1. \A i \in Int : i \in Cells(req.from + done, req.len - done)
            <=> (i \in Cells(req.from + (done + 1), req.len - (done + 1)) \/ i = at)
      BY Zenon, <1>1, <1>3, <1>4, OneByte
    <2> QED
      BY Zenon, <1>1, <2>1 DEF Pending
  <1>6. ~Pending(at)' /\ Pending(at) /\ at \in Int
    <2>1. at \notin Cells(req.from + (done + 1), req.len - (done + 1)) /\ at \in Int
      BY Zenon, <1>1, <1>3, <1>4, OneByte
    <2>2. ~Pending(at)'
      BY Zenon, <1>1, <2>1 DEF Pending
    <2> QED
      BY <1>5, <2>1, <2>2
  <1>7. \A i \in Int : ~Moving(i) /\ ~Moving(i)'
    BY <1>1, <1>2 DEF Moving
  <1>a. HbmView' = HbmView
    BY <1>1, <1>2 DEF HbmView, Moving
  <1>8. CASE req.type = "READ"
    <2>1. buf' = [buf EXCEPT ![done + 1] = mem[at]] /\ mem' = mem
      BY <1>4, <1>8 DEF CallCopy
    <2>2. StoreView' = StoreView
      BY <1>1, <1>7, <1>8, <2>1 DEF StoreView
    <2>3. \A i \in 1 .. req.len : buf'[i] = IF i = done + 1 THEN mem[at] ELSE buf[i]
      BY <1>3, <1>8, <2>1
    <2>4. ReadView' = ReadView
      <3>1. ASSUME NEW i \in 1 .. req.len
            PROVE  (IF Pending(req.from + i - 1)' THEN mem[req.from + i - 1] ELSE buf'[i])
                     = IF Pending(req.from + i - 1) THEN mem[req.from + i - 1] ELSE buf[i]
        <4>1. req.from + i - 1 \in Int /\ (req.from + i - 1 = at <=> i = done + 1)
          BY <1>3, <1>4, <3>1
        <4>2. CASE i = done + 1
          BY <1>5, <1>6, <2>3, <4>1, <4>2
        <4>3. CASE i # done + 1
          <5>1. Pending(req.from + i - 1) <=> Pending(req.from + i - 1)'
            BY <1>1, <1>5, <4>1, <4>3
          <5> QED
            BY <2>3, <4>3, <5>1
        <4> QED
          BY <4>2, <4>3
      <3> QED
        BY <1>1, <2>1, <3>1 DEF ReadView
    <2>5. Results' = Results /\ Told' = Told
      BY <1>1, <2>4 DEF Results, ResultView, WithData, Told
    <2> QED
      BY <1>1, <1>a, <2>2, <2>5, AsStutter
  <1>9. CASE req.type \in {"WRITE", "TRIM"}
    <2>1. PICK v : /\ mem' = [mem EXCEPT ![at] = v] /\ buf' = buf
                   /\ v = IF req.type = "WRITE" THEN buf[done + 1] ELSE 0
      BY <1>4, <1>9 DEF CallCopy
    <2>2. ASSUME NEW i \in 0 .. Size - 1 PROVE StoreView'[i] = StoreView[i]
      <3>0. i \in Int /\ mem'[i] = IF i = at THEN v ELSE mem[i]
        BY <1>3, <2>1
      <3>1. CASE i = at
        <4>1. StoreView'[i] = v
          BY <1>6, <1>7, <3>0, <3>1 DEF StoreView
        <4>2. StoreView[i] = v
          <5>1. i - req.from + 1 = done + 1
            <6>1. req.from \in Nat /\ done \in Nat /\ i = req.from + done
              BY <1>3, <1>4, <3>1
            <6> QED
              BY <6>1
          <5>2. Pending(i)
            BY <1>6, <3>1
          <5> QED
            BY <1>9, <2>1, <5>1, <5>2 DEF StoreView
        <4> QED
          BY <4>1, <4>2
      <3>2. CASE i # at
        BY <1>1, <1>5, <1>7, <2>1, <3>0, <3>2 DEF StoreView
      <3> QED
        BY <3>1, <3>2
    <2>3. StoreView' = StoreView
      BY <2>2 DEF StoreView
    <2>4. Results' = Results /\ Told' = Told
      BY <1>1, <1>9 DEF Results, ResultView, WithData, Told
    <2> QED
      BY <1>1, <1>a, <2>3, <2>4, AsStutter
  <1> QED
    BY <1>3, <1>8, <1>9

\* With every byte copied nothing is pending.
LEMMA RefineUnlock ==
    ASSUME Types, ServeInv, CallUnlock
    PROVE  UNCHANGED Promise!vars
  <1>1. /\ UNCHANGED <<mem, hbm, upc, xfer, udone, cmds, answers, req, buf, rc, done>>
        /\ pc = "copy" /\ pc' = "reply" /\ done = req.len
    BY DEF CallUnlock, kernel, worker
  <1>2. req.len \in Nat /\ req.from \in Nat
    BY <1>1, CopyBounds
  <1>3. \A i \in Int : ~Pending(i) /\ ~Pending(i)'
    <2>1. \A i \in Int : i \notin Cells(req.from + done, req.len - done)
      BY <1>1, <1>2 DEF Cells
    <2> QED
      BY <1>1, <2>1 DEF Pending
  <1>4. \A i : Moving(i)' <=> Moving(i)
    BY <1>1 DEF Moving
  <1>5. StoreView' = StoreView
    <2>1. ASSUME NEW i \in 0 .. Size - 1 PROVE i \in Int
      OBVIOUS
    <2>2. ASSUME NEW i \in 0 .. Size - 1 PROVE StoreView'[i] = StoreView[i]
      BY <1>1, <1>3, <1>4, <2>1 DEF StoreView
    <2> QED
      BY <2>2 DEF StoreView
  <1>6. HbmView' = HbmView
    BY <1>1, <1>4 DEF HbmView
  <1>7. ReadView' = ReadView
    <2>1. ASSUME NEW i \in 1 .. req.len
          PROVE  ~Pending(req.from + i - 1) /\ ~Pending(req.from + i - 1)'
      <3>1. PICK k \in Int : k = req.from + i - 1
        BY <1>2
      <3> QED
        BY <1>1, <1>3, <3>1
    <2> QED
      BY <1>1, <2>1 DEF ReadView
  <1>8. Results' = Results /\ Told' = Told
    BY <1>1, <1>7 DEF Results, ResultView, WithData, Told
  <1> QED
    BY <1>1, <1>5, <1>6, <1>8, AsStutter

\* The reply tells the result, or goes on to the data of a READ.
LEMMA RefineReply ==
    ASSUME Types, ServeInv, SendReply \/ SendData \/ Killed
    PROVE  [Promise!Next]_Promise!vars
  <1>1. /\ UNCHANGED <<mem, hbm, upc, xfer, udone, cmds, req, buf, rc, done>>
        /\ pc \in {"reply", "data"} /\ pc' \in {"data", "out", "loop", "killed"}
    BY DEF SendReply, SendData, Killed, backend, kernel, worker
  <1>2. UNCHANGED <<StoreView, HbmView>>
    BY <1>1, MemoryFrame
  <1>3. /\ Asked(req) /\ Settled
    BY <1>1 DEF ServeInv, Serving, Settled
  <1>4. /\ req.len \in Nat
        /\ \/ req.h = NULL /\ req.type = "DISC"
           \/ req.h \in Handles /\ req.h # NULL /\ answers[req.h] = NULL
    BY <1>3, HeaderFacts
  <1>5. CASE Killed \/ (SendReply /\ WithData)
    <2>1. UNCHANGED answers /\ Settled'
      BY <1>5 DEF Killed, SendReply, WithData, Settled
    <2>2. ReadView' = ReadView /\ WithData' = WithData
      BY <1>1 DEF ReadView, WithData, Pending
    <2>3. UNCHANGED <<Results, Told>>
      BY <1>1, <1>3, <2>1, <2>2 DEF Results, ResultView, Told, Settled
    <2> QED
      BY <1>1, <1>2, <2>3, AsStutter
  <1>6. CASE (SendReply /\ ~WithData) \/ SendData
    <2>1. PICK a \in Answers :
            /\ a = [rc |-> rc, data |-> IF WithData THEN ReadView ELSE <<>>]
            /\ answers' = IF req.h = NULL THEN answers ELSE [answers EXCEPT ![req.h] = a]
      <3>1. CASE SendReply /\ ~WithData
        BY <3>1, AnswerTypes DEF SendReply, Answer
      <3>2. CASE SendData
        <4>1. pc = "data" /\ answers' = IF req.h = NULL THEN answers
                ELSE [answers EXCEPT ![req.h] =
                        [rc |-> "OK", data |-> [i \in 1 .. req.len |-> buf[i]]]]
          BY <3>2 DEF SendData, Answer
        <4>2. WithData /\ HasRoom /\ req.len <= Size
          BY <4>1 DEF ServeInv
        <4>3. ReadView = [i \in 1 .. req.len |-> buf[i]]
          BY <4>1 DEF ReadView, Pending
        <4>4. [rc |-> "OK", data |-> [i \in 1 .. req.len |-> buf[i]]] \in Answers
          BY <1>4, <4>2, AnswerTypes DEF HasRoom
        <4> QED
          BY Zenon, <4>1, <4>2, <4>3, <4>4 DEF WithData
      <3> QED
        BY <1>6, <3>1, <3>2
    <2>2. ~Settled'
      BY <1>6 DEF SendReply, SendData, Settled
    <2>3. CASE req.h = NULL
      <3>1. NULL \notin Handles /\ answers' = answers
        BY <2>1, <2>3, ServeConstants
      <3>2. UNCHANGED <<Results, Told>>
        BY <1>1, <2>3, <3>1 DEF Results, ResultView, Told
      <3> QED
        BY <1>1, <1>2, <3>2, AsStutter
    <2>4. CASE req.h # NULL
      <3>1. PICK h \in Handles : h = req.h
        BY <1>4, <2>4
      <3>2. ResultView(h) # NULL /\ Told' = Told \cup {h} /\ Results' = Results
        BY Zenon, <1>3, <1>4, <2>1, <2>2, <2>4, <3>1, ResultTold
      <3> QED
        BY <1>1, <1>2, <3>2, AsTell
    <2> QED
      BY <2>3, <2>4
  <1> QED
    BY <1>5, <1>6

\* A transfer that gets the lock takes effect.
LEMMA RefineBegin ==
    ASSUME Urma = "mock", Types, LockInv, NEW t \in Transfers, XferBegin(t)
    PROVE  Promise!Next
  <1>1. /\ UNCHANGED <<mem, hbm, cmds, answers, pc, req, buf, rc, done>>
        /\ lock = NULL /\ upc = "idle" /\ upc' = "copy" /\ xfer' = t /\ udone' = 0
    BY DEF XferBegin, kernel, server
  <1>2. pc # "copy"
    BY <1>1, ServeConstants DEF LockInv
  <1>3. /\ StoreView = mem /\ HbmView = hbm
        /\ mem \in [0 .. Size - 1 -> Vals] /\ hbm \in [0 .. Size - 1 -> Vals]
    BY <1>1, <1>2, ViewsAtRest DEF Types
  <1>4. t.off \in Nat /\ t.len \in Nat /\ t.dir \in {"HBM_TO_RAMDISK", "RAMDISK_TO_HBM"}
    BY ServeConstants
  <1>5. \A i : Moving(i)' <=> i \in Cells(t.off, t.len)
    BY <1>1, <1>4 DEF Moving, Cells
  <1>6. UNCHANGED <<Results, Told>>
    BY <1>1, ResultsFrame
  <1>7. CASE t.dir = "HBM_TO_RAMDISK"
    <2>1. HbmView' = hbm
      BY <1>1, <1>3, <1>7 DEF HbmView
    <2>2. \A i \in 0 .. Size - 1 : StoreView'[i] =
            IF i \in Cells(t.off, t.len) THEN hbm[i] ELSE mem[i]
      BY <1>1, <1>2, <1>5, <1>7 DEF StoreView, Pending
    <2> QED
      BY <1>1, <1>3, <1>6, <1>7, <2>1, <2>2, AsTransfer
  <1>8. CASE t.dir = "RAMDISK_TO_HBM"
    <2>1. StoreView' = mem
      BY <1>1, <1>2, <1>3, <1>8 DEF StoreView, Pending
    <2>2. \A i \in 0 .. Size - 1 : HbmView'[i] =
            IF i \in Cells(t.off, t.len) THEN mem[i] ELSE hbm[i]
      BY <1>1, <1>5, <1>8 DEF HbmView
    <2> QED
      BY <1>1, <1>3, <1>6, <1>8, <2>1, <2>2, AsTransfer
  <1> QED
    BY <1>4, <1>7, <1>8

\* A byte of the transfer changes no view, and neither does its end.
LEMMA RefineXfer ==
    ASSUME Types, LockInv, XferContinues
    PROVE  UNCHANGED Promise!vars
  <1>1. /\ UNCHANGED <<cmds, answers, pc, req, buf, rc, done>> /\ upc = "copy"
    BY DEF XferContinues, XferCopy, XferEnd, kernel, server
  <1>2. /\ pc # "copy" /\ xfer \in Transfers /\ udone \in Nat /\ udone <= xfer.len
        /\ mem \in [0 .. Size - 1 -> Vals] /\ hbm \in [0 .. Size - 1 -> Vals]
    BY <1>1 DEF LockInv, Types
  <1>3. /\ xfer.off \in Nat /\ xfer.len \in Nat /\ xfer.off + xfer.len <= Size /\ Size \in Nat
        /\ xfer.dir \in {"HBM_TO_RAMDISK", "RAMDISK_TO_HBM"}
    BY <1>2, ServeConstants
  <1>5. UNCHANGED <<Results, Told>>
    BY <1>1, <1>2, ResultsFrame
  <1>6. \A i : ~Pending(i) /\ ~Pending(i)'
    BY <1>1, <1>2 DEF Pending
  <1>7. ASSUME NEW i \in 0 .. Size - 1
        PROVE  StoreView'[i] = StoreView[i] /\ HbmView'[i] = HbmView[i]
    <2>0. i \in Int
      OBVIOUS
    <2>1. /\ StoreView[i] = IF Moving(i) /\ xfer.dir = "HBM_TO_RAMDISK" THEN hbm[i] ELSE mem[i]
          /\ HbmView[i] = IF Moving(i) /\ xfer.dir = "RAMDISK_TO_HBM" THEN mem[i] ELSE hbm[i]
      BY <1>6 DEF StoreView, HbmView
    <2>2. CASE XferEnd
      <3>1. udone = xfer.len /\ upc' = "idle" /\ UNCHANGED <<mem, hbm>>
        BY <2>2 DEF XferEnd
      <3>2. ~Moving(i)
        <4>1. i \notin Cells(xfer.off + xfer.len, xfer.len - xfer.len)
          BY <1>3, <2>0 DEF Cells
        <4> QED
          BY <3>1, <4>1 DEF Moving
      <3>3. ~Moving(i)'
        BY <3>1 DEF Moving
      <3>4. StoreView'[i] = mem[i] /\ HbmView'[i] = hbm[i]
        BY <1>6, <3>1, <3>3 DEF StoreView, HbmView
      <3> QED
        BY <2>1, <3>2, <3>4
    <2>3. CASE XferCopy
      <3>1. /\ udone < xfer.len /\ udone' = udone + 1 /\ UNCHANGED <<upc, xfer>>
            /\ LET at == xfer.off + udone IN
                 \/ /\ xfer.dir = "HBM_TO_RAMDISK" /\ mem' = [mem EXCEPT ![at] = hbm[at]]
                    /\ UNCHANGED hbm
                 \/ /\ xfer.dir = "RAMDISK_TO_HBM" /\ hbm' = [hbm EXCEPT ![at] = mem[at]]
                    /\ UNCHANGED mem
        BY <2>3 DEF XferCopy
      <3>2. PICK at \in 0 .. Size - 1 : at = xfer.off + udone
        BY <1>2, <1>3, <3>1
      <3>4. (Moving(i) <=> (Moving(i)' \/ i = at)) /\ (i = at => ~Moving(i)')
        <4>1. /\ i \in Cells(xfer.off + udone, xfer.len - udone)
                   <=> (i \in Cells(xfer.off + (udone + 1), xfer.len - (udone + 1)) \/ i = at)
              /\ at \notin Cells(xfer.off + (udone + 1), xfer.len - (udone + 1))
          BY Zenon, <1>2, <1>3, <2>0, <3>1, <3>2, OneByte
        <4> QED
          BY Zenon, <1>1, <3>1, <4>1 DEF Moving
      <3>5. /\ StoreView'[i] = IF Moving(i)' /\ xfer.dir = "HBM_TO_RAMDISK" THEN hbm'[i] ELSE mem'[i]
            /\ HbmView'[i] = IF Moving(i)' /\ xfer.dir = "RAMDISK_TO_HBM" THEN mem'[i] ELSE hbm'[i]
        BY <1>6, <3>1 DEF StoreView, HbmView
      <3>6. \/ /\ xfer.dir = "HBM_TO_RAMDISK" /\ hbm' = hbm
               /\ mem'[i] = IF i = at THEN hbm[i] ELSE mem[i]
            \/ /\ xfer.dir = "RAMDISK_TO_HBM" /\ mem' = mem
               /\ hbm'[i] = IF i = at THEN mem[i] ELSE hbm[i]
        BY Zenon, <1>2, <3>1, <3>2
      <3> QED
        BY <2>1, <3>4, <3>5, <3>6
    <2> QED
      BY <2>2, <2>3 DEF XferContinues
  <1>8. StoreView' = StoreView
    BY <1>7 DEF StoreView
  <1>9. HbmView' = HbmView
    BY <1>7 DEF HbmView
  <1> QED
    BY <1>1, <1>5, <1>8, <1>9, AsStutter

\* With the mock provider and sockets that do not end between a header and its
\* payload, the two paths are one atomic disk, for any size, commands and
\* transfers, and any number of them (ramdisk_backend_read/write/zero and
\* execute_mock_xfer under backend->lock).
THEOREM AtomicDisk == Locked => (Spec => ImplementsDisk)
  <1> SUFFICES ASSUME Locked PROVE Spec => ImplementsDisk
    OBVIOUS
  <1>1. Init => Promise!Init
    <2> SUFFICES ASSUME Init PROVE Promise!Init
      OBVIOUS
    <2>1. Types /\ pc # "copy" /\ upc # "copy"
      BY Zenon, InvInit DEF Inv, Init
    <2>2. StoreView = mem /\ HbmView = hbm
      BY <2>1, ViewsAtRest
    <2>3. \A h \in Handles : ResultView(h) = NULL
      BY DEF Init, ResultView
    <2>4. Told = {} /\ Results = [h \in Handles |-> NULL]
      BY <2>3 DEF Init, Told, Results
    <2> QED
      BY <2>2, <2>4, ServeConstants DEF Init, Promise!Init, Told, Results
  <1>2. Inv /\ [Next]_vars => [Promise!Next]_Promise!vars
    <2> SUFFICES ASSUME Inv, [Next]_vars PROVE [Promise!Next]_Promise!vars
      OBVIOUS
    <2>0. Types /\ WireInv /\ ServeInv /\ LockInv /\ Urma = "mock"
      BY DEF Inv, Locked
    <2>1. CASE UNCHANGED vars
      <3>1. /\ UNCHANGED <<mem, hbm, upc, xfer, udone, cmds, answers>>
            /\ UNCHANGED <<pc, req, buf, rc, done>>
        BY <2>1 DEF vars, backend, kernel, server, worker
      <3> QED
        BY <3>1, MemoryFrame, ResultsFrame, AsStutter
    <2>2. CASE Kernel
      BY <2>2, RefineKernel
    <2>3. CASE Serve
      BY <2>0, <2>3, RefineQuiet, RefineHeader, RefineRefused, RefineLock, RefineCopy,
         RefineUnlock, RefineReply DEF Serve
    <2>4. CASE \E t \in Transfers : XferBegin(t)
      BY <2>0, <2>4, RefineBegin
    <2>5. CASE XferContinues
      BY <2>0, <2>5, RefineXfer
    <2> QED
      BY <2>1, <2>2, <2>3, <2>4, <2>5 DEF Next
  <1> QED
    BY <1>1, <1>2, InvHolds, PTL DEF Spec, ImplementsDisk, Promise!Spec

\* Under the same assumption a transfer never runs while serve_nbd copies, which
\* is what DESIGN.md asks of one that overlaps filesystem IO; execute_real_xfer,
\* without the lock, does not provide it.
THEOREM MockSerializes == Locked => (Spec => []OverlapSerialized)
  <1> SUFFICES ASSUME Locked PROVE Spec => []OverlapSerialized
    OBVIOUS
  <1>1. Inv => OverlapSerialized
    BY DEF Inv, LockInv, OverlapSerialized
  <1> QED
    BY <1>1, InvHolds, PTL
=============================================================================
