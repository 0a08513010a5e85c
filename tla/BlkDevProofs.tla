---------------------------- MODULE BlkDevProofs ----------------------------
(***************************************************************************)
(* The block drivers, for any block size, device size, number of requests  *)
(* and readers of attributes.                                              *)
(*                                                                         *)
(* OnceInv: queue_rq never takes its error path.  The offset it computes   *)
(* is too large for the sector by a factor of the block size, but          *)
(* set_capacity has divided the device by that factor.                     *)
(*                                                                         *)
(* ModInv, IoInv, DataInv: what init, its labels and exit hold at each     *)
(* point of them, what is reachable while requests and readers are inside, *)
(* and how the memory differs from the disk while writes are under way.    *)
(***************************************************************************)
EXTENDS BlkDev, TLAPS

\* The error path completes a request a second time; ends counts completions.
OnceInv ==
    /\ par \in Params
    /\ DOMAIN rq = Tags
    /\ \A t \in Tags : rq[t] # NULL => "ends" \in DOMAIN rq[t] /\ rq[t].ends = 0

\* A request that ends within size \div bs also ends, at its offset times bs,
\* within size.
LEMMA ScaledRequestFits ==
    ASSUME NEW pos \in Nat, NEW n \in Nat, NEW bs \in Nat \ {0}, NEW size \in Nat,
           pos + n <= size \div bs
    PROVE  pos * bs + n <= size
<1>1. (pos + n) * bs <= size
  <2>1. size \div bs \in Nat /\ (size \div bs) * bs <= size
    OBVIOUS
  <2>2. (pos + n) * bs <= (size \div bs) * bs
    BY <2>1
  <2> QED
    BY <2>1, <2>2
<1>2. (pos + n) * bs = pos * bs + n * bs /\ n <= n * bs /\ pos * bs \in Nat /\ n * bs \in Nat
  OBVIOUS
<1> QED
  BY <1>1, <1>2

\* The range check of queue_rq accepts whatever the block layer sends.
LEMMA SentFits ==
    ASSUME par \in Params, NEW r \in Sent
    PROVE  ~(Base(r) + r.n > par.size)
<1>1. par.bs \in Nat \ {0} /\ par.size \in Nat
  BY Config
<1>2. r.pos \in Nat /\ r.n \in Nat /\ r.pos + r.n <= par.size \div par.bs
  BY <1>1 DEF Sent, Capacity
<1>3. r.pos * par.bs + r.n <= par.size /\ r.pos * par.bs \in Nat
  BY <1>1, <1>2, ScaledRequestFits
<1> QED
  BY <1>1, <1>2, <1>3 DEF Base

\* Every step keeps OnceInv.
LEMMA OnceStep ==
    ASSUME OnceInv, [Next]_vars
    PROVE  OnceInv'
<1> USE DEF OnceInv
<1>1. CASE Load
  BY <1>1 DEF Load
<1>2. CASE Module \/ Exit
  BY <1>2 DEF Module, Exit, LoadPart, SetupUrma, SetupRdma, Setup, Undo, Out, io
<1>3. ASSUME NEW t \in Tags, QueueRq(t) PROVE OnceInv'
  <2>1. PICK r \in Sent :
          rq' = [rq EXCEPT ![t] = [dir |-> r.dir, pos |-> r.pos, n |-> r.n, val |-> r.val,
                                   data |-> <<>>,
                                   ends |-> IF Base(r) + r.n > par.size THEN 2 ELSE 0]]
    BY Zenon, <1>3 DEF QueueRq
  <2>2. ~(Base(r) + r.n > par.size)
    BY SentFits
  <2>3. par' = par
    BY <1>3 DEF QueueRq, module
  <2> QED
    BY <2>1, <2>2, <2>3
<1>4. ASSUME NEW t \in Tags, CopySegment(t) PROVE OnceInv'
  <2>1. PICK v : rq' = [rq EXCEPT ![t].data = Append(@, v)]
    BY Zenon, <1>4 DEF CopySegment
  <2>2. par' = par /\ rq[t] # NULL
    BY <1>4 DEF CopySegment, module
  <2> QED
    BY <2>1, <2>2
<1>5. ASSUME NEW t \in Tags, Complete(t) PROVE OnceInv'
  BY <1>5 DEF Complete, module
<1>6. ASSUME NEW p \in Readers, ShowBegin(p) \/ ShowEnd(p) PROVE OnceInv'
  BY <1>6 DEF ShowBegin, ShowEnd, module, io
<1>7. CASE UNCHANGED vars
  BY <1>7 DEF vars, module, io
<1> QED
  BY <1>1, <1>2, <1>3, <1>4, <1>5, <1>6, <1>7 DEF Next, Copies

\* Whatever logical_block_size and ramdisk_size are, no request of the block
\* layer is completed twice (CompletedOnce).
THEOREM CompletedOnceAlways == Spec => []CompletedOnce
<1>1. Init => OnceInv
  BY DEF Init, OnceInv
<1>2. OnceInv /\ [Next]_vars => OnceInv'
  BY OnceStep
<1>3. OnceInv => CompletedOnce
  BY DEF OnceInv, CompletedOnce
<1> QED
  BY <1>1, <1>2, <1>3, PTL DEF Spec

-----------------------------------------------------------------------------
(* What the module holds at each step of its ladder, its labels and exit.  *)

Resources ==
    {"major", "dev", "queue", "ram", "tags", "disk", "added", "seg", "token", "ub_dev",
     "dma", "mr", "pd", "ib_dev"}

Parts == {"major", "dev", "queue", "ram", "setup", "tags", "disk", "added"}

\* What has been acquired, besides the transport, when a part is next.
Acquired(part) ==
    LET early == IF drv = "urma" THEN {"major", "dev", "queue"} ELSE {"major", "dev"}
    IN  IF part = "major" THEN {}
        ELSE IF part = "dev" THEN {"major"}
        ELSE IF part = "queue" THEN {"major", "dev"}
        ELSE IF part = "ram" THEN early
        ELSE IF part \in {"setup", "tags"} THEN early \cup {"ram"}
        ELSE IF part = "disk" THEN early \cup {"ram", "tags"}
        ELSE IF part = "added" THEN early \cup {"ram", "tags", "disk"}
        ELSE early \cup {"ram", "tags", "disk", "added"}

Labels(s) == {s[i] : i \in DOMAIN s}

\* Nothing is released twice, or before what was made from it.
Ordered(s) == \A i, j \in DOMAIN s : i < j => s[i] # s[j] /\ s[i] \notin Needs(s[j])

HeldInv ==
    /\ mpc \in Parts \cup {"live"} => held \ {"ref"} = Acquired(mpc) \cup ptrs
    /\ mpc = "out" => held \ {"ref"} = {}
    /\ mpc = "undo" =>
         /\ held \ {"ref"} = (Labels(todo) \ Transport) \cup ptrs
         /\ ptrs \subseteq Labels(todo) /\ Ordered(todo)
    /\ Named => "ref" \notin held

PtrsInv ==
    /\ ptrs \subseteq Transport
    /\ mpc \in {"out", "major", "dev", "queue", "ram", "setup"} => ptrs = {}

ModInv ==
    /\ drv \in {"urma", "rdma"}
    /\ mpc \in {"out", "undo", "live"} \cup Parts
    /\ drv = "rdma" => mpc # "queue"
    /\ mpc # "undo" => todo = <<>>
    /\ todo \in Seq(Resources)
    /\ HeldInv /\ PtrsInv /\ Grounded

\* A request under way is within the device, also at its scaled offset.
Request(r) ==
    /\ r \in [dir : {"READ", "WRITE"}, pos : Nat, n : Nat, val : Vals, data : Seq(Vals),
             ends : {0}]
    /\ Len(r.data) <= r.n /\ Base(r) + r.n <= par.size

IoInv ==
    /\ par \in Params /\ DOMAIN rq = Tags
    /\ mem \in [0 .. par.size - 1 -> Vals] /\ content \in [0 .. par.size - 1 -> Vals]
    /\ \A t \in Tags : rq[t] # NULL => "added" \in held /\ Request(rq[t])
    /\ shows # {} => "added" \in held
    /\ ~misuse

\* A request has copied what it says.
Copied(r) ==
    \A i \in 1 .. Len(r.data) :
      IF r.dir = "WRITE" THEN mem[r.pos + i - 1] = r.val ELSE r.data[i] = content[r.pos + i - 1]

\* Requests do not conflict and, with sectors as blocks, memory has caught up with
\* the completed writes wherever no write is under way.
DataInv ==
    /\ \A t, u \in Tags : t # u /\ rq[t] # NULL /\ rq[u] # NULL => ~Conflict(rq[t], rq[u])
    /\ par.bs = 1 =>
         /\ \A s \in 0 .. par.size - 1 : Quiet(s) => mem[s] = content[s]
         /\ \A t \in Tags : rq[t] # NULL => Copied(rq[t])

\* The suffixes of a sequence of labels.
LEMMA TailOrdered ==
    ASSUME NEW S, NEW s \in Seq(S), s # <<>>, Ordered(s)
    PROVE  /\ Tail(s) \in Seq(S) /\ Ordered(Tail(s))
           /\ Labels(Tail(s)) = Labels(s) \ {Head(s)} /\ Head(s) \in Labels(s)
           /\ \A x \in Labels(Tail(s)) : Head(s) \notin Needs(x)
<1>1. /\ Len(s) \in Nat \ {0} /\ DOMAIN s = 1 .. Len(s) /\ DOMAIN Tail(s) = 1 .. Len(s) - 1
      /\ Tail(s) \in Seq(S) /\ Head(s) = s[1]
      /\ \A i \in 1 .. Len(s) - 1 : Tail(s)[i] = s[i + 1]
  OBVIOUS
<1>2. \A i \in 1 .. Len(s) - 1 : i + 1 \in 1 .. Len(s) /\ 1 < i + 1 /\ 1 \in 1 .. Len(s)
  BY <1>1
<1>3. \A i \in 2 .. Len(s) : i - 1 \in 1 .. Len(s) - 1 /\ (i - 1) + 1 = i
  BY <1>1
<1>4. \A i \in DOMAIN Tail(s) : s[1] # Tail(s)[i] /\ s[1] \notin Needs(Tail(s)[i])
  BY <1>1, <1>2 DEF Ordered
<1>5. Labels(Tail(s)) = Labels(s) \ {Head(s)}
  <2>1. ASSUME NEW x \in Labels(Tail(s)) PROVE x \in Labels(s) \ {Head(s)}
    BY <1>1, <1>2, <1>4 DEF Labels
  <2>2. ASSUME NEW x \in Labels(s) \ {Head(s)} PROVE x \in Labels(Tail(s))
    <3>1. PICK i \in 1 .. Len(s) : x = s[i]
      BY <1>1 DEF Labels
    <3>2. i \in 2 .. Len(s)
      BY <1>1, <3>1
    <3>3. i - 1 \in DOMAIN Tail(s) /\ Tail(s)[i - 1] = x
      BY <1>1, <1>3, <3>1, <3>2
    <3> QED
      BY Zenon, <3>3 DEF Labels
  <2> QED
    BY <2>1, <2>2
<1>6. Ordered(Tail(s))
  <2>1. ASSUME NEW i \in 1 .. Len(s) - 1, NEW j \in 1 .. Len(s) - 1, i < j
        PROVE  Tail(s)[i] # Tail(s)[j] /\ Tail(s)[i] \notin Needs(Tail(s)[j])
    <3>1. i + 1 < j + 1 /\ i + 1 \in DOMAIN s /\ j + 1 \in DOMAIN s
      BY <1>1, <2>1
    <3> QED
      BY <1>1, <3>1 DEF Ordered
  <2> QED
    BY <1>1, <2>1 DEF Ordered
<1>7. Head(s) \in Labels(s)
  <2>1. 1 \in DOMAIN s
    BY <1>1
  <2> QED
    BY <1>1, <2>1 DEF Labels
<1>8. \A x \in Labels(Tail(s)) : Head(s) \notin Needs(x)
  BY <1>1, <1>4 DEF Labels
<1> QED
  BY <1>1, <1>5, <1>6, <1>7, <1>8

\* The last labels of an ordered ladder are ordered.
LEMMA LastOrdered ==
    ASSUME NEW S, NEW s \in Seq(S), NEW n \in 0 .. Len(s), Ordered(s)
    PROVE  LastOf(s, n) \in Seq(S) /\ Ordered(LastOf(s, n))
           /\ Labels(LastOf(s, n)) = {s[i] : i \in Len(s) - n + 1 .. Len(s)}
<1>1. Len(s) \in Nat /\ n \in Nat /\ n <= Len(s) /\ DOMAIN s = 1 .. Len(s)
  OBVIOUS
<1>2. \A i \in 1 .. n : Len(s) - n + i \in 1 .. Len(s)
  BY <1>1
<1>3. LastOf(s, n) \in [1 .. n -> S] /\ \A i \in 1 .. n : LastOf(s, n)[i] = s[Len(s) - n + i]
  BY <1>1, <1>2 DEF LastOf
<1>4. LastOf(s, n) \in Seq(S) /\ DOMAIN LastOf(s, n) = 1 .. n
  BY <1>1, <1>3
<1>5. Ordered(LastOf(s, n))
  <2>1. ASSUME NEW i \in 1 .. n, NEW j \in 1 .. n, i < j
        PROVE  LastOf(s, n)[i] # LastOf(s, n)[j] /\ LastOf(s, n)[i] \notin Needs(LastOf(s, n)[j])
    <3>1. Len(s) - n + i < Len(s) - n + j
      BY <1>1, <2>1
    <3> QED
      BY Zenon, <1>1, <1>2, <1>3, <3>1 DEF Ordered
  <2> QED
    BY <1>4, <2>1 DEF Ordered
<1>6. Labels(LastOf(s, n)) = {s[i] : i \in Len(s) - n + 1 .. Len(s)}
  <2>1. \A i \in 1 .. n : Len(s) - n + i \in Len(s) - n + 1 .. Len(s)
    BY <1>1
  <2>2. \A k \in Len(s) - n + 1 .. Len(s) :
          k - (Len(s) - n) \in 1 .. n /\ Len(s) - n + (k - (Len(s) - n)) = k
    BY <1>1
  <2>3. ASSUME NEW x \in Labels(LastOf(s, n))
        PROVE  x \in {s[i] : i \in Len(s) - n + 1 .. Len(s)}
    <3>1. PICK i \in 1 .. n : x = LastOf(s, n)[i]
      BY <1>4 DEF Labels
    <3> QED
      BY Zenon, <1>3, <2>1, <3>1
  <2>4. ASSUME NEW k \in Len(s) - n + 1 .. Len(s)
        PROVE  s[k] \in Labels(LastOf(s, n))
    <3>1. PICK i \in 1 .. n : Len(s) - n + i = k
      BY <2>2
    <3>2. LastOf(s, n)[i] = s[k]
      BY <1>3, <3>1
    <3> QED
      BY <1>4, <3>2 DEF Labels
  <2> QED
    BY <2>3, <2>4
<1> QED
  BY <1>4, <1>5, <1>6

\* What each resource needs.
LEMMA NeedsFacts ==
    /\ Needs("queue") = {"dev"} /\ Needs("seg") = {"token", "ub_dev", "ram"}
    /\ Needs("token") = {"ub_dev"} /\ Needs("dma") = {"ib_dev", "ram"}
    /\ Needs("mr") = {"pd"} /\ Needs("pd") = {"ib_dev"} /\ Needs("added") = {"disk"}
    /\ Needs("disk") = {"tags", "dev", "ram", "major"}
    /\ \A x \in {"major", "dev", "ram", "tags", "ub_dev", "ib_dev", "ref"} : Needs(x) = {}
BY DEF Needs

\* The labels and exit release things in the right order.
LEMMA ErrOrdered ==
    ASSUME drv \in {"urma", "rdma"}
    PROVE  ErrLabels \in Seq(Resources) /\ Len(ErrLabels) = 9 /\ Ordered(ErrLabels)
<1>1. Len(ErrLabels) = 9 /\ DOMAIN ErrLabels = 1 .. 9 /\ ErrLabels \in Seq(Resources)
  <2>1. CASE drv = "urma"
    <3>1. ErrLabels = <<"disk", "tags", "seg", "token", "ub_dev", "ram", "queue", "dev", "major">>
      BY <2>1 DEF ErrLabels
    <3>2. Len(ErrLabels) = 9 /\ DOMAIN ErrLabels = 1 .. 9
      BY <3>1
    <3>3. ErrLabels \in Seq(Resources)
      BY <3>1 DEF Resources
    <3> QED
      BY <3>2, <3>3
  <2>2. CASE drv = "rdma"
    <3>1. ErrLabels = <<"disk", "tags", "dma", "mr", "pd", "ib_dev", "ram", "dev", "major">>
      BY <2>2 DEF ErrLabels
    <3>2. Len(ErrLabels) = 9 /\ DOMAIN ErrLabels = 1 .. 9
      BY <3>1
    <3>3. ErrLabels \in Seq(Resources)
      BY <3>1 DEF Resources
    <3> QED
      BY <3>2, <3>3
  <2> QED
    BY <2>1, <2>2
<1>2. CASE drv = "urma"
  <2>1. /\ ErrLabels[1] = "disk" /\ ErrLabels[2] = "tags" /\ ErrLabels[3] = "seg"
        /\ ErrLabels[4] = "token" /\ ErrLabels[5] = "ub_dev" /\ ErrLabels[6] = "ram"
        /\ ErrLabels[7] = "queue" /\ ErrLabels[8] = "dev" /\ ErrLabels[9] = "major"
    BY <1>2 DEF ErrLabels
  <2>2. ASSUME NEW i \in 1 .. 9, NEW j \in 1 .. 9, i < j
        PROVE  ErrLabels[i] # ErrLabels[j] /\ ErrLabels[i] \notin Needs(ErrLabels[j])
    BY <2>1, <2>2, NeedsFacts
  <2> QED
    BY <1>1, <2>2 DEF Ordered
<1>3. CASE drv = "rdma"
  <2>1. /\ ErrLabels[1] = "disk" /\ ErrLabels[2] = "tags" /\ ErrLabels[3] = "dma"
        /\ ErrLabels[4] = "mr" /\ ErrLabels[5] = "pd" /\ ErrLabels[6] = "ib_dev"
        /\ ErrLabels[7] = "ram" /\ ErrLabels[8] = "dev" /\ ErrLabels[9] = "major"
    BY <1>3 DEF ErrLabels
  <2>2. ASSUME NEW i \in 1 .. 9, NEW j \in 1 .. 9, i < j
        PROVE  ErrLabels[i] # ErrLabels[j] /\ ErrLabels[i] \notin Needs(ErrLabels[j])
    BY <2>1, <2>2, NeedsFacts
  <2> QED
    BY <1>1, <2>2 DEF Ordered
<1> QED
  BY <1>1, <1>2, <1>3

\* What the labels release when they are entered n from the end.
LEMMA LastUrma ==
    ASSUME drv = "urma"
    PROVE  /\ Labels(LastOf(ErrLabels, 1)) = {"major"}
           /\ Labels(LastOf(ErrLabels, 2)) = {"dev", "major"}
           /\ Labels(LastOf(ErrLabels, 3)) = {"queue", "dev", "major"}
           /\ Labels(LastOf(ErrLabels, 7)) =
                {"seg", "token", "ub_dev", "ram", "queue", "dev", "major"}
           /\ Labels(LastOf(ErrLabels, 8)) =
                {"tags", "seg", "token", "ub_dev", "ram", "queue", "dev", "major"}
           /\ Labels(ErrLabels) =
                {"disk", "tags", "seg", "token", "ub_dev", "ram", "queue", "dev", "major"}
<1>1. ErrLabels \in Seq(Resources) /\ Len(ErrLabels) = 9 /\ Ordered(ErrLabels)
  BY ErrOrdered
<1>2. \A n \in 0 .. 9 : Labels(LastOf(ErrLabels, n)) = {ErrLabels[i] : i \in 9 - n + 1 .. 9}
  BY Zenon, <1>1, LastOrdered
<1>3. /\ ErrLabels[1] = "disk" /\ ErrLabels[2] = "tags" /\ ErrLabels[3] = "seg"
      /\ ErrLabels[4] = "token" /\ ErrLabels[5] = "ub_dev" /\ ErrLabels[6] = "ram"
      /\ ErrLabels[7] = "queue" /\ ErrLabels[8] = "dev" /\ ErrLabels[9] = "major"
  BY DEF ErrLabels
<1>4. /\ 9 - 1 + 1 .. 9 = {9} /\ 9 - 2 + 1 .. 9 = {8, 9} /\ 9 - 3 + 1 .. 9 = {7, 8, 9}
      /\ 9 - 7 + 1 .. 9 = {3, 4, 5, 6, 7, 8, 9} /\ 9 - 8 + 1 .. 9 = {2, 3, 4, 5, 6, 7, 8, 9}
      /\ 1 .. 9 = {1, 2, 3, 4, 5, 6, 7, 8, 9}
      /\ {1, 2, 3, 7, 8} \subseteq 0 .. 9
  OBVIOUS
<1>5. Labels(LastOf(ErrLabels, 1)) = {"major"}
  BY <1>2, <1>3, <1>4
<1>6. Labels(LastOf(ErrLabels, 2)) = {"dev", "major"}
  BY <1>2, <1>3, <1>4
<1>7. Labels(LastOf(ErrLabels, 3)) = {"queue", "dev", "major"}
  BY <1>2, <1>3, <1>4
<1>8. Labels(LastOf(ErrLabels, 7)) = {"seg", "token", "ub_dev", "ram", "queue", "dev", "major"}
  BY <1>2, <1>3, <1>4
<1>9. Labels(LastOf(ErrLabels, 8)) =
        {"tags", "seg", "token", "ub_dev", "ram", "queue", "dev", "major"}
  BY <1>2, <1>3, <1>4
<1>10. Labels(ErrLabels) =
         {"disk", "tags", "seg", "token", "ub_dev", "ram", "queue", "dev", "major"}
  <2>1. Labels(ErrLabels) = {ErrLabels[i] : i \in {1, 2, 3, 4, 5, 6, 7, 8, 9}}
    BY <1>1, <1>4 DEF Labels
  <2> QED
    BY <2>1, <1>3
<1> QED
  BY <1>5, <1>6, <1>7, <1>8, <1>9, <1>10

\* Where the labels of the RDMA driver start.
LEMMA LastRdma ==
    ASSUME drv = "rdma"
    PROVE  /\ Labels(LastOf(ErrLabels, 1)) = {"major"}
           /\ Labels(LastOf(ErrLabels, 2)) = {"dev", "major"}
           /\ Labels(LastOf(ErrLabels, 7)) =
                {"dma", "mr", "pd", "ib_dev", "ram", "dev", "major"}
           /\ Labels(LastOf(ErrLabels, 8)) =
                {"tags", "dma", "mr", "pd", "ib_dev", "ram", "dev", "major"}
           /\ Labels(ErrLabels) =
                {"disk", "tags", "dma", "mr", "pd", "ib_dev", "ram", "dev", "major"}
<1>1. ErrLabels \in Seq(Resources) /\ Len(ErrLabels) = 9 /\ Ordered(ErrLabels)
  BY ErrOrdered
<1>2. \A n \in 0 .. 9 : Labels(LastOf(ErrLabels, n)) = {ErrLabels[i] : i \in 9 - n + 1 .. 9}
  BY Zenon, <1>1, LastOrdered
<1>3. /\ ErrLabels[1] = "disk" /\ ErrLabels[2] = "tags" /\ ErrLabels[3] = "dma"
      /\ ErrLabels[4] = "mr" /\ ErrLabels[5] = "pd" /\ ErrLabels[6] = "ib_dev"
      /\ ErrLabels[7] = "ram" /\ ErrLabels[8] = "dev" /\ ErrLabels[9] = "major"
  BY DEF ErrLabels
<1>4. /\ 9 - 1 + 1 .. 9 = {9} /\ 9 - 2 + 1 .. 9 = {8, 9}
      /\ 9 - 7 + 1 .. 9 = {3, 4, 5, 6, 7, 8, 9} /\ 9 - 8 + 1 .. 9 = {2, 3, 4, 5, 6, 7, 8, 9}
      /\ 1 .. 9 = {1, 2, 3, 4, 5, 6, 7, 8, 9}
      /\ {1, 2, 3, 7, 8} \subseteq 0 .. 9
  OBVIOUS
<1>5. Labels(LastOf(ErrLabels, 1)) = {"major"}
  BY <1>2, <1>3, <1>4
<1>6. Labels(LastOf(ErrLabels, 2)) = {"dev", "major"}
  BY <1>2, <1>3, <1>4
<1>8. Labels(LastOf(ErrLabels, 7)) = {"dma", "mr", "pd", "ib_dev", "ram", "dev", "major"}
  BY <1>2, <1>3, <1>4
<1>9. Labels(LastOf(ErrLabels, 8)) =
        {"tags", "dma", "mr", "pd", "ib_dev", "ram", "dev", "major"}
  BY <1>2, <1>3, <1>4
<1>10. Labels(ErrLabels) =
         {"disk", "tags", "dma", "mr", "pd", "ib_dev", "ram", "dev", "major"}
  <2>1. Labels(ErrLabels) = {ErrLabels[i] : i \in {1, 2, 3, 4, 5, 6, 7, 8, 9}}
    BY <1>1, <1>4 DEF Labels
  <2> QED
    BY <2>1, <1>3
<1> QED
  BY <1>5, <1>6, <1>8, <1>9, <1>10

\* A part of init that fails jumps to labels that release, in order, exactly
\* what was acquired before it, the transport if it was set up.
LEMMA FailureReleases ==
    ASSUME drv \in {"urma", "rdma"}, NEW p \in Parts \ {"setup"}, drv = "rdma" => p # "queue"
    PROVE  /\ OnFailure(p) \in Seq(Resources) /\ Ordered(OnFailure(p))
           /\ Labels(OnFailure(p)) \ Transport = Acquired(p)
           /\ p \in {"tags", "disk", "added"} => Transport \subseteq Labels(OnFailure(p))
<1>1. /\ ErrLabels \in Seq(Resources) /\ Len(ErrLabels) = 9 /\ Ordered(ErrLabels)
  BY ErrOrdered
<1>2. \A n \in 0 .. 9 : LastOf(ErrLabels, n) \in Seq(Resources) /\ Ordered(LastOf(ErrLabels, n))
  BY Zenon, <1>1, LastOrdered
<1>3. CASE p = "major"
  <2>1. OnFailure(p) = <<>>
    BY <1>3 DEF OnFailure
  <2>2. DOMAIN <<>> = {} /\ <<>> \in Seq(Resources)
    OBVIOUS
  <2>3. Acquired(p) = {} /\ Labels(<<>>) = {} /\ Ordered(<<>>)
    BY <1>3, <2>2 DEF Acquired, Labels, Ordered
  <2> QED
    BY Zenon, <1>3, <2>1, <2>2, <2>3
<1>4. CASE p = "added"
  <2>1. OnFailure(p) = ErrLabels
    BY <1>4 DEF OnFailure
  <2>2. Labels(ErrLabels) \ Transport = Acquired(p) /\ Transport \subseteq Labels(ErrLabels)
    BY <1>4, LastUrma, LastRdma DEF Acquired, Transport
  <2> QED
    BY <1>1, <2>1, <2>2
<1>5. CASE p \in {"dev", "queue", "ram"}
  <2>1. PICK n \in 0 .. 9 : /\ OnFailure(p) = LastOf(ErrLabels, n)
                            /\ n = IF p = "dev" THEN 1
                                   ELSE IF p = "ram" /\ drv = "urma" THEN 3 ELSE 2
    BY <1>5 DEF OnFailure
  <2>2. Labels(LastOf(ErrLabels, n)) \ Transport = Acquired(p)
    BY <1>5, <2>1, LastUrma, LastRdma DEF Acquired, Transport
  <2> QED
    BY Zenon, <1>2, <1>5, <2>1, <2>2
<1>6. CASE p \in {"tags", "disk"}
  <2>1. PICK n \in 0 .. 9 : /\ OnFailure(p) = LastOf(ErrLabels, n)
                            /\ n = IF p = "tags" THEN 7 ELSE 8
    BY <1>6 DEF OnFailure
  <2>2. /\ Labels(LastOf(ErrLabels, n)) \ Transport = Acquired(p)
        /\ Transport \subseteq Labels(LastOf(ErrLabels, n))
    BY <1>6, <2>1, LastUrma, LastRdma DEF Acquired, Transport
  <2> QED
    BY Zenon, <1>2, <1>6, <2>1, <2>2
<1> QED
  BY <1>3, <1>4, <1>5, <1>6 DEF Parts

\* So does exit, which releases all.
LEMMA ExitReleases ==
    ASSUME drv \in {"urma", "rdma"}
    PROVE  /\ ExitOrder \in Seq(Resources) /\ Ordered(ExitOrder)
           /\ Labels(ExitOrder) \ Transport = Acquired("live")
           /\ Transport \subseteq Labels(ExitOrder)
<1>1. 1 .. 10 = {1, 2, 3, 4, 5, 6, 7, 8, 9, 10}
  OBVIOUS
<1>2. CASE drv = "urma"
  <2>1. ExitOrder =
          <<"queue", "added", "disk", "tags", "seg", "token", "ub_dev", "ram", "dev", "major">>
    BY <1>2 DEF ExitOrder
  <2>2. Len(ExitOrder) = 10 /\ DOMAIN ExitOrder = 1 .. 10
    BY <2>1
  <2>3. ExitOrder \in Seq(Resources)
    BY <2>1 DEF Resources
  <2>4. /\ ExitOrder[1] = "queue" /\ ExitOrder[2] = "added" /\ ExitOrder[3] = "disk"
        /\ ExitOrder[4] = "tags" /\ ExitOrder[5] = "seg" /\ ExitOrder[6] = "token"
        /\ ExitOrder[7] = "ub_dev" /\ ExitOrder[8] = "ram" /\ ExitOrder[9] = "dev"
        /\ ExitOrder[10] = "major"
    BY <2>1
  <2>5. ASSUME NEW i \in 1 .. 10, NEW j \in 1 .. 10, i < j
        PROVE  ExitOrder[i] # ExitOrder[j] /\ ExitOrder[i] \notin Needs(ExitOrder[j])
    BY <2>4, <2>5, NeedsFacts
  <2>6. Labels(ExitOrder) =
          {"queue", "added", "disk", "tags", "seg", "token", "ub_dev", "ram", "dev", "major"}
    <3>1. Labels(ExitOrder) = {ExitOrder[i] : i \in {1, 2, 3, 4, 5, 6, 7, 8, 9, 10}}
      BY <1>1, <2>2 DEF Labels
    <3> QED
      BY <2>4, <3>1
  <2>7. Ordered(ExitOrder)
    BY <2>2, <2>5 DEF Ordered
  <2> QED
    BY <1>2, <2>3, <2>6, <2>7 DEF Acquired, Transport
<1>3. CASE drv = "rdma"
  <2>1. ExitOrder =
          <<"added", "disk", "tags", "dma", "mr", "pd", "ib_dev", "ram", "dev", "major">>
    BY <1>3 DEF ExitOrder
  <2>2. Len(ExitOrder) = 10 /\ DOMAIN ExitOrder = 1 .. 10
    BY <2>1
  <2>3. ExitOrder \in Seq(Resources)
    BY <2>1 DEF Resources
  <2>4. /\ ExitOrder[1] = "added" /\ ExitOrder[2] = "disk" /\ ExitOrder[3] = "tags"
        /\ ExitOrder[4] = "dma" /\ ExitOrder[5] = "mr" /\ ExitOrder[6] = "pd"
        /\ ExitOrder[7] = "ib_dev" /\ ExitOrder[8] = "ram" /\ ExitOrder[9] = "dev"
        /\ ExitOrder[10] = "major"
    BY <2>1
  <2>5. ASSUME NEW i \in 1 .. 10, NEW j \in 1 .. 10, i < j
        PROVE  ExitOrder[i] # ExitOrder[j] /\ ExitOrder[i] \notin Needs(ExitOrder[j])
    BY <2>4, <2>5, NeedsFacts
  <2>6. Labels(ExitOrder) =
          {"added", "disk", "tags", "dma", "mr", "pd", "ib_dev", "ram", "dev", "major"}
    <3>1. Labels(ExitOrder) = {ExitOrder[i] : i \in {1, 2, 3, 4, 5, 6, 7, 8, 9, 10}}
      BY <1>1, <2>2 DEF Labels
    <3> QED
      BY <2>4, <3>1
  <2>7. Ordered(ExitOrder)
    BY <2>2, <2>5 DEF Ordered
  <2> QED
    BY <1>3, <2>3, <2>6, <2>7 DEF Acquired, Transport
<1> QED
  BY <1>2, <1>3

\* The rungs of the two ladders.
LEMMA Rungs ==
    ASSUME drv \in {"urma", "rdma"}
    PROVE  /\ DOMAIN Ladder = 1 .. Len(Ladder)
           /\ Len(Ladder) = IF drv = "urma" THEN 8 ELSE 7
           /\ drv = "urma" =>
                /\ Ladder[1] = "major" /\ Ladder[2] = "dev" /\ Ladder[3] = "queue"
                /\ Ladder[4] = "ram" /\ Ladder[5] = "setup" /\ Ladder[6] = "tags"
                /\ Ladder[7] = "disk" /\ Ladder[8] = "added"
           /\ drv = "rdma" =>
                /\ Ladder[1] = "major" /\ Ladder[2] = "dev" /\ Ladder[3] = "ram"
                /\ Ladder[4] = "setup" /\ Ladder[5] = "tags" /\ Ladder[6] = "disk"
                /\ Ladder[7] = "added"
<1>1. CASE drv = "urma"
  <2>1. Ladder = <<"major", "dev", "queue", "ram", "setup", "tags", "disk", "added">>
    BY <1>1 DEF Ladder
  <2> QED
    BY <1>1, <2>1
<1>2. CASE drv = "rdma"
  <2>1. Ladder = <<"major", "dev", "ram", "setup", "tags", "disk", "added">>
    BY <1>2 DEF Ladder
  <2> QED
    BY <1>2, <2>1
<1> QED
  BY <1>1, <1>2

\* A part is somewhere on the ladder, except the queue in kernel.
LEMMA LadderParts ==
    ASSUME drv \in {"urma", "rdma"}
    PROVE  {Ladder[i] : i \in DOMAIN Ladder} = Parts \ (IF drv = "urma" THEN {} ELSE {"queue"})
<1>1. 1 .. 8 = {1, 2, 3, 4, 5, 6, 7, 8} /\ 1 .. 7 = {1, 2, 3, 4, 5, 6, 7}
  OBVIOUS
<1>2. CASE drv = "urma"
  <2>1. {Ladder[i] : i \in DOMAIN Ladder} = {Ladder[i] : i \in {1, 2, 3, 4, 5, 6, 7, 8}}
    BY Zenon, <1>1, <1>2, Rungs
  <2>2. {Ladder[i] : i \in {1, 2, 3, 4, 5, 6, 7, 8}} =
          {Ladder[1], Ladder[2], Ladder[3], Ladder[4], Ladder[5], Ladder[6], Ladder[7], Ladder[8]}
    OBVIOUS
  <2> QED
    BY Zenon, <1>2, <2>1, <2>2, Rungs DEF Parts
<1>3. CASE drv = "rdma"
  <2>1. {Ladder[i] : i \in DOMAIN Ladder} = {Ladder[i] : i \in {1, 2, 3, 4, 5, 6, 7}}
    BY Zenon, <1>1, <1>3, Rungs
  <2>2. {Ladder[i] : i \in {1, 2, 3, 4, 5, 6, 7}} =
          {Ladder[1], Ladder[2], Ladder[3], Ladder[4], Ladder[5], Ladder[6], Ladder[7]}
    OBVIOUS
  <2> QED
    BY Zenon, <1>3, <2>1, <2>2, Rungs DEF Parts
<1> QED
  BY <1>2, <1>3

\* The parts of the ladder differ, so the next one is well defined.
LEMMA NextRung ==
    ASSUME drv \in {"urma", "rdma"}, NEW i \in DOMAIN Ladder
    PROVE  PartAfter(Ladder[i]) = IF i = Len(Ladder) THEN "live" ELSE Ladder[i + 1]
<1>1. ASSUME NEW j \in DOMAIN Ladder, Ladder[j] = Ladder[i] PROVE j = i
  <2>1. CASE drv = "urma"
    <3>1. i \in 1 .. 8 /\ j \in 1 .. 8
      BY Zenon, <2>1, Rungs
    <3> QED
      BY <1>1, <2>1, <3>1, Rungs
  <2>2. CASE drv = "rdma"
    <3>1. i \in 1 .. 7 /\ j \in 1 .. 7
      BY Zenon, <2>2, Rungs
    <3> QED
      BY <1>1, <2>2, <3>1, Rungs
  <2> QED
    BY <2>1, <2>2
<1>2. (CHOOSE k \in DOMAIN Ladder : Ladder[k] = Ladder[i]) = i
  BY <1>1
<1> QED
  BY Zenon, <1>2 DEF PartAfter

\* A part acquired is all that is added to what the next part finds.
LEMMA AfterPart ==
    ASSUME drv \in {"urma", "rdma"}, NEW p \in Parts, drv = "rdma" => p # "queue"
    PROVE  /\ PartAfter(p) \in Parts \cup {"live"}
           /\ drv = "rdma" => PartAfter(p) # "queue"
           /\ p # "setup" => Acquired(PartAfter(p)) = Acquired(p) \cup {p}
           /\ p \in {"tags", "disk", "added"} => PartAfter(p) \in {"disk", "added", "live"}
           /\ p = "setup" => PartAfter(p) = "tags"
           /\ p # "setup" => Needs(p) \subseteq Acquired(p)
<1>1. Len(Ladder) \in Nat /\ DOMAIN Ladder = 1 .. Len(Ladder)
  BY Rungs
<1>2. p # "setup" => Needs(p) \subseteq Acquired(p)
  BY NeedsFacts DEF Acquired, Parts
<1>3. CASE drv = "urma"
  <2>1. /\ PartAfter("major") = "dev" /\ PartAfter("dev") = "queue"
        /\ PartAfter("queue") = "ram" /\ PartAfter("ram") = "setup"
        /\ PartAfter("setup") = "tags" /\ PartAfter("tags") = "disk"
        /\ PartAfter("disk") = "added" /\ PartAfter("added") = "live"
    <3>1. Len(Ladder) = 8 /\ \A k \in 1 .. 8 : k \in DOMAIN Ladder
      BY Zenon, <1>3, Rungs
    <3>2. \A k \in 1 .. 8 : PartAfter(Ladder[k]) = IF k = 8 THEN "live" ELSE Ladder[k + 1]
      BY <3>1, NextRung
    <3>3. /\ PartAfter(Ladder[1]) = Ladder[2]
          /\ PartAfter(Ladder[2]) = Ladder[3]
          /\ PartAfter(Ladder[3]) = Ladder[4]
          /\ PartAfter(Ladder[4]) = Ladder[5]
          /\ PartAfter(Ladder[5]) = Ladder[6]
          /\ PartAfter(Ladder[6]) = Ladder[7]
          /\ PartAfter(Ladder[7]) = Ladder[8]
          /\ PartAfter(Ladder[8]) = "live"
      BY <3>2
    <3> QED
      BY <1>3, <3>3, Rungs
  <2> QED
    BY <1>2, <1>3, <2>1 DEF Acquired, Parts
<1>4. CASE drv = "rdma"
  <2>1. /\ PartAfter("major") = "dev" /\ PartAfter("dev") = "ram"
        /\ PartAfter("ram") = "setup"
        /\ PartAfter("setup") = "tags" /\ PartAfter("tags") = "disk"
        /\ PartAfter("disk") = "added" /\ PartAfter("added") = "live"
    <3>1. Len(Ladder) = 7 /\ \A k \in 1 .. 7 : k \in DOMAIN Ladder
      BY Zenon, <1>4, Rungs
    <3>2. \A k \in 1 .. 7 : PartAfter(Ladder[k]) = IF k = 7 THEN "live" ELSE Ladder[k + 1]
      BY <3>1, NextRung
    <3>3. /\ PartAfter(Ladder[1]) = Ladder[2]
          /\ PartAfter(Ladder[2]) = Ladder[3]
          /\ PartAfter(Ladder[3]) = Ladder[4]
          /\ PartAfter(Ladder[4]) = Ladder[5]
          /\ PartAfter(Ladder[5]) = Ladder[6]
          /\ PartAfter(Ladder[6]) = Ladder[7]
          /\ PartAfter(Ladder[7]) = "live"
      BY <3>2
    <3> QED
      BY <1>4, <3>3, Rungs
  <2> QED
    BY <1>2, <1>4, <2>1 DEF Acquired, Parts
<1> QED
  BY <1>3, <1>4

\* Every step of the module keeps ModInv.
LEMMA ModLoad ==
    ASSUME ModInv, Load
    PROVE  ModInv'
<1>1. /\ mpc = "out" /\ mpc' = "major" /\ drv' \in {"urma", "rdma"} /\ todo' = todo
      /\ held' = held /\ ptrs' = ptrs
  BY Config DEF Load
<1>2. ptrs = {} /\ held \ {"ref"} = {} /\ todo = <<>> /\ (Named => "ref" \notin held) /\ Grounded
  BY <1>1 DEF ModInv, HeldInv, PtrsInv
<1>3. Acquired(mpc)' = {} /\ Grounded'
  BY <1>1, <1>2 DEF Acquired, Grounded
<1>4. HeldInv' /\ PtrsInv'
  BY <1>1, <1>2, <1>3 DEF HeldInv, PtrsInv
<1> QED
  BY <1>1, <1>2, <1>3, <1>4 DEF ModInv, Parts

\* The init function acquires a part or jumps to its label.
LEMMA ModPart ==
    ASSUME ModInv, LoadPart
    PROVE  ModInv'
<1>1. /\ drv' = drv /\ ptrs' = ptrs /\ Transport' = Transport
      /\ drv \in {"urma", "rdma"} /\ todo = <<>> /\ Grounded
  BY LadderParts DEF LoadPart, Transport, ModInv, Parts
<1>2. mpc \in Parts \ {"setup"} /\ (drv = "rdma" => mpc # "queue")
  BY <1>1, LadderParts DEF LoadPart
<1>3. /\ held \ {"ref"} = Acquired(mpc) \cup ptrs /\ (Named => "ref" \notin held)
      /\ ptrs \subseteq Transport
      /\ mpc \in {"major", "dev", "queue", "ram"} => ptrs = {}
  BY <1>2 DEF ModInv, HeldInv, PtrsInv
<1>4. CASE held' = held \cup {mpc} /\ mpc' = PartAfter(mpc) /\ todo' = todo
  <2>1. /\ mpc' \in Parts \cup {"live"} /\ (drv = "rdma" => mpc' # "queue")
        /\ Acquired(PartAfter(mpc)) = Acquired(mpc) \cup {mpc}
        /\ mpc \in {"tags", "disk", "added"} => mpc' \in {"disk", "added", "live"}
        /\ Needs(mpc) \subseteq Acquired(mpc)
    BY <1>1, <1>2, <1>4, AfterPart
  <2>2. Acquired(mpc)' = Acquired(mpc) \cup {mpc}
    BY <1>1, <1>4, <2>1 DEF Acquired
  <2>3. mpc # "ref" /\ mpc' \notin {"out", "undo"}
    BY <1>2, <2>1 DEF Parts
  <2>4. HeldInv'
    <3>1. held' \ {"ref"} = Acquired(mpc)' \cup ptrs'
      BY <1>1, <1>3, <1>4, <2>2, <2>3
    <3> QED
      BY <1>3, <1>4, <2>3, <3>1 DEF HeldInv
  <2>5. PtrsInv'
    BY <1>1, <1>2, <1>3, <2>1, <2>3 DEF PtrsInv, Parts
  <2>6. Grounded'
    BY <1>1, <1>3, <1>4, <2>1 DEF Grounded
  <2> QED
    BY <1>1, <1>4, <2>1, <2>3, <2>4, <2>5, <2>6 DEF ModInv
<1>5. CASE todo' = OnFailure(mpc) /\ mpc' = "undo" /\ held' = held
  <2>1. /\ todo' \in Seq(Resources) /\ Ordered(todo')
        /\ Labels(todo') \ Transport = Acquired(mpc)
        /\ mpc \in {"tags", "disk", "added"} => Transport \subseteq Labels(todo')
    BY <1>1, <1>2, <1>5, FailureReleases
  <2>2. ptrs \subseteq Labels(todo')
    BY <1>2, <1>3, <2>1 DEF Parts
  <2>3. HeldInv'
    BY <1>1, <1>3, <1>5, <2>1, <2>2 DEF HeldInv, Parts
  <2>4. PtrsInv' /\ Grounded'
    BY <1>1, <1>3, <1>5 DEF PtrsInv, Grounded
  <2> QED
    BY <1>1, <1>5, <2>1, <2>3, <2>4 DEF ModInv
<1> QED
  BY <1>4, <1>5 DEF LoadPart

\* The transport is set up as a whole or undoes itself.
LEMMA ModSetup ==
    ASSUME ModInv, SetupUrma \/ SetupRdma
    PROVE  ModInv'
<1>1. PICK got, refs : /\ Setup(got, refs)
                       /\ got \subseteq Transport /\ refs \subseteq {"ref"}
                       /\ Named => refs = {}
                       /\ \A x \in got : Needs(x) \subseteq got \cup {"ram"}
  <2>1. CASE SetupUrma
    <3>1. PICK got \in {{}, {"ub_dev"}, {"ub_dev", "token", "seg"}} : Setup(got, {})
      BY <2>1 DEF SetupUrma
    <3>2. got \subseteq Transport /\ \A x \in got : Needs(x) \subseteq got \cup {"ram"}
      BY <2>1, <3>1, NeedsFacts DEF SetupUrma, Transport
    <3> QED
      BY <3>1, <3>2
  <2>2. CASE SetupRdma
    <3>1. PICK got \in {{}, {"ib_dev", "pd", "mr", "dma"}} :
            \E refs \in IF Named THEN {{}} ELSE IF got = {} THEN {{}, {"ref"}} ELSE {{"ref"}} :
              Setup(got, refs)
      BY <2>2 DEF SetupRdma
    <3>2. PICK refs \in SUBSET {"ref"} : Setup(got, refs) /\ (Named => refs = {})
      BY <3>1
    <3>3. got \subseteq Transport /\ \A x \in got : Needs(x) \subseteq got \cup {"ram"}
      BY <2>2, <3>1, NeedsFacts DEF SetupRdma, Transport
    <3> QED
      BY Zenon, <3>2, <3>3
  <2> QED
    BY <2>1, <2>2
<1>2. /\ mpc = "setup" /\ held' = held \cup got \cup refs /\ ptrs' = got /\ drv' = drv
      /\ todo' = todo /\ mpc' = PartAfter("setup") /\ Transport' = Transport
  BY <1>1 DEF Setup, Transport
<1>3. /\ drv \in {"urma", "rdma"} /\ todo = <<>> /\ todo \in Seq(Resources) /\ Grounded
      /\ held \ {"ref"} = Acquired("setup") /\ (Named => "ref" \notin held)
  BY <1>2 DEF ModInv, HeldInv, PtrsInv, Parts
<1>4. mpc' = "tags" /\ Acquired(mpc)' = Acquired("setup") /\ "ram" \in held
  <2>1. mpc' = "tags"
    BY <1>2, <1>3, AfterPart DEF Parts
  <2> QED
    BY <1>2, <1>3, <2>1 DEF Acquired
<1>5. "ref" \notin got
  BY <1>1 DEF Transport
<1>6. HeldInv'
  <2>1. held' \ {"ref"} = Acquired(mpc)' \cup ptrs'
    <3>1. held' = held \cup got \cup refs /\ refs \subseteq {"ref"} /\ "ref" \notin got
      BY <1>1, <1>2, <1>5
    <3>2. held' \ {"ref"} = (held \ {"ref"}) \cup got
      BY Zenon, <3>1
    <3> QED
      BY Zenon, <1>2, <1>3, <1>4, <3>2
  <2>2. Named => "ref" \notin held'
    BY <1>1, <1>2, <1>3, <1>5
  <2> QED
    BY <1>4, <2>1, <2>2 DEF HeldInv
<1>7. PtrsInv'
  BY <1>1, <1>2, <1>4 DEF PtrsInv
<1>8. Grounded'
  <2>1. ASSUME NEW x \in held' PROVE Needs(x) \subseteq held'
    <3>1. CASE x \in held
      BY <1>2, <1>3, <3>1 DEF Grounded
    <3>2. CASE x \in got
      BY <1>1, <1>2, <1>4, <3>2
    <3>3. CASE x = "ref"
      BY <3>3, NeedsFacts
    <3> QED
      BY Zenon, <1>1, <1>2, <2>1, <3>1, <3>2, <3>3
  <2> QED
    BY <2>1 DEF Grounded
<1> QED
  BY <1>2, <1>3, <1>4, <1>6, <1>7, <1>8 DEF ModInv, Parts

\* The first label that is left holds what it releases, and nothing that stays
\* needs it.
LEMMA UndoFacts ==
    ASSUME ModInv, mpc = "undo", todo # <<>>, NEW part, part = Head(todo)
    PROVE  /\ part \in Labels(todo) /\ Tail(todo) \in Seq(Resources) /\ Ordered(Tail(todo))
           /\ Labels(Tail(todo)) = Labels(todo) \ {part}
           /\ part \in held <=> part \notin Transport \ ptrs
           /\ part # "ref"
           /\ \A x \in held \ {part} : part \notin Needs(x)
<1>1. /\ todo \in Seq(Resources) /\ Ordered(todo)
      /\ held \ {"ref"} = (Labels(todo) \ Transport) \cup ptrs /\ ptrs \subseteq Labels(todo)
  BY DEF ModInv, HeldInv
<1>2. /\ Tail(todo) \in Seq(Resources) /\ Ordered(Tail(todo))
      /\ Labels(Tail(todo)) = Labels(todo) \ {part} /\ part \in Labels(todo)
      /\ \A x \in Labels(Tail(todo)) : part \notin Needs(x)
  BY <1>1, TailOrdered
<1>3. part # "ref"
  BY <1>1, <1>2 DEF Labels, Resources
<1>4. ASSUME NEW x \in held \ {part} PROVE part \notin Needs(x)
  <2>1. CASE x = "ref"
    BY <2>1, NeedsFacts
  <2>2. CASE x # "ref"
    BY <1>1, <1>2, <1>4, <2>2
  <2> QED
    BY <2>1, <2>2
<1> QED
  BY <1>1, <1>2, <1>3, <1>4

\* A label, or a line of the exit function.
LEMMA ModUndo ==
    ASSUME ModInv, Undo
    PROVE  ModInv'
<1>1. PICK part : part = Head(todo)
  OBVIOUS
<1>2. /\ mpc = "undo" /\ todo # <<>> /\ todo' = Tail(todo) /\ mpc' = mpc /\ drv' = drv
      /\ held' = held \ (IF part \in Transport \ ptrs THEN {} ELSE {part})
      /\ ptrs' = ptrs \ {part} /\ Transport' = Transport
  BY <1>1 DEF Undo, Transport
<1>3. /\ part \in Labels(todo) /\ todo' \in Seq(Resources) /\ Ordered(todo')
      /\ Labels(todo') = Labels(todo) \ {part}
      /\ part \in held <=> part \notin Transport \ ptrs
      /\ part # "ref"
      /\ \A x \in held \ {part} : part \notin Needs(x)
  BY <1>1, <1>2, UndoFacts
<1>4. /\ held \ {"ref"} = (Labels(todo) \ Transport) \cup ptrs /\ ptrs \subseteq Labels(todo)
      /\ Named => "ref" \notin held
      /\ ptrs \subseteq Transport /\ Grounded /\ drv \in {"urma", "rdma"}
  BY <1>2 DEF ModInv, HeldInv, PtrsInv
<1>5. held' = held \ {part}
  BY <1>2, <1>3
<1>6. HeldInv'
  <2>1. /\ held' \ {"ref"} = (Labels(todo') \ Transport') \cup ptrs'
        /\ ptrs' \subseteq Labels(todo')
    BY <1>2, <1>3, <1>4, <1>5
  <2> QED
    BY <1>2, <1>3, <1>4, <1>5, <2>1 DEF HeldInv, Parts
<1>7. PtrsInv'
  BY <1>2, <1>4 DEF PtrsInv
<1>8. Grounded'
  BY <1>3, <1>4, <1>5 DEF Grounded
<1> QED
  BY <1>2, <1>3, <1>4, <1>6, <1>7, <1>8 DEF ModInv

\* The function that undid everything returns.
LEMMA ModOut ==
    ASSUME ModInv, Out
    PROVE  ModInv'
<1>1. /\ mpc = "undo" /\ todo = <<>> /\ mpc' = "out" /\ drv' = drv /\ todo' = todo
      /\ held' = held /\ ptrs' = ptrs
  BY DEF Out
<1>2. DOMAIN <<>> = {}
  OBVIOUS
<1>3. Labels(todo) = {}
  BY <1>1, <1>2 DEF Labels
<1>4. /\ held \ {"ref"} = {} /\ ptrs = {} /\ (Named => "ref" \notin held)
  BY <1>1, <1>3 DEF ModInv, HeldInv
<1>5. HeldInv' /\ PtrsInv' /\ Grounded'
  BY <1>1, <1>4 DEF ModInv, HeldInv, PtrsInv, Grounded, Parts
<1> QED
  BY <1>1, <1>5 DEF ModInv

\* rmmod.
LEMMA ModExit ==
    ASSUME ModInv, Exit
    PROVE  ModInv'
<1>1. /\ mpc = "live" /\ mpc' = "undo" /\ drv' = drv /\ todo' = ExitOrder
      /\ held' = held /\ ptrs' = ptrs /\ Transport' = Transport
  BY DEF Exit, Transport
<1>2. /\ held \ {"ref"} = Acquired("live") \cup ptrs /\ (Named => "ref" \notin held)
      /\ ptrs \subseteq Transport /\ drv \in {"urma", "rdma"} /\ Grounded
  BY <1>1 DEF ModInv, HeldInv, PtrsInv
<1>3. /\ todo' \in Seq(Resources) /\ Ordered(todo')
      /\ Labels(todo') \ Transport = Acquired("live") /\ Transport \subseteq Labels(todo')
  BY <1>1, <1>2, ExitReleases
<1>4. HeldInv'
  BY <1>1, <1>2, <1>3 DEF HeldInv, Parts
<1>5. PtrsInv' /\ Grounded'
  BY <1>1, <1>2 DEF PtrsInv, Grounded
<1> QED
  BY <1>1, <1>2, <1>3, <1>4, <1>5 DEF ModInv

\* Every step keeps the invariant of the module.
LEMMA ModStep ==
    ASSUME ModInv, [Next]_vars
    PROVE  ModInv'
<1>1. CASE UNCHANGED module
  BY <1>1 DEF module, ModInv, HeldInv, PtrsInv, Grounded, Acquired, Transport
<1>2. CASE \E t \in Tags : QueueRq(t) \/ Copies(t)
  BY <1>1, <1>2 DEF QueueRq, Copies, CopySegment, Complete
<1>3. CASE \E p \in Readers : ShowBegin(p) \/ ShowEnd(p)
  BY <1>1, <1>3 DEF ShowBegin, ShowEnd
<1>4. CASE UNCHANGED vars
  BY <1>1, <1>4 DEF vars
<1> QED
  BY <1>2, <1>3, <1>4, ModLoad, ModPart, ModSetup, ModUndo, ModOut, ModExit DEF Next, Module

\* Nothing is held before insmod.
LEMMA ModInit == Init => ModInv
<1> SUFFICES ASSUME Init PROVE ModInv
  OBVIOUS
<1>1. drv \in {"urma", "rdma"} /\ todo \in Seq(Resources)
  BY Config DEF Init
<1> QED
  BY <1>1 DEF Init, ModInv, HeldInv, PtrsInv, Grounded, Parts

-----------------------------------------------------------------------------
(* Requests and readers.                                                    *)

\* A resource that is held implies those it needs.
LEMMA AddedHolds ==
    ASSUME Grounded, "added" \in held
    PROVE  {"disk", "tags", "dev", "ram", "major"} \subseteq held
BY NeedsFacts DEF Grounded

\* The memory of a new device is that of a disk.
LEMMA BlankType ==
    ASSUME NEW p \in Params
    PROVE  Blank(p) \in [0 .. p.size - 1 -> Vals]
BY Config DEF Blank

\* The module's own steps: while the disk is added, requests and readers keep it.
LEMMA IoModule ==
    ASSUME ModInv, IoInv, Load \/ Module \/ Exit
    PROVE  IoInv'
<1>1. rq' = rq /\ shows' = shows /\ par' \in Params /\ DOMAIN rq = Tags
  BY DEF IoInv, Load, Module, Exit, LoadPart, SetupUrma, SetupRdma, Setup, Undo, Out, io, readers
<1>2. CASE Load
  <2>1. /\ "added" \notin held /\ misuse' = misuse /\ ~misuse
        /\ mem' = Blank(par') /\ content' = Blank(par')
    BY <1>2 DEF Load, ModInv, HeldInv, IoInv
  <2>2. shows = {} /\ \A t \in Tags : rq[t] = NULL
    BY <2>1 DEF IoInv
  <2> QED
    BY <1>1, <2>1, <2>2, BlankType DEF IoInv
<1>3. CASE Undo
  <2>1. PICK part : part = Head(todo)
    OBVIOUS
  <2>2. /\ mpc = "undo" /\ todo # <<>> /\ par' = par
        /\ part = "added" => Drained
        /\ held' = held \ (IF part \in Transport \ ptrs THEN {} ELSE {part})
        /\ misuse' = (misuse \/ (part \notin Transport \ ptrs /\ part \notin held))
    BY <1>3, <2>1 DEF Undo
  <2>3. (mem' = mem /\ content' = content) \/ (mem' = Blank(par) /\ content' = Blank(par))
    BY <1>3 DEF Undo
  <2>4. ~misuse'
    BY Zenon, <2>1, <2>2, UndoFacts DEF IoInv
  <2>5. par \in Params /\ Blank(par) \in [0 .. par.size - 1 -> Vals]
    BY BlankType DEF IoInv
  <2>6. mem' \in [0 .. par'.size - 1 -> Vals] /\ content' \in [0 .. par'.size - 1 -> Vals]
    BY <2>2, <2>3, <2>5 DEF IoInv
  <2>7. /\ shows' # {} => "added" \in held'
        /\ \A t \in Tags : rq'[t] # NULL => "added" \in held'
    BY <1>1, <2>2 DEF IoInv, Drained
  <2>8. \A t \in Tags : rq'[t] # NULL => Request(rq[t])'
    BY <1>1, <2>2 DEF IoInv, Request, Base
  <2> QED
    BY <1>1, <2>4, <2>6, <2>7, <2>8 DEF IoInv
<1>4. CASE LoadPart \/ SetupUrma \/ SetupRdma \/ Out \/ Exit
  <2>1. /\ par' = par /\ mem' = mem /\ content' = content /\ misuse' = misuse
        /\ held \subseteq held'
    BY <1>4 DEF LoadPart, SetupUrma, SetupRdma, Setup, Out, Exit, io
  <2>2. \A t \in Tags : rq'[t] # NULL => Request(rq[t])'
    BY <1>1, <2>1 DEF IoInv, Request, Base
  <2> QED
    BY <1>1, <2>1, <2>2 DEF IoInv
<1> QED
  BY <1>2, <1>3, <1>4 DEF Module

\* queue_rq accepts a request that fits.
LEMMA IoQueue ==
    ASSUME IoInv, NEW t \in Tags, QueueRq(t)
    PROVE  IoInv'
<1>1. PICK r \in Sent :
        rq' = [rq EXCEPT ![t] = [dir |-> r.dir, pos |-> r.pos, n |-> r.n, val |-> r.val,
                                 data |-> <<>>,
                                 ends |-> IF Base(r) + r.n > par.size THEN 2 ELSE 0]]
  BY Zenon DEF QueueRq
<1>2. par \in Params /\ par.bs \in Nat \ {0} /\ par.size \in Nat
  BY Config DEF IoInv
<1>3. ~(Base(r) + r.n > par.size)
  BY <1>2, SentFits
<1>4. r.dir \in {"READ", "WRITE"} /\ r.pos \in Nat /\ r.n \in Nat /\ r.val \in Vals
  BY <1>2, Config DEF Sent
<1>5. r.pos * par.bs \in Nat
  BY <1>2, <1>4
<1>6. PICK new : new = [dir |-> r.dir, pos |-> r.pos, n |-> r.n, val |-> r.val,
                        data |-> <<>>, ends |-> 0]
  BY Zenon
<1>7. rq' = [rq EXCEPT ![t] = new]
  BY <1>1, <1>3, <1>6
<1>8. /\ held' = held /\ par' = par /\ mem' = mem /\ content' = content /\ shows' = shows
      /\ misuse' = misuse /\ "added" \in held
  BY DEF QueueRq, Reachable, module, readers
<1>9. Request(new)
  <2>1. new \in [dir : {"READ", "WRITE"}, pos : Nat, n : Nat, val : Vals, data : Seq(Vals),
                 ends : {0}]
    BY <1>4, <1>6
  <2>2. Len(new.data) = 0 /\ new.n = r.n /\ Base(new) = r.pos * par.bs
    BY <1>6 DEF Base
  <2>3. Base(r) = r.pos * par.bs
    BY DEF Base
  <2> QED
    BY <1>2, <1>3, <1>4, <1>5, <2>1, <2>2, <2>3 DEF Request
<1>10. \A u \in Tags : rq'[u] # NULL => Request(rq'[u])
  BY <1>7, <1>9 DEF IoInv
<1>11. \A u \in Tags : rq'[u] # NULL => Request(rq[u])'
  BY <1>8, <1>10 DEF Request, Base
<1> QED
  BY <1>7, <1>8, <1>11 DEF IoInv

\* The next segment of a request is in the ramdisk, which is held.
LEMMA CopyFacts ==
    ASSUME Grounded, IoInv, NEW t \in Tags, CopySegment(t)
    PROVE  \E val \in Vals :
             LET at == Base(rq[t]) + Len(rq[t].data)
             IN  /\ at \in 0 .. par.size - 1
                 /\ val = IF rq[t].dir = "READ" THEN mem[at] ELSE rq[t].val
                 /\ mem' = IF rq[t].dir = "WRITE" THEN [mem EXCEPT ![at] = val] ELSE mem
                 /\ rq' = [rq EXCEPT ![t].data = Append(@, val)]
                 /\ ~misuse'
<1> DEFINE at == Base(rq[t]) + Len(rq[t].data)
           there == {"ram", "dev"} \subseteq held /\ at \in DOMAIN mem
           val == IF rq[t].dir = "READ" /\ there THEN mem[at] ELSE rq[t].val
<1>1. rq[t] # NULL /\ "added" \in held /\ Request(rq[t]) /\ Len(rq[t].data) < rq[t].n
  BY DEF CopySegment, IoInv
<1>2. par.bs \in Nat \ {0} /\ par.size \in Nat
  BY Config DEF IoInv
<1>3. /\ rq[t].pos \in Nat /\ rq[t].n \in Nat /\ Len(rq[t].data) \in Nat /\ rq[t].val \in Vals
      /\ Base(rq[t]) + rq[t].n <= par.size
  BY <1>1 DEF Request
<1>4. Base(rq[t]) \in Nat
  BY <1>2, <1>3 DEF Base
<1>5. at \in 0 .. par.size - 1
  BY <1>1, <1>2, <1>3, <1>4
<1>6. there
  BY <1>1, <1>5, AddedHolds DEF IoInv
<1>7. /\ misuse' = (misuse \/ ~there)
      /\ mem' = IF rq[t].dir = "WRITE" /\ there THEN [mem EXCEPT ![at] = val] ELSE mem
      /\ rq' = [rq EXCEPT ![t].data = Append(@, val)]
  BY DEF CopySegment
<1>8. val \in Vals
  BY <1>3, <1>5 DEF IoInv
<1>9. ~misuse'
  BY Zenon, <1>6, <1>7 DEF IoInv
<1> HIDE DEF at, there
<1> QED
  BY Zenon, <1>5, <1>6, <1>7, <1>8, <1>9 DEF at

\* A request with one more segment copied.
LEMMA OneMore ==
    ASSUME NEW r \in [dir : {"READ", "WRITE"}, pos : Nat, n : Nat, val : Vals,
                      data : Seq(Vals), ends : {0}],
           NEW val \in Vals, NEW new, new = [r EXCEPT !.data = Append(@, val)]
    PROVE  /\ new \in [dir : {"READ", "WRITE"}, pos : Nat, n : Nat, val : Vals,
                       data : Seq(Vals), ends : {0}]
           /\ new.data = Append(r.data, val) /\ new.n = r.n /\ new.pos = r.pos
           /\ new.dir = r.dir /\ new.val = r.val /\ new # NULL
<1>1. Append(r.data, val) \in Seq(Vals)
  OBVIOUS
<1>2. /\ new.data = Append(r.data, val) /\ new.n = r.n /\ new.pos = r.pos
      /\ new.dir = r.dir /\ new.val = r.val /\ new.ends = r.ends
      /\ new = [dir |-> new.dir, pos |-> new.pos, n |-> new.n, val |-> new.val,
                data |-> new.data, ends |-> new.ends]
  BY Zenon
<1>3. /\ r.dir \in {"READ", "WRITE"} /\ r.pos \in Nat /\ r.n \in Nat /\ r.val \in Vals
      /\ r.ends \in {0}
  OBVIOUS
<1>4. new \in [dir : {"READ", "WRITE"}, pos : Nat, n : Nat, val : Vals, data : Seq(Vals),
               ends : {0}]
  BY Zenon, <1>1, <1>2, <1>3
<1>5. new # NULL
  <2>1. new \in [dir : {"READ", "WRITE"}, pos : Nat, n : Nat, val : Vals, data : Seq(Vals),
                 ends : Nat]
    BY <1>4
  <2> QED
    BY Zenon, <2>1, Config
<1> QED
  BY <1>2, <1>4, <1>5

\* One segment of a request is copied.
LEMMA IoCopy ==
    ASSUME Grounded, IoInv, NEW t \in Tags, CopySegment(t)
    PROVE  IoInv'
<1>1. PICK val \in Vals :
             LET at == Base(rq[t]) + Len(rq[t].data)
             IN  /\ at \in 0 .. par.size - 1
                 /\ val = IF rq[t].dir = "READ" THEN mem[at] ELSE rq[t].val
                 /\ mem' = IF rq[t].dir = "WRITE" THEN [mem EXCEPT ![at] = val] ELSE mem
                 /\ rq' = [rq EXCEPT ![t].data = Append(@, val)]
                 /\ ~misuse'
  BY CopyFacts
<1>2. /\ held' = held /\ par' = par /\ content' = content /\ shows' = shows
      /\ rq[t] # NULL /\ Len(rq[t].data) < rq[t].n
  BY DEF CopySegment, module, readers
<1>3. mem' \in [0 .. par'.size - 1 -> Vals]
  BY <1>1, <1>2 DEF IoInv
<1>4. Request(rq[t]) /\ "added" \in held
  BY <1>2 DEF IoInv
<1>5. PICK r : r = rq[t]
  OBVIOUS
<1>6. PICK new : new = [r EXCEPT !.data = Append(@, val)]
  BY Zenon
<1>7. /\ r \in [dir : {"READ", "WRITE"}, pos : Nat, n : Nat, val : Vals, data : Seq(Vals),
               ends : {0}]
      /\ Len(r.data) < r.n /\ Base(r) + r.n <= par.size
  BY <1>2, <1>4, <1>5 DEF Request
<1>8. /\ new \in [dir : {"READ", "WRITE"}, pos : Nat, n : Nat, val : Vals, data : Seq(Vals),
                 ends : {0}]
      /\ new.data = Append(r.data, val) /\ new.n = r.n /\ new.pos = r.pos
  BY Zenon, <1>6, <1>7, OneMore
<1>9. Len(new.data) <= new.n
  BY <1>7, <1>8
<1>10. Request(new)
  BY <1>7, <1>8, <1>9 DEF Request, Base
<1>11. rq' = [rq EXCEPT ![t] = new]
  BY <1>1, <1>5, <1>6
<1>12. \A u \in Tags : rq'[u] # NULL => "added" \in held' /\ Request(rq'[u])
  BY <1>2, <1>4, <1>10, <1>11 DEF IoInv
<1>13. \A u \in Tags : rq'[u] # NULL => Request(rq[u])'
  BY <1>2, <1>12 DEF Request, Base
<1> QED
  BY Zenon, <1>1, <1>2, <1>3, <1>11, <1>12, <1>13 DEF IoInv

\* A request is completed.
LEMMA IoComplete ==
    ASSUME IoInv, NEW t \in Tags, Complete(t)
    PROVE  IoInv'
<1>1. /\ held' = held /\ par' = par /\ mem' = mem /\ shows' = shows /\ misuse' = misuse
      /\ rq[t] # NULL /\ rq' = [rq EXCEPT ![t] = NULL]
      /\ content' = [s \in DOMAIN content |->
                       IF rq[t].dir = "WRITE" /\ s \in Sectors(rq[t]) THEN rq[t].val
                       ELSE content[s]]
  BY DEF Complete, module, readers
<1>2. rq[t].val \in Vals
  BY <1>1 DEF IoInv, Request
<1>3. content' \in [0 .. par'.size - 1 -> Vals]
  BY <1>1, <1>2 DEF IoInv
<1>4. \A u \in Tags : rq'[u] # NULL => rq'[u] = rq[u] /\ rq[u] # NULL
  BY <1>1 DEF IoInv
<1>5. \A u \in Tags : rq'[u] # NULL => "added" \in held' /\ Request(rq[u])'
  BY <1>1, <1>4 DEF IoInv, Request, Base
<1> QED
  BY <1>1, <1>3, <1>5 DEF IoInv

\* A read of an attribute begins or ends.
LEMMA IoShow ==
    ASSUME Grounded, IoInv, NEW p \in Readers, ShowBegin(p) \/ ShowEnd(p)
    PROVE  IoInv'
<1>1. /\ held' = held /\ par' = par /\ mem' = mem /\ content' = content /\ rq' = rq
  BY DEF ShowBegin, ShowEnd, module, io
<1>2. "added" \in held
  BY DEF ShowBegin, ShowEnd, Reachable, IoInv
<1>3. ~misuse'
  BY Zenon, <1>2, AddedHolds DEF ShowBegin, ShowEnd, IoInv
<1>4. \A u \in Tags : rq'[u] # NULL => Request(rq[u])'
  BY <1>1 DEF IoInv, Request, Base
<1> QED
  BY <1>1, <1>2, <1>3, <1>4 DEF IoInv

\* Every step keeps IoInv.
LEMMA IoStep ==
    ASSUME ModInv, IoInv, [Next]_vars
    PROVE  IoInv'
<1>1. Grounded
  BY DEF ModInv
<1>2. CASE UNCHANGED vars
  <2>1. /\ held' = held /\ par' = par /\ mem' = mem /\ content' = content /\ rq' = rq
        /\ shows' = shows /\ misuse' = misuse
    BY <1>2 DEF vars, module, io, readers
  <2>2. \A u \in Tags : rq'[u] # NULL => Request(rq[u])'
    BY <2>1 DEF IoInv, Request, Base
  <2> QED
    BY <2>1, <2>2 DEF IoInv
<1> QED
  BY <1>1, <1>2, IoModule, IoQueue, IoCopy, IoComplete, IoShow DEF Next, Copies

\* No request is there at first.
LEMMA IoInit == Init => IoInv
<1> SUFFICES ASSUME Init PROVE IoInv
  OBVIOUS
<1>1. par \in Params /\ mem = Blank(par) /\ content = Blank(par)
  BY DEF Init
<1>2. mem \in [0 .. par.size - 1 -> Vals] /\ content \in [0 .. par.size - 1 -> Vals]
  BY <1>1, BlankType
<1> QED
  BY <1>1, <1>2 DEF Init, IoInv

-----------------------------------------------------------------------------
(* What reads return.                                                       *)

\* Nothing is under way when the memory is blank.
LEMMA DataBlank ==
    ASSUME \A t \in Tags : rq'[t] = NULL, mem' = content'
    PROVE  DataInv'
BY DEF DataInv

\* The steps that leave requests and memory alone keep DataInv.
LEMMA DataFrame ==
    ASSUME DataInv, par' = par, rq' = rq, mem' = mem, content' = content
    PROVE  DataInv'
<1>1. \A s \in 0 .. par.size - 1 : Quiet(s)' => Quiet(s)
  BY DEF Quiet, Sectors
<1>2. \A t \in Tags : Copied(rq[t]) => Copied(rq[t])'
  BY DEF Copied
<1>3. \A t, u \in Tags : Conflict(rq[t], rq[u])' => Conflict(rq[t], rq[u])
  BY DEF Conflict, Sectors
<1> QED
  BY <1>1, <1>2, <1>3 DEF DataInv

\* The steps of the module itself: the content survives while the disk is there.
LEMMA DataModule ==
    ASSUME ModInv, IoInv, DataInv, Load \/ Module \/ Exit
    PROVE  DataInv'
<1>1. CASE Load
  <2>1. "added" \notin held /\ rq' = rq /\ mem' = content'
    BY <1>1 DEF Load, ModInv, HeldInv
  <2> QED
    BY <2>1, DataBlank DEF IoInv
<1>2. CASE Undo
  <2>1. PICK part : part = Head(todo)
    OBVIOUS
  <2>2. mpc = "undo" /\ todo # <<>> /\ par' = par /\ rq' = rq
    BY <1>2 DEF Undo
  <2>3. CASE part = "ram"
    <3>1. \A x \in held \ {"ram"} : "ram" \notin Needs(x)
      BY <2>1, <2>2, <2>3, UndoFacts
    <3>2. "disk" \notin held
      BY <3>1, NeedsFacts
    <3>3. "added" \notin held
      BY <3>2, AddedHolds DEF ModInv
    <3>4. mem' = content'
      BY <1>2, <2>1, <2>3 DEF Undo
    <3> QED
      BY <2>2, <3>3, <3>4, DataBlank DEF IoInv
  <2>4. CASE part # "ram"
    <3>1. mem' = mem /\ content' = content
      BY <1>2, <2>1, <2>4 DEF Undo
    <3> QED
      BY <2>2, <3>1, DataFrame
  <2> QED
    BY <2>3, <2>4
<1>3. CASE LoadPart \/ SetupUrma \/ SetupRdma \/ Out \/ Exit
  <2>1. par' = par /\ rq' = rq /\ mem' = mem /\ content' = content
    BY <1>3 DEF LoadPart, SetupUrma, SetupRdma, Setup, Out, Exit, io
  <2> QED
    BY <2>1, DataFrame
<1> QED
  BY <1>1, <1>2, <1>3 DEF Module

\* A new request has copied nothing, and does not conflict.
LEMMA DataQueue ==
    ASSUME IoInv, DataInv, NEW t \in Tags, QueueRq(t)
    PROVE  DataInv'
<1>1. PICK r \in Sent :
        rq' = [rq EXCEPT ![t] = [dir |-> r.dir, pos |-> r.pos, n |-> r.n, val |-> r.val,
                                 data |-> <<>>,
                                 ends |-> IF Base(r) + r.n > par.size THEN 2 ELSE 0]]
  BY Zenon DEF QueueRq
<1>2. PICK new : new = [dir |-> r.dir, pos |-> r.pos, n |-> r.n, val |-> r.val,
                        data |-> <<>>, ends |-> IF Base(r) + r.n > par.size THEN 2 ELSE 0]
  BY Zenon
<1>3. /\ rq' = [rq EXCEPT ![t] = new] /\ rq[t] = NULL /\ DOMAIN rq = Tags
      /\ par' = par /\ mem' = mem /\ content' = content
  BY Zenon, <1>1, <1>2 DEF QueueRq, IoInv, module
<1>4. new.dir = r.dir /\ Sectors(new) = Sectors(r) /\ new.data = <<>>
  BY <1>2 DEF Sectors
<1>5. \A u \in Tags : rq[u] # NULL => ~Conflict(r, rq[u])
  BY DEF Sent
<1>6. \A u \in Tags : rq[u] # NULL => ~Conflict(new, rq[u]) /\ ~Conflict(rq[u], new)
  BY <1>4, <1>5 DEF Conflict
<1>7. \A u, v \in Tags : u # v /\ rq'[u] # NULL /\ rq'[v] # NULL => ~Conflict(rq'[u], rq'[v])
  BY <1>3, <1>6 DEF DataInv
<1>8. \A s \in 0 .. par.size - 1 : Quiet(s)' => Quiet(s)
  <2>1. \A u \in Tags : rq[u] # NULL => rq'[u] = rq[u]
    BY <1>3
  <2> QED
    BY <2>1 DEF Quiet, Sectors
<1>9. ASSUME par.bs = 1, NEW u \in Tags, rq'[u] # NULL PROVE Copied(rq[u])'
  <2>1. CASE u = t
    <3>1. rq'[u].data = <<>> /\ Len(<<>>) = 0
      BY <1>3, <1>4, <2>1
    <3> QED
      BY <3>1 DEF Copied
  <2>2. CASE u # t
    <3>1. rq'[u] = rq[u]
      BY <1>3, <2>2
    <3>2. Copied(rq[u])
      BY <1>9, <3>1 DEF DataInv
    <3> QED
      BY <1>3, <3>1, <3>2 DEF Copied
  <2> QED
    BY <2>1, <2>2
<1>10. \A u, v \in Tags : u # v /\ rq'[u] # NULL /\ rq'[v] # NULL => ~Conflict(rq[u], rq[v])'
  BY <1>7 DEF Conflict, Sectors
<1> QED
  BY <1>3, <1>8, <1>9, <1>10 DEF DataInv

\* What a request has copied lies within its sectors, and so does what is next.
LEMMA Within ==
    ASSUME NEW r, Request(r)
    PROVE  /\ \A i \in 1 .. Len(r.data) : r.pos + i - 1 \in Sectors(r)
           /\ Len(r.data) < r.n => r.pos + Len(r.data) \in Sectors(r)
<1>1. r.pos \in Nat /\ r.n \in Nat /\ Len(r.data) \in Nat /\ Len(r.data) <= r.n
  BY DEF Request
<1> QED
  BY <1>1 DEF Sectors

\* Two requests that do not conflict share no sector if one of them writes.
LEMMA Apart ==
    ASSUME NEW r, NEW s, ~Conflict(r, s), r.dir = "WRITE" \/ s.dir = "WRITE",
           NEW x \in Sectors(r)
    PROVE  x \notin Sectors(s)
BY DEF Conflict

\* One segment is copied: the device differs from the disk only where a write is under way.
LEMMA DataCopy ==
    ASSUME Grounded, IoInv, DataInv, NEW t \in Tags, CopySegment(t)
    PROVE  DataInv'
<1>1. PICK val \in Vals :
             LET at == Base(rq[t]) + Len(rq[t].data)
             IN  /\ at \in 0 .. par.size - 1
                 /\ val = IF rq[t].dir = "READ" THEN mem[at] ELSE rq[t].val
                 /\ mem' = IF rq[t].dir = "WRITE" THEN [mem EXCEPT ![at] = val] ELSE mem
                 /\ rq' = [rq EXCEPT ![t].data = Append(@, val)]
                 /\ ~misuse'
  BY CopyFacts
<1>2. /\ par' = par /\ content' = content /\ rq[t] # NULL /\ Len(rq[t].data) < rq[t].n
  BY DEF CopySegment, module
<1>3. DOMAIN rq = Tags /\ Request(rq[t]) /\ mem \in [0 .. par.size - 1 -> Vals]
  BY <1>2 DEF IoInv
<1>4. PICK r : r = rq[t]
  OBVIOUS
<1>5. PICK new : new = [r EXCEPT !.data = Append(@, val)]
  BY Zenon
<1>6. rq' = [rq EXCEPT ![t] = new]
  BY <1>1, <1>4, <1>5
<1>7. /\ r \in [dir : {"READ", "WRITE"}, pos : Nat, n : Nat, val : Vals, data : Seq(Vals),
               ends : {0}]
      /\ Len(r.data) < r.n
  BY <1>2, <1>3, <1>4 DEF Request
<1>8. /\ new.data = Append(r.data, val) /\ new.n = r.n /\ new.pos = r.pos
      /\ new.dir = r.dir /\ new.val = r.val
  BY <1>5, <1>7, OneMore
<1>9. Sectors(new) = Sectors(r)
  BY <1>8 DEF Sectors
<1>10. \A u \in Tags : u # t => rq'[u] = rq[u]
  BY <1>3, <1>6
<1>11. rq'[t] = new /\ rq[t] = r
  BY <1>3, <1>4, <1>6
<1>12. \A u \in Tags :
         /\ Sectors(rq'[u]) = Sectors(rq[u]) /\ rq'[u].dir = rq[u].dir
         /\ rq'[u] # NULL => rq[u] # NULL
  BY <1>2, <1>8, <1>9, <1>10, <1>11
<1>13. \A u, v \in Tags : u # v /\ rq'[u] # NULL /\ rq'[v] # NULL => ~Conflict(rq[u], rq[v])'
  <2>1. \A u, v \in Tags : u # v /\ rq'[u] # NULL /\ rq'[v] # NULL => ~Conflict(rq'[u], rq'[v])
    BY <1>12 DEF DataInv, Conflict
  <2> QED
    BY <2>1 DEF Conflict, Sectors
<1>14. new # NULL
  BY Zenon, <1>5, <1>7, OneMore
<1>15. ASSUME par.bs = 1
       PROVE  /\ \A s \in 0 .. par.size - 1 : Quiet(s)' => mem'[s] = content'[s]
              /\ \A u \in Tags : rq'[u] # NULL => Copied(rq[u])'
  <2>1. PICK at : at = r.pos + Len(r.data)
    OBVIOUS
  <2>2. Base(rq[t]) = r.pos
    <3>1. r.pos * 1 = r.pos
      BY <1>7
    <3> QED
      BY <1>11, <1>15, <3>1 DEF Base
  <2>3. /\ at \in 0 .. par.size - 1
        /\ val = IF r.dir = "READ" THEN mem[at] ELSE r.val
        /\ mem' = IF r.dir = "WRITE" THEN [mem EXCEPT ![at] = val] ELSE mem
    BY <1>1, <1>11, <2>1, <2>2
  <2>4. at \in Sectors(r)
    BY <1>3, <1>7, <1>11, <2>1, Within
  <2>5. \A u \in Tags : u # t /\ rq[u] # NULL => ~Conflict(rq[u], r)
    BY <1>2, <1>11 DEF DataInv
  <2>6. \A u \in Tags : u # t /\ rq[u] # NULL => Request(rq[u]) /\ Copied(rq[u])
    BY <1>15 DEF DataInv, IoInv
  <2>7. \A i \in 1 .. Len(r.data) : new.data[i] = r.data[i]
    BY <1>7, <1>8
  <2>8. Len(new.data) = Len(r.data) + 1 /\ new.data[Len(r.data) + 1] = val /\ Len(r.data) \in Nat
    BY <1>7, <1>8
  <2>9. Copied(r)
    BY <1>2, <1>11, <1>15 DEF DataInv
  <2>10. \A s \in 0 .. par.size - 1 : Quiet(s)' => Quiet(s)
    <3>1. \A u \in Tags : rq[u] # NULL => rq'[u] # NULL
      BY <1>10, <1>11, <1>14
    <3>2. \A s : Quiet(s)' => \A u \in Tags : rq'[u] # NULL /\ rq'[u].dir = "WRITE" =>
                                   s \notin Sectors(rq'[u])
      BY DEF Quiet, Sectors
    <3> QED
      BY <1>12, <3>1, <3>2 DEF Quiet
  <2>11. CASE r.dir = "WRITE"
    <3>1. val = r.val /\ mem' = [mem EXCEPT ![at] = val]
      BY <2>3, <2>11
    <3>2. ASSUME NEW s \in 0 .. par.size - 1, Quiet(s)' PROVE mem'[s] = content'[s]
      <4>1. Quiet(s)
        BY <2>10, <3>2
      <4>2. s \notin Sectors(r)
        BY <1>2, <1>11, <2>11, <4>1 DEF Quiet
      <4>3. mem[s] = content[s]
        BY <1>15, <4>1 DEF DataInv
      <4> QED
        BY <1>2, <1>3, <2>4, <3>1, <4>2, <4>3
    <3>3. ASSUME NEW u \in Tags, rq'[u] # NULL, u # t PROVE Copied(rq[u])'
      <4>1. rq'[u] = rq[u] /\ Request(rq[u]) /\ Copied(rq[u]) /\ ~Conflict(rq[u], r)
        BY <1>10, <2>5, <2>6, <3>3
      <4>2. \A i \in 1 .. Len(rq[u].data) : rq[u].pos + i - 1 \in Sectors(rq[u])
        BY <4>1, Within
      <4>3. at \notin Sectors(rq[u])
        BY <2>4, <2>11, <4>1, Apart
      <4>4. \A i \in 1 .. Len(rq[u].data) :
              mem'[rq[u].pos + i - 1] = mem[rq[u].pos + i - 1]
        BY <1>3, <3>1, <4>2, <4>3
      <4> QED
        BY <1>2, <4>1, <4>4 DEF Copied
    <3>4. Copied(rq[t])'
      <4>1. ASSUME NEW i \in 1 .. Len(new.data) PROVE mem'[new.pos + i - 1] = new.val
        <5>1. CASE i = Len(r.data) + 1
          <6>1. new.pos + i - 1 = at
            BY <1>7, <1>8, <2>1, <2>8, <5>1
          <6> QED
            BY <1>3, <1>8, <2>3, <3>1, <6>1
        <5>2. CASE i # Len(r.data) + 1
          <6>1. i \in 1 .. Len(r.data)
            BY <2>8, <5>2
          <6>2. mem[r.pos + i - 1] = r.val
            BY <2>9, <2>11, <6>1 DEF Copied
          <6> QED
            BY <1>3, <1>8, <3>1, <6>2
        <5> QED
          BY <5>1, <5>2
      <4> QED
        BY <1>8, <1>11, <2>11, <4>1 DEF Copied
    <3> QED
      BY <3>2, <3>3, <3>4
  <2>12. CASE r.dir # "WRITE"
    <3>1. val = mem[at] /\ mem' = mem
      BY <1>7, <2>3, <2>12
    <3>2. \A s \in 0 .. par.size - 1 : Quiet(s)' => mem'[s] = content'[s]
      BY <1>2, <1>15, <2>10, <3>1 DEF DataInv
    <3>3. ASSUME NEW u \in Tags, rq'[u] # NULL, u # t PROVE Copied(rq[u])'
      <4>1. rq'[u] = rq[u] /\ Copied(rq[u])
        BY <1>10, <2>6, <3>3
      <4> QED
        BY <1>2, <3>1, <4>1 DEF Copied
    <3>4. Quiet(at)
      <4>1. ASSUME NEW u \in Tags, rq[u] # NULL, rq[u].dir = "WRITE"
            PROVE  at \notin Sectors(rq[u])
        <5>1. u # t
          BY <1>11, <2>12, <4>1
        <5>2. ~Conflict(rq[u], r)
          BY <2>5, <4>1, <5>1
        <5> QED
          BY <2>4, <4>1, <5>2 DEF Conflict
      <4> QED
        BY <4>1 DEF Quiet
    <3>5. val = content[at]
      BY <1>15, <2>3, <3>1, <3>4 DEF DataInv
    <3>6. Copied(rq[t])'
      <4>1. ASSUME NEW i \in 1 .. Len(new.data) PROVE new.data[i] = content'[new.pos + i - 1]
        <5>1. CASE i = Len(r.data) + 1
          <6>1. new.pos + i - 1 = at
            BY <1>7, <1>8, <2>1, <2>8, <5>1
          <6> QED
            BY <1>2, <2>8, <3>5, <5>1, <6>1
        <5>2. CASE i # Len(r.data) + 1
          <6>1. i \in 1 .. Len(r.data)
            BY <2>8, <5>2
          <6>2. r.data[i] = content[r.pos + i - 1]
            BY <2>9, <2>12, <6>1 DEF Copied
          <6> QED
            BY <1>2, <1>8, <2>7, <6>1, <6>2
        <5> QED
          BY <5>1, <5>2
      <4> QED
        BY Zenon, <1>8, <1>11, <2>12, <4>1 DEF Copied
    <3> QED
      BY <3>2, <3>3, <3>6
  <2> QED
    BY <2>11, <2>12
<1> QED
  BY <1>2, <1>13, <1>15 DEF DataInv

\* A write that completes has copied all of its sectors.
LEMMA DataComplete ==
    ASSUME IoInv, DataInv, NEW t \in Tags, Complete(t)
    PROVE  DataInv'
<1>1. /\ par' = par /\ mem' = mem /\ rq[t] # NULL /\ rq' = [rq EXCEPT ![t] = NULL]
      /\ Len(rq[t].data) = rq[t].n
      /\ content' = [s \in DOMAIN content |->
                       IF rq[t].dir = "WRITE" /\ s \in Sectors(rq[t]) THEN rq[t].val
                       ELSE content[s]]
  BY DEF Complete, module
<1>2. DOMAIN rq = Tags /\ Request(rq[t]) /\ content \in [0 .. par.size - 1 -> Vals]
  BY <1>1 DEF IoInv
<1>3. \A u \in Tags : rq'[u] # NULL => u # t /\ rq'[u] = rq[u] /\ rq[u] # NULL
  BY <1>1, <1>2
<1>4. \A u, v \in Tags : u # v /\ rq'[u] # NULL /\ rq'[v] # NULL => ~Conflict(rq[u], rq[v])'
  <2>1. \A u, v \in Tags : u # v /\ rq'[u] # NULL /\ rq'[v] # NULL => ~Conflict(rq'[u], rq'[v])
    BY <1>3 DEF DataInv
  <2> QED
    BY <2>1 DEF Conflict, Sectors
<1>5. ASSUME par.bs = 1, NEW s \in 0 .. par.size - 1, Quiet(s)' PROVE mem'[s] = content'[s]
  <2>1. \A u \in Tags \ {t} : rq[u] # NULL /\ rq[u].dir = "WRITE" => s \notin Sectors(rq[u])
    <3>1. \A u \in Tags : rq'[u] # NULL /\ rq'[u].dir = "WRITE" => s \notin Sectors(rq'[u])
      BY <1>5 DEF Quiet, Sectors
    <3>2. \A u \in Tags \ {t} : rq'[u] = rq[u]
      BY <1>1, <1>2
    <3> QED
      BY <3>1, <3>2
  <2>2. CASE rq[t].dir = "WRITE" /\ s \in Sectors(rq[t])
    <3>1. rq[t].pos \in Nat /\ rq[t].n \in Nat
      BY <1>2 DEF Request
    <3>2. PICK i \in 1 .. rq[t].n : s = rq[t].pos + i - 1
      <4>1. s \in rq[t].pos .. rq[t].pos + rq[t].n - 1
        BY <2>2 DEF Sectors
      <4>2. s - rq[t].pos + 1 \in 1 .. rq[t].n /\ s = rq[t].pos + (s - rq[t].pos + 1) - 1
        BY <3>1, <4>1
      <4> QED
        BY <4>2
    <3>3. Copied(rq[t])
      BY <1>1, <1>5 DEF DataInv
    <3>4. mem[s] = rq[t].val
      BY <1>1, <2>2, <3>2, <3>3 DEF Copied
    <3> QED
      BY <1>1, <1>2, <2>2, <3>4
  <2>3. CASE ~(rq[t].dir = "WRITE" /\ s \in Sectors(rq[t]))
    <3>1. Quiet(s)
      BY <2>1, <2>3 DEF Quiet
    <3>2. mem[s] = content[s]
      BY <1>5, <3>1 DEF DataInv
    <3> QED
      BY <1>1, <1>2, <2>3, <3>2
  <2> QED
    BY <2>2, <2>3
<1>6. ASSUME par.bs = 1, NEW u \in Tags, rq'[u] # NULL PROVE Copied(rq[u])'
  <2>1. /\ rq'[u] = rq[u] /\ Request(rq[u]) /\ Copied(rq[u]) /\ ~Conflict(rq[t], rq[u])
    BY <1>1, <1>3, <1>6 DEF DataInv, IoInv
  <2>2. \A i \in 1 .. Len(rq[u].data) : rq[u].pos + i - 1 \in Sectors(rq[u])
    BY <2>1, Within
  <2>3. Sectors(rq[u]) \subseteq 0 .. par.size - 1
    <3>1. /\ rq[u].pos \in Nat /\ rq[u].n \in Nat /\ par.size \in Nat
          /\ Base(rq[u]) + rq[u].n <= par.size
      BY <2>1, Config DEF Request, IoInv
    <3>2. Base(rq[u]) = rq[u].pos
      BY <1>6, <3>1 DEF Base
    <3> QED
      BY <3>1, <3>2 DEF Sectors
  <2>4. \A s \in Sectors(rq[u]) : rq[t].dir = "WRITE" => s \notin Sectors(rq[t])
    BY <2>1 DEF Conflict
  <2>5. \A s \in Sectors(rq[u]) : content'[s] = content[s]
    BY <1>1, <1>2, <2>3, <2>4
  <2> QED
    BY <1>1, <2>1, <2>2, <2>5 DEF Copied
<1> QED
  BY <1>1, <1>4, <1>5, <1>6 DEF DataInv

\* Every step keeps DataInv.
LEMMA DataStep ==
    ASSUME ModInv, IoInv, DataInv, [Next]_vars
    PROVE  DataInv'
<1>1. Grounded
  BY DEF ModInv
<1>2. CASE UNCHANGED <<par, io>>
  BY <1>2, DataFrame DEF io
<1>3. CASE \E p \in Readers : ShowBegin(p) \/ ShowEnd(p)
  BY <1>2, <1>3 DEF ShowBegin, ShowEnd, module
<1>4. CASE UNCHANGED vars
  BY <1>2, <1>4 DEF vars, module
<1> QED
  BY <1>1, <1>3, <1>4, DataModule, DataQueue, DataCopy, DataComplete DEF Next, Copies

-----------------------------------------------------------------------------
\* All three invariants hold together.
LEMMA InvHolds == Spec => [](ModInv /\ IoInv /\ DataInv)
<1>1. Init => ModInv /\ IoInv
  BY ModInit, IoInit
<1>2. Init => DataInv
  BY DEF Init, DataInv
<1>3. ModInv /\ IoInv /\ DataInv /\ [Next]_vars => (ModInv /\ IoInv /\ DataInv)'
  BY ModStep, IoStep, DataStep
<1> QED
  BY <1>1, <1>2, <1>3, PTL DEF Spec

\* Every variable has its type and the ladder is where mpc says (TypeOK).
THEOREM TypesHold == Spec => []TypeOK
<1>1. Spec => [](drv \in Drivers)
  <2>1. Init => drv \in Drivers
    BY DEF Init
  <2>2. drv \in Drivers /\ [Next]_vars => (drv \in Drivers)'
    BY DEF Next, Load, Module, Exit, LoadPart, SetupUrma, SetupRdma, Setup, Undo, Out, QueueRq,
           Copies, CopySegment, Complete, ShowBegin, ShowEnd, module, vars
  <2> QED
    BY <2>1, <2>2, PTL DEF Spec
<1>2. drv \in Drivers /\ ModInv /\ IoInv => TypeOK
  <2> SUFFICES ASSUME drv \in Drivers, ModInv, IoInv PROVE TypeOK
    OBVIOUS
  <2>1. drv \in {"urma", "rdma"} /\ mpc \in {"out", "undo", "live"} \cup Parts
        /\ (drv = "rdma" => mpc # "queue") /\ (mpc # "undo" => todo = <<>>)
    BY DEF ModInv
  <2>2. mpc \in {"out", "undo", "live"} \cup {Ladder[i] : i \in DOMAIN Ladder}
    BY <2>1, LadderParts
  <2>3. mpc = "live" => {"major", "dev", "ram", "tags", "disk", "added"} \subseteq held
    BY DEF ModInv, HeldInv, Acquired
  <2>4. ptrs \subseteq Transport
    BY DEF ModInv, PtrsInv
  <2>5. /\ par \in Params /\ {mem, content} \subseteq [0 .. par.size - 1 -> Vals]
        /\ \A t \in Tags : rq[t] # NULL => "added" \in held /\ Len(rq[t].data) <= rq[t].n
    BY DEF IoInv, Request
  <2> QED
    BY <2>1, <2>2, <2>3, <2>4, <2>5 DEF TypeOK
<1> QED
  BY <1>1, <1>2, InvHolds, PTL

\* On every path through init, its labels and exit a resource outlives what
\* was made from it, in both modules (Grounded).
THEOREM GroundedAlways == Spec => []Grounded
<1>1. ModInv => Grounded
  BY DEF ModInv
<1> QED
  BY <1>1, InvHolds, PTL

\* Whichever part of init fails, and after every unload, nothing stays acquired
\* (NothingLeft).  Without ib_dev_name the RDMA module
\* forgets a reference.
THEOREM NothingLeftWhenNamed == Named => (Spec => []NothingLeft)
<1> SUFFICES ASSUME Named PROVE Spec => []NothingLeft
  OBVIOUS
<1>1. ModInv => NothingLeft
  BY DEF ModInv, HeldInv, PtrsInv, NothingLeft
<1> QED
  BY <1>1, InvHolds, PTL

\* Requests copy to and from memory that is there, show functions read a device
\* that is not freed, and nothing is released twice, whatever the sizes, the
\* requests under way and the readers (NoMisuse).
THEOREM NoMisuseAlways == Spec => []NoMisuse
<1>1. IoInv => NoMisuse
  BY DEF IoInv, NoMisuse
<1> QED
  BY <1>1, InvHolds, PTL

\* With sectors as logical blocks a read returns what the completed writes have
\* put there, while other requests are copied next to it (ReadsReturnWrites).
THEOREM ReadsReturnWritesAlways == Spec => []ReadsReturnWrites
<1>1. DataInv => ReadsReturnWrites
  BY DEF DataInv, ReadsReturnWrites, Copied
<1> QED
  BY <1>1, InvHolds, PTL
=============================================================================
