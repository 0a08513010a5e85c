---------------------------- MODULE DaemonProofs ----------------------------
(***************************************************************************)
(* Proofs about Daemon, for any set of clients and any set of parts of the *)
(* start that may fail: what is in use exists, and an exit through main    *)
(* has released everything.                                                *)
(***************************************************************************)
EXTENDS Daemon, TLAPS

UrmaParts == {UrmaOrder[i] : i \in DOMAIN UrmaOrder}

CtrlParts == {"listen", "path", "ctrl"}

NbdHeld == {"nbd_fd", "socks", "attached", "nbd_thread"}

\* main has passed ramdisk_urma_mgr_init and has not begun to destroy the manager.
Served == {"nbd", "serve", "cleanup", "join"}

\* The control thread is between its creation and its end.
CtrlThread == cpc \notin {"none", "ended"}

\* Where main is, and what the process then holds.
MainInv ==
    /\ held \subseteq {"backend", "lost_fd"} \cup UrmaParts \cup CtrlParts \cup NbdHeld
    /\ pc = "backend" => held = {}
    /\ pc = "urma" => held = {"backend"}
    /\ pc = "ctrl" => held = {"backend"} \cup UrmaParts
    /\ pc = "nbd" => held \cap NbdHeld = {}
    /\ pc \in {"nbd", "serve"} => "backend" \in held
    /\ pc = "serve" => "socks" \in held
    /\ pc = "join" => "listen" \notin held
    /\ pc \in {"nbd_down", "nbd_join", "urma_down", "backend_down", "exited"} => held \cap CtrlParts = {}
    /\ pc \in {"nbd_join", "urma_down", "backend_down", "exited"} => held \cap {"socks", "attached"} = {}
    /\ pc \in {"urma_down", "backend_down", "exited"} => held \cap NbdHeld = {}
    /\ pc \in {"backend_down", "exited"} => held \cap UrmaParts = {}
    /\ pc = "exited" => "backend" \notin held

\* The URMA library's objects go in the order of the destroy functions, before
\* the memory of the backend.
Ordered(h) ==
    \A i, j \in DOMAIN UrmaOrder : i < j /\ UrmaOrder[i] \in h => UrmaOrder[j] \in h

UrmaInv ==
    /\ Ordered(held)
    /\ held \cap UrmaParts # {} => "backend" \in held

\* The threads, and what each one works on.
ThreadsInv ==
    /\ CtrlThread => "ctrl" \in held
    /\ held \cap CtrlParts # {} => /\ pc \in Served \cup {"killed", "crashed"}
                                   /\ "ctrl" \in held
                                   /\ {"backend"} \cup UrmaParts \subseteq held
    /\ npc \in {"none", "do_it", "ended"}
    /\ npc = "do_it" => {"nbd_fd", "nbd_thread", "backend"} \subseteq held

Inv == MainInv /\ UrmaInv /\ ThreadsInv

-----------------------------------------------------------------------------
(* The orders of the provider.                                              *)

\* The order of ramdisk_urma_mgr_destroy, element by element.
LEMMA Orders ==
    /\ DOMAIN UrmaOrder = 1 .. 9
    /\ UrmaOrder[1] = "worker" /\ UrmaOrder[2] = "seg" /\ UrmaOrder[3] = "jetty"
    /\ UrmaOrder[4] = "jfr" /\ UrmaOrder[5] = "jfc" /\ UrmaOrder[6] = "jfce"
    /\ UrmaOrder[7] = "ctx" /\ UrmaOrder[8] = "init" /\ UrmaOrder[9] = "mgr"
<1>1. UrmaOrder = (<<"worker">> \o (<<"seg", "jetty", "jfr", "jfc", "jfce">> \o <<"ctx", "init">>))
                    \o <<"mgr">>
  BY DEF UrmaOrder, DestroyOrder
<1> QED
  BY <1>1

\* ... and as a set.
LEMMA UrmaPartsAre ==
    UrmaParts = {"worker", "seg", "jetty", "jfr", "jfc", "jfce", "ctx", "init", "mgr"}
  BY Orders DEF UrmaParts

\* What real_init_provider acquires, part by part.
LEMMA ProviderParts ==
    /\ DOMAIN Parts("daemon") = 1 .. 8
    /\ Parts("daemon")[1] = "init" /\ Parts("daemon")[2] = "device"
    /\ Parts("daemon")[3] = "ctx" /\ Parts("daemon")[4] = "jfce"
    /\ Parts("daemon")[5] = "jfc" /\ Parts("daemon")[6] = "jfr"
    /\ Parts("daemon")[7] = "jetty" /\ Parts("daemon")[8] = "seg"
<1>1. Parts("daemon") = <<"init", "device", "ctx", "jfce", "jfc", "jfr", "jetty">> \o <<"seg">>
  BY DEF Parts
<1> QED
  BY <1>1

\* With the worker and the manager, the provider is what the destroy order releases.
LEMMA ProviderHolds ==
    {"mgr", "worker"} \cup Provided("daemon") = UrmaParts
<1>1. Range(Parts("daemon")) = {"init", "device", "ctx", "jfce", "jfc", "jfr", "jetty", "seg"}
  BY ProviderParts DEF Range
<1> QED
  BY <1>1, UrmaPartsAre DEF Provided

\* Whichever part of real_init_provider fails, its error labels release all the
\* parts before it.
LEMMA FailedInitLeavesNothing ==
    ASSUME NEW i \in DOMAIN Parts("daemon")
    PROVE  LeftAfter("daemon", i) = {}
<1> DEFINE p == Parts("daemon")
           labels == FailLabels("daemon")
           run == LabelsRun("daemon", p[i])
<1>1. /\ Len(labels) = 6
      /\ labels[1] = "jetty" /\ labels[2] = "jfr" /\ labels[3] = "jfc"
      /\ labels[4] = "jfce" /\ labels[5] = "ctx" /\ labels[6] = "init"
  <2>1. labels = <<"jetty", "jfr", "jfc", "jfce", "ctx", "init">>
    BY DEF FailLabels
  <2> QED
    BY <2>1
<1>2. i \in 1 .. 8
  BY ProviderParts
<1>3. run = IF i = 1 THEN 0 ELSE IF i = 2 THEN 1 ELSE i - 2
  BY <1>2, ProviderParts DEF LabelsRun
<1>4. ASSUME NEW j \in 1 .. i - 1, p[j] # "device"
      PROVE  \E k \in Len(labels) - run + 1 .. Len(labels) : p[j] = labels[k]
  <2> DEFINE k == IF j = 1 THEN 6 ELSE 8 - j
  <2>1. j # 2
    BY <1>4, ProviderParts
  <2>2. p[j] = labels[k]
    BY <1>1, <1>2, <2>1, ProviderParts
  <2> HIDE DEF p, labels, run
  <2>3. k \in Len(labels) - run + 1 .. Len(labels)
    BY <1>1, <1>2, <1>3, <2>1
  <2> QED
    BY <2>2, <2>3
<1> QED
  BY <1>4 DEF LeftAfter

\* All of the URMA objects, or none of them, are in order.
LEMMA AllOrNoneOrdered ==
    ASSUME NEW h, h \cap UrmaParts = {} \/ UrmaParts \subseteq h
    PROVE  Ordered(h)
  BY DEF Ordered, UrmaParts

\* The order speaks of the URMA objects only.
LEMMA SameOrdered ==
    ASSUME NEW h, NEW g, h \cap UrmaParts = g \cap UrmaParts, Ordered(h)
    PROVE  Ordered(g)
  BY DEF Ordered, UrmaParts

\* The manager itself goes last.
LEMMA ManagerIsLast ==
    ASSUME NEW h, Ordered(h), "mgr" \notin h
    PROVE  h \cap UrmaParts = {}
<1> SUFFICES ASSUME NEW i \in DOMAIN UrmaOrder, UrmaOrder[i] \in h PROVE FALSE
  BY DEF UrmaParts
<1>1. i < 9 \/ i = 9
  BY Orders
<1> QED
  BY <1>1, Orders DEF Ordered

\* Releasing the first object that is still there keeps the order.
LEMMA FirstReleased ==
    ASSUME NEW h, Ordered(h), NEW i \in DOMAIN UrmaOrder,
           \A j \in 1 .. i - 1 : UrmaOrder[j] \notin h
    PROVE  Ordered(h \ {UrmaOrder[i]})
<1> SUFFICES ASSUME NEW k \in DOMAIN UrmaOrder, NEW l \in DOMAIN UrmaOrder, k < l,
                    UrmaOrder[k] \in h, UrmaOrder[k] # UrmaOrder[i]
             PROVE  UrmaOrder[l] \in h /\ UrmaOrder[l] # UrmaOrder[i]
  BY DEF Ordered
<1>1. i \in 1 .. 9 /\ k \in 1 .. 9 /\ l \in 1 .. 9 /\ k # i
  BY Orders
<1>2. k > i
  BY <1>1
<1>3. \A m, n \in 1 .. 9 : UrmaOrder[m] = UrmaOrder[n] => m = n
  BY Orders
<1> QED
  BY <1>1, <1>2, <1>3 DEF Ordered

-----------------------------------------------------------------------------
(* The steps of main.                                                      *)

\* The start keeps the invariant.
LEMMA StartStep ==
    ASSUME Inv,
           \/ CreateBackend \/ InitUrma
           \/ CtrlStart \/ CtrlStartFails \/ CtrlStartLongPath \/ CtrlStartNoThread
           \/ SetupNbd \/ ServeReturns
    PROVE  Inv'
<1> USE DEF Inv, MainInv, UrmaInv, ThreadsInv, CtrlThread, CtrlParts, NbdHeld, Served
<1> USE UrmaPartsAre
<1>u. UrmaParts' = UrmaParts
  OBVIOUS
<1>1. CASE CreateBackend
  <2>1. held \cap UrmaParts = held' \cap UrmaParts
    BY <1>1 DEF CreateBackend
  <2>2. Ordered(held)'
    BY <1>u, <2>1, SameOrdered
  <2> QED
    BY <1>1, <1>u, <2>2 DEF CreateBackend, nbd, ctrl
<1>2. CASE InitUrma
  <2>1. held' = held \/ (pc' = "ctrl" /\ held' = held \cup UrmaParts)
    BY <1>2, ProviderHolds, FailedInitLeavesNothing DEF InitUrma
  <2> QED
    BY <1>2, <1>u, <2>1, AllOrNoneOrdered DEF InitUrma, nbd, ctrl
<1>3. CASE CtrlStart
  <2>1. held \cap UrmaParts = held' \cap UrmaParts
    BY <1>3 DEF CtrlStart
  <2>2. Ordered(held)'
    BY <1>u, <2>1, SameOrdered
  <2> QED
    BY <1>3, <1>u, <2>2 DEF CtrlStart, nbd
<1>4. CASE CtrlStartFails \/ CtrlStartNoThread
  BY <1>4, <1>u DEF CtrlStartFails, CtrlStartNoThread, nbd, ctrl
<1>5. CASE CtrlStartLongPath
  <2>1. held \cap UrmaParts = held' \cap UrmaParts
    BY <1>5 DEF CtrlStartLongPath
  <2>2. Ordered(held)'
    BY <1>u, <2>1, SameOrdered
  <2> QED
    BY <1>5, <1>u, <2>2 DEF CtrlStartLongPath, nbd, ctrl
<1>6. CASE SetupNbd
  <2>1. PICK k \in 0 .. 4 :
          /\ held' = held \cup {NbdParts[j] : j \in 1 .. k}
          /\ pc' = IF k = 4 THEN "serve" ELSE "cleanup"
          /\ npc' = IF k = 4 THEN "do_it" ELSE "none"
    BY <1>6 DEF SetupNbd
  <2>2. held' \subseteq held \cup NbdHeld /\ held \subseteq held'
    BY <2>1 DEF NbdParts
  <2>3. k = 4 => NbdHeld \subseteq held'
    BY <2>1 DEF NbdParts
  <2>4. held \cap UrmaParts = held' \cap UrmaParts
    BY <2>2
  <2>5. Ordered(held)'
    BY <1>u, <2>4, SameOrdered
  <2>6. pc = "nbd" /\ cpc' = cpc /\ pc' \in {"serve", "cleanup"} /\ (pc' = "serve" => k = 4)
        /\ npc' \in {"none", "do_it"} /\ (npc' = "do_it" => k = 4)
    BY <1>6, <2>1 DEF SetupNbd, ctrl
  <2>7. MainInv'
    BY <1>u, <2>2, <2>3, <2>6
  <2>8. UrmaInv'
    BY <1>u, <2>2, <2>4, <2>5, <2>6
  <2>9. ThreadsInv'
    BY <1>u, <2>2, <2>3, <2>6
  <2> QED
    BY <2>7, <2>8, <2>9
<1>7. CASE ServeReturns
  BY <1>7, <1>u DEF ServeReturns, nbd, ctrl
<1> QED
  BY <1>1, <1>2, <1>3, <1>4, <1>5, <1>6, <1>7

\* cleanup keeps the invariant.
LEMMA CleanupStep ==
    ASSUME Inv, CtrlStop \/ CtrlJoin \/ NbdDown \/ NbdJoin \/ UrmaDown \/ BackendDown
    PROVE  Inv'
<1> USE DEF Inv, MainInv, UrmaInv, ThreadsInv, CtrlThread, CtrlParts, NbdHeld, Served
<1> USE UrmaPartsAre
<1>u. UrmaParts' = UrmaParts
  OBVIOUS
<1>1. CASE CtrlStop
  <2>1. held \cap UrmaParts = held' \cap UrmaParts
    BY <1>1 DEF CtrlStop
  <2>2. Ordered(held)'
    BY <1>u, <2>1, SameOrdered
  <2>3. pc = "cleanup" /\ cpc' = cpc /\ npc' = npc
    BY <1>1 DEF CtrlStop, nbd
  <2>4. CASE "ctrl" \in held
    <3>1. held' = held \ {"listen"} /\ pc' = "join"
      BY <1>1, <2>4 DEF CtrlStop
    <3> QED
      BY <1>u, <2>2, <2>3, <2>4, <3>1
  <2>5. CASE "ctrl" \notin held
    <3>1. held' = held /\ pc' = "nbd_down"
      BY <1>1, <2>5 DEF CtrlStop
    <3> QED
      BY <1>u, <2>2, <2>3, <2>5, <3>1
  <2> QED
    BY <2>4, <2>5
<1>2. CASE CtrlJoin
  <2>1. held \cap UrmaParts = held' \cap UrmaParts
    BY <1>2 DEF CtrlJoin
  <2>2. Ordered(held)'
    BY <1>u, <2>1, SameOrdered
  <2> QED
    BY <1>2, <1>u, <2>2 DEF CtrlJoin, CtrlJoined, nbd, ctrl
<1>3. CASE NbdDown
  <2>1. held \cap UrmaParts = held' \cap UrmaParts
    BY <1>3 DEF NbdDown
  <2>2. Ordered(held)'
    BY <1>u, <2>1, SameOrdered
  <2> QED
    BY <1>3, <1>u, <2>2 DEF NbdDown, ctrl
<1>4. CASE NbdJoin
  <2>1. held \cap UrmaParts = held' \cap UrmaParts
    BY <1>4 DEF NbdJoin
  <2>2. Ordered(held)'
    BY <1>u, <2>1, SameOrdered
  <2> QED
    BY <1>4, <1>u, <2>2 DEF NbdJoin, nbd, ctrl
<1>5. CASE UrmaDown
  <2>1. CASE "mgr" \notin held
    BY <1>5, <1>u, <2>1, ManagerIsLast DEF UrmaDown, nbd, ctrl
  <2>2. CASE "mgr" \in held
    <3>1. PICK i \in DOMAIN UrmaOrder :
            /\ UrmaOrder[i] \in held
            /\ \A j \in 1 .. i - 1 : UrmaOrder[j] \notin held
            /\ held' = held \ {UrmaOrder[i]}
      BY <1>5, <2>2 DEF UrmaDown
    <3>2. Ordered(held)' /\ UrmaOrder[i] \in UrmaParts
      BY <1>u, <3>1, FirstReleased DEF UrmaParts
    <3> QED
      BY <1>5, <1>u, <2>2, <3>1, <3>2 DEF UrmaDown, nbd, ctrl
  <2> QED
    BY <2>1, <2>2
<1>6. CASE BackendDown
  <2>1. held \cap UrmaParts = held' \cap UrmaParts
    BY <1>6 DEF BackendDown
  <2>2. Ordered(held)'
    BY <1>u, <2>1, SameOrdered
  <2> QED
    BY <1>6, <1>u, <2>2 DEF BackendDown, nbd, ctrl
<1> QED
  BY <1>1, <1>2, <1>3, <1>4, <1>5, <1>6

-----------------------------------------------------------------------------
(* The theorems.                                                           *)

\* Every step keeps the invariant.
LEMMA InvStep ==
    ASSUME Inv, [Next]_vars
    PROVE  Inv'
<1>1. CASE Main
  BY <1>1, StartStep, CleanupStep DEF Main
<1>2. CASE Ctrl
  <2>1. /\ held' = held /\ npc' = npc
        /\ pc' = pc \/ pc' = "killed"
        /\ CtrlThread' => CtrlThread
    BY <1>2 DEF Ctrl, CtrlLoop, CtrlAcceptFails, CtrlRead, CtrlHangup, CtrlHandle,
                CtrlRespond, CtrlSigpipe, CtrlAccept, CtrlThread, main, nbd, ctrl
  <2> QED
    BY <2>1 DEF Inv, MainInv, UrmaInv, ThreadsInv, Served
<1>3. CASE NbdThreadEnds
  BY <1>3 DEF NbdThreadEnds, main, ctrl, Inv, MainInv, UrmaInv, ThreadsInv, CtrlThread
<1>4. CASE \/ Signal \/ SessionEnds \/ UNCHANGED vars
           \/ \E c \in Clients : ClientConnect(c) \/ ClientSend(c) \/ ClientClose(c)
  <2>1. held' = held /\ npc' = npc /\ pc' = pc /\ cpc' = cpc
    BY <1>4 DEF Signal, SessionEnds, ClientConnect, ClientSend, ClientClose, vars,
                main, nbd, ctrl
  <2> QED
    BY <2>1 DEF Inv, MainInv, UrmaInv, ThreadsInv, CtrlThread
<1> QED
  BY <1>1, <1>2, <1>3, <1>4 DEF Next

\* The invariant holds.
LEMMA InvHolds == Spec => []Inv
<1>1. Init => Inv
  BY AllOrNoneOrdered DEF Init, Inv, MainInv, UrmaInv, ThreadsInv, CtrlThread
<1>2. Inv /\ [Next]_vars => Inv'
  BY InvStep
<1> QED
  BY <1>1, <1>2, PTL DEF Spec

\* What is in use exists (UsersBeforeResources): the operations of the control
\* thread, serve_nbd and NBD_DO_IT find what they work on, and the objects of the
\* URMA library outlive what was made from them, from whichever failure of the
\* start and at whatever moment the daemon is told to end.
THEOREM InUseExists == Spec => []UsersBeforeResources
<1>1. Inv => UsersBeforeResources
  <2> SUFFICES ASSUME Inv PROVE UsersBeforeResources
    OBVIOUS
  <2>1. ASSUME NEW x \in {"seg", "jetty", "jfc", "worker"}, x \in held
        PROVE  "backend" \in held /\ "mgr" \in held
    <3>1. x \in held \cap UrmaParts
      BY <2>1, UrmaPartsAre
    <3> QED
      BY <3>1, ManagerIsLast DEF Inv, UrmaInv
  <2>2. /\ "seg" \in held => {"jetty", "ctx"} \subseteq held
        /\ "jetty" \in held => {"jfr", "jfc"} \subseteq held
        /\ "jfc" \in held => {"jfce", "ctx", "init"} \subseteq held
    <3>1. \A i, j \in 1 .. 9 : i < j /\ UrmaOrder[i] \in held => UrmaOrder[j] \in held
      BY Orders DEF Inv, UrmaInv, Ordered
    <3>2. /\ UrmaOrder[2] \in held => UrmaOrder[3] \in held /\ UrmaOrder[7] \in held
          /\ UrmaOrder[3] \in held => UrmaOrder[4] \in held /\ UrmaOrder[5] \in held
          /\ UrmaOrder[5] \in held =>
               UrmaOrder[6] \in held /\ UrmaOrder[7] \in held /\ UrmaOrder[8] \in held
      BY <3>1
    <3> QED
      BY <3>2, Orders
  <2>3. cpc \in {"handle", "respond"} => {"backend", "mgr", "worker"} \subseteq held
    BY UrmaPartsAre DEF Inv, ThreadsInv, CtrlThread, CtrlParts
  <2>4. /\ pc = "serve" => {"backend", "socks"} \subseteq held
        /\ npc = "do_it" => {"nbd_fd", "backend"} \subseteq held
    BY DEF Inv, MainInv, ThreadsInv
  <2> QED
    BY <2>1, <2>2, <2>3, <2>4 DEF UsersBeforeResources
<1> QED
  BY <1>1, InvHolds, PTL

\* An exit through main, from whichever failure of the start and with however many
\* clients, has released everything and joined both threads, but for the one
\* socket of a path too long (NothingLeftAtExit).
THEOREM ExitLeavesNothing == Spec => []NothingLeftAtExit
<1>1. Inv => NothingLeftAtExit
  BY DEF Inv, MainInv, ThreadsInv, CtrlThread, CtrlParts, NbdHeld, NothingLeftAtExit
<1> QED
  BY <1>1, InvHolds, PTL
=============================================================================
