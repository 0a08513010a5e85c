------------------------------- MODULE Daemon -------------------------------
(***************************************************************************)
(* The life of the userspace daemon: main with its start and clean-up      *)
(* ladders (userspace-nbd/src/nbd_ramdisk.c), the NBD_DO_IT thread, the    *)
(* control thread (ramdisk_ctrl_server.c) and the clients of its socket.   *)
(*                                                                         *)
(* The serve loop is NbdServe, a control operation is UrmaMgr: here they   *)
(* are a state main or the control thread is in.  main runs alone until    *)
(* ramdisk_ctrl_server_start creates a thread, so each part of the start   *)
(* is one step.  Clients and the kernel are external.                      *)
(***************************************************************************)
EXTENDS UrmaProvider, FiniteSets

CONSTANTS
    Clients,        \* processes that use the control socket
    Faults,         \* parts of the start that may fail
    Abandon,        \* may a client close its socket before the response?
    NULL

ASSUME DaemonConstants ==
    /\ Faults \subseteq {"backend", "urma", "ctrl_socket", "ctrl_path", "ctrl_thread", "nbd"}
    /\ Abandon \in BOOLEAN
    /\ NULL \notin Clients

VARIABLES
    pc,             \* main
    held,           \* what the process has acquired and not released
    g_stop,
    session,        \* is the NBD session up?
    npc,            \* nbd_do_it_thread
    running,        \* server->running
    cpc, served,    \* the control thread, and the client it serves
    conn, ask       \* a client: its connection, and the request it has sent

main  == <<pc, held>>
nbd   == <<session, npc>>
ctrl  == <<running, cpc, served>>
users == <<conn, ask>>
vars == <<main, g_stop, nbd, ctrl, users>>

Alive == pc \notin {"exited", "killed", "crashed"}

-----------------------------------------------------------------------------
(* main: the start.                                                        *)

\* ramdisk_backend_create
CreateBackend ==
    /\ pc = "backend"
    /\ \/ pc' = "urma" /\ held' = held \cup {"backend"}
       \/ "backend" \in Faults /\ pc' = "cleanup" /\ UNCHANGED held
    /\ UNCHANGED <<g_stop, nbd, ctrl, users>>

\* ramdisk_urma_mgr_init, with the real provider, since parse_args never asks for
\* the mock: when a part of the provider fails, or the worker cannot be created,
\* it destroys the manager.
InitUrma ==
    /\ pc = "urma"
    /\ \/ /\ held' = held \cup {"mgr", "worker"} \cup Provided("daemon")
          /\ pc' = "ctrl"
       \/ /\ "urma" \in Faults
          /\ \/ UNCHANGED held
             \/ \E i \in DOMAIN Parts("daemon") : held' = held \cup LeftAfter("daemon", i)
          /\ pc' = "cleanup"
    /\ UNCHANGED <<g_stop, nbd, ctrl, users>>

\* ramdisk_ctrl_server_start
CtrlStart ==
    /\ pc = "ctrl"
    /\ held' = held \cup {"listen", "path", "ctrl"}
    /\ running' = TRUE
    /\ cpc' = "loop"
    /\ pc' = "nbd"
    /\ UNCHANGED <<g_stop, nbd, served, users>>

\* A bind or listen that fails closes the socket.
CtrlStartFails ==
    /\ pc = "ctrl"
    /\ "ctrl_socket" \in Faults
    /\ pc' = "cleanup"
    /\ UNCHANGED <<held, g_stop, nbd, ctrl, users>>

\* The path fits socket_path and not sun_path: the socket stays open and nobody
\* knows it any more, and the result is whatever errno was, which may be 0.
CtrlStartLongPath ==
    /\ pc = "ctrl"
    /\ "ctrl_path" \in Faults
    /\ held' = held \cup {"lost_fd"}
    /\ pc' \in {"nbd", "cleanup"}
    /\ UNCHANGED <<g_stop, nbd, ctrl, users>>

\* pthread_create fails: ramdisk_ctrl_server_stop joins a thread that was never
\* created, which crashes or does nothing.
CtrlStartNoThread ==
    /\ pc = "ctrl"
    /\ "ctrl_thread" \in Faults
    /\ pc' \in {"crashed", "cleanup"}
    /\ UNCHANGED <<held, g_stop, nbd, ctrl, users>>

NbdParts == <<"nbd_fd", "socks", "attached", "nbd_thread">>

\* setup_nbd stops at the first part it does not get.
SetupNbd ==
    /\ pc = "nbd"
    /\ \E k \in 0 .. 4 :
         /\ k < 4 => "nbd" \in Faults
         /\ held' = held \cup {NbdParts[j] : j \in 1 .. k}
         /\ pc' = IF k = 4 THEN "serve" ELSE "cleanup"
         /\ session' = (k = 4)
         /\ npc' = IF k = 4 THEN "do_it" ELSE "none"
    /\ UNCHANGED <<g_stop, ctrl, users>>

\* serve_nbd returns (NbdServe: StopEndsServing).
ServeReturns ==
    /\ pc = "serve"
    /\ g_stop \/ ~session
    /\ pc' = "cleanup"
    /\ UNCHANGED <<held, g_stop, nbd, ctrl, users>>

-----------------------------------------------------------------------------
(* main: cleanup.                                                          *)

\* ramdisk_ctrl_server_stop up to the join.
CtrlStop ==
    /\ pc = "cleanup"
    /\ IF "ctrl" \in held
         THEN running' = FALSE /\ held' = held \ {"listen"} /\ pc' = "join"
         ELSE UNCHANGED <<running, held>> /\ pc' = "nbd_down"
    /\ UNCHANGED <<g_stop, nbd, cpc, served, users>>

CtrlJoinedAlways == TRUE

\* pthread_join(server->thread) returns.
CtrlJoined == cpc = "ended"

CtrlJoin ==
    /\ pc = "join"
    /\ CtrlJoined
    /\ held' = held \ {"path", "ctrl"}
    /\ pc' = "nbd_down"
    /\ UNCHANGED <<g_stop, nbd, ctrl, users>>

\* NBD_DISCONNECT, NBD_CLEAR_SOCK, NBD_CLEAR_QUE, and the sockets.
NbdDown ==
    /\ pc = "nbd_down"
    /\ held' = held \ {"attached", "socks"}
    /\ session' = FALSE
    /\ pc' = "nbd_join"
    /\ UNCHANGED <<g_stop, npc, ctrl, users>>

NbdJoin ==
    /\ pc = "nbd_join"
    /\ "nbd_thread" \in held => npc = "ended"
    /\ held' = held \ {"nbd_thread", "nbd_fd"}
    /\ pc' = "urma_down"
    /\ UNCHANGED <<g_stop, nbd, ctrl, users>>

\* The order of ramdisk_urma_mgr_destroy (UrmaMgr: DestroyEnds).
UrmaOrder == <<"worker">> \o DestroyOrder("daemon") \o <<"mgr">>

\* Only if the manager was initialized; an init that fails has cleaned up itself.
UrmaDown ==
    /\ pc = "urma_down"
    /\ \/ /\ "mgr" \notin held
          /\ pc' = "backend_down"
          /\ UNCHANGED held
       \/ /\ "mgr" \in held
          /\ \E i \in DOMAIN UrmaOrder :
               /\ UrmaOrder[i] \in held
               /\ \A j \in 1 .. i - 1 : UrmaOrder[j] \notin held
               /\ held' = held \ {UrmaOrder[i]}
          /\ UNCHANGED pc
    /\ UNCHANGED <<g_stop, nbd, ctrl, users>>

BackendDown ==
    /\ pc = "backend_down"
    /\ held' = held \ {"backend"}
    /\ pc' = "exited"
    /\ UNCHANGED <<g_stop, nbd, ctrl, users>>

-----------------------------------------------------------------------------
(* nbd_do_it_thread, and what ends the session.                            *)

NbdThreadEnds ==
    /\ Alive
    /\ npc = "do_it" /\ ~session
    /\ npc' = "ended"
    /\ UNCHANGED <<main, g_stop, session, ctrl, users>>

\* signal_handler.
Signal ==
    /\ Alive /\ ~g_stop
    /\ g_stop' = TRUE
    /\ UNCHANGED <<main, nbd, ctrl, users>>

\* External: nbd-client -d, or the kernel gives the socket up.
SessionEnds ==
    /\ pc = "serve" /\ session
    /\ session' = FALSE
    /\ UNCHANGED <<main, g_stop, npc, ctrl, users>>

-----------------------------------------------------------------------------
(* The control thread.                                                     *)

CtrlLoopForever ==
    /\ Alive
    /\ cpc = "loop"
    /\ cpc' = "accept"
    /\ UNCHANGED <<main, g_stop, nbd, running, served, users>>

\* The loop of ctrl_server_main.
CtrlLoop ==
    /\ Alive
    /\ cpc = "loop"
    /\ cpc' = IF running THEN "accept" ELSE "ended"
    /\ UNCHANGED <<main, g_stop, nbd, running, served, users>>

\* A connection waits in the backlog also when its client has closed it.
CtrlAccept(c) ==
    /\ Alive
    /\ cpc = "accept" /\ "listen" \in held
    /\ conn[c] \in {"queued", "queued_closed"}
    /\ conn' = [conn EXCEPT ![c] = IF @ = "queued" THEN "open" ELSE "closed"]
    /\ served' = c
    /\ cpc' = "read"
    /\ UNCHANGED <<main, g_stop, nbd, running, ask>>

\* accept fails once the listening socket is shut down.
CtrlAcceptFails ==
    /\ Alive
    /\ cpc = "accept" /\ "listen" \notin held
    /\ cpc' = "loop"
    /\ UNCHANGED <<main, g_stop, nbd, running, served, users>>

\* serve_client reads a request; a bad header is answered without handling.
CtrlRead ==
    /\ Alive
    /\ cpc = "read" /\ ask[served] # "none"
    /\ cpc' = IF ask[served] = "good" THEN "handle" ELSE "refuse"
    /\ UNCHANGED <<main, g_stop, nbd, running, served, users>>

\* It reads the end of the stream and returns: close(fd).
CtrlHangup ==
    /\ Alive
    /\ cpc = "read" /\ ask[served] = "none" /\ conn[served] = "closed"
    /\ conn' = [conn EXCEPT ![served] = "none"]
    /\ served' = NULL
    /\ cpc' = "loop"
    /\ UNCHANGED <<main, g_stop, nbd, running, ask>>

\* handle_request up to the response: the operation on server->urma and
\* server->backend (UrmaMgr: TransfersReturn).
CtrlHandle ==
    /\ Alive
    /\ cpc = "handle"
    /\ cpc' = "respond"
    /\ UNCHANGED <<main, g_stop, nbd, running, served, users>>

\* send_response to a client that is there; after a bad header the connection
\* is closed.
CtrlRespond ==
    /\ Alive
    /\ cpc \in {"respond", "refuse"} /\ conn[served] = "open"
    /\ ask' = [ask EXCEPT ![served] = "none"]
    /\ IF cpc = "respond"
         THEN cpc' = "read" /\ UNCHANGED <<served, conn>>
         ELSE cpc' = "loop" /\ served' = NULL /\ conn' = [conn EXCEPT ![served] = "none"]
    /\ UNCHANGED <<main, g_stop, nbd, running>>

\* ... and to one that has closed its socket: SIGPIPE, which the daemon leaves
\* at its default.
CtrlSigpipe ==
    /\ Alive
    /\ cpc \in {"respond", "refuse"} /\ conn[served] = "closed"
    /\ pc' = "killed"
    /\ UNCHANGED <<held, g_stop, nbd, ctrl, users>>

-----------------------------------------------------------------------------
(* Clients of the control socket, external.                                *)

ClientConnect(c) ==
    /\ Alive
    /\ "path" \in held /\ "listen" \in held
    /\ conn[c] = "none"
    /\ conn' = [conn EXCEPT ![c] = "queued"]
    /\ UNCHANGED <<main, g_stop, nbd, ctrl, ask>>

ClientSend(c) ==
    /\ Alive
    /\ conn[c] \in {"queued", "open"} /\ ask[c] = "none"
    /\ \E kind \in {"good", "bad"} : ask' = [ask EXCEPT ![c] = kind]
    /\ UNCHANGED <<main, g_stop, nbd, ctrl, conn>>

ClientClose(c) ==
    /\ Alive
    /\ conn[c] \in {"queued", "open"}
    /\ Abandon \/ ask[c] = "none"
    /\ conn' = [conn EXCEPT ![c] = IF @ = "open" THEN "closed" ELSE "queued_closed"]
    /\ UNCHANGED <<main, g_stop, nbd, ctrl, ask>>

-----------------------------------------------------------------------------
Init ==
    /\ pc = "backend" /\ held = {}
    /\ g_stop = FALSE
    /\ session = FALSE /\ npc = "none"
    /\ running = FALSE /\ cpc = "none" /\ served = NULL
    /\ conn = [c \in Clients |-> "none"]
    /\ ask = [c \in Clients |-> "none"]

Main ==
    \/ CreateBackend \/ InitUrma
    \/ CtrlStart \/ CtrlStartFails \/ CtrlStartLongPath \/ CtrlStartNoThread
    \/ SetupNbd \/ ServeReturns
    \/ CtrlStop \/ CtrlJoin \/ NbdDown \/ NbdJoin \/ UrmaDown \/ BackendDown

Ctrl ==
    \/ CtrlLoop \/ CtrlAcceptFails \/ CtrlRead \/ CtrlHangup \/ CtrlHandle
    \/ CtrlRespond \/ CtrlSigpipe
    \/ \E c \in Clients : CtrlAccept(c)

Next ==
    \/ Main \/ Ctrl \/ NbdThreadEnds \/ Signal \/ SessionEnds
    \/ \E c \in Clients : ClientConnect(c) \/ ClientSend(c) \/ ClientClose(c)

Spec == Init /\ [][Next]_vars

\* The daemon's threads are scheduled.
Fairness == WF_vars(Main) /\ WF_vars(Ctrl) /\ WF_vars(NbdThreadEnds)

FairSpec == Spec /\ Fairness

\* The client that is served also hangs up in the end: SF, it may send further
\* requests before.
PoliteSpec == FairSpec /\ \A c \in Clients : SF_vars(ClientClose(c) /\ served = c)

-----------------------------------------------------------------------------
(* Properties.                                                             *)

\* Every exit through main, from whichever failure of the start or with however
\* many clients connected, has released everything: fds, the socket file, the
\* kernel's socket, threads and memory (DEVELOPMENT.md; cleanup).  The socket
\* that a path too long leaves open is the one exception.
NothingLeftAtExit ==
    pc = "exited" =>
        /\ held \subseteq {"lost_fd"}
        /\ cpc \in {"none", "ended"} /\ npc \in {"none", "ended"}

\* What is in use exists: the control thread's operations need the manager, its
\* worker and the backend, serve_nbd the backend, NBD_DO_IT the device, the
\* registered segment the backend's memory, and each object of the URMA library
\* the ones it was made from (the order of cleanup and of the destroy functions;
\* UrmaMgr assumes it of MgrStop).
UsersBeforeResources ==
    Alive =>
        /\ cpc \in {"handle", "respond"} => {"backend", "mgr", "worker"} \subseteq held
        /\ "worker" \in held => {"backend", "mgr"} \subseteq held
        /\ "seg" \in held => {"backend", "jetty", "ctx"} \subseteq held
        /\ "jetty" \in held => {"jfr", "jfc"} \subseteq held
        /\ "jfc" \in held => {"jfce", "ctx", "init"} \subseteq held
        /\ pc = "serve" => {"backend", "socks"} \subseteq held
        /\ npc = "do_it" => {"nbd_fd", "backend"} \subseteq held

\* DESIGN.md: "Daemon exits cleanly on disconnect or SIGTERM."  A signal at any
\* moment ends main through cleanup, unless the control thread could not be
\* created, or a client that did not wait for its response got main killed.
SignalExits ==
    g_stop ~> \/ pc \in {"exited", "crashed"}
              \/ pc = "killed" /\ \E c \in Clients : conn[c] = "closed" /\ ask[c] # "none"

\* A request on the connection that is served is answered if its client waits,
\* also when the daemon is told to end meanwhile (ramdisk_ctrl_server_stop joins
\* the thread), and whatever other clients do.
RequestsServed ==
    \A c \in Clients :
        served = c /\ ask[c] # "none" ~> ask[c] = "none" \/ conn[c] = "closed"
=============================================================================
