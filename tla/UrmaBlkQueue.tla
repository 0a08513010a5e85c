---------------------------- MODULE UrmaBlkQueue ----------------------------
(***************************************************************************)
(* The direct-IO queue of the kernel module urma_blkdev                    *)
(* (kernel-urma/urma_blkdev.c): threads of the NVMe-oF target that call    *)
(* urma_blkdev_submit_nvmet_io, the work item that posts what they         *)
(* submitted, and the module's exit, which shuts the queue down.           *)
(*                                                                         *)
(* A pending_lock section, an atomic operation and a read of a shared flag *)
(* are one step each.  Calls refused for their arguments change nothing    *)
(* and are left out.  A request is a block from kzalloc that is done(),    *)
(* freed and may be allocated again.                                       *)
(***************************************************************************)
EXTENDS Naturals, Sequences, FiniteSets

CONSTANTS
    Submitters,     \* threads that call urma_blkdev_submit_nvmet_io
    Reqs,           \* blocks kzalloc may return
    queue_depth,    \* module parameter
    MaxAccepted,    \* bound: accepted requests after which no further call starts
    NULL

\* urma_blkdev_init_io_queue: dev->queue_depth
QueueDepth == IF queue_depth = 0 THEN 1 ELSE queue_depth

ASSUME QueueConstants ==
    /\ queue_depth \in Nat
    /\ MaxAccepted \in Nat
    /\ NULL \notin Reqs

VARIABLES
    mod,            \* "live", "going" (exit runs), "gone": external, the module loader
    forced,         \* did the loader ignore the references (rmmod -f)?
    refs,           \* references on THIS_MODULE
    stopping, pending_list, pending, inflight_reqs, inflight, next_wr_id,
    io_wq,          \* does the workqueue exist?
    work,           \* is submit_work queued and not yet started?
    allocated,      \* requests between kzalloc and kfree
    spc, sreq,      \* a submitter: where it is, its req
    seen,           \* a submitter: dev->pending as read before the allocation
    kpc, kreq,      \* the work function: where it is, its req
    xpc,            \* urma_blkdev_cleanup_io_queue: where it is
    to_complete,    \* urma_blkdev_fail_queued's local list
    stamp,          \* history: number of an accepted request, until it is done
    accepted, answered, \* history: requests accepted, and calls of done()
    broken          \* something freed was used

listVars   == <<pending_list, pending>>
inflVars   == <<inflight_reqs, inflight, next_wr_id>>
modVars    == <<mod, forced, stopping, io_wq, xpc, to_complete>>
submitVars == <<spc, sreq, seen>>
workVars   == <<kpc, kreq>>
histVars   == <<stamp, accepted>>
vars == <<modVars, refs, listVars, inflVars, work, allocated, submitVars,
          workVars, histVars, answered, broken>>

-----------------------------------------------------------------------------
(* Helpers.                                                                *)

DoneReqTwicePut(r) ==
    /\ answered' = answered + 1
    /\ allocated' = allocated \ {r}
    /\ refs' = refs - 2
    /\ stamp' = [stamp EXCEPT ![r] = 0]

\* urma_blkdev_done_req: call done(), then drop the only reference, which
\* frees the request and puts the module.
DoneReq(r) ==
    /\ answered' = answered + 1
    /\ allocated' = allocated \ {r}
    /\ refs' = refs - 1
    /\ stamp' = [stamp EXCEPT ![r] = 0]

FullOffByOne == pending + inflight > QueueDepth

\* The test under pending_lock.
Full == pending + inflight >= QueueDepth

QueueWorkIfIdle == work' = (work \/ kpc = "idle")

\* queue_work: no effect when the item is already queued; an item that is
\* running is queued to run again.
QueueWork == work' = TRUE

-----------------------------------------------------------------------------
(* urma_blkdev_submit_nvmet_io.                                            *)

\* The modules of the callers link to the function, so the loader keeps this one
\* until they are gone: a call meets the exit only when the unload is forced.
Callable == mod = "live" \/ (forced /\ mod = "going")

\* The tests before the allocation up to the first read of the counters.
SubmitBegin(s) ==
    /\ ~broken
    /\ Callable
    /\ spc[s] = "idle"
    /\ ~stopping /\ io_wq
    /\ accepted < MaxAccepted
    /\ seen' = [seen EXCEPT ![s] = pending]
    /\ spc' = [spc EXCEPT ![s] = "check"]
    /\ UNCHANGED <<modVars, refs, listVars, inflVars, work, allocated, sreq, workVars,
                   histVars, answered, broken>>

\* The rest of that test, try_module_get and kzalloc, all succeeding.
SubmitAlloc(s) ==
    /\ ~broken
    /\ mod = "live"
    /\ spc[s] = "check"
    /\ seen[s] + inflight < QueueDepth
    /\ \E r \in Reqs \ allocated :
         /\ sreq' = [sreq EXCEPT ![s] = r]
         /\ allocated' = allocated \cup {r}
    /\ refs' = refs + 1
    /\ seen' = [seen EXCEPT ![s] = 0]
    /\ spc' = [spc EXCEPT ![s] = "lock"]
    /\ UNCHANGED <<modVars, listVars, inflVars, work, workVars, histVars, answered, broken>>

\* ... or one of them failing: -EBUSY, -ENODEV, -ENOMEM.
SubmitGiveUp(s) ==
    /\ ~broken
    /\ mod # "gone"
    /\ spc[s] = "check"
    /\ seen' = [seen EXCEPT ![s] = 0]
    /\ spc' = [spc EXCEPT ![s] = "idle"]
    /\ UNCHANGED <<modVars, refs, listVars, inflVars, work, allocated, sreq, workVars,
                   histVars, answered, broken>>

\* The pending_lock section, refusing: urma_blkdev_req_put.
SubmitReject(s) ==
    /\ ~broken
    /\ mod # "gone"
    /\ spc[s] = "lock"
    /\ stopping \/ Full
    /\ allocated' = allocated \ {sreq[s]}
    /\ refs' = refs - 1
    /\ sreq' = [sreq EXCEPT ![s] = NULL]
    /\ spc' = [spc EXCEPT ![s] = "idle"]
    /\ UNCHANGED <<modVars, listVars, inflVars, work, seen, workVars, histVars,
                   answered, broken>>

\* The pending_lock section, accepting.  From here on the request is the
\* queue's, and the caller has no reference of its own.
SubmitAccept(s) ==
    /\ ~broken
    /\ mod # "gone"
    /\ spc[s] = "lock"
    /\ ~stopping /\ ~Full
    /\ pending_list' = Append(pending_list, sreq[s])
    /\ pending' = pending + 1
    /\ stamp' = [stamp EXCEPT ![sreq[s]] = accepted + 1]
    /\ accepted' = accepted + 1
    /\ sreq' = [sreq EXCEPT ![s] = NULL]
    /\ spc' = [spc EXCEPT ![s] = "kick"]
    /\ UNCHANGED <<modVars, refs, inflVars, work, allocated, seen, workVars, answered, broken>>

SubmitKick(s) ==
    /\ ~broken
    /\ spc[s] = "kick"
    /\ io_wq
    /\ QueueWork
    /\ spc' = [spc EXCEPT ![s] = "idle"]
    /\ UNCHANGED <<modVars, refs, listVars, inflVars, allocated, sreq, seen, workVars,
                   histVars, answered, broken>>

-----------------------------------------------------------------------------
(* urma_blkdev_submit_workfn.  The workqueue runs a work item once at a    *)
(* time.                                                                   *)

WorkStart ==
    /\ ~broken
    /\ work /\ kpc = "idle"
    /\ work' = FALSE
    /\ kpc' = "loop"
    /\ UNCHANGED <<modVars, refs, listVars, inflVars, allocated, submitVars, kreq,
                   histVars, answered, broken>>

\* The loop condition.
WorkLoop ==
    /\ ~broken
    /\ kpc = "loop"
    /\ kpc' = IF ~stopping /\ inflight < QueueDepth THEN "pop" ELSE "ret"
    /\ UNCHANGED <<modVars, refs, listVars, inflVars, work, allocated, submitVars, kreq,
                   histVars, answered, broken>>

PopPendingLast ==
    /\ kreq' = pending_list[Len(pending_list)]
    /\ pending_list' = SubSeq(pending_list, 1, Len(pending_list) - 1)
    /\ pending' = pending - 1

\* urma_blkdev_pop_pending on a list that is not empty
PopPending ==
    /\ kreq' = Head(pending_list)
    /\ pending_list' = Tail(pending_list)
    /\ pending' = pending - 1

WorkPop ==
    /\ ~broken
    /\ kpc = "pop"
    /\ IF pending_list = <<>>
         THEN kpc' = "ret" /\ UNCHANGED <<kreq, listVars>>
         ELSE kpc' = "track" /\ PopPending
    /\ UNCHANGED <<modVars, refs, inflVars, work, allocated, submitVars, histVars,
                   answered, broken>>

\* A wr_id, xa_store, atomic_inc; xa_store may fail.
WorkTrack ==
    /\ ~broken
    /\ kpc = "track"
    /\ next_wr_id' = next_wr_id + 1
    /\ \/ /\ inflight_reqs' = inflight_reqs \cup {kreq}
          /\ inflight' = inflight + 1
          /\ kpc' = "post"
       \/ /\ UNCHANGED <<inflight_reqs, inflight>>
          /\ kpc' = "done"
    /\ UNCHANGED <<modVars, refs, listVars, work, allocated, submitVars, kreq,
                   histVars, answered, broken>>

\* urma_blkdev_post_jetty_wr always fails, so: xa_erase, atomic_dec.
WorkPost ==
    /\ ~broken
    /\ kpc = "post"
    /\ inflight_reqs' = inflight_reqs \ {kreq}
    /\ inflight' = inflight - 1
    /\ kpc' = "done"
    /\ UNCHANGED <<modVars, refs, listVars, next_wr_id, work, allocated, submitVars, kreq,
                   histVars, answered, broken>>

WorkDone ==
    /\ ~broken
    /\ kpc = "done"
    /\ DoneReq(kreq)
    /\ kreq' = NULL
    /\ kpc' = "loop"
    /\ UNCHANGED <<modVars, listVars, inflVars, work, submitVars, accepted, broken>>

WorkReturn ==
    /\ ~broken
    /\ kpc = "ret"
    /\ kpc' = "idle"
    /\ UNCHANGED <<modVars, refs, listVars, inflVars, work, allocated, submitVars, kreq,
                   histVars, answered, broken>>

-----------------------------------------------------------------------------
(* The life of the module.                                                 *)

\* The loader starts urma_blkdev_exit.  A module is unloaded when nothing
\* refers to it: no request, and no caller's module, which the loader pins for
\* as long as it is loaded.  A forced unload asks neither.
ExitBegin ==
    /\ ~broken
    /\ mod = "live"
    /\ forced' \in BOOLEAN
    /\ ~forced' => refs = 0 /\ \A s \in Submitters : spc[s] = "idle"
    /\ mod' = "going"
    /\ xpc' = "stop"
    /\ UNCHANGED <<stopping, io_wq, to_complete, refs, listVars, inflVars, work,
                   allocated, submitVars, workVars, histVars, answered, broken>>

\* WRITE_ONCE(dev->stopping, true), without pending_lock.
ExitStop ==
    /\ ~broken
    /\ xpc = "stop"
    /\ stopping' = TRUE
    /\ xpc' = "flush"
    /\ UNCHANGED <<mod, forced, io_wq, to_complete, refs, listVars, inflVars, work, allocated,
                   submitVars, workVars, histVars, answered, broken>>

WorkIdleAlways == TRUE

WorkIdleInverted == work \/ kpc # "idle"

\* What flush_workqueue and destroy_workqueue wait for.
WorkIdle == ~work /\ kpc = "idle"

\* flush_workqueue, then the pending_lock section of urma_blkdev_fail_queued.
ExitSplice ==
    /\ ~broken
    /\ xpc = "flush"
    /\ WorkIdle
    /\ to_complete' = pending_list
    /\ pending_list' = <<>>
    /\ pending' = 0
    /\ xpc' = "erase"
    /\ UNCHANGED <<mod, forced, stopping, io_wq, refs, inflVars, work, allocated, submitVars,
                   workVars, histVars, answered, broken>>

\* One round of the xa_find loop.
ExitErase ==
    /\ ~broken
    /\ xpc = "erase"
    /\ IF inflight_reqs = {}
         THEN xpc' = "fail" /\ UNCHANGED <<to_complete, inflight_reqs, inflight>>
         ELSE /\ \E r \in inflight_reqs :
                   /\ inflight_reqs' = inflight_reqs \ {r}
                   /\ to_complete' = Append(to_complete, r)
              /\ inflight' = inflight - 1
              /\ UNCHANGED xpc
    /\ UNCHANGED <<mod, forced, stopping, io_wq, refs, listVars, next_wr_id, work, allocated,
                   submitVars, workVars, histVars, answered, broken>>

\* One round of the loop that fails what was queued.
ExitFail ==
    /\ ~broken
    /\ xpc = "fail"
    /\ to_complete # <<>>
    /\ DoneReq(Head(to_complete))
    /\ to_complete' = Tail(to_complete)
    /\ UNCHANGED <<mod, forced, stopping, io_wq, xpc, listVars, inflVars, work, submitVars,
                   workVars, accepted, broken>>

ExitDestroy ==
    /\ ~broken
    /\ xpc = "fail"
    /\ to_complete = <<>>
    /\ WorkIdle
    /\ io_wq' = FALSE
    /\ xpc' = "free"
    /\ UNCHANGED <<mod, forced, stopping, to_complete, refs, listVars, inflVars, work, allocated,
                   submitVars, workVars, histVars, answered, broken>>

\* The rest of urma_blkdev_exit frees the disk, the segment and the device.
ExitFree ==
    /\ ~broken
    /\ xpc = "free"
    /\ mod' = "gone"
    /\ xpc' = "idle"
    /\ UNCHANGED <<forced, stopping, io_wq, to_complete, refs, listVars, inflVars, work,
                   allocated, submitVars, workVars, histVars, answered, broken>>

\* urma_blkdev_init: urma_blkdev_init_io_queue on a zeroed device.
ModInit ==
    /\ ~broken
    /\ mod = "gone"
    /\ \A s \in Submitters : spc[s] = "idle"
    /\ mod' = "live" /\ forced' = FALSE
    /\ stopping' = FALSE /\ io_wq' = TRUE
    /\ pending_list' = <<>> /\ pending' = 0
    /\ inflight_reqs' = {} /\ inflight' = 0 /\ next_wr_id' = 0
    /\ stamp' = [r \in Reqs |-> 0] /\ accepted' = 0 /\ answered' = 0
    /\ UNCHANGED <<xpc, to_complete, refs, work, allocated, submitVars, workVars, broken>>

\* A thread goes on with a device that was freed or a workqueue that was
\* destroyed.
UsesFreed ==
    \/ \E s \in Submitters : \/ spc[s] # "idle" /\ mod = "gone"
                             \/ spc[s] = "kick" /\ ~io_wq
    \/ (work \/ kpc # "idle") /\ ~io_wq

Fault ==
    /\ ~broken
    /\ UsesFreed
    /\ broken' = TRUE
    /\ UNCHANGED <<modVars, refs, listVars, inflVars, work, allocated, submitVars, workVars,
                   histVars, answered>>

-----------------------------------------------------------------------------
(* The specification.                                                      *)

Init ==
    /\ mod = "live" /\ forced = FALSE /\ refs = 0 /\ stopping = FALSE /\ io_wq = TRUE
    /\ pending_list = <<>> /\ pending = 0
    /\ inflight_reqs = {} /\ inflight = 0 /\ next_wr_id = 0
    /\ work = FALSE /\ allocated = {}
    /\ spc = [s \in Submitters |-> "idle"]
    /\ sreq = [s \in Submitters |-> NULL]
    /\ seen = [s \in Submitters |-> 0]
    /\ kpc = "idle" /\ kreq = NULL
    /\ xpc = "idle" /\ to_complete = <<>>
    /\ stamp = [r \in Reqs |-> 0] /\ accepted = 0 /\ answered = 0
    /\ broken = FALSE

\* A caller inside urma_blkdev_submit_nvmet_io goes on.
SubmitContinues(s) ==
    \/ SubmitAlloc(s)
    \/ SubmitGiveUp(s)
    \/ SubmitReject(s)
    \/ SubmitAccept(s)
    \/ SubmitKick(s)

WorkStep == WorkStart \/ WorkLoop \/ WorkPop \/ WorkTrack \/ WorkPost \/ WorkDone \/ WorkReturn

ExitContinues ==
    \/ ExitStop
    \/ ExitSplice
    \/ ExitErase
    \/ ExitFail
    \/ ExitDestroy
    \/ ExitFree

Next ==
    \/ \E s \in Submitters : SubmitBegin(s) \/ SubmitContinues(s)
    \/ WorkStep
    \/ ExitBegin
    \/ ExitContinues
    \/ ModInit
    \/ Fault

Spec == Init /\ [][Next]_vars

\* The kernel runs a caller inside a call, a queued work item and a module
\* exit that has begun.  Nobody is obliged to call or to unload.
Fairness ==
    /\ \A s \in Submitters : WF_vars(SubmitContinues(s))
    /\ WF_vars(WorkStep)
    /\ WF_vars(ExitContinues)

FairSpec == Spec /\ Fairness

-----------------------------------------------------------------------------
(* Properties.                                                             *)

\* Every variable has the type the C declarations give it.
TypeOK ==
    /\ mod \in {"live", "going", "gone"}
    /\ forced \in BOOLEAN /\ refs \in Nat
    /\ stopping \in BOOLEAN /\ io_wq \in BOOLEAN /\ work \in BOOLEAN /\ broken \in BOOLEAN
    /\ pending_list \in Seq(Reqs) /\ inflight_reqs \subseteq Reqs /\ to_complete \in Seq(Reqs)
    /\ pending \in Nat /\ inflight \in Nat /\ next_wr_id \in Nat
    /\ allocated \subseteq Reqs
    /\ spc \in [Submitters -> {"idle", "check", "lock", "kick"}]
    /\ sreq \in [Submitters -> Reqs \cup {NULL}]
    /\ seen \in [Submitters -> Nat]
    /\ kpc \in {"idle", "loop", "pop", "track", "post", "done", "ret"}
    /\ kreq \in Reqs \cup {NULL}
    /\ xpc \in {"idle", "stop", "flush", "erase", "fail", "free"}
    /\ stamp \in [Reqs -> Nat] /\ accepted \in Nat /\ answered \in Nat

\* 1 while the work function has a request off the list and not done.
InHand == IF kreq = NULL THEN 0 ELSE 1

\* Every accepted request is answered exactly once and in the order of
\* acceptance: the accepted and unanswered ones are, oldest first, the one in
\* the hands of urma_blkdev_submit_workfn, those urma_blkdev_fail_queued is
\* failing and those on pending_list, and none of them has been freed.
AnsweredOnceInOrder ==
    /\ accepted = answered + InHand + Len(to_complete) + Len(pending_list)
    /\ kreq # NULL => stamp[kreq] = answered + 1 /\ kreq \in allocated
    /\ \A i \in 1..Len(to_complete) :
         stamp[to_complete[i]] = answered + InHand + i /\ to_complete[i] \in allocated
    /\ \A i \in 1..Len(pending_list) :
         /\ stamp[pending_list[i]] = answered + InHand + Len(to_complete) + i
         /\ pending_list[i] \in allocated

\* The counters sysfs shows follow the list and the xarray, and admission under
\* pending_lock bounds what is outstanding, although the work function moves
\* a request from one counter to the other in two steps: at most one request
\* more than queue_depth is accepted and unanswered.
OutstandingBounded ==
    /\ pending = Len(pending_list) /\ inflight = Cardinality(inflight_reqs)
    /\ pending + InHand + Len(to_complete) <= QueueDepth + 1

\* A queued request pins the module, so an ordinary unload finds the queue
\* empty and the work function without a request.
UnloadFindsQueueIdle ==
    mod # "live" /\ ~forced =>
        pending_list = <<>> /\ kreq = NULL /\ to_complete = <<>> /\ allocated = {}

\* No thread uses the device or the workqueue after urma_blkdev_exit freed them,
\* unless the unload was forced.
NothingFreedIsUsed == ~forced => ~UsesFreed

\* Every request accepted gets its done() callback, whatever interleaving of
\* list_add_tail, queue_work and the end of the work function's loop, and also
\* when a forced unload overtakes it (unless that ends in a fault).
AcceptedIsAnswered ==
    \A n \in 1..MaxAccepted :
        (accepted >= n) ~> (answered >= n \/ accepted < n \/ broken)

\* A module exit that has begun ends: flush_workqueue and destroy_workqueue do
\* not wait for ever, and the callbacks of a forced unload come to an end.
ExitEnds == mod = "going" ~> mod = "gone" \/ broken

=============================================================================
