------------------------- MODULE UrmaBlkQueueProofs -------------------------
(***************************************************************************)
(* The direct-IO queue for every depth and any number of callers and       *)
(* requests: accepted requests are answered once and in order, no more     *)
(* than one beyond queue_depth is outstanding, an ordinary unload finds    *)
(* the queue idle, and nothing uses what the exit has freed.               *)
(***************************************************************************)
EXTENDS UrmaBlkQueue, FiniteSetTheorems, TLAPS

\* urma_blkdev_cleanup_io_queue has taken what was queued.
Emptied == xpc \in {"erase", "fail", "free"} \/ mod = "gone"

\* Where the work function and the exit are determines who has a request and
\* what the flags and counters say.
Places ==
    /\ kreq # NULL <=> kpc \in {"track", "post", "done"}
    /\ inflight_reqs = IF kpc = "post" THEN {kreq} ELSE {}
    /\ inflight = IF kpc = "post" THEN 1 ELSE 0
    /\ pending = Len(pending_list)
    /\ mod = "going" <=> xpc # "idle"
    /\ stopping <=> xpc = "flush" \/ Emptied
    /\ io_wq <=> ~(xpc = "free" \/ mod = "gone")
    /\ Emptied => pending_list = <<>> /\ kpc \in {"idle", "loop", "ret"}
    /\ to_complete # <<>> => xpc \in {"erase", "fail"}
    /\ ~io_wq => ~work /\ kpc = "idle"

\* A request has no number before it is accepted, and no two callers have the
\* same one.
Unnumbered ==
    /\ \A s \in Submitters : spc[s] = "lock" => sreq[s] \in allocated /\ stamp[sreq[s]] = 0
    /\ \A s, t \in Submitters :
         spc[s] = "lock" /\ spc[t] = "lock" /\ s # t => sreq[s] # sreq[t]
    /\ \A r \in Reqs \ allocated : stamp[r] = 0

\* Every request holds one reference on the module.
Pinned ==
    /\ IsFiniteSet(allocated) /\ refs = Cardinality(allocated)
    /\ mod # "live" /\ ~forced => allocated = {} /\ \A s \in Submitters : spc[s] = "idle"

\* At most one request beyond the depth.
Bounded == pending + InHand + Len(to_complete) <= QueueDepth + 1

Inv == TypeOK /\ Places /\ Unnumbered /\ AnsweredOnceInOrder /\ Pinned /\ Bounded

\* Removing an element of a finite set makes it smaller by one.
LEMMA RemovesOne ==
    ASSUME NEW S, NEW x \in S, IsFiniteSet(S)
    PROVE  IsFiniteSet(S \ {x}) /\ Cardinality(S \ {x}) = Cardinality(S) - 1
BY FS_RemoveElement

\* Every step keeps Places.
LEMMA PlacesStep ==
    ASSUME TypeOK, Places, [Next]_vars
    PROVE  Places'
<1> USE DEF vars, modVars, listVars, inflVars, submitVars, workVars, histVars
<1>1. ASSUME NEW s \in Submitters, SubmitBegin(s) PROVE Places'
  BY <1>1, QueueConstants DEF SubmitBegin, TypeOK, Places, Emptied
<1>2. ASSUME NEW s \in Submitters, SubmitAlloc(s) PROVE Places'
  BY <1>2, QueueConstants DEF SubmitAlloc, TypeOK, Places, Emptied
<1>3. ASSUME NEW s \in Submitters, SubmitGiveUp(s) PROVE Places'
  BY <1>3, QueueConstants DEF SubmitGiveUp, TypeOK, Places, Emptied
<1>4. ASSUME NEW s \in Submitters, SubmitReject(s) PROVE Places'
  BY <1>4, QueueConstants DEF SubmitReject, TypeOK, Places, Emptied
<1>5. ASSUME NEW s \in Submitters, SubmitAccept(s) PROVE Places'
  BY <1>5, QueueConstants DEF SubmitAccept, TypeOK, Places, Emptied
<1>6. ASSUME NEW s \in Submitters, SubmitKick(s) PROVE Places'
  BY <1>6, QueueConstants DEF SubmitKick, QueueWork, TypeOK, Places, Emptied
<1>7. CASE WorkStart
  BY <1>7, QueueConstants DEF WorkStart, TypeOK, Places, Emptied
<1>8. CASE WorkLoop
  BY <1>8, QueueConstants DEF WorkLoop, TypeOK, Places, Emptied
<1>9. CASE WorkPop
  BY <1>9, QueueConstants DEF WorkPop, PopPending, TypeOK, Places, Emptied
<1>10. CASE WorkTrack
  BY <1>10, QueueConstants DEF WorkTrack, TypeOK, Places, Emptied
<1>11. CASE WorkPost
  BY <1>11, QueueConstants DEF WorkPost, TypeOK, Places, Emptied
<1>12. CASE WorkDone
  BY <1>12, QueueConstants DEF WorkDone, DoneReq, TypeOK, Places, Emptied
<1>13. CASE WorkReturn
  BY <1>13, QueueConstants DEF WorkReturn, TypeOK, Places, Emptied
<1>14. CASE ExitBegin
  BY <1>14, QueueConstants DEF ExitBegin, TypeOK, Places, Emptied
<1>15. CASE ExitStop
  BY <1>15, QueueConstants DEF ExitStop, TypeOK, Places, Emptied
<1>16. CASE ExitSplice
  BY <1>16, QueueConstants DEF ExitSplice, WorkIdle, TypeOK, Places, Emptied
<1>17. CASE ExitErase
  BY <1>17, QueueConstants DEF ExitErase, TypeOK, Places, Emptied
<1>18. CASE ExitFail
  BY <1>18, QueueConstants DEF ExitFail, DoneReq, TypeOK, Places, Emptied
<1>19. CASE ExitDestroy
  BY <1>19, QueueConstants DEF ExitDestroy, WorkIdle, TypeOK, Places, Emptied
<1>20. CASE ExitFree
  BY <1>20, QueueConstants DEF ExitFree, TypeOK, Places, Emptied
<1>21. CASE ModInit
  BY <1>21, QueueConstants DEF ModInit, TypeOK, Places, Emptied
<1>22. CASE Fault
  BY <1>22, QueueConstants DEF Fault, TypeOK, Places, Emptied
<1>23. CASE UNCHANGED vars
  BY <1>23 DEF TypeOK, Places, Emptied
<1> QED
  BY <1>1, <1>2, <1>3, <1>4, <1>5, <1>6, <1>7, <1>8, <1>9, <1>10, <1>11,
     <1>12, <1>13, <1>14, <1>15, <1>16, <1>17, <1>18, <1>19, <1>20, <1>21, <1>22, <1>23
  DEF Next, SubmitContinues, WorkStep, ExitContinues

\* Every step keeps Pinned: allocating takes a reference, freeing puts it.
LEMMA PinnedStep ==
    ASSUME TypeOK, Places, Unnumbered, AnsweredOnceInOrder, Pinned, [Next]_vars
    PROVE  Pinned'
<1> USE DEF vars, modVars, listVars, inflVars, submitVars, workVars, histVars
<1>1. ASSUME NEW s \in Submitters, SubmitBegin(s) PROVE Pinned'
  BY <1>1 DEF SubmitBegin, Callable, Pinned, TypeOK
<1>2. ASSUME NEW s \in Submitters, SubmitAlloc(s) PROVE Pinned'
  <2>1. PICK r \in Reqs \ allocated : allocated' = allocated \cup {r}
    BY <1>2 DEF SubmitAlloc
  <2>2. refs' = refs + 1 /\ mod = "live" /\ UNCHANGED <<mod, forced>>
    BY <1>2 DEF SubmitAlloc
  <2>3. IsFiniteSet(allocated') /\ Cardinality(allocated') = Cardinality(allocated) + 1
    BY <2>1, FS_AddElement DEF Pinned
  <2> QED
    BY <2>2, <2>3 DEF Pinned
<1>3. ASSUME NEW s \in Submitters, SubmitGiveUp(s) PROVE Pinned'
  BY <1>3 DEF SubmitGiveUp, Pinned, TypeOK
<1>4. ASSUME NEW s \in Submitters, SubmitReject(s) PROVE Pinned'
  <2>1. sreq[s] \in allocated
    BY <1>4 DEF SubmitReject, Unnumbered
  <2>2. allocated' = allocated \ {sreq[s]} /\ refs' = refs - 1 /\ UNCHANGED <<mod, forced>>
    BY <1>4 DEF SubmitReject
  <2>3. IsFiniteSet(allocated \ {sreq[s]}) /\ Cardinality(allocated \ {sreq[s]}) = Cardinality(allocated) - 1
    BY <2>1, RemovesOne DEF Pinned
  <2> QED
    BY <2>1, <2>2, <2>3 DEF Pinned
<1>5. ASSUME NEW s \in Submitters, SubmitAccept(s) PROVE Pinned'
  BY <1>5 DEF SubmitAccept, Pinned, TypeOK
<1>6. ASSUME NEW s \in Submitters, SubmitKick(s) PROVE Pinned'
  BY <1>6 DEF SubmitKick, Pinned, TypeOK
<1>7. CASE WorkStart
  BY <1>7 DEF WorkStart, Pinned, TypeOK
<1>8. CASE WorkLoop
  BY <1>8 DEF WorkLoop, Pinned, TypeOK
<1>9. CASE WorkPop
  BY <1>9 DEF WorkPop, Pinned, TypeOK
<1>10. CASE WorkTrack
  BY <1>10 DEF WorkTrack, Pinned, TypeOK
<1>11. CASE WorkPost
  BY <1>11 DEF WorkPost, Pinned, TypeOK
<1>12. CASE WorkDone
  <2>1. kreq \in allocated
    BY <1>12 DEF WorkDone, Places, AnsweredOnceInOrder
  <2>2. allocated' = allocated \ {kreq} /\ refs' = refs - 1 /\ UNCHANGED <<mod, forced>>
    BY <1>12 DEF WorkDone, DoneReq
  <2>3. IsFiniteSet(allocated \ {kreq}) /\ Cardinality(allocated \ {kreq}) = Cardinality(allocated) - 1
    BY <2>1, RemovesOne DEF Pinned
  <2> QED
    BY <2>1, <2>2, <2>3 DEF Pinned
<1>13. CASE WorkReturn
  BY <1>13 DEF WorkReturn, Pinned, TypeOK
<1>14. CASE ExitBegin
  <2>1. refs = 0 => allocated = {}
    BY FS_EmptySet DEF Pinned
  <2> QED
    BY <1>14, <2>1 DEF ExitBegin, Pinned
<1>15. CASE ExitStop
  BY <1>15 DEF ExitStop, Pinned, TypeOK
<1>16. CASE ExitSplice
  BY <1>16 DEF ExitSplice, Pinned, TypeOK
<1>17. CASE ExitErase
  BY <1>17 DEF ExitErase, Pinned, TypeOK
<1>18. CASE ExitFail
  <2>1. Head(to_complete) \in allocated
    BY <1>18 DEF ExitFail, AnsweredOnceInOrder, TypeOK
  <2>2. allocated' = allocated \ {Head(to_complete)} /\ refs' = refs - 1 /\ UNCHANGED <<mod, forced>>
    BY <1>18 DEF ExitFail, DoneReq
  <2>3. IsFiniteSet(allocated \ {Head(to_complete)}) /\ Cardinality(allocated \ {Head(to_complete)}) = Cardinality(allocated) - 1
    BY <2>1, RemovesOne DEF Pinned
  <2> QED
    BY <2>1, <2>2, <2>3 DEF Pinned
<1>19. CASE ExitDestroy
  BY <1>19 DEF ExitDestroy, Pinned, TypeOK
<1>20. CASE ExitFree
  BY <1>20 DEF ExitFree, Places, Pinned, TypeOK
<1>21. CASE ModInit
  BY <1>21 DEF ModInit, Pinned, TypeOK
<1>22. CASE Fault
  BY <1>22 DEF Fault, Pinned, TypeOK
<1>23. CASE UNCHANGED vars
  BY <1>23 DEF Pinned, TypeOK
<1> QED
  BY <1>1, <1>2, <1>3, <1>4, <1>5, <1>6, <1>7, <1>8, <1>9, <1>10, <1>11,
     <1>12, <1>13, <1>14, <1>15, <1>16, <1>17, <1>18, <1>19, <1>20, <1>21, <1>22, <1>23
  DEF Next, SubmitContinues, WorkStep, ExitContinues

\* Every step keeps the types.
LEMMA TypesStep ==
    ASSUME TypeOK, Places, Unnumbered, AnsweredOnceInOrder, Pinned, Pinned', [Next]_vars
    PROVE  TypeOK'
<1> USE DEF vars, modVars, listVars, inflVars, submitVars, workVars, histVars
<1>0. refs' \in Nat
  BY FS_CardinalityType DEF Pinned
<1>1. ASSUME NEW s \in Submitters, SubmitBegin(s) PROVE TypeOK'
  BY <1>1, <1>0, QueueConstants DEF SubmitBegin, TypeOK
<1>2. ASSUME NEW s \in Submitters, SubmitAlloc(s) PROVE TypeOK'
  BY <1>2, <1>0, QueueConstants DEF SubmitAlloc, TypeOK
<1>3. ASSUME NEW s \in Submitters, SubmitGiveUp(s) PROVE TypeOK'
  BY <1>3, <1>0, QueueConstants DEF SubmitGiveUp, TypeOK
<1>4. ASSUME NEW s \in Submitters, SubmitReject(s) PROVE TypeOK'
  BY <1>4, <1>0, QueueConstants DEF SubmitReject, TypeOK
<1>5. ASSUME NEW s \in Submitters, SubmitAccept(s) PROVE TypeOK'
  BY <1>5, <1>0, QueueConstants DEF SubmitAccept, Unnumbered, TypeOK
<1>6. ASSUME NEW s \in Submitters, SubmitKick(s) PROVE TypeOK'
  BY <1>6, <1>0, QueueConstants DEF SubmitKick, QueueWork, TypeOK
<1>7. CASE WorkStart
  BY <1>7, <1>0, QueueConstants, Zenon DEF WorkStart, TypeOK
<1>8. CASE WorkLoop
  BY <1>8, <1>0, QueueConstants DEF WorkLoop, TypeOK
<1>9. CASE WorkPop
  <2>1. CASE pending_list = <<>>
    BY <1>9, <1>0, <2>1 DEF WorkPop, TypeOK
  <2>2. CASE pending_list # <<>>
    <3>1. Head(pending_list) \in Reqs /\ Tail(pending_list) \in Seq(Reqs) /\ pending - 1 \in Nat
      BY <2>2 DEF TypeOK, Places
    <3> QED
      BY <1>9, <1>0, <2>2, <3>1, Zenon DEF WorkPop, PopPending, TypeOK
  <2> QED
    BY <2>1, <2>2
<1>10. CASE WorkTrack
  BY <1>10, <1>0, QueueConstants DEF WorkTrack, Places, TypeOK
<1>11. CASE WorkPost
  BY <1>11, <1>0, QueueConstants DEF WorkPost, Places, TypeOK
<1>12. CASE WorkDone
  BY <1>12, <1>0, QueueConstants DEF WorkDone, DoneReq, Places, TypeOK
<1>13. CASE WorkReturn
  BY <1>13, <1>0, QueueConstants DEF WorkReturn, TypeOK
<1>14. CASE ExitBegin
  BY <1>14, <1>0, QueueConstants DEF ExitBegin, TypeOK
<1>15. CASE ExitStop
  BY <1>15, <1>0, QueueConstants DEF ExitStop, TypeOK
<1>16. CASE ExitSplice
  BY <1>16, <1>0, QueueConstants DEF ExitSplice, TypeOK
<1>17. CASE ExitErase
  <2>1. inflight_reqs = {}
    BY <1>17 DEF ExitErase, Places, Emptied
  <2> QED
    BY <1>17, <1>0, <2>1 DEF ExitErase, TypeOK
<1>18. CASE ExitFail
  BY <1>18, <1>0, QueueConstants DEF ExitFail, DoneReq, TypeOK
<1>19. CASE ExitDestroy
  BY <1>19, <1>0, QueueConstants, Zenon DEF ExitDestroy, TypeOK
<1>20. CASE ExitFree
  BY <1>20, <1>0, QueueConstants DEF ExitFree, TypeOK
<1>21. CASE ModInit
  <2>1. stamp' \in [Reqs -> Nat] /\ pending_list' \in Seq(Reqs)
    BY <1>21 DEF ModInit
  <2> QED
    BY <1>21, <1>0, <2>1, Zenon DEF ModInit, TypeOK
<1>22. CASE Fault
  BY <1>22, <1>0, QueueConstants DEF Fault, TypeOK
<1>23. CASE UNCHANGED vars
  BY <1>23 DEF TypeOK
<1> QED
  BY <1>1, <1>2, <1>3, <1>4, <1>5, <1>6, <1>7, <1>8, <1>9, <1>10, <1>11,
     <1>12, <1>13, <1>14, <1>15, <1>16, <1>17, <1>18, <1>19, <1>20, <1>21, <1>22, <1>23
  DEF Next, SubmitContinues, WorkStep, ExitContinues

\* Every step keeps Unnumbered.
LEMMA UnnumberedStep ==
    ASSUME TypeOK, Places, Unnumbered, AnsweredOnceInOrder, [Next]_vars
    PROVE  Unnumbered'
<1> USE DEF vars, modVars, listVars, inflVars, submitVars, workVars, histVars
<1>1. ASSUME NEW s \in Submitters, SubmitBegin(s) PROVE Unnumbered'
  BY <1>1 DEF SubmitBegin, Unnumbered, TypeOK
<1>2. ASSUME NEW s \in Submitters, SubmitAlloc(s) PROVE Unnumbered'
  <2>1. PICK r \in Reqs \ allocated :
          sreq' = [sreq EXCEPT ![s] = r] /\ allocated' = allocated \cup {r}
    BY <1>2 DEF SubmitAlloc
  <2>2. stamp' = stamp /\ spc' = [spc EXCEPT ![s] = "lock"]
    BY <1>2 DEF SubmitAlloc
  <2> QED
    BY <2>1, <2>2 DEF Unnumbered, TypeOK
<1>3. ASSUME NEW s \in Submitters, SubmitGiveUp(s) PROVE Unnumbered'
  BY <1>3 DEF SubmitGiveUp, Unnumbered, TypeOK
<1>4. ASSUME NEW s \in Submitters, SubmitReject(s) PROVE Unnumbered'
  BY <1>4 DEF SubmitReject, Unnumbered, TypeOK
<1>5. ASSUME NEW s \in Submitters, SubmitAccept(s) PROVE Unnumbered'
  BY <1>5 DEF SubmitAccept, Unnumbered, TypeOK
<1>6. ASSUME NEW s \in Submitters, SubmitKick(s) PROVE Unnumbered'
  BY <1>6 DEF SubmitKick, Unnumbered, TypeOK
<1>7. CASE WorkStart
  BY <1>7 DEF WorkStart, Unnumbered, TypeOK
<1>8. CASE WorkLoop
  BY <1>8 DEF WorkLoop, Unnumbered, TypeOK
<1>9. CASE WorkPop
  BY <1>9 DEF WorkPop, Unnumbered, TypeOK
<1>10. CASE WorkTrack
  BY <1>10 DEF WorkTrack, Unnumbered, TypeOK
<1>11. CASE WorkPost
  BY <1>11 DEF WorkPost, Unnumbered, TypeOK
<1>12. CASE WorkDone
  <2>1. kreq \in Reqs /\ stamp[kreq] = answered + 1
    BY <1>12 DEF WorkDone, Places, AnsweredOnceInOrder, TypeOK
  <2>2. /\ allocated' = allocated \ {kreq} /\ stamp' = [stamp EXCEPT ![kreq] = 0]
        /\ UNCHANGED <<spc, sreq>>
    BY <1>12 DEF WorkDone, DoneReq
  <2>3. stamp[kreq] # 0
    BY <2>1 DEF TypeOK
  <2> QED
    BY <2>1, <2>2, <2>3 DEF Unnumbered, TypeOK
<1>13. CASE WorkReturn
  BY <1>13 DEF WorkReturn, Unnumbered, TypeOK
<1>14. CASE ExitBegin
  BY <1>14 DEF ExitBegin, Unnumbered, TypeOK
<1>15. CASE ExitStop
  BY <1>15 DEF ExitStop, Unnumbered, TypeOK
<1>16. CASE ExitSplice
  BY <1>16 DEF ExitSplice, Unnumbered, TypeOK
<1>17. CASE ExitErase
  BY <1>17 DEF ExitErase, Unnumbered, TypeOK
<1>18. CASE ExitFail
  <2> DEFINE r == Head(to_complete)
  <2>1. r \in Reqs /\ stamp[r] # 0
    <3>1. Len(to_complete) \in Nat \ {0} /\ r = to_complete[1] /\ r \in Reqs
      BY <1>18 DEF ExitFail, TypeOK
    <3>2. stamp[r] = answered + InHand + 1 /\ InHand \in Nat
      BY <3>1 DEF AnsweredOnceInOrder, InHand
    <3> QED
      BY <3>1, <3>2 DEF TypeOK
  <2>2. /\ allocated' = allocated \ {r} /\ stamp' = [stamp EXCEPT ![r] = 0]
        /\ UNCHANGED <<spc, sreq>>
    BY <1>18 DEF ExitFail, DoneReq
  <2> HIDE DEF r
  <2> QED
    BY <2>1, <2>2 DEF Unnumbered, TypeOK
<1>19. CASE ExitDestroy
  BY <1>19 DEF ExitDestroy, Unnumbered, TypeOK
<1>20. CASE ExitFree
  BY <1>20 DEF ExitFree, Unnumbered, TypeOK
<1>21. CASE ModInit
  BY <1>21 DEF ModInit, Unnumbered, TypeOK
<1>22. CASE Fault
  BY <1>22 DEF Fault, Unnumbered, TypeOK
<1>23. CASE UNCHANGED vars
  BY <1>23 DEF Unnumbered, TypeOK
<1> QED
  BY <1>1, <1>2, <1>3, <1>4, <1>5, <1>6, <1>7, <1>8, <1>9, <1>10, <1>11,
     <1>12, <1>13, <1>14, <1>15, <1>16, <1>17, <1>18, <1>19, <1>20, <1>21, <1>22, <1>23
  DEF Next, SubmitContinues, WorkStep, ExitContinues

\* Every step keeps the order of the requests (AnsweredOnceInOrder).
LEMMA OrderStep ==
    ASSUME TypeOK, Places, Unnumbered, AnsweredOnceInOrder, [Next]_vars
    PROVE  AnsweredOnceInOrder'
<1> USE DEF vars, modVars, listVars, inflVars, submitVars, workVars, histVars
<1>a. accepted = answered + InHand + Len(to_complete) + Len(pending_list)
  BY DEF AnsweredOnceInOrder
<1>b. \A i \in 1 .. Len(to_complete) :
        stamp[to_complete[i]] = answered + InHand + i /\ to_complete[i] \in allocated
  BY DEF AnsweredOnceInOrder
<1>1. ASSUME NEW s \in Submitters, SubmitBegin(s) PROVE AnsweredOnceInOrder'
  BY <1>1 DEF SubmitBegin, AnsweredOnceInOrder, InHand
<1>2. ASSUME NEW s \in Submitters, SubmitAlloc(s) PROVE AnsweredOnceInOrder'
  <2>1. /\ allocated \subseteq allocated'
        /\ UNCHANGED <<accepted, answered, kreq, to_complete, pending_list, stamp>>
    BY <1>2 DEF SubmitAlloc
  <2> QED
    BY <2>1 DEF AnsweredOnceInOrder, InHand
<1>3. ASSUME NEW s \in Submitters, SubmitGiveUp(s) PROVE AnsweredOnceInOrder'
  BY <1>3 DEF SubmitGiveUp, AnsweredOnceInOrder, InHand
<1>4. ASSUME NEW s \in Submitters, SubmitReject(s) PROVE AnsweredOnceInOrder'
  <2> DEFINE r == sreq[s]
  <2>1. stamp[r] = 0 /\ allocated' = allocated \ {r}
        /\ UNCHANGED <<accepted, answered, kreq, to_complete, pending_list, stamp>>
    BY <1>4 DEF SubmitReject, Unnumbered
  <2>2. InHand' = InHand /\ InHand \in Nat /\ answered \in Nat
        /\ Len(to_complete) \in Nat /\ Len(pending_list) \in Nat
    BY <2>1 DEF InHand, TypeOK
  <2> HIDE DEF r
  <2>3. kreq # NULL => kreq # r
    BY <2>1, <2>2 DEF AnsweredOnceInOrder
  <2>4. /\ \A i \in 1 .. Len(to_complete) : to_complete[i] # r
        /\ \A i \in 1 .. Len(pending_list) : pending_list[i] # r
    BY <2>1, <2>2 DEF AnsweredOnceInOrder
  <2> QED
    BY <2>1, <2>2, <2>3, <2>4 DEF AnsweredOnceInOrder
<1>5. ASSUME NEW s \in Submitters, SubmitAccept(s) PROVE AnsweredOnceInOrder'
  <2> DEFINE r == sreq[s]
  <2>1. r \in allocated /\ r \in Reqs /\ stamp[r] = 0
    BY <1>5 DEF SubmitAccept, Unnumbered, TypeOK
  <2>2. /\ pending_list' = Append(pending_list, r) /\ accepted' = accepted + 1
        /\ stamp' = [stamp EXCEPT ![r] = accepted + 1]
        /\ UNCHANGED <<answered, kreq, to_complete, allocated>>
    BY <1>5 DEF SubmitAccept
  <2>3. InHand' = InHand /\ InHand \in Nat /\ answered \in Nat /\ accepted \in Nat
        /\ Len(to_complete) \in Nat /\ Len(pending_list) \in Nat
    BY <2>2 DEF InHand, TypeOK
  <2> HIDE DEF r
  <2>4. Len(pending_list') = Len(pending_list) + 1
    BY <2>1, <2>2 DEF TypeOK
  <2>5. accepted' = answered' + InHand' + Len(to_complete') + Len(pending_list')
    BY <2>2, <2>3, <2>4 DEF AnsweredOnceInOrder
  <2>6. kreq' # NULL => stamp'[kreq'] = answered' + 1 /\ kreq' \in allocated'
    <3>1. kreq # NULL => kreq # r /\ kreq \in Reqs
      BY <2>1, <2>3 DEF AnsweredOnceInOrder, TypeOK
    <3> QED
      BY <2>1, <2>2, <3>1 DEF AnsweredOnceInOrder, TypeOK
  <2>7. ASSUME NEW i \in 1 .. Len(to_complete')
        PROVE  /\ stamp'[to_complete'[i]] = answered' + InHand' + i
               /\ to_complete'[i] \in allocated'
    <3>1. stamp[to_complete[i]] = answered + InHand + i /\ to_complete[i] \in allocated
      BY <2>2 DEF AnsweredOnceInOrder
    <3>2. to_complete[i] # r /\ to_complete[i] \in Reqs
      BY <2>1, <2>2, <2>3, <3>1 DEF TypeOK
    <3> QED
      BY <2>1, <2>2, <2>3, <3>1, <3>2 DEF TypeOK
  <2>8. ASSUME NEW i \in 1 .. Len(pending_list')
        PROVE  /\ stamp'[pending_list'[i]] = answered' + InHand' + Len(to_complete') + i
               /\ pending_list'[i] \in allocated'
    <3>1. CASE i = Len(pending_list) + 1
      <4>1. pending_list'[i] = r
        BY <2>1, <2>2, <3>1 DEF TypeOK
      <4>2. stamp'[r] = accepted + 1
        BY <2>1, <2>2 DEF TypeOK
      <4>3. accepted + 1 = answered + InHand + Len(to_complete) + i
        BY <2>3, <3>1 DEF AnsweredOnceInOrder
      <4> QED
        BY <2>1, <2>2, <2>3, <4>1, <4>2, <4>3
    <3>2. CASE i \in 1 .. Len(pending_list)
      <4>1. pending_list'[i] = pending_list[i]
        BY <2>1, <2>2, <3>2 DEF TypeOK
      <4>2. /\ stamp[pending_list[i]] = answered + InHand + Len(to_complete) + i
            /\ pending_list[i] \in allocated
        BY <3>2 DEF AnsweredOnceInOrder
      <4>3. pending_list[i] # r /\ pending_list[i] \in Reqs
        BY <2>1, <2>3, <3>2, <4>2 DEF TypeOK
      <4> QED
        BY <2>1, <2>2, <2>3, <4>1, <4>2, <4>3 DEF TypeOK
    <3> QED
      BY <2>3, <2>4, <3>1, <3>2
  <2> QED
    BY <2>5, <2>6, <2>7, <2>8 DEF AnsweredOnceInOrder
<1>6. ASSUME NEW s \in Submitters, SubmitKick(s) PROVE AnsweredOnceInOrder'
  BY <1>6 DEF SubmitKick, AnsweredOnceInOrder, InHand
<1>7. CASE WorkStart
  BY <1>7 DEF WorkStart, AnsweredOnceInOrder, InHand
<1>8. CASE WorkLoop
  BY <1>8 DEF WorkLoop, AnsweredOnceInOrder, InHand
<1>9. CASE WorkPop
  <2>1. CASE pending_list = <<>>
    BY <1>9, <2>1 DEF WorkPop, AnsweredOnceInOrder, InHand
  <2>2. CASE pending_list # <<>>
    <3>0. kreq = NULL /\ to_complete = <<>> /\ pending_list' = Tail(pending_list)
      BY <1>9, <2>2 DEF WorkPop, PopPending, Places, Emptied
    <3>1. /\ kreq' = pending_list[1]
          /\ UNCHANGED <<answered, accepted, stamp, to_complete, allocated>>
      BY <1>9, <2>2 DEF WorkPop, PopPending, TypeOK
    <3>2. /\ Len(pending_list) \in Nat \ {0} /\ Len(pending_list') = Len(pending_list) - 1
          /\ \A i \in 1 .. Len(pending_list') : pending_list'[i] = pending_list[i + 1]
          /\ Len(to_complete) = 0 /\ answered \in Nat /\ pending_list[1] \in Reqs
      BY <2>2, <3>0 DEF TypeOK
    <3>3. InHand = 0 /\ InHand' = 1
      BY <3>0, <3>1, <3>2, QueueConstants DEF InHand
    <3>4. accepted' = answered' + InHand' + Len(to_complete') + Len(pending_list')
      BY <3>1, <3>2, <3>3 DEF AnsweredOnceInOrder
    <3>5. stamp'[kreq'] = answered' + 1 /\ kreq' \in allocated'
      BY <3>1, <3>2, <3>3 DEF AnsweredOnceInOrder
    <3>6. ASSUME NEW i \in 1 .. Len(pending_list')
          PROVE  /\ stamp'[pending_list'[i]] = answered' + InHand' + Len(to_complete') + i
                 /\ pending_list'[i] \in allocated'
      <4>1. i + 1 \in 1 .. Len(pending_list)
        BY <3>2
      <4>2. /\ stamp[pending_list[i + 1]] = answered + 0 + 0 + (i + 1)
            /\ pending_list[i + 1] \in allocated
        BY <3>2, <3>3, <4>1 DEF AnsweredOnceInOrder
      <4> QED
        BY <3>1, <3>2, <3>3, <4>2
    <3> QED
      BY <3>1, <3>2, <3>4, <3>5, <3>6 DEF AnsweredOnceInOrder
  <2> QED
    BY <2>1, <2>2
<1>10. CASE WorkTrack
  BY <1>10 DEF WorkTrack, AnsweredOnceInOrder, InHand
<1>11. CASE WorkPost
  BY <1>11 DEF WorkPost, AnsweredOnceInOrder, InHand
<1>12. CASE WorkDone
  <2>1. /\ kreq # NULL /\ kreq \in Reqs /\ to_complete' = to_complete /\ kreq' = NULL
        /\ answered' = answered + 1 /\ allocated' = allocated \ {kreq}
        /\ stamp' = [stamp EXCEPT ![kreq] = 0]
        /\ UNCHANGED <<accepted, pending_list>>
    BY <1>12 DEF WorkDone, DoneReq, Places, TypeOK
  <2>2. /\ InHand = 1 /\ InHand' = 0 /\ stamp[kreq] = answered + 1 /\ answered \in Nat
        /\ Len(to_complete) \in Nat /\ Len(pending_list) \in Nat
    BY <2>1 DEF InHand, AnsweredOnceInOrder, TypeOK
  <2>3. ASSUME NEW x \in Reqs, stamp[x] # answered + 1 PROVE stamp'[x] = stamp[x]
    BY <2>1, <2>2, <2>3 DEF TypeOK
  <2>4. ASSUME NEW i \in 1 .. Len(to_complete')
        PROVE  /\ stamp'[to_complete'[i]] = answered' + InHand' + i
               /\ to_complete'[i] \in allocated'
    <3>1. /\ stamp[to_complete[i]] = answered + 1 + i /\ to_complete[i] \in allocated
          /\ to_complete[i] \in Reqs
      BY <2>1, <2>2 DEF AnsweredOnceInOrder, TypeOK
    <3> QED
      BY <2>1, <2>2, <2>3, <3>1
  <2>5. ASSUME NEW i \in 1 .. Len(pending_list')
        PROVE  /\ stamp'[pending_list'[i]] = answered' + InHand' + Len(to_complete') + i
               /\ pending_list'[i] \in allocated'
    <3>1. /\ stamp[pending_list[i]] = answered + 1 + Len(to_complete) + i
          /\ pending_list[i] \in allocated /\ pending_list[i] \in Reqs
      BY <2>1, <2>2 DEF AnsweredOnceInOrder, TypeOK
    <3> QED
      BY <2>1, <2>2, <2>3, <3>1
  <2>6. accepted' = answered' + InHand' + Len(to_complete') + Len(pending_list')
    <3>1. /\ accepted' = accepted /\ answered' = answered + 1
          /\ Len(to_complete') = Len(to_complete) /\ Len(pending_list') = Len(pending_list)
      BY <2>1
    <3> QED
      BY <1>a, <2>2, <3>1
  <2> QED
    BY <2>1, <2>4, <2>5, <2>6 DEF AnsweredOnceInOrder
<1>13. CASE WorkReturn
  BY <1>13 DEF WorkReturn, AnsweredOnceInOrder, InHand
<1>14. CASE ExitBegin
  BY <1>14 DEF ExitBegin, AnsweredOnceInOrder, InHand
<1>15. CASE ExitStop
  BY <1>15 DEF ExitStop, AnsweredOnceInOrder, InHand
<1>16. CASE ExitSplice
  <2>1. /\ to_complete = <<>> /\ to_complete' = pending_list /\ pending_list' = <<>>
        /\ kreq = NULL /\ UNCHANGED <<answered, accepted, stamp, kreq, allocated>>
    BY <1>16 DEF ExitSplice, WorkIdle, Places
  <2>2. /\ InHand = 0 /\ InHand' = 0 /\ Len(to_complete) = 0 /\ Len(pending_list') = 0
        /\ Len(pending_list) \in Nat /\ answered \in Nat
    BY <2>1 DEF InHand, TypeOK
  <2>3. accepted' = answered' + InHand' + Len(to_complete') + Len(pending_list')
    BY <2>1, <2>2 DEF AnsweredOnceInOrder
  <2>4. ASSUME NEW i \in 1 .. Len(to_complete')
        PROVE  /\ stamp'[to_complete'[i]] = answered' + InHand' + i
               /\ to_complete'[i] \in allocated'
    <3>1. /\ stamp[pending_list[i]] = answered + 0 + 0 + i /\ pending_list[i] \in allocated
      BY <2>1, <2>2 DEF AnsweredOnceInOrder
    <3> QED
      BY <2>1, <2>2, <3>1
  <2> QED
    BY <2>1, <2>2, <2>3, <2>4 DEF AnsweredOnceInOrder
<1>17. CASE ExitErase
  <2>1. inflight_reqs = {}
    BY <1>17 DEF ExitErase, Places, Emptied
  <2> QED
    BY <1>17, <2>1 DEF ExitErase, AnsweredOnceInOrder, InHand
<1>18. CASE ExitFail
  <2> DEFINE r == Head(to_complete)
  <2>1. /\ r = to_complete[1] /\ r \in Reqs
        /\ Len(to_complete) \in Nat \ {0} /\ Len(to_complete') = Len(to_complete) - 1
        /\ \A i \in 1 .. Len(to_complete') : to_complete'[i] = to_complete[i + 1]
    BY <1>18 DEF ExitFail, TypeOK
  <2>2. /\ answered' = answered + 1 /\ allocated' = allocated \ {r}
        /\ stamp' = [stamp EXCEPT ![r] = 0] /\ UNCHANGED <<accepted, pending_list, kreq>>
    BY <1>18 DEF ExitFail, DoneReq
  <2>3. /\ kreq = NULL /\ InHand = 0 /\ InHand' = 0
        /\ Len(pending_list) = 0 /\ answered \in Nat
    BY <1>18 DEF ExitFail, Places, Emptied, InHand, TypeOK
  <2> HIDE DEF r
  <2>4. stamp[r] = answered + 1
    <3>1. stamp[to_complete[1]] = answered + InHand + 1
      BY <1>b, <2>1
    <3> QED
      BY <2>1, <2>3, <3>1
  <2>5. ASSUME NEW i \in 1 .. Len(to_complete')
        PROVE  /\ stamp'[to_complete'[i]] = answered' + InHand' + i
               /\ to_complete'[i] \in allocated'
    <3>1. i + 1 \in 1 .. Len(to_complete) /\ i \in Nat \ {0}
      BY <2>1
    <3>2. /\ stamp[to_complete[i + 1]] = answered + (i + 1) /\ to_complete[i + 1] \in allocated
          /\ to_complete[i + 1] \in Reqs
      BY <2>3, <3>1 DEF AnsweredOnceInOrder, TypeOK
    <3>3. to_complete[i + 1] # r
      BY <2>3, <2>4, <3>1, <3>2
    <3> QED
      BY <2>1, <2>2, <2>3, <3>1, <3>2, <3>3 DEF TypeOK
  <2>6. accepted' = answered' + InHand' + Len(to_complete') + Len(pending_list')
    BY <2>1, <2>2, <2>3 DEF AnsweredOnceInOrder
  <2> QED
    BY <2>2, <2>3, <2>5, <2>6 DEF AnsweredOnceInOrder
<1>19. CASE ExitDestroy
  BY <1>19 DEF ExitDestroy, AnsweredOnceInOrder, InHand
<1>20. CASE ExitFree
  BY <1>20 DEF ExitFree, AnsweredOnceInOrder, InHand
<1>21. CASE ModInit
  <2>1. /\ kreq' = NULL /\ to_complete' = <<>> /\ pending_list' = <<>>
        /\ accepted' = 0 /\ answered' = 0
    BY <1>21 DEF ModInit, Places, Emptied
  <2>2. InHand' = 0 /\ Len(to_complete') = 0 /\ Len(pending_list') = 0
    BY <2>1 DEF InHand
  <2>3. accepted' = answered' + InHand' + Len(to_complete') + Len(pending_list')
    BY <2>1, <2>2
  <2>4. 1 .. Len(to_complete') = {} /\ 1 .. Len(pending_list') = {}
    BY <2>2
  <2>5. kreq' = NULL
    BY <2>1
  <2> QED
    BY <2>3, <2>4, <2>5, Zenon DEF AnsweredOnceInOrder
<1>22. CASE Fault
  BY <1>22 DEF Fault, AnsweredOnceInOrder, InHand
<1>23. CASE UNCHANGED vars
  BY <1>23 DEF AnsweredOnceInOrder, InHand
<1> QED
  BY <1>1, <1>2, <1>3, <1>4, <1>5, <1>6, <1>7, <1>8, <1>9, <1>10, <1>11,
     <1>12, <1>13, <1>14, <1>15, <1>16, <1>17, <1>18, <1>19, <1>20, <1>21, <1>22, <1>23
  DEF Next, SubmitContinues, WorkStep, ExitContinues

\* A queue that is not full, with one more and the request in hand.
LEMMA AdmitsOne ==
    ASSUME NEW n \in Nat, NEW i \in Nat, NEW depth \in Nat, NEW h \in 0 .. 1, ~(n + i >= depth)
    PROVE  n + 1 + h + 0 <= depth + 1
OBVIOUS

\* Every step keeps the bound: admission counts what is pending and in flight,
\* and misses at most the request in the hands of the work function.
LEMMA BoundedStep ==
    ASSUME TypeOK, Places, Bounded, [Next]_vars
    PROVE  Bounded'
<1> USE DEF vars, modVars, listVars, inflVars, submitVars, workVars, histVars
<1>1. ASSUME NEW s \in Submitters, SubmitBegin(s) PROVE Bounded'
  BY <1>1 DEF SubmitBegin, Bounded, InHand, QueueDepth
<1>2. ASSUME NEW s \in Submitters, SubmitAlloc(s) PROVE Bounded'
  BY <1>2 DEF SubmitAlloc, Bounded, InHand, QueueDepth
<1>3. ASSUME NEW s \in Submitters, SubmitGiveUp(s) PROVE Bounded'
  BY <1>3 DEF SubmitGiveUp, Bounded, InHand, QueueDepth
<1>4. ASSUME NEW s \in Submitters, SubmitReject(s) PROVE Bounded'
  BY <1>4 DEF SubmitReject, Bounded, InHand, QueueDepth
<1>5. ASSUME NEW s \in Submitters, SubmitAccept(s) PROVE Bounded'
  <2>1. pending' = pending + 1 /\ ~(pending + inflight >= QueueDepth)
    BY <1>5 DEF SubmitAccept, Full
  <2>2. to_complete' = <<>>
    BY <1>5 DEF SubmitAccept, Places, Emptied
  <2>3. Len(to_complete') = 0 /\ InHand' \in 0 .. 1
    BY <2>2 DEF InHand
  <2>4. inflight \in Nat /\ pending \in Nat /\ QueueDepth \in Nat
    BY QueueConstants DEF TypeOK, QueueDepth
  <2>5. pending' + InHand' + Len(to_complete') <= QueueDepth + 1
    BY <2>1, <2>3, <2>4, AdmitsOne
  <2> QED
    BY <2>5 DEF Bounded, QueueDepth
<1>6. ASSUME NEW s \in Submitters, SubmitKick(s) PROVE Bounded'
  BY <1>6 DEF SubmitKick, Bounded, InHand, QueueDepth
<1>7. CASE WorkStart
  BY <1>7 DEF WorkStart, Bounded, InHand, QueueDepth
<1>8. CASE WorkLoop
  BY <1>8 DEF WorkLoop, Bounded, InHand, QueueDepth
<1>9. CASE WorkPop
  <2>1. CASE pending_list = <<>>
    BY <1>9, <2>1 DEF WorkPop, Bounded, InHand, QueueDepth
  <2>2. CASE pending_list # <<>>
    <3>1. kreq = NULL /\ pending' = pending - 1 /\ to_complete' = to_complete
      BY <1>9, <2>2 DEF WorkPop, PopPending, Places
    <3>2. InHand = 0 /\ InHand' \in 0 .. 1 /\ pending \in Nat /\ Len(to_complete) \in Nat
          /\ QueueDepth \in Nat
      BY <3>1, QueueConstants DEF InHand, TypeOK, QueueDepth
    <3> QED
      BY <3>1, <3>2 DEF Bounded, QueueDepth
  <2> QED
    BY <2>1, <2>2
<1>10. CASE WorkTrack
  BY <1>10 DEF WorkTrack, Bounded, InHand, QueueDepth
<1>11. CASE WorkPost
  BY <1>11 DEF WorkPost, Bounded, InHand, QueueDepth
<1>12. CASE WorkDone
  <2>1. kreq # NULL /\ kreq' = NULL /\ UNCHANGED <<pending, to_complete>>
    BY <1>12 DEF WorkDone, Places
  <2>2. InHand = 1 /\ InHand' = 0 /\ pending \in Nat /\ Len(to_complete) \in Nat
        /\ QueueDepth \in Nat
    BY <2>1, QueueConstants DEF InHand, TypeOK, QueueDepth
  <2> QED
    BY <2>1, <2>2 DEF Bounded, QueueDepth
<1>13. CASE WorkReturn
  BY <1>13 DEF WorkReturn, Bounded, InHand, QueueDepth
<1>14. CASE ExitBegin
  BY <1>14 DEF ExitBegin, Bounded, InHand, QueueDepth
<1>15. CASE ExitStop
  BY <1>15 DEF ExitStop, Bounded, InHand, QueueDepth
<1>16. CASE ExitSplice
  <2>1. /\ to_complete = <<>> /\ to_complete' = pending_list /\ pending' = 0
        /\ kreq' = kreq /\ pending = Len(pending_list)
    BY <1>16 DEF ExitSplice, Places
  <2>2. InHand' = InHand /\ InHand \in Nat /\ Len(to_complete) = 0 /\ Len(pending_list) \in Nat
        /\ QueueDepth \in Nat
    BY <2>1, QueueConstants DEF InHand, TypeOK, QueueDepth
  <2> QED
    BY <2>1, <2>2 DEF Bounded, QueueDepth
<1>17. CASE ExitErase
  <2>1. inflight_reqs = {}
    BY <1>17 DEF ExitErase, Places, Emptied
  <2> QED
    BY <1>17, <2>1 DEF ExitErase, Bounded, InHand, QueueDepth
<1>18. CASE ExitFail
  <2>1. /\ Len(to_complete) \in Nat \ {0} /\ Len(to_complete') = Len(to_complete) - 1
        /\ UNCHANGED <<pending, kreq>>
    BY <1>18 DEF ExitFail, TypeOK
  <2>2. InHand' = InHand /\ InHand \in Nat /\ pending \in Nat /\ QueueDepth \in Nat
    BY <2>1, QueueConstants DEF InHand, TypeOK, QueueDepth
  <2> QED
    BY <2>1, <2>2 DEF Bounded, QueueDepth
<1>19. CASE ExitDestroy
  BY <1>19 DEF ExitDestroy, Bounded, InHand, QueueDepth
<1>20. CASE ExitFree
  BY <1>20 DEF ExitFree, Bounded, InHand, QueueDepth
<1>21. CASE ModInit
  <2>1. kreq' = NULL /\ to_complete' = <<>> /\ pending' = 0
    BY <1>21 DEF ModInit, Places, Emptied
  <2>2. InHand' = 0 /\ Len(to_complete') = 0 /\ QueueDepth \in Nat
    BY <2>1, QueueConstants DEF InHand, QueueDepth
  <2> QED
    BY <2>1, <2>2 DEF Bounded, QueueDepth
<1>22. CASE Fault
  BY <1>22 DEF Fault, Bounded, InHand, QueueDepth
<1>23. CASE UNCHANGED vars
  BY <1>23 DEF Bounded, InHand, QueueDepth
<1> QED
  BY <1>1, <1>2, <1>3, <1>4, <1>5, <1>6, <1>7, <1>8, <1>9, <1>10, <1>11,
     <1>12, <1>13, <1>14, <1>15, <1>16, <1>17, <1>18, <1>19, <1>20, <1>21, <1>22, <1>23
  DEF Next, SubmitContinues, WorkStep, ExitContinues

\* Inv is inductive.
LEMMA InvHolds == Spec => []Inv
<1>1. Init => Inv
  <2> SUFFICES ASSUME Init PROVE Inv
    OBVIOUS
  <2>1. TypeOK
    <3>1. /\ spc \in [Submitters -> {"idle", "check", "lock", "kick"}]
          /\ sreq \in [Submitters -> Reqs \cup {NULL}]
          /\ seen \in [Submitters -> Nat] /\ stamp \in [Reqs -> Nat]
      BY DEF Init
    <3>2. pending_list \in Seq(Reqs) /\ to_complete \in Seq(Reqs)
      BY DEF Init
    <3> QED
      BY <3>1, <3>2 DEF Init, TypeOK
  <2>2. Places /\ Unnumbered
    BY DEF Init, Places, Emptied, Unnumbered
  <2>3. InHand = 0 /\ Len(pending_list) = 0 /\ Len(to_complete) = 0
    BY DEF Init, InHand
  <2>4. AnsweredOnceInOrder
    BY <2>3 DEF Init, AnsweredOnceInOrder
  <2>5. Pinned
    BY FS_EmptySet DEF Init, Pinned
  <2>6. Bounded
    BY <2>3, QueueConstants DEF Init, Bounded, QueueDepth
  <2> QED
    BY <2>1, <2>2, <2>4, <2>5, <2>6 DEF Inv
<1>2. Inv /\ [Next]_vars => Inv'
  BY PlacesStep, PinnedStep, TypesStep, UnnumberedStep, OrderStep, BoundedStep DEF Inv
<1> QED
  BY <1>1, <1>2, PTL DEF Spec

\* Every accepted request is answered once and in the order of acceptance, for
\* any number of callers and any depth (AnsweredOnceInOrder).
THEOREM AnswersInOrder == Spec => []AnsweredOnceInOrder
<1>1. Inv => AnsweredOnceInOrder
  BY DEF Inv
<1> QED
  BY <1>1, InvHolds, PTL

\* At most queue_depth + 1 requests are accepted and unanswered, and the
\* counters are exact (OutstandingBounded).
THEOREM OutstandingIsBounded == Spec => []OutstandingBounded
<1>1. Inv => OutstandingBounded
  <2> SUFFICES ASSUME Inv PROVE OutstandingBounded
    OBVIOUS
  <2>1. inflight = Cardinality(inflight_reqs)
    BY FS_EmptySet, FS_Singleton DEF Inv, Places
  <2> QED
    BY <2>1 DEF Inv, Places, Bounded, OutstandingBounded
<1> QED
  BY <1>1, InvHolds, PTL

\* An ordinary unload finds no request anywhere (UnloadFindsQueueIdle).
THEOREM UnloadFindsNothing == Spec => []UnloadFindsQueueIdle
<1>1. Inv => UnloadFindsQueueIdle
  <2> SUFFICES ASSUME Inv, mod # "live", ~forced
               PROVE  pending_list = <<>> /\ kreq = NULL /\ to_complete = <<>> /\ allocated = {}
    BY DEF UnloadFindsQueueIdle
  <2>1. allocated = {}
    BY DEF Inv, Pinned
  <2>2. kreq = NULL
    BY <2>1 DEF Inv, AnsweredOnceInOrder
  <2>3. ASSUME to_complete # <<>> PROVE FALSE
    <3>1. 1 \in 1 .. Len(to_complete)
      BY <2>3 DEF Inv, TypeOK
    <3> QED
      BY <2>1, <3>1 DEF Inv, AnsweredOnceInOrder
  <2>4. ASSUME pending_list # <<>> PROVE FALSE
    <3>1. 1 \in 1 .. Len(pending_list)
      BY <2>4 DEF Inv, TypeOK
    <3> QED
      BY <2>1, <3>1 DEF Inv, AnsweredOnceInOrder
  <2> QED
    BY <2>1, <2>2, <2>3, <2>4
<1> QED
  BY <1>1, InvHolds, PTL

\* Unless the unload was forced, nothing uses the device or the workqueue once
\* urma_blkdev_exit has freed them (NothingFreedIsUsed).
THEOREM NothingFreedIsEverUsed == Spec => []NothingFreedIsUsed
<1>1. Inv => NothingFreedIsUsed
  BY DEF Inv, Places, Pinned, NothingFreedIsUsed, UsesFreed
<1> QED
  BY <1>1, InvHolds, PTL

\* Every variable of the queue and of the module has its type (TypeOK).
THEOREM Types == Spec => []TypeOK
<1>1. Inv => TypeOK
  BY DEF Inv
<1> QED
  BY <1>1, InvHolds, PTL
=============================================================================
