---------------------------- MODULE CtrlService -----------------------------
(***************************************************************************)
(* What a program that calls the control client may rely on: its request   *)
(* is carried out at most once and as it was asked; the status it is told  *)
(* is the status of that one execution; and a call that has returned, with *)
(* whatever error, is not carried out afterwards.  A process that is gone  *)
(* while it asks promises nothing about the arguments of its request.      *)
(***************************************************************************)
EXTENDS CtrlTable

CONSTANTS
    Slots,          \* calls that may be under way together
    Requests,       \* records with op and arg
    Args            \* what the daemon may take for an argument

VARIABLES
    table,
    call            \* of each slot: NULL, or the request, what it ran to, what was told

vars == <<table, call>>

Ask(k) ==
    /\ call[k] = NULL
    /\ \E r \in Requests :
         call' = [call EXCEPT ![k] = [req |-> r, ran |-> NULL, told |-> "waiting"]]
    /\ UNCHANGED table

Run(k) ==
    /\ call[k] # NULL /\ call[k].ran = NULL
    /\ call[k].told \in {"waiting", "gone"}
    /\ \E a \in IF call[k].told = "gone" THEN Args
                ELSE {call[k].req.arg} :
       \E o \in Outcomes(call[k].req.op, a, table) :
         /\ table' = o.table
         /\ call' = [call EXCEPT ![k].ran = o.rc]

Tell(k) ==
    /\ call[k] # NULL /\ call[k].told = "waiting"
    /\ call[k].ran \notin {NULL, "lost"}
    /\ call' = [call EXCEPT ![k].told = call[k].ran]
    /\ UNCHANGED table

\* The call returns an error of its own; what it asked for has been carried
\* out by then, or never will be.
Fail(k) ==
    /\ call[k] # NULL /\ call[k].told = "waiting"
    /\ call[k].ran # NULL
    /\ call' = [call EXCEPT ![k].told = "failed"]
    /\ UNCHANGED table

\* The process of the call ends.
Vanish(k) ==
    /\ call[k] # NULL /\ call[k].told = "waiting"
    /\ call' \in {[call EXCEPT ![k].told = "gone"], [call EXCEPT ![k] = NULL]}
    /\ UNCHANGED table

Forget(k) ==
    /\ call[k] # NULL /\ call[k].told # "waiting"
    /\ call' = [call EXCEPT ![k] = NULL]
    /\ UNCHANGED table

\* The daemon ends: its table is lost, and so is what it had not carried out.
Die ==
    /\ table' = EmptyTable
    /\ \E ended \in SUBSET {k \in Slots : call[k] # NULL /\ call[k].told # "waiting"} :
         call' = [k \in Slots |->
                    IF k \in ended THEN NULL
                    ELSE IF call[k] # NULL /\ call[k].ran = NULL
                      THEN [call[k] EXCEPT !.ran = "lost"]
                    ELSE call[k]]

Init == table = EmptyTable /\ call = [k \in Slots |-> NULL]

Next ==
    \/ \E k \in Slots : Ask(k) \/ Run(k) \/ Tell(k) \/ Fail(k) \/ Vanish(k) \/ Forget(k)
    \/ Die

Spec == Init /\ [][Next]_vars
=============================================================================
