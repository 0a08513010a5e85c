----------------------------- MODULE MCCtrlRpc ------------------------------
(* Instances of CtrlRpc for TLC.                                           *)
EXTENDS CtrlRpc

CONSTANTS e1, c1

Req(op, arg) == [op |-> op, arg |-> arg]

\* ramdiskctl interferes with the example's peer; the last two are direct
\* calls of ramdisk_ctrl_transact.
MCCtlRequests ==
    { Req("disconnect", Arg(e1, <<e1, 0>>)), Req("connect", Arg(e1, <<c1, 1>>)),
      Req("query", NULL), Req("huge", Arg(e1, <<e1, 0>>)) }
=============================================================================
