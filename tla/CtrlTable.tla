----------------------------- MODULE CtrlTable ------------------------------
(***************************************************************************)
(* What the operations behind the control socket do to the URMA manager,   *)
(* seen from a client: ramdisk_urma_enable, _disable, _peer_connect,       *)
(* _peer_disconnect and _transfer_sync.  The control thread is their only  *)
(* caller, so each is one step here; UrmaMgr opens them up.                *)
(***************************************************************************)
EXTENDS Naturals, FiniteSets

CONSTANTS
    Ids,        \* peer ids
    NULL

EmptyTable == [enabled |-> FALSE, peers |-> [i \in Ids |-> NULL]]

Ops == {"status", "query", "enable", "disable", "connect", "disconnect", "transfer", "short",
        "huge", "unknown"}

\* Operations whose request carries a payload.  "short" is a known opcode with
\* the wrong payload length, "huge" a length above RAMDISK_CTRL_MAX_PAYLOAD;
\* "query" asks for the status without a buffer for it.
HasPayload(op) == op \in {"connect", "disconnect", "transfer", "short", "huge"}
HasData(op) == op \in {"status", "query"}

\* The status and the table an operation may end with; EIO stands for what the
\* URMA device refuses.  A NULL argument is a payload of zeroes: there is no
\* peer 0.
Outcomes(op, arg, t) ==
    LET End(rc, u) == [rc |-> rc, table |-> u]
        Install(seg) == [t EXCEPT !.peers = [@ EXCEPT ![arg.id] = seg]]
        known == arg # NULL /\ t.peers[arg.id] # NULL
    IN  CASE HasData(op) -> {End("OK", t)}
          [] op = "enable" -> {End("OK", [t EXCEPT !.enabled = TRUE])}
          [] op = "disable" -> {End("OK", [t EXCEPT !.enabled = FALSE])}
          [] op = "connect" ->
               { End("EIO", t),
                 IF arg = NULL THEN End("EINVAL", t)
                 ELSE IF ~t.enabled THEN End("EOPNOTSUPP", t)
                 ELSE IF known THEN End("EEXIST", t)
                 ELSE End("OK", Install(arg.seg)) }
          [] op = "disconnect" ->
               { IF arg = NULL THEN End("EINVAL", t)
                 ELSE IF known THEN End("OK", Install(NULL))
                 ELSE End("ENOENT", t) }
          [] op = "transfer" ->
               IF ~t.enabled THEN {End("EOPNOTSUPP", t)}
               ELSE IF ~known THEN {End("ENODEV", t)}
               ELSE {End("OK", t), End("EIO", t)}
          [] op \in {"short", "huge"} -> {End("EINVAL", t)}
          [] op = "unknown" -> {End("EOPNOTSUPP", t)}
=============================================================================
