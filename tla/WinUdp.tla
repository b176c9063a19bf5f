------------------------------- MODULE WinUdp -------------------------------
(***************************************************************************)
(* A UDP handle on Windows (src/win/udp.c, and the checks of uv-common.c   *)
(* in front of it).  One receive of zero bytes waits in the kernel for a   *)
(* datagram; when it completes, datagrams are received without waiting,    *)
(* each with alloc_cb and recv_cb, where user code may stop, restart or    *)
(* close the handle.  Sends are overlapped calls of their own.             *)
(*                                                                         *)
(* An address is its family, the bytes and the socket options are left     *)
(* out.                                                                    *)
(***************************************************************************)
EXTENDS Integers, Sequences, FiniteSets

CONSTANTS
  Sends,    \* send requests
  Count,    \* 32 in the code: nonblocking receives of one request, less one
  MaxUse    \* bound: calls of user code

Families == {"inet", "inet6"}
SendReqs == {<<"send", s>> : s \in Sends}
Recv == <<"recv">>

VARIABLES
  udp,   \* the handle and its requests
  pc,    \* the callback under way, <<"idle">> outside
  uses

vars == <<udp, pc, uses>>

(***************************************************************************)
(* flags     the UV_HANDLE_ flags by their names                           *)
(* socket    the family of handle->socket, or "none"                       *)
(* reqs, act, queue    reqs_pending, activecnt, send_queue_count           *)
(* kernel, ok, failed    requests that the kernel has, that completed      *)
(* refused   history: a receive failed at once                             *)
(***************************************************************************)
Init ==
  /\ \E family \in Families \cup {"none"} :
       udp = [flags |-> IF family = "inet6" THEN {"IPV6"} ELSE {}, socket |-> family,
              reqs |-> 0, act |-> 0, queue |-> 0, kernel |-> {}, ok |-> {}, failed |-> {},
              refused |-> FALSE]
  /\ pc = <<"idle">> /\ uses = 0

Has(u, f) == f \in u.flags
Set(u, fs) == [u EXCEPT !.flags = @ \cup fs]
Clear(u, fs) == [u EXCEPT !.flags = @ \ fs]

Increase(u) == [u EXCEPT !.act = @ + 1, !.flags = @ \cup {"ACTIVE"}]
Decrease(u) ==
  [u EXCEPT !.act = @ - 1,
            !.flags = IF u.act = 1 /\ ~Has(u, "CLOSING") THEN @ \ {"ACTIVE"} ELSE @]

DecreasePending(u) ==
  [u EXCEPT !.reqs = @ - 1,
            !.flags = IF u.reqs = 1 /\ Has(u, "CLOSING") THEN @ \cup {"ENDGAME"} ELSE @]

\* uv__udp_set_socket.
SetSocket(u, family) ==
  [Set(u, IF family = "inet6" THEN {"IPV6"} ELSE {}) EXCEPT !.socket = family]

\* uv__udp_maybe_bind: the handles that may result, with the error or not.
\* The flag is set before bind(), which fails for another family.
MaybeBind(u, family) ==
  IF Has(u, "BOUND") THEN {<<TRUE, u>>}
  ELSE LET w == IF u.socket = "none" THEN SetSocket(u, family)
                ELSE Set(u, IF family = "inet6" THEN {"IPV6"} ELSE {})
       IN {<<FALSE, u>>, <<FALSE, w>>}
          \cup (IF w.socket = family THEN {<<TRUE, Set(w, {"BOUND"})>>} ELSE {})

-----------------------------------------------------------------------------
(* Receiving.                                                              *)

\* Mutant: READ_PENDING is set only when the kernel keeps the request.
QueueRecvLate(u) ==
  LET v == [u EXCEPT !.reqs = @ + 1] IN
  {[v EXCEPT !.ok = @ \cup {Recv}],
   [Set(v, {"READ_PENDING"}) EXCEPT !.kernel = @ \cup {Recv}],
   [v EXCEPT !.failed = @ \cup {Recv}, !.refused = TRUE]}

\* uv__udp_queue_recv.  A request that failed at once is not marked as
\* pending; using it again before it is processed is not modelled.
QueueRecv(u) ==
  LET v == [u EXCEPT !.reqs = @ + 1] IN
  IF Recv \in u.failed THEN {}
  ELSE {[Set(v, {"READ_PENDING"}) EXCEPT !.ok = @ \cup {Recv}],
        [Set(v, {"READ_PENDING"}) EXCEPT !.kernel = @ \cup {Recv}],
        [v EXCEPT !.failed = @ \cup {Recv}, !.refused = TRUE]}

\* A request is queued unless one is, or the user stopped reading.
Repost(u) ==
  IF Has(u, "READING") /\ ~Has(u, "READ_PENDING") THEN QueueRecv(u) ELSE {u}

\* Mutant: stopping is not idempotent.
StopRecvAgain(u) == Decrease(Clear(u, {"READING"}))

\* uv__udp_recv_stop.
StopRecv(u) == IF Has(u, "READING") THEN Decrease(Clear(u, {"READING"})) ELSE u

-----------------------------------------------------------------------------
(* User code, outside uv_run or in a callback.                             *)

Open == uses < MaxUse /\ uses' = uses + 1 /\ UNCHANGED pc /\ ~Has(udp, "CLOSING")

Bind == Open /\ \E family \in Families : \E r \in MaybeBind(udp, family) : udp' = r[2]

\* uv_udp_open, of a socket that is bound, or bound and connected.
UdpOpen ==
  /\ Open /\ udp.socket = "none"
  /\ \E family \in Families, fs \in {{}, {"BOUND"}, {"BOUND", "CONNECTED"}} :
       udp' = Set(SetSocket(udp, family), fs)

\* uv_udp_connect: binds first; connect() fails for another family.
UdpConnect ==
  /\ Open /\ ~Has(udp, "CONNECTED")
  /\ \E family \in Families : \E r \in MaybeBind(udp, family) :
       udp' = IF r[1] /\ r[2].socket = family THEN Set(r[2], {"CONNECTED"}) ELSE r[2]

\* uv_udp_connect without an address.
Disconnect ==
  /\ Open /\ Has(udp, "CONNECTED")
  /\ udp' = Clear(udp, {"CONNECTED"})

\* uv__udp_set_membership4 and 6, with a source or without, bind the socket.
Join4(u) == IF Has(u, "IPV6") THEN {u} ELSE {r[2] : r \in MaybeBind(u, "inet")}
Join6(u) ==
  IF Has(u, "BOUND") /\ ~Has(u, "IPV6") THEN {u} ELSE {r[2] : r \in MaybeBind(u, "inet6")}

SetMembership == Open /\ udp' \in Join4(udp) \cup Join6(udp)

RecvStart ==
  /\ Open /\ ~Has(udp, "READING")
  /\ \E r \in MaybeBind(udp, "inet") :
       udp' \in IF r[1] THEN Repost(Increase(Set(r[2], {"READING"}))) ELSE {r[2]}

RecvStop == Open /\ udp' = StopRecv(udp)

\* uv__udp_check_before_send: an address unless the handle is connected.
CheckBeforeSend(family) == (family = "none") = Has(udp, "CONNECTED")

\* Binding in front of a send.
SendBinds(family) ==
  IF family = "none" THEN (IF Has(udp, "BOUND") THEN {<<TRUE, udp>>} ELSE {})
  ELSE MaybeBind(udp, family)

\* uv__send: an error is returned, everything else comes through the loop.
Send(s) ==
  /\ Open /\ s \notin udp.kernel \cup udp.ok \cup udp.failed
  /\ \E family \in Families \cup {"none"} :
       /\ CheckBeforeSend(family)
       /\ \E r \in SendBinds(family) :
            \/ udp' = r[2]
            \/ /\ r[1]
               /\ LET u == [Increase(r[2]) EXCEPT !.reqs = @ + 1, !.queue = @ + 1] IN
                  udp' \in {[u EXCEPT !.ok = @ \cup {s}], [u EXCEPT !.kernel = @ \cup {s}]}

\* uv__udp_try_send: not while sends are queued.
TrySend ==
  /\ Open /\ udp.queue = 0
  /\ \E family \in Families \cup {"none"} :
       CheckBeforeSend(family) /\ \E r \in SendBinds(family) : udp' = r[2]

\* Mutant: the handle is freed without waiting for its requests.
CloseEndsNow(u) == Set(u, {"ENDGAME"})

\* uv__want_endgame, when the kernel has no request.
CloseEnds(u) == IF u.reqs = 0 THEN Set(u, {"ENDGAME"}) ELSE u

\* uv__udp_close: closing the socket makes the kernel's requests fail.
Close ==
  /\ Open
  /\ udp' = CloseEnds([Set(Clear(StopRecv(udp), {"ACTIVE"}), {"CLOSING"})
                       EXCEPT !.socket = "none", !.failed = @ \cup udp.kernel, !.kernel = {}])

-----------------------------------------------------------------------------
(* The kernel, and uv__process_reqs.                                       *)

Complete(r) ==
  /\ r \in udp.kernel
  /\ udp' \in {[udp EXCEPT !.kernel = @ \ {r}, !.ok = @ \cup {r}],
               [udp EXCEPT !.kernel = @ \ {r}, !.failed = @ \cup {r}]}
  /\ UNCHANGED <<pc, uses>>

Taken(r) == [udp EXCEPT !.ok = @ \ {r}, !.failed = @ \ {r}]

\* The label done of uv__process_udp_recv_req.
Done(u) == {DecreasePending(v) : v \in Repost(u)}

\* uv__process_udp_recv_req: an error is real, and stops reading, or only
\* says that a datagram was cut or a send failed.
ProcessRecv ==
  /\ pc = <<"idle">> /\ Recv \in udp.ok \cup udp.failed
  /\ LET u == Clear(Taken(Recv), {"READ_PENDING"}) IN
     \/ /\ Has(u, "READING")
        /\ udp' = u /\ pc' = <<"alloc", Count>>
     \/ /\ Recv \in udp.failed /\ Has(u, "READING")
        /\ udp' = StopRecv(u) /\ pc' = <<"last">>
     \/ /\ ~Has(u, "READING")
        /\ udp' \in Done(u) /\ UNCHANGED pc
  /\ UNCHANGED uses

\* alloc_cb returns: no buffer, a datagram, none left, or an error.  All are
\* told to recv_cb; only a datagram is followed by another receive.
Receive ==
  /\ pc[1] = "alloc"
  /\ \/ udp' = udp /\ pc' = <<"last">>
     \/ udp.socket # "none" /\ udp' = udp /\ pc' = <<"recv", pc[2]>>
     \/ udp' = StopRecv(udp) /\ pc' = <<"last">>
  /\ UNCHANGED uses

\* recv_cb returns after a datagram: another one, unless user code paused,
\* closed or restarted the handle or the loop must have its turn.
ReceiveMore ==
  /\ pc[1] = "recv"
  /\ IF pc[2] > 0 /\ Has(udp, "READING") /\ ~Has(udp, "READ_PENDING")
     THEN udp' = udp /\ pc' = <<"alloc", pc[2] - 1>>
     ELSE udp' \in Done(udp) /\ pc' = <<"idle">>
  /\ UNCHANGED uses

\* The last recv_cb returns.
ReceiveLast ==
  /\ pc = <<"last">> /\ pc' = <<"idle">>
  /\ udp' \in Done(udp)
  /\ UNCHANGED uses

\* uv__process_udp_send_req, up to the callback and after it.
ProcessSend(s) ==
  /\ pc = <<"idle">> /\ s \in udp.ok \cup udp.failed
  /\ udp' = [Decrease(Taken(s)) EXCEPT !.queue = @ - 1]
  /\ pc' = <<"send_cb">> /\ UNCHANGED uses

SendReturn ==
  /\ pc = <<"send_cb">> /\ pc' = <<"idle">>
  /\ udp' = DecreasePending(udp)
  /\ UNCHANGED uses

\* uv__udp_endgame.
Endgame ==
  /\ pc = <<"idle">> /\ Has(udp, "ENDGAME") /\ ~Has(udp, "CLOSED") /\ udp.reqs = 0
  /\ udp' = Set(udp, {"CLOSED"})
  /\ UNCHANGED <<pc, uses>>

Next ==
  \/ Bind \/ UdpOpen \/ UdpConnect \/ Disconnect \/ SetMembership \/ RecvStart \/ RecvStop
  \/ TrySend \/ Close \/ ProcessRecv \/ Receive \/ ReceiveMore \/ ReceiveLast \/ SendReturn
  \/ Endgame
  \/ \E s \in SendReqs : Send(s) \/ ProcessSend(s)
  \/ \E r \in SendReqs \cup {Recv} : Complete(r)

Spec == Init /\ [][Next]_vars

-----------------------------------------------------------------------------
(* What udp.c promises.                                                    *)

\* Requests that are not back, the one being processed included.
Pending == Cardinality(udp.kernel \cup udp.ok \cup udp.failed) + (IF pc = <<"idle">> THEN 0 ELSE 1)

\* reqs_pending counts exactly the requests under way, and the handle is not
\* given back to the user while there is one.
UdpPendingExact ==
  /\ udp.reqs = Pending
  /\ Has(udp, "ENDGAME") => Pending = 0
  /\ pc = <<"idle">> /\ Has(udp, "CLOSING") /\ Pending = 0 => Has(udp, "ENDGAME")

\* Between callbacks a handle that reads has its one receive under way, and
\* READ_PENDING says whether there is one, unless a receive was refused.
UdpReadsOnce ==
  ~udp.refused =>
    /\ Has(udp, "READ_PENDING") <=> Recv \in udp.kernel \cup udp.ok \cup udp.failed
    /\ pc = <<"idle">> /\ Has(udp, "READING") => Has(udp, "READ_PENDING")

\* The handle keeps the loop alive exactly while it reads or sends, and
\* send_queue_count, on which uv_udp_try_send decides, is exact.
UdpActiveExact ==
  LET sends == Cardinality(SendReqs \cap (udp.kernel \cup udp.ok \cup udp.failed)) IN
  /\ udp.act = sends + (IF Has(udp, "READING") THEN 1 ELSE 0)
  /\ udp.queue = sends
  /\ ~Has(udp, "CLOSING") => (Has(udp, "ACTIVE") <=> udp.act > 0)
=============================================================================
