------------------------------- MODULE WinTcp -------------------------------
(***************************************************************************)
(* A TCP handle on Windows (src/win/tcp.c, and the stream operations of    *)
(* src/win/stream.c that dispatch to it): a server that keeps several      *)
(* AcceptEx calls in flight, or a connection with one zero-byte read and   *)
(* any number of writes in flight.  The kernel owns a request from the     *)
(* overlapped call until its completion is dequeued; reqs_pending counts   *)
(* them so that the handle is not freed under them.                        *)
(*                                                                         *)
(* Addresses, the bytes and the emulation of completion ports for imported *)
(* sockets are left out.  Completed requests are processed in any order.   *)
(***************************************************************************)
EXTENDS Integers, Sequences, FiniteSets

CONSTANTS
  N,        \* uv_simultaneous_server_accepts
  Writes,   \* write requests
  Reads,    \* 32, the nonblocking reads of one uv__process_tcp_read_req
  MaxUse    \* bound: calls of user code

AcceptReq(k) == <<"accept", k>>
Accepts == {AcceptReq(k) : k \in 1..N}
WriteReqs == {<<"write", w>> : w \in Writes}
Read == <<"read">>
Connect == <<"connect">>
Shutdown == <<"shutdown">>

VARIABLES
  tcp,   \* the handle and its requests
  pc,    \* what uv__process_reqs is doing, <<"idle">> outside
  uses

vars == <<tcp, pc, uses>>

(***************************************************************************)
(* flags     the UV_HANDLE_ flags by their names                           *)
(* socket    handle->socket is valid                                       *)
(* err       delayed_error is set                                          *)
(* reqs, act, writes, processed    reqs_pending, activecnt,                *)
(*           write_reqs_pending and processed_accepts                      *)
(* shut      shutdown_req is set                                           *)
(* kernel, ok, failed    requests that the kernel has, that completed      *)
(* sock      the accept requests whose accept_socket is valid              *)
(* stack     pending_accepts                                               *)
(* sockets   history: sockets opened for accepts and not closed or handed  *)
(* over; listens: calls of uv_listen that got as far as counting           *)
(***************************************************************************)
Init ==
  /\ tcp = [flags |-> {}, socket |-> FALSE, err |-> FALSE, reqs |-> 0, act |-> 0,
            writes |-> 0, processed |-> 0, shut |-> FALSE, kernel |-> {}, ok |-> {},
            failed |-> {}, sock |-> {}, stack |-> <<>>, sockets |-> 0, listens |-> 0]
  /\ pc = <<"idle">> /\ uses = 0

Has(t, f) == f \in t.flags
Set(t, fs) == [t EXCEPT !.flags = @ \cup fs]
Clear(t, fs) == [t EXCEPT !.flags = @ \ fs]

\* INCREASE_ACTIVE_COUNT and DECREASE_ACTIVE_COUNT.
Increase(t) == [t EXCEPT !.act = @ + 1, !.flags = @ \cup {"ACTIVE"}]
Decrease(t) ==
  [t EXCEPT !.act = @ - 1,
            !.flags = IF t.act = 1 /\ ~Has(t, "CLOSING") THEN @ \ {"ACTIVE"} ELSE @]

\* DECREASE_PENDING_REQ_COUNT, n times in a row.
DecreasePending(t, n) ==
  [t EXCEPT !.reqs = @ - n,
            !.flags = IF t.reqs = n /\ Has(t, "CLOSING") THEN @ \cup {"ENDGAME"} ELSE @]

\* An overlapped call: completed at once, under way, or failed and reported
\* through the queue of completed requests.
Overlapped(t, req) ==
  LET u == [t EXCEPT !.reqs = @ + 1] IN
  {[u EXCEPT !.ok = @ \cup {req}], [u EXCEPT !.kernel = @ \cup {req}],
   [u EXCEPT !.failed = @ \cup {req}]}

-----------------------------------------------------------------------------
(* Setting up.                                                             *)

\* uv__tcp_set_socket.
SetSocket(t) == [t EXCEPT !.socket = TRUE]

\* uv__tcp_try_bind: fails, or binds, perhaps with a delayed error.
TryBind(t) ==
  {Set(SetSocket(t), {"BOUND"}), [Set(SetSocket(t), {"BOUND"}) EXCEPT !.err = TRUE]}

\* uv__tcp_queue_accept: the accept socket is kept unless the call failed.
QueueAccept(t, r) ==
  {IF r \in u.failed THEN u
   ELSE [u EXCEPT !.sock = @ \cup {r}, !.sockets = @ + 1] : u \in Overlapped(t, r)}

\* The accept requests that uv__tcp_listen queues, one after the other.
QueueAccepts(t, n) ==
  LET queue[k \in 0..n] == IF k = 0 THEN {t} ELSE UNION {QueueAccept(u, AcceptReq(k)) : u \in queue[k - 1]}
  IN queue[n]

\* uv__tcp_listen on a bound handle; the accept requests are made once.
Listening(t) ==
  LET u == [Increase(Set(t, {"LISTENING"})) EXCEPT !.listens = @ + 1] IN
  IF t.listens > 0 THEN {u} ELSE QueueAccepts(u, IF Has(t, "SINGLE") THEN 1 ELSE N)

\* uv__tcp_try_connect on a bound handle.
Connecting(t) ==
  LET u == Increase(t) IN
  IF t.err THEN {[u EXCEPT !.reqs = @ + 1, !.failed = @ \cup {Connect}]}
  ELSE {v \in Overlapped(u, Connect) : Connect \notin v.failed}

-----------------------------------------------------------------------------
(* User code, outside uv_run or in a callback.                             *)

User ==
  /\ uses < MaxUse /\ uses' = uses + 1
  /\ UNCHANGED pc

Open == User /\ ~Has(tcp, "CLOSING")

Bind ==
  /\ Open /\ ~Has(tcp, "BOUND")
  /\ tcp' \in TryBind(tcp)

\* uv_tcp_open and uv__tcp_xfer_import, of a bound or connected socket.
TcpOpen ==
  /\ Open /\ ~tcp.socket
  /\ tcp' \in {Set(SetSocket(tcp), {"BOUND"}),
               Set(SetSocket(tcp), {"BOUND", "CONNECTION", "READABLE", "WRITABLE"})}

\* listen() fails on a socket that is connected or connecting.
Listen ==
  /\ Open /\ tcp.listens < 2
  /\ ~Has(tcp, "READING") /\ ~tcp.err /\ ~Has(tcp, "CONNECTION")
  /\ Connect \notin tcp.kernel \cup tcp.ok
  /\ \E t \in IF Has(tcp, "BOUND") THEN {tcp} ELSE TryBind(tcp) :
       tcp' \in IF t.err THEN {t} ELSE Listening(t)

\* ConnectEx fails on a socket that is connected, connecting or listening.
DoConnect ==
  /\ Open
  /\ ~Has(tcp, "CONNECTION") /\ tcp.listens = 0
  /\ Connect \notin tcp.kernel \cup tcp.ok \cup tcp.failed
  /\ \E t \in IF Has(tcp, "BOUND") THEN {tcp} ELSE TryBind(tcp) : tcp' \in Connecting(t)

\* Mutant: the accept that was served is not put to use again.
AcceptedAgainNot(t, r) == {t}

\* uv__tcp_accept: the request picks up a new connection, or retires while
\* the server changes to a single accept.
AcceptedAgain(t, r) ==
  IF Has(t, "CLOSING") THEN {t}
  ELSE IF ~Has(t, "CHANGING") THEN QueueAccept(t, r)
  ELSE IF t.processed + 1 >= N
  THEN {Clear(u, {"CHANGING"}) : u \in QueueAccept([t EXCEPT !.processed = 0], AcceptReq(1))}
  ELSE {[t EXCEPT !.processed = @ + 1]}

\* The accepted socket goes to the client handle, or is closed if that fails.
\* On a server that stopped listening after an error, uv__tcp_queue_accept
\* fails an assertion; users do not call it then.
Accept ==
  /\ User /\ ~Has(tcp, "CLOSED")
  /\ tcp.stack # <<>> /\ Head(tcp.stack) \in tcp.sock
  /\ Has(tcp, "LISTENING") \/ Has(tcp, "CLOSING")
  /\ tcp' \in AcceptedAgain([tcp EXCEPT !.stack = Tail(@), !.sock = @ \ {Head(tcp.stack)},
                                        !.sockets = @ - 1], Head(tcp.stack))

\* uv_tcp_simultaneous_accepts(0).
SingleAccept ==
  /\ Open /\ ~Has(tcp, "CONNECTION") /\ ~Has(tcp, "SINGLE")
  /\ tcp' = Set(tcp, {"SINGLE"} \cup IF Has(tcp, "LISTENING") THEN {"CHANGING"} ELSE {})

\* uv__tcp_queue_read.
QueueRead(t) == Overlapped(Set(t, {"READ_PENDING"}), Read)

ReadStart ==
  /\ Open /\ Has(tcp, "READABLE") /\ ~Has(tcp, "READING")
  /\ LET t == Increase(Set(tcp, {"READING"})) IN
     tcp' \in IF Has(t, "READ_PENDING") THEN {t} ELSE QueueRead(t)

\* Mutant: stopping a handle that does not read counts as well.
StopReadingAgain(t) == Decrease(Clear(t, {"READING"}))

\* uv_read_stop.
StopReading(t) == IF Has(t, "READING") THEN Decrease(Clear(t, {"READING"})) ELSE t

ReadStop ==
  /\ User /\ Has(tcp, "READING")
  /\ tcp' = StopReading(tcp)

Write(w) ==
  /\ User /\ Has(tcp, "WRITABLE")
  /\ w \notin tcp.kernel \cup tcp.ok \cup tcp.failed /\ pc # w
  /\ tcp' \in Overlapped(Increase([tcp EXCEPT !.writes = @ + 1]), w)

\* Mutant: the shutdown does not wait for the writes.
ShutdownReadyNow(t) == TRUE

ShutdownReady(t) == t.writes = 0

DoShutdown ==
  /\ Open /\ Has(tcp, "WRITABLE") /\ ~tcp.shut
  /\ LET t == Increase([Clear(tcp, {"WRITABLE"}) EXCEPT !.shut = TRUE, !.reqs = @ + 1]) IN
     tcp' = IF ShutdownReady(t) THEN [t EXCEPT !.ok = @ \cup {Shutdown}] ELSE t

CloseAcceptSockets(t) == [t EXCEPT !.sock = {}, !.sockets = @ - Cardinality(t.sock)]

\* Mutant: the endgame is wanted whatever is under way.
CloseWantsEndgame(t) == TRUE

CloseEnds(t) == t.reqs = 0

\* uv__tcp_close.
Close ==
  /\ Open
  /\ LET t1 == IF Has(tcp, "CONNECTION") THEN StopReading(tcp) ELSE CloseAcceptSockets(tcp)
         t2 == IF Has(t1, "LISTENING") THEN Decrease(Clear(t1, {"LISTENING"})) ELSE t1
         t3 == Set(Clear(t2, {"READABLE", "WRITABLE", "ACTIVE"}), {"CLOSING"})
         t4 == [t3 EXCEPT !.socket = @ /\ Has(t3, "CONNECTION") /\ t3.writes > 0]
     IN tcp' = IF CloseEnds(t4) THEN Set(t4, {"ENDGAME"}) ELSE t4

-----------------------------------------------------------------------------
(* The kernel and uv__process_reqs.  A cancelled operation fails, or has   *)
(* succeeded before.                                                       *)

Complete(req, good) ==
  /\ req \in tcp.kernel
  /\ tcp' = IF good THEN [tcp EXCEPT !.kernel = @ \ {req}, !.ok = @ \cup {req}]
            ELSE [tcp EXCEPT !.kernel = @ \ {req}, !.failed = @ \cup {req}]
  /\ UNCHANGED <<pc, uses>>

Done(req) == pc = <<"idle">> /\ req \in tcp.ok \cup tcp.failed /\ UNCHANGED uses
Taken(req) == [tcp EXCEPT !.ok = @ \ {req}, !.failed = @ \ {req}]

\* uv__process_tcp_accept_req.
ProcessAccept(r) ==
  LET t == Taken(r)
      broken == r \notin tcp.sock
      good == ~broken /\ r \in tcp.ok
  IN
  /\ Done(r)
  /\ \/ /\ broken /\ Has(t, "LISTENING")
        /\ tcp' = Decrease(Clear(t, {"LISTENING"})) /\ pc' = <<"callback", 1>>
     \/ /\ broken /\ ~Has(t, "LISTENING")
        /\ tcp' = DecreasePending(t, 1) /\ UNCHANGED pc
     \/ /\ good
        /\ tcp' = [t EXCEPT !.stack = <<r>> \o @] /\ pc' = <<"callback", 1>>
     \/ /\ ~broken   \* the accepted socket is of no use
        /\ \E u \in LET s == [t EXCEPT !.sock = @ \ {r}, !.sockets = @ - 1]
                    IN IF Has(t, "LISTENING") THEN QueueAccept(s, r) ELSE {s} :
             tcp' = DecreasePending(u, 1)
        /\ UNCHANGED pc

\* uv__process_tcp_connect_req.
ProcessConnect ==
  LET t == Decrease(Taken(Connect)) IN
  /\ Done(Connect)
  /\ tcp' \in IF t.err THEN {[t EXCEPT !.err = FALSE]}
              ELSE IF Connect \in tcp.ok /\ ~Has(t, "CLOSING")
              THEN {t, Set(t, {"CONNECTION", "READABLE", "WRITABLE"})} ELSE {t}
  /\ pc' = <<"callback", 1>>

\* uv__process_tcp_write_req up to its callback.
ProcessWrite(w) ==
  /\ Done(w)
  /\ tcp' = Decrease(Taken(w))
  /\ pc' = w

\* uv__process_tcp_shutdown_req up to its callback.
ShuttingDown(t) ==
  LET u == Decrease([t EXCEPT !.shut = FALSE]) IN
  IF Has(u, "CLOSING") THEN {u} ELSE {u, Set(u, {"SHUT"})}

ProcessShutdown ==
  /\ Done(Shutdown)
  /\ tcp' \in ShuttingDown(Taken(Shutdown))
  /\ pc' = <<"callback", 1>>

\* After the callback of a write.
Written(w) ==
  LET t1 == [tcp EXCEPT !.writes = @ - 1]
      t2 == IF t1.writes = 0 /\ Has(t1, "CLOSING") THEN [t1 EXCEPT !.socket = FALSE] ELSE t1
  IN
  /\ pc = w
  /\ IF t2.writes = 0 /\ t2.shut
     THEN tcp' \in ShuttingDown(t2) /\ pc' = <<"callback", 2>>
     ELSE tcp' = DecreasePending(t2, 1) /\ pc' = <<"idle">>
  /\ UNCHANGED uses

\* After a callback with nothing left to do but the count; the shutdown
\* after a write counts for both requests.
CallbackReturn ==
  /\ pc[1] = "callback"
  /\ tcp' = DecreasePending(tcp, pc[2])
  /\ pc' = <<"idle">>
  /\ UNCHANGED uses

Lost == {"READABLE", "WRITABLE"}

\* uv__process_tcp_read_req: an error, or the loop of nonblocking reads.
ProcessRead ==
  LET t == Clear(Taken(Read), {"READ_PENDING"}) IN
  /\ Done(Read)
  /\ IF Read \in tcp.ok THEN tcp' = t /\ pc' = <<"read", Reads>>
     ELSE IF Has(t, "READING")
     THEN tcp' = Clear(StopReading(t), Lost) /\ pc' = <<"callback", 1>>
     ELSE tcp' = DecreasePending(t, 1) /\ UNCHANGED pc

ReadLoop == pc[1] = "read" /\ UNCHANGED uses

\* One nonblocking read.  Only a full buffer goes on: no memory, a partial
\* or an empty read break the loop, the end of the stream stops reading.
ReadMore ==
  /\ ReadLoop /\ Has(tcp, "READING") /\ pc[2] > 0
  /\ \/ UNCHANGED tcp /\ pc' \in {<<"read", pc[2] - 1>>, <<"read", 0>>}
     \/ tcp' = StopReading(tcp) /\ pc' = <<"read", 0>>
     \/ tcp' = Clear(StopReading(tcp), Lost) /\ pc' = <<"read", 0>>

\* Mutant: another read is posted although one is pending.
ReadAgainAlways(t) == Has(t, "READING")

ReadAgain(t) == Has(t, "READING") /\ ~Has(t, "READ_PENDING")

\* Post another read, if still reading.
ReadDone ==
  /\ ReadLoop /\ (Has(tcp, "READING") => pc[2] = 0)
  /\ \E t \in IF ReadAgain(tcp) THEN QueueRead(tcp) ELSE {tcp} : tcp' = DecreasePending(t, 1)
  /\ pc' = <<"idle">>

\* uv__tcp_endgame.
Endgame ==
  /\ pc = <<"idle">> /\ Has(tcp, "ENDGAME")
  /\ tcp' = Set(Clear(tcp, {"ENDGAME"}), {"CLOSED"})
  /\ UNCHANGED <<pc, uses>>

UserStep ==
  \/ Bind \/ TcpOpen \/ Listen \/ DoConnect \/ Accept \/ SingleAccept
  \/ ReadStart \/ ReadStop \/ DoShutdown \/ Close
  \/ \E w \in WriteReqs : Write(w)

LoopStep ==
  \/ \E r \in Accepts : ProcessAccept(r)
  \/ \E w \in WriteReqs : ProcessWrite(w) \/ Written(w)
  \/ ProcessConnect \/ ProcessShutdown \/ CallbackReturn
  \/ ProcessRead \/ ReadMore \/ ReadDone \/ Endgame

Request == {Read, Connect} \cup Accepts \cup WriteReqs

Next ==
  \/ UserStep \/ LoopStep
  \/ \E req \in Request, good \in BOOLEAN : Complete(req, good)

Spec == Init /\ [][Next]_vars

-----------------------------------------------------------------------------
(* Properties.                                                             *)

InFlight == tcp.kernel \cup tcp.ok \cup tcp.failed

\* The requests of the step that uv__process_reqs is at.
Processing == CASE pc[1] = "idle" -> 0 [] pc[1] = "callback" -> pc[2] [] OTHER -> 1

(***************************************************************************)
(* reqs_pending counts the requests that the kernel or a queue has, the    *)
(* shutdown that waits for writes, and the one being processed; so the     *)
(* endgame, which frees the handle, runs with none of them left and after  *)
(* the socket was closed.                                                  *)
(***************************************************************************)
PendingExact ==
  /\ tcp.reqs = Cardinality(InFlight) + Processing
                + (IF tcp.shut /\ Shutdown \notin InFlight THEN 1 ELSE 0)
  /\ Has(tcp, "ENDGAME") \/ Has(tcp, "CLOSED") =>
       InFlight = {} /\ ~tcp.socket /\ ~tcp.shut /\ tcp.sockets = 0

(***************************************************************************)
(* A handle that reads has a read in flight or is in the midst of one, one *)
(* at a time, and an open socket.                                          *)
(***************************************************************************)
ReadsOnce ==
  /\ Has(tcp, "READ_PENDING") <=> Read \in InFlight
  /\ Has(tcp, "READING") =>
       tcp.socket /\ (Has(tcp, "READ_PENDING") \/ pc[1] = "read")

(***************************************************************************)
(* A server that listens is never deaf: some accept request is in flight   *)
(* or waits for uv_accept, in one place.  (A second uv_listen, after an    *)
(* accept failed, queues no accept and is deaf.)  Every socket made for an *)
(* accept belongs to a request, until it is closed or handed over.         *)
(***************************************************************************)
AcceptsInOnePlace ==
  LET waiting == {tcp.stack[k] : k \in DOMAIN tcp.stack} IN
  /\ Has(tcp, "LISTENING") /\ pc = <<"idle">> /\ tcp.listens = 1 =>
       (InFlight \cup waiting) \cap Accepts # {}
  /\ waiting \cap InFlight = {} /\ Cardinality(waiting) = Len(tcp.stack)
  /\ tcp.sockets = Cardinality(tcp.sock)

(***************************************************************************)
(* shutdown() comes after every write that was made before it.             *)
(***************************************************************************)
ShutAfterWrites ==
  Shutdown \in InFlight \/ Has(tcp, "SHUT") => tcp.writes = 0 /\ InFlight \cap WriteReqs = {}

(***************************************************************************)
(* activecnt counts what the handle does; it is only more after a second   *)
(* uv_listen, which counts again.                                          *)
(***************************************************************************)
TcpActiveExact ==
  LET flag(f) == IF Has(tcp, f) THEN 1 ELSE 0
      exact == flag("READING") + flag("LISTENING")
               + Cardinality(InFlight \cap (WriteReqs \cup {Connect})) + (IF tcp.shut THEN 1 ELSE 0)
  IN /\ tcp.listens < 2 => tcp.act = exact
     /\ tcp.act >= exact
     /\ Has(tcp, "ACTIVE") <=> tcp.act > 0 /\ ~Has(tcp, "CLOSING")
=============================================================================
