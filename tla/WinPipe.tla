------------------------------ MODULE WinPipe -------------------------------
(***************************************************************************)
(* A named pipe on Windows (src/win/pipe.c): a server with several pipe    *)
(* instances, or a connection.  A pipe that was not opened for overlapped  *)
(* I/O is read and written by threads of the system's pool, one write at a *)
(* time, and a read that blocks is cancelled by a handshake with the       *)
(* thread.  shutdown flushes the pipe and then waits, with a timer, for    *)
(* the other end to close.  An IPC pipe carries frames of data and sockets.*)
(*                                                                         *)
(* Names, access rights, blocking writes and the emulation of completion   *)
(* ports are left out.  Requests that are inserted directly are processed  *)
(* before those that the completion port delivers later.                   *)
(***************************************************************************)
EXTENDS Integers, Sequences, FiniteSets

CONSTANTS
  N,        \* pending_instances of a server
  Writes,   \* write requests
  MaxUse    \* bound: calls of user code

AcceptReq(k) == <<"accept", k>>
Accepts == {AcceptReq(k) : k \in 1..N}
WriteReqs == {<<"write", w>> : w \in Writes}
Read == <<"read">>
Connect == <<"connect">>
Shutdown == <<"shutdown">>

\* What an IPC frame holds.
Frame == [data : 0..2, xfer : BOOLEAN]

\* A frame on the wire: its header, the socket, its bytes.
OnWire(frame) ==
  <<<<"header", frame>>>> \o (IF frame.xfer THEN <<<<"socket">>>> ELSE <<>>)
  \o [k \in 1..frame.data |-> <<"byte">>]

VARIABLES
  pipe,     \* the handle and its requests
  worker,   \* uv_pipe_zero_readfile_thread_proc: where it is
  wire,     \* what the other end of an IPC pipe wrote and we have not read
  pc,       \* what the loop is doing, <<"idle">> outside
  uses

vars == <<pipe, worker, wire, pc, uses>>

(***************************************************************************)
(* flags, reqs, act, writes, shut   as in module WinTcp                    *)
(* handle    pipe->handle is valid                                         *)
(* sync      UV_HANDLE_NON_OVERLAPPED_PIPE; ipc: pipe->ipc                 *)
(* thread    readfile_thread_handle                                        *)
(* timer     the eof timer: none, idle or started                          *)
(* kernel    requests that the kernel or a thread has                      *)
(* queue     completed requests with their results, in order               *)
(* later     non_overlapped_writes                                         *)
(* inst, stack   accept requests with a valid pipeHandle, pending_accepts  *)
(* remaining, xfers   payload_remaining, ipc_xfer_queue_length             *)
(* opened    history: pipe instances and connections not closed or handed  *)
(*           over; ended: an end of file or an error was reported          *)
(***************************************************************************)
Init ==
  /\ pipe = [flags |-> {}, handle |-> FALSE, sync |-> FALSE, ipc |-> FALSE, reqs |-> 0,
             act |-> 0, writes |-> 0, shut |-> FALSE, thread |-> "null", timer |-> "none",
             kernel |-> {}, queue |-> <<>>, later |-> <<>>, inst |-> {}, stack |-> <<>>,
             remaining |-> 0, xfers |-> 0, opened |-> 0, ended |-> FALSE]
  /\ worker = "none" /\ wire = <<>> /\ pc = <<"idle">> /\ uses = 0

Has(t, f) == f \in t.flags
Set(t, fs) == [t EXCEPT !.flags = @ \cup fs]
Clear(t, fs) == [t EXCEPT !.flags = @ \ fs]
Increase(t) == [t EXCEPT !.act = @ + 1, !.flags = @ \cup {"ACTIVE"}]
Decrease(t) ==
  [t EXCEPT !.act = @ - 1,
            !.flags = IF t.act = 1 /\ ~Has(t, "CLOSING") THEN @ \ {"ACTIVE"} ELSE @]
DecreasePending(t) ==
  [t EXCEPT !.reqs = @ - 1,
            !.flags = IF t.reqs = 1 /\ Has(t, "CLOSING") THEN @ \cup {"ENDGAME"} ELSE @]

\* uv__insert_pending_req with a status.
Insert(t, req, res) == [t EXCEPT !.queue = Append(@, [req |-> req, res |-> res])]
Start(t, req) == [t EXCEPT !.kernel = @ \cup {req}]

-----------------------------------------------------------------------------
(* The eof timer and the end of a connection.                              *)

TimerStart(t) == IF t.timer = "none" THEN t ELSE [t EXCEPT !.timer = "started"]

TimerStop(t) == IF t.timer = "none" THEN t ELSE [t EXCEPT !.timer = "idle"]
TimerDestroy(t) == [t EXCEPT !.timer = "none"]

\* close_pipe.
ClosePipe(t) == [t EXCEPT !.handle = FALSE, !.opened = @ - 1]

-----------------------------------------------------------------------------
(* Reading.                                                                *)

\* uv__pipe_queue_read, which may fail and report that through the queue.
QueueRead(t) ==
  LET u == [Set(t, {"READ_PENDING"}) EXCEPT !.reqs = @ + 1] IN
  {Insert(u, Read, "failed"),
   TimerStart(Start([u EXCEPT !.thread = IF t.sync THEN "null" ELSE @], Read))}

\* A read that is handed to a thread starts one.
Worker(t) == IF t.sync /\ Read \in t.kernel /\ worker = "none" THEN "start" ELSE worker

\* uv__pipe_interrupt_read has something to cancel.
Interrupts(t) ==
  Has(t, "READ_PENDING") /\ ~Has(t, "CANCELLATION_PENDING") /\ t.handle

\* Its effect; when a thread is in ReadFile the loop spins first (Spin).
Interrupt(t) ==
  IF ~Interrupts(t) THEN t
  ELSE Set([t EXCEPT !.thread = IF t.sync THEN "invalid" ELSE @], {"CANCELLATION_PENDING"})

Spins(t) == Interrupts(t) /\ t.sync /\ t.thread = "thread"

StopReading(t) == Decrease(Clear(t, {"READING"}))

\* uv_pipe_zero_readfile_thread_proc.  The lock makes its steps exclude the
\* spinning loop, except for the one that ends the spin.
WorkerStart ==
  /\ worker = "start" /\ pc[1] # "spin"
  /\ IF pipe.thread = "invalid"
     THEN worker' = "aborted" /\ UNCHANGED pipe
     ELSE worker' = "reading" /\ pipe' = [pipe EXCEPT !.thread = "thread"]
  /\ UNCHANGED <<wire, pc, uses>>

WorkerRead ==
  /\ worker = "reading"
  /\ worker' \in {"ok", "failed"} \cup (IF pc[1] = "spin" THEN {"aborted"} ELSE {})
  /\ pipe' = [pipe EXCEPT !.thread = "invalid"]
  /\ UNCHANGED <<wire, pc, uses>>

WorkerPost ==
  /\ worker \in {"ok", "failed", "aborted"} /\ pc[1] # "spin"
  /\ pipe' = Insert([pipe EXCEPT !.kernel = @ \ {Read}], Read, worker)
  /\ worker' = "none"
  /\ UNCHANGED <<wire, pc, uses>>

-----------------------------------------------------------------------------
(* User code, outside uv_run or in a callback.                             *)

User == pc[1] # "spin" /\ uses < MaxUse /\ uses' = uses + 1
Idle == User /\ UNCHANGED <<worker, wire, pc>>

\* uv_pipe_open, or one end of uv__create_stdio_pipe_pair: a connection.
PipeOpen(sync, ipc, duplex) ==
  /\ User /\ pipe.flags = {} /\ ~(sync /\ ipc)
  /\ ipc => duplex = {"READABLE", "WRITABLE"}
  /\ pipe' = [Set(pipe, {"CONNECTION"} \cup duplex)
              EXCEPT !.handle = TRUE, !.opened = 1, !.sync = sync, !.ipc = ipc]
  /\ wire' \in IF ipc THEN {OnWire(f) \o OnWire(g) : f, g \in Frame} ELSE {<<>>}
  /\ UNCHANGED <<worker, pc>>

\* uv_pipe_connect2: opened at once, a thread waits, or an error.
DoConnect ==
  /\ Idle /\ pipe.flags = {}
  /\ LET t == Increase([Set(pipe, {"CONNECTION"}) EXCEPT !.reqs = @ + 1]) IN
     pipe' \in {Insert([t EXCEPT !.opened = @ + 1], Connect, "ok"), Start(t, Connect),
                Insert(t, Connect, "failed")}

\* uv_pipe_bind2.
Bind ==
  /\ Idle /\ pipe.flags = {}
  /\ pipe' = [Set(pipe, {"PIPESERVER", "BOUND"})
              EXCEPT !.inst = {AcceptReq(1)}, !.opened = 1]

\* uv__pipe_queue_accept.
QueueAccept(t, r, first) ==
  LET u == [t EXCEPT !.reqs = @ + 1]
      v == IF first THEN u ELSE [u EXCEPT !.inst = @ \cup {r}, !.opened = @ + 1]
      broken == [v EXCEPT !.inst = @ \ {r}, !.opened = @ - 1]
  IN {Start(v, r), Insert(v, r, "ok"), Insert(broken, r, "failed")}

\* uv__pipe_listen.
Listen ==
  /\ Idle /\ Has(pipe, "BOUND") /\ ~Has(pipe, "CLOSING") /\ ~Has(pipe, "LISTENING")
  /\ LET t == Increase(Set(pipe, {"LISTENING"}))
         queue[k \in 0..N] == IF k = 0 THEN {t}
                              ELSE UNION {QueueAccept(u, AcceptReq(k), k = 1) : u \in queue[k - 1]}
     IN pipe' \in queue[N]

\* uv__pipe_accept of a server.  Users do not accept from a server they
\* closed, whose instances are closed.
Accept ==
  /\ Idle /\ pipe.stack # <<>> /\ ~Has(pipe, "CLOSING")
  /\ LET r == Head(pipe.stack) IN
     pipe' \in QueueAccept([pipe EXCEPT !.stack = Tail(@), !.inst = @ \ {r}, !.opened = @ - 1],
                           r, FALSE)

\* uv__pipe_accept of an IPC pipe.
AcceptSocket ==
  /\ Idle /\ pipe.xfers > 0 /\ ~Has(pipe, "CLOSED")
  /\ pipe' = [pipe EXCEPT !.xfers = @ - 1]

\* After an error or the end of the stream users do not read again.
ReadStart ==
  /\ User /\ Has(pipe, "READABLE") /\ ~Has(pipe, "READING") /\ ~Has(pipe, "CLOSING")
  /\ ~pipe.ended
  /\ LET t == Increase(Set(pipe, {"READING"})) IN
     pipe' \in IF Has(t, "READ_PENDING") THEN {t} ELSE QueueRead(t)
  /\ worker' = Worker(pipe')
  /\ UNCHANGED <<wire, pc>>

\* uv__pipe_read_stop.
ReadStop ==
  /\ User /\ Has(pipe, "READING")
  /\ LET t == StopReading(pipe) IN
     IF Spins(t) THEN pipe' = t /\ pc' = <<"spin", "stop", pc>>
     ELSE pipe' = Interrupt(t) /\ UNCHANGED pc
  /\ UNCHANGED <<worker, wire>>

\* uv__queue_non_overlapped_write.
QueueWrite(t) ==
  IF t.later = <<>> THEN t
  ELSE Start([t EXCEPT !.later = Tail(@)], Head(t.later))

\* Mutant: a thread starts for every write.
WriteNow(t) == QueueWrite(t)

\* Only the first write starts at once on a pipe without overlapped I/O.
WriteFirst(t) == IF t.writes = 0 THEN QueueWrite(t) ELSE t

\* uv__pipe_write_data.
Write(w) ==
  /\ Idle /\ Has(pipe, "WRITABLE") /\ pipe.handle
  /\ w \notin pipe.kernel /\ pc # w
  /\ \A k \in DOMAIN pipe.queue : pipe.queue[k].req # w
  /\ \A k \in DOMAIN pipe.later : pipe.later[k] # w
  /\ LET t == IF pipe.sync THEN WriteFirst([pipe EXCEPT !.later = Append(@, w)])
              ELSE Start(pipe, w)
     IN pipe' = Increase([t EXCEPT !.writes = @ + 1, !.reqs = @ + 1])

\* uv__pipe_shutdown: by a thread, if the other end has not read everything.
\* If that fails the pipe is writable again.
PipeShutdown(t) ==
  IF Has(t, "CLOSING") THEN {Insert(t, Shutdown, "ok")}
  ELSE {Insert(t, Shutdown, "ok"), Start(t, Shutdown),
        Insert(Set(t, {"WRITABLE"}), Shutdown, "failed")}

\* uv_shutdown.
DoShutdown ==
  /\ Idle /\ Has(pipe, "WRITABLE") /\ ~pipe.shut /\ ~Has(pipe, "CLOSING")
  /\ LET t == Increase([Clear(pipe, {"WRITABLE"}) EXCEPT !.shut = TRUE, !.reqs = @ + 1]) IN
     pipe' \in IF t.writes = 0 THEN PipeShutdown(t) ELSE {t}

\* uv__pipe_close after uv__pipe_interrupt_read.
Closed(t) ==
  LET t1 == IF Has(t, "PIPESERVER")
            THEN [t EXCEPT !.inst = {}, !.opened = @ - Cardinality(t.inst)] ELSE t
      t2 == TimerDestroy(t1)
      t3 == IF Has(t2, "CONNECTION") /\ t2.handle THEN ClosePipe(t2) ELSE t2
  IN IF t3.reqs = 0 THEN Set(t3, {"ENDGAME"}) ELSE t3

\* Mutant: the pipe is closed under a read, which is not cancelled first.
CloseUnderRead ==
  /\ User /\ ~Has(pipe, "CLOSING")
  /\ LET t1 == IF Has(pipe, "READING") THEN StopReading(pipe) ELSE pipe
         t2 == IF Has(t1, "LISTENING") THEN Decrease(Clear(t1, {"LISTENING"})) ELSE t1
         t3 == Set(Clear(t2, {"READABLE", "WRITABLE", "ACTIVE"}), {"CLOSING"})
     IN pipe' = Closed(t3)
  /\ UNCHANGED <<worker, wire, pc>>

\* uv__pipe_close.
Close ==
  /\ User /\ ~Has(pipe, "CLOSING")
  /\ LET t1 == IF Has(pipe, "READING") THEN StopReading(pipe) ELSE pipe
         t2 == IF Has(t1, "LISTENING") THEN Decrease(Clear(t1, {"LISTENING"})) ELSE t1
         t3 == Set(Clear(t2, {"READABLE", "WRITABLE", "ACTIVE"}), {"CLOSING"})
     IN IF Spins(t3) THEN pipe' = t3 /\ pc' = <<"spin", "close", pc>>
        ELSE pipe' = Closed(Interrupt(t3)) /\ UNCHANGED pc
  /\ UNCHANGED <<worker, wire>>

\* uv__pipe_interrupt_read: the thread is past the point of blocking.
Spin ==
  /\ pc[1] = "spin" /\ pipe.thread = "invalid"
  /\ LET t == Set(pipe, {"CANCELLATION_PENDING"}) IN
     pipe' = IF pc[2] = "close" THEN Closed(t) ELSE t
  /\ pc' = pc[3]
  /\ UNCHANGED <<worker, wire, uses>>

-----------------------------------------------------------------------------
(* Completions.                                                            *)

\* Everything but the read of a thread; a read fails with
\* ERROR_OPERATION_ABORTED after it was cancelled or the pipe was closed.
Complete(req, res) ==
  /\ req \in pipe.kernel /\ ~(req = Read /\ pipe.sync)
  /\ res = "aborted" => req = Read /\ (Has(pipe, "CANCELLATION_PENDING") \/ ~pipe.handle)
  /\ LET t == Insert([pipe EXCEPT !.kernel = @ \ {req}], req, res) IN
     pipe' = IF req = Connect /\ res = "ok" THEN [t EXCEPT !.opened = @ + 1] ELSE t
  /\ UNCHANGED <<worker, wire, pc, uses>>

\* The next request of uv__process_reqs.
Next1(req) == pc = <<"idle">> /\ pipe.queue # <<>> /\ Head(pipe.queue).req = req
Res == Head(pipe.queue).res
Taken == [pipe EXCEPT !.queue = Tail(@)]

\* uv__process_pipe_accept_req.
ProcessAccept(r) ==
  /\ Next1(r)
  /\ IF Has(pipe, "CLOSING")
     THEN pipe' = DecreasePending(Taken) /\ UNCHANGED pc
     ELSE IF Res = "ok"
     THEN pipe' = [Taken EXCEPT !.stack = <<r>> \o @] /\ pc' = <<"callback">>
     ELSE /\ \E t \in QueueAccept([Taken EXCEPT !.inst = @ \ {r},
                                     !.opened = IF r \in pipe.inst THEN @ - 1 ELSE @], r, FALSE) :
               pipe' = DecreasePending(t)
          /\ UNCHANGED pc
  /\ UNCHANGED <<worker, wire, uses>>

\* Mutant: a connection made for a closing handle is kept.
ConnectKeeps(t) == IF Has(t, "CLOSING") THEN t ELSE [t EXCEPT !.handle = TRUE]

\* uv__process_pipe_connect_req: the pipe that was opened is kept, or closed
\* if the handle is closing.
ConnectDone(t) ==
  IF Has(t, "CLOSING") THEN [t EXCEPT !.opened = @ - 1]
  ELSE [Set(t, {"READABLE", "WRITABLE"}) EXCEPT !.handle = TRUE]

ProcessConnect ==
  /\ Next1(Connect)
  /\ LET t == Decrease(Taken) IN pipe' = IF Res = "ok" THEN ConnectDone(t) ELSE t
  /\ pc' = <<"callback">>
  /\ UNCHANGED <<worker, wire, uses>>

\* uv__process_pipe_shutdown_req: wait for the other end to close, or close.
ProcessShutdown ==
  /\ Next1(Shutdown)
  /\ LET t == Decrease([Taken EXCEPT !.shut = FALSE])
         u == [t EXCEPT !.timer = "idle"]
     IN pipe' = IF Has(t, "CLOSING") \/ Res # "ok" THEN t
                ELSE IF ~Has(t, "READABLE") THEN ClosePipe(t)
                ELSE IF Has(t, "READ_PENDING") THEN TimerStart(u) ELSE u
  /\ pc' = <<"callback">>
  /\ UNCHANGED <<worker, wire, uses>>

CallbackReturn ==
  /\ pc = <<"callback">>
  /\ pipe' = DecreasePending(pipe)
  /\ pc' = <<"idle">>
  /\ UNCHANGED <<worker, wire, uses>>

\* uv__process_pipe_write_req up to its callback, and after it.
ProcessWrite(w) ==
  /\ Next1(w)
  /\ pipe' = Decrease(Taken) /\ pc' = w
  /\ UNCHANGED <<worker, wire, uses>>

Written(w) ==
  /\ pc = w
  /\ LET t == [pipe EXCEPT !.writes = @ - 1]
         u == IF t.sync THEN QueueWrite(t) ELSE t
     IN \E v \in IF u.writes = 0 /\ u.shut THEN PipeShutdown(u) ELSE {u} :
          pipe' = DecreasePending(v)
  /\ pc' = <<"idle">>
  /\ UNCHANGED <<worker, wire, uses>>

\* uv__pipe_read_eof and uv__pipe_read_error, up to their callback.  No read
\* is pending, so that uv_read_stop has nothing to interrupt, unless a
\* callback began one.
ReadEnds(t) ==
  LET u == [TimerDestroy(t) EXCEPT !.ended = TRUE] IN
  IF Has(u, "READING") THEN Interrupt(StopReading(u)) ELSE u

\* uv__process_pipe_read_req: bookkeeping, then an error or the data.
ProcessRead ==
  /\ Next1(Read)
  /\ LET t == TimerStop(DecreasePending(Clear(Taken, {"READ_PENDING", "CANCELLATION_PENDING"}))) IN
     IF ~Has(t, "READING") THEN pipe' = t /\ UNCHANGED pc
     ELSE IF Res = "failed" THEN pipe' = ReadEnds(t) /\ pc' = <<"read end">>
     ELSE pipe' = t /\ pc' = IF Res = "ok" THEN <<"reading">> ELSE <<"read end">>
  /\ UNCHANGED <<worker, wire, uses>>

\* uv__pipe_read_data of an ordinary pipe: data, then its callback.  It, or
\* PeekNamedPipe, may fail.
ReadData ==
  /\ pc = <<"reading">> /\ Has(pipe, "READING") /\ ~pipe.ipc
  /\ \/ UNCHANGED <<pipe, pc>>
     \/ ~Spins(pipe) /\ pipe' = ReadEnds(pipe) /\ pc' = <<"read end">>
  /\ UNCHANGED <<worker, wire, uses>>

\* Mutant: a transferred socket is taken for data.
TakeNoSocket(frame) == 1

\* What is read of the wire with a header: the socket that comes with it.
Take(frame) == IF frame.xfer THEN 2 ELSE 1

\* uv__pipe_read_ipc: a header and its socket, or some of the data.
ReadIpc ==
  /\ pc = <<"reading">> /\ Has(pipe, "READING") /\ pipe.ipc /\ wire # <<>>
  /\ IF pipe.remaining > 0
     THEN \E k \in 1..pipe.remaining :
            /\ pipe' = [pipe EXCEPT !.remaining = @ - k]
            /\ wire' = SubSeq(wire, k + 1, Len(wire))
     ELSE LET frame == Head(wire)[2] IN
          /\ pipe' = [pipe EXCEPT !.remaining = frame.data,
                                  !.xfers = IF frame.xfer THEN @ + 1 ELSE @]
          /\ wire' = SubSeq(wire, 1 + Take(frame), Len(wire))
  /\ UNCHANGED <<worker, pc, uses>>

\* An IPC pipe whose other end is closed.
ReadIpcEnd ==
  /\ pc = <<"reading">> /\ Has(pipe, "READING") /\ pipe.ipc /\ wire = <<>>
  /\ pipe' = ReadEnds(pipe) /\ pc' = <<"read end">>
  /\ UNCHANGED <<worker, wire, uses>>

\* All that was available has been read, or reading was stopped.
ReadEnough ==
  /\ pc = <<"reading">>
  /\ pc' = <<"read end">>
  /\ UNCHANGED <<pipe, worker, wire, uses>>

\* Mutant: the read is not begun again.
ReadAgainNever(t) == FALSE

ReadAgain(t) == Has(t, "READING") /\ ~Has(t, "READ_PENDING")

\* Start another zero-read if necessary.
ReadDone ==
  /\ pc = <<"read end">>
  /\ pipe' \in IF ReadAgain(pipe) THEN QueueRead(pipe) ELSE {pipe}
  /\ worker' = Worker(pipe')
  /\ pc' = <<"idle">>
  /\ UNCHANGED <<wire, uses>>

\* eof_timer_cb.  A read that completed, or any of a pipe without overlapped
\* I/O, is left to uv__process_pipe_read_req.
EofTimer ==
  /\ pc = <<"idle">> /\ pipe.timer = "started"
  /\ \/ /\ pipe' = TimerStop(pipe) /\ UNCHANGED pc
     \/ /\ Read \in pipe.kernel /\ ~pipe.sync
        /\ pipe' = ReadEnds(ClosePipe(pipe)) /\ pc' = <<"eof">>
  /\ UNCHANGED <<worker, wire, uses>>

EofReturn ==
  /\ pc = <<"eof">>
  /\ pc' = <<"idle">>
  /\ UNCHANGED <<pipe, worker, wire, uses>>

\* uv__pipe_endgame.
Endgame ==
  /\ pc = <<"idle">> /\ Has(pipe, "ENDGAME")
  /\ pipe' = [Set(Clear(pipe, {"ENDGAME"}), {"CLOSED"}) EXCEPT !.xfers = 0]
  /\ UNCHANGED <<worker, wire, pc, uses>>

UserStep ==
  \/ \E sync, ipc \in BOOLEAN, d \in (SUBSET {"READABLE", "WRITABLE"}) \ {{}} : PipeOpen(sync, ipc, d)
  \/ DoConnect \/ Bind \/ Listen \/ Accept \/ AcceptSocket
  \/ ReadStart \/ ReadStop \/ DoShutdown \/ Close
  \/ \E w \in WriteReqs : Write(w)

LoopStep ==
  \/ Spin
  \/ \E r \in Accepts : ProcessAccept(r)
  \/ \E w \in WriteReqs : ProcessWrite(w) \/ Written(w)
  \/ ProcessConnect \/ ProcessShutdown \/ CallbackReturn
  \/ ProcessRead \/ ReadData \/ ReadIpc \/ ReadIpcEnd \/ ReadEnough \/ ReadDone
  \/ EofTimer \/ EofReturn \/ Endgame

Request == {Read, Connect, Shutdown} \cup Accepts \cup WriteReqs

Next ==
  \/ UserStep \/ LoopStep
  \/ WorkerStart \/ WorkerRead \/ WorkerPost
  \/ \E req \in Request, res \in {"ok", "failed", "aborted"} : Complete(req, res)

Spec == Init /\ [][Next]_vars

-----------------------------------------------------------------------------
(* Properties.                                                             *)

Queued == {pipe.queue[k].req : k \in DOMAIN pipe.queue}
Later == {pipe.later[k] : k \in DOMAIN pipe.later}
At == IF pc[1] = "spin" THEN pc[3] ELSE pc

(***************************************************************************)
(* reqs_pending counts the requests that the kernel, a thread or a queue   *)
(* has and the one being processed, each once; the endgame comes with none *)
(* of them left, and every pipe handle that was opened has been closed or  *)
(* handed over by then.                                                    *)
(***************************************************************************)
PipePendingExact ==
  /\ pipe.reqs = Cardinality(pipe.kernel) + Len(pipe.queue) + Len(pipe.later)
                 + (IF pipe.shut /\ Shutdown \notin pipe.kernel \cup Queued THEN 1 ELSE 0)
                 + (IF At[1] \in {"callback", "write"} THEN 1 ELSE 0)
  /\ Cardinality(Queued) = Len(pipe.queue) /\ pipe.kernel \cap Queued = {}
  /\ Has(pipe, "ENDGAME") \/ Has(pipe, "CLOSED") =>
       pipe.reqs = 0 /\ worker = "none" /\ pipe.opened = 0

(***************************************************************************)
(* The handshake with the thread that reads: while the loop spins the      *)
(* thread can end the spin, and when the pipe is closed no thread is in,   *)
(* or on its way to, a read of its handle.                                 *)
(***************************************************************************)
ReadIsInterrupted ==
  /\ pc[1] = "spin" => worker = "reading" \/ pipe.thread = "invalid"
  /\ pc[1] # "spin" /\ ~pipe.handle =>
       worker # "reading" /\ (worker = "start" => pipe.thread = "invalid")

(***************************************************************************)
(* A pipe that reads has a read pending or is in the midst of one, and the *)
(* eof timer runs only with one pending: eof_timer_cb asserts that.        *)
(***************************************************************************)
PipeReadsOnce ==
  /\ Has(pipe, "READ_PENDING") <=> Read \in pipe.kernel \cup Queued
  /\ Has(pipe, "READING") =>
       Has(pipe, "READ_PENDING") \/ At[1] \in {"reading", "read end"}
  /\ pipe.timer = "started" => Has(pipe, "READ_PENDING") /\ pipe.handle

(***************************************************************************)
(* Writes to a pipe without overlapped I/O are done one at a time, and one *)
(* that waits has another before it.                                       *)
(***************************************************************************)
WritesOneByOne ==
  LET ahead == Cardinality((pipe.kernel \cup Queued) \cap WriteReqs)
               + (IF At \in WriteReqs THEN 1 ELSE 0)
  IN pipe.sync => ahead <= 1 /\ (Later # {} => ahead = 1)

(***************************************************************************)
(* The reader of an IPC pipe is in step with the frames: it takes for data *)
(* what was sent as data, and begins a frame at a header.                  *)
(***************************************************************************)
FramesInStep ==
  pipe.ipc =>
    /\ \A k \in 1..pipe.remaining : k <= Len(wire) /\ wire[k][1] = "byte"
    /\ Len(wire) > pipe.remaining => wire[pipe.remaining + 1][1] = "header"
=============================================================================
