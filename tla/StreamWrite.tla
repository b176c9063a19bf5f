---------------------------- MODULE StreamWrite ----------------------------
(***************************************************************************)
(* The writing side of one libuv stream (src/unix/stream.c): connecting,   *)
(* the queue of write requests, partial writes and EAGAIN, write           *)
(* callbacks, shutdown, and what uv_close does to requests in flight.      *)
(*                                                                         *)
(* A request is a number, in the order of the calls of uv_write; left[r]   *)
(* are its bytes the kernel has not taken.  uv__write runs in steps of one *)
(* system call; user code runs outside of uv__stream_io (pc = "loop", in   *)
(* callbacks of other handles) and in the callbacks of the stream.  The    *)
(* reading side is a callback that may come first in uv__stream_io (module *)
(* StreamRead).  Blocking streams and passing of handles are left out.     *)
(***************************************************************************)
EXTENDS Naturals, Sequences, SequencesExt, FiniteSetTheorems, SequenceTheorems,
  WellFoundedInduction, TLAPS

CONSTANTS
  MaxWrites,   \* bound: calls of uv_write
  MaxSize,     \* bound: bytes of a request
  Batch        \* requests written by one uv__write, 33 in the code

Reqs == 1 .. MaxWrites

VARIABLES
  kernel,            \* of the socket: "none", "connecting", "connected", "broken"
  room,              \* the socket's send buffer has room
  hstate,            \* "open", "closing", "closed" or "gone" (after close_cb)
  fd,                \* io_watcher.fd # -1
  writable, shut,    \* UV_HANDLE_WRITABLE, UV_HANDLE_SHUT
  delayed_error,
  connect_req,       \* "unused", "pending", "ok" or an error
  shutdown_req,      \* likewise
  nreqs,             \* requests accepted by uv_write so far
  left, error,
  write_queue, write_completed_queue,
  write_queue_size,
  pollout, fed,      \* POLLOUT is watched; the watcher is in pending_queue
  pc,                \* the place in uv__stream_io or uv__stream_destroy
  pq,                \* the local list of uv__write_callbacks
  caller,            \* of uv__write_callbacks: "io", "connect" or "destroy"
  count, writing,    \* of uv__write, and who called it: "no", "user" or "io"
  called,            \* history: the requests called back, in order
  sent               \* history: a rank for each byte the kernel took

conn == <<kernel, room>>
flags == <<hstate, fd, writable, shut>>
reqs == <<connect_req, delayed_error, shutdown_req>>
queues == <<nreqs, left, error, write_queue, write_completed_queue,
            write_queue_size, sent>>
watch == <<pollout, fed>>
vars == <<conn, flags, reqs, queues, watch, pc, pq, caller, count, writing, called>>

Init ==
  /\ kernel = "none" /\ room = TRUE
  /\ hstate = "open" /\ fd = FALSE /\ writable = FALSE /\ shut = FALSE
  /\ delayed_error = FALSE
  /\ connect_req = "unused" /\ shutdown_req = "unused"
  /\ nreqs = 0
  /\ left = [r \in Reqs |-> 0]
  /\ error = [r \in Reqs |-> "none"]
  /\ write_queue = <<>> /\ write_completed_queue = <<>>
  /\ write_queue_size = 0
  /\ pollout = FALSE /\ fed = FALSE
  /\ pc = "loop" /\ pq = <<>> /\ caller = "io" /\ count = 0 /\ writing = "no"
  /\ called = <<>> /\ sent = <<>>

Callbacks == {"connect_cb", "connect_failed_cb", "read_cb", "write_cb",
              "shutdown_cb", "destroy_connect_cb"}

InUserCode == writing = "no" /\ pc \in Callbacks \cup {"loop"}

-----------------------------------------------------------------------------
(* The kernel and the peer.                                                *)

Established ==
  /\ kernel = "connecting"
  /\ kernel' = "connected"
  /\ UNCHANGED <<room, flags, reqs, queues, watch, pc, pq, count, writing, caller, called>>

Break ==
  /\ kernel \in {"connecting", "connected"}
  /\ kernel' = "broken"
  /\ UNCHANGED <<room, flags, reqs, queues, watch, pc, pq, count, writing, caller, called>>

PeerReads ==
  /\ ~room
  /\ room' = TRUE
  /\ UNCHANGED <<kernel, flags, reqs, queues, watch, pc, pq, count, writing,
                 caller, called>>

-----------------------------------------------------------------------------
(* The API.                                                                *)

\* uv_tcp_connect; connect(2) is refused at once, or goes on.
Connect(refused) ==
  /\ InUserCode
  /\ hstate = "open" /\ connect_req = "unused" /\ kernel = "none"
  /\ kernel' = IF refused THEN "broken" ELSE "connecting"
  /\ fd' = TRUE
  /\ writable' = TRUE
  /\ connect_req' = "pending"
  /\ delayed_error' = refused
  /\ pollout' = TRUE
  /\ fed' = refused
  /\ UNCHANGED <<room, hstate, shut, shutdown_req, queues, pc, pq, count,
                 writing, caller, called>>

\* The request may be written at once: nothing is queued.
WriteNow == write_queue_size = 0

\* uv_write, accepted by uv__check_before_write.
Write(size) ==
  /\ InUserCode
  /\ fd /\ writable
  /\ nreqs < MaxWrites
  /\ nreqs' = nreqs + 1
  /\ left' = [left EXCEPT ![nreqs'] = size]
  /\ write_queue' = Append(write_queue, nreqs')
  /\ write_queue_size' = write_queue_size + size
  /\ IF connect_req = "pending" THEN UNCHANGED <<writing, count, pollout>>
     ELSE IF WriteNow THEN writing' = "user" /\ count' = Batch /\ UNCHANGED pollout
     ELSE pollout' = TRUE /\ UNCHANGED <<writing, count>>
  /\ UNCHANGED <<conn, flags, reqs, error, write_completed_queue, sent, fed, pc,
                 pq, caller, called>>

\* Mutant: data that waits does not matter.
TryWriteNowAlways == connect_req # "pending"

TryWriteNow == connect_req # "pending" /\ write_queue_size = 0

\* uv_try_write of one byte, which ranks behind the bytes of all requests so far.
TryWrite ==
  /\ InUserCode
  /\ fd /\ writable
  /\ TryWriteNow
  /\ kernel = "connected" /\ room
  /\ Len(sent) < MaxWrites * MaxSize
  /\ sent' = Append(sent, 2 * nreqs + 1)
  /\ room' \in BOOLEAN
  /\ UNCHANGED <<kernel, flags, reqs, nreqs, left, error, write_queue,
                 write_completed_queue, write_queue_size, watch, pc, pq, count,
                 writing, caller, called>>

Shutdown ==
  /\ InUserCode
  /\ writable /\ ~shut /\ shutdown_req # "pending" /\ hstate = "open"
  /\ shutdown_req' = "pending"
  /\ writable' = FALSE
  /\ fed' = (fed \/ write_queue = <<>>)
  /\ UNCHANGED <<conn, hstate, fd, shut, connect_req, delayed_error, queues,
                 pollout, pc, pq, count, writing, caller, called>>

\* uv_close and uv__stream_close.
Close ==
  /\ InUserCode
  /\ hstate = "open"
  /\ hstate' = "closing"
  /\ fd' = FALSE
  /\ writable' = FALSE
  /\ pollout' = FALSE
  /\ fed' = FALSE
  /\ kernel' = IF kernel = "none" THEN "none" ELSE "broken"
  /\ UNCHANGED <<room, shut, reqs, queues, pc, pq, count, writing, caller, called>>

-----------------------------------------------------------------------------
(* uv__write.                                                              *)

\* uv__write returns to user code or to uv__stream_io.
WriteReturns ==
  /\ writing' = "no"
  /\ count' = 0
  /\ pc' = IF writing = "io" THEN "callbacks" ELSE pc

\* Mutant: a request that failed gives its bytes back at once.
SizeAfterFailure(r) == write_queue_size - left[r]

\* Only the callback takes the bytes of a failed request off the size.
SizeAfterError(r) == write_queue_size

\* uv__write_req_finish, for the head of the queue.
FinishHead(err) ==
  /\ write_queue' = Tail(write_queue)
  /\ write_completed_queue' = Append(write_completed_queue, Head(write_queue))
  /\ error' = [error EXCEPT ![Head(write_queue)] = err]
  /\ fed' = TRUE

\* write(2) takes n bytes of the request at the head.
WriteSome(n) ==
  /\ writing # "no" /\ write_queue # <<>>
  /\ kernel = "connected" /\ room
  /\ LET r == Head(write_queue) IN
     /\ n \in 1 .. left[r]
     /\ left' = [left EXCEPT ![r] = @ - n]
     /\ write_queue_size' = write_queue_size - n
     /\ sent' = sent \o [i \in 1 .. n |-> 2 * r]
     /\ IF n = left[r]
        THEN /\ FinishHead("ok")
             /\ room' \in BOOLEAN
             /\ UNCHANGED pollout
             /\ IF count > 0
                THEN count' = count - 1 /\ UNCHANGED <<writing, pc>>
                ELSE WriteReturns
        ELSE /\ room' = FALSE
             /\ pollout' = TRUE
             /\ WriteReturns
             /\ UNCHANGED <<write_queue, write_completed_queue, error, fed>>
  /\ UNCHANGED <<kernel, flags, reqs, nreqs, pq, caller, called>>

\* Mutant: the watcher is not started.
PollAgainNever == pollout

PollAgain == TRUE

\* EAGAIN: POLLOUT is watched.
WriteAgain ==
  /\ writing # "no" /\ write_queue # <<>>
  /\ kernel = "connecting" \/ (kernel = "connected" /\ ~room)
  /\ pollout' = PollAgain
  /\ WriteReturns
  /\ UNCHANGED <<conn, flags, reqs, queues, fed, pq, caller, called>>

WriteError ==
  /\ writing # "no" /\ write_queue # <<>>
  /\ kernel = "broken"
  /\ FinishHead("error")
  /\ write_queue_size' = SizeAfterError(Head(write_queue))
  /\ pollout' = FALSE
  /\ WriteReturns
  /\ UNCHANGED <<conn, flags, reqs, nreqs, left, sent, pq, caller, called>>

WriteEmpty ==
  /\ writing # "no" /\ write_queue = <<>>
  /\ WriteReturns
  /\ UNCHANGED <<conn, flags, reqs, queues, watch, pq, caller, called>>

-----------------------------------------------------------------------------
(* uv__stream_io.                                                          *)

\* The loop calls uv__stream_io for an event, or with POLLOUT from
\* pending_queue; uv__stream_connect comes first while connecting.
Io(pending) ==
  /\ pc = "loop" /\ writing = "no"
  /\ IF pending THEN fed
     ELSE pollout /\ (kernel = "broken" \/ (kernel = "connected" /\ room))
  /\ fed' = (fed /\ ~pending)
  /\ pc' = IF connect_req = "pending" THEN "connect" ELSE "read"
  /\ UNCHANGED <<conn, flags, reqs, queues, pollout, pq, count, writing, caller, called>>

\* uv__stream_connect up to the callback.  SO_ERROR is 0 while the connection
\* is still being set up.
StreamConnect ==
  /\ pc = "connect"
  /\ LET failed == delayed_error \/ kernel = "broken" IN
     /\ connect_req' = IF failed THEN "error" ELSE "ok"
     /\ pollout' = (pollout /\ ~failed /\ write_queue # <<>>)
     /\ pc' = IF failed THEN "connect_failed_cb" ELSE "connect_cb"
  /\ delayed_error' = FALSE
  /\ UNCHANGED <<conn, flags, shutdown_req, queues, fed, pq, count, writing,
                 caller, called>>

\* Mutants: the order is swapped; the requests stay where they are.
FlushInFront ==
  /\ write_completed_queue' = write_queue \o write_completed_queue
  /\ write_queue' = <<>>
  /\ error' = [r \in Reqs |-> IF r \in ToSet(write_queue) THEN "canceled"
                              ELSE error[r]]

FlushNothing ==
  UNCHANGED <<write_queue, write_completed_queue, error>>

\* uv__stream_flush_write_queue(UV_ECANCELED)
FlushWriteQueue ==
  /\ write_completed_queue' = write_completed_queue \o write_queue
  /\ write_queue' = <<>>
  /\ error' = [r \in Reqs |-> IF r \in ToSet(write_queue) THEN "canceled"
                              ELSE error[r]]

\* The connect callback returns.
ConnectReturn ==
  /\ writing = "no"
  /\ \/ /\ pc = "connect_cb" \/ (pc = "connect_failed_cb" /\ ~fd)
        /\ pc' = "loop"
        /\ UNCHANGED <<write_queue, write_completed_queue, error, caller>>
     \/ /\ pc = "connect_failed_cb" /\ fd
        /\ FlushWriteQueue
        /\ pc' = "callbacks"
        /\ caller' = "connect"
  /\ UNCHANGED <<conn, flags, reqs, nreqs, left, write_queue_size, sent, watch,
                 pq, count, writing, called>>

\* The reading side may call user code, which may close the stream.
StreamRead(calls) ==
  /\ pc = "read"
  /\ IF calls THEN pc' = "read_cb" /\ UNCHANGED <<writing, count>>
     ELSE pc' = "write" /\ writing' = "io" /\ count' = Batch
  /\ caller' = "io"
  /\ UNCHANGED <<conn, flags, reqs, queues, watch, pq, called>>

ReadReturn ==
  /\ pc = "read_cb" /\ writing = "no"
  /\ IF fd THEN pc' = "write" /\ writing' = "io" /\ count' = Batch
     ELSE pc' = "loop" /\ UNCHANGED <<writing, count>>
  /\ UNCHANGED <<conn, flags, reqs, queues, watch, pq, caller, called>>

-----------------------------------------------------------------------------
(* uv__write_callbacks, called in three places, and uv__drain.             *)

WriteCallbacksBegin ==
  /\ pc = "callbacks" /\ writing = "no"
  /\ pq' = write_completed_queue
  /\ write_completed_queue' = <<>>
  /\ pc' = "callback"
  /\ UNCHANGED <<conn, flags, reqs, nreqs, left, error, write_queue, caller,
                 write_queue_size, sent, watch, count, writing, called>>

\* The request is taken off, its remaining bytes too, and its callback runs.
WriteCallback ==
  /\ pc = "callback" /\ pq # <<>>
  /\ write_queue_size' = write_queue_size - left[Head(pq)]
  /\ left' = [left EXCEPT ![Head(pq)] = 0]
  /\ called' = Append(called, Head(pq))
  /\ pq' = Tail(pq)
  /\ pc' = "write_cb"
  /\ UNCHANGED <<conn, flags, reqs, nreqs, error, write_queue, caller,
                 write_completed_queue, sent, watch, count, writing>>

WriteCallbackReturn ==
  /\ pc = "write_cb" /\ writing = "no"
  /\ pc' = "callback"
  /\ UNCHANGED <<conn, flags, reqs, queues, watch, pq, count, writing, caller,
                 called>>

\* Mutant: requests that still wait do not matter.
DrainsAlways == caller \in {"destroy", "io"}

\* uv__drain is called next.
Drains == caller = "destroy" \/ (caller = "io" /\ write_queue = <<>>)

WriteCallbacksEnd ==
  /\ pc = "callback" /\ pq = <<>>
  /\ pc' = IF Drains THEN "drain" ELSE "loop"
  /\ UNCHANGED <<conn, flags, reqs, queues, watch, pq, count, writing, caller,
                 called>>

\* Where uv__drain returns to.
Drained == IF caller = "destroy" THEN "close_cb" ELSE "loop"

\* uv__drain; shutdown(2) may fail.
Drain(ok) ==
  /\ pc = "drain"
  /\ pollout' = (pollout /\ hstate # "open")
  /\ IF shutdown_req # "pending"
     THEN pc' = Drained /\ UNCHANGED <<shutdown_req, shut>>
     ELSE /\ ok => hstate = "open" /\ kernel # "broken"
          /\ shutdown_req' = IF ok THEN "ok"
                             ELSE IF hstate = "open" THEN "error" ELSE "canceled"
          /\ shut' = ok
          /\ pc' = "shutdown_cb"
  /\ UNCHANGED <<conn, hstate, fd, writable, connect_req, delayed_error, queues,
                 fed, pq, count, writing, caller, called>>

ShutdownReturn ==
  /\ pc = "shutdown_cb" /\ writing = "no"
  /\ pc' = Drained
  /\ UNCHANGED <<conn, flags, reqs, queues, watch, pq, count, writing, caller,
                 called>>

-----------------------------------------------------------------------------
(* uv__finish_close and uv__stream_destroy.                                *)

Destroy ==
  /\ pc = "loop" /\ writing = "no"
  /\ hstate = "closing"
  /\ hstate' = "closed"
  /\ IF connect_req = "pending"
     THEN pc' = "destroy_connect_cb" /\ connect_req' = "canceled"
     ELSE pc' = "flush" /\ UNCHANGED connect_req
  /\ caller' = "destroy"
  /\ UNCHANGED <<conn, fd, writable, shut, delayed_error, shutdown_req, queues,
                 watch, pq, count, writing, called>>

DestroyFlush ==
  /\ pc \in {"destroy_connect_cb", "flush"}
  /\ FlushWriteQueue
  /\ pc' = "callbacks"
  /\ UNCHANGED <<conn, flags, reqs, nreqs, left, write_queue_size, sent, watch,
                 pq, count, writing, caller, called>>

CloseCallback ==
  /\ pc = "close_cb"
  /\ hstate' = "gone"
  /\ pc' = "loop"
  /\ UNCHANGED <<conn, fd, writable, shut, reqs, queues, watch, pq, count,
                 writing, caller, called>>

-----------------------------------------------------------------------------
User ==
  \/ \E refused \in BOOLEAN : Connect(refused)
  \/ \E size \in 1 .. MaxSize : Write(size)
  \/ TryWrite \/ Shutdown \/ Close

KernelWrite ==
  \/ \E n \in 1 .. MaxSize : WriteSome(n)
  \/ WriteAgain \/ WriteError \/ WriteEmpty

LoopStep ==
  \/ \E pending \in BOOLEAN : Io(pending)
  \/ StreamConnect \/ ConnectReturn
  \/ \E calls \in BOOLEAN : StreamRead(calls)
  \/ ReadReturn
  \/ WriteCallbacksBegin \/ WriteCallback \/ WriteCallbackReturn
  \/ WriteCallbacksEnd
  \/ \E ok \in BOOLEAN : Drain(ok)
  \/ ShutdownReturn
  \/ Destroy \/ DestroyFlush \/ CloseCallback

Next == User \/ Established \/ Break \/ PeerReads \/ KernelWrite \/ LoopStep

Spec == Init /\ [][Next]_vars

(***************************************************************************)
(* Fairness.  The loop runs and callbacks return; a connection is set up   *)
(* or broken at last and the peer reads.  Nobody has to call the API.      *)
(***************************************************************************)
FairSpec ==
  /\ Spec
  /\ WF_vars(LoopStep) /\ WF_vars(KernelWrite)
  /\ WF_vars(kernel = "connecting" /\ (Established \/ Break))
  /\ WF_vars(PeerReads)

-----------------------------------------------------------------------------
(* Properties.                                                             *)

\* Bytes of the requests of a sequence.
Bytes(s) ==
  LET sum[n \in 0 .. Len(s)] == IF n = 0 THEN 0 ELSE sum[n - 1] + left[s[n]]
  IN  sum[Len(s)]

\* The types of flags, places and small counters.
ControlTypes ==
  /\ kernel \in {"none", "connecting", "connected", "broken"}
  /\ hstate \in {"open", "closing", "closed", "gone"}
  /\ room \in BOOLEAN /\ fd \in BOOLEAN /\ writable \in BOOLEAN
  /\ shut \in BOOLEAN /\ delayed_error \in BOOLEAN
  /\ pollout \in BOOLEAN /\ fed \in BOOLEAN
  /\ connect_req \in {"unused", "pending", "ok", "error", "canceled"}
  /\ shutdown_req \in {"unused", "pending", "ok", "error", "canceled"}
  /\ count \in 0 .. Batch /\ writing \in {"no", "user", "io"}
  /\ pc \in Callbacks \cup {"loop", "connect", "read", "write", "callbacks",
                            "callback", "drain", "flush", "close_cb"}
  /\ caller \in {"io", "connect", "destroy"}

(***************************************************************************)
(* Type invariant of the stream, its requests and the locals of            *)
(* uv__stream_io; write_queue_size, a size_t, never goes below zero.       *)
(***************************************************************************)
TypeOK ==
  /\ ControlTypes
  /\ nreqs \in 0 .. MaxWrites
  /\ left \in [Reqs -> 0 .. MaxSize]
  /\ error \in [Reqs -> {"none", "ok", "error", "canceled"}]
  /\ write_queue \in Seq(Reqs) /\ write_completed_queue \in Seq(Reqs)
  /\ pq \in Seq(Reqs) /\ called \in Seq(Reqs)
  /\ write_queue_size \in 0 .. MaxWrites * MaxSize

(***************************************************************************)
(* Every request accepted by uv_write is in exactly one place, and the     *)
(* places are in the order of the calls: called back, in the local list of *)
(* uv__write_callbacks, completed, or waiting.  So every callback comes    *)
(* once and in order, whatever fails or is closed meanwhile.               *)
(***************************************************************************)
RequestsInOrder ==
  called \o pq \o write_completed_queue \o write_queue = [i \in 1 .. nreqs |-> i]

(***************************************************************************)
(* write_queue_size, which uv_write and uv_try_write go by and users read, *)
(* is the number of bytes of all requests that were not called back and    *)
(* not taken by the kernel, failed ones included.                          *)
(***************************************************************************)
QueueSizeExact ==
  write_queue_size = Bytes(write_queue) + Bytes(write_completed_queue) + Bytes(pq)

(***************************************************************************)
(* Bytes reach the kernel in the order of the calls of uv_write and        *)
(* uv_try_write, although uv_try_write does not queue.                     *)
(***************************************************************************)
BytesInOrder == \A i \in 2 .. Len(sent) : sent[i - 1] <= sent[i]

(***************************************************************************)
(* shutdown(2) comes after the last byte of every request accepted before: *)
(* a shut stream has no request waiting.                                   *)
(***************************************************************************)
ShutdownIsLast == shut => write_queue = <<>>

(***************************************************************************)
(* After the close callback no request of the stream is outstanding.       *)
(***************************************************************************)
NothingOutstanding ==
  hstate = "gone" =>
    /\ Len(called) = nreqs
    /\ connect_req # "pending" /\ shutdown_req # "pending"
    /\ write_queue_size = 0

(***************************************************************************)
(* Liveness: every accepted write is called back, also when errors stop    *)
(* the watcher with requests still waiting.                                *)
(***************************************************************************)
WritesAreCalledBack == \A r \in Reqs : (nreqs >= r) ~> (r \in ToSet(called))

-----------------------------------------------------------------------------
(* Proofs.  Inv is the inductive invariant: the properties above, and what *)
(* they rest on.                                                           *)

(***************************************************************************)
(* The local list of uv__write_callbacks is empty outside of it, and       *)
(* uv__write is called by user code or by uv__stream_io.                   *)
(***************************************************************************)
PlaceInv ==
  /\ pq # <<>> => pc \in {"callback", "write_cb"}
  /\ writing = "io" <=> pc = "write"
  /\ writing = "user" => pc \in Callbacks \cup {"loop"}
  /\ pc = "connect" => connect_req = "pending"

(***************************************************************************)
(* uv_shutdown ends the writing for good, and uv__drain comes when nothing *)
(* waits to be written, or from uv__stream_destroy.                        *)
(***************************************************************************)
ShutInv ==
  /\ writable => connect_req # "unused"
  /\ shutdown_req # "unused" => ~writable /\ connect_req # "unused"
  /\ shut => shutdown_req # "unused"
  /\ pc = "drain" /\ caller = "io" => write_queue = <<>>
  /\ pc = "drain" => caller # "connect"

(***************************************************************************)
(* What uv_close leaves running, and what uv__stream_destroy has emptied   *)
(* at each of its steps.                                                   *)
(***************************************************************************)
CloseInv ==
  /\ hstate # "open" => ~fd /\ ~writable /\ ~pollout /\ ~fed /\ writing = "no"
  /\ hstate \in {"open", "closing"} => caller # "destroy"
  /\ hstate = "open" => pc \notin {"destroy_connect_cb", "flush", "close_cb"}
  /\ hstate = "closing" =>
       pc \in {"loop", "connect_cb", "connect_failed_cb", "read_cb", "write_cb",
               "shutdown_cb", "callback", "drain"}
  /\ hstate = "closed" =>
       /\ caller = "destroy" /\ connect_req # "pending"
       /\ pc \in {"destroy_connect_cb", "flush", "callbacks", "callback",
                  "write_cb", "drain", "shutdown_cb", "close_cb"}
       /\ pc \notin {"destroy_connect_cb", "flush"} => write_queue = <<>>
       /\ pc \notin {"destroy_connect_cb", "flush", "callbacks"} =>
            write_completed_queue = <<>>
       /\ pc \in {"shutdown_cb", "close_cb"} => shutdown_req # "pending"
  /\ hstate = "gone" =>
       /\ pc = "loop" /\ caller = "destroy"
       /\ write_queue = <<>> /\ write_completed_queue = <<>>
       /\ connect_req # "pending" /\ shutdown_req # "pending"

(***************************************************************************)
(* The connection exists from uv_tcp_connect on; it is broken when         *)
(* connecting failed, and after uv_close.                                  *)
(***************************************************************************)
KernelInv ==
  /\ kernel = "none" <=> connect_req = "unused"
  /\ kernel = "none" => nreqs = 0
  /\ delayed_error \/ pc = "connect_failed_cb" => kernel = "broken"
  /\ hstate # "open" => kernel \in {"none", "broken"}

(***************************************************************************)
(* s[i] is the sum of the first i members of l, for all i up to n.         *)
(***************************************************************************)
AreSums(s, l, n) ==
  /\ s[0] = 0
  /\ \A i \in 0 .. n : s[i] \in Nat
  /\ \A i \in 1 .. n : s[i] = s[i - 1] + l[i]
  /\ \A i, j \in 0 .. n : i <= j => s[i] <= s[j]

(***************************************************************************)
(* write_queue_size is a sum: sums[i] are the bytes left of the requests   *)
(* 1 .. i.  Requests that were called back have none left.                 *)
(***************************************************************************)
PartialSums(sums) ==
  /\ AreSums(sums, left, nreqs)
  /\ sums[Len(called)] = 0
  /\ \A i \in 0 .. nreqs : sums[i] <= i * MaxSize
  /\ sums[nreqs] = write_queue_size

SizeInv ==
  \E sums \in [0 .. nreqs -> 0 .. MaxWrites * MaxSize] : PartialSums(sums)

(***************************************************************************)
(* While the connection is not broken, only waiting requests have bytes    *)
(* left, and no byte that ranks behind theirs has been sent.               *)
(***************************************************************************)
SentInv ==
  /\ sent \in Seq(Nat)
  /\ \A i \in 1 .. Len(sent) : sent[i] <= 2 * nreqs + 1
  /\ kernel # "broken" =>
       \A r \in 1 .. nreqs : left[r] > 0 =>
         /\ r > Len(called) + Len(pq) + Len(write_completed_queue)
         /\ \A i \in 1 .. Len(sent) : sent[i] <= 2 * r

Inv == /\ TypeOK /\ PlaceInv /\ RequestsInOrder /\ ShutInv /\ ShutdownIsLast
       /\ CloseInv /\ KernelInv /\ SizeInv /\ SentInv /\ BytesInOrder

\* What the proofs assume of the constants.
BoundsAreNumbers == MaxWrites \in Nat /\ MaxSize \in Nat /\ Batch \in Nat

(***************************************************************************)
(* Moving the head of one queue to the end of the one before it changes    *)
(* nothing in the order of both.                                           *)
(***************************************************************************)
LEMMA MoveHead ==
  ASSUME NEW S, NEW s \in Seq(S), NEW t \in Seq(S), t # <<>>
  PROVE  /\ Head(t) \in S /\ Tail(t) \in Seq(S) /\ Append(s, Head(t)) \in Seq(S)
         /\ Append(s, Head(t)) \o Tail(t) = s \o t
<1> DEFINE u == Append(s, Head(t))
<1>1. /\ Head(t) \in S /\ Tail(t) \in Seq(S)
      /\ Len(Tail(t)) = Len(t) - 1
      /\ \A i \in 1 .. Len(Tail(t)) : Tail(t)[i] = t[i + 1]
  BY HeadTailProperties
<1>2. /\ u \in Seq(S) /\ Len(u) = Len(s) + 1
      /\ \A i \in 1 .. Len(s) : u[i] = s[i]
      /\ u[Len(s) + 1] = Head(t)
  BY <1>1, AppendProperties
<1>3. /\ Len(s) \in Nat /\ Len(t) \in Nat \ {0} /\ Head(t) = t[1]
  BY LenProperties, EmptySeq
<1>4. /\ u \o Tail(t) \in Seq(S) /\ s \o t \in Seq(S)
      /\ Len(u \o Tail(t)) = Len(s) + Len(t)
      /\ Len(s \o t) = Len(s) + Len(t)
  BY <1>1, <1>2, <1>3, ConcatProperties
<1>5. ASSUME NEW i \in 1 .. Len(s) + Len(t)
      PROVE  (u \o Tail(t))[i] = (s \o t)[i]
  <2>1. (s \o t)[i] = IF i <= Len(s) THEN s[i] ELSE t[i - Len(s)]
    BY ConcatProperties
  <2>2. i \in 1 .. Len(u) + Len(Tail(t))
    BY <1>1, <1>2, <1>3
  <2>3. (u \o Tail(t))[i] = IF i <= Len(u) THEN u[i] ELSE Tail(t)[i - Len(u)]
    BY <1>1, <1>2, <2>2, ConcatProperties
  <2>4. CASE i <= Len(s)
    BY <1>2, <1>3, <2>1, <2>3, <2>4
  <2>5. CASE i = Len(s) + 1
    BY <1>2, <1>3, <2>1, <2>3, <2>5
  <2>6. CASE i > Len(s) + 1
    BY <1>1, <1>2, <1>3, <2>1, <2>3, <2>6
  <2> QED
    BY <1>3, <2>4, <2>5, <2>6
<1> HIDE DEF u
<1>6. u \o Tail(t) = s \o t
  BY <1>4, <1>5, SeqEqual
<1> QED
  BY <1>1, <1>2, <1>6 DEF u

(***************************************************************************)
(* The numbers 1 .. n with n + 1 behind them.                              *)
(***************************************************************************)
LEMMA OneMore ==
  ASSUME NEW n \in Nat
  PROVE  Append([i \in 1 .. n |-> i], n + 1) = [i \in 1 .. n + 1 |-> i]
  OBVIOUS

(***************************************************************************)
(* Every step keeps the requests in their order: it puts a new one behind  *)
(* all others, moves the head of one queue to the end of the one before    *)
(* it, or moves a whole queue.                                             *)
(***************************************************************************)
LEMMA OrderNext ==
  ASSUME BoundsAreNumbers, Inv, [Next]_vars
  PROVE  /\ write_queue' \in Seq(Reqs) /\ write_completed_queue' \in Seq(Reqs)
         /\ pq' \in Seq(Reqs) /\ called' \in Seq(Reqs)
         /\ nreqs' \in 0 .. MaxWrites
         /\ RequestsInOrder'
<1> DEFINE Goal == /\ write_queue' \in Seq(Reqs)
                   /\ write_completed_queue' \in Seq(Reqs)
                   /\ pq' \in Seq(Reqs) /\ called' \in Seq(Reqs)
                   /\ nreqs' \in 0 .. MaxWrites
                   /\ RequestsInOrder'
           ahead == called \o pq
           done == ahead \o write_completed_queue
<1> SUFFICES Goal
  OBVIOUS
<1>1. /\ write_queue \in Seq(Reqs) /\ write_completed_queue \in Seq(Reqs)
      /\ pq \in Seq(Reqs) /\ called \in Seq(Reqs)
      /\ nreqs \in 0 .. MaxWrites /\ MaxWrites \in Nat
  BY DEF Inv, TypeOK, BoundsAreNumbers
<1>c. done \o write_queue = [i \in 1 .. nreqs |-> i]
  BY DEF Inv, RequestsInOrder
<1>2. ahead \in Seq(Reqs) /\ done \in Seq(Reqs)
  BY <1>1, ConcatProperties
<1>a. \A s, t, u \in Seq(Reqs) : (s \o t) \o u = s \o (t \o u)
  BY ConcatAssociative
<1>b. \A s, t \in Seq(Reqs) :
        t # <<>> => /\ Head(t) \in Reqs /\ Tail(t) \in Seq(Reqs)
                    /\ Append(s, Head(t)) \in Seq(Reqs)
                    /\ Append(s, Head(t)) \o Tail(t) = s \o t
  BY MoveHead
<1>d. done \o write_queue = ahead \o (write_completed_queue \o write_queue)
  <2> HIDE DEF ahead
  <2> QED
    BY <1>a, <1>1, <1>2, SMTT(30)
<1>e. \A u \in Seq(Reqs) :
        (done \o write_queue) \o u = done \o (write_queue \o u)
  <2>1. done \in Seq(Reqs) /\ write_queue \in Seq(Reqs)
    BY <1>1, <1>2
  <2> HIDE DEF ahead, done
  <2> QED
    BY <1>a, <2>1
<1>3. CASE UNCHANGED <<nreqs, called, pq, write_completed_queue, write_queue>>
  BY <1>1, <1>c, <1>3 DEF RequestsInOrder
<1>4. ASSUME NEW size \in 1 .. MaxSize, Write(size)
      PROVE  Goal
  <2>1. /\ nreqs < MaxWrites /\ nreqs' = nreqs + 1
        /\ write_queue' = Append(write_queue, nreqs + 1)
        /\ UNCHANGED <<called, pq, write_completed_queue>>
    BY <1>4 DEF Write
  <2>2. nreqs + 1 \in Reqs /\ nreqs' \in 0 .. MaxWrites
    BY <1>1, <2>1 DEF Reqs
  <2>3. write_queue' \in Seq(Reqs)
    BY <1>1, <2>1, <2>2, AppendProperties
  <2>4. done \o Append(write_queue, nreqs + 1) = Append(done \o write_queue, nreqs + 1)
    <3>1. <<nreqs + 1>> \in Seq(Reqs)
      BY <2>2
    <3>2. done \o (write_queue \o <<nreqs + 1>>)
            = (done \o write_queue) \o <<nreqs + 1>>
      BY <1>e, <3>1
    <3>3. done \o write_queue \in Seq(Reqs)
      BY <1>1, <1>2, ConcatProperties
    <3>4. \A s \in Seq(Reqs) : Append(s, nreqs + 1) = s \o <<nreqs + 1>>
      BY <2>2, AppendIsConcat
    <3> HIDE DEF done
    <3> QED
      BY <1>1, <3>2, <3>3, <3>4, Zenon
  <2>5. RequestsInOrder'
    <3>1. Append(done \o write_queue, nreqs + 1) = [i \in 1 .. nreqs + 1 |-> i]
      BY <1>1, <1>c, OneMore
    <3> QED
      BY <2>1, <2>4, <3>1 DEF RequestsInOrder
  <2> QED
    BY <1>1, <2>1, <2>2, <2>3, <2>5
<1>5. ASSUME write_queue # <<>>, UNCHANGED <<nreqs, called, pq>>,
             write_queue' = Tail(write_queue),
             write_completed_queue' = Append(write_completed_queue, Head(write_queue))
      PROVE  Goal
  <2> DEFINE later == write_completed_queue'
  <2>1. /\ Tail(write_queue) \in Seq(Reqs) /\ later \in Seq(Reqs)
        /\ later \o Tail(write_queue) = write_completed_queue \o write_queue
    BY <1>1, <1>b, <1>5
  <2>2. (ahead \o later) \o Tail(write_queue) = ahead \o (later \o Tail(write_queue))
    BY <1>a, <1>2, <2>1
  <2>3. done \o write_queue = ahead \o (write_completed_queue \o write_queue)
    BY <1>d
  <2>4. (ahead \o later) \o Tail(write_queue) = [i \in 1 .. nreqs |-> i]
    BY <1>c, <2>1, <2>2, <2>3
  <2> QED
    BY <1>1, <1>5, <2>1, <2>4 DEF RequestsInOrder
<1>6. ASSUME write_completed_queue' = write_completed_queue \o write_queue,
             write_queue' = <<>>, UNCHANGED <<nreqs, called, pq>>
      PROVE  Goal
  <2> DEFINE later == write_completed_queue \o write_queue
  <2>1. later \in Seq(Reqs) /\ <<>> \in Seq(Reqs)
    BY <1>1, ConcatProperties, EmptySeq
  <2>2. ahead \o later = done \o write_queue
    BY <1>d
  <2>3. (ahead \o later) \o <<>> = ahead \o later
    <3>1. ahead \o later \in Seq(Reqs)
      BY <1>2, <2>1, ConcatProperties
    <3> QED
      BY <3>1, ConcatEmptySeq
  <2> QED
    BY <1>1, <1>c, <1>6, <2>1, <2>2, <2>3 DEF RequestsInOrder
<1>7. CASE WriteCallbacksBegin
  <2>1. /\ pq = <<>> /\ pq' = write_completed_queue /\ write_completed_queue' = <<>>
        /\ UNCHANGED <<nreqs, called, write_queue>>
    BY <1>7 DEF WriteCallbacksBegin, Inv, PlaceInv
  <2>2. called \o pq = called /\ done \o <<>> = done /\ <<>> \in Seq(Reqs)
    BY <1>1, <1>2, <2>1, ConcatEmptySeq, EmptySeq
  <2>3. ((called \o write_completed_queue) \o <<>>) \o write_queue = done \o write_queue
    BY <2>2
  <2> QED
    BY <1>1, <1>c, <2>1, <2>2, <2>3 DEF RequestsInOrder
<1>8. CASE WriteCallback
  <2>1. /\ pq # <<>> /\ called' = Append(called, Head(pq)) /\ pq' = Tail(pq)
        /\ UNCHANGED <<nreqs, write_completed_queue, write_queue>>
    BY <1>8 DEF WriteCallback
  <2>2. /\ called' \in Seq(Reqs) /\ pq' \in Seq(Reqs)
        /\ called' \o pq' = ahead
    BY <1>1, <1>b, <2>1
  <2> QED
    BY <1>1, <1>c, <2>1, <2>2 DEF RequestsInOrder
<1> HIDE DEF Goal, ahead, done
<1>9. ASSUME NEW n \in 1 .. MaxSize, WriteSome(n) PROVE Goal
  BY <1>3, <1>5, <1>9 DEF WriteSome, FinishHead, Goal
<1>10. CASE WriteError
  BY <1>5, <1>10 DEF WriteError, FinishHead, Goal
<1>11. CASE ConnectReturn
  BY <1>3, <1>6, <1>11 DEF ConnectReturn, FlushWriteQueue, Goal
<1>12. CASE DestroyFlush
  BY <1>6, <1>12 DEF DestroyFlush, FlushWriteQueue, Goal
<1>13. CASE User
  BY <1>3, <1>4, <1>13 DEF User, Connect, TryWrite, Shutdown, Close, queues, Goal
<1>14. CASE Established \/ Break \/ PeerReads \/ WriteAgain \/ WriteEmpty
  BY <1>3, <1>14 DEF Established, Break, PeerReads, WriteAgain, WriteEmpty, queues,
     Goal
<1>15. CASE LoopStep
  BY <1>3, <1>7, <1>8, <1>11, <1>12, <1>15 DEF LoopStep, Io, StreamConnect,
     StreamRead, ReadReturn, WriteCallbackReturn, WriteCallbacksEnd, Drain,
     ShutdownReturn, Destroy, CloseCallback, queues, Goal
<1>16. CASE UNCHANGED vars
  BY <1>3, <1>16 DEF vars, queues, Goal
<1>17. CASE KernelWrite
  BY <1>9, <1>10, <1>14, <1>17 DEF KernelWrite
<1> QED
  BY <1>13, <1>14, <1>15, <1>16, <1>17 DEF Next

\* What is said of flags and places.
ControlInv ==
  ControlTypes /\ PlaceInv /\ ShutInv /\ ShutdownIsLast /\ CloseInv /\ KernelInv

(***************************************************************************)
(* Every step keeps what is said of flags and places.                      *)
(***************************************************************************)
LEMMA ControlNext ==
  ASSUME BoundsAreNumbers, ControlInv, write_queue \in Seq(Reqs),
         nreqs \in Nat, [Next]_vars
  PROVE  ControlInv'
<1> DEFINE Goal == ControlInv'
<1> SUFFICES Goal
  OBVIOUS
<1> USE DEF ControlInv, ControlTypes, PlaceInv, ShutInv, ShutdownIsLast, CloseInv,
            KernelInv, Callbacks, InUserCode, conn, flags, reqs, queues, watch,
            BoundsAreNumbers
<1>1. CASE Established
  BY <1>1 DEF Established
<1>2. CASE Break
  BY <1>2 DEF Break
<1>3. CASE PeerReads
  BY <1>3 DEF PeerReads
<1>4. ASSUME NEW refused \in BOOLEAN, Connect(refused) PROVE Goal
  BY <1>4 DEF Connect
<1>5. ASSUME NEW size \in 1 .. MaxSize, Write(size) PROVE Goal
  <2>1. ControlTypes'
    <3>1. /\ UNCHANGED <<hstate, room, fd, writable, shut, delayed_error,
                       connect_req, shutdown_req, kernel, fed, pc, caller>>
          /\ pollout' \in BOOLEAN
          /\ count' \in {count, Batch} /\ writing' \in {writing, "user"}
      BY <1>5 DEF Write
    <3> QED
      BY <3>1
  <2>2. PlaceInv' /\ ShutInv' /\ ShutdownIsLast'
    BY <1>5 DEF Write
  <2>3. CloseInv'
    BY <1>5 DEF Write
  <2>4. KernelInv'
    BY <1>5 DEF Write
  <2> QED
    BY <2>1, <2>2, <2>3, <2>4
<1>6. CASE TryWrite
  BY <1>6 DEF TryWrite
<1>7. CASE Shutdown
  <2>1. ControlTypes'
    <3>1. /\ UNCHANGED <<kernel, room, hstate, fd, shut, delayed_error,
                       connect_req, pollout, count, writing, pc, caller>>
          /\ shutdown_req' = "pending" /\ ~writable' /\ writable' \in BOOLEAN
          /\ fed' \in BOOLEAN
      BY <1>7 DEF Shutdown
    <3> QED
      BY <3>1
  <2>2. PlaceInv' /\ ShutInv' /\ ShutdownIsLast'
    BY <1>7 DEF Shutdown
  <2>3. CloseInv'
    BY <1>7 DEF Shutdown
  <2>4. KernelInv'
    BY <1>7 DEF Shutdown
  <2> QED
    BY <2>1, <2>2, <2>3, <2>4
<1>8. CASE Close
  <2>1. ControlTypes'
    <3>1. /\ UNCHANGED <<room, shut, delayed_error, connect_req, shutdown_req,
                       count, writing, pc, caller>>
          /\ hstate' = "closing" /\ kernel' \in {"none", "broken"}
          /\ fd' \in BOOLEAN /\ writable' \in BOOLEAN
          /\ pollout' \in BOOLEAN /\ fed' \in BOOLEAN
      BY <1>8 DEF Close
    <3> QED
      BY <3>1
  <2>2. PlaceInv' /\ ShutInv' /\ ShutdownIsLast'
    BY <1>8 DEF Close
  <2>3. CloseInv'
    BY <1>8 DEF Close
  <2>4. KernelInv'
    BY <1>8 DEF Close
  <2> QED
    BY <2>1, <2>2, <2>3, <2>4
<1>9. ASSUME NEW n \in 1 .. MaxSize, WriteSome(n) PROVE Goal
  <2>1. ControlTypes'
    <3>1. /\ UNCHANGED <<hstate, fd, writable, shut, delayed_error,
                       connect_req, shutdown_req, kernel, caller>>
          /\ room' \in BOOLEAN
          /\ pollout' \in BOOLEAN
          /\ fed' \in BOOLEAN
          /\ count' \in 0 .. Batch /\ writing' \in {writing, "no"}
          /\ pc' \in {pc, "callbacks"}
      <4>1. CASE n = left[Head(write_queue)]
        <5>1. \/ /\ count > 0 /\ count' = count - 1
                 /\ writing' = writing /\ pc' = pc
              \/ WriteReturns
          BY <1>9, <4>1 DEF WriteSome
        <5>2. /\ count' \in 0 .. Batch /\ writing' \in {writing, "no"}
              /\ pc' \in {pc, "callbacks"}
          BY <5>1 DEF WriteReturns
        <5>3. UNCHANGED <<hstate, fd, writable, shut, delayed_error, pollout,
                          connect_req, shutdown_req, kernel, caller>>
          BY <1>9, <4>1 DEF WriteSome
        <5>4. room' \in BOOLEAN
          BY <1>9, <4>1 DEF WriteSome
        <5>5. fed' = TRUE
          BY <1>9, <4>1 DEF WriteSome, FinishHead
        <5>6. pollout' \in BOOLEAN /\ fed' \in BOOLEAN
          BY <5>3, <5>5
        <5> QED
          BY <5>2, <5>3, <5>4, <5>6
      <4>2. CASE n # left[Head(write_queue)]
        <5>1. /\ UNCHANGED <<hstate, fd, writable, shut, delayed_error,
                             connect_req, shutdown_req, kernel, caller, fed>>
              /\ room' = FALSE /\ pollout' = TRUE /\ WriteReturns
          BY <1>9, <4>2 DEF WriteSome
        <5>2. /\ count' \in 0 .. Batch /\ writing' \in {writing, "no"}
              /\ pc' \in {pc, "callbacks"}
          BY <5>1 DEF WriteReturns
        <5> QED
          BY <5>1, <5>2
      <4> QED
        BY <4>1, <4>2
    <3> QED
      BY <3>1
  <2>2. PlaceInv' /\ ShutInv' /\ ShutdownIsLast'
    BY <1>9 DEF WriteSome, FinishHead, WriteReturns
  <2>3. CloseInv'
    BY <1>9 DEF WriteSome, FinishHead, WriteReturns
  <2>4. KernelInv'
    BY <1>9 DEF WriteSome, FinishHead, WriteReturns
  <2> QED
    BY <2>1, <2>2, <2>3, <2>4
<1>10. CASE WriteAgain
  BY <1>10 DEF WriteAgain, WriteReturns, PollAgain
<1>11. CASE WriteError
  <2>1. ControlTypes'
    <3>1. /\ UNCHANGED <<hstate, room, fd, writable, shut, delayed_error,
                       connect_req, shutdown_req, kernel, caller>>
          /\ pollout' \in BOOLEAN /\ fed' \in BOOLEAN
          /\ count' = 0 /\ writing' = "no" /\ pc' \in {pc, "callbacks"}
      BY <1>11 DEF WriteError, FinishHead, WriteReturns
    <3> QED
      BY <3>1
  <2>2. PlaceInv' /\ ShutInv' /\ ShutdownIsLast'
    BY <1>11 DEF WriteError, FinishHead, WriteReturns
  <2>3. CloseInv'
    BY <1>11 DEF WriteError, FinishHead, WriteReturns
  <2>4. KernelInv'
    BY <1>11 DEF WriteError, FinishHead, WriteReturns
  <2> QED
    BY <2>1, <2>2, <2>3, <2>4
<1>12. CASE WriteEmpty
  BY <1>12 DEF WriteEmpty, WriteReturns
<1>13. ASSUME NEW pending \in BOOLEAN, Io(pending) PROVE Goal
  BY <1>13 DEF Io
<1>14. CASE StreamConnect
  <2>1. ControlTypes'
    BY <1>14, ZenonT(60) DEF StreamConnect
  <2>2. PlaceInv' /\ ShutInv' /\ ShutdownIsLast'
    BY <1>14 DEF StreamConnect
  <2>3. CloseInv'
    BY <1>14 DEF StreamConnect
  <2>4. KernelInv'
    <3>1. /\ UNCHANGED <<kernel, nreqs, hstate>>
          /\ connect_req' # "unused" /\ ~delayed_error'
          /\ pc' = "connect_failed_cb" => delayed_error \/ kernel = "broken"
      BY <1>14 DEF StreamConnect
    <3>2. connect_req # "unused"
      BY <1>14 DEF StreamConnect
    <3> QED
      BY <3>1, <3>2
  <2> QED
    BY <2>1, <2>2, <2>3, <2>4
<1>15. CASE ConnectReturn
  BY <1>15 DEF ConnectReturn, FlushWriteQueue
<1>16. ASSUME NEW calls \in BOOLEAN, StreamRead(calls) PROVE Goal
  BY <1>16 DEF StreamRead
<1>17. CASE ReadReturn
  BY <1>17 DEF ReadReturn
<1>18. CASE WriteCallbacksBegin
  BY <1>18 DEF WriteCallbacksBegin
<1>19. CASE WriteCallback
  BY <1>19 DEF WriteCallback
<1>20. CASE WriteCallbackReturn
  BY <1>20 DEF WriteCallbackReturn
<1>21. CASE WriteCallbacksEnd
  BY <1>21 DEF WriteCallbacksEnd, Drains
<1>22. ASSUME NEW ok \in BOOLEAN, Drain(ok) PROVE Goal
  BY <1>22 DEF Drain, Drained
<1>23. CASE ShutdownReturn
  BY <1>23 DEF ShutdownReturn, Drained
<1>24. CASE Destroy
  BY <1>24 DEF Destroy
<1>25. CASE DestroyFlush
  BY <1>25 DEF DestroyFlush, FlushWriteQueue
<1>26. CASE CloseCallback
  BY <1>26 DEF CloseCallback
<1>27. CASE UNCHANGED vars
  BY <1>27 DEF vars
<1> HIDE DEF Goal, ControlInv
<1>28. CASE User
  BY <1>4, <1>5, <1>6, <1>7, <1>8, <1>28 DEF User
<1>29. CASE KernelWrite
  BY <1>9, <1>10, <1>11, <1>12, <1>29 DEF KernelWrite
<1>30. CASE LoopStep
  BY <1>13, <1>14, <1>15, <1>16, <1>17, <1>18, <1>19, <1>20, <1>21, <1>22, <1>23,
     <1>24, <1>25, <1>26, <1>30 DEF LoopStep
<1> QED
  BY <1>1, <1>2, <1>3, <1>27, <1>28, <1>29, <1>30 DEF Next

(***************************************************************************)
(* Where a request is says what number it has: the queues hold consecutive *)
(* numbers, from the first request that was not called back to the last.   *)
(***************************************************************************)
LEMMA QueueNumbers ==
  ASSUME BoundsAreNumbers, Inv
  PROVE  /\ nreqs = Len(called) + Len(pq) + Len(write_completed_queue)
                      + Len(write_queue)
         /\ Len(called) \in Nat /\ Len(pq) \in Nat
         /\ Len(write_completed_queue) \in Nat /\ Len(write_queue) \in Nat
         /\ \A k \in 1 .. Len(pq) : pq[k] = Len(called) + k
         /\ \A k \in 1 .. Len(write_completed_queue) :
              write_completed_queue[k] = Len(called) + Len(pq) + k
         /\ \A k \in 1 .. Len(write_queue) :
              write_queue[k]
                = Len(called) + Len(pq) + Len(write_completed_queue) + k
<1> DEFINE ahead == called \o pq
           done == ahead \o write_completed_queue
           all == done \o write_queue
<1>a. \A s, t \in Seq(Reqs) :
        /\ s \o t \in Seq(Reqs) /\ Len(s \o t) = Len(s) + Len(t)
        /\ \A i \in 1 .. Len(s) + Len(t) :
             (s \o t)[i] = IF i <= Len(s) THEN s[i] ELSE t[i - Len(s)]
  BY ConcatProperties
<1>1. /\ write_queue \in Seq(Reqs) /\ write_completed_queue \in Seq(Reqs)
      /\ pq \in Seq(Reqs) /\ called \in Seq(Reqs) /\ nreqs \in Nat
  BY DEF Inv, TypeOK, BoundsAreNumbers
<1>2. all = [i \in 1 .. nreqs |-> i]
  BY DEF Inv, RequestsInOrder
<1>3. Len(all) = nreqs /\ \A i \in 1 .. nreqs : all[i] = i
  <2> HIDE DEF all
  <2> QED
    BY <1>1, <1>2
<1>4. /\ ahead \in Seq(Reqs) /\ Len(ahead) = Len(called) + Len(pq)
      /\ \A i \in 1 .. Len(called) + Len(pq) :
           ahead[i] = IF i <= Len(called) THEN called[i] ELSE pq[i - Len(called)]
  BY <1>1, <1>a
<1> HIDE DEF ahead
<1>5. /\ done \in Seq(Reqs) /\ Len(done) = Len(ahead) + Len(write_completed_queue)
      /\ \A i \in 1 .. Len(ahead) + Len(write_completed_queue) :
           done[i] = IF i <= Len(ahead) THEN ahead[i]
                     ELSE write_completed_queue[i - Len(ahead)]
  BY <1>1, <1>4, <1>a
<1> HIDE DEF done
<1>6. /\ Len(all) = Len(done) + Len(write_queue)
      /\ \A i \in 1 .. Len(done) + Len(write_queue) :
           all[i] = IF i <= Len(done) THEN done[i] ELSE write_queue[i - Len(done)]
  BY <1>1, <1>5, <1>a
<1> HIDE DEF all
<1>7. /\ Len(called) \in Nat /\ Len(pq) \in Nat
      /\ Len(write_completed_queue) \in Nat /\ Len(write_queue) \in Nat
  BY <1>1, LenProperties
<1>8. /\ Len(ahead) = Len(called) + Len(pq)
      /\ Len(done) = Len(called) + Len(pq) + Len(write_completed_queue)
      /\ nreqs = Len(called) + Len(pq) + Len(write_completed_queue) + Len(write_queue)
  BY <1>3, <1>4, <1>5, <1>6, <1>7
<1>9. ASSUME NEW k \in 1 .. Len(pq)
      PROVE  pq[k] = Len(called) + k
  <2> DEFINE i == Len(called) + k
  <2>1. all[i] = i
    BY <1>3, <1>7, <1>8
  <2>2. all[i] = done[i]
    BY <1>6, <1>7, <1>8
  <2>3. done[i] = ahead[i]
    BY <1>5, <1>7, <1>8
  <2>4. ahead[i] = pq[k]
    BY <1>4, <1>7
  <2> QED
    BY <2>1, <2>2, <2>3, <2>4
<1>10. ASSUME NEW k \in 1 .. Len(write_completed_queue)
       PROVE  write_completed_queue[k] = Len(ahead) + k
  <2> DEFINE i == Len(ahead) + k
  <2>1. all[i] = i
    BY <1>3, <1>7, <1>8
  <2>2. all[i] = done[i]
    BY <1>6, <1>7, <1>8
  <2>3. done[i] = write_completed_queue[k]
    BY <1>5, <1>7, <1>8
  <2> QED
    BY <2>1, <2>2, <2>3
<1>11. ASSUME NEW k \in 1 .. Len(write_queue)
       PROVE  write_queue[k] = Len(done) + k
  <2> DEFINE i == Len(done) + k
  <2>1. all[i] = i
    BY <1>3, <1>7, <1>8
  <2>2. all[i] = write_queue[k]
    BY <1>6, <1>7, <1>8
  <2> QED
    BY <2>1, <2>2
<1> QED
  BY <1>7, <1>8, <1>9, <1>10, <1>11

(***************************************************************************)
(* So the head of the write queue is the first request that is not         *)
(* completed, the head of the local list the first not called back.        *)
(***************************************************************************)
LEMMA HeadNumbers ==
  ASSUME BoundsAreNumbers, Inv
  PROVE  /\ nreqs = Len(called) + Len(pq) + Len(write_completed_queue)
                      + Len(write_queue)
         /\ Len(called) \in Nat /\ Len(pq) \in Nat
         /\ Len(write_completed_queue) \in Nat /\ Len(write_queue) \in Nat
         /\ pq # <<>> => Head(pq) = Len(called) + 1 /\ Len(pq) > 0
         /\ write_queue # <<>> =>
              /\ Len(write_queue) > 0
              /\ Head(write_queue)
                   = Len(called) + Len(pq) + Len(write_completed_queue) + 1
<1>1. /\ write_queue \in Seq(Reqs) /\ pq \in Seq(Reqs)
  BY DEF Inv, TypeOK
<1>2. /\ pq # <<>> => Len(pq) > 0 /\ Head(pq) = pq[1]
      /\ write_queue # <<>> =>
           Len(write_queue) > 0 /\ Head(write_queue) = write_queue[1]
  BY <1>1, LenProperties, EmptySeq
<1> QED
  BY <1>2, QueueNumbers

(***************************************************************************)
(* Taking n off l[r] takes n off every sum from r on.                      *)
(***************************************************************************)
SumsLess(s, r, n, N) == [i \in 0 .. N |-> IF i < r THEN s[i] ELSE s[i] - n]

LEMMA LessIsSum ==
  ASSUME NEW N \in Nat, NEW r \in 1 .. N, NEW n \in Nat, 1 .. N \subseteq Reqs,
         NEW l \in [Reqs -> Nat], n <= l[r], NEW s, AreSums(s, l, N)
  PROVE  /\ AreSums(SumsLess(s, r, n, N), [l EXCEPT ![r] = @ - n], N)
         /\ \A i \in 0 .. N : SumsLess(s, r, n, N)[i] = IF i < r THEN s[i] ELSE s[i] - n
<1> DEFINE t == SumsLess(s, r, n, N)
           k == [l EXCEPT ![r] = @ - n]
<1>c. /\ \A i \in 1 .. N : l[i] \in Nat
      /\ \A i \in 1 .. N : k[i] = IF i = r THEN l[r] - n ELSE l[i]
  OBVIOUS
<1>a. \A i \in 0 .. N : t[i] = IF i < r THEN s[i] ELSE s[i] - n
  BY DEF SumsLess
<1>b. /\ s[0] = 0 /\ \A i \in 0 .. N : s[i] \in Nat
      /\ \A i \in 1 .. N : s[i] = s[i - 1] + l[i]
      /\ \A i, j \in 0 .. N : i <= j => s[i] <= s[j]
  BY DEF AreSums
<1> HIDE DEF t, k
<1>1. /\ r \in 0 .. N /\ r - 1 \in 0 .. N /\ s[r] = s[r - 1] + l[r]
      /\ s[r] \in Nat /\ s[r - 1] \in Nat /\ l[r] \in Nat
  BY <1>b, <1>c
<1>2. ASSUME NEW i \in 0 .. N, i >= r
      PROVE  s[r - 1] <= s[i] - n /\ s[i] \in Nat /\ t[i] = s[i] - n
  <2>1. s[r] <= s[i] /\ s[i] \in Nat /\ t[i] = s[i] - n
    BY <1>a, <1>b, <1>1, <1>2
  <2> QED
    BY <1>1, <2>1
<1>3. ASSUME NEW i \in 0 .. N, ~(i >= r)
      PROVE  s[i] <= s[r - 1] /\ s[i] \in Nat /\ t[i] = s[i]
  <2>1. i <= r - 1 /\ i < r
    BY <1>3
  <2> QED
    BY <1>a, <1>b, <1>1, <1>3, <2>1
<1>4. ASSUME NEW i \in 0 .. N
      PROVE  t[i] \in Nat /\ t[i] <= s[i]
  BY <1>1, <1>2, <1>3
<1>5. ASSUME NEW i \in 1 .. N
      PROVE  t[i] = t[i - 1] + k[i]
  <2>1. /\ i \in 0 .. N /\ i - 1 \in 0 .. N /\ s[i] = s[i - 1] + l[i]
        /\ s[i] \in Nat /\ s[i - 1] \in Nat /\ l[i] \in Nat
    BY <1>b, <1>c
  <2>2. /\ t[i] = IF i < r THEN s[i] ELSE s[i] - n
        /\ t[i - 1] = IF i - 1 < r THEN s[i - 1] ELSE s[i - 1] - n
        /\ k[i] = IF i = r THEN l[r] - n ELSE l[i]
    BY <1>a, <1>c, <2>1
  <2> QED
    BY <2>1, <2>2
<1>6. ASSUME NEW i \in 0 .. N, NEW j \in 0 .. N, i <= j
      PROVE  t[i] <= t[j]
  <2>1. s[i] <= s[j] /\ s[i] \in Nat /\ s[j] \in Nat
    BY <1>b, <1>6
  <2>2. CASE i >= r
    BY <1>2, <1>6, <2>1, <2>2
  <2>3. CASE ~(i >= r) /\ j >= r
    BY <1>1, <1>2, <1>3, <2>3
  <2>4. CASE ~(j >= r)
    BY <1>3, <1>6, <2>1, <2>4
  <2> QED
    BY <2>2, <2>3, <2>4
<1>7. t[0] = 0
  BY <1>a, <1>b
<1>8. AreSums(t, k, N)
  BY <1>4, <1>5, <1>6, <1>7 DEF AreSums
<1> QED
  BY <1>a, <1>8 DEF t, k

(***************************************************************************)
(* The kernel takes n bytes of request r, or the callback all of them.     *)
(***************************************************************************)
LEMMA TakeOff ==
  ASSUME BoundsAreNumbers, Inv, NEW r \in 1 .. nreqs, NEW n \in Nat, n <= left[r],
         nreqs' = nreqs, left' = [left EXCEPT ![r] = @ - n],
         write_queue_size' = write_queue_size - n,
         \/ r > Len(called) /\ called' = called
         \/ r = Len(called) + 1 /\ n = left[r] /\ Len(called') = r
  PROVE  /\ SizeInv'
         /\ write_queue_size' \in 0 .. MaxWrites * MaxSize
         /\ left' \in [Reqs -> 0 .. MaxSize]
<1> DEFINE Most == MaxWrites * MaxSize
<1>1. PICK sums \in [0 .. nreqs -> 0 .. Most] : PartialSums(sums)
  BY DEF Inv, SizeInv
<1>2. /\ nreqs \in Nat /\ r \in Nat /\ Len(called) \in Nat
      /\ MaxWrites \in Nat /\ MaxSize \in Nat /\ 1 .. nreqs \subseteq Reqs
      /\ left \in [Reqs -> 0 .. MaxSize] /\ Most \in Nat
  <2>1. /\ nreqs \in 0 .. MaxWrites /\ left \in [Reqs -> 0 .. MaxSize]
        /\ MaxWrites \in Nat /\ MaxSize \in Nat
    BY DEF Inv, TypeOK, BoundsAreNumbers
  <2>2. nreqs \in Nat /\ r \in Nat /\ Most \in Nat
    BY <2>1
  <2>3. 1 .. nreqs \subseteq Reqs
    BY <2>1 DEF Reqs
  <2>4. Len(called) \in Nat
    BY HeadNumbers
  <2> QED
    BY <2>1, <2>2, <2>3, <2>4
<1>3. left[r] \in Nat /\ n \in Nat /\ n <= left[r] /\ left[r] <= MaxSize
  BY <1>2
<1>4. /\ AreSums(sums, left, nreqs) /\ sums[Len(called)] = 0
      /\ \A i \in 0 .. nreqs : sums[i] <= i * MaxSize
      /\ sums[nreqs] = write_queue_size
  BY <1>1 DEF PartialSums
<1> DEFINE f == SumsLess(sums, r, n, nreqs)
<1>6. /\ AreSums(f, left', nreqs)
      /\ \A i \in 0 .. nreqs : f[i] = IF i < r THEN sums[i] ELSE sums[i] - n
  <2>1. left \in [Reqs -> Nat]
    BY <1>2
  <2>2. AreSums(sums, left, nreqs) /\ nreqs \in Nat /\ n \in Nat /\ n <= left[r]
    BY <1>2, <1>3, <1>4, Zenon
  <2>3. 1 .. nreqs \subseteq Reqs
    BY <1>2, Zenon
  <2>4. ASSUME NEW l, NEW s, l \in [Reqs -> Nat], n <= l[r], AreSums(s, l, nreqs)
        PROVE  /\ AreSums(SumsLess(s, r, n, nreqs), [l EXCEPT ![r] = @ - n], nreqs)
               /\ \A i \in 0 .. nreqs :
                    SumsLess(s, r, n, nreqs)[i] = IF i < r THEN s[i] ELSE s[i] - n
    BY ONLY <2>2, <2>3, <2>4, r \in 1 .. nreqs, LessIsSum, ZenonT(60)
  <2>5. /\ AreSums(f, [left EXCEPT ![r] = @ - n], nreqs)
        /\ \A i \in 0 .. nreqs : f[i] = IF i < r THEN sums[i] ELSE sums[i] - n
    BY <2>1, <2>2, <2>4, Zenon
  <2> QED
    BY <2>5
<1>7. DOMAIN f = 0 .. nreqs /\ f = [i \in 0 .. nreqs |-> f[i]]
  BY DEF SumsLess
<1> HIDE DEF f, Most
<1>8. \A i \in 0 .. nreqs : /\ sums[i] \in 0 .. Most /\ sums[i] \in Nat
                           /\ f[i] \in Nat /\ f[i] <= sums[i]
  <2> TAKE i \in 0 .. nreqs
  <2>1. sums[i] \in 0 .. Most
    BY <1>1
  <2>2. sums[i] \in Nat /\ f[i] \in Nat
    BY <1>4, <1>6 DEF AreSums
  <2>3. f[i] <= sums[i]
    <3>1. f[i] = IF i < r THEN sums[i] ELSE sums[i] - n
      BY <1>6
    <3> QED
      BY <1>3, <2>2, <3>1
  <2> QED
    BY <2>1, <2>2, <2>3
<1>9. f \in [0 .. nreqs -> 0 .. Most]
  BY <1>2, <1>7, <1>8
<1>10. left' \in [Reqs -> 0 .. MaxSize]
  <2>1. left[r] - n \in 0 .. MaxSize
    <3>1. MaxSize \in Nat
      BY DEF BoundsAreNumbers
    <3> QED
      BY <1>3, <3>1
  <2> QED
    BY <1>2, <2>1
<1>11. f[Len(called')] = 0
  <2>1. CASE r > Len(called) /\ called' = called
    <3>1. Len(called) \in 0 .. nreqs /\ Len(called) < r
      BY <1>2, <2>1
    <3>2. f[Len(called)] = 0
      BY <1>4, <1>6, <3>1
    <3> QED
      BY <2>1, <3>2
  <2>2. CASE r = Len(called) + 1 /\ n = left[r] /\ Len(called') = r
    <3>1. sums[r] = sums[r - 1] + left[r]
      BY <1>4 DEF AreSums
    <3>2. sums[r] = n /\ r \in 0 .. nreqs
      BY <1>2, <1>3, <1>4, <2>2, <3>1
    <3> QED
      BY <1>2, <1>3, <1>6, <2>2, <3>2, SMTT(30)
  <2> QED
    BY <2>1, <2>2
<1>12. ASSUME NEW i \in 0 .. nreqs
       PROVE  f[i] <= i * MaxSize
  <2>1. i * MaxSize \in Nat
    BY <1>2
  <2> QED
    BY <1>4, <1>8, <2>1
<1>13. f[nreqs] = write_queue_size' /\ write_queue_size' \in 0 .. Most
  <2>1. nreqs \in 0 .. nreqs /\ ~(nreqs < r)
    BY <1>2
  <2>2. f[nreqs] = write_queue_size'
    BY <1>4, <1>6, <2>1
  <2> QED
    BY <1>9, <2>1, <2>2
<1>14. SizeInv'
  <2>1. /\ AreSums(f, left', nreqs') /\ f[Len(called')] = 0
        /\ \A i \in 0 .. nreqs' : f[i] <= i * MaxSize
        /\ f[nreqs'] = write_queue_size'
    BY <1>6, <1>11, <1>12, <1>13
  <2>2. f \in [0 .. nreqs' -> 0 .. MaxWrites * MaxSize]
    BY <1>9 DEF Most
  <2> QED
    BY <2>1, <2>2 DEF SizeInv, PartialSums
<1> QED
  BY <1>10, <1>13, <1>14 DEF Most


(***************************************************************************)
(* uv_write puts the bytes of the new request behind all others.           *)
(***************************************************************************)
LEMMA PutOn ==
  ASSUME BoundsAreNumbers, Inv, NEW size \in 1 .. MaxSize, nreqs < MaxWrites,
         nreqs' = nreqs + 1, left' = [left EXCEPT ![nreqs + 1] = size],
         write_queue_size' = write_queue_size + size, called' = called
  PROVE  /\ SizeInv'
         /\ write_queue_size' \in 0 .. MaxWrites * MaxSize
         /\ left' \in [Reqs -> 0 .. MaxSize]
<1> DEFINE Most == MaxWrites * MaxSize
           N == nreqs + 1
<1>1. PICK sums \in [0 .. nreqs -> 0 .. Most] : PartialSums(sums)
  BY DEF Inv, SizeInv
<1>2. /\ nreqs \in Nat /\ N \in Nat /\ N \in Reqs
      /\ MaxWrites \in Nat /\ MaxSize \in Nat /\ size \in Nat /\ size <= MaxSize
      /\ left \in [Reqs -> 0 .. MaxSize] /\ size \in 0 .. MaxSize
  BY DEF Inv, TypeOK, BoundsAreNumbers, Reqs
<1>3. Len(called) \in 0 .. nreqs
  BY HeadNumbers
<1>4. /\ sums[0] = 0 /\ sums[Len(called)] = 0
      /\ \A i \in 0 .. nreqs : sums[i] \in Nat /\ sums[i] <= i * MaxSize
      /\ \A i \in 1 .. nreqs : sums[i] = sums[i - 1] + left[i]
      /\ \A i, j \in 0 .. nreqs : i <= j => sums[i] <= sums[j]
      /\ sums[nreqs] = write_queue_size
  BY <1>1 DEF PartialSums, AreSums
<1>5. Most \in Nat /\ N * MaxSize \in Nat /\ N * MaxSize <= Most
      /\ N * MaxSize = nreqs * MaxSize + MaxSize
  <2>1. PICK k \in Nat : MaxWrites = N + k
    <3>1. MaxWrites - N \in Nat /\ MaxWrites = N + (MaxWrites - N)
      BY <1>2
    <3> QED
      BY <3>1
  <2>2. k * MaxSize \in Nat /\ N * MaxSize \in Nat
    BY <1>2
  <2>3. Most = N * MaxSize + k * MaxSize
    BY <1>2, <2>1
  <2>4. N * MaxSize = nreqs * MaxSize + MaxSize
    BY <1>2
  <2> HIDE DEF Most, N
  <2> QED
    BY <2>2, <2>3, <2>4
<1> DEFINE f == [i \in 0 .. N |-> IF i = N THEN write_queue_size + size ELSE sums[i]]
<1>6. \A i \in 0 .. N : f[i] = IF i = N THEN write_queue_size + size ELSE sums[i]
  OBVIOUS
<1>7. DOMAIN f = 0 .. N /\ f = [i \in 0 .. N |-> f[i]]
  OBVIOUS
<1>8. /\ left' \in [Reqs -> 0 .. MaxSize] /\ left'[N] = size
      /\ \A i \in 1 .. nreqs : left'[i] = left[i]
  BY <1>2
<1> HIDE DEF f, Most
<1>9. ASSUME NEW i \in 0 .. N
      PROVE  \/ i = N /\ f[i] = write_queue_size + size
             \/ i \in 0 .. nreqs /\ f[i] = sums[i]
  BY <1>2, <1>6
<1>10. write_queue_size \in Nat /\ write_queue_size + size \in Nat
       /\ write_queue_size <= nreqs * MaxSize
  BY <1>2, <1>4
<1>11. \A i \in 0 .. N : f[i] \in Nat
  BY <1>4, <1>9, <1>10
<1>12. \A i \in 0 .. N : f[i] <= i * MaxSize
  <2>1. write_queue_size + size <= N * MaxSize
    BY <1>2, <1>5, <1>10
  <2> QED
    BY <1>4, <1>9, <2>1
<1>13. ASSUME NEW i \in 1 .. N
       PROVE  f[i] = f[i - 1] + left'[i]
  <2>1. CASE i = N
    <3>1. f[N] = write_queue_size + size /\ f[nreqs] = sums[nreqs]
      BY <1>2, <1>6
    <3> QED
      BY <1>2, <1>4, <1>8, <2>1, <3>1
  <2>2. CASE i # N
    <3>1. i \in 1 .. nreqs /\ i \in 0 .. N /\ i - 1 \in 0 .. N /\ i - 1 # N
      BY <1>2, <2>2
    <3>2. f[i] = sums[i] /\ f[i - 1] = sums[i - 1]
      BY <1>6, <2>2, <3>1
    <3> QED
      BY <1>4, <1>8, <3>1, <3>2
  <2> QED
    BY <2>1, <2>2
<1>14. ASSUME NEW i \in 0 .. N, NEW j \in 0 .. N, i <= j
       PROVE  f[i] <= f[j]
  <2>1. CASE j \in 0 .. nreqs /\ f[j] = sums[j]
    <3>1. i \in 0 .. nreqs /\ f[i] = sums[i]
      BY <1>2, <1>9, <1>14, <2>1
    <3> QED
      BY <1>4, <1>14, <2>1, <3>1
  <2>2. CASE j = N /\ f[j] = write_queue_size + size
    <3>1. CASE i = N
      BY <1>11, <2>2, <3>1
    <3>2. CASE i \in 0 .. nreqs /\ f[i] = sums[i]
      <4>1. sums[i] <= sums[nreqs] /\ sums[i] \in Nat
        BY <1>2, <1>4, <3>2
      <4> QED
        BY <1>2, <1>4, <1>10, <2>2, <3>2, <4>1
    <3> QED
      BY <1>9, <3>1, <3>2
  <2> QED
    BY <1>9, <2>1, <2>2
<1>15. /\ f[0] = 0 /\ f[Len(called')] = 0 /\ f[N] = write_queue_size'
  <2>1. 0 \in 0 .. N /\ 0 # N /\ Len(called) \in 0 .. N /\ Len(called) # N
        /\ N \in 0 .. N
    BY <1>2, <1>3
  <2> QED
    BY <1>4, <1>6, <2>1
<1>16. \A i \in 0 .. N : f[i] \in 0 .. Most
  <2> TAKE i \in 0 .. N
  <2>1. CASE i = N
    BY <1>5, <1>11, <1>12, <2>1
  <2>2. CASE i # N
    <3>1. f[i] = sums[i] /\ i \in 0 .. nreqs
      BY <1>9, <2>2
    <3> QED
      BY <1>1, <3>1
  <2> QED
    BY <2>1, <2>2
<1>17. f \in [0 .. N -> 0 .. Most]
  BY <1>7, <1>16
<1>18. SizeInv'
  <2>1. AreSums(f, left', N)
    BY <1>11, <1>13, <1>14, <1>15 DEF AreSums
  <2>2. /\ AreSums(f, left', nreqs') /\ f[Len(called')] = 0
        /\ \A i \in 0 .. nreqs' : f[i] <= i * MaxSize
        /\ f[nreqs'] = write_queue_size'
    BY <1>12, <1>15, <2>1
  <2>3. f \in [0 .. nreqs' -> 0 .. MaxWrites * MaxSize]
    BY <1>17 DEF Most
  <2> QED
    BY <2>2, <2>3 DEF SizeInv, PartialSums
<1>19. write_queue_size' \in 0 .. Most
  BY <1>2, <1>15, <1>16
<1> QED
  BY <1>8, <1>18, <1>19 DEF Most

(***************************************************************************)
(* Every step keeps write_queue_size the sum of the bytes left.            *)
(***************************************************************************)
LEMMA SizeNext ==
  ASSUME BoundsAreNumbers, Inv, [Next]_vars
  PROVE  /\ SizeInv'
         /\ write_queue_size' \in 0 .. MaxWrites * MaxSize
         /\ left' \in [Reqs -> 0 .. MaxSize]
<1> DEFINE Goal == /\ SizeInv'
                   /\ write_queue_size' \in 0 .. MaxWrites * MaxSize
                   /\ left' \in [Reqs -> 0 .. MaxSize]
<1> SUFFICES Goal
  OBVIOUS
<1>1. CASE UNCHANGED <<nreqs, left, write_queue_size, called>>
  <2>1. SizeInv'
    BY <1>1 DEF Inv, SizeInv, PartialSums, AreSums
  <2> QED
    BY <1>1, <2>1 DEF Inv, TypeOK
<1>2. ASSUME NEW size \in 1 .. MaxSize, Write(size)
      PROVE  Goal
  <2>1. /\ nreqs < MaxWrites /\ nreqs' = nreqs + 1
        /\ left' = [left EXCEPT ![nreqs + 1] = size]
        /\ write_queue_size' = write_queue_size + size /\ called' = called
    BY <1>2 DEF Write
  <2> QED
    BY <2>1, PutOn
<1>3. ASSUME NEW n \in 1 .. MaxSize, WriteSome(n)
      PROVE  Goal
  <2> DEFINE r == Head(write_queue)
  <2>1. /\ write_queue # <<>> /\ n \in 1 .. left[r]
        /\ nreqs' = nreqs /\ called' = called
        /\ left' = [left EXCEPT ![r] = @ - n]
        /\ write_queue_size' = write_queue_size - n
    BY <1>3 DEF WriteSome
  <2>2. r \in 1 .. nreqs /\ r > Len(called)
    <3> HIDE DEF r
    <3>1. /\ r = Len(called) + Len(pq) + Len(write_completed_queue) + 1
          /\ Len(write_queue) > 0
      BY <2>1, HeadNumbers DEF r
    <3> QED
      BY <3>1, HeadNumbers
  <2>3. n \in Nat /\ n <= left[r]
    <3>1. r \in Reqs /\ left[r] \in Nat
      BY <2>2, SMTT(30) DEF Inv, TypeOK, BoundsAreNumbers, Reqs
    <3> QED
      BY <2>1, <3>1
  <2> HIDE DEF r
  <2> QED
    BY <2>1, <2>2, <2>3, TakeOff
<1>4. CASE WriteCallback
  <2> DEFINE r == Head(pq)
  <2>1. /\ pq # <<>> /\ nreqs' = nreqs /\ called' = Append(called, r)
        /\ left' = [left EXCEPT ![r] = 0]
        /\ write_queue_size' = write_queue_size - left[r]
    BY <1>4 DEF WriteCallback
  <2>2. r = Len(called) + 1 /\ r \in 1 .. nreqs
    <3> HIDE DEF r
    <3>1. r = Len(called) + 1 /\ Len(pq) > 0
      BY <2>1, HeadNumbers DEF r
    <3> QED
      BY <3>1, HeadNumbers
  <2>3. /\ left \in [Reqs -> 0 .. MaxSize] /\ nreqs \in 0 .. MaxWrites
        /\ called \in Seq(Reqs) /\ MaxWrites \in Nat /\ MaxSize \in Nat
    BY DEF Inv, TypeOK, BoundsAreNumbers
  <2> HIDE DEF r
  <2>4. r \in Reqs
    BY <2>2, <2>3 DEF Reqs
  <2>5. left[r] \in Nat /\ left[r] <= left[r] /\ left[r] - left[r] = 0
    BY <2>3, <2>4
  <2>6. Len(called') = r
    <3>1. Len(called') = Len(called) + 1
      BY <2>1, <2>3, <2>4, AppendProperties
    <3> QED
      BY <2>2, <3>1
  <2>7. left' = [left EXCEPT ![r] = @ - left[r]]
    BY <2>1, <2>5
  <2> QED
    BY <2>1, <2>2, <2>5, <2>6, <2>7, TakeOff
<1> HIDE DEF Goal
<1>5. CASE User
  BY <1>1, <1>2, <1>5 DEF User, Connect, TryWrite, Shutdown, Close, queues
<1>6. CASE KernelWrite
  BY <1>1, <1>3, <1>6 DEF KernelWrite, WriteAgain, WriteError, WriteEmpty,
     SizeAfterError, queues
<1>7. CASE Established \/ Break \/ PeerReads
  BY <1>1, <1>7 DEF Established, Break, PeerReads, queues
<1>8. CASE LoopStep
  BY <1>1, <1>4, <1>8 DEF LoopStep, Io, StreamConnect, ConnectReturn, StreamRead,
     ReadReturn, WriteCallbacksBegin, WriteCallbackReturn, WriteCallbacksEnd,
     Drain, ShutdownReturn, Destroy, DestroyFlush, CloseCallback, queues
<1>9. CASE UNCHANGED vars
  BY <1>1, <1>9 DEF vars, queues
<1> QED
  BY <1>5, <1>6, <1>7, <1>8, <1>9 DEF Next

(***************************************************************************)
(* Bytes that rank as high as any that was sent keep the order.            *)
(***************************************************************************)
LEMMA SentMore ==
  ASSUME Inv, NEW m \in Nat, \A i \in 1 .. Len(sent) : sent[i] <= m,
         sent' \in Seq(Nat), Len(sent') >= Len(sent),
         \A i \in 1 .. Len(sent) : sent'[i] = sent[i],
         \A i \in Len(sent) + 1 .. Len(sent') : sent'[i] = m
  PROVE  /\ BytesInOrder'
         /\ \A i \in 1 .. Len(sent') : \/ sent'[i] = m
                                       \/ i \in 1 .. Len(sent) /\ sent'[i] = sent[i]
<1>1. /\ sent \in Seq(Nat) /\ Len(sent) \in Nat /\ Len(sent') \in Nat
      /\ \A i \in 1 .. Len(sent) : sent[i] \in Nat
      /\ \A i \in 2 .. Len(sent) : sent[i - 1] <= sent[i]
  BY DEF Inv, SentInv, BytesInOrder
<1>2. ASSUME NEW i \in 1 .. Len(sent')
      PROVE  \/ i > Len(sent) /\ sent'[i] = m
             \/ i \in 1 .. Len(sent) /\ sent'[i] = sent[i]
  BY <1>1
<1>3. ASSUME NEW i \in 2 .. Len(sent')
      PROVE  sent'[i - 1] <= sent'[i]
  <2>1. i \in 1 .. Len(sent') /\ i - 1 \in 1 .. Len(sent')
    BY <1>1
  <2>2. CASE i > Len(sent) /\ sent'[i] = m
    <3>1. sent'[i - 1] = m \/ (i - 1 \in 1 .. Len(sent) /\ sent'[i - 1] = sent[i - 1])
      BY <1>2, <2>1
    <3> QED
      BY <2>2, <3>1
  <2>3. CASE i \in 1 .. Len(sent) /\ sent'[i] = sent[i]
    <3>1. i - 1 \in 1 .. Len(sent) /\ i \in 2 .. Len(sent)
      BY <2>1, <2>3
    <3> QED
      BY <1>1, <2>3, <3>1
  <2> QED
    BY <1>2, <2>1, <2>2, <2>3
<1> QED
  BY <1>2, <1>3 DEF BytesInOrder

(***************************************************************************)
(* Every step keeps the order of the bytes.                                *)
(***************************************************************************)
LEMMA SentNext ==
  ASSUME BoundsAreNumbers, Inv, [Next]_vars
  PROVE  SentInv' /\ BytesInOrder'
<1> DEFINE Goal == SentInv' /\ BytesInOrder'
           Done == Len(called) + Len(pq) + Len(write_completed_queue)
<1> SUFFICES Goal
  OBVIOUS
<1>1. /\ sent \in Seq(Nat) /\ Len(sent) \in Nat
      /\ \A i \in 1 .. Len(sent) : sent[i] \in Nat /\ sent[i] <= 2 * nreqs + 1
      /\ kernel # "broken" =>
           \A q \in 1 .. nreqs : left[q] > 0 =>
             q > Done /\ \A i \in 1 .. Len(sent) : sent[i] <= 2 * q
      /\ BytesInOrder
  BY DEF Inv, SentInv
<1>2. /\ Done \in Nat /\ nreqs \in Nat /\ Done + Len(write_queue) = nreqs
      /\ Len(write_queue) \in Nat
      /\ write_queue # <<>> => Head(write_queue) = Done + 1 /\ Len(write_queue) > 0
  BY HeadNumbers
<1>3. /\ write_queue \in Seq(Reqs) /\ write_completed_queue \in Seq(Reqs)
      /\ pq \in Seq(Reqs) /\ called \in Seq(Reqs)
      /\ nreqs \in 0 .. MaxWrites /\ MaxWrites \in Nat /\ MaxSize \in Nat
      /\ left \in [Reqs -> 0 .. MaxSize]
  BY DEF Inv, TypeOK, BoundsAreNumbers
<1>4. \A q \in 1 .. nreqs : q \in Reqs /\ left[q] \in Nat
  BY <1>3 DEF Reqs
<1> HIDE DEF Done
<1>5. ASSUME UNCHANGED <<nreqs, left, sent>>, Done' = Done,
             kernel' # "broken" => kernel # "broken"
      PROVE  Goal
  BY <1>1, <1>5 DEF SentInv, BytesInOrder, Done
<1>6. ASSUME UNCHANGED <<nreqs, sent>>, kernel' = "broken" \/ nreqs = 0
      PROVE  Goal
  BY <1>1, <1>2, <1>6 DEF SentInv, BytesInOrder
<1>7. ASSUME UNCHANGED <<called, pq, write_completed_queue>>
      PROVE  Done' = Done
  BY <1>7 DEF Done
<1>8. ASSUME NEW size \in 1 .. MaxSize, Write(size)
      PROVE  Goal
  <2>1. /\ nreqs < MaxWrites /\ nreqs' = nreqs + 1
        /\ left' = [left EXCEPT ![nreqs + 1] = size]
        /\ UNCHANGED <<sent, kernel, called, pq, write_completed_queue>>
    BY <1>8 DEF Write, conn
  <2>2. Done' = Done
    BY <1>7, <2>1
  <2>3. ASSUME NEW q \in 1 .. nreqs + 1, left'[q] > 0, kernel # "broken"
        PROVE  q > Done /\ \A i \in 1 .. Len(sent) : sent[i] <= 2 * q
    <3>1. CASE q = nreqs + 1
      BY <1>1, <1>2, <3>1
    <3>2. CASE q # nreqs + 1
      <4>1. q \in 1 .. nreqs
        BY <1>2, <3>2
      <4>2. left'[q] = left[q]
        BY <1>3, <1>4, <2>1, <3>2, <4>1
      <4> QED
        BY <1>1, <2>3, <4>1, <4>2
    <3> QED
      BY <3>1, <3>2
  <2>4. \A i \in 1 .. Len(sent) : sent[i] <= 2 * (nreqs + 1) + 1
    BY <1>1, <1>2
  <2> QED
    BY <1>1, <2>1, <2>2, <2>3, <2>4 DEF SentInv, BytesInOrder, Done
<1>9. CASE TryWrite
  <2>1. /\ UNCHANGED <<nreqs, left, kernel, called, pq, write_completed_queue>>
        /\ sent' = Append(sent, 2 * nreqs + 1) /\ write_queue_size = 0
    BY <1>9 DEF TryWrite, TryWriteNow
  <2>2. /\ sent' \in Seq(Nat) /\ Len(sent') = Len(sent) + 1
        /\ \A i \in 1 .. Len(sent) : sent'[i] = sent[i]
        /\ sent'[Len(sent) + 1] = 2 * nreqs + 1
    BY <1>1, <1>2, <2>1, AppendProperties
  <2>3. \A i \in Len(sent) + 1 .. Len(sent') : sent'[i] = 2 * nreqs + 1
    BY <1>1, <2>2
  <2>4. /\ BytesInOrder'
        /\ \A i \in 1 .. Len(sent') : \/ sent'[i] = 2 * nreqs + 1
                                      \/ i \in 1 .. Len(sent) /\ sent'[i] = sent[i]
    BY <1>1, <1>2, <2>2, <2>3, SentMore, SMTT(30)
  <2>5. \A q \in 1 .. nreqs : left[q] = 0
    <3>1. PICK sums \in [0 .. nreqs -> 0 .. MaxWrites * MaxSize] : PartialSums(sums)
      BY DEF Inv, SizeInv
    <3> TAKE q \in 1 .. nreqs
    <3>2. q \in 0 .. nreqs /\ q - 1 \in 0 .. nreqs /\ nreqs \in 0 .. nreqs /\ q <= nreqs
      BY <1>2
    <3>3. /\ sums[q] = sums[q - 1] + left[q] /\ sums[q] <= sums[nreqs]
          /\ sums[q] \in Nat /\ sums[q - 1] \in Nat /\ sums[nreqs] = 0
      BY <2>1, <3>1, <3>2 DEF PartialSums, AreSums
    <3> QED
      BY <1>4, <3>3
  <2>6. \A i \in 1 .. Len(sent') : sent'[i] <= 2 * nreqs' + 1
    BY <1>1, <1>2, <2>1, <2>4
  <2>7. \A q \in 1 .. nreqs' : ~(left'[q] > 0)
    BY <1>2, <2>1, <2>5
  <2> QED
    BY <2>2, <2>4, <2>6, <2>7 DEF SentInv
<1>10. ASSUME NEW n \in 1 .. MaxSize, WriteSome(n)
       PROVE  Goal
  <2> DEFINE r == Head(write_queue)
             more == [i \in 1 .. n |-> 2 * r]
  <2>1. /\ write_queue # <<>> /\ kernel = "connected" /\ n \in 1 .. left[r]
        /\ UNCHANGED <<nreqs, kernel, called, pq>>
        /\ left' = [left EXCEPT ![r] = @ - n]
        /\ sent' = sent \o more
        /\ IF n = left[r]
           THEN write_completed_queue' = Append(write_completed_queue, r)
           ELSE write_completed_queue' = write_completed_queue
    BY <1>10 DEF WriteSome, FinishHead
  <2>2. r = Done + 1 /\ r \in 1 .. nreqs /\ r \in Nat /\ r \in Reqs
    <3>1. r = Done + 1 /\ Len(write_queue) > 0
      BY <1>2, <2>1
    <3> HIDE DEF r
    <3>2. r \in 1 .. nreqs
      BY <1>2, <3>1
    <3> QED
      BY <1>4, <3>1, <3>2
  <2> HIDE DEF r
  <2>3. n \in Nat /\ n >= 1 /\ n <= left[r] /\ left[r] \in Nat /\ left[r] > 0
    BY <1>3, <1>4, <2>1, <2>2
  <2>4. more \in Seq(Nat) /\ Len(more) = n /\ \A i \in 1 .. n : more[i] = 2 * r
    BY <2>2, <2>3
  <2> HIDE DEF more
  <2>5. /\ sent' \in Seq(Nat) /\ Len(sent') = Len(sent) + n
        /\ \A i \in 1 .. Len(sent) + n :
             sent'[i] = IF i <= Len(sent) THEN sent[i] ELSE more[i - Len(sent)]
    BY <1>1, <2>1, <2>4, ConcatProperties
  <2>6. /\ Len(sent') >= Len(sent)
        /\ \A i \in 1 .. Len(sent) : sent'[i] = sent[i]
        /\ \A i \in Len(sent) + 1 .. Len(sent') : sent'[i] = 2 * r
    <3>1. \A i \in 1 .. Len(sent) : sent'[i] = sent[i]
      BY <1>1, <2>3, <2>5, SMTT(30)
    <3>2. ASSUME NEW i \in Len(sent) + 1 .. Len(sent')
          PROVE  sent'[i] = 2 * r
      <4>1. i \in 1 .. Len(sent) + n /\ ~(i <= Len(sent)) /\ i - Len(sent) \in 1 .. n
        BY <1>1, <2>3, <2>5
      <4> QED
        BY <2>4, <2>5, <4>1
    <3> QED
      BY <1>1, <2>3, <2>5, <3>1, <3>2
  <2>7. \A i \in 1 .. Len(sent) : sent[i] <= 2 * r
    BY <1>1, <2>1, <2>2, <2>3
  <2>8. /\ BytesInOrder'
        /\ \A i \in 1 .. Len(sent') : \/ sent'[i] = 2 * r
                                      \/ i \in 1 .. Len(sent) /\ sent'[i] = sent[i]
    <3>1. 2 * r \in Nat
      BY <2>2
    <3> QED
      BY <2>5, <2>6, <2>7, <3>1, SentMore
  <2>9. ASSUME NEW q \in 1 .. nreqs, left'[q] > 0
        PROVE  q > Done' /\ \A i \in 1 .. Len(sent') : sent'[i] <= 2 * q
    <3>1. left'[q] = IF q = r THEN left[r] - n ELSE left[q]
      BY <1>3, <1>4, <2>1, <2>2
    <3>2. left[q] > 0
      BY <1>4, <2>3, <2>9, <3>1
    <3>3. q > Done /\ \A i \in 1 .. Len(sent) : sent[i] <= 2 * q
      BY <1>1, <2>1, <3>2
    <3>4. q >= r
      BY <1>2, <2>2, <3>3
    <3>5. ASSUME NEW i \in 1 .. Len(sent') PROVE sent'[i] <= 2 * q
      BY <2>2, <2>8, <3>3, <3>4
    <3>6. CASE n = left[r]
      <4>1. q # r
        BY <2>3, <2>9, <3>1, <3>6
      <4>2. Len(write_completed_queue') = Len(write_completed_queue) + 1
        BY <1>3, <2>1, <2>2, <3>6, AppendProperties
      <4>3. Done' = Done + 1
        BY <2>1, <4>2, HeadNumbers DEF Done
      <4> QED
        BY <2>2, <3>4, <3>5, <4>1, <4>3
    <3>7. CASE n # left[r]
      <4>1. Done' = Done
        BY <1>7, <2>1, <3>7
      <4> QED
        BY <3>3, <3>5, <4>1
    <3> QED
      BY <3>6, <3>7
  <2>10. \A i \in 1 .. Len(sent') : sent'[i] <= 2 * nreqs' + 1
    BY <1>1, <1>2, <2>1, <2>2, <2>8
  <2> QED
    BY <2>1, <2>5, <2>8, <2>9, <2>10 DEF SentInv, Done
<1>11. CASE ConnectReturn
  <2>1. CASE UNCHANGED <<write_queue, write_completed_queue, error, caller>>
    <3>1. UNCHANGED <<nreqs, left, sent, kernel, called, pq, write_completed_queue>>
      BY <1>11, <2>1 DEF ConnectReturn, conn
    <3> QED
      BY <1>5, <1>7, <3>1
  <2>2. CASE pc = "connect_failed_cb"
    <3>1. UNCHANGED <<nreqs, sent, kernel>> /\ kernel = "broken"
      BY <1>11, <2>2 DEF ConnectReturn, conn, Inv, KernelInv
    <3> QED
      BY <1>6, <3>1
  <2> QED
    BY <1>11, <2>1, <2>2 DEF ConnectReturn
<1>12. CASE DestroyFlush
  <2>1. hstate # "open"
    BY <1>12 DEF DestroyFlush, Inv, CloseInv
  <2>2. UNCHANGED <<nreqs, sent, kernel>> /\ (kernel = "broken" \/ nreqs = 0)
    BY <1>12, <2>1 DEF DestroyFlush, conn, Inv, KernelInv
  <2> QED
    BY <1>6, <2>2
<1>13. CASE WriteCallbacksBegin
  <2>1. /\ pq = <<>> /\ pq' = write_completed_queue /\ write_completed_queue' = <<>>
        /\ UNCHANGED <<nreqs, left, sent, kernel, called>>
    BY <1>13 DEF WriteCallbacksBegin, conn, Inv, PlaceInv
  <2>2. Len(pq) = 0 /\ Len(write_completed_queue') = 0
    BY <2>1
  <2>3. Done' = Done
    BY <2>1, <2>2, HeadNumbers DEF Done
  <2> QED
    BY <1>5, <2>1, <2>3
<1>14. CASE WriteCallback
  <2> DEFINE r == Head(pq)
  <2>1. /\ pq # <<>> /\ called' = Append(called, r) /\ pq' = Tail(pq)
        /\ left' = [left EXCEPT ![r] = 0]
        /\ UNCHANGED <<nreqs, sent, kernel, write_completed_queue>>
    BY <1>14 DEF WriteCallback, conn
  <2>2. r \in Reqs /\ Len(called') = Len(called) + 1 /\ Len(pq') = Len(pq) - 1
    BY <1>3, <2>1, HeadTailProperties, AppendProperties
  <2> HIDE DEF r
  <2>3. Done' = Done
    BY <2>1, <2>2, HeadNumbers DEF Done
  <2>4. ASSUME NEW q \in 1 .. nreqs, left'[q] > 0
        PROVE  left[q] > 0
    BY <1>3, <1>4, <2>1, <2>2, <2>4
  <2>5. kernel # "broken" =>
           \A q \in 1 .. nreqs : left'[q] > 0 =>
             q > Done' /\ \A i \in 1 .. Len(sent) : sent[i] <= 2 * q
    BY <1>1, <2>3, <2>4
  <2> QED
    BY <1>1, <2>1, <2>5 DEF SentInv, BytesInOrder, Done
<1>15. CASE WriteError
  <2>1. UNCHANGED <<nreqs, sent, kernel>> /\ kernel = "broken"
    BY <1>15 DEF WriteError, conn
  <2> QED
    BY <1>6, <2>1
<1> HIDE DEF Goal
<1>16. CASE UNCHANGED <<nreqs, left, sent, called, pq, write_completed_queue>>
            /\ (kernel' # "broken" => kernel # "broken")
  BY <1>5, <1>7, <1>16
<1>17. CASE User
  <2>1. ASSUME NEW refused \in BOOLEAN, Connect(refused) PROVE Goal
    BY <1>16, <2>1 DEF Connect, queues
  <2>2. CASE Shutdown
    BY <1>16, <2>2 DEF Shutdown, queues, conn
  <2>3. CASE Close
    BY <1>16, <2>3 DEF Close, queues
  <2> QED
    BY <1>8, <1>9, <1>17, <2>1, <2>2, <2>3 DEF User
<1>18. CASE Established \/ Break \/ PeerReads
  BY <1>16, <1>18 DEF Established, Break, PeerReads, queues
<1>19. CASE KernelWrite
  <2>1. CASE WriteAgain \/ WriteEmpty
    BY <1>16, <2>1 DEF WriteAgain, WriteEmpty, queues, conn
  <2> QED
    BY <1>10, <1>15, <1>19, <2>1 DEF KernelWrite
<1>20. CASE LoopStep
  BY <1>11, <1>12, <1>13, <1>14, <1>16, <1>20 DEF LoopStep, Io, StreamConnect,
     StreamRead, ReadReturn, WriteCallbackReturn, WriteCallbacksEnd, Drain,
     ShutdownReturn, Destroy, CloseCallback, queues, conn
<1>21. CASE UNCHANGED vars
  BY <1>16, <1>21 DEF vars, queues, conn
<1> QED
  BY <1>17, <1>18, <1>19, <1>20, <1>21 DEF Next

(***************************************************************************)
(* Inv is an inductive invariant.                                          *)
(***************************************************************************)
LEMMA InvNext ==
  ASSUME BoundsAreNumbers, Inv, [Next]_vars
  PROVE  Inv'
<1>1. ControlInv'
  <2>1. ControlInv /\ write_queue \in Seq(Reqs) /\ nreqs \in Nat
    BY DEF Inv, TypeOK, ControlInv, BoundsAreNumbers
  <2> QED
    BY <2>1, ControlNext
<1>2. /\ write_queue' \in Seq(Reqs) /\ write_completed_queue' \in Seq(Reqs)
      /\ pq' \in Seq(Reqs) /\ called' \in Seq(Reqs)
      /\ nreqs' \in 0 .. MaxWrites
      /\ RequestsInOrder'
  BY OrderNext
<1>3. /\ SizeInv' /\ write_queue_size' \in 0 .. MaxWrites * MaxSize
      /\ left' \in [Reqs -> 0 .. MaxSize]
  BY SizeNext
<1>4. SentInv' /\ BytesInOrder'
  BY SentNext
<1>5. error' \in [Reqs -> {"none", "ok", "error", "canceled"}]
  <2> DEFINE Errors == {"none", "ok", "error", "canceled"}
  <2>1. error \in [Reqs -> Errors]
    BY DEF Inv, TypeOK
  <2>2. CASE error' = error
    BY <2>1, <2>2
  <2>3. CASE error' = [r \in Reqs |-> IF r \in ToSet(write_queue) THEN "canceled"
                                      ELSE error[r]]
    BY <2>1, <2>3
  <2>4. ASSUME NEW err \in Errors,
               error' = [error EXCEPT ![Head(write_queue)] = err]
        PROVE  error' \in [Reqs -> Errors]
    BY <2>1, <2>4
  <2>5. CASE User
    BY <2>2, <2>5 DEF User, Connect, Write, TryWrite, Shutdown, Close, queues
  <2>6. CASE Established \/ Break \/ PeerReads
    BY <2>2, <2>6 DEF Established, Break, PeerReads, queues
  <2>7. CASE KernelWrite
    BY <2>2, <2>4, <2>7 DEF KernelWrite, WriteSome, WriteAgain, WriteError, WriteEmpty,
       FinishHead, queues
  <2>8. CASE LoopStep
    BY <2>2, <2>3, <2>8 DEF LoopStep, Io, StreamConnect, ConnectReturn,
       FlushWriteQueue, StreamRead, ReadReturn, WriteCallbacksBegin, WriteCallback,
       WriteCallbackReturn, WriteCallbacksEnd, Drain, ShutdownReturn, Destroy,
       DestroyFlush, CloseCallback, queues
  <2>9. CASE UNCHANGED vars
    BY <2>2, <2>9 DEF vars, queues
  <2> QED
    BY <2>5, <2>6, <2>7, <2>8, <2>9 DEF Next
<1>6. TypeOK'
  BY <1>1, <1>2, <1>3, <1>5 DEF TypeOK, ControlInv
<1> QED
  BY <1>1, <1>2, <1>3, <1>4, <1>6 DEF Inv, ControlInv

(***************************************************************************)
(* A stream before its first call.                                         *)
(***************************************************************************)
LEMMA InvInit ==
  ASSUME BoundsAreNumbers, Init
  PROVE  Inv
<1>1. MaxWrites * MaxSize \in Nat /\ MaxWrites \in Nat /\ MaxSize \in Nat
      /\ Batch \in Nat
  BY DEF BoundsAreNumbers
<1>2. TypeOK
  <2>1. /\ left \in [Reqs -> 0 .. MaxSize] /\ nreqs \in 0 .. MaxWrites
        /\ write_queue_size \in 0 .. MaxWrites * MaxSize /\ count \in 0 .. Batch
        /\ error \in [Reqs -> {"none", "ok", "error", "canceled"}]
    BY <1>1 DEF Init
  <2>2. ControlTypes
    <3>1. /\ room \in BOOLEAN /\ fd \in BOOLEAN /\ writable \in BOOLEAN
          /\ shut \in BOOLEAN /\ delayed_error \in BOOLEAN
          /\ pollout \in BOOLEAN /\ fed \in BOOLEAN
      BY Zenon DEF Init
    <3>2. /\ kernel = "none" /\ hstate = "open" /\ connect_req = "unused"
          /\ shutdown_req = "unused" /\ writing = "no" /\ pc = "loop" /\ caller = "io"
      BY DEF Init
    <3> QED
      BY <2>1, <3>1, <3>2 DEF ControlTypes
  <2>3. /\ write_queue \in Seq(Reqs) /\ write_completed_queue \in Seq(Reqs)
        /\ pq \in Seq(Reqs) /\ called \in Seq(Reqs)
    BY EmptySeq DEF Init
  <2> QED
    BY <2>1, <2>2, <2>3 DEF TypeOK
<1>3. PlaceInv /\ ShutInv /\ ShutdownIsLast /\ CloseInv /\ KernelInv
  BY DEF Init, PlaceInv, ShutInv, ShutdownIsLast, CloseInv, KernelInv, Callbacks
<1>4. RequestsInOrder
  <2>1. <<>> \o <<>> \o <<>> \o <<>> = <<>> /\ <<>> = [i \in 1 .. 0 |-> i]
    OBVIOUS
  <2> QED
    BY <2>1 DEF Init, RequestsInOrder
<1>5. SizeInv
  <2> DEFINE f == [i \in 0 .. 0 |-> 0]
  <2>1. f \in [0 .. 0 -> 0 .. MaxWrites * MaxSize]
    BY <1>1
  <2>2. AreSums(f, left, 0)
    BY DEF AreSums
  <2>3. f[0] = 0 /\ \A i \in 0 .. 0 : f[i] <= i * MaxSize
    BY <1>1
  <2>4. nreqs = 0 /\ Len(called) = 0 /\ write_queue_size = 0
    BY DEF Init
  <2> HIDE DEF f
  <2> QED
    BY <2>1, <2>2, <2>3, <2>4 DEF SizeInv, PartialSums
<1>6. SentInv /\ BytesInOrder
  BY DEF Init, SentInv, BytesInOrder
<1> QED
  BY <1>2, <1>3, <1>4, <1>5, <1>6 DEF Inv

(***************************************************************************)
(* The invariant holds of every stream, whatever the bounds.               *)
(***************************************************************************)
THEOREM InvHolds == ASSUME BoundsAreNumbers PROVE Spec => []Inv
<1>1. Init => Inv
  BY InvInit
<1>2. Inv /\ [Next]_vars => Inv'
  BY InvNext
<1> QED
  BY <1>1, <1>2, PTL DEF Spec

(***************************************************************************)
(* Every variable has its type: write_queue_size, a size_t from which      *)
(* uv__write, the callbacks and the errors subtract, never wraps.          *)
(***************************************************************************)
THEOREM TypeCorrect == ASSUME BoundsAreNumbers PROVE Spec => []TypeOK
<1>1. Inv => TypeOK
  BY DEF Inv
<1> QED
  BY <1>1, InvHolds, PTL

(***************************************************************************)
(* Every request accepted by uv_write is called back once, in the order of *)
(* the calls, and none is lost in between.                                 *)
(***************************************************************************)
THEOREM EachOnceInOrder == ASSUME BoundsAreNumbers PROVE Spec => []RequestsInOrder
<1>1. Inv => RequestsInOrder
  BY DEF Inv
<1> QED
  BY <1>1, InvHolds, PTL

(***************************************************************************)
(* uv_try_write, which does not queue, never overtakes a waiting request.  *)
(***************************************************************************)
THEOREM BytesStayInOrder == ASSUME BoundsAreNumbers PROVE Spec => []BytesInOrder
<1>1. Inv => BytesInOrder
  BY DEF Inv
<1> QED
  BY <1>1, InvHolds, PTL

(***************************************************************************)
(* shutdown(2) is never called while a request waits to be written.        *)
(***************************************************************************)
THEOREM ShutdownComesLast == ASSUME BoundsAreNumbers PROVE Spec => []ShutdownIsLast
<1>1. Inv => ShutdownIsLast
  BY DEF Inv
<1> QED
  BY <1>1, InvHolds, PTL

(***************************************************************************)
(* When the close callback has run, every request was called back and the  *)
(* size is zero.                                                           *)
(***************************************************************************)
THEOREM NothingIsLeft == ASSUME BoundsAreNumbers PROVE Spec => []NothingOutstanding
<1>1. ASSUME BoundsAreNumbers, Inv
      PROVE  NothingOutstanding
  <2>1. SUFFICES ASSUME hstate = "gone"
                 PROVE  /\ Len(called) = nreqs
                        /\ connect_req # "pending" /\ shutdown_req # "pending"
                        /\ write_queue_size = 0
    BY DEF NothingOutstanding
  <2>2. /\ write_queue = <<>> /\ write_completed_queue = <<>> /\ pq = <<>>
        /\ connect_req # "pending" /\ shutdown_req # "pending"
    BY <1>1, <2>1 DEF Inv, CloseInv, PlaceInv
  <2>3. Len(called) = nreqs
    BY <1>1, <2>2, HeadNumbers
  <2>4. write_queue_size = 0
    BY <1>1, <2>3 DEF Inv, SizeInv, PartialSums
  <2> QED
    BY <2>2, <2>3, <2>4
<1> QED
  BY <1>1, InvHolds, PTL

(***************************************************************************)
(* A set of numbers has a least element.                                   *)
(***************************************************************************)
LEMMA LeastNat ==
  ASSUME NEW T \in SUBSET Nat, T # {}
  PROVE  \E n \in T : \A m \in T : n <= m
<1> DEFINE U == {0 .. m : m \in T}
           R == StrictSubsetOrdering(Nat)
           S == FiniteSubsetsOf(Nat)
<1>1. IsWellFoundedOn(R, S)
  BY FS_StrictSubsetOrderingWellFounded
<1>2. U \subseteq S /\ U # {}
  <2>1. \A m \in Nat : IsFiniteSet(0 .. m) /\ 0 .. m \in SUBSET Nat
    BY FS_Interval
  <2> QED
    BY <2>1 DEF FiniteSubsetsOf
<1> HIDE DEF U, R, S
<1>3. PICK x \in U : \A y \in U : ~ (<<y, x>> \in R)
  BY <1>1, <1>2, WFMin
<1> USE DEF U
<1>4. PICK n \in T : x = 0 .. n
  BY <1>3
<1>5. \A m \in T : n <= m
  <2> SUFFICES ASSUME NEW m \in T, m < n PROVE FALSE
    OBVIOUS
  <2>1. 0 .. m \in U /\ <<0 .. m, x>> \notin R
    BY <1>3
  <2>2. 0 .. m \subseteq 0 .. n /\ n \in 0 .. n /\ n \notin 0 .. m
    OBVIOUS
  <2>3. 0 .. m \in SUBSET Nat /\ 0 .. n \in SUBSET Nat
    OBVIOUS
  <2> QED
    BY <2>1, <2>2, <2>3, <1>4 DEF R, StrictSubsetOrdering
<1> QED
  BY <1>5

(***************************************************************************)
(* Bytes(s) is what any running sum over s comes to.                       *)
(***************************************************************************)
LEMMA BytesIsSum ==
  ASSUME NEW s, Len(s) \in Nat, NEW g \in [0 .. Len(s) -> Nat], g[0] = 0,
         \A n \in 1 .. Len(s) : g[n] = g[n - 1] + left[s[n]]
  PROVE  Bytes(s) = g[Len(s)]
<1> DEFINE IsSum(f) == f = [n \in 0 .. Len(s) |->
                              IF n = 0 THEN 0 ELSE f[n - 1] + left[s[n]]]
           sum == CHOOSE f : IsSum(f)
<1>1. IsSum(g)
  OBVIOUS
<1>2. IsSum(sum)
  BY <1>1
<1>3. Bytes(s) = sum[Len(s)]
  BY DEF Bytes
<1> HIDE DEF sum
<1> DEFINE wrong == {n \in 0 .. Len(s) : sum[n] # g[n]}
<1>4. wrong = {}
  <2> SUFFICES ASSUME wrong # {} PROVE FALSE
    OBVIOUS
  <2>1. wrong \in SUBSET Nat
    OBVIOUS
  <2> HIDE DEF wrong
  <2>2. PICK n \in wrong : \A m \in wrong : n <= m
    BY <2>1, LeastNat
  <2> USE DEF wrong
  <2>3. n \in 0 .. Len(s) /\ sum[n] # g[n]
    BY <2>2
  <2>4. CASE n = 0
    BY <1>2, <2>3, <2>4
  <2>5. CASE n # 0
    <3>1. n - 1 \in 0 .. Len(s) /\ n - 1 \notin wrong /\ n \in 1 .. Len(s)
      BY <2>2, <2>3, <2>5
    <3>2. sum[n - 1] = g[n - 1]
      BY <3>1
    <3>3. sum[n] = sum[n - 1] + left[s[n]]
      BY <1>2, <2>3, <2>5
    <3> QED
      BY <2>3, <3>1, <3>2, <3>3
  <2> QED
    BY <2>4, <2>5
<1> QED
  BY <1>3, <1>4

(***************************************************************************)
(* write_queue_size is the number of bytes left of all requests that were  *)
(* not called back, through partial writes, errors and uv_try_write.       *)
(***************************************************************************)
THEOREM QueueSizeIsExact == ASSUME BoundsAreNumbers PROVE Spec => []QueueSizeExact
<1>1. ASSUME BoundsAreNumbers, Inv
      PROVE  QueueSizeExact
  <2> DEFINE c == Len(called)
             d == c + Len(pq)
             e == d + Len(write_completed_queue)
  <2>1. PICK sums \in [0 .. nreqs -> 0 .. MaxWrites * MaxSize] : PartialSums(sums)
    BY <1>1 DEF Inv, SizeInv
  <2>2. /\ nreqs = e + Len(write_queue)
        /\ c \in Nat /\ d \in Nat /\ e \in Nat /\ nreqs \in Nat
        /\ Len(pq) \in Nat /\ Len(write_completed_queue) \in Nat
        /\ Len(write_queue) \in Nat
        /\ \A k \in 1 .. Len(pq) : pq[k] = c + k
        /\ \A k \in 1 .. Len(write_completed_queue) :
             write_completed_queue[k] = d + k
        /\ \A k \in 1 .. Len(write_queue) : write_queue[k] = e + k
    BY <1>1, QueueNumbers
  <2>3. /\ \A n \in 0 .. nreqs : sums[n] \in Nat
        /\ \A n \in 1 .. nreqs : sums[n] = sums[n - 1] + left[n]
        /\ \A m, n \in 0 .. nreqs : m <= n => sums[m] <= sums[n]
        /\ sums[c] = 0 /\ sums[nreqs] = write_queue_size
    BY <2>1 DEF PartialSums, AreSums
  <2> HIDE DEF c, d, e
  <2>4. ASSUME NEW s, Len(s) \in Nat, NEW o \in Nat, o + Len(s) <= nreqs,
               \A k \in 1 .. Len(s) : s[k] = o + k
        PROVE  Bytes(s) = sums[o + Len(s)] - sums[o]
    <3> DEFINE g == [n \in 0 .. Len(s) |-> sums[o + n] - sums[o]]
    <3>1. \A n \in 0 .. Len(s) : o + n \in 0 .. nreqs /\ o \in 0 .. nreqs /\ o <= o + n
      BY <2>2, <2>4
    <3>2. g \in [0 .. Len(s) -> Nat]
      <4> SUFFICES ASSUME NEW n \in 0 .. Len(s)
                   PROVE  sums[o + n] - sums[o] \in Nat
        OBVIOUS
      <4>1. sums[o + n] \in Nat /\ sums[o] \in Nat /\ sums[o] <= sums[o + n]
        BY <2>3, <3>1
      <4> QED
        BY <4>1
    <3>3. g[0] = 0
      <4>1. o + 0 = o /\ sums[o] \in Nat /\ 0 \in 0 .. Len(s)
        BY <2>3, <2>4, <3>1
      <4> QED
        BY <4>1
    <3>4. \A n \in 1 .. Len(s) : g[n] = g[n - 1] + left[s[n]]
      <4> SUFFICES ASSUME NEW n \in 1 .. Len(s)
                   PROVE  g[n] = g[n - 1] + left[s[n]]
        OBVIOUS
      <4>1. /\ n \in 0 .. Len(s) /\ n - 1 \in 0 .. Len(s)
            /\ o + n \in 1 .. nreqs /\ (o + n) - 1 = o + (n - 1) /\ s[n] = o + n
        BY <2>2, <2>4
      <4>2. sums[o + n] = sums[o + (n - 1)] + left[s[n]]
        BY <2>3, <4>1
      <4>3. sums[o + (n - 1)] \in Nat /\ sums[o] \in Nat /\ sums[o + n] \in Nat
        BY <2>3, <3>1, <4>1
      <4>4. left[s[n]] \in Nat
        BY <1>1, <2>2, <4>1 DEF Inv, TypeOK, Reqs, BoundsAreNumbers
      <4>5. g[n] = sums[o + n] - sums[o] /\ g[n - 1] = sums[o + (n - 1)] - sums[o]
        BY <4>1
      <4> HIDE DEF g
      <4> QED
        BY <4>2, <4>3, <4>4, <4>5
    <3> HIDE DEF g
    <3>5. Bytes(s) = g[Len(s)]
      BY <2>4, <3>2, <3>3, <3>4, BytesIsSum
    <3> QED
      BY <2>4, <3>5 DEF g
  <2>5. /\ c + Len(pq) = d /\ d <= nreqs
        /\ d + Len(write_completed_queue) = e /\ e <= nreqs
        /\ e + Len(write_queue) = nreqs /\ nreqs <= nreqs
    BY <2>2 DEF d, e
  <2>6. Bytes(pq) = sums[d] - sums[c]
    <3>1. Bytes(pq) = sums[c + Len(pq)] - sums[c]
      BY <2>2, <2>4, <2>5
    <3> QED
      BY <2>5, <3>1
  <2>7. Bytes(write_completed_queue) = sums[e] - sums[d]
    <3>1. Bytes(write_completed_queue)
            = sums[d + Len(write_completed_queue)] - sums[d]
      BY <2>2, <2>4, <2>5
    <3> QED
      BY <2>5, <3>1
  <2>8. Bytes(write_queue) = sums[nreqs] - sums[e]
    <3>1. Bytes(write_queue) = sums[e + Len(write_queue)] - sums[e]
      BY <2>2, <2>4, <2>5
    <3> QED
      BY <2>5, <3>1
  <2>9. c \in 0 .. nreqs /\ d \in 0 .. nreqs /\ e \in 0 .. nreqs /\ nreqs \in 0 .. nreqs
    BY <2>2 DEF d, e
  <2>10. /\ sums[c] \in Nat /\ sums[d] \in Nat /\ sums[e] \in Nat
        /\ sums[nreqs] \in Nat
    BY <2>3, <2>9
  <2> QED
    BY <2>3, <2>6, <2>7, <2>8, <2>10 DEF QueueSizeExact
<1> QED
  BY <1>1, InvHolds, PTL
=============================================================================
