-------------------------------- MODULE Udp ---------------------------------
(***************************************************************************)
(* A UDP handle of libuv (src/unix/udp.c): the queue of sends with         *)
(* sendmmsg batches, EAGAIN and errors, the completed requests and their   *)
(* callbacks, receiving with recvmsg or recvmmsg, and callbacks that send, *)
(* stop, restart and close the handle in the middle.                       *)
(*                                                                         *)
(* Datagrams and requests are numbered in the order in which they come.    *)
(* How much the socket takes is left open.  Binding and the socket options *)
(* happen before (uv__udp_maybe_deferred_bind succeeds).                   *)
(***************************************************************************)
EXTENDS Naturals, Sequences, SequencesExt

CONSTANTS
  MaxSends,    \* bound: requests
  MaxIn,       \* bound: datagrams that arrive
  Batch,       \* datagrams per sendmmsg, 20
  Chunks,      \* datagrams per recvmmsg, 20 or less
  RecvCount,   \* datagrams per event, 32
  MaxStops     \* bound: calls of uv_udp_recv_stop

VARIABLES
  mmsg,                        \* the handle uses recvmmsg
  hstate,                      \* "open", "closing" or "closed"
  write_queue, write_completed_queue,
  send_queue_count, result,    \* result[r]: "none", "ok", "error" or "canceled"
  done,                        \* requests called back
  pollin, pollout, active, fed,
  recv,                        \* recv_cb is set
  inq, arrived, chunk,         \* datagrams in the socket, in the recvmmsg batch
  bufs,                        \* buffers the user has lent to the handle
  count, more,                 \* of uv__udp_recvmsg; more: nread # -1
  revout,                      \* POLLOUT is among the events
  stops,
  pc

sendvars == <<write_queue, write_completed_queue, send_queue_count, result, done>>
recvvars == <<recv, inq, arrived, chunk, bufs, count, more>>
watch == <<pollin, pollout, active, fed>>
vars == <<mmsg, hstate, sendvars, recvvars, watch, revout, stops, pc>>

Init ==
  /\ mmsg \in BOOLEAN /\ hstate = "open"
  /\ write_queue = <<>> /\ write_completed_queue = <<>> /\ send_queue_count = 0
  /\ result = [r \in 1 .. MaxSends |-> "none"] /\ done = <<>>
  /\ pollin = FALSE /\ pollout = FALSE /\ active = FALSE /\ fed = FALSE
  /\ recv = FALSE /\ inq = <<>> /\ arrived = 0 /\ chunk = <<>> /\ bufs = 0
  /\ count = 0 /\ more = FALSE /\ revout = FALSE /\ stops = 0 /\ pc = "loop"

\* Callbacks; after chunk_cb more chunks follow, after recv_cb the next read.
InUserCode == pc \in {"loop", "send_cb", "recv_cb", "chunk_cb", "last_cb"}

Posted == Len(done) + Len(write_queue) + Len(write_completed_queue)

\* Mutant: completed requests are put in front.
CompleteInFront(n, how) ==
  /\ write_queue' = SubSeq(write_queue, n + 1, Len(write_queue))
  /\ write_completed_queue' = SubSeq(write_queue, 1, n) \o write_completed_queue
  /\ result' = [r \in DOMAIN result |->
                  IF r \in ToSet(SubSeq(write_queue, 1, n)) THEN how ELSE result[r]]

\* The first n queued requests are complete, with this outcome.
Complete(n, how) ==
  /\ write_queue' = SubSeq(write_queue, n + 1, Len(write_queue))
  /\ write_completed_queue' = write_completed_queue \o SubSeq(write_queue, 1, n)
  /\ result' = [r \in DOMAIN result |->
                  IF r \in ToSet(SubSeq(write_queue, 1, n)) THEN how ELSE result[r]]

-----------------------------------------------------------------------------
(* The API.                                                                *)

\* Mutant: a request that cannot be sent now is not watched.
SendWhenEmptySilent(r) ==
  /\ \/ /\ write_queue' = <<r>>
        /\ UNCHANGED <<write_completed_queue, result, pollout, fed>>
     \/ \E how \in {"ok", "error"} :
          /\ write_completed_queue' = Append(write_completed_queue, r)
          /\ result' = [result EXCEPT ![r] = how]
          /\ fed' = TRUE
          /\ UNCHANGED <<write_queue, pollout>>

\* uv__udp_send tries at once when nothing is outstanding.
SendWhenEmpty(r) ==
  /\ \/ /\ write_queue' = <<r>>
        /\ pollout' = TRUE
        /\ UNCHANGED <<write_completed_queue, result, fed>>
     \/ \E how \in {"ok", "error"} :
          /\ write_completed_queue' = Append(write_completed_queue, r)
          /\ result' = [result EXCEPT ![r] = how]
          /\ fed' = TRUE
          /\ UNCHANGED <<write_queue, pollout>>

\* send_queue_count covers completed requests; send_cb runs under PROCESSING.
TriesNow == send_queue_count = 0 /\ pc # "send_cb"

uv__udp_send ==
  /\ InUserCode /\ hstate = "open" /\ Posted < MaxSends
  /\ send_queue_count' = send_queue_count + 1
  /\ active' = TRUE
  /\ IF TriesNow THEN SendWhenEmpty(Posted + 1)
     ELSE /\ write_queue' = Append(write_queue, Posted + 1)
          /\ pollout' = TRUE
          /\ UNCHANGED <<write_completed_queue, result, fed>>
  /\ UNCHANGED <<mmsg, hstate, done, recvvars, pollin, revout, stops, pc>>

uv__udp_recv_start ==
  /\ InUserCode /\ hstate = "open" /\ ~pollin
  /\ recv' = TRUE /\ pollin' = TRUE /\ active' = TRUE
  /\ UNCHANGED <<mmsg, hstate, sendvars, inq, arrived, chunk, bufs, count, more,
                 pollout, fed, revout, stops, pc>>

uv__udp_recv_stop ==
  /\ InUserCode /\ hstate = "open" /\ pollin /\ stops < MaxStops
  /\ recv' = FALSE /\ pollin' = FALSE
  /\ active' = (active /\ pollout)
  /\ stops' = stops + 1
  /\ UNCHANGED <<mmsg, hstate, sendvars, inq, arrived, chunk, bufs, count, more,
                 pollout, fed, revout, pc>>

\* uv__udp_close: the watcher leaves the queues, the socket is closed.
uv__udp_close ==
  /\ InUserCode /\ hstate = "open"
  /\ hstate' = "closing"
  /\ pollin' = FALSE /\ pollout' = FALSE /\ active' = FALSE /\ fed' = FALSE
  /\ UNCHANGED <<mmsg, sendvars, recvvars, revout, stops, pc>>

Arrive ==
  /\ arrived < MaxIn
  /\ arrived' = arrived + 1
  /\ inq' = IF hstate = "open" THEN Append(inq, arrived + 1) ELSE inq
  /\ UNCHANGED <<mmsg, hstate, sendvars, recv, chunk, bufs, count, more, watch,
                 revout, stops, pc>>

-----------------------------------------------------------------------------
(* uv__udp_io, for an event of the poll or for a fed watcher.              *)

Io(in, out) ==
  /\ pc = "loop"
  /\ in \/ out
  /\ in => pollin /\ inq # <<>>
  /\ out => pollout \/ (fed /\ ~in)
  /\ fed' = (fed /\ (in \/ pollout))
  /\ revout' = out
  /\ count' = RecvCount /\ more' = TRUE
  /\ pc' = IF in THEN "recv" ELSE "send"
  /\ UNCHANGED <<mmsg, hstate, sendvars, recv, inq, arrived, chunk, bufs,
                 pollin, pollout, active, stops>>

\* uv__udp_recvmsg: a buffer is lent and recvmsg or recvmmsg called.  An
\* error ends the reading as an empty socket does.
Recv ==
  /\ pc = "recv"
  /\ \/ /\ mmsg /\ inq # <<>>
        /\ \E n \in 1 .. Chunks :
             /\ n <= Len(inq)
             /\ chunk' = SubSeq(inq, 1, n)
             /\ inq' = SubSeq(inq, n + 1, Len(inq))
             /\ count' = IF count > n THEN count - n ELSE 0
        /\ bufs' = bufs + 1
        /\ pc' = "chunk"
        /\ UNCHANGED more
     \/ /\ ~mmsg /\ inq # <<>>
        /\ inq' = Tail(inq)
        /\ count' = count - 1
        /\ pc' = "recv_cb"
        /\ UNCHANGED <<chunk, bufs, more>>
     \/ /\ more' = FALSE
        /\ pc' = "recv_cb"
        /\ UNCHANGED <<chunk, inq, count, bufs>>
  /\ UNCHANGED <<mmsg, hstate, sendvars, recv, arrived, watch, revout, stops>>

\* Mutant: the callback is not asked for again.
HasChunkAnyway == chunk # <<>>

HasChunk == chunk # <<>> /\ recv

\* Mutant: a batch that used up the count is not followed by the callback.
HandsBackIfMore == recv /\ count > 0

HandsBack == recv

\* The next datagram of a recvmmsg; the last callback hands the buffer back.
Chunk ==
  /\ pc = "chunk"
  /\ IF HasChunk
     THEN chunk' = Tail(chunk) /\ pc' = "chunk_cb" /\ UNCHANGED bufs
     ELSE /\ chunk' = <<>>
          /\ IF HandsBack THEN pc' = "last_cb" /\ bufs' = bufs - 1
             ELSE pc' = "more" /\ UNCHANGED bufs
  /\ UNCHANGED <<mmsg, hstate, sendvars, recv, inq, arrived, count, more, watch,
                 revout, stops>>

ReadsOn == more /\ count > 0 /\ hstate = "open" /\ recv

RecvReturn ==
  /\ pc \in {"recv_cb", "chunk_cb", "last_cb", "more"}
  /\ pc' = IF pc = "chunk_cb" THEN "chunk"
           ELSE IF ReadsOn THEN "recv"
           ELSE IF revout THEN "send" ELSE "loop"
  /\ UNCHANGED <<mmsg, hstate, sendvars, recvvars, watch, revout, stops>>

\* uv__udp_sendmsg, one sendmmsg: it takes some, none for now, or fails; on
\* a closed socket it fails.  A failure is put down to the whole batch.
SendMsg ==
  /\ pc = "send"
  /\ \/ /\ write_queue = <<>>
        /\ pc' = "completed"
        /\ UNCHANGED <<write_queue, write_completed_queue, result, fed>>
     \/ /\ write_queue # <<>> /\ hstate = "open"
        /\ \E n \in 1 .. Batch :
             /\ n <= Len(write_queue)
             /\ Complete(n, "ok")
             /\ IF n < Len(write_queue) THEN pc' = "send" /\ UNCHANGED fed
                ELSE pc' = "completed" /\ fed' = TRUE
     \/ /\ write_queue # <<>> /\ hstate = "open"
        /\ pc' = "completed"
        /\ UNCHANGED <<write_queue, write_completed_queue, result, fed>>
     \/ /\ write_queue # <<>>
        /\ Complete(IF Len(write_queue) < Batch THEN Len(write_queue) ELSE Batch, "error")
        /\ fed' = TRUE
        /\ pc' = "completed"
  /\ UNCHANGED <<mmsg, hstate, send_queue_count, done, recvvars, pollin, pollout,
                 active, revout, stops>>

\* uv__udp_run_completed: the next callback.
Completed ==
  /\ pc = "completed" /\ write_completed_queue # <<>>
  /\ write_completed_queue' = Tail(write_completed_queue)
  /\ send_queue_count' = send_queue_count - 1
  /\ done' = Append(done, Head(write_completed_queue))
  /\ pc' = "send_cb"
  /\ UNCHANGED <<mmsg, hstate, write_queue, result, recvvars, watch, revout, stops>>

SendReturn ==
  /\ pc = "send_cb"
  /\ pc' = "completed"
  /\ UNCHANGED <<mmsg, hstate, sendvars, recvvars, watch, revout, stops>>

\* Mutant: the watcher stops although callbacks have queued more.
StopsWriting == TRUE

StopsWritingWhenEmpty == write_queue = <<>>

CompletedEnd ==
  /\ pc = "completed" /\ write_completed_queue = <<>>
  /\ pollout' = (pollout /\ ~StopsWritingWhenEmpty)
  /\ active' = (active /\ (StopsWritingWhenEmpty => pollin))
  /\ hstate' = IF revout THEN hstate ELSE IF hstate = "closing" THEN "closed" ELSE hstate
  /\ pc' = "loop"
  /\ revout' = FALSE
  /\ UNCHANGED <<mmsg, sendvars, recvvars, pollin, fed, stops>>

\* Mutant: what is left is forgotten.
FinishCloseDrops ==
  /\ pc = "loop" /\ hstate = "closing" /\ ~fed
  /\ write_queue' = <<>>
  /\ pc' = "completed"
  /\ UNCHANGED <<mmsg, hstate, write_completed_queue, send_queue_count, result,
                 done, recvvars, watch, revout, stops>>

\* uv__udp_finish_close; the loop runs fed watchers before it closes handles.
FinishClose ==
  /\ pc = "loop" /\ hstate = "closing" /\ ~fed
  /\ Complete(Len(write_queue), "canceled")
  /\ pc' = "completed"
  /\ UNCHANGED <<mmsg, hstate, send_queue_count, done, recvvars, watch, revout, stops>>

-----------------------------------------------------------------------------
LoopStep ==
  \/ \E in, out \in BOOLEAN : Io(in, out)
  \/ Recv \/ Chunk \/ RecvReturn
  \/ SendMsg \/ Completed \/ SendReturn \/ CompletedEnd \/ FinishClose

Next ==
  \/ uv__udp_send \/ uv__udp_recv_start \/ uv__udp_recv_stop \/ uv__udp_close
  \/ Arrive \/ LoopStep

Spec == Init /\ [][Next]_vars

(***************************************************************************)
(* Fairness: the loop runs, and a socket that can be written takes a       *)
(* datagram, or fails, sooner or later.                                    *)
(***************************************************************************)
FairSpec ==
  /\ Spec /\ WF_vars(LoopStep)
  /\ SF_vars(SendMsg /\ Len(write_queue') < Len(write_queue))
  /\ SF_vars(\E in \in BOOLEAN : Io(in, TRUE))

-----------------------------------------------------------------------------
(* Properties.                                                             *)

(***************************************************************************)
(* Type invariant; send_queue_count is the number of requests whose        *)
(* callback is still to come.                                              *)
(***************************************************************************)
TypeOK ==
  /\ hstate \in {"open", "closing", "closed"}
  /\ count \in 0 .. RecvCount
  /\ ToSet(inq) \cup ToSet(chunk) \subseteq 1 .. MaxIn
  /\ send_queue_count = Len(write_queue) + Len(write_completed_queue)

(***************************************************************************)
(* Requests are called back once each and in the order in which they were  *)
(* made, through immediate sends, batches, errors and uv_close.            *)
(***************************************************************************)
SendsInOrder ==
  LET all == done \o write_completed_queue \o write_queue IN
  \A i \in 1 .. Len(all) : all[i] = i

(***************************************************************************)
(* When the loop polls, a queued request is watched for and a completed    *)
(* one will be called back, and the handle keeps the loop alive for what   *)
(* it waits for.                                                           *)
(***************************************************************************)
NothingIsForgotten ==
  pc = "loop" /\ hstate = "open" =>
    /\ write_queue # <<>> => pollout
    /\ write_completed_queue # <<>> => fed \/ pollout
    /\ pollin \/ write_queue # <<>> => active

(***************************************************************************)
(* A closed handle has called back every request (the assertions of        *)
(* uv__udp_finish_close) and nothing of it is left in the loop's queues.   *)
(***************************************************************************)
ClosedIsClean ==
  hstate = "closed" => /\ send_queue_count = 0 /\ Len(done) = Posted
                       /\ ~pollin /\ ~pollout /\ ~active /\ ~fed

(***************************************************************************)
(* No datagram is delivered after uv_udp_recv_stop, which a callback may   *)
(* call in the middle of a recvmmsg batch, and recvmsg is not called on a  *)
(* closed socket.                                                          *)
(***************************************************************************)
NoRecvAfterStop ==
  [][/\ pc' = "chunk_cb" /\ pc # pc' => recv
     /\ pc' = "recv" => pollin /\ hstate = "open"]_vars

(***************************************************************************)
(* Liveness: every request is called back.                                 *)
(***************************************************************************)
SendsAreCalledBack ==
  \A r \in 1 .. MaxSends : (Posted >= r) ~> (Len(done) >= r)

(***************************************************************************)
(* A buffer lent for recvmmsg is handed back by the final callback, with   *)
(* UV_UDP_MMSG_FREE, before the loop polls again, in every program that    *)
(* does not call uv_udp_recv_stop: a chunk callback that stops the         *)
(* receiving makes the code leave this callback out.                       *)
(***************************************************************************)
BufferIsHandedBack == pc = "loop" /\ stops = 0 => bufs = 0
=============================================================================
