--------------------------- MODULE MCUnixHandles ----------------------------
(***************************************************************************)
(* The handles of a libuv loop on Unix and the repository's own programs:  *)
(* streams, datagrams, the loop with two idle handles and a descriptor,    *)
(* signals and child processes; fork.c, the echo client and server, the    *)
(* shared segment and the SQL runner. These modules share no state, so one *)
(* behaviour is about one of them, which part chooses, and leaves the      *)
(* state of the others alone; the names of ForkPingPong are used as they   *)
(* are. What is left alone stays in an initial state of its own            *)
(* behaviours, so an invariant of a component is asked of the states in    *)
(* which that component is the one chosen. The values for TLC are in       *)
(* UnixHandles.cfg; the proofs are for every value. Five components are    *)
(* proved about here: fork.c, the other programs, reading, datagrams and   *)
(* child processes; the others hold their proofs themselves, and the suite *)
(* cites them at the end.                                                  *)
(***************************************************************************)
EXTENDS ForkPingPong, Integers, Sequences, FiniteSetTheorems, SequenceTheorems, TLAPS

CONSTANTS
  MaxWrites,     \* bound: calls of uv_write
  MaxSize,       \* bound: bytes of a request
  WriteBatch,    \* requests written by one uv__write
  MaxBytes,      \* bound: bytes the peer sends
  BufLen,        \* bytes alloc_cb provides
  ReadCount,     \* reads per event
  MaxFds,        \* bound: descriptors that arrive
  Limit,         \* descriptors the process may hold
  MaxCount,      \* bound: descriptors in one message
  MaxSends,      \* bound: sends
  MaxIn,         \* bound: datagrams that arrive
  SendBatch,     \* datagrams per sendmmsg
  Chunks,        \* datagrams per recvmmsg
  RecvCount,     \* datagrams per event
  MaxStops,      \* bound: calls of uv_udp_recv_stop
  IdleWatchers,  \* the idle handles of the loop
  Watchers,      \* its watched descriptors
  PendingRounds, \* 8 in uv_run
  NoHandle,      \* no handle
  Loop,          \* the loops that watch signals
  SignalHandle,  \* the signal handles
  loopOf,        \* the loop of each of them
  Signum,        \* the signals
  PipeSize,      \* messages a signal pipe can hold
  SignalBatch,   \* messages read at once
  MaxRaised,     \* bound: signals raised
  MaxWatches,    \* bound: watches started
  RegularUse,    \* handles of uv_signal_start
  OneShotUse,    \* handles of uv_signal_start_oneshot
  Children,      \* the processes that are spawned
  MaySteal,      \* other code may wait for our children
  StdioCount,    \* stdio_count
  MaxFd,         \* bound: descriptors are 0 .. MaxFd
  ParentFds,     \* open in the parent before the call
  Buffer,        \* BUFFER_SIZE of the echo programs
  EchoSends,     \* bound: buffers the echo client sends
  Capacity,      \* bytes a socket's buffer holds
  Message,       \* what shm_write.c writes
  SegmentSize,   \* size of the shared segment
  Files,         \* what an SQL file may hold
  MaxSql         \* MAX_SQL_SIZE

\* The loops of the signal handles in the run: one each.
TwoSignalLoops == [h \in SignalHandle |-> IF h = "h1" THEN "l1" ELSE "l2"]

\* The message of the run, and its files: statements, some of them wrong.
ThreeCharacters == <<1, 2, 3>>
SqlFiles ==
  {<<>>, <<"ok">>, <<"ok", "bad", "ok">>, <<"ok", "ok">>, <<"ok", "nul", "ok">>,
   <<"ok", "ok", "ok", "ok">>}

VARIABLES
  part,   \* the component this behaviour is about
  kernel, room, write_hstate, write_fd, writable, shut, delayed_error,
  connect_req, shutdown_req, nreqs, left, error, write_write_queue,
  write_write_completed_queue, write_queue_size, write_pollout, write_fed,
  write_pc, pq, caller, write_count, writing, called, sent,
  avail, total, peer, read_hstate, readable, reading, read_eof,
  read_partial, read_active, read_pollin, read_pc, hup, read_count,
  kind, accept_hstate, accept_pollin, accepted_fd, queued_fds, accept_pc,
  accept_arrived, accept_pending, clients, closed, emfile_fd, others,
  grabbed, failedLate, oom,
  mmsg, udp_hstate, udp_write_queue, udp_write_completed_queue,
  send_queue_count, result, done, udp_pollin, udp_pollout, udp_active,
  udp_fed, recv, inq, udp_arrived, chunk, bufs, udp_count, more, revout,
  stops, udp_pc,
  loop_hstate, loop_active, ref, active_handles, closing_handles,
  pending_queue, late, due, stop_flag, loop_pc, mode, alive, can_sleep,
  timeout, rounds, todo, running, worked,
  signum, oneshot, state, caught, dispatched, disp, pipe, batch, signal_pc,
  op, lock, handler, raised, started, forked, regular,
  process_child, report, handle, watching, signaled, process_handles,
  process_pending, scan, current, stolen, process_pc,
  how, flags, pipes, open, streams, failed, wanted, error_fd, file, cloexec,
  i, stdio_pc,
  d

R == INSTANCE StreamRead WITH
  hstate <- read_hstate, active <- read_active, pollin <- read_pollin,
  pc <- read_pc, count <- read_count

U == INSTANCE Udp WITH
  Batch <- SendBatch, hstate <- udp_hstate, write_queue <- udp_write_queue,
  write_completed_queue <- udp_write_completed_queue, pollin <- udp_pollin,
  pollout <- udp_pollout, active <- udp_active, fed <- udp_fed,
  arrived <- udp_arrived, count <- udp_count, pc <- udp_pc

P == INSTANCE Processes WITH
  Child <- Children, child <- process_child, pending <- process_pending,
  pc <- process_pc

-----------------------------------------------------------------------------
(* Proofs of five components, for every value of the constants.            *)
-----------------------------------------------------------------------------
(* fork.c, for every number of rounds and every pipe capacity.             *)

(***************************************************************************)
(* The inductive invariant.  The last conjunct is what the two properties  *)
(* lack: a parent that waits has a round left, and with the place of the   *)
(* byte it bounds the counter of the child.                                *)
(***************************************************************************)
ForkInv ==
  /\ TypeOK
  /\ OneByteGoesRound
  /\ parent = "read" => iParent < Rounds

LEMMA ForkInvInit == Init => ForkInv
  BY RoundsNat, PipeCapacityPositive DEF Init, ForkInv, TypeOK, OneByteGoesRound

(***************************************************************************)
(* Every step of either process keeps the invariant.                       *)
(***************************************************************************)
LEMMA ForkInvNext == ForkInv /\ [Next]_vars => ForkInv'
  <1> SUFFICES ASSUME ForkInv, [Next]_vars PROVE ForkInv'
    OBVIOUS
  <1> USE RoundsNat, PipeCapacityPositive DEF ForkInv, TypeOK, OneByteGoesRound
  <1>1. CASE Fork
    BY <1>1 DEF Fork
  <1>2. CASE ParentWrite
    BY <1>2 DEF ParentWrite
  <1>3. CASE ParentRead
    BY <1>3 DEF ParentRead
  <1>4. CASE ParentReturn
    BY <1>4 DEF ParentReturn
  <1>5. CASE ChildRead
    BY <1>5 DEF ChildRead
  <1>6. CASE ChildWrite
    BY <1>6 DEF ChildWrite
  <1>7. CASE ChildExit
    BY <1>7 DEF ChildExit
  <1>8. CASE UNCHANGED vars
    BY <1>8 DEF vars
  <1> QED
    BY <1>1, <1>2, <1>3, <1>4, <1>5, <1>6, <1>7, <1>8 DEF Next, Parent, Child

(***************************************************************************)
(* Whatever the number of rounds, counters and pipes stay within bounds.   *)
(***************************************************************************)
THEOREM ForkTypeCorrect == Spec => []TypeOK
  <1>1. ForkInv => TypeOK
    BY DEF ForkInv
  <1> QED
    BY <1>1, ForkInvInit, ForkInvNext, PTL DEF Spec

(***************************************************************************)
(* Whatever the number of rounds, one byte goes round: the two processes   *)
(* of fork.c alternate strictly.                                           *)
(***************************************************************************)
THEOREM ProcessesAlternate == Spec => []OneByteGoesRound
  <1>1. ForkInv => OneByteGoesRound
    BY DEF ForkInv
  <1> QED
    BY <1>1, ForkInvInit, ForkInvNext, PTL DEF Spec

-----------------------------------------------------------------------------
(* Reading, for any number of bytes, buffer size and reads per event.      *)

ReadBounds == MaxBytes \in Nat /\ BufLen \in Nat /\ ReadCount \in Nat

(***************************************************************************)
(* What the flags say of the socket in the middle of an event.  POLLHUP    *)
(* means that the peer has closed, so nothing arrives any more: a partial  *)
(* read has then emptied the socket for good, and UV_HANDLE_READ_PARTIAL,  *)
(* which is reset at each event, is never left over from an earlier one.   *)
(***************************************************************************)
ReadEventInv ==
  /\ reading => read_hstate = "open"
  /\ hup => read_pc # "loop" /\ peer = "fin"
  /\ read_pc # "loop" /\ hup /\ (read_partial \/ read_pc = "partial_cb") => avail = 0
  /\ read_pc = "eof_cb" => avail = 0 /\ peer = "fin"
  /\ read_pc = "hup_eof_cb" => avail = 0 /\ hup

ReadInv == R!TypeOK /\ avail <= total /\ R!ReadingIsWatched /\ ReadEventInv

(***************************************************************************)
(* Every call of the user, every step of the peer and every turn of        *)
(* uv__read keeps the invariant.                                           *)
(***************************************************************************)
LEMMA ReadInvNext ==
  ASSUME ReadBounds, ReadInv, [R!Next]_(R!vars)
  PROVE  ReadInv'
<1> USE DEF ReadBounds, ReadInv, R!TypeOK, R!ReadingIsWatched, ReadEventInv, R!Callbacks, R!InUserCode,
            R!kernel, R!flags, R!StopReading, R!StreamEof
<1>1. CASE R!PeerSends
  BY <1>1 DEF R!PeerSends
<1>2. ASSUME NEW h \in {"fin", "reset"}, R!PeerEnds(h) PROVE ReadInv'
  BY <1>2 DEF R!PeerEnds
<1>3. CASE R!uv_read_start
  BY <1>3 DEF R!uv_read_start
<1>4. CASE R!uv_read_stop
  BY <1>4 DEF R!uv_read_stop
<1>5. CASE R!Close
  BY <1>5 DEF R!Close
<1>6. ASSUME NEW withHup \in BOOLEAN, R!Io(withHup) PROVE ReadInv'
  <2>1. /\ UNCHANGED <<avail, total, peer, read_hstate, readable, reading, read_eof,
                        read_active, read_pollin>>
        /\ hup' \in BOOLEAN /\ (hup' => peer = "fin")
        /\ read_pc' = "read" /\ read_count' = ReadCount /\ ~read_partial'
        /\ read_partial' \in BOOLEAN
    BY <1>6 DEF R!Io
  <2>2. R!TypeOK' /\ avail' <= total'
    BY <2>1
  <2>3. R!ReadingIsWatched' /\ ReadEventInv'
    BY <2>1
  <2> QED
    BY <2>2, <2>3
<1>7. CASE R!ReadEnd
  BY <1>7 DEF R!ReadEnd
<1>8. CASE R!NoBuffer
  BY <1>8 DEF R!NoBuffer
<1>9. CASE R!ReadData
  BY <1>9 DEF R!ReadData, R!GoesOn
<1>10. CASE R!ReadAgain
  BY <1>10 DEF R!ReadAgain
<1>11. CASE R!ReadError
  BY <1>11 DEF R!ReadError
<1>12. CASE R!ReadEof
  BY <1>12 DEF R!ReadEof
<1>13. CASE R!ReadReturn
  BY <1>13 DEF R!ReadReturn
<1>14. CASE R!AfterRead
  <2>1. CASE read_hstate = "open" /\ R!HupEnds
    BY <1>14, <2>1 DEF R!AfterRead, R!HupEnds
  <2>2. CASE ~(read_hstate = "open" /\ R!HupEnds)
    <3>1. /\ UNCHANGED <<R!kernel, R!flags, read_pollin>>
          /\ read_pc' = "loop" /\ ~hup' /\ hup' \in BOOLEAN /\ read_count' = 0
      BY <1>14, <2>2 DEF R!AfterRead
    <3> QED
      BY <3>1
  <2> QED
    BY <2>1, <2>2
<1>15. CASE R!HupReturn
  <2>1. /\ UNCHANGED <<R!kernel, R!flags, read_pollin>>
        /\ read_pc' = "loop" /\ ~hup' /\ hup' \in BOOLEAN /\ read_count' = 0
    BY <1>15 DEF R!HupReturn
  <2> QED
    BY <2>1
<1>16. CASE UNCHANGED R!vars
  BY <1>16 DEF R!vars
<1> QED
  BY <1>1, <1>2, <1>3, <1>4, <1>5, <1>6, <1>7, <1>8, <1>9, <1>10, <1>11, <1>12,
     <1>13, <1>14, <1>15, <1>16 DEF R!Next, R!LoopStep

(***************************************************************************)
(* The invariant holds in every reachable state.                           *)
(***************************************************************************)
THEOREM ReadInvAlways ==
  ASSUME ReadBounds
  PROVE  R!Spec => []ReadInv
<1>1. R!Init => ReadInv
  <2>1. ASSUME R!Init
        PROVE  /\ avail = 0 /\ total = 0 /\ read_count = 0 /\ read_pc = "loop"
               /\ peer = "open" /\ read_hstate = "open"
               /\ ~reading /\ ~hup /\ ~read_active /\ ~read_pollin
               /\ readable \in BOOLEAN /\ reading \in BOOLEAN
               /\ read_eof \in BOOLEAN /\ read_partial \in BOOLEAN
               /\ read_active \in BOOLEAN /\ read_pollin \in BOOLEAN /\ hup \in BOOLEAN
    BY <2>1 DEF R!Init
  <2> QED
    BY <2>1 DEF ReadBounds, ReadInv, R!TypeOK, R!ReadingIsWatched, ReadEventInv,
       R!Callbacks
<1> QED
  BY <1>1, ReadInvNext, PTL DEF R!Spec

(***************************************************************************)
(* Reading, being active and watching POLLIN are one thing, whichever way  *)
(* uv__read is left and whatever its callbacks stop, start or close.       *)
(***************************************************************************)
THEOREM ReadingStaysWatched ==
  ASSUME ReadBounds
  PROVE  R!Spec => []R!ReadingIsWatched
<1>1. ReadInv => R!ReadingIsWatched
  BY DEF ReadInv
<1> QED
  BY <1>1, ReadInvAlways, PTL

(***************************************************************************)
(* No end of file is reported with bytes left to read, neither by read(2)  *)
(* nor by the short cut for POLLHUP after a partial read.                  *)
(***************************************************************************)
THEOREM EofComesLast ==
  ASSUME ReadBounds
  PROVE  R!Spec => []R!EofIsLast
<1>1. ReadInv => R!EofIsLast
  BY DEF ReadInv, ReadEventInv, R!EofIsLast
<1> QED
  BY <1>1, ReadInvAlways, PTL

(***************************************************************************)
(* No read callback is called once the user has stopped reading or closed  *)
(* the stream: uv__read looks at UV_HANDLE_READING before each read.       *)
(***************************************************************************)
THEOREM StoppedReadIsSilent ==
  ASSUME ReadBounds
  PROVE  R!Spec => R!NoReadAfterStop
<1> DEFINE Silent == read_pc' \in R!Callbacks /\ read_pc' # read_pc => reading /\ read_hstate = "open"
<1>1. ASSUME ReadInv, R!Next, read_pc' \in R!Callbacks, read_pc' # read_pc
      PROVE  reading /\ read_hstate = "open"
  <2>1. reading
    BY <1>1 DEF R!Next, R!LoopStep, R!PeerSends, R!PeerEnds, R!uv_read_start, R!uv_read_stop,
       R!Close, R!Io, R!ReadEnd, R!NoBuffer, R!ReadData, R!ReadAgain, R!ReadError, R!ReadEof,
       R!ReadReturn, R!AfterRead, R!HupReturn, R!GoesOn, R!HupEnds, R!Callbacks
  <2> QED
    BY <1>1, <2>1 DEF ReadInv, ReadEventInv
<1>2. ReadInv /\ [R!Next]_(R!vars) => [Silent]_(R!vars)
  BY <1>1
<1> QED
  BY <1>2, ReadInvAlways, PTL DEF R!Spec, R!NoReadAfterStop

-----------------------------------------------------------------------------
(* Datagrams, for any number of sends and of datagrams and any batches.    *)

UdpBounds ==
  /\ MaxSends \in Nat /\ MaxIn \in Nat /\ Chunks \in Nat /\ MaxStops \in Nat
  /\ SendBatch \in Nat \ {0} /\ RecvCount \in Nat \ {0}

\* In the middle of uv__udp_recvmsg, and of the sending half of uv__udp_io.
UdpReceiving == {"recv", "recv_cb", "chunk", "chunk_cb", "last_cb", "more"}
UdpSending == {"send", "completed", "send_cb"}

(***************************************************************************)
(* The requests are numbered through from the first that was called back   *)
(* to the last that is queued, and send_queue_count counts those to come.  *)
(***************************************************************************)
UdpOrderInv ==
  /\ done \in Seq(Nat)
  /\ udp_write_completed_queue \in Seq(Nat) /\ udp_write_queue \in Seq(Nat)
  /\ \A k \in 1 .. Len(done) : done[k] = k
  /\ \A k \in 1 .. Len(udp_write_completed_queue) :
       udp_write_completed_queue[k] = Len(done) + k
  /\ \A k \in 1 .. Len(udp_write_queue) :
       udp_write_queue[k] = Len(done) + Len(udp_write_completed_queue) + k
  /\ send_queue_count = Len(udp_write_queue) + Len(udp_write_completed_queue)

\* What arrives is a datagram of the peer.
UdpArrivedInv ==
  /\ udp_arrived \in 0 .. MaxIn
  /\ inq \in Seq(1 .. MaxIn) /\ chunk \in Seq(1 .. MaxIn)

UdpFlagTypes ==
  /\ udp_pollin \in BOOLEAN /\ udp_pollout \in BOOLEAN /\ udp_active \in BOOLEAN
  /\ udp_fed \in BOOLEAN /\ recv \in BOOLEAN /\ revout \in BOOLEAN /\ more \in BOOLEAN
  /\ udp_hstate \in {"open", "closing", "closed"}
  /\ udp_pc \in {"loop"} \cup UdpReceiving \cup UdpSending
  /\ stops \in Nat /\ bufs \in Nat /\ udp_count \in 0 .. RecvCount

(***************************************************************************)
(* Receiving: recv_cb is set exactly while POLLIN is watched, the socket   *)
(* is read only then and within the limit of an event, and a buffer is out *)
(* for a batch only, unless the receiving was stopped.                     *)
(***************************************************************************)
UdpRecvInv ==
  /\ udp_hstate = "open" => recv = udp_pollin
  /\ udp_pc = "recv" => udp_pollin /\ udp_hstate = "open" /\ udp_count > 0
  /\ udp_pc \in UdpReceiving /\ stops = 0 => recv
  /\ udp_pc \in {"chunk", "chunk_cb"} => bufs > 0
  /\ stops = 0 => bufs = IF udp_pc \in {"chunk", "chunk_cb"} THEN 1 ELSE 0

(***************************************************************************)
(* Sending: what waits is watched for, fed or about to be called back; a   *)
(* handle that closes is watched no more, and only uv__udp_finish_close    *)
(* leads to the callbacks without an event to write.                       *)
(***************************************************************************)
UdpSendInv ==
  /\ udp_hstate = "open" =>
       /\ udp_write_queue # <<>> => udp_pollout
       /\ udp_pollin \/ udp_write_queue # <<>> => udp_active
       /\ udp_pc \notin UdpSending /\ udp_write_completed_queue # <<>> => udp_fed \/ udp_pollout
  /\ udp_hstate # "open" => ~udp_pollin /\ ~udp_pollout /\ ~udp_active
  /\ udp_pc = "loop" => ~revout
  /\ udp_pc = "send" => revout
  /\ udp_pc \in UdpSending /\ ~revout => udp_hstate = "closing" /\ udp_write_queue = <<>> /\ ~udp_fed
  /\ udp_hstate = "closed" => /\ udp_pc = "loop" /\ ~udp_fed
                          /\ udp_write_queue = <<>> /\ udp_write_completed_queue = <<>>

UdpInv == UdpOrderInv /\ UdpArrivedInv /\ UdpFlagTypes /\ UdpRecvInv /\ UdpSendInv

(***************************************************************************)
(* The first n of a sequence and the rest.                                 *)
(***************************************************************************)
LEMMA SplitSeq ==
  ASSUME NEW S, NEW s \in Seq(S), NEW n \in 0 .. Len(s)
  PROVE  /\ SubSeq(s, 1, n) \in Seq(S) /\ SubSeq(s, n + 1, Len(s)) \in Seq(S)
         /\ Len(SubSeq(s, 1, n)) = n /\ Len(SubSeq(s, n + 1, Len(s))) = Len(s) - n
         /\ \A k \in 1 .. n : SubSeq(s, 1, n)[k] = s[k]
         /\ \A k \in 1 .. Len(s) - n : SubSeq(s, n + 1, Len(s))[k] = s[n + k]
<1>1. Len(s) \in Nat /\ \A k \in 1 .. Len(s) : s[k] \in S
  BY ElementOfSeq, LenProperties
<1>2. /\ SubSeq(s, 1, n) \in Seq(S) /\ Len(SubSeq(s, 1, n)) = n
      /\ \A k \in 1 .. n : SubSeq(s, 1, n)[k] = s[k]
  BY <1>1
<1>3. /\ SubSeq(s, n + 1, Len(s)) \in Seq(S)
      /\ Len(SubSeq(s, n + 1, Len(s))) = Len(s) - n
      /\ \A k \in 1 .. Len(s) - n : SubSeq(s, n + 1, Len(s))[k] = s[n + k]
  BY <1>1
<1> QED
  BY <1>2, <1>3

(***************************************************************************)
(* A new request goes behind all others, completed requests move on        *)
(* together, and the first of them is called back: they stay in order.     *)
(***************************************************************************)
LEMMA UdpOrderNext ==
  ASSUME UdpBounds, UdpInv, [U!Next]_(U!vars)
  PROVE  UdpOrderInv'
<1> DEFINE Goal == UdpOrderInv'
<1> SUFFICES Goal
  OBVIOUS
<1>1. /\ UdpOrderInv /\ SendBatch \in Nat \ {0}
      /\ Len(done) \in Nat /\ Len(udp_write_queue) \in Nat
      /\ Len(udp_write_completed_queue) \in Nat
      /\ U!Posted \in Nat
  BY LenProperties DEF UdpInv, UdpOrderInv, UdpBounds, U!Posted
<1>2. CASE UNCHANGED U!sendvars
  BY <1>1, <1>2 DEF UdpOrderInv, U!sendvars
<1>3. CASE U!uv__udp_send
  <2> DEFINE new == U!Posted + 1
  <2>1. /\ UNCHANGED done
        /\ send_queue_count' = send_queue_count + 1
        /\ \/ /\ udp_write_queue' = Append(udp_write_queue, new)
              /\ UNCHANGED udp_write_completed_queue
           \/ /\ send_queue_count = 0
              /\ udp_write_queue' = <<new>> /\ UNCHANGED udp_write_completed_queue
           \/ /\ send_queue_count = 0
              /\ udp_write_completed_queue' = Append(udp_write_completed_queue, new)
              /\ UNCHANGED udp_write_queue
    BY <1>3 DEF U!uv__udp_send, U!SendWhenEmpty, U!TriesNow
  <2>2. new \in Nat /\ new = Len(done) + Len(udp_write_queue) + Len(udp_write_completed_queue) + 1
    BY <1>1 DEF U!Posted
  <2>3. send_queue_count = 0 => udp_write_queue = <<>> /\ udp_write_completed_queue = <<>>
    BY <1>1, EmptySeq DEF UdpOrderInv
  <2>4. CASE udp_write_queue' = Append(udp_write_queue, new) /\ UNCHANGED udp_write_completed_queue
    <3>1. /\ udp_write_queue' \in Seq(Nat) /\ Len(udp_write_queue') = Len(udp_write_queue) + 1
          /\ \A k \in 1 .. Len(udp_write_queue) : udp_write_queue'[k] = udp_write_queue[k]
          /\ udp_write_queue'[Len(udp_write_queue) + 1] = new
      BY <1>1, <2>2, <2>4, AppendProperties DEF UdpOrderInv
    <3>2. \A k \in 1 .. Len(udp_write_queue') :
            udp_write_queue'[k] = Len(done) + Len(udp_write_completed_queue) + k
      <4> SUFFICES ASSUME NEW k \in 1 .. Len(udp_write_queue')
                   PROVE  udp_write_queue'[k] = Len(done) + Len(udp_write_completed_queue) + k
        OBVIOUS
      <4>1. CASE k \in 1 .. Len(udp_write_queue)
        BY <1>1, <3>1, <4>1 DEF UdpOrderInv
      <4>2. CASE k = Len(udp_write_queue) + 1
        BY <1>1, <2>2, <3>1, <4>2
      <4> QED
        BY <1>1, <3>1, <4>1, <4>2
    <3> QED
      BY <1>1, <2>1, <2>4, <3>1, <3>2 DEF UdpOrderInv
  <2>5. CASE udp_write_queue' = <<new>> /\ UNCHANGED udp_write_completed_queue
             /\ send_queue_count = 0
    BY <1>1, <2>1, <2>2, <2>3, <2>5 DEF UdpOrderInv
  <2>6. CASE /\ udp_write_completed_queue' = Append(udp_write_completed_queue, new)
             /\ UNCHANGED udp_write_queue /\ send_queue_count = 0
    BY <1>1, <2>1, <2>2, <2>3, <2>6 DEF UdpOrderInv
  <2> QED
    BY <2>1, <2>4, <2>5, <2>6
<1>4. ASSUME NEW n \in 0 .. Len(udp_write_queue), NEW outcome, U!Complete(n, outcome),
             UNCHANGED <<done, send_queue_count>>
      PROVE  Goal
  <2> DEFINE first == SubSeq(udp_write_queue, 1, n)
             rest == SubSeq(udp_write_queue, n + 1, Len(udp_write_queue))
             later == udp_write_completed_queue \o first
  <2>1. udp_write_queue' = rest /\ udp_write_completed_queue' = later
    BY <1>4 DEF U!Complete
  <2>2. /\ first \in Seq(Nat) /\ rest \in Seq(Nat)
        /\ Len(first) = n /\ Len(rest) = Len(udp_write_queue) - n
        /\ \A k \in 1 .. n : first[k] = udp_write_queue[k]
        /\ \A k \in 1 .. Len(udp_write_queue) - n : rest[k] = udp_write_queue[n + k]
    <3>1. udp_write_queue \in Seq(Nat)
      BY <1>1 DEF UdpOrderInv
    <3> QED
      BY <3>1, SplitSeq
  <2> HIDE DEF first, rest
  <2>3. /\ later \in Seq(Nat) /\ Len(later) = Len(udp_write_completed_queue) + n
        /\ \A k \in 1 .. Len(udp_write_completed_queue) + n :
             later[k] = IF k <= Len(udp_write_completed_queue)
                        THEN udp_write_completed_queue[k]
                        ELSE first[k - Len(udp_write_completed_queue)]
    <3>1. udp_write_completed_queue \in Seq(Nat)
      BY <1>1 DEF UdpOrderInv
    <3>2. /\ later \in Seq(Nat)
          /\ Len(later) = Len(udp_write_completed_queue) + Len(first)
          /\ \A k \in 1 .. Len(udp_write_completed_queue) + Len(first) :
               later[k] = IF k <= Len(udp_write_completed_queue)
                          THEN udp_write_completed_queue[k]
                          ELSE first[k - Len(udp_write_completed_queue)]
      BY <2>2, <3>1, ConcatProperties
    <3> QED
      BY <2>2, <3>2
  <2> HIDE DEF later
  <2>4. \A k \in 1 .. Len(later) : later[k] = Len(done) + k
    <3> SUFFICES ASSUME NEW k \in 1 .. Len(later)
                 PROVE  later[k] = Len(done) + k
      OBVIOUS
    <3>1. CASE k <= Len(udp_write_completed_queue)
      <4>1. /\ k \in 1 .. Len(udp_write_completed_queue)
            /\ k \in 1 .. Len(udp_write_completed_queue) + n
        BY <1>1, <2>3, <3>1
      <4>2. later[k] = udp_write_completed_queue[k]
        BY <2>3, <3>1, <4>1
      <4> QED
        BY <1>1, <4>1, <4>2 DEF UdpOrderInv
    <3>2. CASE k > Len(udp_write_completed_queue)
      <4> DEFINE j == k - Len(udp_write_completed_queue)
      <4>1. j \in 1 .. n /\ j \in 1 .. Len(udp_write_queue)
        BY <1>1, <2>3, <3>2
      <4>2. later[k] = first[j]
        BY <1>1, <2>3, <3>2
      <4>3. first[j] = udp_write_queue[j]
        BY <2>2, <4>1
      <4>4. udp_write_queue[j] = Len(done) + Len(udp_write_completed_queue) + j
        BY <1>1, <4>1 DEF UdpOrderInv
      <4> QED
        BY <1>1, <4>2, <4>3, <4>4
    <3> QED
      BY <1>1, <3>1, <3>2
  <2>5. \A k \in 1 .. Len(rest) : rest[k] = Len(done) + Len(later) + k
    <3> SUFFICES ASSUME NEW k \in 1 .. Len(rest)
                 PROVE  rest[k] = Len(done) + Len(later) + k
      OBVIOUS
    <3>1. n + k \in 1 .. Len(udp_write_queue) /\ rest[k] = udp_write_queue[n + k]
      BY <1>1, <2>2
    <3>2. rest[k] = Len(done) + Len(udp_write_completed_queue) + (n + k)
      BY <1>1, <3>1 DEF UdpOrderInv
    <3> QED
      BY <1>1, <2>2, <2>3, <3>2
  <2> QED
    BY <1>1, <1>4, <2>1, <2>2, <2>3, <2>4, <2>5 DEF UdpOrderInv
<1>5. CASE U!SendMsg
  <2>1. UNCHANGED <<send_queue_count, done>>
    BY <1>5 DEF U!SendMsg
  <2>2. CASE UNCHANGED <<udp_write_queue, udp_write_completed_queue, result>>
    BY <1>2, <2>1, <2>2 DEF U!sendvars
  <2>3. ASSUME NEW n \in 1 .. SendBatch, n <= Len(udp_write_queue), U!Complete(n, "ok")
        PROVE  Goal
    BY <1>1, <1>4, <2>1, <2>3
  <2>4. ASSUME U!Complete(IF Len(udp_write_queue) < SendBatch THEN Len(udp_write_queue)
                        ELSE SendBatch, "error")
        PROVE  Goal
    BY <1>1, <1>4, <2>1, <2>4
  <2> QED
    BY <1>5, <2>2, <2>3, <2>4 DEF U!SendMsg
<1>6. CASE U!Completed
  <2> DEFINE h == Head(udp_write_completed_queue)
             t == Tail(udp_write_completed_queue)
  <2>1. /\ udp_write_completed_queue # <<>>
        /\ udp_write_completed_queue' = t /\ done' = Append(done, h)
        /\ send_queue_count' = send_queue_count - 1
        /\ UNCHANGED udp_write_queue
    BY <1>6 DEF U!Completed
  <2>2. /\ t \in Seq(Nat) /\ Len(t) = Len(udp_write_completed_queue) - 1
        /\ \A k \in 1 .. Len(t) : t[k] = udp_write_completed_queue[k + 1]
        /\ Len(udp_write_completed_queue) > 0
        /\ h = udp_write_completed_queue[1]
    BY <1>1, <2>1 DEF UdpOrderInv
  <2>3. h = Len(done) + 1
    BY <1>1, <2>2 DEF UdpOrderInv
  <2> HIDE DEF h, t
  <2>4. /\ Append(done, h) \in Seq(Nat) /\ Len(Append(done, h)) = Len(done) + 1
        /\ \A k \in 1 .. Len(done) + 1 : Append(done, h)[k] = k
    BY <1>1, <2>3 DEF UdpOrderInv
  <2>5. \A k \in 1 .. Len(t) : t[k] = (Len(done) + 1) + k
    BY <1>1, <2>2 DEF UdpOrderInv
  <2>6. \A k \in 1 .. Len(udp_write_queue) :
          udp_write_queue[k] = (Len(done) + 1) + Len(t) + k
    BY <1>1, <2>2 DEF UdpOrderInv
  <2> QED
    BY <1>1, <2>1, <2>2, <2>4, <2>5, <2>6 DEF UdpOrderInv
<1>7. CASE U!FinishClose
  <2>1. U!Complete(Len(udp_write_queue), "canceled") /\ UNCHANGED <<done, send_queue_count>>
    BY <1>7 DEF U!FinishClose
  <2> QED
    BY <1>1, <1>4, <2>1
<1> HIDE DEF Goal
<1>8. CASE U!uv__udp_recv_start \/ U!uv__udp_recv_stop \/ U!uv__udp_close \/ U!Arrive
  BY <1>2, <1>8 DEF U!uv__udp_recv_start, U!uv__udp_recv_stop, U!uv__udp_close, U!Arrive
<1>9. CASE U!LoopStep
  BY <1>2, <1>5, <1>6, <1>7, <1>9 DEF U!LoopStep, U!Io, U!Recv, U!Chunk, U!RecvReturn,
     U!SendReturn, U!CompletedEnd
<1>10. CASE UNCHANGED U!vars
  BY <1>2, <1>10 DEF U!vars
<1> QED
  BY <1>3, <1>8, <1>9, <1>10 DEF U!Next

(***************************************************************************)
(* Datagrams come from the peer, are moved to a batch or dropped: nothing  *)
(* else is ever in the socket or in a batch.                               *)
(***************************************************************************)
LEMMA UdpArrivedNext ==
  ASSUME UdpBounds, UdpInv, [U!Next]_(U!vars)
  PROVE  UdpArrivedInv'
<1> DEFINE Goal == UdpArrivedInv'
<1> SUFFICES Goal
  OBVIOUS
<1>1. /\ UdpArrivedInv /\ MaxIn \in Nat /\ Chunks \in Nat /\ Len(inq) \in Nat
  BY LenProperties DEF UdpInv, UdpArrivedInv, UdpBounds
<1>2. CASE UNCHANGED <<inq, udp_arrived, chunk>>
  BY <1>1, <1>2 DEF UdpArrivedInv
<1>3. CASE U!Arrive
  <2>1. udp_arrived + 1 \in 1 .. MaxIn /\ udp_arrived' = udp_arrived + 1 /\ UNCHANGED chunk
    BY <1>1, <1>3 DEF U!Arrive, UdpArrivedInv
  <2>2. inq' = inq \/ inq' = Append(inq, udp_arrived + 1)
    BY <1>3 DEF U!Arrive
  <2>3. Append(inq, udp_arrived + 1) \in Seq(1 .. MaxIn)
    BY <1>1, <2>1, AppendProperties DEF UdpArrivedInv
  <2>4. inq' \in Seq(1 .. MaxIn)
    BY <1>1, <2>2, <2>3 DEF UdpArrivedInv
  <2> QED
    BY <1>1, <2>1, <2>4 DEF UdpArrivedInv
<1>4. CASE U!Recv
  <2>1. CASE UNCHANGED <<inq, chunk>>
    BY <1>2, <1>4, <2>1 DEF U!Recv
  <2>2. CASE inq # <<>> /\ inq' = Tail(inq) /\ UNCHANGED chunk
    <3>1. Tail(inq) \in Seq(1 .. MaxIn) /\ UNCHANGED udp_arrived
      BY <1>1, <1>4, <2>2, HeadTailProperties DEF UdpArrivedInv, U!Recv
    <3> QED
      BY <1>1, <2>2, <3>1 DEF UdpArrivedInv
  <2>3. ASSUME NEW n \in 1 .. Chunks, n <= Len(inq), chunk' = SubSeq(inq, 1, n),
               inq' = SubSeq(inq, n + 1, Len(inq))
        PROVE  Goal
    <3>1. n \in 0 .. Len(inq) /\ inq \in Seq(1 .. MaxIn) /\ UNCHANGED udp_arrived
      BY <1>1, <1>4, <2>3 DEF UdpArrivedInv, U!Recv
    <3>2. chunk' \in Seq(1 .. MaxIn) /\ inq' \in Seq(1 .. MaxIn)
      BY <2>3, <3>1, SplitSeq
    <3> QED
      BY <1>1, <3>1, <3>2 DEF UdpArrivedInv
  <2> QED
    BY <1>4, <2>1, <2>2, <2>3 DEF U!Recv
<1>5. CASE U!Chunk
  <2>1. UNCHANGED <<inq, udp_arrived>>
    BY <1>5 DEF U!Chunk
  <2>2. chunk' = <<>> \/ (chunk # <<>> /\ chunk' = Tail(chunk))
    BY <1>5 DEF U!Chunk, U!HasChunk
  <2>3. chunk' \in Seq(1 .. MaxIn)
    BY <1>1, <2>2, HeadTailProperties, EmptySeq DEF UdpArrivedInv
  <2> QED
    BY <1>1, <2>1, <2>3 DEF UdpArrivedInv
<1> HIDE DEF Goal
<1>6. CASE U!uv__udp_send \/ U!uv__udp_recv_start \/ U!uv__udp_recv_stop \/ U!uv__udp_close
  BY <1>2, <1>6 DEF U!uv__udp_send, U!uv__udp_recv_start, U!uv__udp_recv_stop,
     U!uv__udp_close, U!recvvars
<1>7. CASE U!LoopStep
  BY <1>2, <1>4, <1>5, <1>7 DEF U!LoopStep, U!Io, U!RecvReturn, U!SendMsg, U!Completed,
     U!SendReturn, U!CompletedEnd, U!FinishClose, U!recvvars
<1>8. CASE UNCHANGED U!vars
  BY <1>2, <1>8 DEF U!vars, U!recvvars
<1> QED
  BY <1>3, <1>6, <1>7, <1>8 DEF U!Next

UdpFlagsInv == UdpFlagTypes /\ UdpRecvInv /\ UdpSendInv

(***************************************************************************)
(* Every call and every step of uv__udp_io keeps what is said of flags,    *)
(* places and buffers.                                                     *)
(***************************************************************************)
LEMMA UdpFlagsNext ==
  ASSUME UdpBounds, UdpInv, [U!Next]_(U!vars)
  PROVE  UdpFlagsInv'
<1> DEFINE Goal == UdpFlagsInv'
<1> SUFFICES Goal
  OBVIOUS
<1>1. /\ UdpFlagTypes /\ UdpRecvInv /\ UdpSendInv /\ RecvCount \in Nat \ {0}
      /\ Chunks \in Nat /\ SendBatch \in Nat \ {0}
      /\ Len(udp_write_queue) \in Nat /\ udp_write_queue \in Seq(Nat)
      /\ udp_write_queue # <<>> => Len(udp_write_queue) > 0
  BY LenProperties, EmptySeq DEF UdpInv, UdpOrderInv, UdpBounds
<1>2. send_queue_count = 0 => udp_write_queue = <<>> /\ udp_write_completed_queue = <<>>
  <2>1. /\ Len(udp_write_queue) \in Nat /\ Len(udp_write_completed_queue) \in Nat
        /\ send_queue_count = Len(udp_write_queue) + Len(udp_write_completed_queue)
        /\ udp_write_queue \in Seq(Nat) /\ udp_write_completed_queue \in Seq(Nat)
    BY LenProperties DEF UdpInv, UdpOrderInv
  <2> QED
    BY <2>1, EmptySeq
<1> USE DEF UdpFlagsInv, UdpFlagTypes, UdpRecvInv, UdpSendInv, UdpReceiving, UdpSending, U!InUserCode,
            U!sendvars, U!recvvars, U!watch
<1>3. CASE U!uv__udp_send
  <2>1. /\ udp_pc \in {"loop", "send_cb", "recv_cb", "chunk_cb", "last_cb"}
        /\ udp_hstate = "open" /\ udp_active' = TRUE
        /\ UNCHANGED <<udp_hstate, U!recvvars, udp_pollin, revout, stops, udp_pc>>
    BY <1>3 DEF U!uv__udp_send
  <2>2. \/ /\ udp_pollout' = TRUE /\ UNCHANGED <<udp_write_completed_queue, udp_fed>>
        \/ /\ udp_fed' = TRUE /\ UNCHANGED <<udp_write_queue, udp_pollout>>
           /\ udp_write_queue = <<>>
    BY <1>2, <1>3 DEF U!uv__udp_send, U!SendWhenEmpty, U!TriesNow
  <2>3. udp_pc \in UdpSending => revout
    BY <1>1, <2>1
  <2>4. CASE udp_pollout' = TRUE /\ UNCHANGED <<udp_write_completed_queue, udp_fed>>
    BY <1>1, <2>1, <2>3, <2>4
  <2>5. CASE udp_fed' = TRUE /\ UNCHANGED <<udp_write_queue, udp_pollout>> /\ udp_write_queue = <<>>
    BY <1>1, <2>1, <2>3, <2>5
  <2> QED
    BY <2>2, <2>4, <2>5
<1>4. CASE U!uv__udp_recv_start
  BY <1>1, <1>4 DEF U!uv__udp_recv_start
<1>5. CASE U!uv__udp_recv_stop
  <2>1. /\ udp_pc \in {"loop", "send_cb", "recv_cb", "chunk_cb", "last_cb"}
        /\ udp_hstate = "open" /\ udp_pollin /\ ~recv' /\ ~udp_pollin'
        /\ recv' \in BOOLEAN /\ udp_pollin' \in BOOLEAN
        /\ udp_active' = (udp_active /\ udp_pollout) /\ stops' = stops + 1
        /\ UNCHANGED <<udp_hstate, U!sendvars, bufs, udp_count, more, udp_pollout, udp_fed, revout, udp_pc>>
    BY <1>5 DEF U!uv__udp_recv_stop
  <2>2. stops' \in Nat /\ stops' # 0
    BY <1>1, <2>1
  <2>3. udp_active' \in BOOLEAN /\ (udp_write_queue # <<>> => udp_pollout /\ udp_active')
    BY <1>1, <2>1
  <2>4. UdpFlagTypes' /\ UdpRecvInv'
    BY <1>1, <2>1, <2>2, <2>3
  <2>5. UdpSendInv'
    BY <1>1, <2>1, <2>3
  <2> QED
    BY <2>4, <2>5
<1>6. CASE U!uv__udp_close
  BY <1>1, <1>6 DEF U!uv__udp_close
<1>7. CASE U!Arrive
  BY <1>1, <1>7 DEF U!Arrive
<1>8. ASSUME NEW in \in BOOLEAN, NEW out \in BOOLEAN, U!Io(in, out) PROVE Goal
  BY <1>1, <1>8 DEF U!Io
<1>9. CASE U!Recv
  <2>1. /\ udp_pc = "recv" /\ udp_pollin /\ udp_hstate = "open" /\ udp_count > 0
        /\ stops = 0 => recv /\ bufs = 0
        /\ UNCHANGED <<udp_hstate, U!sendvars, recv, U!watch, revout, stops>>
    BY <1>1, <1>9 DEF U!Recv
  <2>2. \/ udp_pc' = "chunk" /\ bufs' = bufs + 1
        \/ udp_pc' = "recv_cb" /\ bufs' = bufs
    BY <1>9 DEF U!Recv
  <2>3. udp_count' \in 0 .. RecvCount /\ more' \in BOOLEAN
    <3>1. udp_count \in Nat /\ RecvCount \in Nat /\ more \in BOOLEAN
      BY <1>1
    <3>2. CASE \E n \in 1 .. Chunks : udp_count' = IF udp_count > n THEN udp_count - n ELSE 0
      <4>1. PICK n \in 1 .. Chunks : udp_count' = IF udp_count > n THEN udp_count - n ELSE 0
        BY <3>2
      <4>2. n \in Nat
        BY <1>1
      <4>3. udp_count' \in 0 .. RecvCount
        BY <1>1, <3>1, <4>1, <4>2
      <4>4. more' = more \/ more' = FALSE
        BY <1>9 DEF U!Recv
      <4> QED
        BY <3>1, <4>3, <4>4
    <3>3. CASE udp_count' = udp_count - 1 \/ udp_count' = udp_count
      <4>1. udp_count' \in 0 .. RecvCount
        BY <1>1, <2>1, <3>1, <3>3
      <4>2. more' = more \/ more' = FALSE
        BY <1>9 DEF U!Recv
      <4> QED
        BY <3>1, <4>1, <4>2
    <3> QED
      BY <1>9, <3>2, <3>3 DEF U!Recv
  <2> QED
    BY <1>1, <2>1, <2>2, <2>3
<1>10. CASE U!Chunk
  <2>1. /\ udp_pc = "chunk" /\ bufs > 0 /\ (stops = 0 => recv /\ bufs = 1)
        /\ UNCHANGED <<udp_hstate, U!sendvars, recv, udp_count, more, U!watch, revout, stops>>
    BY <1>1, <1>10 DEF U!Chunk
  <2>2. \/ udp_pc' = "chunk_cb" /\ bufs' = bufs
        \/ udp_pc' = "last_cb" /\ bufs' = bufs - 1
        \/ udp_pc' = "more" /\ bufs' = bufs /\ ~recv
    BY <1>10 DEF U!Chunk, U!HandsBack
  <2> QED
    BY <1>1, <2>1, <2>2
<1>11. CASE U!RecvReturn
  BY <1>1, <1>11 DEF U!RecvReturn, U!ReadsOn
<1>12. CASE U!SendMsg
  <2>1. /\ udp_pc = "send" /\ revout
        /\ udp_pc' \in {"send", "completed"}
        /\ UNCHANGED <<udp_hstate, U!recvvars, udp_pollin, udp_pollout, udp_active, revout, stops>>
        /\ udp_fed' = udp_fed \/ udp_fed' = TRUE
    BY <1>1, <1>12 DEF U!SendMsg
  <2>2. udp_write_queue = <<>> => udp_write_queue' = <<>>
    BY <1>12 DEF U!SendMsg
  <2> QED
    BY <1>1, <2>1, <2>2
<1>13. CASE U!Completed
  BY <1>1, <1>13 DEF U!Completed
<1>14. CASE U!SendReturn
  BY <1>1, <1>14 DEF U!SendReturn
<1>15. CASE U!CompletedEnd
  BY <1>1, <1>15 DEF U!CompletedEnd, U!StopsWritingWhenEmpty
<1>16. CASE U!FinishClose
  <2>1. /\ udp_pc = "loop" /\ udp_hstate = "closing" /\ ~udp_fed
        /\ udp_write_queue' = SubSeq(udp_write_queue, Len(udp_write_queue) + 1, Len(udp_write_queue))
        /\ udp_pc' = "completed"
        /\ UNCHANGED <<udp_hstate, U!recvvars, U!watch, revout, stops>>
    BY <1>16 DEF U!FinishClose, U!Complete
  <2>2. udp_write_queue' = <<>>
    <3>1. Len(udp_write_queue) \in 0 .. Len(udp_write_queue)
      BY <1>1
    <3>2. /\ udp_write_queue' \in Seq(Nat)
          /\ Len(udp_write_queue') = Len(udp_write_queue) - Len(udp_write_queue)
      BY <1>1, <2>1, <3>1, SplitSeq
    <3> QED
      BY <1>1, <3>2, EmptySeq
  <2> QED
    BY <1>1, <2>1, <2>2
<1>17. CASE UNCHANGED U!vars
  BY <1>1, <1>17 DEF U!vars
<1> HIDE DEF Goal
<1> QED
  BY <1>3, <1>4, <1>5, <1>6, <1>7, <1>8, <1>9, <1>10, <1>11, <1>12, <1>13, <1>14,
     <1>15, <1>16, <1>17 DEF U!Next, U!LoopStep

(***************************************************************************)
(* The invariant holds in every reachable state.                           *)
(***************************************************************************)
LEMMA UdpInvAlways ==
  ASSUME UdpBounds
  PROVE  U!Spec => []UdpInv
<1>1. U!Init => UdpInv
  <2> SUFFICES ASSUME U!Init PROVE UdpInv
    OBVIOUS
  <2>1. /\ <<>> \in Seq(Nat) /\ <<>> \in Seq(1 .. MaxIn) /\ Len(<<>>) = 0
    BY EmptySeq
  <2>2. UdpOrderInv
    BY <2>1 DEF U!Init, UdpOrderInv
  <2>3. UdpArrivedInv
    BY <2>1 DEF U!Init, UdpArrivedInv, UdpBounds
  <2>4. UdpFlagTypes /\ UdpRecvInv /\ UdpSendInv
    <3>1. /\ ~udp_pollin /\ ~udp_pollout /\ ~udp_active /\ ~udp_fed /\ ~recv /\ ~revout
          /\ udp_pollin \in BOOLEAN /\ udp_pollout \in BOOLEAN /\ udp_active \in BOOLEAN
          /\ udp_fed \in BOOLEAN /\ recv \in BOOLEAN /\ revout \in BOOLEAN
          /\ more \in BOOLEAN /\ recv = udp_pollin /\ udp_hstate = "open"
          /\ udp_pc = "loop" /\ stops = 0 /\ bufs = 0 /\ udp_count = 0
          /\ udp_write_queue = <<>> /\ udp_write_completed_queue = <<>>
      BY DEF U!Init
    <3>2. RecvCount \in Nat \ {0}
      BY DEF UdpBounds
    <3>3. UdpFlagTypes
      BY <3>1, <3>2 DEF UdpFlagTypes, UdpReceiving, UdpSending
    <3> QED
      BY <3>1, <3>3 DEF UdpRecvInv, UdpSendInv, UdpReceiving, UdpSending
  <2> QED
    BY <2>2, <2>3, <2>4 DEF UdpInv
<1>2. UdpInv /\ [U!Next]_(U!vars) => UdpInv'
  BY UdpOrderNext, UdpArrivedNext, UdpFlagsNext DEF UdpInv, UdpFlagsInv
<1> QED
  BY <1>1, <1>2, PTL DEF U!Spec

(***************************************************************************)
(* Types; send_queue_count is the number of requests still to be called    *)
(* back, through immediate sends, batches, errors and uv_close.            *)
(***************************************************************************)
THEOREM UdpTypeCorrect ==
  ASSUME UdpBounds
  PROVE  U!Spec => []U!TypeOK
<1>1. UdpInv => U!TypeOK
  <2> SUFFICES ASSUME UdpInv PROVE U!TypeOK
    OBVIOUS
  <2>1. \A s \in Seq(1 .. MaxIn) : U!ToSet(s) \subseteq 1 .. MaxIn
    <3> SUFFICES ASSUME NEW s \in Seq(1 .. MaxIn), NEW k \in DOMAIN s
                 PROVE  s[k] \in 1 .. MaxIn
      BY DEF U!ToSet
    <3> QED
      BY ElementOfSeq, LenProperties
  <2> QED
    BY <2>1 DEF UdpInv, UdpOrderInv, UdpArrivedInv, UdpFlagTypes, U!TypeOK
<1> QED
  BY <1>1, UdpInvAlways, PTL

(***************************************************************************)
(* Sends are called back once each and in order, whatever the kernel takes *)
(* of each batch.                                                          *)
(***************************************************************************)
THEOREM SendsStayInOrder ==
  ASSUME UdpBounds
  PROVE  U!Spec => []U!SendsInOrder
<1>1. UdpInv => U!SendsInOrder
  <2> DEFINE early == done \o udp_write_completed_queue
             all == early \o udp_write_queue
  <2> SUFFICES ASSUME UdpInv, NEW k \in 1 .. Len(all)
               PROVE  all[k] = k
    BY DEF U!SendsInOrder
  <2>1. /\ UdpOrderInv
        /\ Len(done) \in Nat /\ Len(udp_write_queue) \in Nat
        /\ Len(udp_write_completed_queue) \in Nat
    BY LenProperties DEF UdpInv, UdpOrderInv
  <2>2. /\ early \in Seq(Nat)
        /\ Len(early) = Len(done) + Len(udp_write_completed_queue)
        /\ \A j \in 1 .. Len(done) + Len(udp_write_completed_queue) :
             early[j] = IF j <= Len(done) THEN done[j]
                        ELSE udp_write_completed_queue[j - Len(done)]
    BY <2>1, ConcatProperties DEF UdpOrderInv
  <2> HIDE DEF early
  <2>3. /\ Len(all) = Len(early) + Len(udp_write_queue)
        /\ \A j \in 1 .. Len(early) + Len(udp_write_queue) :
             all[j] = IF j <= Len(early) THEN early[j]
                      ELSE udp_write_queue[j - Len(early)]
    BY <2>1, <2>2, ConcatProperties DEF UdpOrderInv
  <2> HIDE DEF all
  <2>4. CASE k <= Len(done)
    <3>1. k \in 1 .. Len(done) /\ k <= Len(early) /\ k \in 1 .. Len(early)
      BY <2>1, <2>2, <2>3, <2>4
    <3>2. all[k] = early[k]
      BY <2>1, <2>2, <2>3, <3>1
    <3>3. early[k] = done[k]
      BY <2>1, <2>2, <2>4, <3>1
    <3> QED
      BY <2>1, <3>1, <3>2, <3>3 DEF UdpOrderInv
  <2>5. CASE k > Len(done) /\ k <= Len(early)
    <3>1. k \in 1 .. Len(early) /\ k - Len(done) \in 1 .. Len(udp_write_completed_queue)
      BY <2>1, <2>2, <2>3, <2>5
    <3>2. all[k] = early[k]
      BY <2>1, <2>2, <2>3, <2>5, <3>1
    <3>3. early[k] = udp_write_completed_queue[k - Len(done)]
      BY <2>1, <2>2, <2>5, <3>1
    <3> QED
      BY <2>1, <3>1, <3>2, <3>3 DEF UdpOrderInv
  <2>6. CASE k > Len(early)
    <3>1. k - Len(early) \in 1 .. Len(udp_write_queue) /\ k \in 1 .. Len(all)
      BY <2>1, <2>2, <2>3, <2>6
    <3>2. all[k] = udp_write_queue[k - Len(early)]
      BY <2>1, <2>2, <2>3, <2>6, <3>1
    <3> QED
      BY <2>1, <2>2, <3>1, <3>2 DEF UdpOrderInv
  <2> QED
    BY <2>1, <2>2, <2>3, <2>4, <2>5, <2>6
<1> QED
  BY <1>1, UdpInvAlways, PTL

(***************************************************************************)
(* While the handle is open nothing that waits is forgotten when the loop  *)
(* polls, and a closed handle has called back all its requests and is in   *)
(* none of the loop's queues.                                              *)
(***************************************************************************)
THEOREM WaitingIsWatched ==
  ASSUME UdpBounds
  PROVE  U!Spec => [](U!NothingIsForgotten /\ U!ClosedIsClean)
<1>1. UdpInv => U!NothingIsForgotten
  BY DEF UdpInv, UdpSendInv, UdpFlagTypes, U!NothingIsForgotten, UdpSending
<1>2. UdpInv => U!ClosedIsClean
  <2> SUFFICES ASSUME UdpInv, udp_hstate = "closed"
               PROVE  /\ send_queue_count = 0 /\ Len(done) = U!Posted
                      /\ ~udp_pollin /\ ~udp_pollout /\ ~udp_active /\ ~udp_fed
    BY DEF U!ClosedIsClean
  <2>1. /\ udp_write_queue = <<>> /\ udp_write_completed_queue = <<>>
        /\ ~udp_pollin /\ ~udp_pollout /\ ~udp_active /\ ~udp_fed
    BY DEF UdpInv, UdpSendInv
  <2>2. Len(udp_write_queue) = 0 /\ Len(udp_write_completed_queue) = 0 /\ Len(done) \in Nat
    BY <2>1, LenProperties DEF UdpInv, UdpOrderInv
  <2> QED
    BY <2>1, <2>2 DEF UdpInv, UdpOrderInv, U!Posted
<1> QED
  BY <1>1, <1>2, UdpInvAlways, PTL

(***************************************************************************)
(* The buffer lent for recvmmsg comes back before the loop polls again if  *)
(* the receiving is never stopped.                                         *)
(***************************************************************************)
THEOREM BuffersComeBack ==
  ASSUME UdpBounds
  PROVE  U!Spec => []U!BufferIsHandedBack
<1>1. UdpInv => U!BufferIsHandedBack
  BY DEF UdpInv, UdpRecvInv, U!BufferIsHandedBack
<1> QED
  BY <1>1, UdpInvAlways, PTL

(***************************************************************************)
(* A stopped socket delivers nothing, and a closed one is not read.        *)
(***************************************************************************)
THEOREM StoppedRecvIsSilent ==
  ASSUME UdpBounds
  PROVE  U!Spec => U!NoRecvAfterStop
<1> DEFINE Silent == /\ udp_pc' = "chunk_cb" /\ udp_pc # udp_pc' => recv
                     /\ udp_pc' = "recv" => udp_pollin /\ udp_hstate = "open"
<1>1. ASSUME UdpInv, U!Next
      PROVE  Silent
  <2>1. /\ udp_pc = "recv" => udp_pollin /\ udp_hstate = "open"
        /\ udp_hstate = "open" => recv = udp_pollin
        /\ udp_hstate # "open" => ~udp_pollin
        /\ udp_hstate \in {"open", "closing", "closed"}
    BY <1>1 DEF UdpInv, UdpRecvInv, UdpSendInv, UdpFlagTypes
  <2>2. CASE udp_pc' = udp_pc
    BY <2>1, <2>2
  <2>3. CASE udp_pc' # udp_pc
    <3>1. CASE U!Chunk
      BY <3>1 DEF U!Chunk, U!HasChunk
    <3>2. CASE U!RecvReturn
      BY <2>1, <3>2 DEF U!RecvReturn, U!ReadsOn
    <3>3. ASSUME NEW in \in BOOLEAN, NEW out \in BOOLEAN, U!Io(in, out) PROVE Silent
      BY <2>1, <3>3 DEF U!Io
    <3>4. CASE U!Recv \/ U!SendMsg \/ U!Completed \/ U!SendReturn \/ U!CompletedEnd \/ U!FinishClose
      BY <3>4 DEF U!Recv, U!SendMsg, U!Completed, U!SendReturn, U!CompletedEnd, U!FinishClose
    <3>5. CASE U!uv__udp_send \/ U!uv__udp_recv_start \/ U!uv__udp_recv_stop
               \/ U!uv__udp_close \/ U!Arrive
      BY <2>3, <3>5 DEF U!uv__udp_send, U!uv__udp_recv_start, U!uv__udp_recv_stop,
         U!uv__udp_close, U!Arrive
    <3> HIDE DEF Silent
    <3> QED
      BY <1>1, <3>1, <3>2, <3>3, <3>4, <3>5 DEF U!Next, U!LoopStep
  <2> QED
    BY <2>2, <2>3
<1>2. UdpInv /\ [U!Next]_(U!vars) => [Silent]_(U!vars)
  BY <1>1
<1> QED
  BY <1>2, UdpInvAlways, PTL DEF U!Spec, U!NoRecvAfterStop

-----------------------------------------------------------------------------
(* Child processes.  Nothing is assumed of their constants.                *)

\* No element twice.
ProcessOnce(q) == \A k, j \in 1 .. Len(q) : q[k] = q[j] => k = j

(***************************************************************************)
(* The types of the variables.                                             *)
(***************************************************************************)
ProcessTypeInv ==
  /\ process_child \in [Children -> {"none", "forked", "running", "zombie", "gone"}]
  /\ handle \in [Children -> {"none", "active", "done", "failed", "closed"}]
  /\ watching \in BOOLEAN /\ signaled \in BOOLEAN
  /\ process_handles \in Seq(Children) /\ process_pending \in Seq(Children)
  /\ scan \in Seq(Children) /\ current \in Seq(Children)

(***************************************************************************)
(* What the queues say of the handles in them: process_handles are those   *)
(* that may still exit, pending those that were collected and not told.    *)
(***************************************************************************)
ProcessQueueInv ==
  /\ ProcessOnce(process_handles) /\ ProcessOnce(process_pending) /\ ProcessOnce(scan)
  /\ \A c \in P!ToSet(process_handles) : handle[c] = "active"
  /\ \A c \in P!ToSet(process_pending) : /\ handle[c] \in {"active", "closed"}
                                         /\ process_child[c] = "gone"
                                         /\ c \notin P!ToSet(process_handles)
  /\ \A c \in Children : handle[c] = "active" =>
       c \in P!ToSet(process_handles) \/ c \in P!ToSet(process_pending)
  /\ \A c \in Children : handle[c] = "failed" => process_child[c] = "gone"

(***************************************************************************)
(* Where the loop stands.  While uv_spawn waits, the watcher is started,   *)
(* and the exit of the new child, which is in no queue yet, is signaled.   *)
(***************************************************************************)
ProcessPlaceInv ==
  /\ process_pc \in {"loop", "spawn", "spawn_cb", "scan", "pending", "exit_cb"}
  /\ process_pc = "scan" => \A c \in P!ToSet(scan) : c \in P!ToSet(process_handles)
  /\ process_pc # "scan" => scan = <<>>
  /\ process_pc \in {"loop", "scan", "pending"} => Len(current) = 0
  /\ process_pc \in {"spawn", "exit_cb"} => Len(current) = 1
  /\ process_pc = "spawn_cb" => Len(current) = 2
  /\ process_pc \in {"spawn", "spawn_cb"} =>
       /\ watching /\ handle[current[1]] = "none"
       /\ process_child[current[1]] = "zombie" => signaled

(***************************************************************************)
(* Whoever is in process_handles is watched, and an exit is signaled or    *)
(* will be seen by the pass of uv__wait_children under way.                *)
(***************************************************************************)
ProcessSignalInv ==
  /\ process_handles # <<>> => watching
  /\ \A c \in P!ToSet(process_handles) :
       process_child[c] = "zombie" => signaled \/ c \in P!ToSet(scan)

ProcessInv ==
  ProcessTypeInv /\ ProcessQueueInv /\ ProcessPlaceInv /\ ProcessSignalInv

(***************************************************************************)
(* The elements of a queue are what its positions hold.                    *)
(***************************************************************************)
LEMMA ProcessInQueue ==
  ASSUME NEW S, NEW q \in Seq(S), NEW x
  PROVE  x \in P!ToSet(q) <=> \E k \in 1 .. Len(q) : q[k] = x
  BY DEF P!ToSet

(***************************************************************************)
(* A queue of handles holds handles.                                       *)
(***************************************************************************)
LEMMA ProcessInSet ==
  ASSUME NEW q \in Seq(Children), NEW x \in P!ToSet(q)
  PROVE  x \in Children
  BY ProcessInQueue, ElementOfSeq

(***************************************************************************)
(* The empty queue (uv__queue_init) holds nothing.                         *)
(***************************************************************************)
LEMMA ProcessEmptyFacts == P!ToSet(<<>>) = {} /\ ProcessOnce(<<>>)
  BY DEF P!ToSet, ProcessOnce

(***************************************************************************)
(* uv__queue_insert_tail adds one element at the end, and keeps a queue    *)
(* free of repetitions when the element was not in it.                     *)
(***************************************************************************)
LEMMA ProcessAppendFacts ==
  ASSUME NEW S, NEW q \in Seq(S), NEW x \in S
  PROVE  /\ Append(q, x) \in Seq(S)
         /\ Append(q, x) # <<>>
         /\ \A y : y \in P!ToSet(Append(q, x)) <=> y \in P!ToSet(q) \/ y = x
         /\ ProcessOnce(q) /\ x \notin P!ToSet(q) => ProcessOnce(Append(q, x))
<1>1. /\ Append(q, x) \in Seq(S)
      /\ Len(Append(q, x)) = Len(q) + 1
      /\ \A k \in 1 .. Len(q) : Append(q, x)[k] = q[k]
      /\ Append(q, x)[Len(q) + 1] = x
  BY AppendProperties
<1>2. Len(q) \in Nat
  BY LenProperties
<1> DEFINE a == Append(q, x)
<1> HIDE DEF a
<1>3. \A y : y \in P!ToSet(a) <=> \E k \in 1 .. Len(a) : a[k] = y
  BY <1>1, ProcessInQueue DEF a
<1>4. \A y : y \in P!ToSet(q) <=> \E k \in 1 .. Len(q) : q[k] = y
  BY ProcessInQueue
<1>5. \A y : y \in P!ToSet(a) <=> y \in P!ToSet(q) \/ y = x
  BY <1>1, <1>2, <1>3, <1>4 DEF a
<1>6. a # <<>>
  BY <1>1, <1>2 DEF a
<1>7. ProcessOnce(q) /\ x \notin P!ToSet(q) => ProcessOnce(a)
  BY <1>1, <1>2, <1>4 DEF a, ProcessOnce
<1> QED
  BY <1>1, <1>5, <1>6, <1>7 DEF a

(***************************************************************************)
(* uv__queue_head and uv__queue_remove of the head take one element away,  *)
(* and it is not in the rest.                                              *)
(***************************************************************************)
LEMMA ProcessTailFacts ==
  ASSUME NEW S, NEW q \in Seq(S), q # <<>>
  PROVE  /\ Tail(q) \in Seq(S)
         /\ Head(q) \in S
         /\ \A y : y \in P!ToSet(q) <=> y \in P!ToSet(Tail(q)) \/ y = Head(q)
         /\ ProcessOnce(q) => ProcessOnce(Tail(q))
         /\ ProcessOnce(q) => Head(q) \notin P!ToSet(Tail(q))
<1>1. /\ Len(q) \in Nat \ {0}
      /\ Tail(q) \in Seq(S)
      /\ Len(Tail(q)) = Len(q) - 1
      /\ \A k \in 1 .. Len(q) - 1 : Tail(q)[k] = q[k + 1]
      /\ Head(q) = q[1]
      /\ Head(q) \in S
  BY HeadTailProperties, LenProperties, EmptySeq
<1> DEFINE b == Tail(q)
<1> HIDE DEF b
<1>3. \A y : y \in P!ToSet(b) <=> \E k \in 1 .. Len(b) : b[k] = y
  BY <1>1, ProcessInQueue DEF b
<1>4. \A y : y \in P!ToSet(q) <=> \E k \in 1 .. Len(q) : q[k] = y
  BY ProcessInQueue
<1>5. ASSUME NEW y, y \in P!ToSet(q), y # Head(q)
      PROVE  y \in P!ToSet(b)
  <2>1. PICK k \in 1 .. Len(q) : q[k] = y
    BY <1>4, <1>5
  <2>2. k # 1 /\ k - 1 \in 1 .. Len(b) /\ b[k - 1] = y
    BY <1>1, <1>5, <2>1 DEF b
  <2> QED
    BY <2>2, <1>3
<1>6. ASSUME NEW y, y \in P!ToSet(b)
      PROVE  y \in P!ToSet(q)
  <2>1. PICK k \in 1 .. Len(b) : b[k] = y
    BY <1>3, <1>6
  <2>2. k + 1 \in 1 .. Len(q) /\ q[k + 1] = y
    BY <1>1, <2>1 DEF b
  <2> QED
    BY <2>2, <1>4
<1>7. Head(q) \in P!ToSet(q)
  BY <1>1, <1>4
<1>8. ProcessOnce(q) => ProcessOnce(b)
  BY <1>1 DEF b, ProcessOnce
<1>9. ASSUME ProcessOnce(q), Head(q) \in P!ToSet(b)
      PROVE  FALSE
  <2>1. PICK k \in 1 .. Len(b) : b[k] = Head(q)
    BY <1>3, <1>9
  <2>2. k + 1 \in 1 .. Len(q) /\ q[k + 1] = q[1] /\ 1 \in 1 .. Len(q)
    BY <1>1, <2>1 DEF b
  <2> QED
    BY <1>1, <1>9, <2>2 DEF ProcessOnce
<1> QED
  BY <1>1, <1>5, <1>6, <1>7, <1>8, <1>9 DEF b

(***************************************************************************)
(* Removing a position keeps the others in their order.                    *)
(***************************************************************************)
LEMMA ProcessRemoveAtFacts ==
  ASSUME NEW S, NEW q \in Seq(S), NEW n \in 1 .. Len(q)
  PROVE  /\ P!RemoveAt(q, n) \in Seq(S)
         /\ Len(P!RemoveAt(q, n)) = Len(q) - 1
         /\ \A k \in 1 .. Len(q) - 1 :
              P!RemoveAt(q, n)[k] = IF k < n THEN q[k] ELSE q[k + 1]
<1> DEFINE a == SubSeq(q, 1, n - 1)
           b == SubSeq(q, n + 1, Len(q))
<1>1. Len(q) \in Nat /\ n \in Nat /\ n >= 1 /\ n <= Len(q)
  BY LenProperties
<1>2. a \in Seq(S) /\ Len(a) = n - 1 /\ \A k \in 1 .. n - 1 : a[k] = q[k]
  <2>1. \A k \in 1 .. n - 1 : k \in 1 .. Len(q)
    BY <1>1
  <2>2. \A k \in 1 .. n - 1 : q[k] \in S
    BY <2>1, ElementOfSeq
  <2> QED
  BY <1>1, SubSeqProperties
<1>3. /\ b \in Seq(S) /\ Len(b) = Len(q) - n
      /\ \A k \in 1 .. Len(q) - n : b[k] = q[n + k]
  BY <1>1, SubSeqProperties
<1> HIDE DEF a, b
<1>4. /\ a \o b \in Seq(S)
      /\ Len(a \o b) = Len(a) + Len(b)
      /\ \A k \in 1 .. Len(a) + Len(b) :
           (a \o b)[k] = IF k <= Len(a) THEN a[k] ELSE b[k - Len(a)]
  BY <1>2, <1>3, ConcatProperties
<1>5. P!RemoveAt(q, n) = a \o b
  BY DEF P!RemoveAt, a, b
<1>6. Len(a \o b) = Len(q) - 1
  BY <1>1, <1>2, <1>3, <1>4
<1>7. ASSUME NEW k \in 1 .. Len(q) - 1, k < n
      PROVE  (a \o b)[k] = q[k]
  BY <1>1, <1>2, <1>3, <1>4, <1>7
<1>8. ASSUME NEW k \in 1 .. Len(q) - 1, ~(k < n)
      PROVE  (a \o b)[k] = q[k + 1]
  <2>1. k - Len(a) \in 1 .. Len(q) - n /\ n + (k - Len(a)) = k + 1
    BY <1>1, <1>2, <1>8
  <2>2. b[k - Len(a)] = q[n + (k - Len(a))]
    BY <1>3, <2>1
  <2> QED
    BY <1>1, <1>2, <1>3, <1>4, <1>8, <2>1, <2>2
<1> QED
  BY <1>4, <1>5, <1>6, <1>7, <1>8

(***************************************************************************)
(* uv__queue_remove of a handle: it is gone, the rest stays, and a queue   *)
(* without it does not change.                                             *)
(***************************************************************************)
LEMMA ProcessWithoutFacts ==
  ASSUME NEW S, NEW q \in Seq(S), NEW w
  PROVE  /\ P!Without(q, w) \in Seq(S)
         /\ w \notin P!ToSet(q) => P!Without(q, w) = q
         /\ \A y : y # w => (y \in P!ToSet(P!Without(q, w)) <=> y \in P!ToSet(q))
         /\ ProcessOnce(q) => ProcessOnce(P!Without(q, w))
         /\ ProcessOnce(q) => w \notin P!ToSet(P!Without(q, w))
<1>1. CASE w \notin P!ToSet(q)
  BY <1>1 DEF P!Without
<1>2. CASE w \in P!ToSet(q)
  <2> DEFINE n == CHOOSE k \in DOMAIN q : q[k] = w
             r == P!RemoveAt(q, n)
  <2>1. Len(q) \in Nat /\ DOMAIN q = 1 .. Len(q)
    BY LenProperties
  <2>2. n \in 1 .. Len(q) /\ q[n] = w
    <3>1. \E k \in DOMAIN q : q[k] = w
      BY <1>2 DEF P!ToSet
    <3> QED
      BY <2>1, <3>1
  <2> HIDE DEF n
  <2>3. /\ r \in Seq(S)
        /\ Len(r) = Len(q) - 1
        /\ \A k \in 1 .. Len(q) - 1 : r[k] = IF k < n THEN q[k] ELSE q[k + 1]
    BY <2>2, ProcessRemoveAtFacts
  <2>4. P!Without(q, w) = r
    BY <1>2 DEF P!Without, n
  <2> HIDE DEF r
  <2>5. \A y : y \in P!ToSet(r) <=> \E k \in 1 .. Len(r) : r[k] = y
    BY <2>3, ProcessInQueue
  <2>6. \A y : y \in P!ToSet(q) <=> \E k \in 1 .. Len(q) : q[k] = y
    BY ProcessInQueue
  <2>7. ASSUME NEW y, y # w, y \in P!ToSet(q)
        PROVE  y \in P!ToSet(r)
    <3>1. PICK k \in 1 .. Len(q) : q[k] = y
      BY <2>6, <2>7
    <3>2. CASE k < n
      <4>1. k \in 1 .. Len(r) /\ r[k] = y
        BY <2>1, <2>2, <2>3, <3>1, <3>2
      <4> QED
        BY <2>5, <4>1
    <3>3. CASE k > n
      <4>1. k - 1 \in 1 .. Len(r) /\ r[k - 1] = y
        BY <2>1, <2>2, <2>3, <3>1, <3>3
      <4> QED
        BY <2>5, <4>1
    <3> QED
      BY <2>1, <2>2, <2>7, <3>1, <3>2, <3>3
  <2>8. ASSUME NEW y, y \in P!ToSet(r)
        PROVE  \E k \in 1 .. Len(q) : k # n /\ q[k] = y
    <3>1. PICK k \in 1 .. Len(r) : r[k] = y
      BY <2>5, <2>8
    <3> QED
      BY <2>1, <2>2, <2>3, <3>1
  <2>9. ProcessOnce(q) => ProcessOnce(r)
    <3> SUFFICES ASSUME ProcessOnce(q), NEW k \in 1 .. Len(r), NEW j \in 1 .. Len(r),
                        r[k] = r[j]
                 PROVE  k = j
      BY DEF ProcessOnce
    <3> QED
      BY <2>1, <2>2, <2>3 DEF ProcessOnce
  <2>10. ProcessOnce(q) => w \notin P!ToSet(r)
    BY <2>2, <2>8 DEF ProcessOnce
  <2> QED
    BY <2>3, <2>4, <2>6, <2>7, <2>8, <2>9, <2>10, <1>2
<1> QED
  BY <1>1, <1>2

(***************************************************************************)
(* The initial state.                                                      *)
(***************************************************************************)
LEMMA ProcessInvInit == ASSUME P!Init PROVE ProcessInv
<1>1. ProcessTypeInv
  BY EmptySeq DEF P!Init, ProcessTypeInv
<1>2. ProcessQueueInv
  BY ProcessEmptyFacts DEF P!Init, ProcessQueueInv
<1>3. ProcessPlaceInv
  BY EmptySeq DEF P!Init, ProcessPlaceInv
<1>4. ProcessSignalInv
  BY ProcessEmptyFacts DEF P!Init, ProcessSignalInv
<1> QED
  BY <1>1, <1>2, <1>3, <1>4 DEF ProcessInv

(***************************************************************************)
(* The child goes on, exits, or is collected by other code.  The exit of a *)
(* child in process_handles or of the one uv_spawn waits for finds the     *)
(* watcher started.                                                        *)
(***************************************************************************)
LEMMA ProcessChildNext ==
  ASSUME ProcessInv, NEW c \in Children,
         P!Exec(c) \/ P!Steal(c) \/ \E h \in {"eof", "errno"} : P!Die(c, h)
  PROVE  ProcessInv'
<1>1. /\ UNCHANGED <<handle, watching, process_handles, process_pending, scan,
                     current, process_pc>>
      /\ process_child[c] \in {"forked", "running", "zombie"}
      /\ \/ process_child' = [process_child EXCEPT ![c] = "running"] /\ signaled' = signaled
         \/ process_child' = [process_child EXCEPT ![c] = "gone"] /\ signaled' = signaled
         \/ process_child' = [process_child EXCEPT ![c] = "zombie"]
            /\ signaled' = (signaled \/ watching)
  BY DEF P!Exec, P!Steal, P!Die, P!queues
<1>2. /\ \A e \in Children : e # c => process_child'[e] = process_child[e]
      /\ process_child'[c] \in {"running", "gone", "zombie"}
      /\ process_child'[c] = "zombie" => signaled' = (signaled \/ watching)
      /\ signaled => signaled'
      /\ signaled' \in BOOLEAN
      /\ process_child[c] # "gone"
  BY <1>1 DEF ProcessInv, ProcessTypeInv
<1>3. \A q \in Seq(Children) : \A e \in P!ToSet(q) : e \in Children
  BY ProcessInSet
<1>4. ProcessTypeInv'
  BY <1>1, <1>2 DEF ProcessInv, ProcessTypeInv
<1>5. ProcessQueueInv'
  <2>1. /\ \A e \in P!ToSet(process_pending) : process_child'[e] = "gone"
        /\ \A e \in Children : handle[e] = "failed" => process_child'[e] = "gone"
    BY <1>2, <1>3 DEF ProcessInv, ProcessQueueInv, ProcessTypeInv
  <2> QED
    BY <1>1, <2>1 DEF ProcessInv, ProcessQueueInv
<1>6. ProcessPlaceInv'
  <2>1. process_pc \in {"spawn", "spawn_cb"} =>
          (process_child'[current[1]] = "zombie" => signaled')
    <3> SUFFICES ASSUME process_pc \in {"spawn", "spawn_cb"},
                        process_child'[current[1]] = "zombie"
                 PROVE  signaled'
      OBVIOUS
    <3>1. watching /\ (process_child[current[1]] = "zombie" => signaled)
      BY DEF ProcessInv, ProcessPlaceInv
    <3>2. current[1] \in Children
      <4>1. 1 \in 1 .. Len(current)
        BY DEF ProcessInv, ProcessPlaceInv
      <4> QED
        BY <4>1, ElementOfSeq DEF ProcessInv, ProcessTypeInv
    <3> QED
      BY <1>2, <3>1, <3>2
  <2> QED
    BY <1>1, <2>1 DEF ProcessInv, ProcessPlaceInv
<1>7. ProcessSignalInv'
  <2> SUFFICES ASSUME NEW e \in P!ToSet(process_handles), process_child'[e] = "zombie"
               PROVE  signaled' \/ e \in P!ToSet(scan)
    BY <1>1 DEF ProcessInv, ProcessSignalInv
  <2>1. watching /\ e \in Children
    BY <1>3, ProcessEmptyFacts DEF ProcessInv, ProcessSignalInv, ProcessTypeInv
  <2> QED
    BY <1>2, <2>1 DEF ProcessInv, ProcessSignalInv
<1> QED
  BY <1>4, <1>5, <1>6, <1>7 DEF ProcessInv

(***************************************************************************)
(* uv_spawn starts the watcher before it forks, and the new handle joins   *)
(* process_handles with its child running or its exit signaled.            *)
(***************************************************************************)
LEMMA ProcessSpawnNext ==
  ASSUME ProcessInv, P!SpawnReturns \/ \E c \in Children : P!Spawn(c)
  PROVE  ProcessInv'
<1>1. ASSUME NEW c \in Children, P!Spawn(c)
      PROVE  ProcessInv'
  <2>1. /\ process_pc \in {"loop", "exit_cb"} /\ handle[c] = "none" /\ process_child[c] = "none"
        /\ watching' = TRUE /\ process_child' = [process_child EXCEPT ![c] = "forked"]
        /\ current' = <<c>> \o current
        /\ process_pc' = IF process_pc = "loop" THEN "spawn" ELSE "spawn_cb"
        /\ UNCHANGED <<handle, signaled, process_handles, process_pending, scan>>
    BY <1>1 DEF P!Spawn, P!InUserCode, P!queues
  <2>2. /\ current' \in Seq(Children) /\ Len(current') = Len(current) + 1
        /\ current'[1] = c
    <3>1. <<c>> \in Seq(Children) /\ Len(<<c>>) = 1 /\ <<c>>[1] = c
      OBVIOUS
    <3>2. current \in Seq(Children) /\ Len(current) \in Nat
      BY LenProperties DEF ProcessInv, ProcessTypeInv
    <3> QED
      BY <2>1, <3>1, <3>2, ConcatProperties
  <2>3. \A e \in Children : process_child'[e] = IF e = c THEN "forked" ELSE process_child[e]
    BY <2>1 DEF ProcessInv, ProcessTypeInv
  <2>4. \A q \in Seq(Children) : \A e \in P!ToSet(q) : e \in Children
    BY ProcessInSet
  <2>5. ProcessTypeInv'
    BY <2>1, <2>2, <2>3 DEF ProcessInv, ProcessTypeInv
  <2>6. ProcessQueueInv'
    <3>1. /\ \A e \in P!ToSet(process_pending) : process_child'[e] = "gone"
          /\ \A e \in Children : handle[e] = "failed" => process_child'[e] = "gone"
      BY <2>1, <2>3, <2>4 DEF ProcessInv, ProcessQueueInv, ProcessTypeInv
    <3> QED
      BY <2>1, <3>1 DEF ProcessInv, ProcessQueueInv
  <2>7. ProcessPlaceInv'
    BY <2>1, <2>2, <2>3 DEF ProcessInv, ProcessPlaceInv
  <2>8. ProcessSignalInv'
    BY <2>1, <2>3, <2>4 DEF ProcessInv, ProcessSignalInv, ProcessTypeInv
  <2> QED
    BY <2>5, <2>6, <2>7, <2>8 DEF ProcessInv
<1>2. ASSUME P!SpawnReturns
      PROVE  ProcessInv'
  <2> DEFINE c == Head(current)
  <2>1. /\ process_pc \in {"spawn", "spawn_cb"}
        /\ UNCHANGED <<signaled, watching, process_pending, scan>>
        /\ current' = Tail(current)
        /\ process_pc' = IF process_pc = "spawn" THEN "loop" ELSE "exit_cb"
        /\ \/ /\ handle' = [handle EXCEPT ![c] = "active"]
              /\ process_handles' = Append(process_handles, c)
              /\ process_child' = process_child
           \/ /\ handle' = [handle EXCEPT ![c] = "failed"]
              /\ process_child' = [process_child EXCEPT ![c] = "gone"]
              /\ process_handles' = process_handles
    BY <1>2 DEF P!SpawnReturns, P!ReapFailed
  <2>2. /\ current # <<>> /\ c = current[1] /\ c \in Children
        /\ Tail(current) \in Seq(Children) /\ Len(Tail(current)) = Len(current) - 1
        /\ Len(current) \in Nat
    <3>1. current # <<>> /\ current \in Seq(Children)
      BY <2>1, EmptySeq DEF ProcessInv, ProcessPlaceInv, ProcessTypeInv
    <3> QED
      BY <3>1, HeadTailProperties, LenProperties
  <2>3. /\ watching /\ handle[c] = "none"
        /\ process_child[c] = "zombie" => signaled
        /\ scan = <<>>
    BY <2>1, <2>2 DEF ProcessInv, ProcessPlaceInv
  <2> HIDE DEF c
  <2>4. \A q \in Seq(Children) : \A e \in P!ToSet(q) : e \in Children
    BY ProcessInSet
  <2>5. c \notin P!ToSet(process_handles) /\ c \notin P!ToSet(process_pending)
    BY <2>3 DEF ProcessInv, ProcessQueueInv
  <2>6. ProcessPlaceInv'
    BY <2>1, <2>2, <2>3 DEF ProcessInv, ProcessPlaceInv
  <2>7. CASE /\ handle' = [handle EXCEPT ![c] = "active"]
             /\ process_handles' = Append(process_handles, c)
             /\ process_child' = process_child
    <3>1. /\ process_handles' \in Seq(Children)
          /\ \A e : e \in P!ToSet(process_handles') <=> e \in P!ToSet(process_handles) \/ e = c
          /\ ProcessOnce(process_handles')
      BY <2>2, <2>5, <2>7, ProcessAppendFacts
         DEF ProcessInv, ProcessTypeInv, ProcessQueueInv
    <3>2. /\ \A e \in Children : handle'[e] = IF e = c THEN "active" ELSE handle[e]
          /\ handle' \in [Children -> {"none", "active", "done", "failed", "closed"}]
      BY <2>2, <2>7 DEF ProcessInv, ProcessTypeInv
    <3>3. ProcessTypeInv'
      BY <2>1, <2>2, <2>7, <3>1, <3>2 DEF ProcessInv, ProcessTypeInv
    <3>4. ProcessQueueInv'
      BY <2>1, <2>2, <2>4, <2>5, <2>7, <3>1, <3>2
         DEF ProcessInv, ProcessQueueInv, ProcessTypeInv
    <3>5. ProcessSignalInv'
      BY <2>1, <2>3, <2>7, <3>1 DEF ProcessInv, ProcessSignalInv
    <3> QED
      BY <2>6, <3>3, <3>4, <3>5 DEF ProcessInv
  <2>8. CASE /\ handle' = [handle EXCEPT ![c] = "failed"]
             /\ process_child' = [process_child EXCEPT ![c] = "gone"]
             /\ process_handles' = process_handles
    <3>1. /\ \A e \in Children : handle'[e] = IF e = c THEN "failed" ELSE handle[e]
          /\ \A e \in Children : process_child'[e] = IF e = c THEN "gone" ELSE process_child[e]
          /\ handle' \in [Children -> {"none", "active", "done", "failed", "closed"}]
          /\ process_child' \in [Children -> {"none", "forked", "running", "zombie", "gone"}]
      BY <2>2, <2>8 DEF ProcessInv, ProcessTypeInv
    <3>2. ProcessTypeInv'
      BY <2>1, <2>2, <2>8, <3>1 DEF ProcessInv, ProcessTypeInv
    <3>3. ProcessQueueInv'
      BY <2>1, <2>2, <2>4, <2>5, <2>8, <3>1
         DEF ProcessInv, ProcessQueueInv, ProcessTypeInv
    <3>4. ProcessSignalInv'
      BY <2>1, <2>4, <2>5, <2>8, <3>1 DEF ProcessInv, ProcessSignalInv,
         ProcessTypeInv
    <3> QED
      BY <2>6, <3>2, <3>3, <3>4 DEF ProcessInv
  <2> QED
    BY <2>1, <2>7, <2>8
<1> QED
  BY <1>1, <1>2

(***************************************************************************)
(* uv_close takes the handle out of its queue.  The watcher is stopped     *)
(* only when process_handles is empty then.                                *)
(***************************************************************************)
LEMMA ProcessCloseNext ==
  ASSUME ProcessInv, NEW c \in Children, P!Close(c)
  PROVE  ProcessInv'
<1> DEFINE rest == P!Without(process_handles, c)
           kept == P!Without(process_pending, c)
<1>1. /\ process_pc \in {"loop", "exit_cb"}
      /\ handle' = [handle EXCEPT ![c] = "closed"]
      /\ process_handles' = rest
      /\ watching' = (watching /\ rest # <<>>)
      /\ process_pending' = process_pending \/ process_pending' = kept
      /\ UNCHANGED <<process_child, signaled, scan, current, process_pc>>
  BY DEF P!Close, P!InUserCode, P!StopsWatching, P!kernel
<1>2. /\ rest \in Seq(Children) /\ ProcessOnce(rest)
      /\ c \notin P!ToSet(rest)
      /\ \A e : e # c => (e \in P!ToSet(rest) <=> e \in P!ToSet(process_handles))
      /\ rest # <<>> => process_handles # <<>>
  <2>1. /\ rest \in Seq(Children) /\ ProcessOnce(rest) /\ c \notin P!ToSet(rest)
        /\ \A e : e # c => (e \in P!ToSet(rest) <=> e \in P!ToSet(process_handles))
        /\ c \notin P!ToSet(process_handles) => rest = process_handles
    BY ProcessWithoutFacts DEF ProcessInv, ProcessTypeInv, ProcessQueueInv
  <2>2. process_handles = <<>> => c \notin P!ToSet(process_handles)
    BY ProcessEmptyFacts
  <2> QED
    BY <2>1, <2>2
<1>3. /\ process_pending' \in Seq(Children) /\ ProcessOnce(process_pending')
      /\ \A e : e # c => (e \in P!ToSet(process_pending') <=> e \in P!ToSet(process_pending))
      /\ c \in P!ToSet(process_pending') => c \in P!ToSet(process_pending)
  <2>1. /\ kept \in Seq(Children) /\ ProcessOnce(kept) /\ c \notin P!ToSet(kept)
        /\ \A e : e # c => (e \in P!ToSet(kept) <=> e \in P!ToSet(process_pending))
    BY ProcessWithoutFacts DEF ProcessInv, ProcessTypeInv, ProcessQueueInv
  <2> QED
    BY <1>1, <2>1 DEF ProcessInv, ProcessTypeInv, ProcessQueueInv
<1> HIDE DEF rest, kept
<1>4. /\ \A e \in Children : handle'[e] = IF e = c THEN "closed" ELSE handle[e]
      /\ handle' \in [Children -> {"none", "active", "done", "failed", "closed"}]
  BY <1>1 DEF ProcessInv, ProcessTypeInv
<1>5. \A q \in Seq(Children) : \A e \in P!ToSet(q) : e \in Children
  BY ProcessInSet
<1>6. ProcessTypeInv'
  <2>1. watching' \in BOOLEAN
    BY <1>1
  <2> QED
    BY <1>1, <1>2, <1>3, <1>4, <2>1 DEF ProcessInv, ProcessTypeInv
<1>7. ProcessQueueInv'
  <2>1. \A e \in P!ToSet(process_handles') : handle'[e] = "active"
    BY <1>1, <1>2, <1>4, <1>5 DEF ProcessInv, ProcessQueueInv
  <2>2. \A e \in P!ToSet(process_pending') : /\ handle'[e] \in {"active", "closed"}
                                             /\ process_child'[e] = "gone"
                                             /\ e \notin P!ToSet(process_handles')
    BY <1>1, <1>2, <1>3, <1>4, <1>5 DEF ProcessInv, ProcessQueueInv
  <2>3. \A e \in Children : handle'[e] = "active" =>
          e \in P!ToSet(process_handles') \/ e \in P!ToSet(process_pending')
    BY <1>1, <1>2, <1>3, <1>4 DEF ProcessInv, ProcessQueueInv
  <2>4. \A e \in Children : handle'[e] = "failed" => process_child'[e] = "gone"
    BY <1>1, <1>4 DEF ProcessInv, ProcessQueueInv
  <2> QED
    BY <1>1, <1>2, <1>3, <2>1, <2>2, <2>3, <2>4 DEF ProcessInv, ProcessQueueInv
<1>8. ProcessPlaceInv'
  BY <1>1 DEF ProcessInv, ProcessPlaceInv
<1>9. ProcessSignalInv'
  <2>1. process_handles' # <<>> => watching'
    BY <1>1, <1>2 DEF ProcessInv, ProcessSignalInv
  <2>2. \A e \in P!ToSet(process_handles') :
          process_child'[e] = "zombie" => signaled' \/ e \in P!ToSet(scan')
    BY <1>1, <1>2 DEF ProcessInv, ProcessSignalInv
  <2> QED
    BY <2>1, <2>2 DEF ProcessSignalInv
<1> QED
  BY <1>6, <1>7, <1>8, <1>9 DEF ProcessInv

(***************************************************************************)
(* The SIGCHLD message is taken, and the pass of uv__wait_children looks   *)
(* at all handles there are.                                               *)
(***************************************************************************)
LEMMA ProcessChldNext == ASSUME ProcessInv, P!Chld PROVE ProcessInv'
<1>1. /\ process_pc = "loop" /\ signaled' = FALSE
      /\ scan' = IF watching THEN process_handles ELSE <<>>
      /\ process_pc' = IF watching THEN "scan" ELSE "loop"
      /\ UNCHANGED <<process_child, handle, watching, process_handles,
                     process_pending, current>>
  BY DEF P!Chld, P!kernel
<1>2. ProcessTypeInv'
  BY <1>1, EmptySeq DEF ProcessInv, ProcessTypeInv
<1>3. ProcessQueueInv'
  BY <1>1, ProcessEmptyFacts DEF ProcessInv, ProcessQueueInv
<1>4. ProcessPlaceInv'
  BY <1>1 DEF ProcessInv, ProcessPlaceInv
<1>5. ProcessSignalInv'
  BY <1>1, ProcessEmptyFacts DEF ProcessInv, ProcessSignalInv
<1> QED
  BY <1>2, <1>3, <1>4, <1>5 DEF ProcessInv

(***************************************************************************)
(* uv__wait_children looks at a handle, and moves it if its child exited.  *)
(***************************************************************************)
LEMMA ProcessWaitNext == ASSUME ProcessInv, P!Wait PROVE ProcessInv'
<1> DEFINE c == Head(scan)
           rest == P!Without(process_handles, c)
<1>1. /\ process_pc = "scan" /\ scan # <<>> /\ scan' = Tail(scan)
      /\ \/ /\ process_child[c] = "zombie"
            /\ process_child' = [process_child EXCEPT ![c] = "gone"]
            /\ process_handles' = rest
            /\ process_pending' = Append(process_pending, c)
         \/ /\ process_child[c] # "zombie"
            /\ UNCHANGED <<process_child, process_handles, process_pending>>
      /\ UNCHANGED <<handle, watching, signaled, current, process_pc>>
  BY DEF P!Wait, P!ScanRest
<1>2. /\ scan' \in Seq(Children) /\ c \in Children /\ ProcessOnce(scan')
      /\ \A e : e \in P!ToSet(scan) <=> e \in P!ToSet(scan') \/ e = c
      /\ c \notin P!ToSet(scan')
  BY <1>1, ProcessTailFacts DEF ProcessInv, ProcessTypeInv, ProcessQueueInv
<1> HIDE DEF c
<1>3. c \in P!ToSet(process_handles)
  BY <1>1, <1>2 DEF ProcessInv, ProcessPlaceInv
<1>4. \A q \in Seq(Children) : \A e \in P!ToSet(q) : e \in Children
  BY ProcessInSet
<1>5. CASE /\ process_child[c] # "zombie"
           /\ UNCHANGED <<process_child, process_handles, process_pending>>
  <2>1. ProcessTypeInv'
    BY <1>1, <1>2, <1>5 DEF ProcessInv, ProcessTypeInv
  <2>2. ProcessQueueInv'
    BY <1>1, <1>2, <1>5 DEF ProcessInv, ProcessQueueInv
  <2>3. ProcessPlaceInv'
    BY <1>1, <1>2, <1>5 DEF ProcessInv, ProcessPlaceInv
  <2>4. ProcessSignalInv'
    BY <1>1, <1>2, <1>5 DEF ProcessInv, ProcessSignalInv
  <2> QED
    BY <2>1, <2>2, <2>3, <2>4 DEF ProcessInv
<1>6. CASE /\ process_child[c] = "zombie"
           /\ process_child' = [process_child EXCEPT ![c] = "gone"]
           /\ process_handles' = rest
           /\ process_pending' = Append(process_pending, c)
  <2>1. /\ process_handles' \in Seq(Children) /\ ProcessOnce(process_handles')
        /\ c \notin P!ToSet(process_handles')
        /\ \A e : e # c => (e \in P!ToSet(process_handles')
                              <=> e \in P!ToSet(process_handles))
    BY <1>6, ProcessWithoutFacts DEF ProcessInv, ProcessTypeInv,
       ProcessQueueInv
  <2>2. c \notin P!ToSet(process_pending)
    BY <1>3 DEF ProcessInv, ProcessQueueInv
  <2>3. /\ process_pending' \in Seq(Children) /\ ProcessOnce(process_pending')
        /\ \A e : e \in P!ToSet(process_pending') <=> e \in P!ToSet(process_pending) \/ e = c
    BY <1>2, <1>6, <2>2, ProcessAppendFacts
       DEF ProcessInv, ProcessTypeInv, ProcessQueueInv
  <2>4. /\ \A e \in Children : process_child'[e] = IF e = c THEN "gone" ELSE process_child[e]
        /\ process_child' \in [Children -> {"none", "forked", "running", "zombie", "gone"}]
    BY <1>2, <1>6 DEF ProcessInv, ProcessTypeInv
  <2>5. ProcessTypeInv'
    BY <1>1, <1>2, <2>1, <2>3, <2>4 DEF ProcessInv, ProcessTypeInv
  <2>6. ProcessQueueInv'
    <3>1. \A e \in P!ToSet(process_handles') : handle'[e] = "active"
      BY <1>1, <2>1 DEF ProcessInv, ProcessQueueInv
    <3>2. \A e \in P!ToSet(process_pending') : /\ handle'[e] \in {"active", "closed"}
                                               /\ process_child'[e] = "gone"
                                               /\ e \notin P!ToSet(process_handles')
      BY <1>1, <1>2, <1>3, <1>4, <2>1, <2>3, <2>4
         DEF ProcessInv, ProcessQueueInv, ProcessTypeInv
    <3>3. \A e \in Children : handle'[e] = "active" =>
            e \in P!ToSet(process_handles') \/ e \in P!ToSet(process_pending')
      BY <1>1, <2>1, <2>3 DEF ProcessInv, ProcessQueueInv
    <3>4. \A e \in Children : handle'[e] = "failed" => process_child'[e] = "gone"
      BY <1>1, <2>4 DEF ProcessInv, ProcessQueueInv
    <3> QED
      BY <1>2, <2>1, <2>3, <3>1, <3>2, <3>3, <3>4
         DEF ProcessInv, ProcessQueueInv
  <2>7. ProcessPlaceInv'
    <3>1. \A e \in P!ToSet(scan') : e \in P!ToSet(process_handles')
      BY <1>1, <1>2, <2>1 DEF ProcessInv, ProcessPlaceInv
    <3> QED
      BY <1>1, <3>1 DEF ProcessInv, ProcessPlaceInv
  <2>8. ProcessSignalInv'
    <3>1. watching
      BY <1>3, ProcessEmptyFacts DEF ProcessInv, ProcessSignalInv
    <3>2. \A e \in P!ToSet(process_handles') :
            process_child'[e] = "zombie" => signaled' \/ e \in P!ToSet(scan')
      BY <1>1, <1>2, <1>4, <2>1, <2>4 DEF ProcessInv, ProcessSignalInv,
         ProcessTypeInv
    <3> QED
      BY <1>1, <3>1, <3>2 DEF ProcessSignalInv
  <2> QED
    BY <2>5, <2>6, <2>7, <2>8 DEF ProcessInv
<1> QED
  BY <1>1, <1>5, <1>6

(***************************************************************************)
(* The next collected handle is stopped and its exit_cb called.            *)
(***************************************************************************)
LEMMA ProcessExitCbNext == ASSUME ProcessInv, P!ExitCb PROVE ProcessInv'
<1> DEFINE c == Head(process_pending)
<1>1. /\ process_pc = "pending" /\ process_pending # <<>>
      /\ process_pending' = Tail(process_pending)
      /\ handle' = [handle EXCEPT ![c] = IF @ = "active" THEN "done" ELSE @]
      /\ current' = <<c>> /\ process_pc' = "exit_cb"
      /\ UNCHANGED <<process_child, watching, signaled, process_handles, scan>>
  BY DEF P!ExitCb, P!kernel
<1>2. /\ process_pending' \in Seq(Children) /\ c \in Children /\ ProcessOnce(process_pending')
      /\ \A e : e \in P!ToSet(process_pending) <=> e \in P!ToSet(process_pending') \/ e = c
      /\ c \notin P!ToSet(process_pending')
  BY <1>1, ProcessTailFacts DEF ProcessInv, ProcessTypeInv, ProcessQueueInv
<1> HIDE DEF c
<1>3. /\ \A e \in Children : e # c => handle'[e] = handle[e]
      /\ handle'[c] = IF handle[c] = "active" THEN "done" ELSE handle[c]
      /\ handle' \in [Children -> {"none", "active", "done", "failed", "closed"}]
  BY <1>1, <1>2 DEF ProcessInv, ProcessTypeInv
<1>4. current' \in Seq(Children) /\ Len(current') = 1
  BY <1>1, <1>2
<1>5. \A q \in Seq(Children) : \A e \in P!ToSet(q) : e \in Children
  BY ProcessInSet
<1>6. ProcessTypeInv'
  BY <1>1, <1>2, <1>3, <1>4 DEF ProcessInv, ProcessTypeInv
<1>7. c \notin P!ToSet(process_handles) /\ handle[c] \in {"active", "closed"}
  BY <1>2 DEF ProcessInv, ProcessQueueInv
<1>8. ProcessQueueInv'
  <2>1. \A e \in P!ToSet(process_handles') : handle'[e] = "active"
    BY <1>1, <1>3, <1>5, <1>7 DEF ProcessInv, ProcessQueueInv, ProcessTypeInv
  <2>2. \A e \in P!ToSet(process_pending') : /\ handle'[e] \in {"active", "closed"}
                                             /\ process_child'[e] = "gone"
                                             /\ e \notin P!ToSet(process_handles')
    BY <1>1, <1>2, <1>3, <1>5 DEF ProcessInv, ProcessQueueInv
  <2>3. \A e \in Children : handle'[e] = "active" =>
          e \in P!ToSet(process_handles') \/ e \in P!ToSet(process_pending')
    BY <1>1, <1>2, <1>3 DEF ProcessInv, ProcessQueueInv
  <2>4. \A e \in Children : handle'[e] = "failed" => process_child'[e] = "gone"
    BY <1>1, <1>3, <1>7 DEF ProcessInv, ProcessQueueInv
  <2> QED
    BY <1>1, <1>2, <2>1, <2>2, <2>3, <2>4 DEF ProcessInv, ProcessQueueInv
<1>9. ProcessPlaceInv'
  BY <1>1, <1>4 DEF ProcessInv, ProcessPlaceInv
<1>10. ProcessSignalInv'
  BY <1>1 DEF ProcessInv, ProcessSignalInv
<1> QED
  BY <1>6, <1>8, <1>9, <1>10 DEF ProcessInv

(***************************************************************************)
(* Every step keeps the invariant.                                         *)
(***************************************************************************)
LEMMA ProcessInvNext == ASSUME ProcessInv, [P!Next]_(P!vars) PROVE ProcessInv'
<1>1. CASE P!WaitEnd \/ P!ExitReturn \/ P!PendingEnd
  <2>1. /\ UNCHANGED <<process_child, handle, watching, signaled, process_handles,
                       process_pending, scan>>
        /\ process_pc' \in {"pending", "loop"} /\ scan = <<>>
        /\ (current' = current /\ Len(current) = 0) \/ current' = <<>>
    BY <1>1 DEF P!WaitEnd, P!ExitReturn, P!PendingEnd, P!kernel, P!queues,
       ProcessInv, ProcessPlaceInv
  <2>2. current' \in Seq(Children) /\ Len(current') = 0
    BY <2>1, EmptySeq DEF ProcessInv, ProcessTypeInv
  <2>3. ProcessTypeInv' /\ ProcessQueueInv' /\ ProcessSignalInv'
    BY <2>1, <2>2 DEF ProcessInv, ProcessTypeInv, ProcessQueueInv,
       ProcessSignalInv
  <2>4. ProcessPlaceInv'
    BY <2>1, <2>2 DEF ProcessInv, ProcessPlaceInv
  <2> QED
    BY <2>3, <2>4 DEF ProcessInv
<1>2. CASE UNCHANGED P!vars
  BY <1>2 DEF ProcessInv, ProcessTypeInv, ProcessQueueInv, ProcessPlaceInv,
     ProcessSignalInv, P!vars, P!kernel, P!queues
<1> QED
  BY <1>1, <1>2, ProcessChildNext, ProcessSpawnNext, ProcessCloseNext,
     ProcessChldNext, ProcessWaitNext, ProcessExitCbNext
     DEF P!Next, P!LoopStep

(***************************************************************************)
(* The invariant holds throughout.                                         *)
(***************************************************************************)
THEOREM ProcessInvHolds == P!Spec => []ProcessInv
<1>1. P!Init => ProcessInv
  BY ProcessInvInit
<1>2. ProcessInv /\ [P!Next]_(P!vars) => ProcessInv'
  BY ProcessInvNext
<1> QED
  BY <1>1, <1>2, PTL DEF P!Spec

(***************************************************************************)
(* A handle is in one of the two queues, once, so that unlinking it from   *)
(* "its" queue is enough.                                                  *)
(***************************************************************************)
THEOREM ProcessTypeCorrect == P!Spec => []P!TypeOK
<1>1. ASSUME ProcessInv
      PROVE  P!TypeOK
  <2> DEFINE a == process_handles
             q == process_pending
             r == a \o q
  <2>1. /\ a \in Seq(Children) /\ q \in Seq(Children) /\ ProcessOnce(a) /\ ProcessOnce(q)
        /\ \A e \in P!ToSet(q) : e \notin P!ToSet(a)
    BY <1>1 DEF ProcessInv, ProcessTypeInv, ProcessQueueInv
  <2> HIDE DEF a, q
  <2>2. /\ r \in Seq(Children) /\ Len(r) = Len(a) + Len(q)
        /\ \A k \in 1 .. Len(a) + Len(q) :
             r[k] = IF k <= Len(a) THEN a[k] ELSE q[k - Len(a)]
        /\ Len(a) \in Nat /\ Len(q) \in Nat
        /\ DOMAIN r = 1 .. Len(r)
    BY <2>1, ConcatProperties, LenProperties
  <2>3. \A k \in 1 .. Len(a), j \in 1 .. Len(q) : a[k] # q[j]
    BY <2>1, ProcessInQueue
  <2> HIDE DEF r
  <2>4. ASSUME NEW k \in 1 .. Len(r), NEW j \in 1 .. Len(r), r[k] = r[j]
        PROVE  k = j
    <3>1. CASE k <= Len(a) /\ j <= Len(a)
      BY <2>1, <2>2, <2>4, <3>1 DEF ProcessOnce
    <3>2. CASE k <= Len(a) /\ ~(j <= Len(a))
      <4>1. k \in 1 .. Len(a) /\ j - Len(a) \in 1 .. Len(q)
        BY <2>2, <3>2
      <4> QED
        BY <2>2, <2>3, <2>4, <3>2, <4>1
    <3>3. CASE ~(k <= Len(a)) /\ j <= Len(a)
      <4>1. j \in 1 .. Len(a) /\ k - Len(a) \in 1 .. Len(q)
        BY <2>2, <3>3
      <4> QED
        BY <2>2, <2>3, <2>4, <3>3, <4>1
    <3>4. CASE ~(k <= Len(a)) /\ ~(j <= Len(a))
      <4>1. /\ k - Len(a) \in 1 .. Len(q) /\ j - Len(a) \in 1 .. Len(q)
            /\ q[k - Len(a)] = q[j - Len(a)]
        BY <2>2, <2>4, <3>4
      <4>2. k - Len(a) = j - Len(a)
        BY <2>1, <4>1 DEF ProcessOnce
      <4> QED
        BY <2>2, <4>2
    <3> QED
      BY <3>1, <3>2, <3>3, <3>4
  <2>5. P!IsInjective(process_handles \o process_pending)
    BY <2>2, <2>4 DEF P!IsInjective, a, q, r
  <2>6. Len(current) <= 2
    <3>1. /\ process_pc \in {"loop", "scan", "pending"} => Len(current) = 0
          /\ process_pc \in {"spawn", "exit_cb"} => Len(current) = 1
          /\ process_pc = "spawn_cb" => Len(current) = 2
          /\ process_pc \in {"loop", "spawn", "spawn_cb", "scan", "pending", "exit_cb"}
      BY <1>1 DEF ProcessInv, ProcessPlaceInv
    <3>2. Len(current) = 0 \/ Len(current) = 1 \/ Len(current) = 2
      BY <3>1
    <3>3. 0 <= 2 /\ 1 <= 2 /\ 2 <= 2
      OBVIOUS
    <3> QED
      BY ONLY <3>2, <3>3
  <2> QED
    BY <1>1, <2>5, <2>6 DEF P!TypeOK, ProcessInv, ProcessTypeInv
<1> QED
  BY <1>1, ProcessInvHolds, PTL

(***************************************************************************)
(* An exit is never overlooked: when the loop waits, a SIGCHLD message is  *)
(* under way for every child with an open handle that has exited, for any  *)
(* number of children that exit together, between fork and the end of      *)
(* uv_spawn, or during uv__wait_children.                                  *)
(***************************************************************************)
THEOREM ExitsAreSeen == P!Spec => []P!NoExitIsMissed
<1>1. ASSUME ProcessInv
      PROVE  P!NoExitIsMissed
  <2> SUFFICES ASSUME process_pc = "loop", NEW c \in Children, handle[c] = "active",
                      process_child[c] = "zombie"
               PROVE  watching /\ signaled
    BY DEF P!NoExitIsMissed
  <2>1. c \in P!ToSet(process_handles)
    BY <1>1 DEF ProcessInv, ProcessQueueInv
  <2>2. scan = <<>> /\ process_handles # <<>>
    BY <1>1, <2>1, ProcessEmptyFacts DEF ProcessInv, ProcessPlaceInv
  <2> QED
    BY <1>1, <2>1, <2>2, ProcessEmptyFacts DEF ProcessInv, ProcessSignalInv
<1> QED
  BY <1>1, ProcessInvHolds, PTL

(***************************************************************************)
(* A spawn that failed leaves no zombie and no handle in the queue.        *)
(***************************************************************************)
THEOREM FailuresAreClean == P!Spec => []P!FailedSpawnIsClean
<1>1. ProcessInv => P!FailedSpawnIsClean
  BY DEF ProcessInv, ProcessQueueInv, P!FailedSpawnIsClean
<1> QED
  BY <1>1, ProcessInvHolds, PTL

(***************************************************************************)
(* exit_cb is called only for a child that was collected, and not again    *)
(* for a handle whose exit_cb has been called.                             *)
(***************************************************************************)
THEOREM ExitIsToldOnce == P!Spec => P!ExitCbOnce
<1> DEFINE Told == process_pc' = "exit_cb" /\ process_pc = "pending" =>
                     /\ process_child[Head(process_pending)] = "gone"
                     /\ handle[Head(process_pending)] \in {"active", "closed"}
<1>1. ASSUME ProcessInv, P!Next, process_pc' = "exit_cb", process_pc = "pending"
      PROVE  /\ process_child[Head(process_pending)] = "gone"
             /\ handle[Head(process_pending)] \in {"active", "closed"}
  <2>1. process_pending # <<>>
    BY <1>1 DEF P!Next, P!LoopStep, P!Exec, P!Die, P!Steal, P!Spawn, P!Close,
       P!SpawnReturns, P!Chld,
       P!Wait, P!WaitEnd, P!ExitCb, P!ExitReturn, P!PendingEnd, P!InUserCode
  <2>2. Head(process_pending) \in P!ToSet(process_pending)
    BY <1>1, <2>1, ProcessTailFacts DEF ProcessInv, ProcessTypeInv
  <2> QED
    BY <1>1, <2>2 DEF ProcessInv, ProcessQueueInv
<1>2. ProcessInv /\ [P!Next]_(P!vars) => [Told]_(P!vars)
  BY <1>1
<1> QED
  BY <1>2, ProcessInvHolds, PTL DEF P!Spec, P!ExitCbOnce

-----------------------------------------------------------------------------
(* The repository's own programs, for any message, files and sizes.        *)

DE == INSTANCE Demos WITH
  MaxSends <- EchoSends

(***************************************************************************)
(* A set of numbers has a least element.                                   *)
(***************************************************************************)
LEMMA LeastNat ==
  ASSUME NEW T \in SUBSET Nat, T # {}
  PROVE  \E n \in T : \A m \in T : n <= m
<1> DEFINE V == {0 .. m : m \in T}
           Below == StrictSubsetOrdering(Nat)
           S == FiniteSubsetsOf(Nat)
<1>1. IsWellFoundedOn(Below, S)
  BY FS_StrictSubsetOrderingWellFounded
<1>2. V \subseteq S /\ V # {}
  <2>1. \A m \in Nat : IsFiniteSet(0 .. m) /\ 0 .. m \in SUBSET Nat
    BY FS_Interval
  <2> QED
    BY <2>1 DEF FiniteSubsetsOf
<1> HIDE DEF V, Below, S
<1>3. PICK x \in V : \A y \in V : ~ (<<y, x>> \in Below)
  BY <1>1, <1>2, WFMin
<1> USE DEF V
<1>4. PICK n \in T : x = 0 .. n
  BY <1>3
<1>5. \A m \in T : n <= m
  <2> SUFFICES ASSUME NEW m \in T, m < n PROVE FALSE
    OBVIOUS
  <2>1. 0 .. m \in V /\ <<0 .. m, x>> \notin Below
    BY <1>3
  <2>2. 0 .. m \subseteq 0 .. n /\ n \in 0 .. n /\ n \notin 0 .. m
    OBVIOUS
  <2>3. 0 .. m \in SUBSET Nat /\ 0 .. n \in SUBSET Nat
    OBVIOUS
  <2> QED
    BY <2>1, <2>2, <2>3, <1>4 DEF Below, StrictSubsetOrdering
<1> QED
  BY <1>5

(***************************************************************************)
(* What the programs are given: buffers have a size, a message fits into   *)
(* the segment with its final 0, files are sequences of statements.        *)
(***************************************************************************)
Statements == {"ok", "bad", "nul"}

DemoBounds ==
  /\ Buffer \in Nat /\ MaxSql \in Nat
  /\ Message \in Seq(Nat \ {0})
  /\ SegmentSize \in Nat /\ Len(Message) < SegmentSize
  /\ Files \subseteq Seq(Statements)

(***************************************************************************)
(* The echo programs.  Before the connection stands the client has nothing *)
(* under way; afterwards the chain of writes and timers is one.            *)
(***************************************************************************)
EchoStates ==
  [prog : {"echo"}, client : {"connecting", "ended", "up", "closing", "closed"},
   server : {"up", "gone"}, writes : Seq(Nat), timers : Nat, sends : Nat,
   made : Nat, freed : Nat, leaked : Nat, out : Nat, back : Nat,
   echoes : Seq(Nat), sent : Nat, received : Nat]

ClientInv ==
  DE!IsEcho =>
    /\ d \in EchoStates
    /\ d.client \in {"connecting", "ended"} =>
         d.writes = <<>> /\ d.timers = 0 /\ d.made = 0 /\ d.freed = 0 /\ d.leaked = 0
    /\ DE!OneSendAtATime /\ DE!RequestsAreFreed

\* g[k] is the sum of the first k numbers of q.
AreSums(q, g) == /\ g \in [0 .. Len(q) -> Int] /\ g[0] = 0
                 /\ \A k \in 1 .. Len(q) : g[k] = g[k - 1] + q[k]

SumsTo(q, v) == \E g : AreSums(q, g) /\ g[Len(q)] = v

\* The server's bytes, with the sum of its echoes as a running sum.
ServerInv ==
  DE!IsEcho /\ d.server = "up" =>
    \E v \in Int : SumsTo(d.echoes, v) /\ d.sent = d.out + v + d.back + d.received

(***************************************************************************)
(* The shared segment holds 0 or the character of the message everywhere.  *)
(***************************************************************************)
ShmStates ==
  [prog : {"shm"}, segment : {<<>>} \cup [1 .. SegmentSize -> Nat],
   writer : {"shmget", "strcpy", "done"}, written : SUBSET (1 .. Len(Message) + 1),
   reader : {"shmget", "printf", "done"}, text : Seq(Nat)]

Holds(segment) ==
  /\ segment \in [1 .. SegmentSize -> Nat]
  /\ \A k \in 1 .. SegmentSize :
       segment[k] = 0 \/ (k <= Len(Message) /\ segment[k] = Message[k])

SegmentInv ==
  DE!IsShm =>
    /\ d \in ShmStates
    /\ d.segment = <<>> => d.writer = "shmget" /\ d.reader = "shmget"
    /\ d.segment # <<>> => Holds(d.segment)
    /\ Len(d.text) <= Len(Message)
    /\ \A k \in 1 .. Len(d.text) : d.text[k] = Message[k]

(***************************************************************************)
(* The SQL runner: what it holds at each place, and that what it executes  *)
(* is the beginning of what it has read, which is as long as the file was. *)
(***************************************************************************)
IsSqlRun == d.prog = "sql"

SqlStates ==
  [prog : {"sql"}, pc : {"open", "fopen", "ftell", "malloc", "fread", "exec", "exit", "killed"},
   file : Seq(Statements), size : Nat \cup {-1}, sql : Seq(Statements),
   done : Seq(Statements), db : BOOLEAN, fp : BOOLEAN, buffer : BOOLEAN, loaded : Nat,
   badopen : BOOLEAN, status : {-1, 0, 1},
   says : {"nothing", "error", "success", "SQL error"}]

HeldInv ==
  IsSqlRun =>
    /\ d.pc # "exit" => /\ ~d.badopen /\ d.says = "nothing" /\ d.status = -1
                        /\ d.db <=> d.pc # "open"
                        /\ d.fp <=> d.pc \in {"ftell", "malloc", "fread", "killed"}
                        /\ d.buffer <=> d.pc \in {"fread", "exec", "killed"}
    /\ d.pc \notin {"exec", "exit"} => d.done = <<>>
    /\ d.pc \notin {"exec", "exit", "killed"} => d.loaded = 0
    /\ d.pc = "exec" => Len(d.sql) = d.size
    /\ DE!ExitsCleanly

StatementInv ==
  IsSqlRun =>
    /\ Len(d.done) <= Len(d.sql)
    /\ \A k \in 1 .. Len(d.done) : d.done[k] = d.sql[k]
    /\ d.says = "success" =>
         /\ Len(d.sql) = d.size
         /\ Len(d.done) = Len(d.sql) \/ d.sql[Len(d.done) + 1] = "nul"
    /\ d.says = "SQL error" => d.sql[Len(d.done) + 1] = "bad"

SizeInv ==
  IsSqlRun =>
    /\ d.size <= MaxSql /\ Len(d.sql) <= MaxSql
    /\ d.size >= 0 => d.loaded <= d.size + 1
    /\ d.size = -1 => d.done = <<>> /\ d.status # 0
    /\ d.status = 1 => d.done = <<>>

RunnerInv ==
  IsSqlRun => d \in SqlStates /\ HeldInv /\ StatementInv /\ SizeInv

DemosInv == DE!TypeOK /\ ClientInv /\ ServerInv /\ SegmentInv /\ RunnerInv

(***************************************************************************)
(* Sum(q) is what any running sum over q comes to.                         *)
(***************************************************************************)
LEMMA SumIsTotal ==
  ASSUME NEW q \in Seq(Nat), NEW v, SumsTo(q, v)
  PROVE  DE!Sum(q) = v
<1> PICK g : AreSums(q, g) /\ g[Len(q)] = v
  BY DEF SumsTo
<1> DEFINE IsTotal(f) == f = [n \in 0 .. Len(q) |-> IF n = 0 THEN 0 ELSE f[n - 1] + q[n]]
           sums == CHOOSE f : IsTotal(f)
<1>0. Len(q) \in Nat
  OBVIOUS
<1>1. IsTotal(g)
  BY <1>0 DEF AreSums
<1>2. IsTotal(sums)
  BY <1>1
<1>3. DE!Sum(q) = sums[Len(q)]
  BY DEF DE!Sum
<1> HIDE DEF sums
<1> DEFINE wrong == {n \in 0 .. Len(q) : sums[n] # g[n]}
<1>4. wrong = {}
  <2> SUFFICES ASSUME wrong # {} PROVE FALSE
    OBVIOUS
  <2>1. wrong \in SUBSET Nat
    BY <1>0
  <2> HIDE DEF wrong
  <2>2. PICK n \in wrong : \A m \in wrong : n <= m
    BY <2>1, LeastNat
  <2> USE DEF wrong
  <2>3. n \in 0 .. Len(q) /\ sums[n] # g[n]
    BY <2>2
  <2>4. CASE n = 0
    BY <1>2, <2>3, <2>4 DEF AreSums
  <2>5. CASE n # 0
    <3>1. n - 1 \in 0 .. Len(q) /\ n - 1 \notin wrong /\ n \in 1 .. Len(q)
      BY <1>0, <2>2, <2>3, <2>5
    <3>2. sums[n - 1] = g[n - 1]
      BY <3>1
    <3>3. sums[n] = sums[n - 1] + q[n]
      BY <1>2, <2>3, <2>5
    <3> QED
      BY <2>3, <3>1, <3>2, <3>3 DEF AreSums
  <2> QED
    BY <2>4, <2>5
<1> QED
  BY <1>0, <1>3, <1>4

(***************************************************************************)
(* The sum when a number is appended, and when n is taken from the first,  *)
(* which leaves the queue when it is 0.                                    *)
(***************************************************************************)
LEMMA SumAppended ==
  ASSUME NEW q \in Seq(Nat), NEW v \in Int, SumsTo(q, v), NEW n \in Nat
  PROVE  SumsTo(Append(q, n), v + n)
<1>0. PICK g : AreSums(q, g) /\ g[Len(q)] = v
  BY DEF SumsTo
<1> DEFINE a == Append(q, n)
           f == [k \in 0 .. Len(q) + 1 |-> IF k <= Len(q) THEN g[k] ELSE g[Len(q)] + n]
<1>1. /\ Len(q) \in Nat /\ Len(a) = Len(q) + 1 /\ a[Len(q) + 1] = n
      /\ \A k \in 1 .. Len(q) : a[k] = q[k]
  BY AppendProperties
<1> HIDE DEF a
<1>2. AreSums(a, f)
  <2>1. f \in [0 .. Len(a) -> Int] /\ f[0] = 0
    BY <1>0, <1>1 DEF AreSums
  <2>2. ASSUME NEW k \in 1 .. Len(a) PROVE f[k] = f[k - 1] + a[k]
    <3>1. CASE k <= Len(q)
      BY <1>0, <1>1, <3>1 DEF AreSums
    <3>2. CASE k = Len(q) + 1
      BY <1>0, <1>1, <3>2 DEF AreSums
    <3> QED
      BY <1>1, <3>1, <3>2
  <2> QED
    BY <2>1, <2>2 DEF AreSums
<1>3. f[Len(a)] = v + n
  BY <1>0, <1>1
<1> HIDE DEF f
<1> QED
  BY <1>2, <1>3 DEF a, SumsTo

\* r is q with n taken from its first number.
IsLessened(r, q, n) == r = [q EXCEPT ![1] = q[1] - n]

LEMMA SumTaken ==
  ASSUME NEW q \in Seq(Nat), q # <<>>, NEW v \in Int, SumsTo(q, v),
         NEW n \in Nat, n <= Head(q),
         NEW r, IsLessened(r, q, n)
  PROVE  /\ r \in Seq(Nat) /\ r # <<>> /\ r[1] = Head(q) - n /\ Tail(r) \in Seq(Nat)
         /\ SumsTo(IF r[1] = 0 THEN Tail(r) ELSE r, v - n)
<1>0. PICK g : AreSums(q, g) /\ g[Len(q)] = v
  BY DEF SumsTo
<1> DEFINE f == [k \in 0 .. Len(q) |-> IF k = 0 THEN 0 ELSE g[k] - n]
           t == [k \in 0 .. Len(q) - 1 |-> f[k + 1]]
<1>1. Len(q) \in Nat \ {0} /\ Head(q) = q[1] /\ q[1] \in Nat
  BY HeadTailProperties, LenProperties, EmptySeq
<1>2. r \in Seq(Nat) /\ Len(r) = Len(q) /\ r[1] = q[1] - n
        /\ \A k \in 2 .. Len(q) : r[k] = q[k]
  BY <1>1, ExceptSeq DEF IsLessened
<1>3. r # <<>>
  BY <1>1, <1>2
<1>4. Tail(r) \in Seq(Nat) /\ Len(Tail(r)) = Len(q) - 1
        /\ \A k \in 1 .. Len(q) - 1 : Tail(r)[k] = r[k + 1]
  BY <1>1, <1>2, <1>3, HeadTailProperties
<1>5. /\ f \in [0 .. Len(q) -> Int] /\ f[0] = 0
      /\ \A k \in 1 .. Len(q) : f[k] = g[k] - n
  BY <1>0, <1>1 DEF AreSums
<1>6. /\ t \in [0 .. Len(q) - 1 -> Int]
      /\ \A k \in 0 .. Len(q) - 1 : t[k] = f[k + 1]
  <2> HIDE DEF f
  <2> QED
    BY <1>1, <1>5
<1> HIDE DEF f, t
<1>7. /\ g[0] = 0 /\ g[1] = q[1]
      /\ \A k \in 0 .. Len(q) : g[k] \in Int
      /\ \A k \in 1 .. Len(q) : g[k] = g[k - 1] + q[k]
  <2>1. /\ g[0] = 0 /\ g \in [0 .. Len(q) -> Int]
        /\ \A k \in 1 .. Len(q) : g[k] = g[k - 1] + q[k]
    BY <1>0 DEF AreSums
  <2>2. g[1] = g[0] + q[1]
    <3>1. 1 \in 1 .. Len(q) /\ g[1 - 1] = g[0]
      BY <1>1
    <3> QED
      BY <2>1, <3>1
  <2>3. g[1] = q[1]
    BY <1>1, <2>1, <2>2
  <2>4. \A k \in 0 .. Len(q) : g[k] \in Int
    BY <2>1
  <2> QED
    BY <2>1, <2>3, <2>4
<1>8. AreSums(r, f)
  <2> SUFFICES ASSUME NEW k \in 1 .. Len(q) PROVE f[k] = f[k - 1] + r[k]
    BY <1>2, <1>5 DEF AreSums
  <2>1. CASE k = 1
    <3>1. f[1] = g[1] - n /\ f[1 - 1] = 0
      BY <1>1, <1>5
    <3> QED
      BY <1>1, <1>2, <1>7, <2>1, <3>1
  <2>2. CASE k # 1
    <3>1. k - 1 \in 1 .. Len(q) /\ k \in 2 .. Len(q) /\ k - 1 \in 0 .. Len(q)
      BY <1>1, <2>2
    <3>2. f[k] = g[k] - n /\ f[k - 1] = g[k - 1] - n /\ r[k] = q[k]
      BY <1>2, <1>5, <3>1
    <3>3. g[k] = g[k - 1] + q[k] /\ g[k - 1] \in Int
      BY <1>7, <3>1
    <3>4. q[k] \in Nat
      BY ElementOfSeq
    <3> QED
      BY <1>1, <3>2, <3>3, <3>4
  <2> QED
    BY <2>1, <2>2
<1>9. f[Len(r)] = v - n
  <2>1. Len(q) \in 1 .. Len(q)
    BY <1>1
  <2>2. f[Len(q)] = g[Len(q)] - n
    BY <1>5, <2>1
  <2> QED
    BY <1>0, <1>2, <2>2
<1>10. ASSUME r[1] = 0
       PROVE  AreSums(Tail(r), t) /\ t[Len(Tail(r))] = v - n
  <2>1. f[1] = 0
    BY <1>1, <1>2, <1>5, <1>7, <1>10
  <2>2. \A k \in 1 .. Len(q) : f[k] = f[k - 1] + r[k]
    BY <1>2, <1>8 DEF AreSums
  <2>3. t[0] = 0 /\ t[Len(q) - 1] = f[Len(q)]
    BY <1>1, <1>6, <2>1
  <2>4. ASSUME NEW k \in 1 .. Len(q) - 1 PROVE t[k] = t[k - 1] + Tail(r)[k]
    <3>1. f[k + 1] = f[k] + r[k + 1]
      <4>1. k + 1 \in 1 .. Len(q) /\ k + 1 - 1 = k
        BY <1>1
      <4> QED
        BY <2>2, <4>1
    <3>2. t[k] = f[k + 1] /\ t[k - 1] = f[k]
      <4>1. k \in 0 .. Len(q) - 1 /\ k - 1 \in 0 .. Len(q) - 1 /\ (k - 1) + 1 = k
        BY <1>1
      <4> QED
        BY <1>6, <4>1
    <3> QED
      BY <1>4, <3>1, <3>2
  <2>5. AreSums(Tail(r), t)
    BY <1>4, <1>6, <2>3, <2>4 DEF AreSums
  <2> QED
    BY <1>2, <1>4, <1>9, <2>3, <2>5
<1>11. SumsTo(IF r[1] = 0 THEN Tail(r) ELSE r, v - n)
  BY <1>8, <1>9, <1>10 DEF SumsTo
<1> QED
  BY <1>1, <1>2, <1>3, <1>4, <1>11

(***************************************************************************)
(* A step of the echo programs leaves it at them.                          *)
(***************************************************************************)
LEMMA EchoOnly ==
  ASSUME d'.prog = "echo", ClientInv', ServerInv'
  PROVE  DemosInv'
BY DEF DemosInv, DE!TypeOK, SegmentInv, RunnerInv, DE!IsShm, IsSqlRun

\* The first number of a sequence is one, and there is a rest.
LEMMA FirstOf ==
  ASSUME NEW q \in Seq(Nat), q # <<>>
  PROVE  /\ Head(q) = q[1] /\ q[1] \in Nat /\ Len(q) \in Nat \ {0}
         /\ Tail(q) \in Seq(Nat) /\ Len(Tail(q)) = Len(q) - 1
<1>1. Len(q) \in Nat \ {0}
  BY EmptySeq
<1>2. Head(q) = q[1] /\ q[1] \in Nat
  BY <1>1, LenProperties
<1> QED
  BY <1>1, <1>2, HeadTailProperties

\* on_connect starts the chain with one write, or ends the loop.
LEMMA ConnectKeeps ==
  ASSUME DemoBounds, DemosInv, NEW ok \in BOOLEAN, DE!on_connect(ok)
  PROVE  DemosInv'
<1>1. DE!IsEcho /\ d \in EchoStates /\ d.client = "connecting" /\ d.prog = "echo"
      /\ DE!RequestsAreFreed
      /\ d.writes = <<>> /\ d.timers = 0 /\ d.made = 0 /\ d.freed = 0 /\ d.leaked = 0
  BY DEF DemosInv, ClientInv, DE!on_connect, DE!IsEcho
<1>2. PICK w : w \in Seq(Nat) /\ w = Append(d.writes, Buffer) /\ Len(w) = 1
  <2>1. <<>> \in Seq(Nat) /\ Buffer \in Nat
    BY DEF DemoBounds
  <2>2. Append(<<>>, Buffer) \in Seq(Nat) /\ Len(Append(<<>>, Buffer)) = 1
    BY <2>1, AppendProperties, EmptySeq
  <2> QED
    BY <1>1, <2>2
<1>3. d' = IF ok THEN [d EXCEPT !.client = "up", !.made = d.made + 1, !.sends = d.sends + 1,
                                !.timers = d.timers, !.writes = w]
           ELSE [d EXCEPT !.client = "ended"]
  BY <1>1, <1>2 DEF DE!on_connect, DE!send_data, EchoStates
<1>4. d' \in EchoStates /\ d'.prog = "echo"
  <2>1. d.made + 1 \in Nat /\ d.sends + 1 \in Nat /\ d.timers \in Nat
    BY <1>1 DEF EchoStates
  <2>2. CASE ok
    BY <1>1, <1>2, <1>3, <2>1, <2>2 DEF EchoStates
  <2>3. CASE ~ok
    BY <1>1, <1>3, <2>3 DEF EchoStates
  <2> QED
    BY <2>2, <2>3
<1>5. ClientInv'
  <2>1. CASE ok
    <3>1. /\ d'.client = "up" /\ d'.made = 1 /\ d'.freed = 0 /\ d'.leaked = 0
             /\ d'.timers = 0
          /\ Len(d'.writes) = 1
      BY <1>1, <1>2, <1>3, <2>1 DEF EchoStates
    <3> QED
      BY <1>4, <3>1 DEF ClientInv, DE!OneSendAtATime, DE!RequestsAreFreed
  <2>2. CASE ~ok
    <3>1. /\ d'.client = "ended" /\ d'.made = 0 /\ d'.freed = 0 /\ d'.leaked = 0
             /\ d'.timers = 0
          /\ d'.writes = <<>>
      BY <1>1, <1>3, <2>2 DEF EchoStates
    <3> QED
      BY <1>4, <3>1 DEF ClientInv, DE!OneSendAtATime, DE!RequestsAreFreed
  <2> QED
    BY <2>1, <2>2
<1>6. UNCHANGED <<d.server, d.echoes, d.sent, d.out, d.back, d.received>>
  BY <1>1, <1>3 DEF EchoStates
<1>7. ServerInv'
  BY <1>1, <1>6 DEF DemosInv, ServerInv, DE!IsEcho
<1> QED
  BY <1>4, <1>5, <1>7, EchoOnly

\* One of three.
LEMMA OneOf ==
  ASSUME NEW w \in Nat, NEW t \in Nat, NEW l \in Nat, w + t + l = 1
  PROVE  /\ w > 0 => w = 1 /\ t = 0 /\ l = 0
         /\ t > 0 => w = 0 /\ t = 1 /\ l = 0
         /\ l > 0 => w = 0 /\ t = 0 /\ l = 1
OBVIOUS

(***************************************************************************)
(* Once it is connected the client has its one write or its one timer.     *)
(***************************************************************************)
LEMMA Connected ==
  ASSUME DemosInv, DE!IsEcho, d.writes # <<>> \/ d.timers > 0 \/ d.client \in {"up", "closing", "closed"}
  PROVE  /\ d \in EchoStates /\ d.prog = "echo"
            /\ d.client \in {"up", "closing", "closed"}
         /\ d.writes \in Seq(Nat) /\ Len(d.writes) \in Nat /\ d.timers \in Nat
            /\ d.leaked \in Nat
         /\ d.made \in Nat /\ d.freed \in Nat /\ d.sends \in Nat
         /\ Len(d.writes) + d.timers + d.leaked = 1
         /\ d.made = d.freed + Len(d.writes) + d.leaked
         /\ d.leaked > 0 => d.client \in {"closing", "closed"}
         /\ d.writes # <<>> => Len(d.writes) = 1 /\ d.timers = 0 /\ d.leaked = 0
         /\ d.timers > 0 => Len(d.writes) = 0 /\ d.timers = 1 /\ d.leaked = 0
<1>1. d \in EchoStates /\ d.prog = "echo"
  BY DEF DemosInv, ClientInv, DE!IsEcho
<1>2. d.client \in {"up", "closing", "closed"}
  BY <1>1 DEF DemosInv, ClientInv, EchoStates
<1>3. /\ d.writes \in Seq(Nat) /\ d.timers \in Nat /\ d.leaked \in Nat
      /\ d.made \in Nat /\ d.freed \in Nat /\ d.sends \in Nat
  BY <1>1 DEF EchoStates
<1>4. /\ Len(d.writes) + d.timers + d.leaked = 1
      /\ d.made = d.freed + Len(d.writes) + d.leaked
      /\ d.leaked > 0 => d.client \in {"closing", "closed"}
  BY <1>2 DEF DemosInv, ClientInv, DE!OneSendAtATime, DE!RequestsAreFreed
<1>5. Len(d.writes) \in Nat
  BY <1>3, LenProperties
<1>6. d.writes # <<>> => Len(d.writes) > 0
  BY <1>3, EmptySeq
<1>7. /\ d.writes # <<>> => Len(d.writes) = 1 /\ d.timers = 0 /\ d.leaked = 0
      /\ d.timers > 0 => Len(d.writes) = 0 /\ d.timers = 1 /\ d.leaked = 0
  BY <1>3, <1>4, <1>5, <1>6, OneOf
<1> QED
  BY <1>1, <1>2, <1>3, <1>4, <1>5, <1>7

\* What the client's counters may come to.
LEMMA CountersKeep ==
  ASSUME DE!IsEcho, d' \in EchoStates, d'.client \in {"up", "closing", "closed"},
         Len(d'.writes) + d'.timers + d'.leaked = 1,
         d'.made = d'.freed + Len(d'.writes) + d'.leaked,
         d'.leaked > 0 => d'.client \in {"closing", "closed"}
  PROVE  ClientInv'
<1>1. d'.writes \in Seq(Nat) /\ d'.timers \in Nat /\ d'.leaked \in Nat
  BY DEF EchoStates
<1>2. Len(d'.writes) \in Nat
  BY <1>1, LenProperties
<1> QED
  BY <1>1, <1>2 DEF ClientInv, DE!OneSendAtATime, DE!RequestsAreFreed

\* The callback of a write frees its request and starts the timer.
LEMMA CalledBack ==
  ASSUME DemosInv, DE!IsEcho, d.writes # <<>>, NEW c \in {"up", "closed"},
         d' = [d EXCEPT !.freed = d.freed + 1, !.timers = d.timers + 1,
                        !.writes = Tail(d.writes), !.client = c]
  PROVE  ClientInv' /\ d'.prog = "echo"
<1>1. /\ d \in EchoStates /\ d.prog = "echo" /\ d.writes \in Seq(Nat)
         /\ Len(d.writes) = 1
      /\ d.timers = 0 /\ d.leaked = 0 /\ d.freed \in Nat /\ d.made = d.freed + 1
  BY Connected
<1>2. PICK w : w \in Seq(Nat) /\ w = Tail(d.writes) /\ Len(w) = 0
  <2>1. Tail(d.writes) \in Seq(Nat) /\ Len(Tail(d.writes)) = 0
    BY <1>1, FirstOf
  <2> QED
    BY <2>1
<1>3. d' = [d EXCEPT !.freed = d.freed + 1, !.timers = 1, !.writes = w, !.client = c]
  BY <1>1, <1>2
<1>4. d' \in EchoStates
  <2>1. d.freed + 1 \in Nat /\ 1 \in Nat
    BY <1>1
  <2> QED
    BY <1>1, <1>2, <1>3, <2>1 DEF EchoStates
<1>5. /\ d'.writes = w /\ d'.timers = 1 /\ d'.leaked = 0 /\ d'.client = c
      /\ d'.made = d.made /\ d'.freed = d.freed + 1 /\ d'.prog = "echo"
  BY <1>1, <1>3 DEF EchoStates
<1> QED
  BY <1>1, <1>2, <1>4, <1>5, CountersKeep

\* The timer's send_data: a write, or a request lost by a closing handle.
LEMMA TimerKeeps ==
  ASSUME DemoBounds, DemosInv, DE!TimerFires
  PROVE  DemosInv'
<1>1. DE!IsEcho /\ d.timers > 0 /\ d' = DE!send_data(d, TRUE)
  BY DEF DE!TimerFires
<1>2. /\ d \in EchoStates /\ d.prog = "echo" /\ d.client \in {"up", "closing", "closed"}
      /\ d.writes \in Seq(Nat) /\ Len(d.writes) = 0 /\ d.timers = 1 /\ d.leaked = 0
      /\ d.made \in Nat /\ d.freed \in Nat /\ d.made = d.freed /\ d.sends \in Nat
      /\ d.made + 1 \in Nat /\ d.sends + 1 \in Nat
  BY <1>1, Connected
<1>3. PICK w : w \in Seq(Nat) /\ w = Append(d.writes, Buffer) /\ Len(w) = 1
  <2>1. Buffer \in Nat
    BY DEF DemoBounds
  <2>2. Append(d.writes, Buffer) \in Seq(Nat)
        /\ Len(Append(d.writes, Buffer)) = Len(d.writes) + 1
    BY <1>2, <2>1, AppendProperties
  <2>3. Len(Append(d.writes, Buffer)) = 1
    BY <1>2, <2>2
  <2> QED
    BY <2>2, <2>3
<1>4. CASE d.client = "up"
  <2>1. d' = [d EXCEPT !.made = d.made + 1, !.sends = d.sends + 1, !.timers = 0, !.writes = w]
    BY <1>1, <1>2, <1>3, <1>4 DEF DE!send_data, EchoStates
  <2>2. d' \in EchoStates
    BY <1>2, <1>3, <2>1 DEF EchoStates
  <2>3. /\ d'.client = "up" /\ d'.made = d.made + 1 /\ d'.freed = d.freed
           /\ d'.timers = 0
        /\ d'.writes = w /\ d'.leaked = 0 /\ d'.prog = "echo"
        /\ UNCHANGED <<d.server, d.echoes, d.sent, d.out, d.back, d.received>>
    BY <1>2, <1>4, <2>1 DEF EchoStates
  <2>4. /\ Len(d'.writes) + d'.timers + d'.leaked = 1
        /\ d'.made = d'.freed + Len(d'.writes) + d'.leaked
        /\ ~(d'.leaked > 0)
    BY <1>2, <1>3, <2>3
  <2>6. ClientInv'
    BY <1>1, <2>2, <2>3, <2>4, CountersKeep
  <2>5. ServerInv'
    BY <1>1, <2>3 DEF DemosInv, ServerInv
  <2> QED
    BY <2>3, <2>5, <2>6, EchoOnly
<1>5. CASE d.client # "up"
  <2>1. d' = [d EXCEPT !.made = d.made + 1, !.sends = d.sends + 1, !.timers = 0, !.leaked = 1]
    <3>1. DE!send_data(d, TRUE) = [d EXCEPT !.made = d.made + 1, !.sends = d.sends + 1,
                                         !.timers = d.timers - 1, !.leaked = d.leaked + 1]
      BY <1>2, <1>5 DEF DE!send_data, EchoStates
    <3>2. d.timers - 1 = 0 /\ d.leaked + 1 = 1
      BY <1>2
    <3> QED
      BY <1>1, <3>1, <3>2
  <2>2. d' \in EchoStates
    BY <1>2, <2>1 DEF EchoStates
  <2>3. /\ d'.client = d.client /\ d'.made = d.made + 1 /\ d'.freed = d.freed
           /\ d'.timers = 0
        /\ d'.writes = d.writes /\ d'.leaked = 1 /\ d'.prog = "echo"
        /\ UNCHANGED <<d.server, d.echoes, d.sent, d.out, d.back, d.received>>
    BY <1>2, <2>1 DEF EchoStates
  <2>4. /\ Len(d'.writes) + d'.timers + d'.leaked = 1
        /\ d'.made = d'.freed + Len(d'.writes) + d'.leaked
        /\ d'.client \in {"closing", "closed"}
    BY <1>2, <1>5, <2>3
  <2>6. ClientInv'
    BY <1>1, <2>2, <2>4, CountersKeep
  <2>5. ServerInv'
    BY <1>1, <2>3 DEF DemosInv, ServerInv
  <2> QED
    BY <2>3, <2>5, <2>6, EchoOnly
<1> QED
  BY <1>4, <1>5

\* The callbacks of a failed write, and of the one that uv_close cancels.
LEMMA WriteFailsKeeps ==
  ASSUME DemosInv, DE!ClientWriteFails
  PROVE  DemosInv'
<1>1. DE!IsEcho /\ d.client = "up" /\ d.server # "up" /\ d.writes # <<>>
      /\ d' = DE!on_write(d, -1)
  BY DEF DE!ClientWriteFails
<1>2. d \in EchoStates
  BY <1>1, Connected
<1>3. d' = [d EXCEPT !.freed = d.freed + 1, !.timers = d.timers + 1,
                     !.writes = Tail(d.writes), !.client = "up"]
  BY <1>1, <1>2 DEF DE!on_write, EchoStates
<1>4. ClientInv' /\ d'.prog = "echo"
  BY <1>1, <1>3, CalledBack
<1>5. d'.server = d.server
  BY <1>2, <1>3 DEF EchoStates
<1>6. ServerInv'
  BY <1>1, <1>5 DEF ServerInv
<1> QED
  BY <1>4, <1>6, EchoOnly

\* uv__finish_close calls back the write that is left.
LEMMA ClosesKeep ==
  ASSUME DemosInv, DE!ClientCloses
  PROVE  DemosInv'
<1>1. /\ DE!IsEcho /\ d.client = "closing"
      /\ d' = [IF d.writes # <<>> THEN DE!on_write(d, -1) ELSE d EXCEPT !.client = "closed"]
  BY DEF DE!ClientCloses
<1>2. /\ d \in EchoStates /\ d.prog = "echo"
      /\ Len(d.writes) + d.timers + d.leaked = 1
      /\ d.made = d.freed + Len(d.writes) + d.leaked
  BY <1>1, Connected
<1>3. CASE d.writes # <<>>
  <2>1. d' = [d EXCEPT !.freed = d.freed + 1, !.timers = d.timers + 1,
                       !.writes = Tail(d.writes), !.client = "closed"]
    BY <1>1, <1>2, <1>3 DEF DE!on_write, EchoStates
  <2>2. ClientInv' /\ d'.prog = "echo"
    BY <1>1, <1>3, <2>1, CalledBack
  <2>3. UNCHANGED <<d.server, d.echoes, d.sent, d.out, d.back, d.received>>
    BY <1>2, <2>1 DEF EchoStates
  <2>4. ServerInv'
    BY <1>1, <2>3 DEF DemosInv, ServerInv
  <2> QED
    BY <2>2, <2>4, EchoOnly
<1>4. CASE d.writes = <<>>
  <2>1. d' = [d EXCEPT !.client = "closed"]
    BY <1>1, <1>4
  <2>2. /\ d' \in EchoStates /\ d'.client = "closed" /\ d'.prog = "echo"
        /\ UNCHANGED <<d.writes, d.timers, d.leaked, d.made, d.freed>>
        /\ UNCHANGED <<d.server, d.echoes, d.sent, d.out, d.back, d.received>>
    BY <1>2, <2>1 DEF EchoStates
  <2>3. ClientInv'
    BY <1>1, <1>2, <2>2, CountersKeep
  <2>4. ServerInv'
    BY <1>1, <2>2 DEF DemosInv, ServerInv
  <2> QED
    BY <2>2, <2>3, <2>4, EchoOnly
<1> QED
  BY <1>3, <1>4

\* A step that leaves the client's chain alone.
LEMMA ChainStays ==
  ASSUME DemosInv, DE!IsEcho, d' \in EchoStates, d'.client = d.client,
         UNCHANGED <<d.writes, d.timers, d.leaked, d.made, d.freed>>
  PROVE  ClientInv' /\ d'.prog = "echo"
<1>1. d'.prog = "echo"
  BY DEF EchoStates
<1> QED
  BY <1>1 DEF DemosInv, ClientInv, DE!OneSendAtATime, DE!RequestsAreFreed,
     DE!IsEcho

\* on_read closes the client after an error or the end of file.
LEMMA ReadsEndKeeps ==
  ASSUME DemosInv, DE!ClientReadsEnd
  PROVE  DemosInv'
<1>1. /\ DE!IsEcho /\ d.client = "up" /\ d.server # "up"
         /\ d' = [d EXCEPT !.client = "closing"]
  BY DEF DE!ClientReadsEnd
<1>2. /\ d \in EchoStates
      /\ Len(d.writes) + d.timers + d.leaked = 1
      /\ d.made = d.freed + Len(d.writes) + d.leaked
  BY <1>1, Connected
<1>3. /\ d' \in EchoStates /\ d'.client = "closing" /\ d'.prog = "echo"
         /\ d'.server = d.server
      /\ UNCHANGED <<d.writes, d.timers, d.leaked, d.made, d.freed>>
  BY <1>1, <1>2 DEF EchoStates
<1>4. ClientInv'
  BY <1>1, <1>2, <1>3, CountersKeep
<1>5. ServerInv'
  BY <1>1, <1>3 DEF ServerInv
<1> QED
  BY <1>3, <1>4, <1>5, EchoOnly

\* The server ends; what it promised ends with it.
LEMMA GoneKeeps ==
  ASSUME DemosInv, DE!ServerGone
  PROVE  DemosInv'
<1>1. DE!IsEcho /\ d' = [d EXCEPT !.server = "gone", !.echoes = <<>>, !.out = 0]
  BY DEF DE!ServerGone
<1>2. d \in EchoStates
  BY <1>1 DEF DemosInv, ClientInv
<1>3. <<>> \in Seq(Nat)
  OBVIOUS
<1>4. /\ d' \in EchoStates /\ d'.client = d.client /\ d'.server = "gone"
      /\ UNCHANGED <<d.writes, d.timers, d.leaked, d.made, d.freed>>
  BY <1>1, <1>2, <1>3 DEF EchoStates
<1>5. ServerInv'
  BY <1>4 DEF ServerInv
<1> QED
  BY <1>1, <1>4, <1>5, ChainStays, EchoOnly

(***************************************************************************)
(* Bytes are moved: what one place loses the next one gets.                *)
(***************************************************************************)
LEMMA ReadsKeep ==
  ASSUME DemosInv, NEW n \in 1 .. Buffer, DE!ClientReads(n), Buffer \in Nat
  PROVE  DemosInv'
<1>1. /\ DE!IsEcho /\ n <= d.back /\ n \in Nat
      /\ d' = [d EXCEPT !.back = d.back - n, !.received = d.received + n]
  BY DEF DE!ClientReads, DemosInv, ClientInv, EchoStates
<1>2. d \in EchoStates /\ d.back \in Nat /\ d.received \in Nat /\ d.out \in Nat
      /\ d.sent \in Nat
  BY <1>1 DEF DemosInv, ClientInv, EchoStates
<1>3. d.back - n \in Nat /\ d.received + n \in Nat
  BY <1>1, <1>2
<1>4. /\ d' \in EchoStates /\ d'.client = d.client
      /\ UNCHANGED <<d.writes, d.timers, d.leaked, d.made, d.freed>>
      /\ UNCHANGED <<d.server, d.echoes, d.sent, d.out>>
      /\ d'.back = d.back - n /\ d'.received = d.received + n
  BY <1>1, <1>2, <1>3 DEF EchoStates
<1>5. ServerInv'
  <2> SUFFICES ASSUME d.server = "up"
               PROVE  \E v \in Int : /\ SumsTo(d.echoes, v)
                                    /\ d.sent = d.out + v + d'.back + d'.received
    BY <1>4 DEF ServerInv
  <2>1. PICK v \in Int : SumsTo(d.echoes, v) /\ d.sent = d.out + v + d.back + d.received
    BY <1>1 DEF DemosInv, ServerInv
  <2>2. d.sent = d.out + v + d'.back + d'.received
    BY <1>1, <1>2, <1>4, <2>1
  <2> QED
    BY <2>1, <2>2
<1> QED
  BY <1>1, <1>4, <1>5, ChainStays, EchoOnly

\* echo_read of the server queues as many bytes as it has read.
LEMMA ServerReadsKeep ==
  ASSUME DemosInv, NEW n \in 1 .. Buffer, DE!ServerReads(n), Buffer \in Nat
  PROVE  DemosInv'
<1>1. DE!IsEcho /\ n <= d.out /\ n \in Nat /\ d.server = "up"
  BY DEF DE!ServerReads
<1>2. /\ d \in EchoStates /\ d.back \in Nat /\ d.received \in Nat /\ d.out \in Nat
         /\ d.sent \in Nat
      /\ d.echoes \in Seq(Nat)
  BY <1>1 DEF DemosInv, ClientInv, EchoStates
<1>3. PICK q : q \in Seq(Nat) /\ q = Append(d.echoes, n)
  BY <1>1, <1>2, AppendProperties
<1>4. d.out - n \in Nat /\ d' = [d EXCEPT !.out = d.out - n, !.echoes = q]
  BY <1>1, <1>2, <1>3 DEF DE!ServerReads, DE!echo_read, EchoStates
<1>5. /\ d' \in EchoStates /\ d'.client = d.client
      /\ UNCHANGED <<d.writes, d.timers, d.leaked, d.made, d.freed>>
      /\ UNCHANGED <<d.server, d.sent, d.back, d.received>>
      /\ d'.out = d.out - n /\ d'.echoes = q
  BY <1>2, <1>3, <1>4 DEF EchoStates
<1>6. ServerInv'
  <2>1. PICK v \in Int : SumsTo(d.echoes, v) /\ d.sent = d.out + v + d.back + d.received
    BY <1>1 DEF DemosInv, ServerInv
  <2>2. SumsTo(q, v + n)
    BY <1>1, <1>2, <1>3, <2>1, SumAppended
  <2>3. v + n \in Int /\ d.sent = d'.out + (v + n) + d.back + d.received
    BY <1>1, <1>2, <1>5, <2>1
  <2> QED
    BY <1>5, <2>2, <2>3 DEF ServerInv
<1> QED
  BY <1>1, <1>5, <1>6, ChainStays, EchoOnly

\* A write of the server, also in pieces, moves bytes to the client.
LEMMA ServerWritesKeep ==
  ASSUME DemosInv, NEW n \in 1 .. Buffer, DE!ServerWrites(n), Buffer \in Nat
  PROVE  DemosInv'
<1>0. PICK r : IsLessened(r, d.echoes, n)
  BY DEF IsLessened
<1>1. DE!IsEcho /\ n \in Nat /\ d.server = "up" /\ d.echoes # <<>>
      /\ n <= Head(d.echoes)
  BY DEF DE!ServerWrites
<1>2. /\ d \in EchoStates /\ d.back \in Nat /\ d.received \in Nat /\ d.out \in Nat
         /\ d.sent \in Nat
      /\ d.echoes \in Seq(Nat) /\ d.back + n \in Nat
  <2>1. d \in EchoStates
    BY <1>1 DEF DemosInv, ClientInv
  <2>2. /\ d.back \in Nat /\ d.received \in Nat /\ d.out \in Nat /\ d.sent \in Nat
        /\ d.echoes \in Seq(Nat)
    BY <2>1 DEF EchoStates
  <2> QED
    BY <1>1, <2>1, <2>2
<1>3. PICK v \in Int : SumsTo(d.echoes, v) /\ d.sent = d.out + v + d.back + d.received
  BY <1>1 DEF DemosInv, ServerInv
<1> DEFINE q == IF r[1] = 0 THEN Tail(r) ELSE r
<1>4. r \in Seq(Nat) /\ Tail(r) \in Seq(Nat) /\ SumsTo(q, v - n)
  BY <1>0, <1>1, <1>2, <1>3, SumTaken
<1>5. d' = [d EXCEPT !.back = d.back + n, !.echoes = q]
  BY <1>0, <1>2 DEF DE!ServerWrites, EchoStates, IsLessened
<1>6. q \in Seq(Nat)
  BY <1>4
<1> HIDE DEF q
<1>7. /\ d' \in EchoStates /\ d'.client = d.client
      /\ UNCHANGED <<d.writes, d.timers, d.leaked, d.made, d.freed>>
      /\ UNCHANGED <<d.server, d.sent, d.out, d.received>>
      /\ d'.back = d.back + n /\ d'.echoes = q
  BY <1>2, <1>5, <1>6 DEF EchoStates
<1>8. ServerInv'
  <2>1. v - n \in Int /\ d.sent = d.out + (v - n) + d'.back + d.received
    BY <1>1, <1>2, <1>3, <1>7
  <2> QED
    BY <1>4, <1>7, <2>1 DEF ServerInv
<1> QED
  BY <1>1, <1>7, <1>8, ChainStays, EchoOnly

\* A write of the client, also in pieces; the last piece calls on_write.
LEMMA WritesKeep ==
  ASSUME DemosInv, NEW n \in 1 .. Buffer, DE!ClientWrites(n), Buffer \in Nat
  PROVE  DemosInv'
<1>1. DE!IsEcho /\ n \in Nat /\ d.client = "up" /\ d.writes # <<>>
      /\ n <= Head(d.writes)
  BY DEF DE!ClientWrites
<1>2. /\ d \in EchoStates /\ d.out \in Nat /\ d.sent \in Nat /\ d.out + n \in Nat
         /\ d.sent + n \in Nat
      /\ d.prog = "echo" /\ d.back \in Nat /\ d.received \in Nat
  <2>1. d \in EchoStates
    BY <1>1 DEF DemosInv, ClientInv
  <2>2. /\ d.back \in Nat /\ d.received \in Nat /\ d.out \in Nat /\ d.sent \in Nat
        /\ d.prog = "echo"
    BY <2>1 DEF EchoStates
  <2> QED
    BY <1>1, <2>1, <2>2
<1>3. /\ d.writes \in Seq(Nat) /\ Len(d.writes) = 1 /\ d.timers = 0 /\ d.leaked = 0
      /\ d.made \in Nat /\ d.freed \in Nat /\ d.made = d.freed + 1
  BY <1>1, Connected
<1>4. PICK r : /\ r \in Seq(Nat) /\ r = [d.writes EXCEPT ![1] = d.writes[1] - n]
               /\ Len(r) = 1 /\ r # <<>>
  <2>1. d.writes[1] \in Nat /\ d.writes[1] - n \in Nat /\ 1 \in 1 .. Len(d.writes)
    BY <1>1, <1>3, FirstOf
  <2>2. /\ [d.writes EXCEPT ![1] = d.writes[1] - n] \in Seq(Nat)
        /\ Len([d.writes EXCEPT ![1] = d.writes[1] - n]) = 1
    BY <1>3, <2>1, ExceptSeq
  <2>3. [d.writes EXCEPT ![1] = d.writes[1] - n] # <<>>
    BY <2>2, EmptySeq
  <2> QED
    BY <2>2, <2>3
<1>5. d' = IF r[1] = 0
           THEN [d EXCEPT !.out = d.out + n, !.sent = d.sent + n, !.writes = Tail(r),
                          !.freed = d.freed + 1, !.timers = d.timers + 1]
           ELSE [d EXCEPT !.out = d.out + n, !.sent = d.sent + n, !.writes = r]
  BY <1>2, <1>4 DEF DE!ClientWrites, DE!on_write, EchoStates
<1>6. /\ d' \in EchoStates /\ ClientInv' /\ d'.prog = "echo"
      /\ UNCHANGED <<d.server, d.echoes, d.back, d.received>>
      /\ d'.out = d.out + n /\ d'.sent = d.sent + n
  <2>1. CASE r[1] = 0
    <3>1. PICK w : w \in Seq(Nat) /\ w = Tail(r) /\ Len(w) = 0
      <4>1. Tail(r) \in Seq(Nat) /\ Len(Tail(r)) = 0
        BY <1>4, FirstOf
      <4> QED
        BY <4>1
    <3>2. d.freed + 1 \in Nat /\ d.timers + 1 = 1
      BY <1>3
    <3>3. d' = [d EXCEPT !.out = d.out + n, !.sent = d.sent + n, !.writes = w,
                         !.freed = d.freed + 1, !.timers = 1]
      BY <1>5, <2>1, <3>1, <3>2
    <3>4. d' \in EchoStates
      <4>1. /\ d \in EchoStates /\ w \in Seq(Nat) /\ 1 \in Nat
            /\ d.out + n \in Nat /\ d.sent + n \in Nat /\ d.freed + 1 \in Nat
        BY <1>2, <3>1, <3>2
      <4> QED
        BY <3>3, <4>1 DEF EchoStates
    <3>5. /\ d'.client = "up" /\ d'.made = d.made /\ d'.freed = d.freed + 1
             /\ d'.timers = 1
          /\ d'.writes = w /\ d'.leaked = 0 /\ d'.prog = "echo"
          /\ UNCHANGED <<d.server, d.echoes, d.back, d.received>>
          /\ d'.out = d.out + n /\ d'.sent = d.sent + n
      BY <1>1, <1>2, <1>3, <3>3 DEF EchoStates
    <3>6. /\ Len(d'.writes) + d'.timers + d'.leaked = 1
          /\ d'.made = d'.freed + Len(d'.writes) + d'.leaked
          /\ ~(d'.leaked > 0)
      <4>1. Len(d'.writes) = 0
        BY <3>1, <3>5
      <4> QED
        BY <1>3, <3>5, <4>1
    <3> QED
      BY <1>1, <3>4, <3>5, <3>6, CountersKeep
  <2>2. CASE r[1] # 0
    <3>1. d' = [d EXCEPT !.out = d.out + n, !.sent = d.sent + n, !.writes = r]
      BY <1>5, <2>2
    <3>2. d' \in EchoStates
      BY <1>2, <1>4, <3>1 DEF EchoStates
    <3>3. /\ d'.client = "up" /\ d'.made = d.made /\ d'.freed = d.freed /\ d'.timers = 0
          /\ d'.writes = r /\ d'.leaked = 0 /\ d'.prog = "echo"
          /\ UNCHANGED <<d.server, d.echoes, d.back, d.received>>
          /\ d'.out = d.out + n /\ d'.sent = d.sent + n
      BY <1>1, <1>2, <1>3, <3>1 DEF EchoStates
    <3>4. /\ Len(d'.writes) + d'.timers + d'.leaked = 1
          /\ d'.made = d'.freed + Len(d'.writes) + d'.leaked
          /\ ~(d'.leaked > 0)
      <4>1. Len(d'.writes) = 1
        BY <1>4, <3>3
      <4> QED
        BY <1>3, <3>3, <4>1
    <3> QED
      BY <1>1, <3>2, <3>3, <3>4, CountersKeep
  <2> QED
    BY <2>1, <2>2
<1>7. ServerInv'
  <2> SUFFICES ASSUME d.server = "up"
               PROVE  \E v \in Int : /\ SumsTo(d.echoes, v)
                                    /\ d'.sent = d'.out + v + d.back + d.received
    BY <1>6 DEF ServerInv
  <2>1. PICK v \in Int : SumsTo(d.echoes, v) /\ d.sent = d.out + v + d.back + d.received
    BY <1>1 DEF DemosInv, ServerInv
  <2>2. d'.sent = d'.out + v + d.back + d.received
    <3>1. d'.sent = d.sent + n /\ d'.out = d.out + n
      BY <1>6
    <3>2. /\ n \in Int /\ d.sent \in Int /\ d.out \in Int /\ d.back \in Int
             /\ d.received \in Int
          /\ d.sent = d.out + v + d.back + d.received
      BY <1>1, <1>2, <2>1
    <3>3. d.sent + n = (d.out + n) + v + d.back + d.received
      BY <3>2
    <3> QED
      BY <3>1, <3>3
  <2> QED
    BY <2>1, <2>2
<1> QED
  BY <1>6, <1>7, EchoOnly

(***************************************************************************)
(* The programs on the shared segment.                                     *)
(***************************************************************************)
LEMMA ShmOnly ==
  ASSUME d'.prog = "shm", SegmentInv'
  PROVE  DemosInv'
BY DEF DemosInv, DE!TypeOK, ClientInv, ServerInv, RunnerInv, DE!IsEcho,
   IsSqlRun

\* Attached, the segment has its size, is there, and holds no other text.
LEMMA AttachedHolds ==
  ASSUME DemoBounds, NEW s, s # <<>> => Holds(s)
  PROVE  Holds(DE!shmget(s)) /\ DE!shmget(s) # <<>>
<1>1. Len(Message) \in Nat /\ 1 \in 1 .. SegmentSize
  BY LenProperties DEF DemoBounds
<1> DEFINE zeros == [k \in 1 .. SegmentSize |-> 0]
<1>2. zeros # <<>>
  <2> SUFFICES ASSUME zeros = <<>> PROVE FALSE
    OBVIOUS
  <2>1. DOMAIN zeros = 1 .. SegmentSize
    OBVIOUS
  <2> HIDE DEF zeros
  <2>2. zeros \in Seq(Nat) /\ Len(zeros) = 0
    BY EmptySeq
  <2>3. DOMAIN zeros = 1 .. 0
    BY <2>2, LenProperties
  <2> QED
    BY <1>1, <2>1, <2>3
<1>3. Holds(zeros)
  BY DEF Holds
<1> QED
  BY <1>2, <1>3 DEF DE!shmget

\* shmget of either program.
LEMMA AttachesKeep ==
  ASSUME DemoBounds, DemosInv, DE!WriterAttaches \/ DE!ReaderAttaches
  PROVE  DemosInv'
<1>1. /\ DE!IsShm /\ d \in ShmStates /\ d.prog = "shm"
         /\ (d.segment # <<>> => Holds(d.segment))
      /\ Len(d.text) <= Len(Message)
         /\ \A k \in 1 .. Len(d.text) : d.text[k] = Message[k]
  BY DEF DemosInv, SegmentInv, DE!WriterAttaches, DE!ReaderAttaches, DE!IsShm
<1>2. PICK s : s = DE!shmget(d.segment) /\ Holds(s) /\ s # <<>>
  BY <1>1, AttachedHolds
<1>3. s \in {<<>>} \cup [1 .. SegmentSize -> Nat]
  BY <1>2 DEF Holds
<1>4. \/ d' = [d EXCEPT !.segment = s, !.writer = "strcpy"]
      \/ d' = [d EXCEPT !.segment = s, !.reader = "printf"]
  BY <1>1, <1>2 DEF DE!WriterAttaches, DE!ReaderAttaches, ShmStates
<1>5. d' \in ShmStates /\ d'.prog = "shm" /\ d'.segment = s /\ d'.text = d.text
  BY <1>1, <1>3, <1>4 DEF ShmStates
<1>6. SegmentInv'
  BY <1>1, <1>2, <1>5 DEF SegmentInv
<1> QED
  BY <1>5, <1>6, ShmOnly

\* strcpy stores one character, in an order of its own.
LEMMA StrcpyKeeps ==
  ASSUME DemoBounds, DemosInv, NEW j \in 1 .. Len(Message) + 1, DE!Strcpy(j)
  PROVE  DemosInv'
<1>1. /\ DE!IsShm /\ d \in ShmStates /\ d.prog = "shm" /\ Holds(d.segment)
         /\ d.segment # <<>>
      /\ Len(d.text) <= Len(Message)
         /\ \A k \in 1 .. Len(d.text) : d.text[k] = Message[k]
  BY DEF DemosInv, SegmentInv, DE!Strcpy, DE!IsShm
<1>2. /\ Len(Message) \in Nat /\ j \in 1 .. SegmentSize
      /\ \A k \in 1 .. Len(Message) : Message[k] \in Nat
  <2>1. Message \in Seq(Nat \ {0}) /\ Len(Message) \in Nat
    BY LenProperties DEF DemoBounds
  <2>2. Message \in [1 .. Len(Message) -> Nat \ {0}]
    BY <2>1, LenProperties
  <2> QED
    BY <2>1, <2>2 DEF DemoBounds
<1> DEFINE c == IF j > Len(Message) THEN 0 ELSE Message[j]
<1>3. c \in Nat /\ (c = 0 \/ (j <= Len(Message) /\ c = Message[j]))
  BY <1>2
<1> HIDE DEF c
<1>4. PICK s : s = [d.segment EXCEPT ![j] = c]
  OBVIOUS
<1>5. Holds(s)
  BY <1>1, <1>2, <1>3, <1>4 DEF Holds
<1>6. s # <<>>
  <2>1. d.segment \in [1 .. SegmentSize -> Nat] /\ s \in [1 .. SegmentSize -> Nat]
    BY <1>1, <1>5 DEF Holds
  <2> SUFFICES ASSUME s = <<>> PROVE FALSE
    OBVIOUS
  <2>2. DOMAIN s = 1 .. 0
    BY LenProperties
  <2>3. DOMAIN s = 1 .. SegmentSize
    BY <2>1
  <2> QED
    BY <1>2, <2>2, <2>3
<1>7. d' = [d EXCEPT !.segment = s, !.written = d.written \cup {j}]
  BY <1>1, <1>4 DEF DE!Strcpy, ShmStates, c
<1>8. s \in {<<>>} \cup [1 .. SegmentSize -> Nat]
  BY <1>5 DEF Holds
<1>9. d' \in ShmStates /\ d'.prog = "shm" /\ d'.segment = s /\ d'.text = d.text
  BY <1>1, <1>7, <1>8 DEF ShmStates
<1>10. SegmentInv'
  BY <1>1, <1>5, <1>6, <1>9 DEF SegmentInv
<1> QED
  BY <1>9, <1>10, ShmOnly

\* The writer detaches from the segment.
LEMMA DetachKeeps ==
  ASSUME DemosInv, DE!WriterDetaches
  PROVE  DemosInv'
<1>1. /\ DE!IsShm /\ d \in ShmStates /\ d.prog = "shm" /\ Holds(d.segment)
         /\ d.segment # <<>>
      /\ Len(d.text) <= Len(Message)
         /\ \A k \in 1 .. Len(d.text) : d.text[k] = Message[k]
  BY DEF DemosInv, SegmentInv, DE!WriterDetaches, DE!IsShm
<1>2. d' = [d EXCEPT !.writer = "done"]
  BY DEF DE!WriterDetaches
<1>3. d' \in ShmStates /\ d'.prog = "shm" /\ d'.segment = d.segment /\ d'.text = d.text
  BY <1>1, <1>2 DEF ShmStates
<1>4. SegmentInv'
  BY <1>1, <1>3 DEF SegmentInv
<1> QED
  BY <1>3, <1>4, ShmOnly

\* printf takes one character, or ends at a 0, inside the segment.
LEMMA PrintfKeeps ==
  ASSUME DemoBounds, DemosInv, DE!Printf
  PROVE  DemosInv'
<1>1. /\ DE!IsShm /\ d \in ShmStates /\ d.prog = "shm" /\ Holds(d.segment)
         /\ d.segment # <<>>
      /\ Len(d.text) <= Len(Message)
         /\ \A k \in 1 .. Len(d.text) : d.text[k] = Message[k]
  BY DEF DemosInv, SegmentInv, DE!Printf, DE!IsShm
<1>2. d.text \in Seq(Nat) /\ Len(d.text) \in Nat /\ Len(Message) \in Nat
      /\ SegmentSize \in Nat
  BY <1>1, LenProperties DEF DemoBounds, ShmStates
<1> DEFINE n == Len(d.text) + 1
           c == d.segment[n]
<1>3. n \in 1 .. SegmentSize
  BY <1>1, <1>2 DEF DemoBounds
<1>4. c \in Nat /\ (c = 0 \/ (n <= Len(Message) /\ c = Message[n]))
  BY <1>1, <1>3 DEF Holds
<1>5. CASE c = 0
  <2>1. d' = [d EXCEPT !.reader = "done"]
    BY <1>5 DEF DE!Printf
  <2>2. d' \in ShmStates /\ d'.prog = "shm" /\ d'.segment = d.segment
        /\ d'.text = d.text
    BY <1>1, <2>1 DEF ShmStates
  <2>3. SegmentInv'
    BY <1>1, <2>2 DEF SegmentInv
  <2> QED
    BY <2>2, <2>3, ShmOnly
<1>6. CASE c # 0
  <2>1. PICK t : /\ t \in Seq(Nat) /\ t = Append(d.text, c) /\ Len(t) = n /\ t[n] = c
                 /\ \A k \in 1 .. Len(d.text) : t[k] = d.text[k]
    <3> HIDE DEF c
    <3>1. /\ Append(d.text, c) \in Seq(Nat) /\ Len(Append(d.text, c)) = n
          /\ Append(d.text, c)[n] = c
          /\ \A k \in 1 .. Len(d.text) : Append(d.text, c)[k] = d.text[k]
      BY <1>2, <1>4, AppendProperties
    <3> QED
      BY <3>1
  <2>2. d' = [d EXCEPT !.text = t]
    BY <1>1, <1>6, <2>1 DEF DE!Printf, ShmStates
  <2>3. d' \in ShmStates /\ d'.prog = "shm" /\ d'.segment = d.segment /\ d'.text = t
    BY <1>1, <2>1, <2>2 DEF ShmStates
  <2>4. Len(t) <= Len(Message) /\ \A k \in 1 .. Len(t) : t[k] = Message[k]
    <3>1. \A k \in 1 .. n : k = n \/ k \in 1 .. Len(d.text)
      BY <1>2
    <3> HIDE DEF n, c
    <3> QED
      BY <1>1, <1>4, <1>6, <2>1, <3>1
  <2>5. SegmentInv'
    BY <1>1, <2>3, <2>4 DEF SegmentInv
  <2> QED
    BY <2>3, <2>5, ShmOnly
<1> QED
  BY <1>5, <1>6

(***************************************************************************)
(* The SQL runner.                                                         *)
(***************************************************************************)
LEMMA SqlOnly ==
  ASSUME d'.prog = "sql", RunnerInv'
  PROVE  DemosInv'
BY DEF DemosInv, DE!TypeOK, ClientInv, ServerInv, SegmentInv, DE!IsEcho,
   DE!IsShm

\* On the way, nothing is executed before all is read.
LEMMA Underway ==
  ASSUME DemosInv, d.prog = "sql", d.pc \notin {"exit", "killed"}
  PROVE  /\ d \in SqlStates /\ ~d.badopen /\ d.says = "nothing" /\ d.status = -1
         /\ d.db <=> d.pc # "open"
         /\ d.fp <=> d.pc \in {"ftell", "malloc", "fread"}
         /\ d.buffer <=> d.pc \in {"fread", "exec"}
         /\ d.pc # "exec" => d.done = <<>> /\ d.loaded = 0
         /\ d.pc = "exec" => Len(d.sql) = d.size
         /\ StatementInv /\ SizeInv
BY DEF DemosInv, RunnerInv, HeldInv, IsSqlRun

\* The way out with an error: what was held is given back.
LEMMA ErrorExit ==
  ASSUME DemosInv, d.prog = "sql", d.pc \notin {"exec", "exit", "killed"},
         d' \in SqlStates, d'.pc = "exit", d'.says = "error", d'.status = 1,
         UNCHANGED <<d.sql, d.done, d.size>>, d'.size >= 0 => d'.loaded <= d'.size + 1,
         ~d'.fp, ~d'.buffer, d'.db <=> d'.badopen
  PROVE  DemosInv'
<1>1. d'.prog = "sql"
  BY DEF SqlStates
<1>2. d.done = <<>> /\ StatementInv /\ SizeInv
  BY Underway
<1>3. HeldInv' /\ StatementInv'
  BY <1>1, <1>2 DEF HeldInv, StatementInv, DE!ExitsCleanly, IsSqlRun
<1>4. SizeInv'
  BY <1>1, <1>2 DEF SizeInv, IsSqlRun
<1> QED
  BY <1>1, <1>3, <1>4, SqlOnly DEF RunnerInv

\* The way on, before anything is read.
LEMMA WayOn ==
  ASSUME DemoBounds, DemosInv, d.prog = "sql", d.pc \notin {"exec", "exit", "killed"},
         d' \in SqlStates, d'.pc \notin {"exec", "exit", "killed"}, d'.size <= MaxSql,
         UNCHANGED <<d.sql, d.done, d.loaded, d.says, d.status, d.badopen>>,
         d'.db <=> d'.pc # "open",
         d'.fp <=> d'.pc \in {"ftell", "malloc", "fread"},
         d'.buffer <=> d'.pc = "fread"
  PROVE  DemosInv'
<1>1. d'.prog = "sql" /\ d'.size \in Nat \cup {-1}
  BY DEF SqlStates
<1>2. /\ d.done = <<>> /\ d.loaded = 0 /\ StatementInv /\ SizeInv
      /\ ~d.badopen /\ d.says = "nothing" /\ d.status = -1
  BY Underway
<1>3. HeldInv' /\ StatementInv'
  BY <1>1, <1>2 DEF HeldInv, StatementInv, DE!ExitsCleanly, IsSqlRun
<1>4. SizeInv'
  <2>1. d'.size >= 0 => 0 <= d'.size + 1
    BY <1>1
  <2> QED
    BY <1>1, <1>2, <2>1 DEF SizeInv, IsSqlRun
<1> QED
  BY <1>1, <1>3, <1>4, SqlOnly DEF RunnerInv

\* Others may write to the file at any time.
LEMMA FileIsWrittenKeeps ==
  ASSUME DemoBounds, DemosInv, DE!FileIsWritten
  PROVE  DemosInv'
<1>1. PICK f \in Files : d' = [d EXCEPT !.file = f]
  BY DEF DE!FileIsWritten
<1>2. /\ d.prog = "sql" /\ d.pc \notin {"exit", "killed"}
      /\ d \in SqlStates /\ HeldInv /\ StatementInv /\ SizeInv
  BY DEF DE!FileIsWritten, DemosInv, RunnerInv, IsSqlRun
<1>3. f \in Seq(Statements)
  BY DEF DemoBounds
<1>4. /\ d' \in SqlStates /\ d'.prog = "sql"
      /\ UNCHANGED <<d.pc, d.size, d.sql, d.done, d.db, d.fp, d.buffer, d.loaded, d.badopen,
                     d.says, d.status>>
  BY <1>1, <1>2, <1>3 DEF SqlStates
<1>5. HeldInv'
  BY <1>2, <1>4 DEF HeldInv, DE!ExitsCleanly, IsSqlRun
<1>6. StatementInv'
  BY <1>2, <1>4 DEF StatementInv, IsSqlRun
<1>7. SizeInv'
  BY <1>2, <1>4 DEF SizeInv, IsSqlRun
<1> QED
  BY <1>4, <1>5, <1>6, <1>7, SqlOnly DEF RunnerInv

\* sqlite3_open, fopen and malloc, each of which may fail.
LEMMA OpenKeeps ==
  ASSUME DemoBounds, DemosInv, NEW ok \in BOOLEAN, DE!sqlite3_open(ok) \/ DE!Fopen(ok) \/ DE!Malloc(ok)
  PROVE  DemosInv'
<1>1. /\ d.prog = "sql" /\ d.pc \in {"open", "fopen", "malloc"} /\ d \in SqlStates
      /\ ~d.badopen /\ d.loaded = 0 /\ d.size \in Nat \cup {-1} /\ d.size <= MaxSql
      /\ d.db <=> d.pc # "open"
      /\ d.fp <=> d.pc = "malloc"
      /\ ~d.buffer
  <2>1. d.prog = "sql" /\ d.pc \in {"open", "fopen", "malloc"}
    BY DEF DE!sqlite3_open, DE!Fopen, DE!Malloc, DE!IsSql
  <2>2. d \in SqlStates /\ SizeInv /\ d.loaded = 0
    BY <2>1, Underway
  <2> QED
    BY <2>1, <2>2, Underway DEF SizeInv, IsSqlRun, SqlStates
<1>0. d.size >= 0 => d.loaded <= d.size + 1
  BY <1>1
<1>2. CASE DE!sqlite3_open(ok)
  <2>1. d.pc = "open"
    BY <1>2 DEF DE!sqlite3_open, DE!IsSql
  <2>2. CASE ok
    <3>1. d' = [d EXCEPT !.db = TRUE, !.pc = "fopen"]
      BY <1>2, <2>2 DEF DE!sqlite3_open
    <3>2. /\ d' \in SqlStates /\ d'.pc = "fopen" /\ d'.db
          /\ UNCHANGED <<d.fp, d.buffer, d.sql, d.done, d.says, d.badopen, d.size, d.loaded,
                         d.status>>
      BY <1>1, <3>1, ZenonT(40) DEF SqlStates
    <3>3. /\ d'.pc \notin {"exec", "exit", "killed"} /\ d'.size <= MaxSql
          /\ d'.db <=> d'.pc # "open"
          /\ d'.fp <=> d'.pc \in {"ftell", "malloc", "fread"}
          /\ d'.buffer <=> d'.pc = "fread"
      BY <1>1, <2>1, <3>2
    <3> QED
      BY <1>1, <2>1, <3>2, <3>3, WayOn
  <2>3. CASE ~ok
    <3>1. d' = [d EXCEPT !.db = TRUE, !.badopen = TRUE, !.pc = "exit", !.says = "error",
                         !.status = 1]
      BY <1>1, <1>2, <2>3 DEF DE!sqlite3_open, DE!Exit, SqlStates
    <3>2. /\ d' \in SqlStates /\ d'.pc = "exit" /\ d'.says = "error" /\ d'.status = 1
          /\ d'.db /\ d'.badopen
          /\ UNCHANGED <<d.fp, d.buffer, d.sql, d.done, d.size, d.loaded>>
      BY <1>1, <3>1, ZenonT(40) DEF SqlStates
    <3> QED
      BY <1>1, <2>1, <3>2, <1>0, ErrorExit
  <2> QED
    BY <2>2, <2>3
<1>3. CASE DE!Fopen(ok)
  <2>1. d.pc = "fopen"
    BY <1>3 DEF DE!Fopen, DE!IsSql
  <2>2. CASE ok
    <3>1. d' = [d EXCEPT !.fp = TRUE, !.pc = "ftell"]
      BY <1>3, <2>2 DEF DE!Fopen
    <3>2. /\ d' \in SqlStates /\ d'.pc = "ftell" /\ d'.fp
          /\ UNCHANGED <<d.db, d.buffer, d.sql, d.done, d.says, d.badopen, d.size, d.loaded,
                         d.status>>
      BY <1>1, <3>1, ZenonT(40) DEF SqlStates
    <3>3. /\ d'.pc \notin {"exec", "exit", "killed"} /\ d'.size <= MaxSql
          /\ d'.db <=> d'.pc # "open"
          /\ d'.fp <=> d'.pc \in {"ftell", "malloc", "fread"}
          /\ d'.buffer <=> d'.pc = "fread"
      BY <1>1, <2>1, <3>2
    <3> QED
      BY <1>1, <2>1, <3>2, <3>3, WayOn
  <2>3. CASE ~ok
    <3>1. d' = [d EXCEPT !.db = FALSE, !.pc = "exit", !.says = "error", !.status = 1]
      BY <1>1, <1>3, <2>3 DEF DE!Fopen, DE!Exit, SqlStates
    <3>2. /\ d' \in SqlStates /\ d'.pc = "exit" /\ d'.says = "error"
             /\ d'.status = 1 /\ ~d'.db
          /\ UNCHANGED <<d.fp, d.buffer, d.sql, d.done, d.badopen, d.size, d.loaded>>
      BY <1>1, <3>1, ZenonT(40) DEF SqlStates
    <3> QED
      BY <1>1, <2>1, <3>2, <1>0, ErrorExit
  <2> QED
    BY <2>2, <2>3
<1>4. CASE DE!Malloc(ok)
  <2>1. d.pc = "malloc"
    BY <1>4 DEF DE!Malloc, DE!IsSql
  <2>2. CASE ok
    <3>1. d' = [d EXCEPT !.buffer = TRUE, !.pc = "fread"]
      BY <1>4, <2>2 DEF DE!Malloc
    <3>2. /\ d' \in SqlStates /\ d'.pc = "fread" /\ d'.buffer
          /\ UNCHANGED <<d.db, d.fp, d.sql, d.done, d.says, d.badopen, d.size, d.loaded,
                         d.status>>
      BY <1>1, <3>1, ZenonT(40) DEF SqlStates
    <3> QED
      BY <1>1, <2>1, <3>2, WayOn
  <2>3. CASE ~ok
    <3>1. d' = [d EXCEPT !.fp = FALSE, !.db = FALSE, !.pc = "exit", !.says = "error",
                         !.status = 1]
      BY <1>1, <1>4, <2>3 DEF DE!Malloc, DE!Exit, SqlStates
    <3>2. /\ d' \in SqlStates /\ d'.pc = "exit" /\ d'.says = "error" /\ d'.status = 1
          /\ ~d'.db /\ ~d'.fp
          /\ UNCHANGED <<d.buffer, d.sql, d.done, d.badopen, d.size, d.loaded>>
      BY <1>1, <3>1, ZenonT(40) DEF SqlStates
    <3> QED
      BY <1>1, <2>1, <3>2, <1>0, ErrorExit
  <2> QED
    BY <2>2, <2>3
<1> QED
  BY <1>2, <1>3, <1>4

\* ftell, which may fail, and the test of the size.
LEMMA FtellKeeps ==
  ASSUME DemoBounds, DemosInv, NEW ok \in BOOLEAN, DE!Ftell(ok)
  PROVE  DemosInv'
<1>1. /\ d.prog = "sql" /\ d.pc = "ftell" /\ d \in SqlStates
      /\ ~d.badopen /\ d.loaded = 0 /\ d.db /\ d.fp /\ ~d.buffer
  BY Underway DEF DE!Ftell, DE!IsSql
<1>2. Len(d.file) \in Nat /\ MaxSql \in Nat
  BY <1>1, LenProperties DEF SqlStates, DemoBounds
<1>3. PICK size \in Nat \cup {-1} : size = IF ok THEN Len(d.file) ELSE -1
  BY <1>2
<1>4. CASE size > MaxSql
  <2>1. d' = [d EXCEPT !.fp = FALSE, !.db = FALSE, !.pc = "exit", !.says = "error",
                       !.status = 1]
    BY <1>1, <1>3, <1>4 DEF DE!Ftell, DE!Exit, SqlStates
  <2>2. /\ d' \in SqlStates /\ d'.pc = "exit" /\ d'.says = "error" /\ d'.status = 1
        /\ ~d'.db /\ ~d'.fp /\ d'.loaded = 0
        /\ UNCHANGED <<d.buffer, d.sql, d.done, d.badopen, d.size>>
    BY <1>1, <2>1 DEF SqlStates
  <2>3. d'.size >= 0 => d'.loaded <= d'.size + 1
    <3>1. d'.size \in Nat \cup {-1} /\ d'.loaded = 0
      BY <1>1, <2>2 DEF SqlStates
    <3> QED
      BY <3>1
  <2> QED
    BY <1>1, <2>2, <2>3, ErrorExit
<1>5. CASE ~(size > MaxSql)
  <2>1. d' = [d EXCEPT !.size = size, !.pc = "malloc"]
    BY <1>3, <1>5 DEF DE!Ftell
  <2>2. /\ d' \in SqlStates /\ d'.pc = "malloc" /\ d'.size = size
        /\ UNCHANGED <<d.db, d.fp, d.buffer, d.sql, d.done, d.loaded, d.says, d.status,
                       d.badopen>>
    BY <1>1, <2>1 DEF SqlStates
  <2>3. d'.size <= MaxSql
    BY <1>2, <1>5, <2>2
  <2> QED
    BY <1>1, <2>2, <2>3, WayOn
<1> QED
  BY <1>4, <1>5

\* fread: as much as the size said, or the error path, or too much.
LEMMA FreadKeeps ==
  ASSUME DemoBounds, DemosInv, DE!Fread
  PROVE  DemosInv'
<1>1. /\ d.prog = "sql" /\ d.pc = "fread" /\ d \in SqlStates
      /\ ~d.badopen /\ d.says = "nothing" /\ d.status = -1
      /\ d.db /\ d.fp /\ d.buffer /\ d.done = <<>> /\ StatementInv /\ SizeInv
  BY Underway DEF DE!Fread, DE!IsSql
<1>2. /\ d.file \in Seq(Statements) /\ Len(d.file) \in Nat /\ d.size \in Nat \cup {-1}
      /\ MaxSql \in Nat /\ d.size <= MaxSql /\ Len(d.sql) <= MaxSql
  BY <1>1, LenProperties DEF SqlStates, SizeInv, IsSqlRun, DemoBounds
<1>3. PICK n \in 0 .. Len(d.file) :
        /\ d.size = -1 \/ n <= d.size
        /\ IF DE!Short(d.size, n)
           THEN \/ d' = DE!ShortExit([d EXCEPT !.loaded = n])
                \/ /\ n > DE!Room(d)
                   /\ d' = [[d EXCEPT !.loaded = n] EXCEPT !.pc = "killed"]
           ELSE d' = [[d EXCEPT !.loaded = n] EXCEPT !.sql = SubSeq(d.file, 1, n),
                                                     !.fp = FALSE, !.pc = "exec"]
  BY DEF DE!Fread
<1>4. n \in Nat /\ n <= Len(d.file) /\ (d.size >= 0 => n <= d.size + 1)
  BY <1>2, <1>3
<1>5. CASE d' = DE!ShortExit([d EXCEPT !.loaded = n])
  <2>1. d' = [d EXCEPT !.loaded = n, !.buffer = FALSE, !.fp = FALSE, !.db = FALSE,
                       !.pc = "exit", !.says = "error", !.status = 1]
    BY <1>1, <1>5 DEF DE!ShortExit, DE!Exit, SqlStates
  <2>2. /\ d' \in SqlStates /\ d'.pc = "exit" /\ d'.says = "error" /\ d'.status = 1
        /\ ~d'.db /\ ~d'.fp /\ ~d'.buffer /\ d'.loaded = n
        /\ UNCHANGED <<d.sql, d.done, d.badopen, d.size>>
    BY <1>1, <1>4, <2>1 DEF SqlStates
  <2> QED
    BY <1>1, <1>4, <2>2, ErrorExit
<1>6. CASE n > DE!Room(d) /\ d' = [[d EXCEPT !.loaded = n] EXCEPT !.pc = "killed"]
  <2>1. d.size = -1
    BY <1>2, <1>3, <1>6 DEF DE!Room
  <2>2. d' = [d EXCEPT !.loaded = n, !.pc = "killed"]
    BY <1>1, <1>6 DEF SqlStates
  <2>3. /\ d' \in SqlStates /\ d'.prog = "sql" /\ d'.pc = "killed" /\ d'.loaded = n
        /\ UNCHANGED <<d.db, d.fp, d.buffer, d.sql, d.done, d.says, d.status, d.badopen, d.size>>
    BY <1>1, <1>4, <2>2 DEF SqlStates
  <2>4. HeldInv'
    BY <1>1, <2>3 DEF HeldInv, DE!ExitsCleanly, IsSqlRun
  <2>5. StatementInv'
    BY <1>1, <2>3 DEF StatementInv, IsSqlRun
  <2>6. SizeInv'
    BY <1>1, <1>2, <2>1, <2>3 DEF SizeInv, IsSqlRun
  <2> QED
    BY <2>3, <2>4, <2>5, <2>6, SqlOnly DEF RunnerInv
<1>7. CASE ~DE!Short(d.size, n)
  <2>1. n = d.size
    BY <1>7 DEF DE!Short
  <2>2. PICK q : q \in Seq(Statements) /\ q = SubSeq(d.file, 1, n) /\ Len(q) = n
    <3>1. \A k \in 1 .. n : d.file[k] \in Statements
      BY <1>2, <1>4, ElementOfSeq
    <3>2. /\ SubSeq(d.file, 1, n) \in Seq(Statements)
          /\ Len(SubSeq(d.file, 1, n)) = IF 1 <= n THEN n - 1 + 1 ELSE 0
      BY <1>4, <3>1, SubSeqProperties
    <3>3. Len(SubSeq(d.file, 1, n)) = n
      BY <1>4, <3>2
    <3> QED
      BY <3>2, <3>3
  <2>3. d' = [d EXCEPT !.loaded = n, !.sql = q, !.fp = FALSE, !.pc = "exec"]
    BY <1>1, <1>3, <1>7, <2>2 DEF SqlStates
  <2>4. /\ d' \in SqlStates /\ d'.prog = "sql" /\ d'.pc = "exec" /\ ~d'.fp
        /\ d'.sql = q /\ d'.loaded = n /\ d'.size = n
        /\ UNCHANGED <<d.db, d.buffer, d.done, d.says, d.status, d.badopen>>
    BY <1>1, <1>4, <2>1, <2>2, <2>3 DEF SqlStates
  <2>5. HeldInv'
    BY <1>1, <2>2, <2>4 DEF HeldInv, DE!ExitsCleanly, IsSqlRun
  <2>6. StatementInv'
    <3>1. Len(d'.done) = 0 /\ Len(q) \in Nat /\ d'.says = "nothing"
      BY <1>1, <2>2, <2>4, EmptySeq, LenProperties
    <3> QED
      BY <2>4, <3>1 DEF StatementInv
  <2>7. SizeInv'
    <3>1. n <= MaxSql /\ Len(q) <= MaxSql /\ n <= n + 1 /\ n # -1
      BY <1>2, <1>4, <2>1, <2>2
    <3> QED
      BY <1>1, <2>4, <3>1 DEF SizeInv
  <2> QED
    BY <2>4, <2>5, <2>6, <2>7, SqlOnly DEF RunnerInv
<1> QED
  BY <1>3, <1>5, <1>6, <1>7

\* sqlite3_exec runs the next statement, or ends.
LEMMA ExecKeeps ==
  ASSUME DemosInv, DE!Exec
  PROVE  DemosInv'
<1>1. /\ d.prog = "sql" /\ d.pc = "exec" /\ d \in SqlStates
      /\ ~d.badopen /\ d.says = "nothing" /\ d.status = -1
      /\ d.db /\ ~d.fp /\ d.buffer /\ Len(d.sql) = d.size /\ SizeInv
      /\ Len(d.done) <= Len(d.sql) /\ \A k \in 1 .. Len(d.done) : d.done[k] = d.sql[k]
  <2>1. d.prog = "sql" /\ d.pc = "exec"
    BY DEF DE!Exec, DE!IsSql
  <2>2. StatementInv
    BY <2>1, Underway
  <2> QED
    BY <2>1, <2>2, Underway DEF StatementInv, IsSqlRun
<1>2. /\ d.done \in Seq(Statements) /\ d.sql \in Seq(Statements)
      /\ Len(d.done) \in Nat /\ Len(d.sql) \in Nat /\ d.size # -1
  <2>1. Len(d.sql) \in Nat /\ Len(d.done) \in Nat
    BY <1>1, LenProperties DEF SqlStates
  <2>2. Len(d.sql) = d.size
    BY <1>1
  <2>3. d.size # -1
    BY <2>1, <2>2
  <2> QED
    BY <1>1, <2>1, <2>3 DEF SqlStates
<1>0. 0 # 1
  OBVIOUS
<1>3. Len(d.done) + 1 > Len(d.sql) => Len(d.done) = Len(d.sql)
  <2>1. Len(d.done) <= Len(d.sql)
    BY <1>1
  <2>2. Len(d.done) \in Nat /\ Len(d.sql) \in Nat
    BY <1>2
  <2> QED
    BY <2>1, <2>2
<1> DEFINE n == Len(d.done) + 1
           end == n > Len(d.sql) \/ d.sql[n] = "nul"
<1>4. CASE end \/ d.sql[n] = "bad"
  <2>1. PICK s \in {"success", "SQL error"} :
          /\ d' = [d EXCEPT !.buffer = FALSE, !.db = FALSE, !.pc = "exit", !.says = s,
                            !.status = 0]
          /\ s = IF end THEN "success" ELSE "SQL error"
    BY <1>1, <1>4 DEF DE!Exec, DE!Exit, SqlStates
  <2>2. /\ d' \in SqlStates /\ d'.pc = "exit" /\ ~d'.buffer /\ ~d'.db /\ d'.says = s
        /\ d'.prog = "sql" /\ d'.status = 0
        /\ UNCHANGED <<d.fp, d.badopen, d.sql, d.done, d.size, d.loaded>>
    BY <1>1, <2>1 DEF SqlStates
  <2>3. HeldInv'
    BY <1>1, <2>2 DEF HeldInv, DE!ExitsCleanly, IsSqlRun
  <2>4. /\ s = "success" => Len(d.done) = Len(d.sql) \/ d.sql[n] = "nul"
        /\ s = "SQL error" => d.sql[n] = "bad"
    <3>1. n > Len(d.sql) => Len(d.done) = Len(d.sql)
      BY <1>3
    <3>2. CASE end
      <4> HIDE DEF n
      <4> QED
        BY <2>1, <3>1, <3>2
    <3>3. CASE ~end
      <4>1. d.sql[n] = "bad" /\ s = "SQL error"
        BY <1>4, <2>1, <3>3
      <4> QED
        BY <4>1
    <3> QED
      BY <3>2, <3>3
  <2>5. StatementInv'
    <3>0. d'.done = d.done /\ d'.sql = d.sql /\ d'.size = d.size
      BY <2>2, Zenon
    <3>1. /\ Len(d'.done) <= Len(d'.sql) /\ Len(d'.sql) = d'.size
          /\ \A k \in 1 .. Len(d'.done) : d'.done[k] = d'.sql[k]
      BY <1>1, <3>0, Zenon
    <3>2. /\ d'.says = "success" => Len(d'.done) = Len(d'.sql) \/ d'.sql[Len(d'.done) + 1] = "nul"
          /\ d'.says = "SQL error" => d'.sql[Len(d'.done) + 1] = "bad"
      BY <2>2, <2>4
    <3> QED
      BY <3>1, <3>2 DEF StatementInv
  <2>6. SizeInv'
    <3>1. /\ d'.size <= MaxSql /\ Len(d'.sql) <= MaxSql
          /\ d'.size >= 0 => d'.loaded <= d'.size + 1
      BY <1>1, <2>2 DEF SizeInv, IsSqlRun
    <3>2. d'.status # 1
      <4>1. d'.status = 0
        BY <2>2
      <4> QED
        BY <1>0, <4>1, Zenon
    <3>3. d'.size # -1
      <4>1. d'.size = d.size
        BY <2>2
      <4> QED
        BY <1>2, <4>1
    <3> QED
      BY <3>1, <3>2, <3>3 DEF SizeInv
  <2> QED
    BY <2>2, <2>3, <2>5, <2>6, SqlOnly DEF RunnerInv
<1>5. CASE ~end /\ d.sql[n] # "bad"
  <2>1. n <= Len(d.sql) /\ n \in 1 .. Len(d.sql) /\ d.sql[n] \in Statements
    <3>1. n \in 1 .. Len(d.sql)
      BY <1>2, <1>5
    <3> QED
      BY <1>2, <3>1, ElementOfSeq
  <2>2. PICK q : /\ q \in Seq(Statements) /\ q = Append(d.done, d.sql[n])
                 /\ Len(q) = n /\ q[n] = d.sql[n]
                 /\ \A k \in 1 .. Len(d.done) : q[k] = d.done[k]
    <3>1. /\ Append(d.done, d.sql[n]) \in Seq(Statements)
             /\ Len(Append(d.done, d.sql[n])) = n
          /\ Append(d.done, d.sql[n])[n] = d.sql[n]
          /\ \A k \in 1 .. Len(d.done) : Append(d.done, d.sql[n])[k] = d.done[k]
      BY <1>2, <2>1, AppendProperties
    <3> QED
      BY <3>1
  <2>3. d' = [d EXCEPT !.done = q]
    BY <1>1, <1>5, <2>2 DEF DE!Exec, SqlStates
  <2>4. /\ d' \in SqlStates /\ d'.pc = "exec" /\ d'.done = q /\ d'.prog = "sql"
        /\ UNCHANGED <<d.db, d.fp, d.buffer, d.sql, d.says, d.status, d.badopen, d.size, d.loaded>>
    BY <1>1, <2>2, <2>3 DEF SqlStates
  <2>5. HeldInv'
    BY <1>1, <2>4 DEF HeldInv, DE!ExitsCleanly, IsSqlRun
  <2>6. \A k \in 1 .. Len(q) : q[k] = d.sql[k]
    <3>1. \A k \in 1 .. n : k = n \/ k \in 1 .. Len(d.done)
      BY <1>2
    <3> HIDE DEF n
    <3> QED
      BY <1>1, <2>2, <3>1
  <2>7. StatementInv'
    BY <1>1, <2>1, <2>2, <2>4, <2>6 DEF StatementInv
  <2>8. SizeInv'
    BY <1>1, <1>2, <2>4 DEF SizeInv, IsSqlRun
  <2> QED
    BY <2>4, <2>5, <2>7, <2>8, SqlOnly DEF RunnerInv
<1> QED
  BY <1>4, <1>5

\* The programs begin in the invariant.
LEMMA DemosBegin ==
  ASSUME DemoBounds, DE!Init
  PROVE  DemosInv
<1>1. CASE d = DE!Echo
  <2>1. <<>> \in Seq(Nat) /\ Len(<<>>) = 0
    OBVIOUS
  <2>2. d \in EchoStates /\ d.prog = "echo"
    BY <1>1, <2>1 DEF DE!Echo, EchoStates
  <2>3. ClientInv
    BY <1>1, <2>1, <2>2 DEF DE!Echo, ClientInv, DE!OneSendAtATime,
       DE!RequestsAreFreed
  <2>4. SumsTo(<<>>, 0)
    <3> DEFINE g == [k \in 0 .. 0 |-> 0]
    <3>1. AreSums(<<>>, g) /\ g[Len(<<>>)] = 0
      BY <2>1 DEF AreSums
    <3> QED
      BY <3>1 DEF SumsTo
  <2>5. ServerInv
    BY <1>1, <2>4 DEF DE!Echo, ServerInv
  <2> QED
    BY <2>2, <2>3, <2>5 DEF DemosInv, DE!TypeOK, SegmentInv, RunnerInv,
       DE!IsShm, IsSqlRun
<1>2. CASE d = DE!Shm
  <2>1. <<>> \in Seq(Nat) /\ Len(<<>>) = 0 /\ Len(Message) \in Nat
    BY LenProperties DEF DemoBounds
  <2>2. d \in ShmStates /\ d.prog = "shm" /\ d.segment = <<>> /\ d.writer = "shmget"
        /\ d.reader = "shmget" /\ d.text = <<>>
    BY <1>2, <2>1 DEF DE!Shm, ShmStates
  <2>3. SegmentInv
    BY <2>1, <2>2 DEF SegmentInv
  <2> QED
    BY <2>2, <2>3 DEF DemosInv, DE!TypeOK, ClientInv, ServerInv, RunnerInv,
       DE!IsEcho, IsSqlRun
<1>3. CASE \E f \in Files : d = DE!Sql(f)
  <2>1. PICK f : f \in Seq(Statements) /\ d = DE!Sql(f)
    BY <1>3 DEF DemoBounds
  <2>2. <<>> \in Seq(Statements) /\ Len(<<>>) = 0
    OBVIOUS
  <2>3. d \in SqlStates /\ d.prog = "sql"
    BY <2>1, <2>2 DEF DE!Sql, SqlStates
  <2>4. HeldInv
    BY <2>1 DEF DE!Sql, HeldInv, DE!ExitsCleanly
  <2>5. StatementInv
    BY <2>1, <2>2 DEF DE!Sql, StatementInv
  <2>6. SizeInv
    BY <2>1, <2>2 DEF DE!Sql, SizeInv, DemoBounds
  <2> QED
    BY <2>3, <2>4, <2>5, <2>6
    DEF DemosInv, DE!TypeOK, ClientInv, ServerInv, SegmentInv, RunnerInv,
        DE!IsEcho, DE!IsShm
<1> QED
  BY <1>1, <1>2, <1>3 DEF DE!Init

\* Every step of the programs keeps the invariant.
LEMMA DemosStep ==
  ASSUME DemoBounds, DemosInv, [DE!Next]_(DE!vars)
  PROVE  DemosInv'
<1>1. Buffer \in Nat
  BY DEF DemoBounds
<1>2. ASSUME NEW ok \in BOOLEAN,
             DE!on_connect(ok) \/ DE!sqlite3_open(ok) \/ DE!Fopen(ok) \/ DE!Ftell(ok) \/ DE!Malloc(ok)
      PROVE  DemosInv'
  BY <1>2, ConnectKeeps, OpenKeeps, FtellKeeps
<1>3. ASSUME NEW n \in 1 .. Buffer,
             DE!ClientWrites(n) \/ DE!ClientReads(n) \/ DE!ServerReads(n) \/ DE!ServerWrites(n)
      PROVE  DemosInv'
  BY <1>1, <1>3, WritesKeep, ReadsKeep, ServerReadsKeep, ServerWritesKeep
<1>4. ASSUME NEW j \in 1 .. Len(Message) + 1, DE!Strcpy(j)
      PROVE  DemosInv'
  BY <1>4, StrcpyKeeps
<1>5. CASE DE!ClientWriteFails \/ DE!TimerFires \/ DE!ClientReadsEnd \/ DE!ClientCloses \/ DE!ServerGone
  BY <1>5, WriteFailsKeeps, TimerKeeps, ReadsEndKeeps, ClosesKeep, GoneKeeps
<1>6. CASE DE!WriterAttaches \/ DE!ReaderAttaches \/ DE!WriterDetaches \/ DE!Printf
  BY <1>6, AttachesKeep, DetachKeeps, PrintfKeeps
<1>7. CASE DE!FileIsWritten \/ DE!Fread \/ DE!Exec
  BY <1>7, FileIsWrittenKeeps, FreadKeeps, ExecKeeps
<1>8. CASE UNCHANGED DE!vars
  <2>1. d' = d
    BY <1>8 DEF DE!vars
  <2> QED
    BY <2>1 DEF DemosInv, DE!TypeOK, ClientInv, ServerInv, SegmentInv,
       RunnerInv, HeldInv, StatementInv,
       SizeInv, DE!ExitsCleanly, DE!OneSendAtATime, DE!RequestsAreFreed, DE!IsEcho, DE!IsShm, IsSqlRun
<1> QED
  BY <1>2, <1>3, <1>4, <1>5, <1>6, <1>7, <1>8 DEF DE!Next

\* The first numbers of two sequences that agree there.
LEMMA Beginning ==
  ASSUME NEW S, NEW s \in Seq(S), NEW t \in Seq(S), Len(s) <= Len(t),
         \A k \in 1 .. Len(s) : s[k] = t[k]
  PROVE  DE!IsPrefix(s, t) /\ (Len(s) = Len(t) => s = t)
<1>1. Len(s) \in Nat /\ Len(t) \in Nat
  BY LenProperties
<1>2. \A k \in 1 .. Len(s) : s[k] \in S /\ t[k] \in S
  BY <1>1, ElementOfSeq
<1>3. /\ SubSeq(s, 1, Len(s)) \in Seq(S) /\ SubSeq(t, 1, Len(s)) \in Seq(S)
      /\ Len(SubSeq(s, 1, Len(s))) = IF 1 <= Len(s) THEN Len(s) - 1 + 1 ELSE 0
      /\ Len(SubSeq(t, 1, Len(s))) = IF 1 <= Len(s) THEN Len(s) - 1 + 1 ELSE 0
      /\ \A k \in 1 .. Len(s) - 1 + 1 : SubSeq(s, 1, Len(s))[k] = s[1 + k - 1]
      /\ \A k \in 1 .. Len(s) - 1 + 1 : SubSeq(t, 1, Len(s))[k] = t[1 + k - 1]
  BY <1>1, <1>2, SubSeqProperties
<1>4. SubSeq(s, 1, Len(s)) = SubSeq(t, 1, Len(s))
  <2>1. Len(SubSeq(s, 1, Len(s))) = Len(s) /\ Len(SubSeq(t, 1, Len(s))) = Len(s)
    BY <1>1, <1>3
  <2>2. \A k \in 1 .. Len(s) : SubSeq(s, 1, Len(s))[k] = SubSeq(t, 1, Len(s))[k]
    BY <1>1, <1>3
  <2> QED
    BY <1>3, <2>1, <2>2, SeqEqual
<1>5. Len(s) = Len(t) => s = t
  BY SeqEqual
<1> QED
  BY <1>4, <1>5 DEF DE!IsPrefix

(***************************************************************************)
(* What the programs promise follows from the invariant.                   *)
(***************************************************************************)
LEMMA DemosPromises ==
  ASSUME DemoBounds, DemosInv
  PROVE  /\ DE!TypeOK /\ DE!EchoIsExact /\ DE!OneSendAtATime /\ DE!RequestsAreFreed
         /\ DE!BeginningIsRead /\ DE!SuccessIsWhole /\ DE!SizeProtects
            /\ DE!ExitsCleanly
<1>1. DE!TypeOK
  BY DEF DemosInv
<1>2. DE!OneSendAtATime /\ DE!RequestsAreFreed
  BY DEF DemosInv, ClientInv, DE!OneSendAtATime, DE!RequestsAreFreed
<1>3. DE!EchoIsExact
  <2> SUFFICES ASSUME DE!IsEcho, d.server = "up"
               PROVE  d.sent = d.out + DE!Sum(d.echoes) + d.back + d.received
    BY DEF DE!EchoIsExact
  <2>1. PICK v \in Int : SumsTo(d.echoes, v) /\ d.sent = d.out + v + d.back + d.received
    BY DEF DemosInv, ServerInv
  <2>2. d.echoes \in Seq(Nat)
    BY DEF DemosInv, ClientInv, EchoStates
  <2>3. DE!Sum(d.echoes) = v
    BY <2>1, <2>2, SumIsTotal
  <2> QED
    BY <2>1, <2>3
<1>4. DE!BeginningIsRead
  <2> SUFFICES ASSUME DE!IsShm
               PROVE  DE!IsPrefix(d.text, Message) /\ Len(d.text) < SegmentSize
    BY DEF DE!BeginningIsRead
  <2>1. /\ d.text \in Seq(Nat) /\ Len(d.text) <= Len(Message)
        /\ \A k \in 1 .. Len(d.text) : d.text[k] = Message[k]
    BY DEF DemosInv, SegmentInv, ShmStates
  <2>2. Message \in Seq(Nat)
    BY SeqMonotonic DEF DemoBounds
  <2>3. Len(d.text) \in Nat /\ Len(Message) \in Nat /\ SegmentSize \in Nat
    BY <2>1, <2>2, LenProperties DEF DemoBounds
  <2>4. Len(d.text) < SegmentSize
    BY <2>1, <2>3 DEF DemoBounds
  <2> QED
    BY <2>1, <2>2, <2>4, Beginning
<1>5. DE!ExitsCleanly
  BY DEF DemosInv, RunnerInv, HeldInv, DE!ExitsCleanly, IsSqlRun
<1>6. DE!SuccessIsWhole
  <2> SUFFICES ASSUME d.prog = "sql"
               PROVE  /\ DE!IsPrefix(d.done, d.sql)
                      /\ d.says = "success" =>
                           /\ Len(d.sql) = d.size
                           /\ d.done = d.sql \/ d.sql[Len(d.done) + 1] = "nul"
                      /\ d.says = "SQL error" => d.sql[Len(d.done) + 1] = "bad"
                      /\ d.status = 1 => d.done = <<>>
    BY DEF DE!SuccessIsWhole
  <2>1. d \in SqlStates /\ StatementInv /\ SizeInv
    BY DEF DemosInv, RunnerInv, IsSqlRun
  <2>2. d.done \in Seq(Statements) /\ d.sql \in Seq(Statements)
    BY <2>1 DEF SqlStates
  <2>3. /\ Len(d.done) <= Len(d.sql) /\ \A k \in 1 .. Len(d.done) : d.done[k] = d.sql[k]
        /\ d.says = "success" =>
             /\ Len(d.sql) = d.size
             /\ Len(d.done) = Len(d.sql) \/ d.sql[Len(d.done) + 1] = "nul"
        /\ d.says = "SQL error" => d.sql[Len(d.done) + 1] = "bad"
    BY <2>1 DEF StatementInv, IsSqlRun
  <2>4. DE!IsPrefix(d.done, d.sql) /\ (Len(d.done) = Len(d.sql) => d.done = d.sql)
    BY <2>2, <2>3, Beginning
  <2>5. d.status = 1 => d.done = <<>>
    BY <2>1 DEF SizeInv, IsSqlRun
  <2> QED
    BY <2>3, <2>4, <2>5
<1>7. DE!SizeProtects
  <2> SUFFICES ASSUME d.prog = "sql"
               PROVE  /\ d.loaded > DE!Room(d) => d.size = -1
                      /\ d.size = -1 => d.done = <<>> /\ d.status # 0
                      /\ Len(d.sql) <= MaxSql
    BY DEF DE!SizeProtects
  <2>1. d \in SqlStates /\ SizeInv
    BY DEF DemosInv, RunnerInv, IsSqlRun
  <2>2. d.loaded \in Nat /\ d.size \in Nat \cup {-1}
        /\ (d.size >= 0 => d.loaded <= d.size + 1)
    BY <2>1 DEF SqlStates, SizeInv, IsSqlRun
  <2>3. d.loaded > DE!Room(d) => d.size = -1
    BY <2>2 DEF DE!Room
  <2> QED
    BY <2>1, <2>3 DEF SizeInv, IsSqlRun
<1> QED
  BY <1>1, <1>2, <1>3, <1>4, <1>5, <1>6, <1>7

-----------------------------------------------------------------------------
(* The other components, and the suite.                                    *)

W == INSTANCE StreamWrite WITH
  Batch <- WriteBatch, hstate <- write_hstate, fd <- write_fd,
  write_queue <- write_write_queue,
  write_completed_queue <- write_write_completed_queue,
  pollout <- write_pollout, fed <- write_fed, pc <- write_pc,
  count <- write_count

A == INSTANCE StreamAccept WITH
  hstate <- accept_hstate, pollin <- accept_pollin, pc <- accept_pc,
  arrived <- accept_arrived, pending <- accept_pending

EL == INSTANCE EventLoopProofs WITH
  Idle <- IdleWatchers, Prepare <- {}, Check <- {}, Timer <- {},
  Io <- Watchers, None <- NoHandle, hstate <- loop_hstate,
  active <- loop_active, pc <- loop_pc

SI == INSTANCE Signals WITH
  Handle <- SignalHandle, BatchSize <- SignalBatch, MaxStarts <- MaxWatches,
  pc <- signal_pc

O == INSTANCE SpawnStdio WITH
  Count <- StdioCount, pc <- stdio_pc

writeVars ==
  <<kernel, room, write_hstate, write_fd, writable, shut, delayed_error,
    connect_req, shutdown_req, nreqs, left, error, write_write_queue,
    write_write_completed_queue, write_queue_size, write_pollout, write_fed,
    write_pc, pq, caller, write_count, writing, called, sent>>
readVars ==
  <<avail, total, peer, read_hstate, readable, reading, read_eof,
    read_partial, read_active, read_pollin, read_pc, hup, read_count>>
acceptVars ==
  <<kind, accept_hstate, accept_pollin, accepted_fd, queued_fds, accept_pc,
    accept_arrived, accept_pending, clients, closed, emfile_fd, others,
    grabbed, failedLate, oom>>
udpVars ==
  <<mmsg, udp_hstate, udp_write_queue, udp_write_completed_queue,
    send_queue_count, result, done, udp_pollin, udp_pollout, udp_active,
    udp_fed, recv, inq, udp_arrived, chunk, bufs, udp_count, more, revout,
    stops, udp_pc>>
loopVars ==
  <<loop_hstate, loop_active, ref, active_handles, closing_handles,
    pending_queue, late, due, stop_flag, loop_pc, mode, alive, can_sleep,
    timeout, rounds, todo, running, worked>>
signalVars ==
  <<signum, oneshot, state, caught, dispatched, disp, pipe, batch,
    signal_pc, op, lock, handler, raised, started, forked, regular>>
processVars ==
  <<process_child, report, handle, watching, signaled, process_handles,
    process_pending, scan, current, stolen, process_pc>>
stdioVars ==
  <<how, flags, pipes, open, streams, failed, wanted, error_fd, file,
    cloexec, i, stdio_pc>>
forkVars == <<fd, p, parent, child, iParent, iChild>>
demosVars == <<d>>
suite ==
  <<part, writeVars, readVars, acceptVars, udpVars, loopVars, signalVars,
    processVars, stdioVars, forkVars, demosVars>>

SuiteInit ==
  /\ part \in {"write", "read", "accept", "udp", "loop", "signal",
               "process", "stdio", "fork", "demos"}
  /\ W!Init
  /\ R!Init
  /\ A!Init
  /\ part # "accept" => kind = "ipc"
  /\ U!Init
  /\ part # "udp" => ~mmsg
  /\ EL!Init
  /\ SI!Init
  /\ P!Init
  /\ O!Init
  /\ part # "stdio" => how = "fork"
  /\ Init
  /\ DE!Init
  /\ part # "demos" => d.prog = "shm"

\* A step of one component leaves the others alone.
Only(which) ==
  /\ part = which /\ UNCHANGED part
  /\ IF which = "write" THEN TRUE ELSE UNCHANGED writeVars
  /\ IF which = "read" THEN TRUE ELSE UNCHANGED readVars
  /\ IF which = "accept" THEN TRUE ELSE UNCHANGED acceptVars
  /\ IF which = "udp" THEN TRUE ELSE UNCHANGED udpVars
  /\ IF which = "loop" THEN TRUE ELSE UNCHANGED loopVars
  /\ IF which = "signal" THEN TRUE ELSE UNCHANGED signalVars
  /\ IF which = "process" THEN TRUE ELSE UNCHANGED processVars
  /\ IF which = "stdio" THEN TRUE ELSE UNCHANGED stdioVars
  /\ IF which = "fork" THEN TRUE ELSE UNCHANGED forkVars
  /\ IF which = "demos" THEN TRUE ELSE UNCHANGED demosVars

SuiteNext ==
  \/ Only("write") /\ W!Next
  \/ Only("read") /\ R!Next
  \/ Only("accept") /\ A!Next
  \/ Only("udp") /\ U!Next
  \/ Only("loop") /\ EL!Next
  \/ Only("signal") /\ SI!Next
  \/ Only("process") /\ P!Next
  \/ Only("stdio") /\ O!Next
  \/ Only("fork") /\ Next
  \/ Only("demos") /\ DE!Next

SuiteSpec ==
  /\ SuiteInit /\ [][SuiteNext]_suite

-----------------------------------------------------------------------------
(***************************************************************************)
(* Streams and datagrams. Every write, shutdown and send is called back    *)
(* once and in order, its bytes reach the kernel in order and nothing is   *)
(* outstanding after the close; a reading handle watches its descriptor,   *)
(* and nothing follows an end of file; a descriptor that was accepted or   *)
(* received is in one place, a server that has nothing to hand over        *)
(* listens; and with two idle handles and a descriptor active_handles is   *)
(* exact, what is closing is listed, and uv_run sleeps only when nothing   *)
(* else is left to do.                                                     *)
(***************************************************************************)
SocketsAreSound ==
  /\ part = "write" =>
       /\ W!TypeOK /\ W!RequestsInOrder /\ W!QueueSizeExact /\ W!BytesInOrder
       /\ W!ShutdownIsLast /\ W!NothingOutstanding
  /\ part = "read" =>
       /\ R!TypeOK /\ R!ReadingIsWatched /\ R!EofIsLast
  /\ part = "accept" =>
       /\ A!TypeOK /\ A!NoFdIsLost /\ A!AcceptedInOrder /\ A!OneAtATime
       /\ A!StillListening /\ A!SpareComesBack
  /\ part = "udp" =>
       /\ U!TypeOK /\ U!SendsInOrder /\ U!NothingIsForgotten /\ U!ClosedIsClean
       /\ U!BufferIsHandedBack
  /\ part = "loop" =>
       /\ EL!ActiveHandlesExact /\ EL!ClosingListed /\ EL!SleepsOnlyWhenIdle

(***************************************************************************)
(* No message in the signal pipe names a handle that was given back, the   *)
(* counters of a handle tell the messages under way, the disposition of a  *)
(* signal fits its watchers, and the handler never waits for the thread it *)
(* has interrupted.                                                        *)
(***************************************************************************)
SignalsAreSound ==
  /\ part = "signal" =>
       /\ SI!TypeOK /\ SI!NoMessageForClosed /\ SI!CountsExact
       /\ SI!DispositionFits /\ SI!NoSelfDeadlock

(***************************************************************************)
(* The exit of a child is known to the loop when it polls, a spawn that    *)
(* fails leaves neither a child nor a descriptor behind, and the child has *)
(* the descriptors it was given where it was asked for.                    *)
(***************************************************************************)
ChildrenAreSound ==
  /\ part = "process" =>
       /\ P!TypeOK /\ P!NoExitIsMissed /\ P!FailedSpawnIsClean
  /\ part = "stdio" =>
       /\ O!StdioArrives /\ O!SpawnLeaksNothing

(***************************************************************************)
(* The repository's own programs. The echo server sends every byte back,   *)
(* the client has one write or timer under way and frees its requests; the *)
(* reader of the shared segment prints a beginning of the message; the SQL *)
(* runner reports success only for a whole file, and what it reads fits    *)
(* its buffer unless ftell had failed, after which it executes nothing and *)
(* does not end with status 0.                                             *)
(***************************************************************************)
ProgramsAreSound ==
  /\ part = "demos" =>
       /\ DE!EchoIsExact /\ DE!OneSendAtATime /\ DE!RequestsAreFreed
       /\ DE!BeginningIsRead /\ DE!SuccessIsWhole /\ DE!SizeProtects
       /\ DE!ExitsCleanly

(***************************************************************************)
(* What a step may never do: deliver data to a stream or a socket that     *)
(* does not read any more, call a handle that is closing, or call exit_cb  *)
(* twice or for a child that is not gone.                                  *)
(***************************************************************************)
StoppedIsSilent ==
  /\ R!NoReadAfterStop
  /\ U!NoRecvAfterStop
  /\ EL!OnlyOpenHandlesAreCalled
  /\ P!ExitCbOnce

-----------------------------------------------------------------------------
(* The suite: one part runs, the others stand still, so what was proved of *)
(* a component holds of the behaviours that are about it.                  *)

(***************************************************************************)
(* What the constants have to be; TLC evaluates it for the values of the   *)
(* run.  The last two lines are what EventLoop assumes of its constants.   *)
(***************************************************************************)
ASSUME ConstantsFit ==
  /\ W!BoundsAreNumbers /\ ReadBounds /\ A!BoundsAreNumbers /\ UdpBounds
  /\ SI!Hypotheses /\ O!StdioBounds /\ DemoBounds
  /\ IsFiniteSet(IdleWatchers \cup Watchers) /\ IdleWatchers \cap Watchers = {}
  /\ NoHandle \notin IdleWatchers \cup Watchers /\ PendingRounds \in Nat \ {0}

(***************************************************************************)
(* While a part runs its steps are steps of its component, and the choice  *)
(* of the part is never changed.                                           *)
(***************************************************************************)
LEMMA WriteRuns ==
  /\ [SuiteNext]_suite /\ part = "write" => [W!Next]_(W!vars) /\ (part = "write")'
  /\ [SuiteNext]_suite /\ ~(part = "write") => ~(part = "write")'
  BY DEF SuiteNext, Only, suite, writeVars, W!vars, W!conn, W!flags, W!reqs,
     W!queues, W!watch

LEMMA AcceptRuns ==
  /\ [SuiteNext]_suite /\ part = "accept" => [A!Next]_(A!vars) /\ (part = "accept")'
  /\ [SuiteNext]_suite /\ ~(part = "accept") => ~(part = "accept")'
  BY DEF SuiteNext, Only, suite, acceptVars, A!vars

LEMMA SignalRuns ==
  /\ [SuiteNext]_suite /\ part = "signal" => [SI!Next]_(SI!vars) /\ (part = "signal")'
  /\ [SuiteNext]_suite /\ ~(part = "signal") => ~(part = "signal")'
  BY DEF SuiteNext, Only, suite, signalVars, SI!vars, SI!watchers, SI!counts

(***************************************************************************)
(* These six are also right of the steps of other parts: their state      *)
(* stands still then.                                                      *)
(***************************************************************************)
LEMMA ReadSteps == [SuiteNext]_suite => [R!Next]_(R!vars)
  BY DEF SuiteNext, Only, suite, readVars, R!vars, R!kernel, R!flags

LEMMA UdpSteps == [SuiteNext]_suite => [U!Next]_(U!vars)
  BY DEF SuiteNext, Only, suite, udpVars, U!vars, U!sendvars, U!recvvars, U!watch

LEMMA LoopSteps == [SuiteNext]_suite => [EL!Next]_(EL!vars)
  BY DEF SuiteNext, Only, suite, loopVars, EL!vars, EL!handlevars, EL!queuevars,
     EL!timevars, EL!runvars

\* What EventLoop assumes of its constants.
LEMMA LoopAssumptions ==
  /\ EL!IsFiniteSet(EL!Handles)
  /\ IdleWatchers \cap ({} \cup {} \cup {} \cup Watchers) = {}
  /\ {} \cap ({} \cup {} \cup Watchers) = {}
  /\ {} \cap ({} \cup Watchers) = {}
  /\ {} \cap Watchers = {}
  /\ PendingRounds \in Nat \ {0}
  /\ NoHandle \notin EL!Handles
<1>1. EL!Handles = IdleWatchers \cup Watchers
  BY DEF EL!Handles
<1>2. EL!IsFiniteSet(IdleWatchers \cup Watchers)
  BY ConstantsFit DEF IsFiniteSet, EL!IsFiniteSet
<1> QED
  BY <1>1, <1>2, ConstantsFit

LEMMA ProcessSteps == [SuiteNext]_suite => [P!Next]_(P!vars)
  BY DEF SuiteNext, Only, suite, processVars, P!vars, P!kernel, P!queues

LEMMA StdioSteps == [SuiteNext]_suite => [O!Next]_(O!vars)
  BY DEF SuiteNext, Only, suite, stdioVars, O!vars, O!parent, O!child

LEMMA DemoSteps == [SuiteNext]_suite => [DE!Next]_(DE!vars)
  BY DEF SuiteNext, Only, suite, demosVars, DE!vars

(***************************************************************************)
(* Streams, datagrams and the loop: the properties of SocketsAreSound, for *)
(* all sizes, limits and batches.                                          *)
(***************************************************************************)
THEOREM SocketsStaySound == SuiteSpec => []SocketsAreSound
<1>1. SuiteInit => W!Init /\ R!Init /\ A!Init /\ U!Init /\ EL!Init
  BY DEF SuiteInit
<1>2. W!Spec => []W!TypeOK
  BY ConstantsFit, W!TypeCorrect
<1>3. W!Spec => []W!RequestsInOrder
  BY ConstantsFit, W!EachOnceInOrder
<1>4. W!Spec => []W!QueueSizeExact
  BY ConstantsFit, W!QueueSizeIsExact
<1>5. W!Spec => []W!BytesInOrder
  BY ConstantsFit, W!BytesStayInOrder
<1>6. W!Spec => []W!ShutdownIsLast
  BY ConstantsFit, W!ShutdownComesLast
<1>7. W!Spec => []W!NothingOutstanding
  BY ConstantsFit, W!NothingIsLeft
<1>8. R!Spec => [](R!TypeOK /\ R!ReadingIsWatched /\ R!EofIsLast)
  <2>1. R!Spec => []ReadInv
    BY ConstantsFit, ReadInvAlways
  <2>2. ReadInv => R!TypeOK /\ R!ReadingIsWatched /\ R!EofIsLast
    BY DEF ReadInv, ReadEventInv, R!EofIsLast
  <2> QED
    BY <2>1, <2>2, PTL
<1>9. A!Spec => []A!TypeOK
  BY ConstantsFit, A!TypeCorrect
<1>10. A!Spec => []A!NoFdIsLost
  BY ConstantsFit, A!FdsAreKept
<1>11. A!Spec => []A!AcceptedInOrder
  BY ConstantsFit, A!InOrder
<1>12. A!Spec => []A!OneAtATime
  BY ConstantsFit, A!TakesOneAtATime
<1>13. A!Spec => []A!StillListening
  BY ConstantsFit, A!KeepsListening
<1>14. A!Spec => []A!SpareComesBack
  BY ConstantsFit, A!SpareIsBack
<1>15. U!Spec => []U!TypeOK
  BY ConstantsFit, UdpTypeCorrect
<1>16. U!Spec => []U!SendsInOrder
  BY ConstantsFit, SendsStayInOrder
<1>17. U!Spec => [](U!NothingIsForgotten /\ U!ClosedIsClean)
  BY ConstantsFit, WaitingIsWatched
<1>18. U!Spec => []U!BufferIsHandedBack
  BY ConstantsFit, BuffersComeBack
<1>19. EL!Spec => []EL!ActiveHandlesExact
  BY LoopAssumptions, EL!CounterIsExact
<1>20. EL!Spec => []EL!ClosingListed
  BY LoopAssumptions, EL!ClosesAreListed
<1>21. EL!Spec => []EL!SleepsOnlyWhenIdle
  BY LoopAssumptions, EL!SleepIsJustified
<1>22. /\ ~(part = "write")
          \/ /\ W!TypeOK /\ W!RequestsInOrder /\ W!QueueSizeExact
             /\ W!BytesInOrder /\ W!ShutdownIsLast /\ W!NothingOutstanding
       /\ R!TypeOK /\ R!ReadingIsWatched /\ R!EofIsLast
       /\ ~(part = "accept")
          \/ /\ A!TypeOK /\ A!NoFdIsLost /\ A!AcceptedInOrder
             /\ A!OneAtATime /\ A!StillListening /\ A!SpareComesBack
       /\ U!TypeOK /\ U!SendsInOrder /\ U!NothingIsForgotten
       /\ U!ClosedIsClean /\ U!BufferIsHandedBack
       /\ EL!ActiveHandlesExact /\ EL!ClosingListed /\ EL!SleepsOnlyWhenIdle
       => SocketsAreSound
  BY DEF SocketsAreSound
<1> QED
  BY <1>1, <1>2, <1>3, <1>4, <1>5, <1>6, <1>7, <1>8, <1>9, <1>10, <1>11, <1>12,
     <1>13, <1>14, <1>15, <1>16, <1>17, <1>18, <1>19, <1>20, <1>21, <1>22,
     WriteRuns, AcceptRuns, ReadSteps, UdpSteps, LoopSteps, PTL
     DEF SuiteSpec, W!Spec, R!Spec, A!Spec, U!Spec, EL!Spec

(***************************************************************************)
(* Signals: nothing names a closed handle, the counters are exact, the     *)
(* dispositions fit and the handler never waits for its own thread, for    *)
(* any loops, handles, signals and any size of the pipe.                   *)
(***************************************************************************)
THEOREM SignalsStaySound == SuiteSpec => []SignalsAreSound
<1>1. SI!TypeOK /\ SI!NoMessageForClosed /\ SI!CountsExact
        /\ SI!DispositionFits /\ SI!NoSelfDeadlock => SignalsAreSound
  BY DEF SignalsAreSound
<1>2. ~(part = "signal") => SignalsAreSound
  BY DEF SignalsAreSound
<1>3. SuiteInit => SI!Init
  BY DEF SuiteInit
<1>4. SI!Spec => []SI!TypeOK
  BY ConstantsFit, SI!TypeCorrect
<1>5. SI!Spec => []SI!NoMessageForClosed
  BY ConstantsFit, SI!ClosedIsUnnamed
<1>6. SI!Spec => []SI!CountsExact
  BY ConstantsFit, SI!CountersAgree
<1>7. SI!Spec => []SI!DispositionFits
  BY ConstantsFit, SI!DispositionCorrect
<1>8. SI!Spec => []SI!NoSelfDeadlock
  BY ConstantsFit, SI!HandlerNeverWaitsForItself
<1> QED
  BY <1>1, <1>2, <1>3, <1>4, <1>5, <1>6, <1>7, <1>8, SignalRuns, PTL
     DEF SI!Spec, SuiteSpec

(***************************************************************************)
(* Child processes: no exit is missed, a failed uv_spawn leaves nothing    *)
(* behind, and the child has its descriptors, for any number of children   *)
(* and containers.                                                         *)
(***************************************************************************)
THEOREM ChildrenStaySound == SuiteSpec => []ChildrenAreSound
<1>1. P!TypeOK /\ P!NoExitIsMissed /\ P!FailedSpawnIsClean
        /\ O!StdioArrives /\ O!SpawnLeaksNothing => ChildrenAreSound
  BY DEF ChildrenAreSound
<1>2. SuiteInit => P!Init /\ O!Init
  BY DEF SuiteInit
<1>3. P!Spec => []P!TypeOK
  BY ProcessTypeCorrect
<1>4. P!Spec => []P!NoExitIsMissed
  BY ExitsAreSeen
<1>5. P!Spec => []P!FailedSpawnIsClean
  BY FailuresAreClean
<1>6. O!Spec => []O!StdioArrives
  BY ConstantsFit, O!FilesArrive
<1>7. O!Spec => []O!SpawnLeaksNothing
  BY ConstantsFit, O!NothingLeaks
<1> QED
  BY <1>1, <1>2, <1>3, <1>4, <1>5, <1>6, <1>7, ProcessSteps, StdioSteps, PTL
     DEF SuiteSpec, P!Spec, O!Spec

(***************************************************************************)
(* The repository's own programs: the echo is exact and one send is on its *)
(* way at a time, the reader of the segment sees a beginning of the        *)
(* message, success of the SQL runner means the whole file, and what it    *)
(* reads fits its buffer unless ftell failed, after which nothing is       *)
(* executed, for any message, files and sizes.                             *)
(***************************************************************************)
THEOREM ProgramsStaySound == SuiteSpec => []ProgramsAreSound
<1>1. DE!TypeOK /\ DE!EchoIsExact /\ DE!OneSendAtATime /\ DE!RequestsAreFreed
        /\ DE!BeginningIsRead /\ DE!SuccessIsWhole /\ DE!SizeProtects /\ DE!ExitsCleanly
        => ProgramsAreSound
  BY DEF ProgramsAreSound
<1>2. SuiteInit => DemosInv
  BY ConstantsFit, DemosBegin DEF SuiteInit
<1>3. DemosInv /\ [SuiteNext]_suite => DemosInv'
  BY ConstantsFit, DemosStep, DemoSteps
<1>4. DemosInv => ProgramsAreSound
  BY <1>1, ConstantsFit, DemosPromises
<1> QED
  BY <1>2, <1>3, <1>4, PTL DEF SuiteSpec

(***************************************************************************)
(* Nothing is called after its stop: a step delivers no data to a stream   *)
(* or socket that does not read, calls no closing handle and no exit_cb a  *)
(* second time.                                                            *)
(***************************************************************************)
THEOREM SilenceAfterStop == SuiteSpec => StoppedIsSilent
<1>1. SuiteInit => R!Init /\ U!Init /\ EL!Init /\ P!Init
  BY DEF SuiteInit
<1>2. R!Spec => R!NoReadAfterStop
  BY ConstantsFit, StoppedReadIsSilent
<1>3. U!Spec => U!NoRecvAfterStop
  BY ConstantsFit, StoppedRecvIsSilent
<1>4. EL!Spec => EL!OnlyOpenHandlesAreCalled
  BY LoopAssumptions, EL!CalledHandlesAreOpen
<1>5. P!Spec => P!ExitCbOnce
  BY ExitIsToldOnce
<1> QED
  BY <1>1, <1>2, <1>3, <1>4, <1>5, ReadSteps, UdpSteps, LoopSteps, ProcessSteps,
     PTL DEF SuiteSpec, R!Spec, U!Spec, EL!Spec, P!Spec, StoppedIsSilent
=============================================================================
