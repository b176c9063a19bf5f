------------------------------- MODULE MCLive -------------------------------
(***************************************************************************)
(* Liveness, for TLC: what has to happen in the end, for several           *)
(* components on small instances. One behaviour is about one component,    *)
(* which part chooses; the fairness of each is that of its module's        *)
(* FairSpec.                                                               *)
(***************************************************************************)
EXTENDS Naturals, Sequences

VARIABLES
  part,   \* the component this behaviour is about
  avail, total, peer, read_hstate, readable, reading, read_eof,
  read_partial, read_active, read_pollin, read_pc, hup, read_count,
  process_child, report, handle, watching, signaled, process_handles,
  pending, scan, current, stolen, process_pc,
  fd, p, parent, fork_child, iParent, iChild,
  mutex, wq, slow_io_pending_wq, idle_threads, slow_io_work_running,
  pool_pc, job, is_slow_work, wq_mutex, loop_wq, async, lpc, done_wq, cpc,
  cancelling, work, linked, req, fate, shutdown,
  mmsg, udp_hstate, write_queue, write_completed_queue, send_queue_count,
  result, done, udp_pollin, pollout, udp_active, fed, recv, inq, arrived,
  chunk, bufs, udp_count, more, revout, stops, udp_pc

R == INSTANCE StreamRead WITH
  MaxBytes <- 5, BufLen <- 2, ReadCount <- 2, hstate <- read_hstate,
  active <- read_active, pollin <- read_pollin, pc <- read_pc,
  count <- read_count

P == INSTANCE Processes WITH
  Child <- {"c1", "c2"}, MaySteal <- TRUE, child <- process_child,
  pc <- process_pc

F == INSTANCE ForkPingPong WITH
  Rounds <- 20, PipeCapacity <- 65536, child <- fork_child

TP == INSTANCE ThreadPool WITH
  Workers <- {"t1", "t2"}, Loops <- {"l1"}, Works <- {"s1", "s2"},
  LoopOf <- [w \in {"s1", "s2"} |-> "l1"], Slow <- {"s1", "s2"},
  ExitMsg <- "exit_message", SlowMsg <- "run_slow_work_message",
  None <- "none", pc <- pool_pc

U == INSTANCE Udp WITH
  MaxSends <- 2, MaxIn <- 1, Batch <- 1, Chunks <- 1, RecvCount <- 1,
  MaxStops <- 1, hstate <- udp_hstate, pollin <- udp_pollin,
  active <- udp_active, count <- udp_count, pc <- udp_pc

readVars ==
  <<avail, total, peer, read_hstate, readable, reading, read_eof,
    read_partial, read_active, read_pollin, read_pc, hup, read_count>>
processVars ==
  <<process_child, report, handle, watching, signaled, process_handles,
    pending, scan, current, stolen, process_pc>>
forkVars == <<fd, p, parent, fork_child, iParent, iChild>>
poolVars ==
  <<mutex, wq, slow_io_pending_wq, idle_threads, slow_io_work_running,
    pool_pc, job, is_slow_work, wq_mutex, loop_wq, async, lpc, done_wq, cpc,
    cancelling, work, linked, req, fate, shutdown>>
udpVars ==
  <<mmsg, udp_hstate, write_queue, write_completed_queue, send_queue_count,
    result, done, udp_pollin, pollout, udp_active, fed, recv, inq, arrived,
    chunk, bufs, udp_count, more, revout, stops, udp_pc>>
suite ==
  <<part, readVars, processVars, forkVars, poolVars, udpVars>>

SuiteInit ==
  /\ part \in {"read", "process", "fork", "pool", "udp"}
  /\ R!Init
  /\ P!Init
  /\ F!Init
  /\ TP!Init
  /\ U!Init
  /\ part # "udp" => ~mmsg

\* A step of one component leaves the others alone.
Only(which) ==
  /\ part = which /\ UNCHANGED part
  /\ IF which = "read" THEN TRUE ELSE UNCHANGED readVars
  /\ IF which = "process" THEN TRUE ELSE UNCHANGED processVars
  /\ IF which = "fork" THEN TRUE ELSE UNCHANGED forkVars
  /\ IF which = "pool" THEN TRUE ELSE UNCHANGED poolVars
  /\ IF which = "udp" THEN TRUE ELSE UNCHANGED udpVars

SuiteNext ==
  \/ Only("read") /\ R!Next
  \/ Only("process") /\ P!Next
  \/ Only("fork") /\ F!Next
  \/ Only("pool") /\ TP!Next
  \/ Only("udp") /\ U!Next

(***************************************************************************)
(* Fairness: that of each component, see its module.  All the steps of a    *)
(* behaviour are of one part, so one condition may name a step of each.    *)
(***************************************************************************)
SuiteSpec ==
  /\ SuiteInit /\ [][SuiteNext]_suite
  /\ WF_suite(
       \/ Only("read") /\ R!LoopStep
       \/ Only("process") /\ P!LoopStep
       \/ Only("fork") /\ F!Parent
       \/ Only("pool") /\ TP!CleanupJoin
       \/ Only("udp") /\ U!LoopStep)
  /\ WF_suite(Only("fork") /\ F!Child)
  /\ SF_suite(
       \/ Only("read") /\ R!ReadData
       \/ Only("pool") /\ TP!CancelStep("l1")
       \/ Only("udp") /\ U!SendMsg /\ Len(write_queue') < Len(write_queue))
  /\ SF_suite(
       \/ Only("read") /\ R!ReadEof
       \/ Only("pool") /\ (TP!WorkDoneBegin("l1") \/ TP!WorkDoneStep("l1"))
       \/ Only("udp") /\ \E in \in BOOLEAN : U!Io(in, TRUE))
  /\ \A c \in {"c1", "c2"} : WF_suite(Only("process") /\ P!Exec(c))
  /\ \A t \in {"t1", "t2"} : SF_suite(Only("pool") /\ TP!WorkerStep(t))

-----------------------------------------------------------------------------
(***************************************************************************)
(* Liveness: what the peer sent and the end of file are read, every        *)
(* uv_udp_send is called back, the exit of a child is reported, and the    *)
(* parent and the child of fork.c end.                                     *)
(***************************************************************************)
EventsAreReported ==
  /\ R!EverythingIsRead /\ R!EofIsReported
  /\ U!SendsAreCalledBack
  /\ P!ExitIsReported
  /\ ((part = "fork") => F!BothEnd)

(***************************************************************************)
(* Liveness: every uv_queue_work is done, and uv_library_shutdown joins    *)
(* the threads of the pool.                                                *)
(***************************************************************************)
PoolMakesProgress == /\ TP!EveryWorkIsDone /\ TP!CleanupEnds
=============================================================================
