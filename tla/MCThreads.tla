----------------------------- MODULE MCThreads ------------------------------
(***************************************************************************)
(* What crosses threads or interrupts them, for TLC: uv_async_t with its   *)
(* safety and liveness, and the liveness of writes and of signal handles.  *)
(* The components share no state, so one behaviour is about one of them,   *)
(* which part chooses, and leaves the state of the others alone; the       *)
(* fairness of each is that of its module's FairSpec.                      *)
(***************************************************************************)
EXTENDS Async, Sequences

VARIABLES
  part,   \* the component this behaviour is about
  kernel, room, write_hstate, fd, writable, shut, delayed_error,
  connect_req, shutdown_req, nreqs, left, error, write_queue,
  write_completed_queue, write_queue_size, pollout, fed, write_pc, pq,
  caller, count, writing, called, sent,
  signum, oneshot, state, caught, dispatched, disp, pipe, batch, signal_pc,
  op, lock, handler, raised, started, forked, regular

W == INSTANCE StreamWrite WITH
  MaxWrites <- 2, MaxSize <- 1, Batch <- 1, hstate <- write_hstate,
  pc <- write_pc

S == INSTANCE Signals WITH
  Loop <- {"l1"}, Handle <- {"h1", "h2"},
  loopOf <- [h \in {"h1", "h2"} |-> "l1"], Signum <- {1}, PipeSize <- 1,
  BatchSize <- 1, MaxRaised <- 1, MaxStarts <- 2, RegularUse <- {"h2"},
  OneShotUse <- {"h1"}, pc <- signal_pc

asyncVars ==
  <<pending, busy, hstate, async_handles, queue, eventfd, fdOpen, pc,
    target, lpc, running, spinning, owed>>
writeVars ==
  <<kernel, room, write_hstate, fd, writable, shut, delayed_error,
    connect_req, shutdown_req, nreqs, left, error, write_queue,
    write_completed_queue, write_queue_size, pollout, fed, write_pc, pq,
    caller, count, writing, called, sent>>
signalVars ==
  <<signum, oneshot, state, caught, dispatched, disp, pipe, batch,
    signal_pc, op, lock, handler, raised, started, forked, regular>>
suite ==
  <<part, asyncVars, writeVars, signalVars>>

SuiteInit ==
  /\ part \in {"async", "write", "signal"}
  /\ Init
  /\ W!Init
  /\ S!Init

\* A step of one component leaves the others alone.
Only(which) ==
  /\ part = which /\ UNCHANGED part
  /\ IF which = "async" THEN TRUE ELSE UNCHANGED asyncVars
  /\ IF which = "write" THEN TRUE ELSE UNCHANGED writeVars
  /\ IF which = "signal" THEN TRUE ELSE UNCHANGED signalVars

SuiteNext ==
  \/ Only("async") /\ Next
  \/ Only("write") /\ W!Next
  \/ Only("signal") /\ S!Next

(***************************************************************************)
(* Fairness: that of each component, see its module.  All the steps of a    *)
(* behaviour are of one part, so one condition may name a step of each.    *)
(***************************************************************************)
SuiteSpec ==
  /\ SuiteInit /\ [][SuiteNext]_suite
  /\ WF_suite(
       \/ Only("async") /\ \E h \in Handles : IoNext(h)
       \/ Only("write") /\ W!LoopStep
       \/ Only("signal") /\ S!HandlerStep)
  /\ WF_suite(
       \/ Only("async") /\ IoEnd
       \/ Only("write") /\ W!KernelWrite
       \/ Only("signal") /\ S!LoopStep("l1"))
  /\ WF_suite(
       \/ Only("async") /\ CloseEnd
       \/ Only("write") /\ kernel = "connecting" /\ (W!Established \/ W!Break))
  /\ WF_suite(
       \/ Only("async") /\ \E h \in Handles : StopNext(h)
       \/ Only("write") /\ W!PeerReads)
  /\ WF_suite(Only("async") /\ StopSpun)
  /\ WF_suite(Only("async") /\ StopEnd)
  /\ SF_suite(
       \/ Only("async") /\ IoBegin
       \/ Only("signal") /\ signal_pc["l1"] = "after" /\ S!Lock("l1"))
  /\ SF_suite(Only("async") /\ CallbackReturn)
  /\ \A t \in Threads : WF_suite(Only("async") /\ Send(t))
  /\ \A h \in Handles : SF_suite(Only("async") /\ CloseCallback(h))
  /\ \A h \in {"h1", "h2"} : WF_suite(Only("signal") /\ S!FinishClose(h))

-----------------------------------------------------------------------------
(***************************************************************************)
(* Liveness: every uv_async_send is followed by a callback, uv__async_spin *)
(* ends, every uv_write is called back and the uv_close of a signal handle *)
(* completes.                                                              *)
(***************************************************************************)
CallsAreAnswered ==
  /\ SendIsDelivered /\ SpinEnds
  /\ W!WritesAreCalledBack
  /\ S!CloseCompletes
=============================================================================
