----------------------------- MODULE ThreadPool -----------------------------
(***************************************************************************)
(* libuv's thread pool (src/threadpool.c): worker threads that share one   *)
(* queue, a second queue for slow I/O of which at most half the workers    *)
(* may run at a time, event loops that submit and cancel work and are      *)
(* handed finished work through their own queue and uv_async_t, and the    *)
(* shutdown by a message that stays at the head of the queue.              *)
(*                                                                         *)
(* The state is the one after init_threads.  A critical section of the     *)
(* global mutex is one step where the code cannot block inside it; the     *)
(* worker's loop and uv__work_cancel, which hold it across further         *)
(* decisions or while taking a second lock, keep it explicitly.  The       *)
(* wakeup of a loop is the promise of module Wakeup: a flag that           *)
(* uv_async_send sets and that the callback clears before it looks.        *)
(***************************************************************************)
EXTENDS Naturals, SequencesExt

CONSTANTS
  Workers,   \* the threads of the pool
  Loops,     \* event loops, each run by a thread of its own
  Works,     \* the struct uv__work objects of those loops' requests
  LoopOf,    \* w->loop
  Slow,      \* the works that are submitted as UV__WORK_SLOW_IO
  ExitMsg,   \* exit_message
  SlowMsg,   \* run_slow_work_message
  None

ASSUME PoolIsFinite == IsFiniteSet(Workers) /\ Workers # {}
ASSUME LoopOfType == LoopOf \in [Works -> Loops]
ASSUME SlowWorks == Slow \subseteq Works
ASSUME ThreadsDiffer == Workers \cap Loops = {} /\ None \notin Workers \cup Loops
ASSUME MessagesDiffer ==
  ExitMsg # SlowMsg /\ {ExitMsg, SlowMsg, None} \cap Works = {}

VARIABLES
  mutex,                 \* holder of the global mutex
  wq,                    \* the queue the workers share
  slow_io_pending_wq,    \* slow works waiting for a run_slow_work_message
  idle_threads,
  slow_io_work_running,
  pc, job, is_slow_work, \* each worker's place, its w, its flag
  wq_mutex,              \* holder of each loop's loop->wq_mutex
  loop_wq,               \* each loop's loop->wq
  async,                 \* each loop's loop->wq_async is pending
  lpc, done_wq,          \* each loop thread's place; local wq of uv__work_done
  cpc, cancelling,       \* its place in uv__work_cancel, and of which work
  work,                  \* w->work: "unset", "work", "cancelled" or "null"
  linked,                \* works whose queue node is not an empty list
  req,                   \* "free", or "pending" from submission to done
  fate,                  \* ghost: what has become of the pending work
  shutdown               \* uv__threadpool_cleanup: "no", "posted", "joined"

queues == <<wq, slow_io_pending_wq>>
poolvars == <<mutex, queues, idle_threads, slow_io_work_running>>
workervars == <<pc, job, is_slow_work>>
queuevars == <<wq_mutex, loop_wq, async>>
loopvars == <<lpc, done_wq, cpc, cancelling>>
workvars == <<work, linked, req, fate>>
outside == <<queuevars, loopvars, workvars, shutdown>>
vars == <<poolvars, workervars, outside>>

slow_work_thread_threshold == (Cardinality(Workers) + 1) \div 2

Init ==
  /\ mutex = None
  /\ wq = <<>>
  /\ slow_io_pending_wq = <<>>
  /\ idle_threads = 0
  /\ slow_io_work_running = 0
  /\ pc = [t \in Workers |-> "lock"]
  /\ job = [t \in Workers |-> None]
  /\ is_slow_work = [t \in Workers |-> FALSE]
  /\ wq_mutex = [l \in Loops |-> None]
  /\ loop_wq = [l \in Loops |-> <<>>]
  /\ async = [l \in Loops |-> FALSE]
  /\ lpc = [l \in Loops |-> "poll"]
  /\ done_wq = [l \in Loops |-> <<>>]
  /\ cpc = [l \in Loops |-> "none"]
  /\ cancelling = [l \in Loops |-> None]
  /\ work = [w \in Works |-> "unset"]
  /\ linked = {}
  /\ req = [w \in Works |-> "free"]
  /\ fate = [w \in Works |-> "none"]
  /\ shutdown = "no"

-----------------------------------------------------------------------------
(* Queues and the condition variable.                                      *)

\* Mutant: the node stays in the list.
WithoutNothing(q, w) == q

\* uv__queue_remove of a node that may be anywhere in the list, or not in it.
Without(q, w) ==
  IF w \in ToSet(q) THEN RemoveAt(q, CHOOSE i \in DOMAIN q : q[i] = w) ELSE q

\* Mutant: nobody is woken.
SignalNobody(p) == {p}

\* uv_cond_signal wakes one of the waiting threads, if there is one.
Signal(p) ==
  LET waiting == {t \in Workers : p[t] = "wait"}
  IN  IF waiting = {} THEN {p}
      ELSE {[p EXCEPT ![t] = "woken"] : t \in waiting}

\* Mutant: the test is the wrong way round.
SignalIfNoneIdle(p) == IF idle_threads > 0 THEN {p} ELSE Signal(p)

\* The signal is skipped when no worker is known to wait.
SignalIfIdle(p) == IF idle_threads > 0 THEN Signal(p) ELSE {p}

(***************************************************************************)
(* post, a critical section of the mutex.  The message that makes a worker *)
(* look at the slow queue is queued at most once.                          *)
(***************************************************************************)
Post(q, slow) ==
  /\ mutex = None
  /\ slow_io_pending_wq' = IF slow THEN Append(slow_io_pending_wq, q)
                           ELSE slow_io_pending_wq
  /\ IF slow /\ SlowMsg \in ToSet(wq)
     THEN UNCHANGED <<wq, pc>>
     ELSE /\ wq' = Append(wq, IF slow THEN SlowMsg ELSE q)
          /\ pc' \in SignalIfIdle(pc)
  /\ UNCHANGED <<mutex, idle_threads, slow_io_work_running, job, is_slow_work>>

-----------------------------------------------------------------------------
(* worker.                                                                 *)

\* Mutant: off by one.
PastThreshold == slow_io_work_running > slow_work_thread_threshold

\* Mutant: every work counts as slow when it ends.
SlowRunningWithoutAny(t) == slow_io_work_running - 1

\* Mutant: the end of a slow work is not accounted for.
SlowRunningAlways(t) == slow_io_work_running

\* slow_io_work_running once worker t has the mutex again after its work.
SlowRunningWithout(t) ==
  IF is_slow_work[t] THEN slow_io_work_running - 1 ELSE slow_io_work_running

\* Take the mutex at the top of the loop; account for finished slow work.
WorkerLock(t) ==
  /\ pc[t] = "lock"
  /\ mutex = None
  /\ mutex' = t
  /\ slow_io_work_running' = SlowRunningWithout(t)
  /\ is_slow_work' = [is_slow_work EXCEPT ![t] = FALSE]
  /\ pc' = [pc EXCEPT ![t] = "locked"]
  /\ UNCHANGED <<queues, idle_threads, job, outside>>

AtThreshold == slow_io_work_running >= slow_work_thread_threshold

\* The condition of the worker's while loop.
MustWait == wq = <<>> \/ (wq = <<SlowMsg>> /\ AtThreshold)

WorkerWait(t) ==
  /\ pc[t] = "locked"
  /\ MustWait
  /\ idle_threads' = idle_threads + 1
  /\ mutex' = None
  /\ pc' = [pc EXCEPT ![t] = "wait"]
  /\ UNCHANGED <<queues, slow_io_work_running, job, is_slow_work, outside>>

\* POSIX lets uv_cond_wait return without a signal.
SpuriousWakeup(t) ==
  /\ pc[t] = "wait"
  /\ pc' = [pc EXCEPT ![t] = "woken"]
  /\ UNCHANGED <<poolvars, job, is_slow_work, outside>>

WorkerWoken(t) ==
  /\ pc[t] = "woken"
  /\ mutex = None
  /\ mutex' = t
  /\ idle_threads' = idle_threads - 1
  /\ pc' = [pc EXCEPT ![t] = "locked"]
  /\ UNCHANGED <<queues, slow_io_work_running, job, is_slow_work, outside>>

\* The exit message stays where it is; the next worker is woken to see it.
WorkerExit(t) ==
  /\ pc[t] = "locked"
  /\ ~MustWait
  /\ Head(wq) = ExitMsg
  /\ pc' \in Signal([pc EXCEPT ![t] = "exited"])
  /\ mutex' = None
  /\ UNCHANGED <<queues, idle_threads, slow_io_work_running, job, is_slow_work,
                 outside>>

\* Mutant: the node keeps its old neighbours.
StillLinked(w) == linked

\* uv__queue_init of a dequeued node tells uv_cancel that it is executing.
Unlinked(w) == linked \ {w}

WorkerTake(t) ==
  /\ pc[t] = "locked"
  /\ ~MustWait
  /\ Head(wq) \in Works
  /\ wq' = Tail(wq)
  /\ linked' = Unlinked(Head(wq))
  /\ job' = [job EXCEPT ![t] = Head(wq)]
  /\ pc' = [pc EXCEPT ![t] = "run"]
  /\ mutex' = None
  /\ UNCHANGED <<slow_io_pending_wq, idle_threads, slow_io_work_running,
                 is_slow_work, queuevars, loopvars, work, req, fate, shutdown>>

\* At the threshold the message goes behind the other work; keep the mutex.
WorkerDeferSlow(t) ==
  /\ pc[t] = "locked"
  /\ ~MustWait
  /\ Head(wq) = SlowMsg
  /\ AtThreshold
  /\ wq' = Append(Tail(wq), SlowMsg)
  /\ UNCHANGED <<mutex, slow_io_pending_wq, idle_threads, slow_io_work_running,
                 workervars, outside>>

\* The slow work was cancelled: drop the message and keep the mutex.
WorkerDropSlow(t) ==
  /\ pc[t] = "locked"
  /\ ~MustWait
  /\ Head(wq) = SlowMsg
  /\ ~AtThreshold
  /\ slow_io_pending_wq = <<>>
  /\ wq' = Tail(wq)
  /\ UNCHANGED <<mutex, slow_io_pending_wq, idle_threads, slow_io_work_running,
                 workervars, outside>>

\* Mutant: the rest of the slow queue is not announced again.
NoMoreSlowWork == FALSE

\* The slow queue is not empty after its head was taken.
MoreSlowWork == Len(slow_io_pending_wq) > 1

\* Take one slow work; if there are more, queue the message again.
WorkerTakeSlow(t) ==
  /\ pc[t] = "locked"
  /\ ~MustWait
  /\ Head(wq) = SlowMsg
  /\ ~AtThreshold
  /\ slow_io_pending_wq # <<>>
  /\ slow_io_work_running' = slow_io_work_running + 1
  /\ is_slow_work' = [is_slow_work EXCEPT ![t] = TRUE]
  /\ slow_io_pending_wq' = Tail(slow_io_pending_wq)
  /\ linked' = Unlinked(Head(slow_io_pending_wq))
  /\ job' = [job EXCEPT ![t] = Head(slow_io_pending_wq)]
  /\ LET p == [pc EXCEPT ![t] = "run"]
     IN  IF MoreSlowWork
         THEN /\ wq' = Append(Tail(wq), SlowMsg)
              /\ pc' \in SignalIfIdle(p)
         ELSE /\ wq' = Tail(wq)
              /\ pc' = p
  /\ mutex' = None
  /\ UNCHANGED <<idle_threads, queuevars, loopvars, work, req, fate, shutdown>>

\* w->work(w), without a lock.  uv__cancelled would abort the process.
WorkerRun(t) ==
  /\ pc[t] = "run"
  /\ fate' = [fate EXCEPT ![job[t]] = "ran"]
  /\ pc' = [pc EXCEPT ![t] = "report"]
  /\ UNCHANGED <<poolvars, job, is_slow_work, queuevars, loopvars, work,
                 linked, req, shutdown>>

\* Mutant: the worker wants the mutex while it holds the loop's.
WorkerReportBothLocks(t) ==
  LET l == LoopOf[job[t]] IN
  /\ pc[t] = "reporting"
  /\ mutex = None
  /\ work' = [work EXCEPT ![job[t]] = "null"]
  /\ loop_wq' = [loop_wq EXCEPT ![l] = Append(@, job[t])]
  /\ linked' = linked \cup {job[t]}
  /\ async' = [async EXCEPT ![l] = TRUE]
  /\ wq_mutex' = [wq_mutex EXCEPT ![l] = None]
  /\ job' = [job EXCEPT ![t] = None]
  /\ pc' = [pc EXCEPT ![t] = "lock"]
  /\ UNCHANGED <<poolvars, is_slow_work, loopvars, req, fate, shutdown>>

WorkerLockLoop(t) ==
  /\ pc[t] = "report"
  /\ wq_mutex[LoopOf[job[t]]] = None
  /\ wq_mutex' = [wq_mutex EXCEPT ![LoopOf[job[t]]] = t]
  /\ pc' = [pc EXCEPT ![t] = "reporting"]
  /\ UNCHANGED <<poolvars, job, is_slow_work, loop_wq, async, loopvars,
                 workvars, shutdown>>

WorkerReport(t) ==
  LET l == LoopOf[job[t]] IN
  /\ pc[t] = "reporting"
  /\ work' = [work EXCEPT ![job[t]] = "null"]
  /\ loop_wq' = [loop_wq EXCEPT ![l] = Append(@, job[t])]
  /\ linked' = linked \cup {job[t]}
  /\ async' = [async EXCEPT ![l] = TRUE]
  /\ wq_mutex' = [wq_mutex EXCEPT ![l] = None]
  /\ job' = [job EXCEPT ![t] = None]
  /\ pc' = [pc EXCEPT ![t] = "lock"]
  /\ UNCHANGED <<poolvars, is_slow_work, loopvars, req, fate, shutdown>>

-----------------------------------------------------------------------------
(* The loop threads.  They call the API from outside uv__work_done         *)
(* ("poll") or from a done callback ("cb").                                *)

InUserCode(l) == lpc[l] \in {"poll", "cb"} /\ cpc[l] = "none" /\ shutdown = "no"

\* uv__work_submit, reached from uv_queue_work or a file system request.
Submit(l, w) ==
  /\ InUserCode(l)
  /\ LoopOf[w] = l
  /\ req[w] = "free"
  /\ Post(w, w \in Slow)
  /\ work' = [work EXCEPT ![w] = "work"]
  /\ linked' = linked \cup {w}
  /\ req' = [req EXCEPT ![w] = "pending"]
  /\ fate' = [fate EXCEPT ![w] = "none"]
  /\ UNCHANGED <<queuevars, loopvars, shutdown>>

\* uv__work_cancel, of a request whose done callback has not been called.
CancelLock(l, w) ==
  /\ InUserCode(l)
  /\ LoopOf[w] = l
  /\ req[w] = "pending"
  /\ mutex = None
  /\ mutex' = l
  /\ cpc' = [cpc EXCEPT ![l] = "locking"]
  /\ cancelling' = [cancelling EXCEPT ![l] = w]
  /\ UNCHANGED <<queues, idle_threads, slow_io_work_running, workervars,
                 queuevars, lpc, done_wq, workvars, shutdown>>

CancelLockLoop(l) ==
  /\ cpc[l] = "locking"
  /\ wq_mutex[l] = None
  /\ wq_mutex' = [wq_mutex EXCEPT ![l] = l]
  /\ cpc' = [cpc EXCEPT ![l] = "locked"]
  /\ UNCHANGED <<poolvars, workervars, loop_wq, async, lpc, done_wq,
                 cancelling, workvars, shutdown>>

\* Mutant: work that has been executed is cancelled too.
CancellableWhenLinked(w) == w \in linked

\* Neither executing (an empty node) nor executed (no function).
Cancellable(w) == w \in linked /\ work[w] # "null"

\* The work is still queued: unlink it from whichever queue holds it.
CancelUnlink(l) ==
  LET w == cancelling[l] IN
  /\ cpc[l] = "locked"
  /\ Cancellable(w)
  /\ wq' = Without(wq, w)
  /\ slow_io_pending_wq' = Without(slow_io_pending_wq, w)
  /\ loop_wq' = [loop_wq EXCEPT ![l] = Without(@, w)]
  /\ done_wq' = [done_wq EXCEPT ![l] = Without(@, w)]
  /\ fate' = [fate EXCEPT ![w] = IF @ = "ran" THEN @ ELSE "cancelled"]
  /\ wq_mutex' = [wq_mutex EXCEPT ![l] = None]
  /\ mutex' = None
  /\ cpc' = [cpc EXCEPT ![l] = "unlinked"]
  /\ UNCHANGED <<idle_threads, slow_io_work_running, workervars, async, lpc,
                 cancelling, work, linked, req, shutdown>>

\* It is executing or has been executed: UV_EBUSY.
CancelBusy(l) ==
  /\ cpc[l] = "locked"
  /\ ~Cancellable(cancelling[l])
  /\ wq_mutex' = [wq_mutex EXCEPT ![l] = None]
  /\ mutex' = None
  /\ cpc' = [cpc EXCEPT ![l] = "none"]
  /\ cancelling' = [cancelling EXCEPT ![l] = None]
  /\ UNCHANGED <<queues, idle_threads, slow_io_work_running, workervars,
                 loop_wq, async, lpc, done_wq, workvars, shutdown>>

\* w->work = uv__cancelled, without a lock.
CancelMark(l) ==
  /\ cpc[l] = "unlinked"
  /\ work' = [work EXCEPT ![cancelling[l]] = "cancelled"]
  /\ cpc' = [cpc EXCEPT ![l] = "marked"]
  /\ UNCHANGED <<poolvars, workervars, queuevars, lpc, done_wq, cancelling,
                 linked, req, fate, shutdown>>

\* Hand it to the loop as if a worker had finished it; return 0.
CancelReport(l) ==
  /\ cpc[l] = "marked"
  /\ wq_mutex[l] = None
  /\ loop_wq' = [loop_wq EXCEPT ![l] = Append(@, cancelling[l])]
  /\ linked' = linked \cup {cancelling[l]}
  /\ async' = [async EXCEPT ![l] = TRUE]
  /\ cpc' = [cpc EXCEPT ![l] = "none"]
  /\ cancelling' = [cancelling EXCEPT ![l] = None]
  /\ UNCHANGED <<poolvars, workervars, wq_mutex, lpc, done_wq, work, req, fate,
                 shutdown>>

\* The loop's uv__async_io clears wq_async and calls uv__work_done.
WorkDoneBegin(l) ==
  /\ lpc[l] = "poll"
  /\ cpc[l] = "none"
  /\ async[l]
  /\ async' = [async EXCEPT ![l] = FALSE]
  /\ lpc' = [lpc EXCEPT ![l] = "done"]
  /\ UNCHANGED <<poolvars, workervars, wq_mutex, loop_wq, done_wq, cpc,
                 cancelling, workvars, shutdown>>

WorkDoneMove(l) ==
  /\ lpc[l] = "done"
  /\ wq_mutex[l] = None
  /\ done_wq' = [done_wq EXCEPT ![l] = loop_wq[l]]
  /\ loop_wq' = [loop_wq EXCEPT ![l] = <<>>]
  /\ lpc' = [lpc EXCEPT ![l] = "drain"]
  /\ UNCHANGED <<poolvars, workervars, wq_mutex, async, cpc, cancelling,
                 workvars, shutdown>>

\* w->done: the request is the user's again and may be submitted again.
WorkDoneNext(l) ==
  /\ lpc[l] = "drain"
  /\ done_wq[l] # <<>>
  /\ done_wq' = [done_wq EXCEPT ![l] = Tail(@)]
  /\ req' = [req EXCEPT ![Head(done_wq[l])] = "free"]
  /\ lpc' = [lpc EXCEPT ![l] = "cb"]
  /\ UNCHANGED <<poolvars, workervars, queuevars, cpc, cancelling, work,
                 linked, fate, shutdown>>

CallbackReturn(l) ==
  /\ lpc[l] = "cb"
  /\ cpc[l] = "none"
  /\ lpc' = [lpc EXCEPT ![l] = "drain"]
  /\ UNCHANGED <<poolvars, workervars, queuevars, done_wq, cpc, cancelling,
                 workvars, shutdown>>

WorkDoneEnd(l) ==
  /\ lpc[l] = "drain"
  /\ done_wq[l] = <<>>
  /\ lpc' = [lpc EXCEPT ![l] = "poll"]
  /\ UNCHANGED <<poolvars, workervars, queuevars, done_wq, cpc, cancelling,
                 workvars, shutdown>>

-----------------------------------------------------------------------------
(* uv__threadpool_cleanup: post the exit message and join every worker.    *)
(* The caller submits and cancels nothing any more.                        *)

CleanupPost ==
  /\ shutdown = "no"
  /\ \A l \in Loops : cpc[l] = "none"
  /\ Post(ExitMsg, FALSE)
  /\ shutdown' = "posted"
  /\ UNCHANGED <<queuevars, loopvars, workvars>>

CleanupJoin ==
  /\ shutdown = "posted"
  /\ \A t \in Workers : pc[t] = "exited"
  /\ shutdown' = "joined"
  /\ UNCHANGED <<poolvars, workervars, queuevars, loopvars, workvars>>

-----------------------------------------------------------------------------
\* What a worker does with the mutex in hand.
WorkerLocked(t) ==
  \/ WorkerWait(t) \/ WorkerExit(t) \/ WorkerTake(t)
  \/ WorkerDeferSlow(t) \/ WorkerDropSlow(t) \/ WorkerTakeSlow(t)

WorkerStep(t) ==
  \/ WorkerLock(t) \/ WorkerWoken(t) \/ WorkerLocked(t)
  \/ WorkerRun(t) \/ WorkerLockLoop(t) \/ WorkerReport(t)

CancelStep(l) ==
  \/ CancelLockLoop(l) \/ CancelUnlink(l) \/ CancelBusy(l) \/ CancelMark(l)
  \/ CancelReport(l)

WorkDoneStep(l) ==
  \/ WorkDoneMove(l) \/ WorkDoneNext(l) \/ CallbackReturn(l) \/ WorkDoneEnd(l)

Next ==
  \/ \E t \in Workers : WorkerStep(t) \/ SpuriousWakeup(t)
  \/ \E l \in Loops, w \in Works : Submit(l, w) \/ CancelLock(l, w)
  \/ \E l \in Loops : CancelStep(l) \/ WorkDoneBegin(l) \/ WorkDoneStep(l)
  \/ CleanupPost \/ CleanupJoin

Spec == Init /\ [][Next]_vars

(***************************************************************************)
(* Fairness.  Threads are scheduled and a mutex that is free again and     *)
(* again is obtained at last (SF); a work function and a user callback     *)
(* return; a loop polls once in every iteration, however often user code   *)
(* calls uv_cancel in between (hence SF for the loop too).  Nothing forces *)
(* a submission, a cancellation, a spurious wakeup or the cleanup.         *)
(***************************************************************************)
Fairness ==
  /\ \A t \in Workers : SF_vars(WorkerStep(t))
  /\ \A l \in Loops : SF_vars(CancelStep(l))
  /\ \A l \in Loops : SF_vars(WorkDoneBegin(l) \/ WorkDoneStep(l))
  /\ WF_vars(CleanupJoin)

FairSpec == Spec /\ Fairness

-----------------------------------------------------------------------------
(* Properties.                                                             *)

Messages == {ExitMsg, SlowMsg}

(***************************************************************************)
(* Type invariant of the pool's static variables, of the loops' queues and *)
(* of the requests.                                                        *)
(***************************************************************************)
TypeOK ==
  /\ mutex \in Workers \cup Loops \cup {None}
  /\ wq \in Seq(Works \cup Messages)
  /\ slow_io_pending_wq \in Seq(Slow)
  /\ idle_threads \in Nat
  /\ slow_io_work_running \in Nat
  /\ pc \in [Workers -> {"lock", "locked", "wait", "woken", "run", "report",
                         "reporting", "exited"}]
  /\ job \in [Workers -> Works \cup {None}]
  /\ is_slow_work \in [Workers -> BOOLEAN]
  /\ wq_mutex \in [Loops -> Workers \cup Loops \cup {None}]
  /\ loop_wq \in [Loops -> Seq(Works)]
  /\ async \in [Loops -> BOOLEAN]
  /\ lpc \in [Loops -> {"poll", "done", "drain", "cb"}]
  /\ done_wq \in [Loops -> Seq(Works)]
  /\ cpc \in [Loops -> {"none", "locking", "locked", "unlinked", "marked"}]
  /\ cancelling \in [Loops -> Works \cup {None}]
  /\ work \in [Works -> {"unset", "work", "cancelled", "null"}]
  /\ linked \in SUBSET Works
  /\ req \in [Works -> {"free", "pending"}]
  /\ fate \in [Works -> {"none", "ran", "cancelled"}]
  /\ shutdown \in {"no", "posted", "joined"}

Positions(q, w) == {i \in 1 .. Len(q) : q[i] = w}

\* The places where a work can be found, across queues and threads.
Places(w) ==
  ({"wq"} \X Positions(wq, w))
  \cup ({"slow"} \X Positions(slow_io_pending_wq, w))
  \cup ({"worker"} \X {t \in Workers : job[t] = w})
  \cup ({"loop"} \X UNION {{l} \X Positions(loop_wq[l], w) : l \in Loops})
  \cup ({"done"} \X UNION {{l} \X Positions(done_wq[l], w) : l \in Loops})
  \cup ({"cancel"} \X {l \in Loops : cancelling[l] = w
                                     /\ cpc[l] \in {"unlinked", "marked"}})

(***************************************************************************)
(* A submitted work is in exactly one place until its done callback, and a *)
(* work the user owns is in none: it is not run or reported twice, nothing *)
(* is dropped, and the intrusive list node is never in two lists.          *)
(***************************************************************************)
WorkInOnePlace ==
  \A w \in Works : Cardinality(Places(w)) = IF req[w] = "pending" THEN 1 ELSE 0

(***************************************************************************)
(* A worker never calls uv__cancelled, which aborts the process, nor the   *)
(* function of a work that was already run or whose uv_cancel succeeded,   *)
(* although uv__work_cancel overwrites w->work without a lock.             *)
(***************************************************************************)
NeverRunsCancelled ==
  \A t \in Workers : pc[t] = "run" =>
    work[job[t]] = "work" /\ fate[job[t]] = "none"

(***************************************************************************)
(* slow_io_work_running counts the workers that are at slow work, and is   *)
(* never above half of the pool, so that slow I/O leaves workers for the   *)
(* other kinds of work.                                                    *)
(***************************************************************************)
SlowWorkIsBounded ==
  /\ slow_io_work_running = Cardinality({t \in Workers : is_slow_work[t]})
  /\ slow_io_work_running <= slow_work_thread_threshold

(***************************************************************************)
(* Slow work is never left in its queue without the message that makes a   *)
(* worker look there, whatever uv_cancel takes out of it.                  *)
(***************************************************************************)
SlowWorkIsAnnounced ==
  slow_io_pending_wq # <<>> => SlowMsg \in ToSet(wq)

(***************************************************************************)
(* The workers are never all asleep with work they could take, in spite of *)
(* post signalling only when idle_threads > 0 and of idle_threads counting *)
(* workers that were woken already.                                        *)
(***************************************************************************)
NotAllAsleep == (\A t \in Workers : pc[t] = "wait") => MustWait

(***************************************************************************)
(* The status handed to the done callback is the truth: UV_ECANCELED when  *)
(* uv_cancel returned 0 and the work never ran, 0 when it ran.             *)
(***************************************************************************)
StatusIsTruthful ==
  [][\A w \in Works : req[w] = "pending" /\ req'[w] = "free" =>
       \/ work[w] = "cancelled" /\ fate[w] = "cancelled"
       \/ work[w] = "null" /\ fate[w] = "ran"]_vars

(***************************************************************************)
(* Liveness: every submitted work reaches its done callback unless the     *)
(* pool is shut down; no lock order, threshold or missed signal keeps it   *)
(* from doing so.  A uv_cancel that succeeds puts the work at the end of   *)
(* the loop's queue, also when it was cancelled before: only a user who    *)
(* cancels the same work again and again can put its callback off.         *)
(***************************************************************************)
EveryWorkIsDone ==
  \A w \in Works : (req[w] = "pending") ~>
    \/ req[w] = "free"
    \/ shutdown # "no"
    \/ cpc[LoopOf[w]] = "unlinked" /\ cancelling[LoopOf[w]] = w

(***************************************************************************)
(* Liveness: uv__threadpool_cleanup joins every worker: each one that sees *)
(* the exit message wakes the next, and slow work behind it or at the      *)
(* threshold does not keep a worker waiting.                               *)
(***************************************************************************)
CleanupEnds == (shutdown = "posted") ~> (shutdown = "joined")

(***************************************************************************)
(* The promise of the pool to its users (module WorkRequest).              *)
(***************************************************************************)
RequestState(w) ==
  CASE req[w] = "free" -> "free"
    [] req[w] = "pending" /\ fate[w] = "cancelled" -> "cancelled"
    [] req[w] = "pending" /\ fate[w] # "cancelled" /\ work[w] = "null" -> "ran"
    [] OTHER -> IF \E t \in Workers : job[t] = w THEN "running" ELSE "queued"

Abs == INSTANCE WorkRequest WITH
         Pool <- Cardinality(Workers),
         SlowLimit <- slow_work_thread_threshold,
         state <- [w \in Works |-> RequestState(w)]

ImplementsWorkRequest == Abs!Spec
=============================================================================
