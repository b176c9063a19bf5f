------------------------------- MODULE Async -------------------------------
(***************************************************************************)
(* Cross-thread wakeup of an event loop: uv_async_t of libuv's unix port   *)
(* (src/unix/async.c), which my_demo and the learning-code programs use    *)
(* to wake a loop that sleeps in epoll_wait, and which the thread pool     *)
(* uses to report finished work.                                           *)
(*                                                                         *)
(* One loop thread runs uv__async_io, uv__async_close and uv__async_stop;  *)
(* any number of other threads run uv_async_send.  Every atomic operation  *)
(* of uv_async_send is a step of its own, because the whole protocol is    *)
(* about what the loop thread can do between two of them.                  *)
(*                                                                         *)
(* Abstractions.  The two linked lists async_handles and queue are sets:   *)
(* the order in which one pass of uv__async_io visits the handles is left  *)
(* open.  The eventfd is its 64-bit counter, saturating at EventfdMax.     *)
(***************************************************************************)
EXTENDS Naturals, FiniteSets

CONSTANTS
  Handles,     \* the uv_async_t objects of one loop
  Internal,    \* loop->wq_async, the loop's own handle
  NoCallback,  \* the handles that were initialised with async_cb == NULL
  Threads,     \* the threads, other than the loop's, that call uv_async_send
  EventfdMax,  \* largest value of the eventfd counter
  None         \* no handle

ASSUME InternalIsHandle == Internal \in Handles
ASSUME NoCallbackHandles == NoCallback \subseteq Handles \ {Internal}
ASSUME ThreadsFinite == IsFiniteSet(Threads)
ASSUME EventfdMaxPositive == EventfdMax \in Nat \ {0}

ASSUME NoneIsNoHandle == None \notin Handles

VARIABLES
  pending,        \* handle->pending, 0 or 1
  busy,           \* handle->u.fd, used as a count of senders inside
  hstate,         \* "unused", "active", "closing" or "closed"
  async_handles,  \* loop->async_handles
  queue,          \* the local list of uv__async_io and of uv__async_stop
  eventfd,        \* counter of loop->async_io_watcher.fd
  fdOpen,         \* loop->async_io_watcher.fd != -1
  pc,             \* where each sending thread is in uv_async_send
  target,         \* the handle that thread is sending to
  lpc,            \* where the loop thread is
  running,        \* the handle whose async_cb is running
  spinning,       \* the handle that uv__async_spin waits for
  owed            \* ghost: a send was called and no callback has begun since

hvars == <<pending, busy, hstate, async_handles, queue, eventfd, fdOpen>>
svars == <<pc, target>>
lvars == <<lpc, running, spinning>>
vars == <<hvars, svars, lvars, owed>>

(***************************************************************************)
(* uv_loop_init leaves the loop with its internal handle initialised and   *)
(* the eventfd open and empty.                                             *)
(***************************************************************************)
Init ==
  /\ pending = [h \in Handles |-> 0]
  /\ busy = [h \in Handles |-> 0]
  /\ hstate = [h \in Handles |-> IF h = Internal THEN "active" ELSE "unused"]
  /\ async_handles = {Internal}
  /\ queue = {}
  /\ eventfd = 0
  /\ fdOpen = TRUE
  /\ pc = [t \in Threads |-> "idle"]
  /\ target = [t \in Threads |-> None]
  /\ lpc = "poll"
  /\ running = None
  /\ spinning = None
  /\ owed = [h \in Handles |-> FALSE]

-----------------------------------------------------------------------------
(* uv_async_send, called by another thread.                                *)

\* Mutant: without the cheap read.
SendLoadNoRead(t, h) ==
  /\ pc[t] = "idle"
  /\ hstate[h] \in {"active", "closing"}
  /\ lpc # "gone"
  /\ owed' = [owed EXCEPT ![h] = hstate[h] = "active"]
  /\ pc' = [pc EXCEPT ![t] = "enter"]
  /\ target' = [target EXCEPT ![t] = h]
  /\ UNCHANGED <<hvars, lvars>>

(***************************************************************************)
(* The cheap read.  The caller owns the handle: it has been initialised    *)
(* and its close callback has not run.  The loop's own handle stays        *)
(* initialised until the loop is gone.                                     *)
(***************************************************************************)
SendLoad(t, h) ==
  /\ pc[t] = "idle"
  /\ hstate[h] \in {"active", "closing"}
  /\ lpc # "gone"
  /\ owed' = [owed EXCEPT ![h] = hstate[h] = "active"]
  /\ IF pending[h] # 0
     THEN UNCHANGED <<pc, target>>
     ELSE /\ pc' = [pc EXCEPT ![t] = "enter"]
          /\ target' = [target EXCEPT ![t] = h]
  /\ UNCHANGED <<hvars, lvars>>

\* Mutant: the busy count is never raised.
SendEnterUncounted(t) ==
  /\ pc[t] = "enter"
  /\ pc' = [pc EXCEPT ![t] = "exchange"]
  /\ UNCHANGED <<hvars, target, lvars, owed>>

\* atomic_fetch_add(busy, 1)
SendEnter(t) ==
  /\ pc[t] = "enter"
  /\ busy' = [busy EXCEPT ![target[t]] = @ + 1]
  /\ pc' = [pc EXCEPT ![t] = "exchange"]
  /\ UNCHANGED <<pending, hstate, async_handles, queue, eventfd, fdOpen,
                 target, lvars, owed>>

\* atomic_exchange(pending, 1): only the thread that saw 0 writes.
SendExchange(t) ==
  /\ pc[t] = "exchange"
  /\ pending' = [pending EXCEPT ![target[t]] = 1]
  /\ pc' = [pc EXCEPT ![t] = IF pending[target[t]] = 0 THEN "write" ELSE "leave"]
  /\ UNCHANGED <<busy, hstate, async_handles, queue, eventfd, fdOpen,
                 target, lvars, owed>>

(***************************************************************************)
(* uv__async_send: write(fd, 1).  A full counter gives EAGAIN, which is    *)
(* ignored; EINTR is retried; any other error aborts the process.          *)
(***************************************************************************)
SendWrite(t) ==
  /\ pc[t] = "write"
  /\ eventfd' = IF eventfd < EventfdMax THEN eventfd + 1 ELSE eventfd
  /\ pc' = [pc EXCEPT ![t] = "leave"]
  /\ UNCHANGED <<pending, busy, hstate, async_handles, queue, fdOpen,
                 target, lvars, owed>>

\* Mutant: busy is not lowered again.
SendLeaveBusy(t) ==
  /\ pc[t] = "leave"
  /\ pc' = [pc EXCEPT ![t] = "idle"]
  /\ target' = [target EXCEPT ![t] = None]
  /\ UNCHANGED <<hvars, lvars, owed>>

\* atomic_fetch_add(busy, -1) and return
SendLeave(t) ==
  /\ pc[t] = "leave"
  /\ busy' = [busy EXCEPT ![target[t]] = @ - 1]
  /\ pc' = [pc EXCEPT ![t] = "idle"]
  /\ target' = [target EXCEPT ![t] = None]
  /\ UNCHANGED <<pending, hstate, async_handles, queue, eventfd, fdOpen,
                 lvars, owed>>

-----------------------------------------------------------------------------
(* The loop thread.  It calls the API from outside the loop or from a      *)
(* callback of another kind ("poll"), or from an async callback ("cb").    *)

InUserCode == lpc \in {"poll", "cb"}

(***************************************************************************)
(* uv_async_init.  The memory is the user's: it is initialised while no    *)
(* thread is still inside uv_async_send with it.                           *)
(***************************************************************************)
AsyncInit(h) ==
  /\ InUserCode
  /\ hstate[h] \in {"unused", "closed"}
  /\ \A t \in Threads : target[t] # h
  /\ pending' = [pending EXCEPT ![h] = 0]
  /\ busy' = [busy EXCEPT ![h] = 0]
  /\ hstate' = [hstate EXCEPT ![h] = "active"]
  /\ async_handles' = async_handles \cup {h}
  /\ owed' = [owed EXCEPT ![h] = FALSE]
  /\ UNCHANGED <<queue, eventfd, fdOpen, svars, lvars>>

(***************************************************************************)
(* uv_async_send called by the loop thread itself.  Nobody but the loop    *)
(* thread reads busy or drains the eventfd, so the call is one step.       *)
(***************************************************************************)
LoopSend(h) ==
  /\ InUserCode
  /\ hstate[h] \in {"active", "closing"}
  /\ owed' = [owed EXCEPT ![h] = hstate[h] = "active"]
  /\ pending' = [pending EXCEPT ![h] = 1]
  /\ eventfd' = IF pending[h] = 0 /\ eventfd < EventfdMax
                THEN eventfd + 1 ELSE eventfd
  /\ UNCHANGED <<busy, hstate, async_handles, queue, fdOpen, svars, lvars>>

\* uv__async_io: drain the eventfd, take over the list of handles.
IoBegin ==
  /\ lpc = "poll"
  /\ eventfd > 0
  /\ eventfd' = 0
  /\ queue' = async_handles
  /\ async_handles' = {}
  /\ lpc' = "io"
  /\ UNCHANGED <<pending, busy, hstate, fdOpen, svars, running, spinning, owed>>

\* Mutant: the pending flag is cleared after the callback, not before it.
CallbackReturnClears ==
  /\ lpc = "cb"
  /\ lpc' = "io"
  /\ running' = None
  /\ pending' = [pending EXCEPT ![running] = IF hstate[running] = "active"
                                             THEN 0 ELSE @]
  /\ UNCHANGED <<busy, hstate, async_handles, queue, eventfd, fdOpen, svars,
                 spinning, owed>>

(***************************************************************************)
(* One turn of its loop: put the handle back on async_handles, exchange    *)
(* pending with 0, and run the callback if it was set.                     *)
(***************************************************************************)
IoNext(h) ==
  /\ lpc = "io"
  /\ h \in queue
  /\ queue' = queue \ {h}
  /\ async_handles' = async_handles \cup {h}
  /\ pending' = [pending EXCEPT ![h] = 0]
  /\ owed' = IF pending[h] = 0 THEN owed ELSE [owed EXCEPT ![h] = FALSE]
  /\ IF pending[h] = 0 \/ h \in NoCallback
     THEN UNCHANGED <<lpc, running>>
     ELSE lpc' = "cb" /\ running' = h
  /\ UNCHANGED <<busy, hstate, eventfd, fdOpen, svars, spinning>>

\* Mutant: the eventfd is drained after the handles were visited.
IoEndDrains ==
  /\ lpc = "io"
  /\ queue = {}
  /\ lpc' = "poll"
  /\ eventfd' = 0
  /\ UNCHANGED <<pending, busy, hstate, async_handles, queue, fdOpen, svars,
                 running, spinning, owed>>

CallbackReturn ==
  /\ lpc = "cb"
  /\ lpc' = "io"
  /\ running' = None
  /\ UNCHANGED <<hvars, svars, spinning, owed>>

IoEnd ==
  /\ lpc = "io"
  /\ queue = {}
  /\ lpc' = "poll"
  /\ UNCHANGED <<hvars, svars, running, spinning, owed>>

(***************************************************************************)
(* uv_close of an async handle: UV_HANDLE_CLOSING, then uv__async_close,   *)
(* which first sets pending (uv__async_spin) and then waits for busy == 0. *)
(***************************************************************************)
CloseBegin(h) ==
  /\ InUserCode
  /\ h # Internal
  /\ hstate[h] = "active"
  /\ hstate' = [hstate EXCEPT ![h] = "closing"]
  /\ pending' = [pending EXCEPT ![h] = 1]
  /\ lpc' = "spin"
  /\ spinning' = h
  /\ owed' = [owed EXCEPT ![h] = FALSE]
  /\ UNCHANGED <<busy, async_handles, queue, eventfd, fdOpen, svars, running>>

\* Mutant: uv__async_close does not wait for busy == 0.
CloseEndNoSpin ==
  /\ lpc = "spin"
  /\ async_handles' = async_handles \ {spinning}
  /\ queue' = queue \ {spinning}
  /\ lpc' = IF running = None THEN "poll" ELSE "cb"
  /\ spinning' = None
  /\ UNCHANGED <<pending, busy, hstate, eventfd, fdOpen, svars, running, owed>>

\* Mutant: the handle is looked for on async_handles only.
CloseEndOneList ==
  /\ lpc = "spin"
  /\ busy[spinning] = 0
  /\ async_handles' = async_handles \ {spinning}
  /\ lpc' = IF running = None THEN "poll" ELSE "cb"
  /\ spinning' = None
  /\ UNCHANGED <<pending, busy, hstate, queue, eventfd, fdOpen, svars, running,
                 owed>>

\* The spin sees busy == 0; the handle leaves whichever list it is on.
CloseEnd ==
  /\ lpc = "spin"
  /\ busy[spinning] = 0
  /\ async_handles' = async_handles \ {spinning}
  /\ queue' = queue \ {spinning}
  /\ lpc' = IF running = None THEN "poll" ELSE "cb"
  /\ spinning' = None
  /\ UNCHANGED <<pending, busy, hstate, eventfd, fdOpen, svars, running, owed>>

\* uv__run_closing_handles calls the close callback: the memory is free.
CloseCallback(h) ==
  /\ lpc = "poll"
  /\ hstate[h] = "closing"
  /\ hstate' = [hstate EXCEPT ![h] = "closed"]
  /\ UNCHANGED <<pending, busy, async_handles, queue, eventfd, fdOpen,
                 svars, lvars, owed>>

(***************************************************************************)
(* uv__async_stop, reached from uv_loop_close once only the internal       *)
(* handle is left: spin on every handle of the list, then close the fd.    *)
(***************************************************************************)
StopBegin ==
  /\ lpc = "poll"
  /\ \A h \in Handles \ {Internal} : hstate[h] \in {"unused", "closed"}
  /\ queue' = async_handles
  /\ async_handles' = {}
  /\ lpc' = "stop"
  /\ UNCHANGED <<pending, busy, hstate, eventfd, fdOpen, svars, running,
                 spinning, owed>>

StopNext(h) ==
  /\ lpc = "stop"
  /\ h \in queue
  /\ queue' = queue \ {h}
  /\ async_handles' = async_handles \cup {h}
  /\ pending' = [pending EXCEPT ![h] = 1]
  /\ lpc' = "stopspin"
  /\ spinning' = h
  /\ UNCHANGED <<busy, hstate, eventfd, fdOpen, svars, running, owed>>

StopSpun ==
  /\ lpc = "stopspin"
  /\ busy[spinning] = 0
  /\ lpc' = "stop"
  /\ spinning' = None
  /\ UNCHANGED <<hvars, svars, running, owed>>

StopEnd ==
  /\ lpc = "stop"
  /\ queue = {}
  /\ fdOpen' = FALSE
  /\ lpc' = "gone"
  /\ UNCHANGED <<pending, busy, hstate, async_handles, queue, eventfd, svars,
                 running, spinning, owed>>

-----------------------------------------------------------------------------
Send(t) ==
  \/ SendEnter(t) \/ SendExchange(t) \/ SendWrite(t) \/ SendLeave(t)

\* The steps the loop thread takes on its own, without a call by the user.
LoopStep ==
  \/ IoBegin \/ (\E h \in Handles : IoNext(h)) \/ CallbackReturn \/ IoEnd
  \/ CloseEnd \/ (\E h \in Handles : CloseCallback(h))
  \/ (\E h \in Handles : StopNext(h)) \/ StopSpun \/ StopEnd

Next ==
  \/ \E t \in Threads, h \in Handles : SendLoad(t, h)
  \/ \E t \in Threads : Send(t)
  \/ LoopStep
  \/ StopBegin
  \/ \E h \in Handles : AsyncInit(h) \/ LoopSend(h) \/ CloseBegin(h)

Spec == Init /\ [][Next]_vars

(***************************************************************************)
(* Fairness.  A thread inside uv_async_send is scheduled until it returns; *)
(* user callbacks return; uv_run reaches its poll phase and its closing    *)
(* phase once in every iteration, however many handles user code opens and *)
(* closes in between (hence SF).  Nothing forces a call by the user.       *)
(***************************************************************************)
Fairness ==
  /\ \A t \in Threads : WF_vars(Send(t))
  /\ SF_vars(IoBegin)
  /\ SF_vars(CallbackReturn)
  /\ WF_vars(\E h \in Handles : IoNext(h))
  /\ WF_vars(IoEnd)
  /\ WF_vars(CloseEnd)
  /\ \A h \in Handles : SF_vars(CloseCallback(h))
  /\ WF_vars(\E h \in Handles : StopNext(h))
  /\ WF_vars(StopSpun)
  /\ WF_vars(StopEnd)

FairSpec == Spec /\ Fairness

-----------------------------------------------------------------------------
(* Properties.                                                             *)

Stopping == lpc \in {"stop", "stopspin", "gone"}

\* The threads between busy++ and busy-- of handle h.
Inside(h) == {t \in Threads : target[t] = h
                              /\ pc[t] \in {"exchange", "write", "leave"}}

(***************************************************************************)
(* Type invariant of the state of uv_async_t, of the loop's lists and fd,  *)
(* and of the program counters.                                            *)
(***************************************************************************)
TypeOK ==
  /\ pending \in [Handles -> {0, 1}]
  /\ busy \in [Handles -> Nat]
  /\ hstate \in [Handles -> {"unused", "active", "closing", "closed"}]
  /\ async_handles \in SUBSET Handles
  /\ queue \in SUBSET Handles
  /\ eventfd \in 0 .. EventfdMax
  /\ fdOpen \in BOOLEAN
  /\ pc \in [Threads -> {"idle", "enter", "exchange", "write", "leave"}]
  /\ target \in [Threads -> Handles \cup {None}]
  /\ lpc \in {"poll", "io", "cb", "spin", "stop", "stopspin", "gone"}
  /\ running \in Handles \cup {None}
  /\ spinning \in Handles \cup {None}
  /\ owed \in [Handles -> BOOLEAN]

(***************************************************************************)
(* busy counts the threads inside uv_async_send, so the busy == 0 that     *)
(* uv__async_spin waits for means that nobody is about to write.           *)
(***************************************************************************)
BusyCountsSenders == \A h \in Handles : busy[h] = Cardinality(Inside(h))

(***************************************************************************)
(* uv__async_send never writes to the wakeup fd after uv__async_stop       *)
(* closed it (the write would fail with EBADF and abort, or reach an       *)
(* unrelated file that was given the same number), and never on behalf of  *)
(* a handle whose uv__async_close has returned ("no new events will be     *)
(* added by other threads after this function returns").                   *)
(***************************************************************************)
NoWriteAfterSpin ==
  \A t \in Threads : pc[t] = "write" =>
    /\ fdOpen
    /\ hstate[target[t]] = "closing" => spinning = target[t]
    /\ hstate[target[t]] \in {"active", "closing"}

(***************************************************************************)
(* No wakeup is lost: a pending handle of a live loop is about to be       *)
(* visited by uv__async_io, or the eventfd is readable, or the thread that *)
(* set the flag has not yet written.  The flag is never left set with      *)
(* nobody going to look at it, which would silence the handle for good.    *)
(***************************************************************************)
NoLostWakeup ==
  \A h \in Handles : pending[h] = 1 /\ hstate[h] = "active" /\ ~Stopping =>
    \/ eventfd > 0
    \/ h \in queue
    \/ \E t \in Threads : pc[t] = "write"

(***************************************************************************)
(* Every handle that is not closing is on exactly one of the two lists, so *)
(* that a uv_close or uv_async_init called inside an async callback never  *)
(* hides a handle from the next pass of uv__async_io.                      *)
(***************************************************************************)
ListedOnce ==
  /\ async_handles \cap queue = {}
  /\ \A h \in Handles :
       /\ hstate[h] = "active" => h \in async_handles \cup queue
       /\ h \in async_handles \cup queue =>
            hstate[h] = "active" \/ (hstate[h] = "closing" /\ spinning = h)

(***************************************************************************)
(* Liveness: a uv_async_send is followed by a callback that begins after   *)
(* the call did, unless the handle is closed or the loop is taken down     *)
(* first.                                                                  *)
(***************************************************************************)
SendIsDelivered == \A h \in Handles : owed[h] ~> (~owed[h] \/ Stopping)

(***************************************************************************)
(* Liveness: uv__async_spin ends, although threads that passed the cheap   *)
(* read before pending was set may still raise busy while it spins.        *)
(***************************************************************************)
SpinEnds == (lpc \in {"spin", "stopspin"}) ~> (lpc \notin {"spin", "stopspin"})

(***************************************************************************)
(* The promise of uv_async_t (module Wakeup): coalescing, no callback that *)
(* nobody asked for, and none that begins after uv_close.                  *)
(***************************************************************************)
Abs == INSTANCE Wakeup WITH
         asked <- {h \in Handles :
                     pending[h] = 1 /\ hstate[h] = "active" /\ ~Stopping},
         loop <- IF Stopping THEN "down" ELSE "up"

ImplementsWakeup == Abs!Spec
=============================================================================
