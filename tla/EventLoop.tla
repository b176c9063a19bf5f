----------------------------- MODULE EventLoop -----------------------------
(***************************************************************************)
(* One libuv event loop: uv_run with its phases and run modes              *)
(* (src/unix/core.c), the idle, prepare and check watchers                 *)
(* (src/unix/loop-watcher.c), the handle flags and the count that keeps    *)
(* the loop alive (src/uv-common.h), deferred callbacks (pending_queue),   *)
(* uv_close and its deferred callback, and uv_stop.  The programs under    *)
(* learning-code and my_demo are callbacks on top of it: what their        *)
(* callbacks may call is left open here.                                   *)
(*                                                                         *)
(* Abstractions.  Lists of watchers are sets: the order within a pass is   *)
(* left open.  A timer is armed or not; "late" are the timers whose time   *)
(* has come by the clock, "due" those whose time has come by loop->time,   *)
(* which only uv__update_time moves; the arithmetic of time is left out.   *)
(* An Io handle stands for a stream or a poll handle: a watched fd.        *)
(* It is active while its fd is watched.  No request is active: they count *)
(* like handles in uv__loop_alive.  The loop's own async and signal fds    *)
(* are left out (module Async).  uv_timer_again is a TimerStart.           *)
(* Locals of uv_run are reset to a fixed value once they are dead.         *)
(***************************************************************************)
EXTENDS Integers, FiniteSets

CONSTANTS
  Idle, Prepare, Check, Timer, Io,  \* the handles, by type
  PendingRounds,                    \* 8 in uv_run
  None                              \* no handle

Handles == Idle \cup Prepare \cup Check \cup Timer \cup Io

ASSUME HandlesFinite == IsFiniteSet(Handles)
ASSUME TypesDisjoint ==
  /\ Idle \cap (Prepare \cup Check \cup Timer \cup Io) = {}
  /\ Prepare \cap (Check \cup Timer \cup Io) = {}
  /\ Check \cap (Timer \cup Io) = {}
  /\ Timer \cap Io = {}
ASSUME RoundsPositive == PendingRounds \in Nat \ {0}
ASSUME NoneIsNoHandle == None \notin Handles

VARIABLES
  hstate,           \* "none", "open", "closing" or "closed"
  active,           \* the handles with UV_HANDLE_ACTIVE
  ref,              \* the handles with UV_HANDLE_REF
  active_handles,   \* loop->active_handles
  closing_handles,  \* loop->closing_handles
  pending_queue,    \* loop->pending_queue
  late, due,        \* timers past their time by the clock, by loop->time
  stop_flag,        \* loop->stop_flag
  pc,               \* the phase of uv_run, or "out"
  mode,             \* "default", "once" or "nowait"
  alive,            \* the variable r of uv_run, when it holds uv__loop_alive
  can_sleep,
  timeout,          \* of uv__io_poll: "zero", "timer" or "forever"
  rounds,           \* the same r, when it counts passes over pending_queue
  todo,             \* the local list of the current pass
  running,          \* the handle whose callback is running
  worked            \* ghost: a pending or idle callback ran in this iteration

handlevars == <<hstate, active, ref, active_handles>>
queuevars == <<closing_handles, pending_queue>>
timevars == <<late, due>>
runvars == <<pc, mode, alive, can_sleep, timeout, rounds>>
vars == <<handlevars, queuevars, timevars, stop_flag, runvars, todo, running,
          worked>>

Init ==
  /\ hstate = [h \in Handles |-> "none"]
  /\ active = {}
  /\ ref = {}
  /\ active_handles = 0
  /\ closing_handles = {}
  /\ pending_queue = {}
  /\ late = {}
  /\ due = {}
  /\ stop_flag = FALSE
  /\ pc = "out"
  /\ mode = "default"
  /\ alive = FALSE
  /\ can_sleep = FALSE
  /\ timeout = "zero"
  /\ rounds = 0
  /\ todo = {}
  /\ running = None
  /\ worked = FALSE

-----------------------------------------------------------------------------
(* What user code calls, from a callback or outside uv_run.  Handles are   *)
(* used between their initialisation and their uv_close.                   *)

InUserCode == running # None \/ pc = "out"

\* Mutant: UV_HANDLE_REF is not looked at.
CountedAll(S) == Cardinality(S)

\* uv__active_handle_add and _rm, for the handles of S that are referenced.
Counted(S) == Cardinality(S \cap ref)

InitHandle(h) ==
  /\ InUserCode
  /\ hstate[h] \in {"none", "closed"}
  /\ hstate' = [hstate EXCEPT ![h] = "open"]
  /\ ref' = ref \cup {h}
  /\ UNCHANGED <<active, active_handles, queuevars, timevars, stop_flag,
                 runvars, todo, running, worked>>

\* uv_idle_start and its like; not seen by a pass that is under way.
Start(h) ==
  /\ InUserCode
  /\ hstate[h] = "open"
  /\ h \notin Timer \cup active
  /\ active' = active \cup {h}
  /\ active_handles' = active_handles + Counted({h})
  /\ UNCHANGED <<hstate, ref, queuevars, timevars, stop_flag, runvars, todo,
                 running, worked>>

\* Mutant: what a pass has taken over is left alone.
TodoAsItWas(h) == todo

\* The node of h is removed from whatever list it is in, the local list of the
\* pass under way included; an event that is being dispatched is invalidated.
TodoWithout(h) == todo \ {h}

\* uv_timer_start: stop, then arm for now (a timeout of 0) or for later.
TimerStart(h, now) ==
  /\ InUserCode
  /\ hstate[h] = "open"
  /\ h \in Timer
  /\ active' = active \cup {h}
  /\ active_handles' = active_handles + Counted({h} \ active)
  /\ todo' = TodoWithout(h)
  /\ due' = IF now THEN due \cup {h} ELSE due \ {h}
  /\ late' = IF now THEN late \cup {h} ELSE late \ {h}
  /\ UNCHANGED <<hstate, ref, queuevars, stop_flag, runvars, running, worked>>

\* uv__handle_stop, and a timer leaves the heap.
StopEffect(h) ==
  /\ active' = active \ {h}
  /\ active_handles' = active_handles - Counted({h} \cap active)
  /\ due' = due \ {h}
  /\ late' = late \ {h}

(***************************************************************************)
(* A watcher or timer also leaves the list of the current pass.  A stream  *)
(* that stops reading stays in the batch of events and in pending_queue.   *)
(***************************************************************************)
Stop(h) ==
  /\ InUserCode
  /\ hstate[h] = "open"
  /\ h \in active \cup todo
  /\ StopEffect(h)
  /\ todo' = IF h \in Io THEN todo ELSE TodoWithout(h)
  /\ UNCHANGED <<hstate, ref, queuevars, stop_flag, runvars, running, worked>>

\* Mutant: the watcher stays where uv__io_feed has queued it.
PendingAsItWas(h) == pending_queue

\* uv__io_close: a callback that was deferred is not called any more.
PendingWithout(h) == pending_queue \ {h}

\* uv_close: the handle is stopped now and its callback is called later.
Close(h) ==
  /\ InUserCode
  /\ hstate[h] = "open"
  /\ hstate' = [hstate EXCEPT ![h] = "closing"]
  /\ StopEffect(h)
  /\ todo' = TodoWithout(h)
  /\ pending_queue' = PendingWithout(h)
  /\ closing_handles' = closing_handles \cup {h}
  /\ UNCHANGED <<ref, stop_flag, runvars, running, worked>>

Ref(h) ==
  /\ InUserCode
  /\ hstate[h] \in {"open", "closing"}
  /\ h \notin ref
  /\ ref' = ref \cup {h}
  /\ active_handles' = IF hstate[h] = "open" /\ h \in active
                       THEN active_handles + 1 ELSE active_handles
  /\ UNCHANGED <<hstate, active, queuevars, timevars, stop_flag, runvars, todo,
                 running, worked>>

Unref(h) ==
  /\ InUserCode
  /\ hstate[h] \in {"open", "closing"}
  /\ h \in ref
  /\ ref' = ref \ {h}
  /\ active_handles' = IF hstate[h] = "open" /\ h \in active
                       THEN active_handles - 1 ELSE active_handles
  /\ UNCHANGED <<hstate, active, queuevars, timevars, stop_flag, runvars, todo,
                 running, worked>>

\* uv__io_feed: the stream wants its callback called without polling.  It is
\* not queued again while it waits in the list of uv__run_pending.
Feed(h) ==
  /\ InUserCode
  /\ h \in Io
  /\ hstate[h] = "open"
  /\ ~(pc \in {"pending", "after"} /\ h \in todo)
  /\ pending_queue' = pending_queue \cup {h}
  /\ UNCHANGED <<handlevars, closing_handles, timevars, stop_flag, runvars, todo,
                 running, worked>>

uv_stop ==
  /\ InUserCode
  /\ stop_flag' = TRUE
  /\ UNCHANGED <<handlevars, queuevars, timevars, runvars, todo, running, worked>>

\* The clock reaches the time of an armed timer.
Tick(h) ==
  /\ h \in (Timer \cap active) \ late
  /\ late' = late \cup {h}
  /\ UNCHANGED <<handlevars, queuevars, due, stop_flag, runvars, todo, running,
                 worked>>

-----------------------------------------------------------------------------
(* uv_run.                                                                 *)

\* Mutant: the handles that are closing are forgotten.
LoopAliveForgetsClosing == active_handles > 0 \/ pending_queue # {}

LoopAlive ==
  active_handles > 0 \/ pending_queue # {} \/ closing_handles # {}

\* uv__run_timers, first half: stop the due timers and make a list of them.
CollectTimers ==
  LET ready == late \cap active IN
  /\ todo' = ready
  /\ active' = active \ ready
  /\ active_handles' = active_handles - Counted(ready)
  /\ late' = late \ ready
  /\ due' = {}

\* The beginning of uv_run, up to its loop.
RunBegin(m) ==
  /\ pc = "out"
  /\ mode' = m
  /\ alive' = LoopAlive
  /\ IF LoopAlive /\ m = "default" /\ ~stop_flag
     THEN /\ pc' = "timers0"
          /\ CollectTimers
     ELSE /\ pc' = "top"
          /\ due' = IF LoopAlive THEN due ELSE late
          /\ UNCHANGED <<active, active_handles, late, todo>>
  /\ UNCHANGED <<hstate, ref, queuevars, stop_flag, can_sleep, timeout, rounds,
                 running, worked>>

\* A pass is over: its list is empty and no callback is running.
PassOver(p) == pc = p /\ todo = {} /\ running = None

FirstTimersEnd ==
  /\ PassOver("timers0")
  /\ pc' = "top"
  /\ UNCHANGED <<handlevars, queuevars, timevars, stop_flag, mode, alive,
                 can_sleep, timeout, rounds, todo, running, worked>>

\* The head of the loop, and uv__run_pending up to its first callback.
Iterate ==
  /\ pc = "top"
  /\ alive
  /\ ~stop_flag
  /\ can_sleep' = (pending_queue = {} /\ active \cap Idle = {})
  /\ pc' = "pending"
  /\ todo' = pending_queue
  /\ pending_queue' = {}
  /\ worked' = FALSE
  /\ alive' = FALSE
  /\ UNCHANGED <<handlevars, closing_handles, timevars, stop_flag, mode, timeout,
                 rounds, running>>

RunIdle ==
  /\ PassOver("pending")
  /\ pc' = "idle"
  /\ todo' = active \cap Idle
  /\ UNCHANGED <<handlevars, queuevars, timevars, stop_flag, mode, alive,
                 can_sleep, timeout, rounds, running, worked>>

RunPrepare ==
  /\ PassOver("idle")
  /\ pc' = "prepare"
  /\ todo' = active \cap Prepare
  /\ UNCHANGED <<handlevars, queuevars, timevars, stop_flag, mode, alive,
                 can_sleep, timeout, rounds, running, worked>>

\* Mutant: the timer heap is not looked at.
NextTimeoutForever == "forever"

uv__next_timeout ==
  IF active \cap Timer = {} THEN "forever"
  ELSE IF due \cap active # {} THEN "zero" ELSE "timer"

\* Mutants: a condition of uv__backend_timeout is dropped.
BackendTimeoutStopped ==
  IF /\ active_handles > 0 /\ pending_queue = {}
     /\ active \cap Idle = {} /\ closing_handles = {}
  THEN uv__next_timeout
  ELSE "zero"

BackendTimeoutClosing ==
  IF /\ ~stop_flag /\ active_handles > 0
     /\ pending_queue = {} /\ active \cap Idle = {}
  THEN uv__next_timeout
  ELSE "zero"

uv__backend_timeout ==
  IF /\ ~stop_flag
     /\ active_handles > 0
     /\ pending_queue = {}
     /\ active \cap Idle = {}
     /\ closing_handles = {}
  THEN uv__next_timeout
  ELSE "zero"

\* Mutant: can_sleep is ignored.
AlwaysAsksTimeout == mode \in {"once", "default"}

AsksTimeout == (mode = "once" /\ can_sleep) \/ mode = "default"

PollBegin ==
  /\ PassOver("prepare")
  /\ pc' = "poll"
  /\ timeout' = IF AsksTimeout THEN uv__backend_timeout ELSE "zero"
  /\ can_sleep' = FALSE
  /\ UNCHANGED <<handlevars, queuevars, timevars, stop_flag, mode, alive, rounds,
                 todo, running, worked>>

(***************************************************************************)
(* epoll_wait returns with the events of the watchers in E, or because the *)
(* timeout is over; loop->time is updated before any callback.             *)
(***************************************************************************)
PollReturn(E) ==
  /\ pc = "poll"
  /\ E = {} => timeout = "zero" \/ (timeout = "timer" /\ late # {})
  /\ pc' = "events"
  /\ todo' = E
  /\ due' = late
  /\ timeout' = "zero"
  /\ worked' = FALSE
  /\ UNCHANGED <<handlevars, queuevars, late, stop_flag, mode, alive, can_sleep,
                 rounds, running>>

PollEnd ==
  /\ PassOver("events")
  /\ pc' = "after"
  /\ UNCHANGED <<handlevars, queuevars, timevars, stop_flag, mode, alive,
                 can_sleep, timeout, rounds, todo, running, worked>>

\* Mutant: one round too many.
OneRoundMore == pending_queue # {} /\ rounds <= PendingRounds

MoreRounds == pending_queue # {} /\ rounds < PendingRounds

PendingRound ==
  /\ PassOver("after")
  /\ MoreRounds
  /\ rounds' = rounds + 1
  /\ todo' = pending_queue
  /\ pending_queue' = {}
  /\ UNCHANGED <<handlevars, closing_handles, timevars, stop_flag, pc, mode,
                 alive, can_sleep, timeout, running, worked>>

RunCheck ==
  /\ PassOver("after")
  /\ ~MoreRounds
  /\ pc' = "check"
  /\ todo' = active \cap Check
  /\ rounds' = 0
  /\ UNCHANGED <<handlevars, queuevars, timevars, stop_flag, mode, alive,
                 can_sleep, timeout, running, worked>>

\* Mutant: the list is walked and not taken over.
RunClosingKeeps ==
  /\ PassOver("check")
  /\ pc' = "closing"
  /\ todo' = closing_handles
  /\ UNCHANGED <<handlevars, queuevars, timevars, stop_flag, mode, alive,
                 can_sleep, timeout, rounds, running, worked>>

RunClosing ==
  /\ PassOver("check")
  /\ pc' = "closing"
  /\ todo' = closing_handles
  /\ closing_handles' = {}
  /\ UNCHANGED <<handlevars, pending_queue, timevars, stop_flag, mode, alive,
                 can_sleep, timeout, rounds, running, worked>>

RunTimers ==
  /\ PassOver("closing")
  /\ pc' = "timers"
  /\ CollectTimers
  /\ UNCHANGED <<hstate, ref, queuevars, stop_flag, mode, alive, can_sleep,
                 timeout, rounds, running, worked>>

\* The end of an iteration; only UV_RUN_DEFAULT goes round again.
IterationEnd ==
  /\ PassOver("timers")
  /\ alive' = LoopAlive
  /\ IF mode = "default"
     THEN pc' = "top" /\ UNCHANGED stop_flag
     ELSE pc' = "out" /\ stop_flag' = FALSE
  /\ UNCHANGED <<handlevars, queuevars, timevars, mode, can_sleep, timeout,
                 rounds, todo, running, worked>>

RunEnd ==
  /\ pc = "top"
  /\ ~alive \/ stop_flag
  /\ pc' = "out"
  /\ stop_flag' = FALSE
  /\ UNCHANGED <<handlevars, queuevars, timevars, mode, alive, can_sleep,
                 timeout, rounds, todo, running, worked>>

-----------------------------------------------------------------------------
(* Callbacks: the next entry of the current pass.                          *)

NextOfPass(h) ==
  /\ running = None
  /\ h \in todo
  /\ todo' = todo \ {h}
  /\ running' = h

\* Of a watcher or of an fd; the watcher is back on its list by then.
Callback(h) ==
  /\ pc \in {"pending", "idle", "prepare", "events", "after", "check"}
  /\ pc = "events" => h \in active
  /\ NextOfPass(h)
  /\ worked' = (worked \/ pc \in {"pending", "idle"})
  /\ UNCHANGED <<handlevars, queuevars, timevars, stop_flag, runvars>>

\* An fd that is not watched any more: uv__io_poll drops the event.
DropEvent(h) ==
  /\ pc = "events"
  /\ running = None
  /\ h \in todo \ active
  /\ todo' = todo \ {h}
  /\ UNCHANGED <<handlevars, queuevars, timevars, stop_flag, runvars, running,
                 worked>>

\* uv__finish_close
CloseCallback(h) ==
  /\ pc = "closing"
  /\ NextOfPass(h)
  /\ hstate' = [hstate EXCEPT ![h] = "closed"]
  /\ ref' = ref \ {h}
  /\ UNCHANGED <<active, active_handles, queuevars, timevars, stop_flag, runvars,
                 worked>>

\* uv__run_timers, second half; a repeating timer is armed again first.
TimerCallback(h, repeat) ==
  /\ pc \in {"timers0", "timers"}
  /\ NextOfPass(h)
  /\ active' = IF repeat THEN active \cup {h} ELSE active
  /\ active_handles' = IF repeat THEN active_handles + Counted({h})
                       ELSE active_handles
  /\ UNCHANGED <<hstate, ref, queuevars, timevars, stop_flag, runvars, worked>>

CallbackReturn ==
  /\ running # None
  /\ running' = None
  /\ UNCHANGED <<handlevars, queuevars, timevars, stop_flag, runvars, todo,
                 worked>>

-----------------------------------------------------------------------------
UserCall ==
  \/ \E h \in Handles : \/ InitHandle(h) \/ Start(h) \/ Stop(h) \/ Close(h)
                        \/ Ref(h) \/ Unref(h) \/ Feed(h)
  \/ \E h \in Timer, now \in BOOLEAN : TimerStart(h, now)
  \/ uv_stop

Phase ==
  \/ FirstTimersEnd \/ Iterate \/ RunIdle \/ RunPrepare \/ PollBegin
  \/ PollReturn({}) \/ PollEnd \/ PendingRound \/ RunCheck \/ RunClosing
  \/ RunTimers \/ IterationEnd \/ RunEnd

AnyCallback ==
  \/ \E h \in Handles : Callback(h) \/ DropEvent(h) \/ CloseCallback(h)
  \/ \E h \in Timer, repeat \in BOOLEAN : TimerCallback(h, repeat)

Next ==
  \/ UserCall
  \/ \E h \in Timer : Tick(h)
  \/ \E m \in {"default", "once", "nowait"} : RunBegin(m)
  \/ Phase
  \/ \E E \in SUBSET (active \cap Io) : PollReturn(E)
  \/ AnyCallback
  \/ CallbackReturn

Spec == Init /\ [][Next]_vars

(***************************************************************************)
(* Fairness.  uv_run goes on, callbacks return, a poll whose timeout is    *)
(* over returns and the clock goes on.  No fd has to become ready, and     *)
(* nobody has to call uv_run again once it has returned.                   *)
(***************************************************************************)
Fairness ==
  /\ WF_vars(Phase \/ AnyCallback)
  /\ WF_vars(CallbackReturn)
  /\ \A h \in Timer : WF_vars(Tick(h))

FairSpec == Spec /\ Fairness

-----------------------------------------------------------------------------
(* Properties.                                                             *)

\* Types of everything but the counter.
FieldTypes ==
  /\ hstate \in [Handles -> {"none", "open", "closing", "closed"}]
  /\ active \in SUBSET Handles
  /\ ref \in SUBSET Handles
  /\ closing_handles \in SUBSET Handles
  /\ pending_queue \in SUBSET Io
  /\ late \in SUBSET Timer /\ due \in SUBSET Timer
  /\ stop_flag \in BOOLEAN
  /\ pc \in {"out", "timers0", "top", "pending", "idle", "prepare", "poll",
             "events", "after", "check", "closing", "timers"}
  /\ mode \in {"default", "once", "nowait"}
  /\ alive \in BOOLEAN /\ can_sleep \in BOOLEAN
  /\ timeout \in {"zero", "timer", "forever"}
  /\ rounds \in 0 .. PendingRounds
  /\ todo \in SUBSET Handles
  /\ running \in Handles \cup {None}
  /\ worked \in BOOLEAN

(***************************************************************************)
(* Type invariant of the handles, the loop and the locals of uv_run; the   *)
(* counter, an unsigned in the code, never goes below zero.                *)
(***************************************************************************)
TypeOK == FieldTypes /\ active_handles \in Nat

(***************************************************************************)
(* loop->active_handles, which the code only ever adds to and subtracts    *)
(* from in macros guarded by three flags, is the number of handles that    *)
(* are active and referenced.  One missed or doubled step would make       *)
(* uv_run return too early or never.                                       *)
(***************************************************************************)
ActiveHandlesExact == active_handles = Cardinality(active \cap ref)

(***************************************************************************)
(* A handle waits for its close callback exactly while it is closing, and  *)
(* in one list only: the callback comes once, however often handles are    *)
(* closed inside close callbacks.                                          *)
(***************************************************************************)
ClosingListed ==
  LET waiting == IF pc = "closing" THEN todo ELSE {} IN
  /\ closing_handles \cap waiting = {}
  /\ closing_handles \cup waiting = {h \in Handles : hstate[h] = "closing"}

(***************************************************************************)
(* Nothing that was stopped or closed is called: whatever user code closes *)
(* during a pass over a list that was already taken over, only open        *)
(* handles get callbacks other than the close callback, and watchers only  *)
(* while they are active.                                                  *)
(***************************************************************************)
OnlyOpenHandlesAreCalled ==
  [][\A h \in Handles : running = None /\ running' = h /\ pc # "closing" =>
       /\ hstate[h] = "open"
       /\ h \in Idle \cup Prepare \cup Check => h \in active]_vars

(***************************************************************************)
(* UV_RUN_ONCE does not go to sleep in an iteration in which a pending or  *)
(* idle callback has run, even if the idle watcher was stopped meanwhile;  *)
(* UV_RUN_NOWAIT never sleeps; and no mode sleeps with an active idle      *)
(* watcher, a deferred callback or a close outstanding.                    *)
(***************************************************************************)
SleepsOnlyWhenIdle ==
  pc = "poll" /\ timeout # "zero" =>
    /\ mode # "nowait"
    /\ mode = "once" => ~worked
    /\ active \cap Idle = {} /\ pending_queue = {}
    /\ \A h \in Handles : hstate[h] # "closing"
    /\ active \cap ref # {}

\* Something is left to do, by the state of the handles and not by a counter.
SomethingLeft ==
  \/ active \cap ref # {}
  \/ pending_queue # {}
  \/ \E h \in Handles : hstate[h] = "closing"

(***************************************************************************)
(* In UV_RUN_DEFAULT mode, unless it was stopped, uv_run returns only when *)
(* no active and referenced handle, no deferred callback and no close is   *)
(* left, although uv__loop_alive looks at a counter and two lists only.    *)
(***************************************************************************)
ReturnsWhenDone ==
  [][pc = "top" /\ pc' = "out" /\ ~stop_flag => ~SomethingLeft]_vars

(***************************************************************************)
(* What docs/src/loop.rst says of uv_run in UV_RUN_DEFAULT mode: it        *)
(* returns non-zero if uv_stop was called and there are still active       *)
(* handles or requests, and zero in all other cases.  The code returns the *)
(* value taken before the timers of the first uv__run_timers are called.   *)
(***************************************************************************)
ReturnValueAsDocumented ==
  [][pc = "top" /\ pc' = "out" => alive = (stop_flag /\ SomethingLeft)]_vars

(***************************************************************************)
(* Liveness: a close callback comes while uv_run goes on, although streams *)
(* may defer callbacks again in each of them.                              *)
(***************************************************************************)
CloseIsReported ==
  \A h \in Handles : (hstate[h] = "closing" /\ pc # "out") ~>
                     (hstate[h] # "closing" \/ pc = "out")

(***************************************************************************)
(* Liveness: after uv_stop, called by a callback, uv_run returns.          *)
(***************************************************************************)
StopEndsRun == (stop_flag /\ pc # "out") ~> (pc = "out")

(***************************************************************************)
(* Liveness: a timer whose time has come is called, stopped or armed anew, *)
(* or uv_run returns; neither idle watchers nor deferred callbacks starve  *)
(* it, and a sleeping poll wakes up for it.                                *)
(***************************************************************************)
TimersFire ==
  \A h \in Timer : (h \in late /\ pc # "out") ~> (h \notin late \/ pc = "out")

(***************************************************************************)
(* Liveness of uv_run, the three above together.                           *)
(***************************************************************************)
RunMakesProgress == CloseIsReported /\ StopEndsRun /\ TimersFire
=============================================================================
