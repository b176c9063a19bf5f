------------------------------ MODULE WakeDemo ------------------------------
(***************************************************************************)
(* learning-code/009/demo.c: the main thread runs the default loop with    *)
(* one async handle; a second thread sleeps, calls uv_async_send and then  *)
(* uv_stop.  The handle behaves as module Wakeup says, which Async is      *)
(* shown to implement; of uv_run (src/unix/core.c) the model keeps the     *)
(* places where the flag stop_flag is read and the poll that blocks.       *)
(*                                                                         *)
(* uv_stop writes stop_flag without synchronisation.  The flag is an int   *)
(* in memory, and the calls of uv_run between two reads of it keep the     *)
(* compiler from caching it: each access is one atomic step here.          *)
(***************************************************************************)
CONSTANTS Async, Internal, None

VARIABLES
  hstate, asked, running, loop,  \* of module Wakeup
  stop_flag,                     \* loop->stop_flag
  main,                          \* where main is, within uv_run included
  timeout,                       \* of uv__io_poll: "zero" or "forever"
  wake                           \* where the second thread is

wakeupvars == <<hstate, asked, running, loop>>
vars == <<wakeupvars, stop_flag, main, timeout, wake>>

W == INSTANCE Wakeup WITH Handles <- {Async, Internal}, NoCallback <- {}

Init ==
  /\ W!Init
  /\ stop_flag = FALSE
  /\ main = "start"
  /\ timeout = "zero"
  /\ wake = "none"

-----------------------------------------------------------------------------
(* The second thread.                                                      *)

\* wake_entry up to the end of uv_async_send; sleep takes any time.
WakeSend ==
  /\ wake = "sleep"
  /\ W!Ask(Async)
  /\ wake' = "stop"
  /\ UNCHANGED <<stop_flag, main, timeout>>

\* uv_stop(uv_default_loop())
WakeStop ==
  /\ wake = "stop"
  /\ stop_flag' = TRUE
  /\ wake' = "done"
  /\ UNCHANGED <<wakeupvars, main, timeout>>

-----------------------------------------------------------------------------
(* The main thread.                                                        *)

InitAsync ==
  /\ main = "start"
  /\ W!Open(Async)
  /\ main' = "create"
  /\ UNCHANGED <<stop_flag, timeout, wake>>

CreateThread ==
  /\ main = "create"
  /\ wake' = "sleep"
  /\ main' = "top"
  /\ UNCHANGED <<wakeupvars, stop_flag, timeout>>

\* The head of the loop of uv_run; the async handle keeps it alive for good.
Iterate ==
  /\ main = "top"
  /\ ~stop_flag
  /\ main' = "iterate"
  /\ UNCHANGED <<wakeupvars, stop_flag, timeout, wake>>

\* uv__backend_timeout, the second read of stop_flag; no timer is armed.
PollBegin ==
  /\ main = "iterate"
  /\ timeout' = IF stop_flag THEN "zero" ELSE "forever"
  /\ main' = "poll"
  /\ UNCHANGED <<wakeupvars, stop_flag, wake>>

\* epoll_wait returns; the wakeup fd is readable while a request stands.
PollReturn ==
  /\ main = "poll"
  /\ timeout = "zero" \/ asked # {}
  /\ timeout' = "zero"
  /\ main' = IF asked # {} THEN "events" ELSE "top"
  /\ UNCHANGED <<wakeupvars, stop_flag, wake>>

\* uv__async_io calls my_async_cb.
CallAsync ==
  /\ main = "events"
  /\ W!Answer(Async)
  /\ main' = "callback"
  /\ UNCHANGED <<stop_flag, timeout, wake>>

\* my_async_cb returns and the iteration ends; nothing else is active.
AsyncReturns ==
  /\ main = "callback"
  /\ W!CallbackReturn
  /\ main' = "top"
  /\ UNCHANGED <<stop_flag, timeout, wake>>

\* uv_run returns.
RunEnd ==
  /\ main = "top"
  /\ stop_flag
  /\ stop_flag' = FALSE
  /\ main' = "join"
  /\ UNCHANGED <<wakeupvars, timeout, wake>>

Join ==
  /\ main = "join"
  /\ wake = "done"
  /\ main' = "done"
  /\ UNCHANGED <<wakeupvars, stop_flag, timeout, wake>>

-----------------------------------------------------------------------------
WakeThread == WakeSend \/ WakeStop

MainThread ==
  \/ InitAsync \/ CreateThread \/ Iterate \/ PollBegin \/ PollReturn
  \/ CallAsync \/ AsyncReturns \/ RunEnd \/ Join

Next == WakeThread \/ MainThread

\* Both threads are scheduled for ever.
Spec == Init /\ [][Next]_vars /\ WF_vars(WakeThread) /\ WF_vars(MainThread)

(***************************************************************************)
(* The second thread stops the loop and main joins it: the program ends.   *)
(* docs/src/loop.rst says uv_stop causes uv_run to end as soon as          *)
(* possible; it does not wake a loop that blocks already.                  *)
(***************************************************************************)
StopEndsProgram == <>(main = "done")
=============================================================================
