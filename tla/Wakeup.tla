------------------------------- MODULE Wakeup -------------------------------
(***************************************************************************)
(* What uv_async_t promises its users, without the flags and the file      *)
(* descriptor by which src/unix/async.c keeps the promise:                 *)
(*   - asking a handle again before its callback runs changes nothing;     *)
(*   - a callback runs only for a handle that was asked, and uses up the   *)
(*     request at the moment it begins, so that a request made during the  *)
(*     callback leads to another one;                                      *)
(*   - once uv_close was called no callback of the handle begins.          *)
(* That a request is answered at all is the liveness property              *)
(* SendIsDelivered of module Async.                                        *)
(***************************************************************************)
CONSTANTS Handles, Internal, NoCallback, None

VARIABLES
  hstate,   \* "unused", "active", "closing" or "closed"
  asked,    \* the handles that have a standing request
  running,  \* the handle whose callback is running
  loop      \* "up", or "down" once the loop is being taken down

vars == <<hstate, asked, running, loop>>

Init ==
  /\ hstate = [h \in Handles |-> IF h = Internal THEN "active" ELSE "unused"]
  /\ asked = {}
  /\ running = None
  /\ loop = "up"

Ask(h) ==
  /\ hstate[h] = "active"
  /\ loop = "up"
  /\ asked' = asked \cup {h}
  /\ UNCHANGED <<hstate, running, loop>>

\* The request is used up; a handle without async_cb only forgets it.
Answer(h) ==
  /\ running = None
  /\ loop = "up"
  /\ hstate[h] = "active"
  /\ h \in asked
  /\ asked' = asked \ {h}
  /\ running' = IF h \in NoCallback THEN None ELSE h
  /\ UNCHANGED <<hstate, loop>>

CallbackReturn ==
  /\ running # None
  /\ running' = None
  /\ UNCHANGED <<hstate, asked, loop>>

Open(h) ==
  /\ loop = "up"
  /\ hstate[h] \in {"unused", "closed"}
  /\ hstate' = [hstate EXCEPT ![h] = "active"]
  /\ UNCHANGED <<asked, running, loop>>

\* A close forgets the request.
Close(h) ==
  /\ loop = "up"
  /\ h # Internal
  /\ hstate[h] = "active"
  /\ hstate' = [hstate EXCEPT ![h] = "closing"]
  /\ asked' = asked \ {h}
  /\ UNCHANGED <<running, loop>>

Closed(h) ==
  /\ running = None
  /\ hstate[h] = "closing"
  /\ hstate' = [hstate EXCEPT ![h] = "closed"]
  /\ UNCHANGED <<asked, running, loop>>

\* The loop is taken down: no user handle is left, requests are dropped.
TakeDown ==
  /\ loop = "up"
  /\ running = None
  /\ \A h \in Handles \ {Internal} : hstate[h] \in {"unused", "closed"}
  /\ loop' = "down"
  /\ asked' = {}
  /\ UNCHANGED <<hstate, running>>

Next ==
  \/ \E h \in Handles : Ask(h) \/ Answer(h) \/ Open(h) \/ Close(h) \/ Closed(h)
  \/ CallbackReturn
  \/ TakeDown

Spec == Init /\ [][Next]_vars
=============================================================================
