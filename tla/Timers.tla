------------------------------ MODULE Timers --------------------------------
(***************************************************************************)
(* The timers of a libuv loop (src/timer.c) with their times: the clamping *)
(* of a timeout that overflows, the order in which due timers are called,  *)
(* callbacks that start, stop, repeat and close timers while uv__run_timers*)
(* works through its list, and the timeout it computes for the poll.       *)
(* Module EventLoop places these operations in the loop.                   *)
(*                                                                         *)
(* Times are unsigned integers up to MaxTime, UINT64_MAX in the code.      *)
(***************************************************************************)
EXTENDS Naturals, Sequences, SequencesExt, TLC

CONSTANTS
  Timer,      \* the timer handles
  Timeouts,   \* the timeouts that are used
  Repeats,    \* the repeat values that are used
  MaxTime,    \* the largest value of a time
  IntMax,     \* the largest timeout of a poll, INT_MAX
  MaxStarts   \* bound: timers started

VARIABLES
  time,                        \* loop->time
  timeout, repeat, start_id,   \* of each timer
  known,                       \* timers whose timer_cb is set
  closing,
  theap,                       \* the timer heap
  counter,                     \* timer_counter
  ready,                       \* ready_queue of uv__run_timers
  pc,                          \* "loop" or "run", where callbacks are called
  deadline,                    \* history: the exact time each is due
  ran                          \* history: called in this uv__run_timers

LOCAL H == INSTANCE TimerHeap WITH Keys <- {}, heap <- <<>>

fields == <<timeout, repeat, start_id, known, deadline>>
vars == <<time, fields, closing, theap, counter, ready, pc, ran>>

Init ==
  /\ time = 0 /\ counter = 0
  /\ timeout = [t \in Timer |-> 0] /\ repeat = [t \in Timer |-> 0]
  /\ start_id = [t \in Timer |-> 0] /\ deadline = [t \in Timer |-> 0]
  /\ known = {} /\ closing = {} /\ theap = <<>> /\ ready = <<>>
  /\ pc = "loop" /\ ran = {}

Active == ToSet(theap)

\* Mutant: of two timers with the same time the later one comes first.
LessLaterFirst(to, id) ==
  {<<a, b>> \in Timer \X Timer :
     to[a] < to[b] \/ (to[a] = to[b] /\ id[a] > id[b])}

timer_less_than(to, id) ==
  {<<a, b>> \in Timer \X Timer :
     to[a] < to[b] \/ (to[a] = to[b] /\ id[a] < id[b])}

Less == timer_less_than(timeout, start_id)

\* uv_timer_stop: out of the heap, or out of the list of due timers.
HeapWithout(t) == IF t \in Active THEN H!heap_remove(theap, t, Less) ELSE theap
ReadyWithout(t) == SelectSeq(ready, LAMBDA u : u # t)

\* Mutant: the sum wraps.
ClampWraps(after) == (time + after) % (MaxTime + 1)

\* The sum is computed modulo 2^64; a sum less than its part has wrapped.
Clamp(after) ==
  LET sum == (time + after) % (MaxTime + 1) IN
  IF sum < after THEN MaxTime ELSE sum

\* The assignments of uv_timer_start, after stopping; r is the repeat value.
Arm(t, after, r) ==
  LET to == [timeout EXCEPT ![t] = Clamp(after)]
      id == [start_id EXCEPT ![t] = counter]
  IN /\ timeout' = to
     /\ start_id' = id
     /\ repeat' = [repeat EXCEPT ![t] = r]
     /\ deadline' = [deadline EXCEPT ![t] = time + after]
     /\ known' = known \cup {t}
     /\ counter' = counter + 1
     /\ theap' = H!heap_insert(HeapWithout(t), t, timer_less_than(to, id))

-----------------------------------------------------------------------------
(* The API, callable between the steps of the loop and in callbacks.       *)

\* Mutant: a timer that waits to be called stays on the list.
TimerStartKeepsReady(t, after, r) ==
  /\ t \notin closing /\ counter < MaxStarts
  /\ Arm(t, after, r)
  /\ UNCHANGED <<time, closing, ready, pc, ran>>

uv_timer_start(t, after, r) ==
  /\ t \notin closing /\ counter < MaxStarts
  /\ Arm(t, after, r)
  /\ ready' = ReadyWithout(t)
  /\ UNCHANGED <<time, closing, pc, ran>>

uv_timer_stop(t) ==
  /\ t \in Active \cup ToSet(ready)
  /\ theap' = HeapWithout(t)
  /\ ready' = ReadyWithout(t)
  /\ UNCHANGED <<time, fields, closing, counter, pc, ran>>

uv_timer_again(t) ==
  /\ t \in known /\ repeat[t] > 0
  /\ t \notin closing /\ counter < MaxStarts
  /\ Arm(t, repeat[t], repeat[t])
  /\ ready' = ReadyWithout(t)
  /\ UNCHANGED <<time, closing, pc, ran>>

uv_timer_set_repeat(t, r) ==
  /\ repeat' = [repeat EXCEPT ![t] = r]
  /\ UNCHANGED <<time, timeout, start_id, known, deadline, closing, theap,
                 counter, ready, pc, ran>>

\* uv_close of a timer.
uv__timer_close(t) ==
  /\ t \notin closing
  /\ closing' = closing \cup {t}
  /\ theap' = HeapWithout(t)
  /\ ready' = ReadyWithout(t)
  /\ UNCHANGED <<time, fields, counter, pc, ran>>

\* uv_update_time, by the loop or in a callback.
uv_update_time ==
  /\ time < MaxTime
  /\ time' \in time + 1 .. MaxTime
  /\ UNCHANGED <<fields, closing, theap, counter, ready, pc, ran>>

-----------------------------------------------------------------------------
(* The loop.                                                               *)

\* Mutant: the timeout is cut to the width of an int, not clamped.
PollTimeoutCut(wait) == wait % (IntMax + 1)

PollTimeout(wait) == IF wait > IntMax THEN IntMax ELSE wait

uv__next_timeout ==
  IF timeout[Head(theap)] <= time THEN 0
  ELSE PollTimeout(timeout[Head(theap)] - time)

Due == {t \in Active : timeout[t] <= time}

\* First half of uv__run_timers: the due timers leave the heap one by one.
RECURSIVE Collect(_, _)
Collect(h, list) ==
  IF h = <<>> \/ timeout[Head(h)] > time THEN <<h, list>>
  ELSE Collect(H!heap_remove(h, Head(h), Less), Append(list, Head(h)))

RunTimers ==
  /\ pc = "loop" /\ Due # {}
  /\ theap' = Collect(theap, <<>>)[1]
  /\ ready' = Collect(theap, <<>>)[2]
  /\ ran' = {}
  /\ pc' = "run"
  /\ UNCHANGED <<time, fields, closing, counter>>

\* Mutant: the timer leaves the list only after its callback.
CallTimerFirst ==
  /\ pc = "run" /\ ready # <<>> /\ Head(ready) \notin ran
  /\ LET t == Head(ready) IN
     /\ ran' = ran \cup {t}
     /\ IF repeat[t] > 0
        THEN counter < MaxStarts /\ Arm(t, repeat[t], repeat[t])
        ELSE UNCHANGED <<fields, theap, counter>>
  /\ UNCHANGED <<time, closing, pc, ready>>

\* Second half: the next of them is armed again if it repeats, and called.
CallTimer ==
  /\ pc = "run" /\ ready # <<>>
  /\ LET t == Head(ready) IN
     /\ ran' = ran \cup {t}
     /\ IF repeat[t] > 0
        THEN counter < MaxStarts /\ Arm(t, repeat[t], repeat[t])
        ELSE UNCHANGED <<fields, theap, counter>>
  /\ ready' = Tail(ready)
  /\ UNCHANGED <<time, closing, pc>>

RunEnd ==
  /\ pc = "run" /\ ready = <<>>
  /\ pc' = "loop"
  /\ ran' = {}
  /\ UNCHANGED <<time, fields, closing, theap, counter, ready>>

Next ==
  \/ \E t \in Timer :
       \/ \E after \in Timeouts, r \in Repeats : uv_timer_start(t, after, r)
       \/ uv_timer_stop(t) \/ uv_timer_again(t) \/ uv__timer_close(t)
       \/ \E r \in Repeats : uv_timer_set_repeat(t, r)
  \/ uv_update_time
  \/ RunTimers \/ CallTimer \/ RunEnd

Spec == Init /\ [][Next]_vars

-----------------------------------------------------------------------------
(* Properties.                                                             *)

Called(t) == ready # <<>> /\ t = Head(ready) /\ t \in ran' /\ t \notin ran

(***************************************************************************)
(* Type invariant: the heap holds each timer once, is ordered, and a timer *)
(* is in the heap or on the list, never on both, never when it is closed.  *)
(***************************************************************************)
TypeOK ==
  /\ {time} \cup {timeout[t] : t \in Timer} \subseteq 0 .. MaxTime
  /\ IsInjective(theap \o ready)
  /\ ToSet(theap) \cup ToSet(ready) \subseteq known \ closing
  /\ H!IsHeap(theap, Less)
  /\ ready # <<>> => pc = "run"

(***************************************************************************)
(* No timer is called before its time, also when loop->time + timeout does *)
(* not fit into 64 bits.                                                   *)
(***************************************************************************)
NeverEarly ==
  [][\A t \in Timer : Called(t) => time >= deadline[t] \/ time = MaxTime]_vars

(***************************************************************************)
(* Due timers are called by time, and among those of the same time in the  *)
(* order in which they were started, whatever earlier callbacks changed.   *)
(***************************************************************************)
CalledInOrder ==
  \A i, j \in 1 .. Len(ready) : i < j =>
    \/ timeout[ready[i]] < timeout[ready[j]]
    \/ /\ timeout[ready[i]] = timeout[ready[j]]
       /\ start_id[ready[i]] < start_id[ready[j]]

(***************************************************************************)
(* uv__run_timers calls a timer once: timers that callbacks start for now  *)
(* wait for the next round, so that the loop gets on.                      *)
(***************************************************************************)
OncePerRound == ran \cap ToSet(ready) = {}

(***************************************************************************)
(* The poll does not sleep past the first timer, nor longer than an int    *)
(* can say, and it does not spin when there is time left.                  *)
(***************************************************************************)
PollWakesInTime ==
  theap # <<>> =>
    /\ uv__next_timeout \in 0 .. IntMax
    /\ uv__next_timeout = 0 <=> Due # {}
    /\ \A t \in Active : timeout[t] > time => time + uv__next_timeout <= timeout[t]
=============================================================================
