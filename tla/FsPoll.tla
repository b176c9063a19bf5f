------------------------------- MODULE FsPoll -------------------------------
(***************************************************************************)
(* uv_fs_poll_t (src/fs-poll.c): one handle that watches a path by asking  *)
(* the thread pool for its stat again and again.  Every uv_fs_poll_start   *)
(* makes a context with a timer and a request of its own, and a stop only  *)
(* marks the handle: the context is given back when its stat and its timer *)
(* are done with, so several of them may hang on one handle, the youngest  *)
(* first.  poll_cb asks the handle, not its context, whether it is active. *)
(*                                                                         *)
(* A stat answers with an error (below 0) or with what statbuf_eq compares,*)
(* which is a number above 0 here.                                         *)
(***************************************************************************)
EXTENDS Integers, Sequences, SequencesExt, FiniteSets

CONSTANTS
  Answers,      \* what stat may say of the path
  Intervals,    \* the intervals that are asked for
  Delays,       \* how long a stat may take
  MaxUse        \* bound on the starts and the changes of the path together

VARIABLE fp
vars == <<fp>>

Ctx == 1..MaxUse
Nothing == 0      \* no answer yet; as a statbuf: all zeros

NewContext(interval) ==
  [stat |-> "queued", result |-> Nothing, timer |-> "idle", busy_polling |-> 0,
   statbuf |-> Nothing, interval |-> interval, wait |-> interval,
   before |-> Nothing, good |-> Nothing]
NoContext == [NewContext(1) EXCEPT !.stat = "none"]

\* chain is handle->poll_ctx and the previous pointers that follow it;
\* handle_queue are the timers that the loop knows; said is what the last
\* poll_cb did with its answer.  early: a start found an older context
\* that still waited for its stat.
Init ==
  \E first \in Answers :
  fp = [active |-> FALSE, close |-> "no", chain |-> <<>>, starts |-> 0,
        ctx |-> [c \in Ctx |-> NoContext], handle_queue |-> {},
        file |-> first, changes |-> 0,
        pc |-> "idle", cur |-> 0, said |-> <<>>,
        early |-> FALSE, dangling |-> FALSE, aborted |-> FALSE]

Live(s) == ToSet(s.chain)
Quiet == fp.pc = "idle" /\ ~fp.aborted
User == fp.pc \in {"idle", "callback"} /\ ~fp.aborted
More == fp.starts + fp.changes < MaxUse
Busy(s) == {c \in Live(s) : s.ctx[c].stat # "none"} \cup (IF s.pc = "callback" THEN {s.cur} ELSE {})

-----------------------------------------------------------------------------
(* The user's calls, from anywhere or from the callback.                   *)

\* interval ? interval : 1
Interval(i) == IF i = 0 THEN 1 ELSE i

Started(s, i) ==
  LET c == s.starts + 1
  IN [s EXCEPT !.starts = c, !.ctx[c] = NewContext(Interval(i)),
               !.handle_queue = @ \cup {c}, !.chain = <<c>> \o @,
               !.active = TRUE, !.early = @ \/ Busy(s) # {}]

uv_fs_poll_start(i) ==
  /\ User /\ ~fp.active /\ fp.close = "no" /\ More
  /\ fp' = Started(fp, i)

\* uv_fs_stat finds no memory: the context is freed, and its timer is not
\* taken out of the loop's handle_queue.
StartFails ==
  /\ User /\ ~fp.active /\ fp.close = "no" /\ More
  /\ fp' = [fp EXCEPT !.starts = @ + 1, !.handle_queue = @ \cup {fp.starts + 1},
                      !.dangling = TRUE]

CloseTimer(s, c) == [s EXCEPT !.ctx[c].timer = "closing"]

\* mutant: the timer of a context that still waits for its stat is closed too
StoppedAlways(s) ==
  IF ~s.active THEN s
  ELSE [CloseTimer(s, Head(s.chain)) EXCEPT !.active = FALSE]

Stopped(s) ==
  IF ~s.active THEN s
  ELSE LET c == Head(s.chain)
           t == IF s.ctx[c].timer = "active" THEN CloseTimer(s, c) ELSE s
       IN [t EXCEPT !.active = FALSE]

uv_fs_poll_stop ==
  /\ User /\ fp.active
  /\ fp' = Stopped(fp)

\* mutant: the close does not wait for the contexts
ClosedAtOnce(s) == [Stopped(s) EXCEPT !.close = "pending"]

Closed(s) ==
  LET t == Stopped(s)
  IN [t EXCEPT !.close = IF t.chain = <<>> THEN "pending" ELSE "closing"]

uv__fs_poll_close ==
  /\ User /\ fp.close = "no"
  /\ fp' = Closed(fp)

-----------------------------------------------------------------------------
(* The thread pool, the loop and the file.                                 *)

Change ==
  /\ More /\ ~fp.aborted
  /\ \E a \in Answers \ {fp.file} : fp' = [fp EXCEPT !.file = a, !.changes = @ + 1]

Stat(c) ==
  /\ fp.ctx[c].stat = "queued" /\ ~fp.aborted
  /\ fp' = [fp EXCEPT !.ctx[c].stat = "done", !.ctx[c].result = fp.file]

Goes(s) == s.active /\ s.close = "no"

\* mutant: the delay is not reduced first
RestOfAll(interval, delay) == interval - delay

\* "interval -= (uv_now(ctx->loop) - ctx->start_time) % interval"
Rest(interval, delay) == interval - (delay % interval)

\* poll_cb from its label out on.
Out(s, c, delay) ==
  LET t == [s EXCEPT !.pc = "idle", !.cur = 0]
  IN IF ~Goes(t) THEN CloseTimer(t, c)
     ELSE [t EXCEPT !.ctx[c].timer = "active",
                    !.ctx[c].wait = Rest(t.ctx[c].interval, delay)]

\* mutant: that the path is back after an error is not told
TellsChangesOnly(x, r) ==
  \/ r < 0 /\ x.busy_polling # r
  \/ r > 0 /\ x.busy_polling > 0 /\ x.statbuf # r

\* Whether the answer r is told to the user.
Tells(x, r) ==
  \/ r < 0 /\ x.busy_polling # r
  \/ r > 0 /\ x.busy_polling < 0
  \/ r > 0 /\ x.busy_polling > 0 /\ x.statbuf # r

Remembers(x, r) ==
  [x EXCEPT !.busy_polling = IF r < 0 THEN r ELSE 1,
            !.statbuf = IF r < 0 THEN @ ELSE r]

\* The answer is looked at; before and good are what the user can know of.
\* (The code assigns statbuf and busy_polling after the callback, which can
\* neither read nor write them.)
Looked(s, c) ==
  LET x == s.ctx[c]
      r == x.result
      y == Remembers([x EXCEPT !.stat = "none", !.before = r,
                                !.good = IF r < 0 THEN @ ELSE r], r)
  IN [s EXCEPT !.ctx[c] = y, !.cur = c,
               !.said = <<Tells(x, r), x.before, r, x.statbuf = x.good>>,
               !.pc = IF Tells(x, r) THEN "callback" ELSE "out"]

Skipped(s, c) == [s EXCEPT !.ctx[c].stat = "none", !.cur = c, !.pc = "out"]

poll_cb(c) ==
  /\ Quiet /\ fp.ctx[c].stat = "done"
  /\ LET t == IF Goes(fp) THEN Looked(fp, c) ELSE Skipped(fp, c)
     IN IF t.pc = "callback" THEN fp' = t
        ELSE \E d \in Delays : fp' = Out(t, c, d)

CallbackReturns ==
  /\ fp.pc = "callback"
  /\ \E d \in Delays : fp' = Out(fp, fp.cur, d)

\* "assert(ctx->parent_handle->poll_ctx == ctx)"
timer_cb(c) ==
  /\ Quiet /\ fp.ctx[c].timer = "active"
  /\ fp' = IF Head(fp.chain) # c THEN [fp EXCEPT !.aborted = TRUE]
           ELSE [fp EXCEPT !.ctx[c].timer = "idle", !.ctx[c].stat = "queued"]

\* mutant: the youngest context is taken for the one that is done
UnlinkedFirst(chain, c) == Tail(chain)

Unlinked(chain, c) == SelectSeq(chain, LAMBDA x : x # c)

timer_close_cb(c) ==
  /\ Quiet /\ fp.ctx[c].timer = "closing"
  /\ LET rest == Unlinked(fp.chain, c)
         last == c = Head(fp.chain) /\ rest = <<>> /\ fp.close = "closing"
     IN fp' = [fp EXCEPT !.chain = rest, !.ctx[c] = NoContext,
                         !.handle_queue = @ \ {c},
                         !.close = IF last THEN "pending" ELSE @]

\* uv__finish_close calls the user's close callback.
FinishClose ==
  /\ Quiet /\ fp.close = "pending"
  /\ fp' = [fp EXCEPT !.close = "closed"]

Next ==
  \/ \E i \in Intervals : uv_fs_poll_start(i)
  \/ StartFails \/ uv_fs_poll_stop \/ uv__fs_poll_close
  \/ Change \/ CallbackReturns \/ FinishClose
  \/ \E c \in Ctx : Stat(c) \/ poll_cb(c) \/ timer_cb(c) \/ timer_close_cb(c)

Spec == Init /\ [][Next]_vars

-----------------------------------------------------------------------------
(* Properties.                                                             *)

TypeOK ==
  /\ fp.active \in BOOLEAN /\ fp.close \in {"no", "closing", "pending", "closed"}
  /\ Live(fp) \subseteq Ctx /\ fp.pc \in {"idle", "callback"}
  /\ \A c \in Ctx : /\ fp.ctx[c].stat \in {"none", "queued", "done"}
                    /\ fp.ctx[c].timer \in {"idle", "active", "closing"}

(***************************************************************************)
(* timer_close_cb frees a context, which holds the request and the timer:  *)
(* every context on the chain waits for exactly one thing (its stat, its   *)
(* timer, its timer's close or the user's callback), so none is freed      *)
(* under a request and none is forgotten; a context that is not on the     *)
(* chain waits for nothing and its timer is out of the loop.               *)
(***************************************************************************)
ContextWaitsForOneThing ==
  /\ \A c \in Ctx :
       Cardinality({w \in {<<"stat", fp.ctx[c].stat # "none">>,
                           <<"timer", fp.ctx[c].timer # "idle">>,
                           <<"callback", fp.pc = "callback" /\ fp.cur = c>>} : w[2]})
         = IF c \in Live(fp) THEN 1 ELSE 0
  /\ IsInjective(fp.chain)
  /\ fp.handle_queue = Live(fp) \/ fp.dangling

(***************************************************************************)
(* uv_close: the user's close callback, after which the handle may be      *)
(* freed, comes after every context is gone, and a close that waits still  *)
(* has a context to wait for.                                              *)
(***************************************************************************)
CloseWaitsForContexts ==
  /\ fp.close \in {"pending", "closed"} => fp.chain = <<>> /\ ~fp.active
  /\ fp.close = "closing" => fp.chain # <<>>

(***************************************************************************)
(* poll_cb: the user is told of an answer exactly when it differs from the *)
(* one before, except that a first answer is told only when it is an       *)
(* error; what is handed out as the state before is the last good one.     *)
(***************************************************************************)
ReportsEveryChange ==
  fp.said # <<>> =>
    /\ fp.said[1] <=> /\ fp.said[2] # fp.said[3]
                      /\ ~(fp.said[2] = Nothing /\ fp.said[3] > 0)
    /\ fp.said[4]

(***************************************************************************)
(* uv_fs_poll_start after uv_fs_poll_stop: the user's callback is never    *)
(* called for a context that was stopped, and while the handle is started  *)
(* its own context is under way.  (Not when the start found an older       *)
(* context that waited for its stat: see TimerIsCurrent.)                  *)
(***************************************************************************)
StoppedWatchIsSilent ==
  ~fp.early =>
    /\ fp.pc = "callback" /\ fp.active => fp.cur = Head(fp.chain)
    /\ \A c \in Live(fp) :
         fp.ctx[c].timer = "active" \/ (fp.ctx[c].stat = "queued" /\ fp.active)
           => c = Head(fp.chain)
    /\ fp.active => fp.ctx[Head(fp.chain)].timer # "closing"

(***************************************************************************)
(* poll_cb: the next stat is due after at least 1 and at most interval     *)
(* milliseconds, however long the last one took.                           *)
(***************************************************************************)
NextStatIsDue ==
  \A c \in Ctx : fp.ctx[c].timer = "active" =>
    fp.ctx[c].wait \in 1..fp.ctx[c].interval

(***************************************************************************)
(* timer_cb: "assert(ctx->parent_handle->poll_ctx == ctx)".  Refuted: a    *)
(* handle that is stopped while its stat is under way and started again is *)
(* active when the old answer comes, so the old context goes on.           *)
(***************************************************************************)
TimerIsCurrent == ~fp.aborted
=============================================================================
