------------------------------ MODULE WinLoop -------------------------------
(***************************************************************************)
(* The event loop of libuv on Windows: uv_run over an I/O completion port  *)
(* (src/win/core.c), the queue of completed requests (req-inl.h), handles  *)
(* and their endgames (handle-inl.h, handle.c), the lists of idle, prepare *)
(* and check handles (loop-watcher.c) and async handles (async.c), to      *)
(* which other threads send.  Timers are in module Timers; here their      *)
(* callbacks are user code that may run when uv__run_timers does.          *)
(***************************************************************************)
EXTENDS Integers, Sequences, FiniteSets, SequencesExt

CONSTANTS
  Idle, Prepare, Check,   \* loop watchers
  Async,                  \* async handles
  Batch,                  \* 128, entries that one poll dequeues
  Rounds,                 \* 8, rounds of uv__process_reqs after the poll
  MaxUse                  \* bound: calls of user code and of senders

Watcher == Idle \cup Prepare \cup Check
Handle == Watcher \cup Async
None == "none"
Wake == "wake"    \* the empty package of uv__wake_all_loops

VARIABLES
  list, next,      \* loop->idle_handles and loop->next_idle_handle, by kind
  active, refd, closing, closed,   \* sets of handles: the flags
  active_handles,
  async_sent,      \* set of async handles
  posting,         \* a sender has set async_sent and not posted yet
  iocp,            \* packages in the completion port
  pending, reqs,   \* pending_reqs_tail, and what uv__process_reqs took of it
  endgame,         \* endgame_handles, the latest first
  mode, stop_flag, can_sleep, timeout, r,   \* of uv_run
  uses,
  pc, after        \* where uv_run is, and where it goes after a callback

flags == <<active, refd, closing, closed, active_handles>>
lists == <<list, next>>
port == <<async_sent, posting, iocp>>
queues == <<pending, reqs, endgame>>
run == <<mode, stop_flag, can_sleep, timeout, r>>
vars == <<lists, flags, port, queues, run, uses, pc, after>>

Kinds == {"idle", "prepare", "check"}
kind(h) == IF h \in Idle THEN "idle" ELSE IF h \in Prepare THEN "prepare" ELSE "check"

Init ==
  /\ list = [k \in Kinds |-> <<>>] /\ next = [k \in Kinds |-> None]
  /\ active = Async /\ refd = Handle /\ closing = {} /\ closed = {}
  /\ active_handles = Cardinality(Async)
  /\ async_sent = {} /\ posting = {} /\ iocp = <<>>
  /\ pending = <<>> /\ reqs = <<>> /\ endgame = <<>>
  /\ mode = "default" /\ stop_flag = FALSE /\ can_sleep = FALSE
  /\ timeout = "zero" /\ r = 0
  /\ uses = 0 /\ pc = "user" /\ after = "user"

-----------------------------------------------------------------------------
(* Senders: uv_async_send is an exchange and a post; the loop may run in   *)
(* between.  uv__wake_all_loops posts an empty package.                    *)

Use == uses < MaxUse /\ uses' = uses + 1

Send(a) ==
  /\ Use /\ a \notin closing
  /\ posting' = IF a \in async_sent THEN posting ELSE posting \cup {a}
  /\ async_sent' = async_sent \cup {a}
  /\ UNCHANGED <<lists, flags, iocp, queues, run, pc, after>>

Post(a) ==
  /\ a \in posting
  /\ posting' = posting \ {a}
  /\ iocp' = Append(iocp, a)
  /\ UNCHANGED <<lists, flags, async_sent, queues, run, uses, pc, after>>

WakeAllLoops ==
  /\ Use
  /\ iocp' = Append(iocp, Wake)
  /\ UNCHANGED <<lists, flags, async_sent, posting, queues, run, pc, after>>

-----------------------------------------------------------------------------
(* User code, outside uv_run or in a callback.                             *)

User == pc \in {"user", "cb"} /\ Use

\* The link that follows h in its list.
Following(h) ==
  LET s == list[kind(h)]
      k == CHOOSE k \in DOMAIN s : s[k] = h
  IN IF k < Len(s) THEN s[k + 1] ELSE None

Start(h) ==
  /\ User /\ h \notin active \cup closing
  /\ list' = [list EXCEPT ![kind(h)] = <<h>> \o @]
  /\ active' = active \cup {h}
  /\ active_handles' = IF h \in refd THEN active_handles + 1 ELSE active_handles
  /\ UNCHANGED <<next, refd, closing, closed, port, queues, run, pc, after>>

\* Mutant: the iterator keeps pointing at a handle that left the list.
NextAfterStopSame(h) == next

NextAfterStop(h) == IF next[kind(h)] = h THEN [next EXCEPT ![kind(h)] = Following(h)] ELSE next

\* uv_idle_stop and its like on an active handle.
Unlinked(h) ==
  /\ list' = [list EXCEPT ![kind(h)] = SelectSeq(@, LAMBDA g : g # h)]
  /\ next' = NextAfterStop(h)

Stop(h) ==
  /\ User /\ h \in active
  /\ Unlinked(h)
  /\ active' = active \ {h}
  /\ active_handles' = IF h \in refd THEN active_handles - 1 ELSE active_handles
  /\ UNCHANGED <<refd, closing, closed, port, queues, run, pc, after>>

\* uv__want_endgame.
WantEndgame(h) == endgame' = IF Contains(endgame, h) THEN endgame ELSE <<h>> \o endgame

\* uv_close of a watcher: stop, uv__handle_closing, uv__want_endgame.
CloseWatcher(h) ==
  LET stopped == IF h \in active /\ h \in refd THEN active_handles - 1 ELSE active_handles IN
  /\ User /\ h \notin closing
  /\ IF h \in active THEN Unlinked(h) ELSE UNCHANGED lists
  /\ active' = active \ {h}
  /\ active_handles' = stopped + 1
  /\ closing' = closing \cup {h}
  /\ WantEndgame(h)
  /\ UNCHANGED <<refd, closed, port, pending, reqs, run, pc, after>>

\* Mutant: the endgame does not wait for the package under way.
MayEndNow(a) == TRUE

MayEnd(a) == a \notin async_sent

\* Mutant: an active handle is counted once more.
ClosingCountMore(h) == active_handles + 1

\* uv__handle_closing: a closing handle counts, as an active one does.
ClosingCount(h) == IF h \in active /\ h \in refd THEN active_handles ELSE active_handles + 1

\* uv__async_close.  Users do not close a handle that others still send to.
CloseAsync(a) ==
  /\ User /\ a \notin closing \cup posting
  /\ IF MayEnd(a) THEN WantEndgame(a) ELSE UNCHANGED endgame
  /\ active_handles' = ClosingCount(a)
  /\ closing' = closing \cup {a} /\ active' = active \ {a}
  /\ UNCHANGED <<lists, refd, closed, port, pending, reqs, run, pc, after>>

Ref(h) ==
  /\ User /\ h \notin refd
  /\ refd' = refd \cup {h}
  /\ active_handles' = IF h \in active \ closing THEN active_handles + 1 ELSE active_handles
  /\ UNCHANGED <<lists, active, closing, closed, port, queues, run, pc, after>>

Unref(h) ==
  /\ User /\ h \in refd
  /\ refd' = refd \ {h}
  /\ active_handles' = IF h \in active \ closing THEN active_handles - 1 ELSE active_handles
  /\ UNCHANGED <<lists, active, closing, closed, port, queues, run, pc, after>>

StopLoop ==
  /\ User /\ stop_flag' = TRUE
  /\ UNCHANGED <<lists, flags, port, queues, mode, can_sleep, timeout, r, pc, after>>

-----------------------------------------------------------------------------
(* uv_run.                                                                 *)

Alive == active_handles > 0 \/ pending # <<>> \/ endgame # <<>>

Go(label) == pc' = label /\ UNCHANGED after
Callback(label) == pc' = "cb" /\ after' = label

Run(m) ==
  /\ pc = "user"
  /\ mode' = m /\ r' = IF Alive THEN 1 ELSE 0
  /\ Go(IF m = "default" /\ Alive /\ ~stop_flag THEN "timers0" ELSE "while")
  /\ UNCHANGED <<lists, flags, port, queues, stop_flag, can_sleep, timeout, uses>>

CallbackReturn ==
  /\ pc = "cb"
  /\ Go(after)
  /\ UNCHANGED <<lists, flags, port, queues, run, uses>>

\* uv__run_timers, before the loop and at the end of an iteration.
Timers ==
  /\ pc \in {"timers0", "timers"}
  /\ \/ Callback(pc)
     \/ Go(IF pc = "timers" THEN "alive" ELSE "while")
  /\ UNCHANGED <<lists, flags, port, queues, run, uses>>

While ==
  /\ pc = "while"
  /\ Go(IF r # 0 /\ ~stop_flag THEN "reqs1" ELSE "exit")
  /\ can_sleep' = (pending = <<>> /\ list["idle"] = <<>>)
  /\ reqs' = IF r # 0 /\ ~stop_flag THEN pending ELSE reqs
  /\ pending' = IF r # 0 /\ ~stop_flag THEN <<>> ELSE pending
  /\ UNCHANGED <<lists, flags, port, endgame, mode, stop_flag, timeout, r, uses>>

\* uv__process_reqs: the next request, always that of an async handle here.
Req ==
  /\ pc \in {"reqs1", "reqs2"} /\ reqs # <<>>
  /\ LET a == Head(reqs) IN
     /\ async_sent' = async_sent \ {a}
     /\ IF a \in closing
        THEN WantEndgame(a) /\ UNCHANGED <<pc, after>>
        ELSE Callback(pc) /\ UNCHANGED endgame
  /\ reqs' = Tail(reqs)
  /\ UNCHANGED <<lists, flags, posting, iocp, pending, run, uses>>

\* The head of the list becomes the next handle to call.
Begin(k, label) ==
  /\ next' = [next EXCEPT ![k] = IF list[k] = <<>> THEN None ELSE Head(list[k])]
  /\ Go(label)

ReqsDone1 ==
  /\ pc = "reqs1" /\ reqs = <<>>
  /\ Begin("idle", "idle")
  /\ UNCHANGED <<list, flags, port, queues, run, uses>>

\* uv__idle_invoke and its like: one handle of the list.
Invoke ==
  /\ pc \in Kinds /\ next[pc] # None
  /\ next' = [next EXCEPT ![pc] = Following(next[pc])]
  /\ Callback(pc)
  /\ UNCHANGED <<list, flags, port, queues, run, uses>>

IdleDone ==
  /\ pc = "idle" /\ next["idle"] = None
  /\ Begin("prepare", "prepare")
  /\ UNCHANGED <<list, flags, port, queues, run, uses>>

\* uv_backend_timeout: 0, or until the next timer, which may be never.
MaySleep ==
  /\ ~stop_flag /\ active_handles > 0
  /\ pending = <<>> /\ list["idle"] = <<>> /\ endgame = <<>>

PrepareDone ==
  /\ pc = "prepare" /\ next["prepare"] = None
  /\ timeout' = IF ((mode = "once" /\ can_sleep) \/ mode = "default") /\ MaySleep
                THEN "next timer" ELSE "zero"
  /\ Go("poll")
  /\ UNCHANGED <<lists, flags, port, queues, mode, stop_flag, can_sleep, r, uses>>

\* Mutant: only the first package of a batch is used.
PollForgets ==
  /\ pc = "poll" /\ iocp # <<>>
  /\ pending' = pending \o SelectSeq(<<Head(iocp)>>, LAMBDA e : e # Wake)
  /\ iocp' = <<>> /\ r' = 0
  /\ Go("rounds")
  /\ UNCHANGED <<lists, flags, async_sent, posting, reqs, endgame, mode,
                 stop_flag, can_sleep, timeout, uses>>

\* uv__poll: packages, without the empty ones, become pending requests.
Poll ==
  /\ pc = "poll" /\ iocp # <<>>
  /\ LET n == IF Len(iocp) < Batch THEN Len(iocp) ELSE Batch
         got == SelectSeq(SubSeq(iocp, 1, n), LAMBDA e : e # Wake)
     IN /\ pending' = pending \o got
        /\ iocp' = SubSeq(iocp, n + 1, Len(iocp))
  /\ r' = 0
  /\ Go("rounds")
  /\ UNCHANGED <<lists, flags, async_sent, posting, reqs, endgame, mode,
                 stop_flag, can_sleep, timeout, uses>>

\* The wait is over; with no timer it ends only when a package comes.
PollTimeout ==
  /\ pc = "poll" /\ iocp = <<>>
  /\ r' = 0
  /\ Go("rounds")
  /\ UNCHANGED <<lists, flags, port, queues, mode, stop_flag, can_sleep,
                 timeout, uses>>

\* The rounds of uv__process_reqs; r counts them.
Round ==
  /\ pc = "rounds" /\ r < Rounds /\ pending # <<>>
  /\ reqs' = pending /\ pending' = <<>>
  /\ Go("reqs2")
  /\ UNCHANGED <<lists, flags, port, endgame, run, uses>>

ReqsDone2 ==
  /\ pc = "reqs2" /\ reqs = <<>>
  /\ r' = r + 1
  /\ Go("rounds")
  /\ UNCHANGED <<lists, flags, port, queues, mode, stop_flag, can_sleep, timeout, uses>>

RoundsDone ==
  /\ pc = "rounds" /\ (r = Rounds \/ pending = <<>>)
  /\ Begin("check", "check")
  /\ UNCHANGED <<list, flags, port, queues, run, uses>>

CheckDone ==
  /\ pc = "check" /\ next["check"] = None
  /\ Go("endgames")
  /\ UNCHANGED <<lists, flags, port, queues, run, uses>>

\* uv__process_endgames: the next handle; uv__handle_close calls close_cb.
Endgame ==
  /\ pc = "endgames" /\ endgame # <<>>
  /\ LET h == Head(endgame) IN
     IF h \in closing /\ (h \in Async => MayEnd(h))
     THEN /\ closed' = closed \cup {h}
          /\ active_handles' = active_handles - 1
          /\ Callback(pc)
     ELSE UNCHANGED <<closed, active_handles, pc, after>>
  /\ endgame' = Tail(endgame)
  /\ UNCHANGED <<lists, active, refd, closing, port, pending, reqs, run, uses>>

EndgamesDone ==
  /\ pc = "endgames" /\ endgame = <<>>
  /\ Go("timers")
  /\ UNCHANGED <<lists, flags, port, queues, run, uses>>

AliveAgain ==
  /\ pc = "alive"
  /\ r' = IF Alive THEN 1 ELSE 0
  /\ Go(IF mode = "default" THEN "while" ELSE "exit")
  /\ UNCHANGED <<lists, flags, port, queues, mode, stop_flag, can_sleep, timeout, uses>>

Exit ==
  /\ pc = "exit"
  /\ stop_flag' = FALSE
  /\ Go("user")
  /\ UNCHANGED <<lists, flags, port, queues, mode, can_sleep, timeout, r, uses>>

-----------------------------------------------------------------------------
UserStep ==
  \/ \E h \in Watcher : Start(h) \/ Stop(h) \/ CloseWatcher(h)
  \/ \E a \in Async : CloseAsync(a)
  \/ \E h \in Handle : Ref(h) \/ Unref(h)
  \/ StopLoop

LoopStep ==
  \/ CallbackReturn \/ Timers \/ While \/ Req \/ ReqsDone1 \/ Invoke \/ IdleDone
  \/ PrepareDone \/ Poll \/ PollTimeout \/ Round \/ ReqsDone2 \/ RoundsDone
  \/ CheckDone \/ Endgame \/ EndgamesDone \/ AliveAgain \/ Exit

Next ==
  \/ \E a \in Async : Send(a) \/ Post(a)
  \/ WakeAllLoops
  \/ UserStep
  \/ \E m \in {"default", "once", "nowait"} : Run(m)
  \/ LoopStep

Spec == Init /\ [][Next]_vars

-----------------------------------------------------------------------------
(* Properties.                                                             *)

Queued(a) == Contains(iocp, a) \/ Contains(pending, a) \/ Contains(reqs, a)

(***************************************************************************)
(* uv_async_send is not lost: while async_sent is set its package is on    *)
(* the way, in one place, and so is the endgame of a handle that is closed *)
(* meanwhile.                                                              *)
(***************************************************************************)
SentIsUnderWay ==
  \A a \in Async :
    /\ a \in async_sent <=> (a \in posting \/ Queued(a))
    /\ a \in closing \ closed => (Queued(a) \/ Contains(endgame, a))

(***************************************************************************)
(* A closed handle, whose memory the user may free in close_cb, is in no   *)
(* queue, list or package.                                                 *)
(***************************************************************************)
ClosedIsGone ==
  \A h \in closed :
    /\ ~Queued(h) /\ ~Contains(endgame, h)
    /\ \A k \in Kinds : next[k] # h /\ ~Contains(list[k], h)

(***************************************************************************)
(* The iterator of an invocation is in the list, whatever callbacks stop,  *)
(* start or close, so that no stopped handle is called.                    *)
(***************************************************************************)
IteratorIsListed ==
  \A k \in Kinds : next[k] # None => Contains(list[k], next[k])

(***************************************************************************)
(* active_handles counts what keeps the loop alive; when uv_run returns 0  *)
(* no close callback is outstanding.                                       *)
(***************************************************************************)
WinActiveExact ==
  /\ active_handles = Cardinality(active \cap refd) + Cardinality(closing \ closed)
  /\ pc = "exit" /\ r = 0 /\ mode # "default" => closing \subseteq closed /\ pending = <<>>
=============================================================================
