------------------------------ MODULE Signals -------------------------------
(***************************************************************************)
(* Signal handles (src/unix/signal.c).  One tree of watchers is shared by  *)
(* all loops and guarded by a lock; the signal handler of the process,     *)
(* which interrupts any thread, writes a message for every watcher of the  *)
(* signal into the pipe of the watcher's loop, and the loop reads the      *)
(* messages and calls back.  A message names its handle by address, so     *)
(* that a handle with messages under way must not be given back.           *)
(*                                                                         *)
(* A start or stop of a watcher takes the lock (action Lock) and does its  *)
(* work in a second step (Commit); the handler takes one step per write    *)
(* and per count.  Handlers in several threads queue for the lock and are  *)
(* taken one after the other.                                              *)
(***************************************************************************)
EXTENDS Integers, Sequences, FiniteSets, SequencesExt, FiniteSetTheorems,
        SequenceTheorems, TLAPS

CONSTANTS
  Loop, Handle,
  loopOf,       \* the loop of each handle
  Signum,       \* the signals, a set of positive numbers
  PipeSize,     \* messages a signal pipe can hold
  BatchSize,    \* messages uv__signal_event reads at once, 32
  MaxRaised,    \* bound: signals raised
  MaxStarts,    \* bound: watches started
  RegularUse,   \* handles that uv_signal_start is called for
  OneShotUse    \* handles that uv_signal_start_oneshot is called for

Other == "other"      \* a thread that runs no loop
NoOp == [kind |-> "none"]

VARIABLES
  signum, oneshot,      \* of each handle; signum is 0 when it does not watch
  state,                \* of each handle: "open", "closing" or "closed"
  caught, dispatched,   \* caught_signals, dispatched_signals
  disp,                 \* of each signal: "default", "handler" or "once"
  pipe, batch,          \* of each loop: messages in the pipe, messages read
  pc,                   \* of each loop: "loop", "event", "cb" or "after"
  op,                   \* of each loop: the operation it holds the lock for
  lock,                 \* "free", "handler" or a loop
  handler,              \* [at, thread, sig, left, now]
  raised, started,      \* counters of the bounds
  forked, regular       \* the process has forked; uv_signal_start was used

watchers == <<signum, oneshot, disp, started, regular>>
counts == <<caught, dispatched>>
vars == <<watchers, state, counts, pipe, batch, pc, op, lock, handler, raised,
          forked>>

NoHandler == [at |-> "idle", thread |-> Other, sig |-> 0, left |-> {}, now |-> {}]

Init ==
  /\ signum = [h \in Handle |-> 0] /\ oneshot = [h \in Handle |-> FALSE]
  /\ regular = [h \in Handle |-> FALSE]
  /\ state = [h \in Handle |-> "open"]
  /\ caught = [h \in Handle |-> 0] /\ dispatched = [h \in Handle |-> 0]
  /\ disp = [s \in Signum |-> "default"]
  /\ pipe = [l \in Loop |-> <<>>] /\ batch = [l \in Loop |-> <<>>]
  /\ pc = [l \in Loop |-> "loop"] /\ op = [l \in Loop |-> NoOp]
  /\ lock = "free" /\ handler = NoHandler
  /\ raised = 0 /\ started = 0 /\ forked = FALSE

Watching(s) == {h \in Handle : signum[h] = s}

\* Regular watchers come first in the tree: the first is one-shot if all are.
FirstIsOneShot(H) == \A h \in H : oneshot[h]

\* A loop is interrupted while the handler runs in its thread.
Runs(l) == handler.at = "idle" \/ handler.thread # l

-----------------------------------------------------------------------------
(* Starting and stopping.                                                  *)

\* Mutant: the first watcher is not looked at.
StopBodyUnregisters(h) ==
  /\ disp' = [disp EXCEPT ![signum[h]] = "default"]
  /\ signum' = [signum EXCEPT ![h] = 0]
  /\ UNCHANGED <<oneshot, started, regular>>

\* uv__signal_stop inside the lock.
StopBody(h) ==
  LET s == signum[h]
      rest == Watching(s) \ {h}
  IN /\ disp' = [disp EXCEPT ![s] =
                   IF rest = {} THEN "default"
                   ELSE IF FirstIsOneShot(rest) /\ ~oneshot[h] THEN "once"
                   ELSE @]
     /\ signum' = [signum EXCEPT ![h] = 0]
     /\ UNCHANGED <<oneshot, started, regular>>

\* uv__signal_start inside the lock.
StartBody(h, s, once) ==
  /\ disp' = [disp EXCEPT ![s] =
                IF Watching(s) = {} \/ (~once /\ FirstIsOneShot(Watching(s)))
                THEN IF once THEN "once" ELSE "handler"
                ELSE @]
  /\ signum' = [signum EXCEPT ![h] = s]
  /\ oneshot' = [oneshot EXCEPT ![h] = @ \/ once]
  /\ regular' = [regular EXCEPT ![h] = ~once]
  /\ started' = started + 1

\* What the user asks of a handle of loop l: a start of a handle that already
\* watches another signal is a stop and a start.
Requests(l) ==
  LET mine == {h \in Handle : loopOf[h] = l /\ state[h] = "open"}
      starts == [kind : {"start"}, h : {h \in mine : signum[h] = 0},
                 s : Signum, once : BOOLEAN]
  IN {r \in starts : /\ started < MaxStarts
                     /\ r.h \in IF r.once THEN OneShotUse ELSE RegularUse}
       \cup [kind : {"stop", "close"}, h : {h \in mine : signum[h] # 0}]

\* uv__signal_block_and_lock, for a request of the user or at the end of a
\* one-shot watch.
Lock(l) ==
  /\ Runs(l) /\ lock = "free" /\ op[l] = NoOp
  /\ \/ pc[l] \in {"loop", "cb"} /\ \E r \in Requests(l) : op' = [op EXCEPT ![l] = r]
     \/ /\ pc[l] = "after"
        /\ oneshot[Head(batch[l]).h] /\ signum[Head(batch[l]).h] # 0
        /\ op' = [op EXCEPT ![l] = [kind |-> "stop", h |-> Head(batch[l]).h]]
  /\ lock' = l
  /\ UNCHANGED <<watchers, state, counts, pipe, batch, pc, handler, raised, forked>>

\* Mutant: uv_close does not stop the watcher.
CommitKeepsWatch(l) ==
  /\ Runs(l) /\ op[l] # NoOp
  /\ IF op[l].kind = "start" THEN StartBody(op[l].h, op[l].s, op[l].once)
     ELSE UNCHANGED watchers
  /\ state' = IF op[l].kind = "close" THEN [state EXCEPT ![op[l].h] = "closing"]
              ELSE state
  /\ op' = [op EXCEPT ![l] = NoOp]
  /\ lock' = "free"
  /\ UNCHANGED <<counts, pipe, batch, pc, handler, raised, forked>>

Commit(l) ==
  /\ Runs(l) /\ op[l] # NoOp
  /\ IF op[l].kind = "start" THEN StartBody(op[l].h, op[l].s, op[l].once)
     ELSE StopBody(op[l].h)
  /\ state' = IF op[l].kind = "close" THEN [state EXCEPT ![op[l].h] = "closing"]
              ELSE state
  /\ op' = [op EXCEPT ![l] = NoOp]
  /\ lock' = "free"
  /\ UNCHANGED <<counts, pipe, batch, pc, handler, raised, forked>>

\* uv_close of a handle that does not watch.
CloseIdle(h) ==
  /\ Runs(loopOf[h]) /\ pc[loopOf[h]] \in {"loop", "cb"} /\ op[loopOf[h]] = NoOp
  /\ state[h] = "open" /\ signum[h] = 0
  /\ state' = [state EXCEPT ![h] = "closing"]
  /\ UNCHANGED <<watchers, counts, pipe, batch, pc, op, lock, handler, raised, forked>>

\* Mutant: the handle is given back whatever is in the pipe.
MayFinishAlways(h) == TRUE

\* uv__finish_close puts a handle with caught signals back into the queue.
MayFinish(h) == caught[h] <= dispatched[h]

FinishClose(h) ==
  /\ Runs(loopOf[h]) /\ pc[loopOf[h]] = "loop" /\ op[loopOf[h]] = NoOp
  /\ state[h] = "closing" /\ MayFinish(h)
  /\ state' = [state EXCEPT ![h] = "closed"]
  /\ UNCHANGED <<watchers, counts, pipe, batch, pc, op, lock, handler, raised, forked>>

-----------------------------------------------------------------------------
(* The signal handler.                                                     *)

\* Mutant: only the lock is taken, signals are not blocked.
BlockedNever(t) == FALSE

\* A thread that holds the lock has all signals blocked.
Blocked(t) == lock = t

\* A signal reaches thread t; SA_RESETHAND resets the handler of "once".
Raise(s, t) ==
  /\ raised < MaxRaised
  /\ disp[s] # "default"
  /\ handler.at = "idle" /\ ~Blocked(t)
  /\ handler' = [at |-> "lock", thread |-> t, sig |-> s, left |-> {}, now |-> {}]
  /\ disp' = [disp EXCEPT ![s] = IF @ = "once" THEN "default" ELSE @]
  /\ raised' = raised + 1
  /\ UNCHANGED <<signum, oneshot, started, regular, state, counts, pipe, batch,
                 pc, op, lock, forked>>

HandlerLock ==
  /\ handler.at = "lock" /\ lock = "free"
  /\ lock' = "handler"
  /\ handler' = [handler EXCEPT !.at = "write", !.left = Watching(handler.sig)]
  /\ UNCHANGED <<watchers, state, counts, pipe, batch, pc, op, raised, forked>>

\* A full pipe: the message is dropped and not counted.
HandlerWrite(h) ==
  /\ handler.at = "write" /\ h \in handler.left
  /\ IF Len(pipe[loopOf[h]]) < PipeSize
     THEN /\ pipe' = [pipe EXCEPT ![loopOf[h]] = Append(@, [s |-> handler.sig, h |-> h])]
          /\ handler' = [handler EXCEPT !.at = "count", !.left = @ \ {h}, !.now = {h}]
     ELSE /\ handler' = [handler EXCEPT !.left = @ \ {h}]
          /\ UNCHANGED pipe
  /\ UNCHANGED <<watchers, state, counts, batch, pc, op, lock, raised, forked>>

HandlerCount ==
  /\ handler.at = "count"
  /\ caught' = [h \in Handle |-> caught[h] + IF h \in handler.now THEN 1 ELSE 0]
  /\ handler' = [handler EXCEPT !.at = "write", !.now = {}]
  /\ UNCHANGED <<watchers, state, dispatched, pipe, batch, pc, op, lock, raised,
                 forked>>

HandlerEnd ==
  /\ handler.at = "write" /\ handler.left = {}
  /\ lock' = "free"
  /\ handler' = NoHandler
  /\ UNCHANGED <<watchers, state, counts, pipe, batch, pc, op, raised, forked>>

-----------------------------------------------------------------------------
(* uv__signal_event in the loop.                                           *)

Prefix(l) == IF Len(pipe[l]) < BatchSize THEN Len(pipe[l]) ELSE BatchSize

ReadPipe(l) ==
  /\ Runs(l) /\ pc[l] = "loop" /\ op[l] = NoOp
  /\ pipe[l] # <<>>
  /\ batch' = [batch EXCEPT ![l] = SubSeq(pipe[l], 1, Prefix(l))]
  /\ pipe' = [pipe EXCEPT ![l] = SubSeq(@, Prefix(l) + 1, Len(@))]
  /\ pc' = [pc EXCEPT ![l] = "event"]
  /\ UNCHANGED <<watchers, state, counts, op, lock, handler, raised, forked>>

\* The callback is called if the handle still watches this signal.
Dispatch(l) ==
  /\ Runs(l) /\ pc[l] = "event" /\ batch[l] # <<>>
  /\ LET msg == Head(batch[l]) IN
     IF msg.s = signum[msg.h]
     THEN pc' = [pc EXCEPT ![l] = "cb"] /\ UNCHANGED dispatched
     ELSE /\ pc' = [pc EXCEPT ![l] = "after"]
          /\ dispatched' = [dispatched EXCEPT ![msg.h] = @ + 1]
  /\ UNCHANGED <<watchers, state, caught, pipe, batch, op, lock, handler, raised,
                 forked>>

\* Mutant: a message that was called back for is not counted.
CallbackReturnUncounted(l) ==
  /\ Runs(l) /\ pc[l] = "cb" /\ op[l] = NoOp
  /\ pc' = [pc EXCEPT ![l] = "after"]
  /\ UNCHANGED <<watchers, state, counts, pipe, batch, op, lock, handler,
                 raised, forked>>

CallbackReturn(l) ==
  /\ Runs(l) /\ pc[l] = "cb" /\ op[l] = NoOp
  /\ pc' = [pc EXCEPT ![l] = "after"]
  /\ dispatched' = [dispatched EXCEPT ![Head(batch[l]).h] = @ + 1]
  /\ UNCHANGED <<watchers, state, caught, pipe, batch, op, lock, handler,
                 raised, forked>>

\* To the next message, once a one-shot handle has been stopped.
Advance(l) ==
  /\ Runs(l) /\ op[l] = NoOp
  /\ \/ pc[l] = "after"
        /\ ~(oneshot[Head(batch[l]).h] /\ signum[Head(batch[l]).h] # 0)
        /\ batch' = [batch EXCEPT ![l] = Tail(@)]
        /\ pc' = [pc EXCEPT ![l] = "event"]
     \/ pc[l] = "event" /\ batch[l] = <<>>
        /\ pc' = [pc EXCEPT ![l] = "loop"]
        /\ UNCHANGED batch
  /\ UNCHANGED <<watchers, state, counts, pipe, op, lock, handler, raised, forked>>

-----------------------------------------------------------------------------
(* The child of a fork: other threads are gone, the lock is a new one, and *)
(* uv_loop_fork gives each loop a new pipe and resets the counters.        *)

\* Mutant: the counters stay as they were.
ForkCountsKept == UNCHANGED counts

ForkCounts ==
  /\ caught' = [h \in Handle |-> 0]
  /\ dispatched' = [h \in Handle |-> 0]

Fork ==
  /\ ~forked /\ handler.thread = Other
  /\ \A l \in Loop : pc[l] = "loop" /\ op[l] = NoOp
  /\ pipe' = [l \in Loop |-> <<>>]
  /\ ForkCounts
  /\ lock' = "free" /\ handler' = NoHandler
  /\ forked' = TRUE
  /\ UNCHANGED <<watchers, state, batch, pc, op, raised>>

-----------------------------------------------------------------------------
HandlerStep == HandlerLock \/ (\E h \in Handle : HandlerWrite(h)) \/ HandlerCount
                 \/ HandlerEnd

LoopStep(l) == \/ Commit(l) \/ ReadPipe(l) \/ Dispatch(l) \/ CallbackReturn(l)
               \/ Advance(l) \/ (pc[l] = "after" /\ Lock(l))

Next ==
  \/ \E l \in Loop : Lock(l) \/ LoopStep(l)
  \/ \E h \in Handle : CloseIdle(h) \/ FinishClose(h)
  \/ \E s \in Signum, t \in Loop \cup {Other} : Raise(s, t)
  \/ HandlerStep \/ Fork

Spec == Init /\ [][Next]_vars

(***************************************************************************)
(* Fairness: the loops run, callbacks and the signal handler return.       *)
(***************************************************************************)
FairSpec ==
  /\ Spec
  /\ WF_vars(HandlerStep)
  /\ \A l \in Loop : WF_vars(LoopStep(l)) /\ SF_vars(pc[l] = "after" /\ Lock(l))
  /\ \A h \in Handle : WF_vars(FinishClose(h))

-----------------------------------------------------------------------------
(* Properties.                                                             *)

\* The messages in q that name h, and all that are under way to it.
Msgs(q, h) == Cardinality({i \in 1 .. Len(q) : q[i].h = h})

InFlight(h) == Msgs(pipe[loopOf[h]], h) + Msgs(batch[loopOf[h]], h)

(***************************************************************************)
(* Type invariant.                                                         *)
(***************************************************************************)
TypeOK ==
  /\ signum \in [Handle -> Signum \cup {0}]
  /\ disp \in [Signum -> {"default", "handler", "once"}]
  /\ state \in [Handle -> {"open", "closing", "closed"}]
  /\ \A l \in Loop : Len(pipe[l]) <= PipeSize /\ Len(batch[l]) <= BatchSize
  /\ lock \in {"free", "handler"} \cup Loop
  /\ \A h \in Handle : state[h] # "open" => signum[h] = 0

(***************************************************************************)
(* No message names a handle that has been given back to the user: the     *)
(* counters hold the close callback back as long as the signal handler may *)
(* have written one, in whatever thread it runs.                           *)
(***************************************************************************)
NoMessageForClosed ==
  \A h \in Handle : state[h] = "closed" =>
    InFlight(h) = 0 /\ h \notin handler.left \cup handler.now

(***************************************************************************)
(* caught_signals and dispatched_signals differ by the messages under way: *)
(* a pipe that is full, a stop in between and a fork do not upset them.    *)
(***************************************************************************)
CountsExact ==
  \A h \in Handle :
    caught[h] - dispatched[h] + (IF h \in handler.now THEN 1 ELSE 0)
      = InFlight(h) - IF pc[loopOf[h]] = "after" /\ Head(batch[loopOf[h]]).h = h
                      THEN 1 ELSE 0

(***************************************************************************)
(* A signal that a regular watcher waits for is handled, and it is left to *)
(* its default when nobody waits, also with one-shot watchers around.      *)
(***************************************************************************)
DispositionFits ==
  \A s \in Signum :
    /\ (\E h \in Watching(s) : regular[h]) => disp[s] = "handler"
    /\ Watching(s) = {} => disp[s] = "default"

(***************************************************************************)
(* The signal handler does not wait for a lock that the thread it has      *)
(* interrupted holds: it would wait for ever.                              *)
(***************************************************************************)
NoSelfDeadlock == handler.at = "lock" => handler.thread # lock

(***************************************************************************)
(* Liveness: a closing handle is given back in the end.                    *)
(***************************************************************************)
CloseCompletes == \A h \in Handle : state[h] = "closing" ~> state[h] = "closed"

-----------------------------------------------------------------------------
(* The proofs.                                                             *)

(***************************************************************************)
(* The loop of every handle is one of the loops, 0 stands for no signal,   *)
(* "free", "handler" and Other are no loops; a handle is used with         *)
(* uv_signal_start or with uv_signal_start_oneshot, never with both.       *)
(***************************************************************************)
Hypotheses ==
  /\ loopOf \in [Handle -> Loop]
  /\ Signum \subseteq Nat \ {0}
  /\ {"free", "handler", Other} \cap Loop = {}
  /\ PipeSize \in Nat /\ BatchSize \in Nat
  /\ RegularUse \cap OneShotUse = {}

Msg == [s : Signum, h : Handle]

Ops(l) ==
  LET mine == {h \in Handle : loopOf[h] = l} IN
  {NoOp} \cup {r \in [kind : {"start"}, h : mine, s : Signum, once : BOOLEAN] :
                 r.h \in IF r.once THEN OneShotUse ELSE RegularUse}
    \cup [kind : {"stop", "close"}, h : mine]

(***************************************************************************)
(* The types; messages are in the pipe of their handle's loop.             *)
(***************************************************************************)
TypeInv ==
  /\ TypeOK
  /\ oneshot \in [Handle -> BOOLEAN] /\ regular \in [Handle -> BOOLEAN]
  /\ caught \in [Handle -> Int] /\ dispatched \in [Handle -> Int]
  /\ pipe \in [Loop -> Seq(Msg)] /\ batch \in [Loop -> Seq(Msg)]
  /\ \A l \in Loop : /\ \A i \in 1 .. Len(pipe[l]) : loopOf[pipe[l][i].h] = l
                     /\ \A i \in 1 .. Len(batch[l]) : loopOf[batch[l][i].h] = l
  /\ pc \in [Loop -> {"loop", "event", "cb", "after"}]
  /\ \A l \in Loop : op[l] \in Ops(l)
  /\ DOMAIN op = Loop
  /\ handler \in [at : {"idle", "lock", "write", "count"},
                  thread : Loop \cup {Other}, sig : Signum \cup {0},
                  left : SUBSET Handle, now : SUBSET Handle]

(***************************************************************************)
(* Whoever is about to change a watcher holds the lock, and the watcher is *)
(* as it was when the lock was taken; a batch is there while it is worked  *)
(* on.                                                                     *)
(***************************************************************************)
LoopInv ==
  \A l \in Loop :
    /\ op[l] # NoOp <=> lock = l
    /\ op[l] # NoOp => /\ pc[l] # "event"
                       /\ state[op[l].h] = "open"
                       /\ (op[l].kind = "start") <=> (signum[op[l].h] = 0)
    /\ pc[l] = "loop" => batch[l] = <<>>
    /\ pc[l] \in {"cb", "after"} => batch[l] # <<>>

(***************************************************************************)
(* The signal handler holds the lock while it writes, for handles that     *)
(* watch its signal, and it never waits for the thread it runs in.         *)
(***************************************************************************)
HandlerInv ==
  /\ lock = "handler" <=> handler.at \in {"write", "count"}
  /\ handler.at # "idle" => handler.sig \in Signum /\ lock # handler.thread
  /\ handler.at \in {"idle", "lock"} => handler.left = {}
  /\ handler.at # "count" => handler.now = {}
  /\ handler.at = "count" => \E h \in Handle : handler.now = {h}
  /\ \A h \in handler.left \cup handler.now : signum[h] = handler.sig

(***************************************************************************)
(* A watcher is regular or one-shot, as its handle is used.                *)
(***************************************************************************)
UseInv ==
  \A h \in Handle :
    /\ regular[h] => h \in RegularUse
    /\ oneshot[h] => h \in OneShotUse
    /\ signum[h] # 0 => regular[h] \/ oneshot[h]

Inv == TypeInv /\ LoopInv /\ HandlerInv /\ UseInv /\ CountsExact
         /\ DispositionFits /\ NoMessageForClosed

(***************************************************************************)
(* How the messages to a handle are counted when one is added to a queue   *)
(* and when the first n are taken from it.                                 *)
(***************************************************************************)
LEMMA CountType ==
  ASSUME NEW q \in Seq(Msg), NEW h
  PROVE  /\ Msgs(q, h) \in Nat
         /\ IsFiniteSet({i \in 1 .. Len(q) : q[i].h = h})
         /\ q = <<>> => Msgs(q, h) = 0
<1>1. Len(q) \in Nat
  OBVIOUS
<1>2. IsFiniteSet(1 .. Len(q))
  BY <1>1, FS_Interval
<1>3. IsFiniteSet({i \in 1 .. Len(q) : q[i].h = h})
  BY <1>2, FS_Subset
<1>4. q = <<>> => {i \in 1 .. Len(q) : q[i].h = h} = {}
  BY <1>1
<1> QED
  BY <1>3, <1>4, FS_CardinalityType, FS_EmptySet DEF Msgs

LEMMA CountAppend ==
  ASSUME NEW q \in Seq(Msg), NEW m \in Msg, NEW h
  PROVE  Msgs(Append(q, m), h) = Msgs(q, h) + IF m.h = h THEN 1 ELSE 0
<1> DEFINE S == {i \in 1 .. Len(q) : q[i].h = h}
           T == {i \in 1 .. Len(Append(q, m)) : Append(q, m)[i].h = h}
           n == Len(q) + 1
<1>1. /\ Len(q) \in Nat /\ Len(Append(q, m)) = n /\ Append(q, m)[n] = m
      /\ \A i \in 1 .. Len(q) : Append(q, m)[i] = q[i]
  OBVIOUS
<1>2. IsFiniteSet(S) /\ n \notin S /\ Cardinality(S) \in Nat
  <2>1. IsFiniteSet(S)
    BY CountType
  <2>2. n \notin S
    BY <1>1
  <2> QED
    BY <2>1, <2>2, FS_CardinalityType
<1>0. Msgs(q, h) = Cardinality(S) /\ Msgs(Append(q, m), h) = Cardinality(T)
  BY DEF Msgs
<1>3. CASE m.h = h
  <2>1. T = S \cup {n}
    BY <1>1, <1>3
  <2>2. Cardinality(T) = Cardinality(S) + 1
    BY <2>1, <1>2, FS_AddElement
  <2> HIDE DEF S, T
  <2> QED
    BY <2>2, <1>0, <1>3
<1>4. CASE m.h # h
  <2>1. T = S
    BY <1>1, <1>4
  <2> HIDE DEF S, T
  <2> QED
    BY <2>1, <1>0, <1>2, <1>4
<1> QED
  BY <1>3, <1>4

LEMMA CountSplit ==
  ASSUME NEW q \in Seq(Msg), NEW n \in 0 .. Len(q), NEW h
  PROVE  Msgs(q, h) = Msgs(SubSeq(q, 1, n), h) + Msgs(SubSeq(q, n + 1, Len(q)), h)
<1> DEFINE a == SubSeq(q, 1, n)
           b == SubSeq(q, n + 1, Len(q))
           S == {i \in 1 .. Len(q) : q[i].h = h}
           A == {i \in 1 .. Len(a) : a[i].h = h}
           B == {i \in 1 .. Len(b) : b[i].h = h}
           C == {i \in n + 1 .. Len(q) : q[i].h = h}
<1>1. /\ Len(q) \in Nat /\ n \in Nat /\ Len(a) = n /\ Len(b) = Len(q) - n
      /\ a \in Seq(Msg) /\ b \in Seq(Msg)
      /\ \A i \in 1 .. n : a[i] = q[i]
      /\ \A i \in 1 .. Len(q) - n : b[i] = q[i + n]
  OBVIOUS
<1>2. IsFiniteSet(S) /\ IsFiniteSet(A) /\ IsFiniteSet(B) /\ IsFiniteSet(C)
  <2>1. IsFiniteSet(S) /\ IsFiniteSet(A) /\ IsFiniteSet(B)
    BY <1>1, CountType
  <2>2. C \subseteq S
    BY <1>1
  <2> QED
    BY <2>1, <2>2, FS_Subset
<1>3. Cardinality(S) = Cardinality(A) + Cardinality(C)
  <2>1. S = A \cup C /\ A \cap C = {}
    BY <1>1
  <2> HIDE DEF S, A, C
  <2>2. Cardinality(A) \in Nat /\ Cardinality(C) \in Nat
    BY <1>2, FS_CardinalityType
  <2>3. Cardinality(A \cup C) = Cardinality(A) + Cardinality(C) - Cardinality(A \cap C)
    BY <1>2, FS_Union
  <2>4. Cardinality(A \cap C) = 0
    BY <2>1, FS_EmptySet
  <2> QED
    BY <2>1, <2>2, <2>3, <2>4
<1>4. Cardinality(B) = Cardinality(C)
  <2> DEFINE f == [i \in B |-> i + n]
  <2>1. f \in Bijection(B, C)
    <3>1. \A i \in B : f[i] \in C
      BY <1>1
    <3>2. \A i, j \in B : f[i] = f[j] => i = j
      BY <1>1
    <3>3. \A k \in C : k - n \in B /\ f[k - n] = k
      <4> SUFFICES ASSUME NEW k \in C PROVE k - n \in B /\ f[k - n] = k
        OBVIOUS
      <4>1. k \in Int /\ k - n \in 1 .. Len(q) - n /\ k - n + n = k
        BY <1>1
      <4>2. b[k - n] = q[k]
        BY <4>1, <1>1
      <4>3. k - n \in B
        BY <4>1, <4>2, <1>1
      <4> QED
        BY <4>3, <4>1
    <3> HIDE DEF f, B, C
    <3>4. f \in [B -> C]
      BY <3>1 DEF f
    <3>5. f \in Surjection(B, C)
      BY <3>3, <3>4 DEF Surjection
    <3>6. f \in Injection(B, C)
      BY <3>2, <3>4 DEF Injection, IsInjective
    <3> QED
      BY <3>5, <3>6 DEF Bijection
  <2>2. IsFiniteSet(B)
    BY <1>2
  <2> HIDE DEF f, B, C
  <2> QED
    BY <2>1, <2>2, FS_Bijection DEF ExistsBijection
<1> QED
  BY <1>3, <1>4 DEF Msgs

LEMMA CountTail ==
  ASSUME NEW q \in Seq(Msg), q # <<>>, NEW h
  PROVE  Msgs(q, h) = Msgs(Tail(q), h) + IF Head(q).h = h THEN 1 ELSE 0
<1> DEFINE a == SubSeq(q, 1, 1)
<1>1. /\ Len(q) \in Nat /\ 1 \in 0 .. Len(q)
      /\ Head(q) \in Msg /\ Tail(q) \in Seq(Msg)
      /\ Tail(q) = SubSeq(q, 1 + 1, Len(q)) /\ <<>> \in Seq(Msg)
  OBVIOUS
<1>2. Msgs(q, h) = Msgs(a, h) + Msgs(Tail(q), h)
  <2>1. Msgs(q, h) = Msgs(a, h) + Msgs(SubSeq(q, 1 + 1, Len(q)), h)
    BY <1>1, CountSplit, Zenon
  <2> QED
    BY <1>1, <2>1, Zenon
<1>3. Msgs(a, h) = IF Head(q).h = h THEN 1 ELSE 0
  <2>1. {i \in 1 .. Len(a) : a[i].h = h} = IF Head(q).h = h THEN {1} ELSE {}
    BY <1>1
  <2> QED
    BY <2>1, FS_Singleton, FS_EmptySet DEF Msgs
<1> HIDE DEF a
<1>4. Msgs(Tail(q), h) \in Nat
  BY <1>1, CountType
<1> QED
  BY <1>2, <1>3, <1>4

(***************************************************************************)
(* At the start nothing watches and nothing is under way.                  *)
(***************************************************************************)
LEMMA InvInit ==
  ASSUME Hypotheses, Init
  PROVE  Inv
<1> USE DEF Hypotheses, Init, NoHandler, NoOp
<1>1. TypeInv
  BY DEF TypeInv, TypeOK, Ops
<1>2. LoopInv
  BY DEF LoopInv
<1>6. HandlerInv
  BY DEF HandlerInv
<1>7. UseInv
  <2>1. \A h \in Handle : ~regular[h] /\ ~oneshot[h] /\ signum[h] = 0
    OBVIOUS
  <2> QED
    BY <2>1 DEF UseInv
<1>3. CountsExact
  <2>1. <<>> \in Seq(Msg) /\ \A h : Msgs(<<>>, h) = 0
    <3>1. <<>> \in Seq(Msg)
      OBVIOUS
    <3> QED
      BY <3>1, CountType
  <2>2. \A h \in Handle : InFlight(h) = 0
    BY <2>1 DEF InFlight
  <2> QED
    BY <2>2 DEF CountsExact
<1>4. DispositionFits
  BY DEF DispositionFits, Watching
<1>5. NoMessageForClosed
  BY DEF NoMessageForClosed
<1> QED
  BY <1>1, <1>2, <1>6, <1>7, <1>3, <1>4, <1>5 DEF Inv

(***************************************************************************)
(* A step that leaves the messages, the counters and the places of the     *)
(* loops alone upsets no count.                                            *)
(***************************************************************************)
LEMMA CountsKept ==
  ASSUME UNCHANGED <<caught, dispatched, pipe, batch, pc>>, handler.now' = handler.now
  PROVE  /\ \A h \in Handle : InFlight(h)' = InFlight(h)
         /\ CountsExact => CountsExact'
<1>1. \A h \in Handle : InFlight(h)' = InFlight(h)
  BY DEF InFlight
<1> QED
  BY <1>1 DEF CountsExact

(***************************************************************************)
(* The lock is free, so no other loop is about to change a watcher.        *)
(***************************************************************************)
LEMMA LockNext ==
  ASSUME Hypotheses, Inv, NEW l \in Loop, Lock(l)
  PROVE  Inv'
<1> USE DEF Hypotheses
<1>1. /\ lock = "free" /\ lock' = l /\ op[l] = NoOp /\ Runs(l)
      /\ UNCHANGED <<watchers, state, counts, pipe, batch, pc, handler, raised, forked>>
  BY DEF Lock
<1>2. PICK r : /\ op' = [op EXCEPT ![l] = r] /\ r \in Ops(l) /\ r # NoOp
               /\ pc[l] # "event" /\ state[r.h] = "open"
               /\ (r.kind = "start") <=> (signum[r.h] = 0)
  <2>1. CASE pc[l] \in {"loop", "cb"} /\ \E r \in Requests(l) : op' = [op EXCEPT ![l] = r]
    <3>1. PICK r \in Requests(l) : op' = [op EXCEPT ![l] = r]
      BY <2>1
    <3>2. /\ r \in Ops(l) /\ r # NoOp /\ state[r.h] = "open"
          /\ (r.kind = "start") <=> (signum[r.h] = 0)
      BY <3>1 DEF Requests, Ops, NoOp
    <3> QED
      BY <2>1, <3>1, <3>2
  <2>2. CASE /\ pc[l] = "after" /\ signum[Head(batch[l]).h] # 0
             /\ op' = [op EXCEPT ![l] = [kind |-> "stop", h |-> Head(batch[l]).h]]
    <3>1. batch[l] # <<>> /\ batch[l] \in Seq(Msg)
      BY <2>2 DEF Inv, LoopInv, TypeInv
    <3>2. Head(batch[l]) \in Msg /\ loopOf[Head(batch[l]).h] = l
      BY <3>1 DEF Inv, TypeInv
    <3> DEFINE r == [kind |-> "stop", h |-> Head(batch[l]).h]
    <3>3. r \in Ops(l) /\ r # NoOp /\ r.kind # "start"
      BY <3>2 DEF Ops, NoOp, Msg
    <3>4. state[r.h] = "open"
      BY <2>2, <3>2 DEF Inv, TypeInv, TypeOK, Msg
    <3> QED
      BY <2>2, <3>3, <3>4
  <2> QED
    BY <2>1, <2>2 DEF Lock
<1>3. TypeInv'
  BY <1>1, <1>2 DEF Inv, TypeInv, TypeOK, watchers, counts
<1>4. LoopInv'
  BY <1>1, <1>2 DEF Inv, TypeInv, LoopInv, watchers, counts
<1>5. HandlerInv'
  BY <1>1 DEF Inv, HandlerInv, TypeInv, Runs, watchers, counts
<1>6. UseInv' /\ DispositionFits'
  BY <1>1 DEF Inv, UseInv, DispositionFits, Watching, watchers
<1>7. CountsExact' /\ NoMessageForClosed'
  BY <1>1, CountsKept DEF Inv, NoMessageForClosed, counts
<1> QED
  BY <1>3, <1>4, <1>5, <1>6, <1>7 DEF Inv

(***************************************************************************)
(* A start or stop: the lock keeps the signal handler from reading the     *)
(* watchers meanwhile.                                                     *)
(***************************************************************************)
LEMMA CommitNext ==
  ASSUME Hypotheses, Inv, NEW l \in Loop, Commit(l)
  PROVE  Inv'
<1> USE DEF Hypotheses
<1> DEFINE r == op[l]
           x == op[l].h
<1>1. /\ lock = l /\ lock' = "free" /\ op[l] # NoOp /\ op' = [op EXCEPT ![l] = NoOp]
      /\ UNCHANGED <<counts, pipe, batch, pc, handler, raised, forked>>
      /\ x \in Handle /\ loopOf[x] = l /\ state[x] = "open"
      /\ (r.kind = "start") <=> (signum[x] = 0)
      /\ r.kind = "start" => /\ r.s \in Signum /\ r.once \in BOOLEAN
                             /\ x \in IF r.once THEN OneShotUse ELSE RegularUse
  BY DEF Commit, Inv, LoopInv, TypeInv, Ops, NoOp
<1>2. /\ \A k \in Loop \ {l} : op[k] = NoOp
      /\ handler.left = {} /\ handler.now = {}
  BY <1>1 DEF Inv, LoopInv, HandlerInv, TypeInv
<1>5. LoopInv'
  <2>1. (\A k \in Loop : op'[k] = NoOp) /\ lock' \notin Loop
    BY <1>1, <1>2 DEF Inv, TypeInv
  <2>2. \A k \in Loop : /\ pc[k] = "loop" => batch[k] = <<>>
                        /\ pc[k] \in {"cb", "after"} => batch[k] # <<>>
    BY DEF Inv, LoopInv
  <2>3. pc' = pc /\ batch' = batch
    BY <1>1
  <2> SUFFICES ASSUME NEW k \in Loop
               PROVE  /\ op'[k] = NoOp /\ lock' # k
                      /\ pc'[k] = "loop" => batch'[k] = <<>>
                      /\ pc'[k] \in {"cb", "after"} => batch'[k] # <<>>
    BY DEF LoopInv
  <2>4. op'[k] = NoOp
    BY <2>1
  <2>7. lock' # k
    BY <2>1
  <2>5. pc'[k] = "loop" => batch'[k] = <<>>
    BY <2>2, <2>3
  <2>6. pc'[k] \in {"cb", "after"} => batch'[k] # <<>>
    BY <2>2, <2>3
  <2> QED
    BY <2>4, <2>5, <2>6, <2>7
<1>6. HandlerInv'
  <2>1. lock # "handler" /\ lock' # "handler" /\ handler.at \notin {"write", "count"}
    BY <1>1 DEF Inv, HandlerInv
  <2>2. handler.thread \in Loop \cup {Other} /\ lock' # handler.thread
    BY <1>1 DEF Inv, TypeInv, Other
  <2>3. handler.at # "idle" => handler.sig \in Signum
    BY DEF Inv, HandlerInv
  <2> QED
    BY <1>1, <1>2, <2>1, <2>2, <2>3 DEF HandlerInv
<1>7. UNCHANGED <<caught, dispatched, pipe, batch, pc, handler>>
  BY <1>1 DEF counts
<1>3. CASE r.kind = "start"
  <2>1. StartBody(x, r.s, r.once) /\ state' = state
    BY <1>1, <1>3 DEF Commit
  <2>2. /\ signum' = [signum EXCEPT ![x] = r.s] /\ signum[x] = 0
        /\ oneshot' = [oneshot EXCEPT ![x] = @ \/ r.once]
        /\ regular' = [regular EXCEPT ![x] = ~r.once]
    BY <1>1, <1>3, <2>1 DEF StartBody
  <2>3. TypeInv'
    <3>3. disp' \in [Signum -> {"default", "handler", "once"}]
      BY <2>1 DEF Inv, TypeInv, TypeOK, StartBody
    <3>4. /\ signum' \in [Handle -> Signum \cup {0}]
          /\ \A h \in Handle : state'[h] # "open" => signum'[h] = 0
      BY <1>1, <1>3, <2>1, <2>2 DEF Inv, TypeInv, TypeOK
    <3>1. TypeOK'
      BY <1>1, <2>1, <3>3, <3>4 DEF Inv, TypeInv, TypeOK
    <3>2. /\ oneshot' \in [Handle -> BOOLEAN] /\ regular' \in [Handle -> BOOLEAN]
          /\ \A k \in Loop : op'[k] \in Ops(k)
          /\ DOMAIN op' = Loop
      BY <1>1, <2>2, <1>3 DEF Inv, TypeInv, Ops
    <3> QED
      BY <1>7, <3>1, <3>2 DEF Inv, TypeInv
  <2>6. UseInv'
    <3>1. \A h \in Handle \ {x} : /\ signum'[h] = signum[h]
                                  /\ oneshot'[h] = oneshot[h]
                                  /\ regular'[h] = regular[h]
      BY <2>2
    <3>2. /\ regular'[x] = ~r.once /\ oneshot'[x] = (oneshot[x] \/ r.once)
          /\ oneshot[x] => x \in OneShotUse
      BY <2>2, <1>1 DEF Inv, TypeInv, UseInv
    <3>3. /\ regular'[x] => x \in RegularUse
          /\ oneshot'[x] => x \in OneShotUse
          /\ regular'[x] \/ oneshot'[x]
      BY <3>2, <1>1, <1>3
    <3> QED
      BY <3>1, <3>3 DEF Inv, UseInv
  <2>7. DispositionFits'
    <3> SUFFICES ASSUME NEW s \in Signum
                 PROVE  /\ \A h \in Handle : signum'[h] = s /\ regular'[h] => disp'[s] = "handler"
                        /\ (\A h \in Handle : signum'[h] # s) => disp'[s] = "default"
      BY DEF DispositionFits, Watching
    <3>1. CASE s # r.s
      <4>1. disp'[s] = disp[s]
        BY <3>1, <1>1, <1>3, <2>1 DEF StartBody, Inv, TypeInv, TypeOK
      <4>2. \A h \in Handle : /\ signum'[h] = s => h # x
                              /\ h # x => signum'[h] = signum[h] /\ regular'[h] = regular[h]
                              /\ signum[h] = s => h # x
        BY <3>1, <2>2, <1>1 DEF Inv, TypeInv, TypeOK
      <4> QED
        BY <4>1, <4>2 DEF Inv, DispositionFits, Watching
    <3>2. CASE s = r.s
      <4>1. signum'[x] = s /\ signum[x] # s
        BY <3>2, <2>2, <1>1 DEF Inv, TypeInv, TypeOK
      <4>2. \A h \in Handle : signum'[h] = s /\ h # x => signum[h] = s /\ regular'[h] = regular[h]
        BY <2>2, <1>1 DEF Inv, TypeInv, TypeOK
      <4>3. CASE r.once
        <5>1. Watching(s) = {} \/ disp'[s] = disp[s]
          BY <4>3, <3>2, <1>1, <1>3, <2>1 DEF StartBody, Inv, TypeInv, TypeOK
        <5>2. ~regular'[x]
          BY <4>3, <2>2, <1>1 DEF Inv, TypeInv
        <5> QED
          BY <5>1, <5>2, <4>1, <4>2, <1>1 DEF Inv, DispositionFits, Watching
      <4>4. CASE ~r.once
        <5>1. CASE Watching(s) = {} \/ FirstIsOneShot(Watching(s))
          <6>1. disp'[s] = "handler"
            BY <5>1, <4>4, <3>2, <1>1, <1>3, <2>1 DEF StartBody, Inv, TypeInv, TypeOK
          <6> QED
            BY <6>1, <4>1, <1>1
        <5>2. CASE Watching(s) # {} /\ ~FirstIsOneShot(Watching(s))
          <6>1. disp'[s] = disp[s]
            BY <5>2, <4>4, <3>2, <1>1, <1>3, <2>1 DEF StartBody, Inv, TypeInv, TypeOK
          <6>2. PICK h \in Handle : signum[h] = s /\ ~oneshot[h]
            BY <5>2 DEF FirstIsOneShot, Watching
          <6>3. regular[h]
            BY <6>2 DEF Inv, UseInv
          <6>4. disp[s] = "handler"
            BY <6>2, <6>3 DEF Inv, DispositionFits, Watching
          <6> QED
            BY <6>1, <6>4, <4>1, <1>1
        <5> QED
          BY <5>1, <5>2
      <4> QED
        BY <4>3, <4>4
    <3> QED
      BY <3>1, <3>2
  <2>8. CountsExact' /\ NoMessageForClosed'
    BY <1>1, <2>1, CountsKept DEF Inv, NoMessageForClosed, counts
  <2> QED
    BY <2>3, <1>5, <1>6, <2>6, <2>7, <2>8 DEF Inv
<1>4. CASE r.kind # "start"
  <2> DEFINE n == signum[x]
             rest == Watching(n) \ {x}
  <2>1. StopBody(x) /\ state' \in {state, [state EXCEPT ![x] = "closing"]}
    BY <1>1, <1>4 DEF Commit
  <2>2. /\ signum' = [signum EXCEPT ![x] = 0] /\ n \in Signum
        /\ UNCHANGED <<oneshot, regular>>
    BY <1>1, <1>4, <2>1 DEF StopBody, Inv, TypeInv, TypeOK
  <2>3. TypeInv'
    <3>1. /\ signum' \in [Handle -> Signum \cup {0}]
          /\ state' \in [Handle -> {"open", "closing", "closed"}]
      BY <1>1, <2>1, <2>2 DEF Inv, TypeInv, TypeOK
    <3>3. disp' \in [Signum -> {"default", "handler", "once"}]
      BY <2>1, <2>2 DEF Inv, TypeInv, TypeOK, StopBody
    <3>4. \A h \in Handle : state'[h] # "open" => signum'[h] = 0
      BY <1>1, <2>1, <2>2 DEF Inv, TypeInv, TypeOK
    <3>5. TypeOK'
      BY <1>1, <3>1, <3>3, <3>4 DEF Inv, TypeInv, TypeOK
    <3>2. /\ \A k \in Loop : op'[k] \in Ops(k)
          /\ DOMAIN op' = Loop
      BY <1>1 DEF Inv, TypeInv, Ops
    <3> QED
      BY <1>7, <2>2, <3>5, <3>2 DEF Inv, TypeInv
  <2>6. UseInv'
    BY <1>1, <2>2 DEF Inv, TypeInv, TypeOK, UseInv
  <2>7. DispositionFits'
    <3> SUFFICES ASSUME NEW s \in Signum
                 PROVE  /\ \A h \in Handle : signum'[h] = s /\ regular'[h] => disp'[s] = "handler"
                        /\ (\A h \in Handle : signum'[h] # s) => disp'[s] = "default"
      BY DEF DispositionFits, Watching
    <3>1. CASE s # n
      <4>1. disp'[s] = disp[s]
        BY <3>1, <2>1, <2>2 DEF StopBody, Inv, TypeInv, TypeOK
      <4>2. \A h \in Handle : signum'[h] = s <=> signum[h] = s
        BY <3>1, <2>2, <1>1 DEF Inv, TypeInv, TypeOK
      <4>3. \A h \in Handle : regular'[h] = regular[h]
        BY <2>2
      <4> QED
        BY <4>1, <4>2, <4>3 DEF Inv, DispositionFits, Watching
    <3>2. CASE s = n
      <4>1. \A h \in Handle : signum'[h] = s <=> h \in rest
        BY <3>2, <2>2, <1>1 DEF Watching, Inv, TypeInv, TypeOK
      <4>2. CASE rest = {}
        BY <4>1, <4>2, <3>2, <2>1, <2>2 DEF StopBody, Inv, TypeInv, TypeOK
      <4>3. CASE rest # {} /\ FirstIsOneShot(rest) /\ ~oneshot[x]
        <5>0. \A h \in rest : h \in Handle /\ oneshot[h]
          BY <4>3 DEF FirstIsOneShot, Watching
        <5>1. \A h \in rest : ~regular[h]
          BY <5>0 DEF Inv, UseInv
        <5> QED
          BY <5>0, <5>1, <4>1, <4>3, <2>2
      <4>4. CASE rest # {} /\ ~(FirstIsOneShot(rest) /\ ~oneshot[x])
        <5>1. disp'[s] = disp[s]
          BY <4>4, <3>2, <2>1, <2>2 DEF StopBody, Inv, TypeInv, TypeOK
        <5> QED
          BY <5>1, <4>1, <4>4, <2>2, <3>2 DEF Inv, DispositionFits, Watching
      <4> QED
        BY <4>2, <4>3, <4>4
    <3> QED
      BY <3>1, <3>2
  <2>8. CountsExact' /\ \A h \in Handle : InFlight(h)' = InFlight(h)
    BY <1>1, CountsKept DEF Inv, counts
  <2>9. NoMessageForClosed'
    <3>1. \A h \in Handle : state'[h] = "closed" => state[h] = "closed"
      BY <2>1, <1>1 DEF Inv, TypeInv, TypeOK
    <3> QED
      BY <1>1, <3>1, <2>8 DEF Inv, NoMessageForClosed
  <2> QED
    BY <2>3, <1>5, <1>6, <2>6, <2>7, <2>8, <2>9 DEF Inv
<1> QED
  BY <1>3, <1>4


(***************************************************************************)
(* A number of messages is under way.                                      *)
(***************************************************************************)
LEMMA InFlightType ==
  ASSUME Hypotheses, Inv, NEW h \in Handle
  PROVE  InFlight(h) \in Nat
<1>1. loopOf[h] \in Loop
  BY DEF Hypotheses
<1>2. pipe[loopOf[h]] \in Seq(Msg) /\ batch[loopOf[h]] \in Seq(Msg)
  BY <1>1 DEF Inv, TypeInv
<1>3. Msgs(pipe[loopOf[h]], h) \in Nat /\ Msgs(batch[loopOf[h]], h) \in Nat
  BY <1>2, CountType
<1> QED
  BY <1>3 DEF InFlight

(***************************************************************************)
(* uv_close and the end of the closing change nothing but the state of a   *)
(* handle that does not watch.                                             *)
(***************************************************************************)
LEMMA StateNext ==
  ASSUME Hypotheses, Inv, NEW h \in Handle, NEW v \in {"closing", "closed"},
         op[loopOf[h]] = NoOp, signum[h] = 0, state' = [state EXCEPT ![h] = v],
         UNCHANGED <<watchers, counts, pipe, batch, pc, op, lock, handler, raised, forked>>,
         v = "closed" => InFlight(h) = 0
  PROVE  Inv'
<1> USE DEF Hypotheses
<1>1. UNCHANGED <<signum, oneshot, disp, regular, caught, dispatched, pipe, batch, pc, op,
                  lock, handler>>
  BY DEF watchers, counts
<1>2. TypeInv'
  <2>1. TypeOK'
    BY <1>1 DEF Inv, TypeInv, TypeOK
  <2> QED
    BY <2>1, <1>1 DEF Inv, TypeInv
<1>3. LoopInv'
  <2>1. \A k \in Loop : op[k] # NoOp => op[k].h \in Handle \ {h}
    BY DEF Inv, TypeInv, Ops, NoOp
  <2>2. \A k \in Loop : op[k] # NoOp => state'[op[k].h] = state[op[k].h]
    BY <2>1 DEF Inv, TypeInv, TypeOK
  <2> QED
    BY <2>2, <1>1 DEF Inv, LoopInv
<1>4. HandlerInv' /\ UseInv' /\ DispositionFits'
  BY <1>1 DEF Inv, HandlerInv, UseInv, DispositionFits, Watching
<1>5. CountsExact' /\ \A g \in Handle : InFlight(g)' = InFlight(g)
  BY <1>1, CountsKept DEF Inv
<1>6. NoMessageForClosed'
  <2>1. h \notin handler.left \cup handler.now
    BY DEF Inv, HandlerInv, TypeInv
  <2>2. \A g \in Handle : state'[g] = "closed" => state[g] = "closed" \/ (g = h /\ v = "closed")
    BY DEF Inv, TypeInv, TypeOK
  <2> QED
    BY <1>1, <1>5, <2>1, <2>2 DEF Inv, NoMessageForClosed
<1> QED
  BY <1>2, <1>3, <1>4, <1>5, <1>6 DEF Inv

LEMMA CloseNext ==
  ASSUME Hypotheses, Inv, NEW h \in Handle, CloseIdle(h) \/ FinishClose(h)
  PROVE  Inv'
<1>1. CASE CloseIdle(h)
  BY <1>1, StateNext DEF CloseIdle
<1>2. CASE FinishClose(h)
  <2>1. loopOf[h] \in Loop /\ signum[h] = 0 /\ pc[loopOf[h]] = "loop"
        /\ caught[h] \in Int /\ dispatched[h] \in Int /\ caught[h] <= dispatched[h]
    BY <1>2 DEF FinishClose, MayFinish, Inv, TypeInv, TypeOK, Hypotheses
  <2>2. h \notin handler.now
    BY <2>1 DEF Inv, HandlerInv, TypeInv, Hypotheses
  <2>3. InFlight(h) \in Nat
    BY InFlightType
  <2>4. InFlight(h) = caught[h] - dispatched[h]
    <3>1. caught[h] - dispatched[h] + 0 = InFlight(h) - 0
      BY <2>1, <2>2 DEF Inv, CountsExact
    <3> QED
      BY <3>1, <2>1, <2>3
  <2>5. InFlight(h) = 0
    BY <2>1, <2>3, <2>4
  <2> QED
    BY <1>2, <2>1, <2>5, StateNext DEF FinishClose
<1> QED
  BY <1>1, <1>2

(***************************************************************************)
(* A signal interrupts a thread that does not hold the lock.               *)
(***************************************************************************)
LEMMA RaiseNext ==
  ASSUME Hypotheses, Inv, NEW s \in Signum, NEW t \in Loop \cup {Other}, Raise(s, t)
  PROVE  Inv'
<1> USE DEF Hypotheses
<1>1. /\ handler.at = "idle" /\ lock # t
      /\ handler' = [at |-> "lock", thread |-> t, sig |-> s, left |-> {}, now |-> {}]
      /\ disp' = [disp EXCEPT ![s] = IF @ = "once" THEN "default" ELSE @]
      /\ UNCHANGED <<signum, oneshot, regular, state, caught, dispatched, pipe, batch, pc,
                     op, lock>>
  BY DEF Raise, Blocked, counts
<1>2. TypeInv'
  <2>1. TypeOK'
    BY <1>1 DEF Inv, TypeInv, TypeOK
  <2> QED
    BY <2>1, <1>1 DEF Inv, TypeInv
<1>3. LoopInv' /\ UseInv'
  BY <1>1 DEF Inv, LoopInv, UseInv
<1>4. HandlerInv'
  BY <1>1 DEF Inv, HandlerInv, TypeInv
<1>5. DispositionFits'
  <2>1. \A n \in Signum : disp'[n] = IF n = s /\ disp[n] = "once" THEN "default" ELSE disp[n]
    BY <1>1 DEF Inv, TypeInv, TypeOK
  <2> QED
    BY <2>1, <1>1 DEF Inv, DispositionFits, Watching
<1>6. handler'.now = handler.now /\ handler'.left = handler.left
  BY <1>1 DEF Inv, HandlerInv
<1>7. CountsExact' /\ NoMessageForClosed'
  BY <1>1, <1>6, CountsKept DEF Inv, NoMessageForClosed
<1> QED
  BY <1>2, <1>3, <1>4, <1>5, <1>7 DEF Inv

(***************************************************************************)
(* A handle that watches a signal is open.                                 *)
(***************************************************************************)
LEMMA WatchingIsOpen ==
  ASSUME Hypotheses, Inv, NEW h \in Handle, signum[h] # 0
  PROVE  state[h] = "open"
BY DEF Inv, TypeInv, TypeOK

LEMMA HandlerLockNext ==
  ASSUME Hypotheses, Inv, HandlerLock
  PROVE  Inv'
<1> USE DEF Hypotheses
<1>1. /\ handler.at = "lock" /\ lock = "free" /\ lock' = "handler"
      /\ handler' = [handler EXCEPT !.at = "write", !.left = Watching(handler.sig)]
      /\ UNCHANGED <<signum, oneshot, disp, regular, state, caught, dispatched, pipe, batch,
                     pc, op>>
  BY DEF HandlerLock, watchers, counts
<1>2. /\ handler'.at = "write" /\ handler'.left = Watching(handler.sig)
      /\ handler'.sig = handler.sig /\ handler'.thread = handler.thread
      /\ handler'.now = handler.now /\ handler.now = {} /\ handler.left = {}
      /\ handler.sig \in Signum
  BY <1>1 DEF Inv, TypeInv, HandlerInv
<1>3. TypeInv'
  <2>1. TypeOK'
    BY <1>1 DEF Inv, TypeInv, TypeOK
  <2>2. Watching(handler.sig) \in SUBSET Handle
    BY DEF Watching
  <2> QED
    BY <2>1, <2>2, <1>1 DEF Inv, TypeInv
<1>4. LoopInv' /\ UseInv' /\ DispositionFits'
  BY <1>1 DEF Inv, LoopInv, UseInv, DispositionFits, Watching
<1>5. HandlerInv'
  <2>1. handler.thread \in Loop \cup {Other} /\ "handler" # handler.thread
    BY DEF Inv, TypeInv, Other
  <2> QED
    BY <2>1, <1>1, <1>2 DEF HandlerInv, Watching
<1>6. CountsExact' /\ \A g \in Handle : InFlight(g)' = InFlight(g)
  BY <1>1, <1>2, CountsKept DEF Inv
<1>7. NoMessageForClosed'
  <2>1. \A h \in Watching(handler.sig) : state[h] # "closed"
    BY <1>2, WatchingIsOpen DEF Watching
  <2> QED
    BY <2>1, <1>1, <1>2, <1>6 DEF Inv, NoMessageForClosed
<1> QED
  BY <1>3, <1>4, <1>5, <1>6, <1>7 DEF Inv

(***************************************************************************)
(* A message to a handle that watches goes into the pipe of its loop.      *)
(***************************************************************************)
LEMMA HandlerWriteNext ==
  ASSUME Hypotheses, Inv, NEW h \in Handle, HandlerWrite(h)
  PROVE  Inv'
<1> USE DEF Hypotheses
<1> DEFINE l == loopOf[h]
           m == [s |-> handler.sig, h |-> h]
<1>1. /\ handler.at = "write" /\ h \in handler.left
      /\ UNCHANGED <<signum, oneshot, disp, regular, state, caught, dispatched, batch, pc,
                     op, lock>>
  BY DEF HandlerWrite, watchers, counts
<1>2. /\ handler.sig \in Signum /\ signum[h] = handler.sig /\ handler.now = {}
      /\ lock = "handler" /\ lock # handler.thread
      /\ l \in Loop /\ m \in Msg /\ pipe[l] \in Seq(Msg)
  BY <1>1 DEF Inv, HandlerInv, TypeInv, Msg
<1>3. state[h] = "open"
  BY <1>2, WatchingIsOpen
<1>4. LoopInv' /\ UseInv' /\ DispositionFits'
  BY <1>1 DEF Inv, LoopInv, UseInv, DispositionFits, Watching
<1>5. CASE Len(pipe[l]) < PipeSize
  <2>1. /\ pipe' = [pipe EXCEPT ![l] = Append(@, m)]
        /\ handler' = [handler EXCEPT !.at = "count", !.left = @ \ {h}, !.now = {h}]
    BY <1>5 DEF HandlerWrite
  <2>2. /\ handler'.at = "count" /\ handler'.left = handler.left \ {h}
        /\ handler'.now = {h} /\ handler'.sig = handler.sig
        /\ handler'.thread = handler.thread
    BY <2>1 DEF Inv, TypeInv
  <2>3. /\ pipe' \in [Loop -> Seq(Msg)] /\ pipe'[l] = Append(pipe[l], m)
        /\ \A k \in Loop \ {l} : pipe'[k] = pipe[k]
    BY <2>1, <1>2 DEF Inv, TypeInv
  <2>4. TypeInv'
    <3>1. /\ Len(pipe[l]) \in Nat /\ Len(Append(pipe[l], m)) = Len(pipe[l]) + 1
          /\ \A i \in 1 .. Len(pipe[l]) : Append(pipe[l], m)[i] = pipe[l][i]
          /\ Append(pipe[l], m)[Len(pipe[l]) + 1] = m
      BY <1>2
    <3>2. \A k \in Loop : Len(pipe'[k]) <= PipeSize
      <4>1. Len(pipe'[l]) <= PipeSize
        BY <3>1, <2>3, <1>5
      <4>2. \A k \in Loop \ {l} : Len(pipe'[k]) <= PipeSize
        BY <2>3 DEF Inv, TypeInv, TypeOK
      <4> QED
        BY <4>1, <4>2
    <3>3. TypeOK'
      BY <3>2, <1>1 DEF Inv, TypeInv, TypeOK
    <3>4. \A i \in 1 .. Len(pipe'[l]) : loopOf[pipe'[l][i].h] = l
      <4> SUFFICES ASSUME NEW i \in 1 .. Len(pipe[l]) + 1
                   PROVE  loopOf[pipe'[l][i].h] = l
        BY <2>3, <3>1
      <4>1. CASE i = Len(pipe[l]) + 1
        BY <4>1, <3>1, <2>3
      <4>2. CASE i \in 1 .. Len(pipe[l])
        BY <4>2, <3>1, <2>3, <1>2 DEF Inv, TypeInv
      <4> QED
        BY <4>1, <4>2, <3>1
    <3>5. \A k \in Loop : \A i \in 1 .. Len(pipe'[k]) : loopOf[pipe'[k][i].h] = k
      <4>1. \A k \in Loop \ {l} : \A i \in 1 .. Len(pipe'[k]) : loopOf[pipe'[k][i].h] = k
        BY <2>3 DEF Inv, TypeInv
      <4> QED
        BY <3>4, <4>1
    <3>6. handler' \in [at : {"idle", "lock", "write", "count"},
                        thread : Loop \cup {Other}, sig : Signum \cup {0},
                        left : SUBSET Handle, now : SUBSET Handle]
      BY <2>1 DEF Inv, TypeInv
    <3> QED
      BY <3>3, <3>5, <3>6, <2>3, <1>1 DEF Inv, TypeInv
  <2>5. HandlerInv'
    BY <1>1, <1>2, <2>2 DEF Inv, HandlerInv
  <2>6. \A g \in Handle : InFlight(g)' = InFlight(g) + IF g = h THEN 1 ELSE 0
    <3> SUFFICES ASSUME NEW g \in Handle
                 PROVE  InFlight(g)' = InFlight(g) + IF g = h THEN 1 ELSE 0
      OBVIOUS
    <3>1. loopOf[g] \in Loop /\ pipe[loopOf[g]] \in Seq(Msg) /\ batch[loopOf[g]] \in Seq(Msg)
      BY DEF Inv, TypeInv
    <3>2. Msgs(pipe[loopOf[g]], g) \in Nat /\ Msgs(batch[loopOf[g]], g) \in Nat
      BY <3>1, CountType
    <3>3. Msgs(pipe'[loopOf[g]], g) = Msgs(pipe[loopOf[g]], g) + IF g = h THEN 1 ELSE 0
      <4>1. CASE loopOf[g] = l
        <5>1. Msgs(Append(pipe[l], m), g) = Msgs(pipe[l], g) + IF m.h = g THEN 1 ELSE 0
          BY <1>2, CountAppend
        <5> QED
          BY <4>1, <5>1, <2>3, <1>2
      <4>2. CASE loopOf[g] # l
        BY <4>2, <2>3, <3>1, <3>2
      <4> QED
        BY <4>1, <4>2
    <3> QED
      BY <3>2, <3>3, <1>1 DEF InFlight
  <2>7. CountsExact'
    <3> SUFFICES ASSUME NEW g \in Handle
                 PROVE  caught[g] - dispatched[g] + (IF g \in {h} THEN 1 ELSE 0)
                          = InFlight(g)' - IF pc[loopOf[g]] = "after" /\ Head(batch[loopOf[g]]).h = g
                                           THEN 1 ELSE 0
      BY <1>1, <2>2 DEF CountsExact
    <3>1. caught[g] - dispatched[g] + 0
            = InFlight(g) - IF pc[loopOf[g]] = "after" /\ Head(batch[loopOf[g]]).h = g
                            THEN 1 ELSE 0
      BY <1>2 DEF Inv, CountsExact
    <3>2. caught[g] \in Int /\ dispatched[g] \in Int /\ InFlight(g) \in Nat
      BY InFlightType DEF Inv, TypeInv
    <3> QED
      BY <3>1, <3>2, <2>6
  <2>8. NoMessageForClosed'
    BY <1>1, <1>2, <1>3, <2>2, <2>6, InFlightType DEF Inv, NoMessageForClosed
  <2> QED
    BY <1>4, <2>4, <2>5, <2>7, <2>8 DEF Inv
<1>6. CASE ~(Len(pipe[l]) < PipeSize)
  <2>1. /\ pipe' = pipe
        /\ handler' = [handler EXCEPT !.left = @ \ {h}]
    BY <1>6 DEF HandlerWrite
  <2>2. /\ handler'.at = "write" /\ handler'.left = handler.left \ {h}
        /\ handler'.now = handler.now /\ handler'.sig = handler.sig
        /\ handler'.thread = handler.thread
    BY <2>1, <1>1 DEF Inv, TypeInv
  <2>3. TypeInv'
    <3>1. TypeOK'
      BY <1>1, <2>1 DEF Inv, TypeInv, TypeOK
    <3> QED
      BY <3>1, <1>1, <2>1 DEF Inv, TypeInv
  <2>4. HandlerInv'
    BY <1>1, <1>2, <2>2 DEF Inv, HandlerInv
  <2>5. CountsExact' /\ \A g \in Handle : InFlight(g)' = InFlight(g)
    BY <1>1, <2>1, <2>2, CountsKept DEF Inv
  <2>6. NoMessageForClosed'
    BY <1>1, <2>2, <2>5 DEF Inv, NoMessageForClosed
  <2> QED
    BY <1>4, <2>3, <2>4, <2>5, <2>6 DEF Inv
<1> QED
  BY <1>5, <1>6

LEMMA HandlerCountNext ==
  ASSUME Hypotheses, Inv, HandlerCount \/ HandlerEnd
  PROVE  Inv'
<1> USE DEF Hypotheses
<1>1. /\ UNCHANGED <<signum, oneshot, disp, regular, state, dispatched, pipe, batch, pc, op>>
  BY DEF HandlerCount, HandlerEnd, watchers, counts
<1>2. UseInv' /\ DispositionFits'
  BY <1>1 DEF Inv, UseInv, DispositionFits, Watching
<1>3. \A g \in Handle : InFlight(g)' = InFlight(g)
  BY <1>1 DEF InFlight
<1>4. CASE HandlerCount
  <2>1. /\ handler.at = "count" /\ lock' = lock
        /\ caught' = [h \in Handle |-> caught[h] + IF h \in handler.now THEN 1 ELSE 0]
        /\ handler' = [handler EXCEPT !.at = "write", !.now = {}]
    BY <1>4 DEF HandlerCount
  <2>2. /\ handler'.at = "write" /\ handler'.left = handler.left
        /\ handler'.now = {} /\ handler'.sig = handler.sig
        /\ handler'.thread = handler.thread
    BY <2>1 DEF Inv, TypeInv
  <2>3. TypeInv'
    <3>1. TypeOK'
      BY <1>1, <2>1 DEF Inv, TypeInv, TypeOK
    <3>2. caught' \in [Handle -> Int]
      BY <2>1 DEF Inv, TypeInv
    <3> QED
      BY <3>1, <3>2, <1>1, <2>1 DEF Inv, TypeInv
  <2>4. LoopInv'
    BY <1>1, <2>1 DEF Inv, LoopInv
  <2>5. HandlerInv'
    BY <1>1, <2>1, <2>2 DEF Inv, HandlerInv
  <2>6. CountsExact'
    <3> SUFFICES ASSUME NEW g \in Handle
                 PROVE  caught'[g] - dispatched[g] + 0
                          = InFlight(g) - IF pc[loopOf[g]] = "after" /\ Head(batch[loopOf[g]]).h = g
                                          THEN 1 ELSE 0
      BY <1>1, <1>3, <2>2 DEF CountsExact
    <3>1. caught[g] - dispatched[g] + (IF g \in handler.now THEN 1 ELSE 0)
            = InFlight(g) - IF pc[loopOf[g]] = "after" /\ Head(batch[loopOf[g]]).h = g
                            THEN 1 ELSE 0
      BY DEF Inv, CountsExact
    <3>2. caught[g] \in Int /\ dispatched[g] \in Int /\ InFlight(g) \in Nat
          /\ caught'[g] = caught[g] + IF g \in handler.now THEN 1 ELSE 0
      BY <2>1, InFlightType DEF Inv, TypeInv
    <3> QED
      BY <3>1, <3>2
  <2>7. NoMessageForClosed'
    BY <1>1, <1>3, <2>2 DEF Inv, NoMessageForClosed
  <2> QED
    BY <1>2, <2>3, <2>4, <2>5, <2>6, <2>7 DEF Inv
<1>5. CASE HandlerEnd
  <2>1. /\ handler.at = "write" /\ handler.left = {} /\ lock' = "free"
        /\ handler' = NoHandler /\ caught' = caught
    BY <1>5 DEF HandlerEnd, counts
  <2>2. handler.now = {} /\ lock = "handler"
    BY <2>1 DEF Inv, HandlerInv
  <2>3. TypeInv'
    <3>1. TypeOK'
      BY <1>1, <2>1 DEF Inv, TypeInv, TypeOK
    <3> QED
      BY <3>1, <1>1, <2>1 DEF Inv, TypeInv, NoHandler
  <2>4. LoopInv'
    BY <1>1, <2>1, <2>2 DEF Inv, LoopInv
  <2>5. HandlerInv'
    BY <1>1, <2>1 DEF HandlerInv, NoHandler
  <2>6. CountsExact' /\ NoMessageForClosed'
    BY <1>1, <1>3, <2>1, <2>2, CountsKept DEF Inv, NoMessageForClosed, NoHandler
  <2> QED
    BY <1>2, <2>3, <2>4, <2>5, <2>6 DEF Inv
<1> QED
  BY <1>4, <1>5

(***************************************************************************)
(* The loop takes the first messages of its pipe.                          *)
(***************************************************************************)
LEMMA ReadPipeNext ==
  ASSUME Hypotheses, Inv, NEW l \in Loop, ReadPipe(l)
  PROVE  Inv'
<1> USE DEF Hypotheses
<1> DEFINE n == Prefix(l)
           a == SubSeq(pipe[l], 1, n)
           b == SubSeq(pipe[l], n + 1, Len(pipe[l]))
<1>1. /\ pc[l] = "loop" /\ op[l] = NoOp
      /\ batch' = [batch EXCEPT ![l] = a] /\ pipe' = [pipe EXCEPT ![l] = b]
      /\ pc' = [pc EXCEPT ![l] = "event"]
      /\ UNCHANGED <<signum, oneshot, disp, regular, state, caught, dispatched, op, lock,
                     handler>>
  BY DEF ReadPipe, watchers, counts
<1>2. /\ batch[l] = <<>> /\ pipe[l] \in Seq(Msg)
      /\ Len(pipe[l]) \in Nat /\ Len(pipe[l]) <= PipeSize
      /\ n \in 0 .. Len(pipe[l]) /\ n <= BatchSize
  BY <1>1 DEF Inv, TypeInv, TypeOK, LoopInv, Prefix
<1> HIDE DEF n
<1>3. /\ a \in Seq(Msg) /\ Len(a) = n /\ \A i \in 1 .. n : a[i] = pipe[l][i]
      /\ b \in Seq(Msg) /\ Len(b) = Len(pipe[l]) - n
      /\ \A i \in 1 .. Len(pipe[l]) - n : b[i] = pipe[l][i + n]
  <2>1. a \in Seq(Msg) /\ Len(a) = n /\ \A i \in 1 .. n : a[i] = pipe[l][i]
    BY <1>2
  <2>2. b \in Seq(Msg) /\ Len(b) = Len(pipe[l]) - n
    BY <1>2
  <2>3. \A i \in 1 .. Len(pipe[l]) - n : b[i] = pipe[l][i + n]
    BY <1>2
  <2> QED
    BY <2>1, <2>2, <2>3
<1>4. /\ batch'[l] = a /\ pipe'[l] = b /\ pc'[l] = "event"
      /\ \A k \in Loop \ {l} : batch'[k] = batch[k] /\ pipe'[k] = pipe[k] /\ pc'[k] = pc[k]
  BY <1>1 DEF Inv, TypeInv
<1> HIDE DEF a, b
<1>5. TypeInv'
  <2>1. pipe' \in [Loop -> Seq(Msg)] /\ batch' \in [Loop -> Seq(Msg)]
    BY <1>1, <1>3 DEF Inv, TypeInv
  <2>2. Len(pipe'[l]) <= PipeSize /\ Len(batch'[l]) <= BatchSize
    BY <1>2, <1>3, <1>4
  <2>3. \A k \in Loop : Len(pipe'[k]) <= PipeSize /\ Len(batch'[k]) <= BatchSize
    <3>1. \A k \in Loop \ {l} : Len(pipe'[k]) <= PipeSize /\ Len(batch'[k]) <= BatchSize
      BY <1>4 DEF Inv, TypeInv, TypeOK
    <3> QED
      BY <2>2, <3>1
  <2>4. TypeOK'
    BY <1>1, <2>3 DEF Inv, TypeInv, TypeOK
  <2>5. \A i \in 1 .. Len(pipe[l]) : loopOf[pipe[l][i].h] = l
    BY DEF Inv, TypeInv
  <2>6. /\ \A i \in 1 .. Len(b) : loopOf[b[i].h] = l
        /\ \A i \in 1 .. Len(a) : loopOf[a[i].h] = l
    <3>1. \A i \in 1 .. Len(pipe[l]) - n : i + n \in 1 .. Len(pipe[l])
      BY <1>2
    <3>2. \A i \in 1 .. n : i \in 1 .. Len(pipe[l])
      BY <1>2
    <3>3. \A i \in 1 .. Len(a) : loopOf[a[i].h] = l
      BY <2>5, <3>2, <1>3
    <3>4. \A i \in 1 .. Len(b) : loopOf[b[i].h] = l
      <4> SUFFICES ASSUME NEW i \in 1 .. Len(pipe[l]) - n
                   PROVE  loopOf[b[i].h] = l
        BY <1>3
      <4>1. b[i] = pipe[l][i + n] /\ i + n \in 1 .. Len(pipe[l])
        BY <1>3, <3>1
      <4> QED
        BY <2>5, <4>1
    <3> QED
      BY <3>3, <3>4
  <2>7. \A k \in Loop \ {l} : /\ \A i \in 1 .. Len(pipe[k]) : loopOf[pipe[k][i].h] = k
                              /\ \A i \in 1 .. Len(batch[k]) : loopOf[batch[k][i].h] = k
    BY DEF Inv, TypeInv
  <2>8. \A k \in Loop : /\ \A i \in 1 .. Len(pipe'[k]) : loopOf[pipe'[k][i].h] = k
                        /\ \A i \in 1 .. Len(batch'[k]) : loopOf[batch'[k][i].h] = k
    BY <2>6, <2>7, <1>4
  <2>9. pc' \in [Loop -> {"loop", "event", "cb", "after"}]
    BY <1>1 DEF Inv, TypeInv
  <2> QED
    BY <2>1, <2>4, <2>8, <2>9, <1>1 DEF Inv, TypeInv
<1>6. LoopInv'
  BY <1>1, <1>4 DEF Inv, LoopInv
<1>7. HandlerInv' /\ UseInv' /\ DispositionFits'
  BY <1>1 DEF Inv, HandlerInv, UseInv, DispositionFits, Watching
<1>8. \A g \in Handle : InFlight(g)' = InFlight(g)
  <2> SUFFICES ASSUME NEW g \in Handle
               PROVE  InFlight(g)' = InFlight(g)
    OBVIOUS
  <2>1. CASE loopOf[g] = l
    <3>1. Msgs(pipe[l], g) = Msgs(a, g) + Msgs(b, g)
      <4>1. pipe[l] \in Seq(Msg) /\ n \in 0 .. Len(pipe[l])
        BY <1>2
      <4> QED
        BY <4>1, CountSplit, Zenon DEF a, b
    <3>2. Msgs(batch[l], g) = 0
      <4>1. batch[l] \in Seq(Msg)
        BY DEF Inv, TypeInv
      <4> QED
        BY <4>1, <1>2, CountType
    <3>3. Msgs(a, g) \in Nat /\ Msgs(b, g) \in Nat
      BY <1>3, CountType
    <3> QED
      BY <2>1, <3>1, <3>2, <3>3, <1>4 DEF InFlight
  <2>2. CASE loopOf[g] # l
    BY <2>2, <1>4 DEF InFlight
  <2> QED
    BY <2>1, <2>2
<1>9. CountsExact'
  <2> SUFFICES ASSUME NEW g \in Handle
               PROVE  caught[g] - dispatched[g] + (IF g \in handler.now THEN 1 ELSE 0)
                        = InFlight(g) - IF pc'[loopOf[g]] = "after"
                                           /\ Head(batch'[loopOf[g]]).h = g THEN 1 ELSE 0
    BY <1>1, <1>8 DEF CountsExact
  <2>1. caught[g] - dispatched[g] + (IF g \in handler.now THEN 1 ELSE 0)
          = InFlight(g) - IF pc[loopOf[g]] = "after" /\ Head(batch[loopOf[g]]).h = g
                          THEN 1 ELSE 0
    BY DEF Inv, CountsExact
  <2>2. CASE loopOf[g] = l
    BY <2>1, <2>2, <1>1, <1>4
  <2>3. CASE loopOf[g] # l
    BY <2>1, <2>3, <1>4
  <2> QED
    BY <2>2, <2>3
<1>10. NoMessageForClosed'
  BY <1>1, <1>8 DEF Inv, NoMessageForClosed
<1> QED
  BY <1>5, <1>6, <1>7, <1>9, <1>10 DEF Inv

(***************************************************************************)
(* The first message of a batch that is worked on is one of a handle.      *)
(***************************************************************************)
LEMMA HeadOfBatch ==
  ASSUME Hypotheses, Inv, NEW l \in Loop, batch[l] # <<>>
  PROVE  Head(batch[l]) \in Msg /\ Head(batch[l]).h \in Handle
         /\ loopOf[Head(batch[l]).h] = l
<1>1. batch[l] \in Seq(Msg)
  BY DEF Inv, TypeInv
<1>2. Head(batch[l]) = batch[l][1] /\ 1 \in 1 .. Len(batch[l]) /\ Head(batch[l]) \in Msg
  BY <1>1
<1> QED
  BY <1>2 DEF Inv, TypeInv, Msg

(***************************************************************************)
(* A message has been worked on: it is counted as dispatched.              *)
(***************************************************************************)
LEMMA DispatchedNext ==
  ASSUME Hypotheses, Inv, NEW l \in Loop, op[l] = NoOp, pc[l] \in {"event", "cb"},
         batch[l] # <<>>,
         pc' = [pc EXCEPT ![l] = "after"],
         dispatched' = [dispatched EXCEPT ![Head(batch[l]).h] = @ + 1],
         UNCHANGED <<watchers, state, caught, pipe, batch, op, lock, handler, raised, forked>>
  PROVE  Inv'
<1> USE DEF Hypotheses
<1> DEFINE x == Head(batch[l]).h
<1>1. UNCHANGED <<signum, oneshot, disp, regular, state, caught, pipe, batch, op, lock,
                  handler>>
  BY DEF watchers
<1>2. x \in Handle /\ loopOf[x] = l
  BY HeadOfBatch
<1>3. TypeInv'
  <2>1. TypeOK'
    BY <1>1 DEF Inv, TypeInv, TypeOK
  <2>2. dispatched' \in [Handle -> Int] /\ pc' \in [Loop -> {"loop", "event", "cb", "after"}]
    BY <1>2 DEF Inv, TypeInv
  <2> QED
    BY <2>1, <2>2, <1>1 DEF Inv, TypeInv
<1>4. pc'[l] = "after" /\ \A k \in Loop \ {l} : pc'[k] = pc[k]
  BY DEF Inv, TypeInv
<1>5. LoopInv'
  BY <1>1, <1>4 DEF Inv, LoopInv
<1>6. HandlerInv' /\ UseInv' /\ DispositionFits'
  BY <1>1 DEF Inv, HandlerInv, UseInv, DispositionFits, Watching
<1>7. \A g \in Handle : InFlight(g)' = InFlight(g)
  BY <1>1 DEF InFlight
<1>8. CountsExact'
  <2> SUFFICES ASSUME NEW g \in Handle
               PROVE  caught[g] - dispatched'[g] + (IF g \in handler.now THEN 1 ELSE 0)
                        = InFlight(g) - IF pc'[loopOf[g]] = "after"
                                           /\ Head(batch[loopOf[g]]).h = g THEN 1 ELSE 0
    BY <1>1, <1>7 DEF CountsExact
  <2>1. caught[g] - dispatched[g] + (IF g \in handler.now THEN 1 ELSE 0)
          = InFlight(g) - IF pc[loopOf[g]] = "after" /\ Head(batch[loopOf[g]]).h = g
                          THEN 1 ELSE 0
    BY DEF Inv, CountsExact
  <2>2. caught[g] \in Int /\ dispatched[g] \in Int /\ InFlight(g) \in Nat
    BY InFlightType DEF Inv, TypeInv
  <2>3. CASE g = x
    <3>1. dispatched'[g] = dispatched[g] + 1
      BY <2>3, <1>2 DEF Inv, TypeInv
    <3> QED
      BY <2>1, <2>2, <2>3, <3>1, <1>2, <1>4
  <2>4. CASE g # x
    <3>1. dispatched'[g] = dispatched[g]
      BY <2>4, <1>2 DEF Inv, TypeInv
    <3>2. CASE loopOf[g] = l
      BY <2>1, <2>2, <2>4, <3>1, <3>2, <1>4
    <3>3. CASE loopOf[g] # l
      BY <2>1, <2>2, <3>1, <3>3, <1>4
    <3> QED
      BY <3>2, <3>3
  <2> QED
    BY <2>3, <2>4
<1>9. NoMessageForClosed'
  BY <1>1, <1>7 DEF Inv, NoMessageForClosed
<1> QED
  BY <1>3, <1>5, <1>6, <1>8, <1>9 DEF Inv

(***************************************************************************)
(* A step that moves one loop on, without a message being worked on.       *)
(***************************************************************************)
LEMMA PlaceNext ==
  ASSUME Hypotheses, Inv, NEW l \in Loop, NEW v \in {"loop", "cb"},
         pc[l] = "event", op[l] = NoOp, (v = "loop") <=> (batch[l] = <<>>),
         pc' = [pc EXCEPT ![l] = v],
         UNCHANGED <<watchers, state, counts, pipe, batch, op, lock, handler, raised, forked>>
  PROVE  Inv'
<1> USE DEF Hypotheses
<1>1. UNCHANGED <<signum, oneshot, disp, regular, state, caught, dispatched, pipe, batch, op,
                  lock, handler>>
  BY DEF watchers, counts
<1>2. TypeInv'
  <2>1. TypeOK'
    BY <1>1 DEF Inv, TypeInv, TypeOK
  <2>2. pc' \in [Loop -> {"loop", "event", "cb", "after"}]
    BY DEF Inv, TypeInv
  <2> QED
    BY <2>1, <2>2, <1>1 DEF Inv, TypeInv
<1>3. pc'[l] = v /\ \A k \in Loop \ {l} : pc'[k] = pc[k]
  BY DEF Inv, TypeInv
<1>4. LoopInv'
  BY <1>1, <1>3 DEF Inv, LoopInv
<1>5. HandlerInv' /\ UseInv' /\ DispositionFits'
  BY <1>1 DEF Inv, HandlerInv, UseInv, DispositionFits, Watching
<1>6. \A g \in Handle : InFlight(g)' = InFlight(g)
  BY <1>1 DEF InFlight
<1>7. CountsExact'
  <2>1. \A k \in Loop : pc'[k] = "after" <=> pc[k] = "after"
    BY <1>3
  <2> QED
    BY <2>1, <1>1, <1>6 DEF Inv, CountsExact
<1>8. NoMessageForClosed'
  BY <1>1, <1>6 DEF Inv, NoMessageForClosed
<1> QED
  BY <1>2, <1>4, <1>5, <1>7, <1>8 DEF Inv

LEMMA DispatchNext ==
  ASSUME Hypotheses, Inv, NEW l \in Loop, Dispatch(l) \/ CallbackReturn(l)
  PROVE  Inv'
<1>1. CASE Dispatch(l)
  <2>1. pc[l] = "event" /\ batch[l] # <<>> /\ op[l] = NoOp
    BY <1>1 DEF Dispatch, Inv, LoopInv
  <2>2. CASE Head(batch[l]).s = signum[Head(batch[l]).h]
    <3>1. /\ pc' = [pc EXCEPT ![l] = "cb"]
          /\ UNCHANGED <<watchers, state, counts, pipe, batch, op, lock, handler, raised,
                         forked>>
      BY <1>1, <2>2 DEF Dispatch, counts
    <3> QED
      BY <2>1, <3>1, PlaceNext
  <2>3. CASE Head(batch[l]).s # signum[Head(batch[l]).h]
    BY <1>1, <2>1, <2>3, DispatchedNext DEF Dispatch
  <2> QED
    BY <2>2, <2>3
<1>2. CASE CallbackReturn(l)
  <2>1. pc[l] = "cb" /\ batch[l] # <<>> /\ op[l] = NoOp
    BY <1>2 DEF CallbackReturn, Inv, LoopInv
  <2> QED
    BY <1>2, <2>1, DispatchedNext DEF CallbackReturn
<1> QED
  BY <1>1, <1>2

(***************************************************************************)
(* The message that has been worked on leaves the batch.                   *)
(***************************************************************************)
LEMMA AdvanceNext ==
  ASSUME Hypotheses, Inv, NEW l \in Loop, Advance(l)
  PROVE  Inv'
<1> USE DEF Hypotheses
<1>1. /\ op[l] = NoOp
      /\ UNCHANGED <<signum, oneshot, disp, regular, state, caught, dispatched, pipe, op,
                     lock, handler>>
  BY DEF Advance, watchers, counts
<1>2. CASE pc[l] = "event"
  BY <1>2, PlaceNext DEF Advance
<1>3. CASE /\ pc[l] = "after" /\ batch' = [batch EXCEPT ![l] = Tail(@)]
           /\ pc' = [pc EXCEPT ![l] = "event"]
  <2> DEFINE q == batch[l]
             x == Head(batch[l]).h
  <2>1. /\ q \in Seq(Msg) /\ q # <<>> /\ Len(q) \in Nat /\ Len(q) <= BatchSize
        /\ \A i \in 1 .. Len(q) : loopOf[q[i].h] = l
    BY <1>3 DEF Inv, LoopInv, TypeInv, TypeOK
  <2>2. /\ Tail(q) \in Seq(Msg) /\ Len(Tail(q)) = Len(q) - 1
        /\ \A i \in 1 .. Len(q) - 1 : Tail(q)[i] = q[i + 1] /\ i + 1 \in 1 .. Len(q)
    BY <2>1
  <2>3. /\ batch'[l] = Tail(q) /\ pc'[l] = "event"
        /\ \A k \in Loop \ {l} : batch'[k] = batch[k] /\ pc'[k] = pc[k]
    BY <1>3 DEF Inv, TypeInv
  <2>4. TypeInv'
    <3>1. \A k \in Loop : Len(pipe'[k]) <= PipeSize /\ Len(batch'[k]) <= BatchSize
      <4>1. Len(batch'[l]) <= BatchSize
        BY <2>1, <2>2, <2>3
      <4>2. \A k \in Loop \ {l} : Len(batch'[k]) <= BatchSize
        BY <2>3 DEF Inv, TypeInv, TypeOK
      <4>3. \A k \in Loop : Len(pipe'[k]) <= PipeSize
        BY <1>1 DEF Inv, TypeInv, TypeOK
      <4> QED
        BY <4>1, <4>2, <4>3
    <3>2. TypeOK'
      BY <3>1, <1>1 DEF Inv, TypeInv, TypeOK
    <3>3. \A i \in 1 .. Len(batch'[l]) : loopOf[batch'[l][i].h] = l
      BY <2>1, <2>2, <2>3
    <3>4. \A k \in Loop : /\ \A i \in 1 .. Len(pipe'[k]) : loopOf[pipe'[k][i].h] = k
                          /\ \A i \in 1 .. Len(batch'[k]) : loopOf[batch'[k][i].h] = k
      <4>1. \A k \in Loop \ {l} : \A i \in 1 .. Len(batch'[k]) : loopOf[batch'[k][i].h] = k
        BY <2>3 DEF Inv, TypeInv
      <4>2. \A k \in Loop : \A i \in 1 .. Len(pipe'[k]) : loopOf[pipe'[k][i].h] = k
        BY <1>1 DEF Inv, TypeInv
      <4> QED
        BY <3>3, <4>1, <4>2
    <3>5. /\ batch' \in [Loop -> Seq(Msg)]
          /\ pc' \in [Loop -> {"loop", "event", "cb", "after"}]
      BY <1>3, <2>2 DEF Inv, TypeInv
    <3> QED
      BY <3>2, <3>4, <3>5, <1>1 DEF Inv, TypeInv
  <2>5. LoopInv'
    BY <1>1, <2>3 DEF Inv, LoopInv
  <2>6. HandlerInv' /\ UseInv' /\ DispositionFits'
    BY <1>1 DEF Inv, HandlerInv, UseInv, DispositionFits, Watching
  <2>7. x \in Handle /\ loopOf[x] = l
    BY <2>1, HeadOfBatch
  <2>8. \A g \in Handle : InFlight(g)' = InFlight(g) - IF g = x THEN 1 ELSE 0
    <3> SUFFICES ASSUME NEW g \in Handle
                 PROVE  InFlight(g)' = InFlight(g) - IF g = x THEN 1 ELSE 0
      OBVIOUS
    <3>1. loopOf[g] \in Loop /\ pipe[loopOf[g]] \in Seq(Msg) /\ batch[loopOf[g]] \in Seq(Msg)
      BY DEF Inv, TypeInv
    <3>2. Msgs(pipe[loopOf[g]], g) \in Nat /\ Msgs(batch[loopOf[g]], g) \in Nat
      BY <3>1, CountType
    <3>3. CASE loopOf[g] = l
      <4>1. Msgs(q, g) = Msgs(Tail(q), g) + IF Head(q).h = g THEN 1 ELSE 0
        BY <2>1, CountTail, Zenon
      <4>2. Msgs(Tail(q), g) \in Nat
        BY <2>2, CountType
      <4> QED
        BY <3>2, <3>3, <4>1, <4>2, <2>3, <1>1 DEF InFlight
    <3>4. CASE loopOf[g] # l
      BY <3>1, <3>2, <3>4, <2>3, <2>7, <1>1 DEF InFlight
    <3> QED
      BY <3>3, <3>4
  <2>9. CountsExact'
    <3> SUFFICES ASSUME NEW g \in Handle
                 PROVE  caught[g] - dispatched[g] + (IF g \in handler.now THEN 1 ELSE 0)
                          = InFlight(g)' - IF pc'[loopOf[g]] = "after"
                                              /\ Head(batch'[loopOf[g]]).h = g THEN 1 ELSE 0
      BY <1>1 DEF CountsExact
    <3>1. caught[g] - dispatched[g] + (IF g \in handler.now THEN 1 ELSE 0)
            = InFlight(g) - IF pc[loopOf[g]] = "after" /\ Head(batch[loopOf[g]]).h = g
                            THEN 1 ELSE 0
      BY DEF Inv, CountsExact
    <3>2. InFlight(g) \in Nat
      BY InFlightType
    <3>3. CASE loopOf[g] = l
      BY <3>1, <3>2, <3>3, <1>3, <2>3, <2>8
    <3>4. CASE loopOf[g] # l
      BY <3>1, <3>2, <3>4, <2>3, <2>7, <2>8
    <3> QED
      BY <3>3, <3>4
  <2>10. NoMessageForClosed'
    <3>1. \A g \in Handle : InFlight(g) \in Nat /\ InFlight(g)' \in Nat
      <4>1. \A g \in Handle : InFlight(g) \in Nat
        BY InFlightType
      <4>2. \A g \in Handle : /\ loopOf[g] \in Loop /\ pipe'[loopOf[g]] \in Seq(Msg)
                              /\ batch'[loopOf[g]] \in Seq(Msg)
        BY <2>4 DEF TypeInv
      <4>3. \A g \in Handle : /\ Msgs(pipe'[loopOf[g]], g) \in Nat
                              /\ Msgs(batch'[loopOf[g]], g) \in Nat
        BY <4>2, CountType
      <4> QED
        BY <4>1, <4>3 DEF InFlight
    <3>2. \A g \in Handle : InFlight(g) = 0 => InFlight(g)' = 0
      BY <3>1, <2>8
    <3> QED
      BY <3>2, <1>1 DEF Inv, NoMessageForClosed
  <2> QED
    BY <2>4, <2>5, <2>6, <2>9, <2>10 DEF Inv
<1> QED
  BY <1>2, <1>3 DEF Advance

(***************************************************************************)
(* The child of a fork starts with empty pipes and with no counts.         *)
(***************************************************************************)
LEMMA ForkNext ==
  ASSUME Hypotheses, Inv, Fork
  PROVE  Inv'
<1> USE DEF Hypotheses
<1>1. /\ \A l \in Loop : pc[l] = "loop" /\ op[l] = NoOp
      /\ pipe' = [l \in Loop |-> <<>>]
      /\ caught' = [h \in Handle |-> 0] /\ dispatched' = [h \in Handle |-> 0]
      /\ lock' = "free" /\ handler' = NoHandler
      /\ UNCHANGED <<signum, oneshot, disp, regular, state, batch, pc, op>>
  BY DEF Fork, ForkCounts, watchers
<1>2. \A l \in Loop : batch[l] = <<>>
  BY <1>1 DEF Inv, LoopInv
<1>3. TypeInv'
  <2>1. TypeOK'
    BY <1>1, <1>2 DEF Inv, TypeInv, TypeOK
  <2>2. pipe' \in [Loop -> Seq(Msg)]
    BY <1>1
  <2> QED
    BY <2>1, <2>2, <1>1 DEF Inv, TypeInv, NoHandler
<1>4. LoopInv'
  BY <1>1 DEF Inv, LoopInv
<1>5. HandlerInv'
  BY <1>1 DEF HandlerInv, NoHandler
<1>6. UseInv' /\ DispositionFits'
  BY <1>1 DEF Inv, UseInv, DispositionFits, Watching
<1>7. \A g \in Handle : InFlight(g)' = 0
  <2>1. <<>> \in Seq(Msg) /\ \A h : Msgs(<<>>, h) = 0
    <3>1. <<>> \in Seq(Msg)
      OBVIOUS
    <3> QED
      BY <3>1, CountType
  <2>2. \A g \in Handle : loopOf[g] \in Loop /\ pipe'[loopOf[g]] = <<>>
                          /\ batch'[loopOf[g]] = <<>>
    BY <1>1, <1>2
  <2> QED
    BY <2>1, <2>2 DEF InFlight
<1>8. CountsExact' /\ NoMessageForClosed'
  <2>1. \A g \in Handle : pc'[loopOf[g]] = "loop" /\ caught'[g] = 0 /\ dispatched'[g] = 0
    BY <1>1
  <2> QED
    BY <2>1, <1>1, <1>7 DEF CountsExact, NoMessageForClosed, NoHandler
<1> QED
  BY <1>3, <1>4, <1>5, <1>6, <1>8 DEF Inv

(***************************************************************************)
(* Every step keeps the invariant.                                         *)
(***************************************************************************)
LEMMA InvNext ==
  ASSUME Hypotheses, Inv, [Next]_vars
  PROVE  Inv'
<1>1. ASSUME NEW l \in Loop, Lock(l) \/ LoopStep(l)
      PROVE  Inv'
  BY <1>1, LockNext, CommitNext, ReadPipeNext, DispatchNext, AdvanceNext DEF LoopStep
<1>2. ASSUME NEW h \in Handle, CloseIdle(h) \/ FinishClose(h)
      PROVE  Inv'
  BY <1>2, CloseNext
<1>3. ASSUME NEW s \in Signum, NEW t \in Loop \cup {Other}, Raise(s, t)
      PROVE  Inv'
  BY <1>3, RaiseNext
<1>4. CASE HandlerStep
  BY <1>4, HandlerLockNext, HandlerWriteNext, HandlerCountNext DEF HandlerStep
<1>5. CASE Fork
  BY <1>5, ForkNext
<1>6. CASE UNCHANGED vars
  <2> USE <1>6 DEF vars, watchers, counts
  <2>1. TypeInv' /\ LoopInv' /\ HandlerInv' /\ UseInv'
    BY DEF Inv, TypeInv, TypeOK, LoopInv, HandlerInv, UseInv
  <2>2. CountsExact' /\ DispositionFits' /\ NoMessageForClosed'
    BY DEF Inv, CountsExact, DispositionFits, NoMessageForClosed, InFlight, Watching
  <2> QED
    BY <2>1, <2>2 DEF Inv
<1> QED
  BY <1>1, <1>2, <1>3, <1>4, <1>5, <1>6 DEF Next

LEMMA InvAlways ==
  ASSUME Hypotheses
  PROVE  Spec => []Inv
<1>1. Init => Inv
  BY InvInit
<1>2. Inv /\ [Next]_vars => Inv'
  BY InvNext
<1> QED
  BY <1>1, <1>2, PTL DEF Spec

(***************************************************************************)
(* Type correctness (signal.c): a watcher has a signal only while its      *)
(* handle is open, and the pipe never holds more than it can.              *)
(***************************************************************************)
THEOREM TypeCorrect ==
  ASSUME Hypotheses
  PROVE  Spec => []TypeOK
<1>1. Inv => TypeOK
  BY DEF Inv, TypeInv
<1> QED
  BY <1>1, InvAlways, PTL

(***************************************************************************)
(* No handle is given back while a message names it, nor while the signal  *)
(* handler may still write one.                                            *)
(***************************************************************************)
THEOREM ClosedIsUnnamed ==
  ASSUME Hypotheses
  PROVE  Spec => []NoMessageForClosed
<1>1. Inv => NoMessageForClosed
  BY DEF Inv
<1> QED
  BY <1>1, InvAlways, PTL

(***************************************************************************)
(* The two counters differ by the messages under way, whatever the size of *)
(* the pipe and the order of starts, stops, signals and forks.             *)
(***************************************************************************)
THEOREM CountersAgree ==
  ASSUME Hypotheses
  PROVE  Spec => []CountsExact
<1>1. Inv => CountsExact
  BY DEF Inv
<1> QED
  BY <1>1, InvAlways, PTL

(***************************************************************************)
(* The kernel's disposition is what the watchers of a signal ask for.      *)
(***************************************************************************)
THEOREM DispositionCorrect ==
  ASSUME Hypotheses
  PROVE  Spec => []DispositionFits
<1>1. Inv => DispositionFits
  BY DEF Inv
<1> QED
  BY <1>1, InvAlways, PTL

(***************************************************************************)
(* A signal handler never waits for a lock of the thread it interrupted:   *)
(* the lock is taken with all signals blocked.                             *)
(***************************************************************************)
THEOREM HandlerNeverWaitsForItself ==
  ASSUME Hypotheses
  PROVE  Spec => []NoSelfDeadlock
<1>1. Inv => NoSelfDeadlock
  BY DEF Inv, HandlerInv, NoSelfDeadlock
<1> QED
  BY <1>1, InvAlways, PTL
=============================================================================
