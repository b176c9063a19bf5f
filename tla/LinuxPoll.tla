----------------------------- MODULE LinuxPoll ------------------------------
(***************************************************************************)
(* I/O watchers of a libuv loop on Linux: uv__io_start, uv__io_stop and    *)
(* uv__io_close (src/unix/core.c), uv_loop_fork (src/unix/loop.c) and      *)
(* uv__io_poll (src/unix/linux.c), which tells epoll about them directly   *)
(* or through a second io_uring whose commands are executed in batches.    *)
(*                                                                         *)
(* Each open file has one watcher and is named by it.  epoll knows a file  *)
(* by the file and the descriptor it was added with, and drops it when the *)
(* file is closed everywhere.                                              *)
(***************************************************************************)
EXTENDS Integers, Sequences, FiniteSets, SequencesExt

CONSTANTS
  Fd,          \* descriptor numbers
  File,        \* bound: files that are ever opened, each once
  Shared,      \* files that another process keeps open
  Opened,      \* files that are open and read at the start
  Signal,      \* the file of signal_io_watcher, or a value outside File
  RingSize,    \* 256, entries of the control ring
  MaxEvents,   \* 1024, events that one epoll_pwait returns
  Count,       \* 48, polls in a row when the events fill the array
  MaxUse       \* bound: calls of user code

VARIABLES
  fdOf,            \* w->fd of each file, NotYet before and Closed after
  elsewhere,       \* files that another process has open too
  pevents, events, \* of each watcher
  watchers,        \* loop->watchers[fd]
  watcher_queue,
  ctl,             \* the ring exists
  k,               \* epoll, the ring and the array prep, see below
  inv,             \* lfields->inv is set
  batch,           \* the events of the last epoll_pwait, not yet handled
  filled,          \* they filled the array
  nevents, have_signals, count, timeout,
  user_timeout,    \* for the second wait when idle time is measured, or NoTimeout
  delivered,       \* the last event given to a watcher, for NoStaleEvent
  forgotten,       \* watchers that waited in the queue at uv_loop_fork
  uses,            \* calls of user code
  pc

None == "none"
NotYet == -2
Closed == -1
NoTimeout == -2
Timeouts == {-1, 1}  \* the wait of 0 is that which measuring idle time adds
Absent == {}     \* no watcher has an empty mask

(***************************************************************************)
(* k.ep: the mask of each file and descriptor in the epoll set, Absent   *)
(* when it is not there; k.sq: commands in the ring, <<op, fd, slot>>; k.tail:  *)
(* *ctl->sqtail modulo the size; k.prep: the array of masks; k.aborted:    *)
(* abort() was called.                                                     *)
(***************************************************************************)
Empty == [f \in File |-> [d \in Fd |-> Absent]]

watcher == <<pevents, events, watchers, watcher_queue>>
files == <<fdOf, elsewhere>>
locals == <<nevents, have_signals, count, timeout, user_timeout>>
vars == <<files, forgotten, watcher, ctl, k, inv, batch, filled, locals, delivered, uses, pc>>

Open(d) == {f \in File : fdOf[f] = d}

Init ==
  /\ fdOf = CHOOSE g \in [File -> Fd \cup {NotYet}] :
              /\ \A f \in File : f \in Opened <=> g[f] # NotYet
              /\ \A f1, f2 \in Opened : f1 # f2 => g[f1] # g[f2]
  /\ elsewhere = Shared /\ forgotten = {}
  /\ pevents = [f \in File |-> IF f \in Opened THEN {"in"} ELSE {}]
  /\ events = [f \in File |-> {}]
  /\ watchers = [d \in Fd |-> IF Open(d) = {} THEN None ELSE CHOOSE f \in Open(d) : TRUE]
  /\ watcher_queue = SetToSeq(Opened)
  /\ ctl \in BOOLEAN
  /\ k = [ep |-> Empty, sq |-> <<>>, tail |-> 0,
          prep |-> [s \in 0 .. RingSize - 1 |-> {}], aborted |-> FALSE]
  /\ inv = FALSE /\ batch = <<>> /\ filled = FALSE
  /\ nevents = 0 /\ have_signals = FALSE /\ count = 0 /\ timeout = 0
  /\ user_timeout = NoTimeout
  /\ delivered = <<None, None>> /\ uses = 0
  /\ pc = "user"

-----------------------------------------------------------------------------
(* The kernel: epoll_ctl.                                                  *)

Ctl(ep, op, d, mask) ==
  IF Open(d) = {} THEN [ep |-> ep, res |-> "EBADF"]
  ELSE LET f == CHOOSE f \in Open(d) : TRUE IN
       CASE op = "ADD" /\ ep[f][d] # Absent -> [ep |-> ep, res |-> "EEXIST"]
         [] op # "ADD" /\ ep[f][d] = Absent -> [ep |-> ep, res |-> "ENOENT"]
         [] OTHER -> [ep |-> [ep EXCEPT ![f][d] = IF op = "DEL" THEN Absent ELSE mask],
                      res |-> "ok"]

-----------------------------------------------------------------------------
(* uv__epoll_ctl_prep and uv__epoll_ctl_flush.                             *)

\* May a failed command be ignored, or an ADD be repeated as MOD?
Harmless(op, res) == op = "DEL" \/ (op = "ADD" /\ res = "EEXIST")

\* io_uring_enter executes the commands in order; a failed ADD is kept.
Enter(x) ==
  LET one(a, e) ==
        LET r == Ctl(a.ep, e[1], e[2], x.prep[e[3]]) IN
        [ep |-> r.ep,
         again |-> IF e[1] = "ADD" /\ r.res = "EEXIST" THEN Append(a.again, e) ELSE a.again,
         aborted |-> a.aborted \/ (r.res # "ok" /\ ~Harmless(e[1], r.res))]
  IN FoldLeft(one, [ep |-> x.ep, again |-> <<>>, aborted |-> x.aborted], x.sq)

\* What is in the other slots does not matter any more.
Used(p, slots) == [s \in DOMAIN p |-> IF s \in slots THEN p[s] ELSE {}]

\* The repeated commands go into the emptied ring; when they fill it, which
\* only the last one can, the inner flush executes them.
Flush(x) ==
  LET done == Enter(x)
      n == Len(done.again)
      slot(j) == (x.tail + j - 1) % RingSize
      put(p, j) == [p EXCEPT ![slot(j)] = x.prep[done.again[j][3]]]
      filledRing ==
        [ep |-> done.ep, aborted |-> done.aborted,
         sq |-> [j \in 1 .. n |-> <<"MOD", done.again[j][2], slot(j)>>],
         tail |-> (x.tail + n) % RingSize,
         prep |-> Used(FoldLeft(put, x.prep, [j \in 1 .. n |-> j]), {slot(j) : j \in 1 .. n})]
      inner == Enter(filledRing)
  IN IF n < RingSize THEN filledRing
     ELSE [filledRing EXCEPT !.ep = inner.ep, !.sq = <<>>, !.aborted = inner.aborted]

\* Mutant: what the first flush repeats stays in the ring.
FlushOnce(x) == IF x.sq = <<>> THEN x ELSE Flush(x)

\* while (*ctl->sqhead != *ctl->sqtail): twice is enough, as MOD is not repeated.
FlushAll(x) ==
  LET once == IF x.sq = <<>> THEN x ELSE Flush(x)
  IN IF once.sq = <<>> THEN once ELSE Flush(once)

Prep(x, op, d, mask) ==
  IF ~ctl
  THEN LET r == Ctl(x.ep, op, d, mask)
           r2 == Ctl(x.ep, "MOD", d, mask)
       IN CASE r.res = "ok" \/ op = "DEL" -> [x EXCEPT !.ep = r.ep]
            [] op = "ADD" /\ r.res = "EEXIST" ->
                 [x EXCEPT !.ep = r2.ep, !.aborted = @ \/ r2.res # "ok"]
            [] OTHER -> [x EXCEPT !.aborted = TRUE]
  ELSE LET added == [x EXCEPT !.prep[x.tail] = mask,
                              !.sq = Append(@, <<op, d, x.tail>>),
                              !.tail = (@ + 1) % RingSize]
       IN IF Len(added.sq) = RingSize THEN Flush(added) ELSE added

-----------------------------------------------------------------------------
(* What user code, and the loop around uv__io_poll, may do.                *)

User ==
  /\ pc \in {"user", "cb", "sigcb"}
  /\ uses < MaxUse /\ uses' = uses + 1

\* A file is opened, perhaps on a number that was just closed.
OpenFile(f, d) ==
  /\ User /\ fdOf[f] = NotYet /\ Open(d) = {}
  /\ fdOf' = [fdOf EXCEPT ![f] = d]
  /\ UNCHANGED <<elsewhere, forgotten, watcher, ctl, k, inv, batch, filled, locals, delivered, pc>>

IsOpen(f) == fdOf[f] \in Fd
Queued(f) == \E j \in DOMAIN watcher_queue : watcher_queue[j] = f
Queue(f) == watcher_queue' = IF Queued(f) THEN watcher_queue ELSE Append(watcher_queue, f)
Unqueued(f) == SelectSeq(watcher_queue, LAMBDA g : g # f)

\* uv__io_start.
Start(f, mask) ==
  /\ User /\ IsOpen(f)
  /\ pevents' = [pevents EXCEPT ![f] = @ \cup mask]
  /\ IF events[f] = pevents[f] \cup mask
     THEN UNCHANGED <<watcher_queue, watchers>>
     ELSE /\ Queue(f)
          /\ watchers' = IF watchers[fdOf[f]] = None
                         THEN [watchers EXCEPT ![fdOf[f]] = f] ELSE watchers
  /\ UNCHANGED <<files, forgotten, events, ctl, k, inv, batch, filled, locals, delivered, pc>>

\* Mutant: a stopped watcher keeps the mask that epoll was told.
StoppedKeeping(f, mask) ==
  /\ pevents' = [pevents EXCEPT ![f] = @ \ mask]
  /\ watcher_queue' = Unqueued(f) /\ UNCHANGED events
  /\ watchers' = IF watchers[fdOf[f]] = f
                 THEN [watchers EXCEPT ![fdOf[f]] = None] ELSE watchers

\* uv__io_stop: the watcher without the events of mask.
Stopped(f, mask) ==
  /\ pevents' = [pevents EXCEPT ![f] = @ \ mask]
  /\ IF pevents[f] \subseteq mask
     THEN /\ watcher_queue' = Unqueued(f)
          /\ events' = [events EXCEPT ![f] = {}]
          /\ watchers' = IF watchers[fdOf[f]] = f
                         THEN [watchers EXCEPT ![fdOf[f]] = None] ELSE watchers
     ELSE Queue(f) /\ UNCHANGED <<events, watchers>>

Stop(f, mask) ==
  /\ User /\ IsOpen(f)
  /\ Stopped(f, mask)
  /\ UNCHANGED <<files, forgotten, ctl, k, inv, batch, filled, locals, delivered, pc>>

\* Mutant: events that were fetched already stay valid.
InvalidatedNothing(b, d) == b

Invalidated(b, d) == [j \in DOMAIN b |-> IF b[j].fd = d THEN [b[j] EXCEPT !.fd = -1] ELSE b[j]]

\* uv__io_close with uv__platform_invalidate_fd, and uv__close.
Close(f) ==
  LET d == fdOf[f]
      x == IF inv THEN Prep(k, "DEL", d, {}) ELSE [k EXCEPT !.ep = Ctl(k.ep, "DEL", d, {}).ep]
  IN
  /\ User /\ IsOpen(f)
  /\ Stopped(f, {"in", "out"})
  /\ batch' = IF inv THEN Invalidated(batch, d) ELSE batch
  /\ k' = IF f \in elsewhere THEN x ELSE [x EXCEPT !.ep[f] = Empty[f]]
  /\ fdOf' = [fdOf EXCEPT ![f] = Closed]
  /\ UNCHANGED <<elsewhere, forgotten, ctl, inv, filled, locals, delivered, pc>>

\* uv__io_check_fd: the file is added and deleted again.
CheckFd(f) ==
  LET added == Ctl(k.ep, "ADD", fdOf[f], {"in"}).ep IN
  /\ User /\ IsOpen(f) /\ watchers[fdOf[f]] = None
  /\ k' = [k EXCEPT !.ep = Ctl(added, "DEL", fdOf[f], {}).ep]
  /\ UNCHANGED <<files, forgotten, watcher, ctl, inv, batch, filled, locals, delivered, pc>>

\* Mutant: the watchers keep the events that the old epoll had.
RearmedNobody == {}

\* Watchers that uv_loop_fork queues again: those that are not in the queue.
Rearmed == {f \in File : (\E d \in Fd : watchers[d] = f) /\ pevents[f] # {} /\ ~Queued(f)}

\* uv_loop_fork with uv__io_fork, in a child process: a new epoll, new rings.
LoopFork ==
  /\ pc = "user" /\ User
  /\ k' = [k EXCEPT !.ep = Empty, !.sq = <<>>, !.tail = 0]
  /\ ctl' \in BOOLEAN
  /\ events' = [f \in File |-> IF f \in Rearmed THEN {} ELSE events[f]]
  /\ watcher_queue' = watcher_queue \o SetToSeq(Rearmed)
  /\ forgotten' = {f \in File : Queued(f) /\ events[f] # {}}
  /\ elsewhere' = {f \in File : f \in elsewhere \/ IsOpen(f)}
  /\ UNCHANGED <<fdOf, pevents, watchers, inv, batch, filled, locals, delivered, pc>>

-----------------------------------------------------------------------------
(* uv__io_poll.                                                            *)

NoWatchers == \A d \in Fd : watchers[d] = None

\* UV_METRICS_IDLE_TIME makes the first wait one that does not block.
PollBegin(t, idle) ==
  /\ pc = "user"
  /\ timeout' = IF idle THEN 0 ELSE t
  /\ user_timeout' = IF idle THEN t ELSE NoTimeout
  /\ count' = Count
  /\ pc' = "queue"
  /\ UNCHANGED <<files, forgotten, watcher, ctl, k, inv, batch, filled, nevents,
                 have_signals, delivered>>

Register ==
  /\ pc = "queue" /\ watcher_queue # <<>>
  /\ LET f == Head(watcher_queue) IN
     /\ watcher_queue' = Tail(watcher_queue)
     /\ events' = [events EXCEPT ![f] = pevents[f]]
     /\ k' = Prep(k, IF events[f] = {} THEN "ADD" ELSE "MOD", fdOf[f], pevents[f])
  /\ UNCHANGED <<files, forgotten, pevents, watchers, ctl, inv, batch, filled, locals, delivered, pc>>

Registered == pc = "queue" /\ watcher_queue = <<>>

\* loop->nfds == 0, with no file system request in the other ring.
NothingToPoll ==
  /\ Registered /\ NoWatchers
  /\ pc' = "end"
  /\ UNCHANGED <<files, forgotten, watcher, ctl, k, inv, batch, filled, locals, delivered>>

\* Mutant: commands wait in the ring while the loop sleeps.
BeforeWaitLater(x) == x

BeforeWait(x) == FlushAll(x)

EnterWait ==
  /\ (Registered \/ pc = "again")
  /\ ~NoWatchers
  /\ k' = BeforeWait(k)
  /\ pc' = "wait"
  /\ UNCHANGED <<files, forgotten, watcher, ctl, inv, batch, filled, locals, delivered>>

NoMoreWatchers ==
  /\ pc = "again" /\ NoWatchers
  /\ pc' = "end"
  /\ UNCHANGED <<files, forgotten, watcher, ctl, k, inv, batch, filled, locals, delivered>>

\* epoll_pwait returns events of different files, or nothing.
Ready == {e \in [file : File, fd : Fd] : k.ep[e.file][e.fd] # Absent}

Wait ==
  /\ pc = "wait"
  /\ \E set \in SUBSET Ready :
       /\ set # {} /\ Cardinality(set) <= MaxEvents
       /\ \E seq \in SetToAllKPermutations(set) : Len(seq) = Cardinality(set) /\
            \E what \in [DOMAIN seq -> {"in", "out", "hup"}] :
              /\ \A j \in DOMAIN seq : what[j] \in k.ep[seq[j].file][seq[j].fd] \cup {"hup"}
              /\ batch' = [j \in DOMAIN seq |->
                             [file |-> seq[j].file, fd |-> seq[j].fd, what |-> what[j]]]
              /\ filled' = (Len(seq) = MaxEvents)
  /\ inv' = TRUE /\ nevents' = 0 /\ have_signals' = FALSE
  /\ pc' = "batch"
  /\ UNCHANGED <<files, forgotten, watcher, ctl, k, count, timeout, user_timeout, delivered>>

\* Nothing came in time, or a signal interrupted the wait.
WaitNothing(interrupted) ==
  /\ pc = "wait"
  /\ interrupted \/ timeout # -1
  /\ timeout' = IF user_timeout # NoTimeout THEN user_timeout ELSE timeout
  /\ user_timeout' = NoTimeout
  /\ pc' = CASE user_timeout = NoTimeout /\ ~interrupted -> "user"
             [] timeout' = 0 -> "end"
             [] OTHER -> "again"
  /\ UNCHANGED <<files, forgotten, watcher, ctl, k, inv, batch, filled, nevents,
                 have_signals, count, delivered>>

\* The next event: skipped, disarmed or given to the watcher.
Handle ==
  /\ pc = "batch" /\ batch # <<>>
  /\ batch' = Tail(batch)
  /\ LET e == Head(batch)
         w == IF e.fd = -1 THEN None ELSE watchers[e.fd]
     IN \/ /\ e.fd = -1
           /\ UNCHANGED <<k, nevents, have_signals, delivered, pc>>
        \/ /\ e.fd # -1 /\ w = None
           /\ k' = Prep(k, "DEL", e.fd, {})
           /\ UNCHANGED <<nevents, have_signals, delivered, pc>>
        \/ /\ w # None /\ e.what \notin pevents[w] \cup {"hup"}
           /\ UNCHANGED <<k, nevents, have_signals, delivered, pc>>
        \/ /\ w # None /\ e.what \in pevents[w] \cup {"hup"}
           /\ nevents' = 1
           /\ delivered' = <<e.file, w>>
           /\ IF w = Signal THEN have_signals' = TRUE /\ UNCHANGED pc
                            ELSE pc' = "cb" /\ UNCHANGED have_signals
           /\ UNCHANGED k
  /\ UNCHANGED <<files, forgotten, watcher, ctl, inv, filled, count, timeout, user_timeout>>

CallbackReturn ==
  /\ pc \in {"cb", "sigcb"}
  /\ pc' = IF pc = "cb" THEN "batch" ELSE "handled"
  /\ delivered' = <<None, None>>
  /\ UNCHANGED <<files, forgotten, watcher, ctl, k, inv, batch, filled, locals>>

BatchEnd ==
  /\ pc = "batch" /\ batch = <<>>
  /\ pc' = IF have_signals THEN "sigcb" ELSE "handled"
  /\ delivered' = <<None, None>>
  /\ UNCHANGED <<files, forgotten, watcher, ctl, k, inv, batch, filled, locals>>

\* After the events: poll again without blocking, wait again, or stop.
PollAgain ==
  LET wait == IF user_timeout # NoTimeout THEN user_timeout ELSE timeout
      full == nevents # 0 /\ ~have_signals /\ filled
  IN
  /\ pc = "handled"
  /\ inv' = FALSE /\ nevents' = 0 /\ have_signals' = FALSE /\ filled' = FALSE
  /\ user_timeout' = NoTimeout
  /\ count' = IF full THEN count - 1 ELSE count
  /\ timeout' = IF full /\ count - 1 # 0 THEN 0 ELSE wait
  /\ pc' = IF (full /\ count - 1 # 0) \/ (nevents = 0 /\ wait # 0) THEN "again" ELSE "end"
  /\ UNCHANGED <<files, forgotten, watcher, ctl, k, batch, delivered>>

\* real_timeout is used up: the loop ends instead of waiting again.
TimeIsUp ==
  /\ pc = "again" /\ timeout > 0
  /\ pc' = "end"
  /\ UNCHANGED <<files, forgotten, watcher, ctl, k, inv, batch, filled, locals, delivered>>

PollEnd ==
  /\ pc = "end"
  /\ k' = IF ctl THEN FlushAll(k) ELSE k
  /\ pc' = "user" /\ timeout' = 0 /\ count' = 0 /\ user_timeout' = NoTimeout
  /\ UNCHANGED <<files, forgotten, watcher, ctl, inv, batch, filled, nevents,
                 have_signals, delivered>>

-----------------------------------------------------------------------------
UserStep ==
  \E f \in File :
    \/ \E d \in Fd : OpenFile(f, d)
    \/ \E mask \in {{"in"}, {"out"}} : Start(f, mask) \/ Stop(f, mask)
    \/ Close(f) \/ CheckFd(f) \/ LoopFork

Poll ==
  /\ UNCHANGED uses
  /\ \/ \E t \in Timeouts, idle \in BOOLEAN : PollBegin(t, idle)
     \/ Register \/ NothingToPoll \/ EnterWait \/ NoMoreWatchers \/ Wait
     \/ (\E interrupted \in BOOLEAN : WaitNothing(interrupted))
     \/ Handle \/ CallbackReturn \/ BatchEnd \/ PollAgain \/ TimeIsUp \/ PollEnd

Next ==
  /\ ~k.aborted
  /\ UserStep \/ Poll

Spec == Init /\ [][Next]_vars

-----------------------------------------------------------------------------
(* Properties.                                                             *)

\* The file that the ring's late EPOLL_CTL_DEL misses: it is executed after
\* close, so that a file which is open elsewhere stays in the epoll set.
Leftover(f) == ctl /\ fdOf[f] = Closed /\ f \in elsewhere

(***************************************************************************)
(* When the loop goes to sleep epoll knows every active watcher with the   *)
(* mask it wants, however it was changed, stopped and started since, on    *)
(* whichever number, and through however small a ring.                     *)
(***************************************************************************)
SleepsRegistered ==
  pc = "wait" /\ timeout # 0 /\ ~k.aborted =>
    \A f \in File : pevents[f] # {} => k.ep[f][fdOf[f]] = pevents[f]

(***************************************************************************)
(* An event is given to the watcher of the file it is about, not to that   *)
(* of a file which was opened on the same number since.                    *)
(***************************************************************************)
NoStaleEvent == delivered[1] = delivered[2] \/ Leftover(delivered[1])

(***************************************************************************)
(* Commands that wait in the ring point into an array on the stack of      *)
(* uv__io_poll, and none is left when it returns; epoll then knows no file *)
(* that has been closed.                                                   *)
(***************************************************************************)
RingEndsWithPoll ==
  pc = "user" =>
    /\ k.sq = <<>>
    /\ \A f \in File : fdOf[f] = Closed /\ ~Leftover(f) => k.ep[f] = Empty[f]

(***************************************************************************)
(* epoll_ctl never fails in the way that uv__epoll_ctl_prep answers with   *)
(* abort, except for a watcher that uv_loop_fork has forgotten.            *)
(***************************************************************************)
NeverAborts == k.aborted => forgotten # {}

(***************************************************************************)
(* The loop can be used in the child after uv_loop_fork.  It cannot when a *)
(* watcher waited for a change of its mask: epoll does not know the file,  *)
(* EPOLL_CTL_MOD fails and the child is aborted.                           *)
(***************************************************************************)
ForkKeepsWatchers == ~k.aborted
=============================================================================
