------------------------------- MODULE Kqueue -------------------------------
(***************************************************************************)
(* uv__io_poll on kqueue (unix/kqueue.c: macOS and the BSDs), with the     *)
(* uv_fs_event_t and the exits of child processes that are events of the   *)
(* same queue there.  Unlike epoll, kqueue keeps one filter for reading    *)
(* and one for writing, a stop leaves the filter in the kernel until it    *)
(* fires, and the events array is also the list of changes to submit.      *)
(*                                                                         *)
(* Watchers: Io are streams and the like, V is the event_watcher of a      *)
(* uv_fs_event_t, S the loop's signal_io_watcher.  A file is a descriptor  *)
(* and the number of times it was opened.  The kernel (external) drops the *)
(* filters of a descriptor that is closed.  Left out: EV_ERROR, POLLRDHUP, *)
(* out of band data, FSEvents of macOS.                                    *)
(***************************************************************************)
EXTENDS Integers, Sequences, SequencesExt, FiniteSets, FiniteSetsExt

CONSTANTS
  Io, V, S,
  Fd,           \* the numbers of descriptors
  Pid,          \* the child's process id, which may be a descriptor's number
  MaxEvents,    \* ARRAY_SIZE(events)
  Count,        \* how often a full array is read again: 48
  MaxUse        \* bound on the user's calls

VARIABLE kq
vars == <<kq>>

Watcher == Io \cup {V, S}
NoFd == -1
Masks == SUBSET {"IN", "OUT"} \ {{}}
Unused == [fd |-> NoFd, events |-> {}, pevents |-> {}]

\* table is loop->watchers, queue loop->watcher_queue, filters what the
\* kernel has.  child: "none", "running", "exited" (the kernel knows), "told"
\* (its event was read) or "reaped"; REAP is the flag of its handle and
\* reap_children that of the loop.  undone are filters that w->events names
\* although the kernel has dropped them.
Init ==
  \E metrics \in BOOLEAN :
  kq = [w |-> [x \in Watcher |-> Unused], queue |-> <<>>,
        table |-> [f \in Fd |-> "none"], gen |-> [f \in Fd |-> 0],
        filters |-> {}, changes |-> <<>>, batch |-> <<>>, changed |-> FALSE,
        child |-> "none", REAP |-> FALSE, reap_children |-> FALSE,
        pc |-> "idle", cb |-> "none", timeout |-> "zero", reset |-> FALSE,
        user_timeout |-> "zero", metrics |-> metrics, full |-> FALSE,
        count |-> 0, nevents |-> FALSE, have_signals |-> FALSE, ran |-> FALSE,
        uses |-> 0, undone |-> {}, early |-> FALSE, aborted |-> FALSE]

Running == ~kq.aborted
User == /\ Running /\ kq.uses < MaxUse
        /\ kq.pc \in {"idle", "callback"} \/ (kq.pc = "after" /\ kq.ran)
Uses(s) == [s EXCEPT !.uses = @ + 1]

-----------------------------------------------------------------------------
(* uv__io_start, uv__io_stop, uv__io_close of unix/core.c                  *)

InQueue(s, x) == x \in ToSet(s.queue)

IoStart(s, x, mask) ==
  LET t == [s EXCEPT !.w[x].pevents = @ \cup mask]
      fd == s.w[x].fd
  IN IF t.w[x].events = t.w[x].pevents THEN t
     ELSE [t EXCEPT !.queue = IF InQueue(t, x) THEN @ ELSE Append(@, x),
                    !.table[fd] = IF @ = "none" THEN x ELSE @]

IoStop(s, x, mask) ==
  LET t == [s EXCEPT !.w[x].pevents = @ \ mask]
      fd == s.w[x].fd
  IN IF t.w[x].pevents = {}
     THEN [t EXCEPT !.queue = Remove(@, x), !.w[x].events = {},
                    !.undone = {u \in @ : u[1] # x},
                    !.table[fd] = IF @ = x THEN "none" ELSE @]
     ELSE [t EXCEPT !.queue = IF InQueue(t, x) THEN @ ELSE Append(@, x)]

\* Mutant: the exit of a process whose id is the descriptor's number is
\* taken for an event of the descriptor.
InvalidatedAll(s, fd) ==
  [s EXCEPT !.batch = [i \in DOMAIN @ |-> IF @[i].fd = fd THEN [@[i] EXCEPT !.fd = NoFd] ELSE @[i]]]

\* Mutant: the events of the batch stay.
InvalidatedNone(s, fd) == s

uv__platform_invalidate_fd(s, fd) ==
  [s EXCEPT !.batch = [i \in DOMAIN @ |->
     IF @[i].fd = fd /\ @[i].filter # "PROC" THEN [@[i] EXCEPT !.fd = NoFd] ELSE @[i]]]

\* The descriptor is closed as well, which drops its filters.
IoClose(s, x) ==
  LET fd == s.w[x].fd
      t == uv__platform_invalidate_fd(IoStop(s, x, {"IN", "OUT"}), fd)
  IN [t EXCEPT !.w[x] = Unused,
               !.filters = {f \in @ : f[1] # fd \/ f[2] = "PROC"},
               !.changed = @ /\ x # V]

Open(s, x) ==
  LET fd == Min({f \in Fd : \A y \in Watcher : s.w[y].fd # f})
  IN [s EXCEPT !.w[x] = [Unused EXCEPT !.fd = fd], !.gen[fd] = @ + 1]

CanOpen(s) == \E f \in Fd : \A y \in Watcher : s.w[y].fd # f

-----------------------------------------------------------------------------
(* The user's calls.                                                       *)

OpenStart(x, mask) ==
  /\ User /\ kq.w[x].fd = NoFd /\ CanOpen(kq)
  /\ x # V => mask \in Masks
  /\ x \in {V, S} => mask = {"IN"}
  /\ kq' = Uses(IoStart(Open(kq, x), x, mask))

Start(x, mask) ==
  /\ User /\ x \in Io /\ kq.w[x].fd # NoFd /\ ~(mask \subseteq kq.w[x].pevents)
  /\ kq' = Uses(IoStart(kq, x, mask))

Stop(x, mask) ==
  /\ User /\ x \in Io /\ mask \subseteq kq.w[x].pevents
  /\ kq' = Uses(IoStop(kq, x, mask))

\* uv_fs_event_stop, or uv__io_close and close(2) of a stream.
Close(x) ==
  /\ User /\ x # S /\ kq.w[x].fd # NoFd
  /\ kq' = Uses(IoClose(kq, x))

\* uv_spawn: NOTE_EXIT is asked for, or the child is gone already (ESRCH).
Spawn ==
  /\ User /\ kq.child = "none"
  /\ kq' \in {Uses([kq EXCEPT !.child = "running", !.filters = @ \cup {<<Pid, "PROC">>}]),
              Uses([kq EXCEPT !.child = "told", !.REAP = TRUE, !.reap_children = TRUE])}

ChildExits ==
  /\ Running /\ kq.child = "running"
  /\ kq' = [kq EXCEPT !.child = "exited"]

FileChanges ==
  /\ Running /\ <<kq.w[V].fd, "VNODE">> \in kq.filters /\ ~kq.changed
  /\ kq' = [kq EXCEPT !.changed = TRUE]

\* uv_loop_fork in the child: uv__io_fork opens a new queue, and watchers
\* that are not queued are registered again.
Fork ==
  /\ User /\ kq.pc = "idle" /\ kq.child = "none"
  /\ LET again == {x \in Watcher : kq.w[x].pevents # {} /\ ~InQueue(kq, x)}
     IN kq' = Uses([kq EXCEPT !.filters = {}, !.changed = FALSE,
            !.w = [x \in Watcher |-> IF x \in again THEN [@[x] EXCEPT !.events = {}] ELSE @[x]],
            !.queue = @ \o SetToSeq(again),
            !.undone = {u \in Watcher \X {"IN", "OUT"} : InQueue(kq, u[1]) /\ u[2] \in kq.w[u[1]].events}])

-----------------------------------------------------------------------------
(* uv__io_poll                                                             *)

Filter(x, m) == IF x = V THEN "VNODE" ELSE m

\* EV_SET for what is wanted and not known to be there.
Changes(s, x) ==
  LET new == s.w[x].pevents \ s.w[x].events
      seq == SelectSeq(<<"IN", "OUT">>, LAMBDA m : m \in new)
  IN [i \in DOMAIN seq |-> <<s.w[x].fd, Filter(x, seq[i])>>]

\* Mutant: a full array is emptied without being submitted.
SubmittedRest(s, cs) ==
  IF Len(cs) < MaxEvents THEN [s EXCEPT !.changes = cs]
  ELSE [s EXCEPT !.changes = SubSeq(cs, (Len(cs) \div MaxEvents) * MaxEvents + 1, Len(cs))]

\* Changes are collected; a full array goes to the kernel at once.
Submitted(s, cs) ==
  LET n == (Len(cs) \div MaxEvents) * MaxEvents
  IN [s EXCEPT !.filters = @ \cup ToSet(SubSeq(cs, 1, n)),
               !.changes = SubSeq(cs, n + 1, Len(cs))]

\* Mutant: w->events is not brought up to date.
RegisteredStale(s, x) == s.w[x]

Registered(s, x) == [s.w[x] EXCEPT !.events = s.w[x].pevents]

Register(s) ==
  LET cs == FlattenSeq([i \in DOMAIN s.queue |-> Changes(s, s.queue[i])])
      t == [s EXCEPT !.w = [x \in Watcher |-> IF InQueue(s, x) THEN Registered(s, x) ELSE @[x]],
                     !.undone = {u \in @ : u[2] \in s.w[u[1]].pevents},
                     !.queue = <<>>]
  IN Submitted(t, cs)

\* uv_backend_timeout is 0 while UV_LOOP_REAP_CHILDREN is set; with
\* UV_METRICS_IDLE_TIME the first call does not block.
PollBegin(t) ==
  /\ Running /\ kq.pc = "idle"
  /\ kq.reap_children => t = "zero"
  /\ \E f \in Fd : kq.table[f] # "none" \/ kq.child \in {"running", "exited", "told"}
  /\ kq' = [Register(kq) EXCEPT !.pc = "wait", !.user_timeout = t, !.count = Count,
              !.reset = kq.metrics, !.timeout = IF kq.metrics THEN "zero" ELSE t]

\* What the kernel may report; a descriptor is ready or not at its pleasure.
Ready(s) ==
  {[fd |-> f[1], filter |-> f[2], gen |-> IF f[2] = "PROC" THEN 0 ELSE s.gen[f[1]]] :
     f \in {g \in s.filters : /\ g[2] = "PROC" => s.child = "exited"
                              /\ g[2] = "VNODE" => s.changed}}

\* The changes are made, and the loop sleeps or looks.
Sleep ==
  /\ Running /\ kq.pc = "wait"
  /\ kq' = [kq EXCEPT !.pc = "asleep", !.filters = @ \cup ToSet(kq.changes), !.changes = <<>>]

\* kevent returns events; one-shot filters are dropped as they fire.
Kevent ==
  /\ Running /\ kq.pc = "asleep"
  /\ \E evs \in {e \in SUBSET Ready(kq) : e # {} /\ Cardinality(e) <= MaxEvents} :
     \E b \in SetToSeqs(evs) :
       LET fired == {<<e.fd, e.filter>> : e \in {x \in evs : x.filter \in {"PROC", "VNODE"}}}
       IN kq' = [kq EXCEPT !.pc = "batch", !.batch = b, !.full = Len(b) = MaxEvents,
                   !.nevents = FALSE, !.have_signals = FALSE, !.ran = FALSE,
                   !.filters = @ \ fired,
                   !.changed = @ /\ \A f \in fired : f[2] # "VNODE",
                   !.child = IF <<Pid, "PROC">> \in fired THEN "told" ELSE @]

\* The poll ends, and its local variables with it.
Return(s) ==
  [s EXCEPT !.pc = "idle", !.timeout = "zero", !.user_timeout = "zero", !.reset = FALSE,
            !.full = FALSE, !.count = 0, !.nevents = FALSE, !.have_signals = FALSE,
            !.ran = FALSE]

UpdatedTimeout(s, over) ==
  IF s.timeout = "zero" \/ (s.timeout = "some" /\ over) THEN Return(s)
  ELSE [s EXCEPT !.pc = "wait"]

\* uv__wait_children: the child whose handle is marked is waited for.
Reaped(s) ==
  IF ~s.reap_children THEN s
  ELSE LET t == [s EXCEPT !.reap_children = FALSE, !.REAP = FALSE]
       IN IF s.REAP THEN [t EXCEPT !.child = "reaped", !.ran = TRUE] ELSE t

\* kevent returns nothing, or is interrupted.
NoEvents(eintr, over) ==
  /\ Running /\ kq.pc = "asleep"
  /\ ~eintr => kq.timeout # "inf"
  /\ kq' = IF kq.reap_children THEN Return(Reaped(kq))
           ELSE IF kq.reset
           THEN UpdatedTimeout([kq EXCEPT !.reset = FALSE, !.timeout = kq.user_timeout], over)
           ELSE IF ~eintr THEN Return(kq)
           ELSE UpdatedTimeout(kq, over)

uv__kqueue_delete(s, e) == [s EXCEPT !.filters = @ \ {<<e.fd, e.filter>>}]

\* One event of the batch.
Proc(s) ==
  [s EXCEPT !.REAP = @ \/ s.child = "told", !.reap_children = @ \/ s.child = "told",
            !.nevents = TRUE]

Vnode(s, x) ==
  IF s.w[x].events # {"IN"} \/ s.w[x].pevents # {"IN"} THEN [s EXCEPT !.aborted = TRUE]
  ELSE [s EXCEPT !.nevents = TRUE, !.pc = "callback", !.cb = x]

Socket(s, x, e) ==
  IF e.filter \notin s.w[x].pevents
  THEN [uv__kqueue_delete(s, e) EXCEPT
          !.undone = @ \cup ({<<x, e.filter>>} \cap (Watcher \X s.w[x].events))]
  ELSE IF x = S THEN [s EXCEPT !.nevents = TRUE, !.have_signals = TRUE]
  ELSE [s EXCEPT !.nevents = TRUE, !.pc = "callback", !.cb = x]

Handle ==
  /\ Running /\ kq.pc = "batch" /\ kq.batch # <<>>
  /\ LET e == Head(kq.batch)
         s == [kq EXCEPT !.batch = Tail(@)]
         x == IF e.fd \in Fd THEN kq.table[e.fd] ELSE "none"
     IN kq' = IF e.filter = "PROC" THEN IF e.fd = Pid THEN Proc(s) ELSE s
              ELSE IF e.fd = NoFd THEN s
              ELSE IF x = "none" THEN uv__kqueue_delete(s, e)
              ELSE IF e.filter = "VNODE" THEN Vnode(s, x)
              ELSE Socket(s, x, e)

\* Mutant: the one-shot filter is not set again.
NotRearmed(s) == s

\* uv__fs_event after the user's callback: "re-arm it".
Rearmed(s) ==
  IF s.cb # V \/ s.w[V].fd = NoFd THEN s
  ELSE [s EXCEPT !.filters = @ \cup {<<s.w[V].fd, "VNODE">>},
                 !.early = @ \/ s.w[V].events = {}]

CallbackReturns ==
  /\ kq.pc = "callback"
  /\ kq' = [Rearmed(kq) EXCEPT !.pc = "batch", !.cb = "none"]

\* Children are waited for, then the signal watcher is called.
BatchEnd ==
  /\ Running /\ kq.pc = "batch" /\ kq.batch = <<>>
  /\ LET t == Reaped(kq)
     IN kq' = [t EXCEPT !.pc = "after", !.ran = t.ran \/ t.have_signals, !.reset = FALSE,
                        !.timeout = IF t.reset THEN t.user_timeout ELSE @]

\* "Poll for more events but don't block this time."
ReadOn(s) == [s EXCEPT !.pc = "wait", !.count = @ - 1, !.timeout = "zero"]

PollAgain(over) ==
  /\ Running /\ kq.pc = "after"
  /\ LET s == [kq EXCEPT !.ran = FALSE]
     IN kq' = IF s.have_signals THEN Return(s)
              ELSE IF s.nevents
              THEN IF s.full /\ s.count > 1 THEN ReadOn(s) ELSE Return(s)
              ELSE UpdatedTimeout(s, over)

Next ==
  \/ \E x \in Watcher : \E m \in Masks : OpenStart(x, m) \/ Start(x, m) \/ Stop(x, m)
  \/ \E x \in Watcher : Close(x)
  \/ Spawn \/ ChildExits \/ FileChanges \/ Fork
  \/ \E t \in {"zero", "some", "inf"} : PollBegin(t)
  \/ Sleep \/ Kevent \/ Handle \/ CallbackReturns \/ BatchEnd
  \/ \E over \in BOOLEAN : PollAgain(over) \/ \E eintr \in BOOLEAN : NoEvents(eintr, over)

Spec == Init /\ [][Next]_vars

-----------------------------------------------------------------------------
(* Properties.                                                             *)

TypeOK ==
  /\ kq.pc \in {"idle", "wait", "asleep", "batch", "callback", "after"}
  /\ \A x \in Watcher : kq.w[x].pevents \subseteq {"IN", "OUT"} /\ kq.w[x].fd \in Fd \cup {NoFd}
  /\ kq.filters \subseteq (Fd \cup {Pid}) \X {"IN", "OUT", "VNODE", "PROC"}

(***************************************************************************)
(* uv__io_poll: when the loop blocks, the kernel has a filter for all that *)
(* every started watcher waits for, and for the child.  Not for a watcher  *)
(* whose filter was deleted because it fired between a stop and a start of *)
(* the same event, or that was queued when the process forked: w->events   *)
(* still names the filter, and it is not set again.                        *)
(***************************************************************************)
BlocksRegistered ==
  kq.pc = "asleep" /\ kq.timeout # "zero" =>
    /\ \A x \in Watcher : \A m \in kq.w[x].pevents :
         \/ <<kq.w[x].fd, Filter(x, m)>> \in kq.filters
         \/ <<x, m>> \in kq.undone
    /\ kq.child = "running" => <<Pid, "PROC">> \in kq.filters

(***************************************************************************)
(* uv__platform_invalidate_fd: what is left of a batch is about files that *)
(* are still open, never about one that a callback of the same batch       *)
(* closed and whose descriptor is in use again.                            *)
(***************************************************************************)
EventsAreOfOpenFiles ==
  \A i \in DOMAIN kq.batch :
    LET e == kq.batch[i]
    IN e.fd # NoFd /\ e.filter # "PROC" =>
         /\ e.gen = kq.gen[e.fd]
         /\ \E x \in Watcher : kq.w[x].fd = e.fd

(***************************************************************************)
(* EVFILT_PROC: the exit of a child whose event was read is not forgotten, *)
(* whatever descriptors are closed in the same batch, and the loop does    *)
(* not block before it has waited for the child.                           *)
(***************************************************************************)
ExitIsKept ==
  kq.child = "told" =>
    /\ \/ kq.REAP /\ kq.reap_children
       \/ \E i \in DOMAIN kq.batch : kq.batch[i].filter = "PROC" /\ kq.batch[i].fd = Pid
    /\ kq.pc = "asleep" => kq.timeout = "zero"

(***************************************************************************)
(* uv__fs_event: the filter of a uv_fs_event_t is one-shot; as long as the *)
(* handle is started, it is set, about to be set, or its event is on the   *)
(* way.                                                                    *)
(***************************************************************************)
WatchIsArmed ==
  kq.w[V].fd # NoFd =>
    \/ <<kq.w[V].fd, "VNODE">> \in kq.filters \cup ToSet(kq.changes)
    \/ V \in ToSet(kq.queue)
    \/ kq.pc = "callback" /\ kq.cb = V
    \/ \E i \in DOMAIN kq.batch : kq.batch[i].filter = "VNODE" /\ kq.batch[i].fd = kq.w[V].fd

(***************************************************************************)
(* uv__io_poll: "assert(w->events == POLLIN)" of a uv_fs_event_t fails     *)
(* only when the handle was started again in its own callback, which sets  *)
(* its filter before the loop knows of it, and the array was full.         *)
(***************************************************************************)
VnodeIsKnown == kq.aborted => kq.early
=============================================================================
