------------------------------ MODULE Inotify -------------------------------
(***************************************************************************)
(* uv_fs_event_t on Linux (unix/linux.c): the handles of one loop share an *)
(* inotify descriptor.  The kernel gives one watch descriptor to one file, *)
(* so handles on the same file share a watcher_list, which lives as long   *)
(* as a handle is on it or uv__inotify_read walks over it.  A callback may *)
(* stop, close and start any handle in the middle of that walk, and may    *)
(* thereby change the list under it.                                       *)
(*                                                                         *)
(* The kernel (external): events are queued per descriptor, an event that  *)
(* equals the last one of the queue is dropped, a deleted file takes its   *)
(* watch along, and the end of a watch is an event too (IN_IGNORED).       *)
(***************************************************************************)
EXTENDS Integers, Sequences, SequencesExt, FiniteSets

CONSTANTS
  Handle, File,
  Batch,        \* how many events fit the buffer of uv__inotify_read
  MaxWd,        \* bound on the watch descriptors of one inotify instance
  MaxUse        \* bound on the calls of the user and the changes of files

VARIABLE ino
vars == <<ino>>

Wd == 1..MaxWd
NoWd == -1
NoList == [alive |-> FALSE, iterating |-> FALSE, watchers |-> <<>>, path |-> "none"]
Idle == [active |-> FALSE, wd |-> NoWd, path |-> "none", closing |-> FALSE]

\* fd: the descriptor is open.  watch: the kernel's watches, nextwd the
\* descriptor it gives next, kq its queue.  buf are the events that were
\* read, queue the local queue of a walk and cur its list.  owed, due,
\* called and gone are history: the handles that have a change to hear of;
\* whom a walk has to call, whom it called, and who was stopped meanwhile.
Init ==
  ino = [fd |-> FALSE, h |-> [x \in Handle |-> Idle], list |-> [w \in Wd |-> NoList],
         exists |-> File, watch |-> [w \in Wd |-> "none"], nextwd |-> 1, kq |-> <<>>,
         pc |-> "idle", buf |-> <<>>, queue |-> <<>>, cur |-> NoWd, uses |-> 0,
         owed |-> {}, due |-> {}, called |-> <<>>, gone |-> {},
         restarted |-> "no", nomem |-> FALSE]

User == ino.pc \in {"idle", "callback"} /\ ino.uses < MaxUse
Uses(s) == [s EXCEPT !.uses = @ + 1]

-----------------------------------------------------------------------------
(* The kernel.                                                             *)

Queued(s, wd, mask) ==
  IF s.kq # <<>> /\ Last(s.kq) = <<wd, mask>> THEN s
  ELSE [s EXCEPT !.kq = Append(@, <<wd, mask>>)]

WatchOf(s, p) == {w \in Wd : s.watch[w] = p}

\* inotify_add_watch: the watch of the file, or a new one.
inotify_add_watch(s, p) ==
  IF WatchOf(s, p) # {} THEN s
  ELSE [s EXCEPT !.watch[s.nextwd] = p, !.nextwd = @ + 1]

inotify_rm_watch(s, wd) ==
  IF ~s.fd \/ s.watch[wd] = "none" THEN s
  ELSE Queued([s EXCEPT !.watch[wd] = "none"], wd, "rename")

\* The handles that a change of p concerns.
Watching(s, p) == {x \in Handle : s.h[x].active /\ s.h[x].wd \in WatchOf(s, p)}

Modify(p) ==
  /\ User /\ p \in ino.exists
  /\ LET t == Uses([ino EXCEPT !.owed = @ \cup Watching(ino, p)])
     IN ino' = IF WatchOf(t, p) = {} THEN t
               ELSE Queued(t, CHOOSE w \in WatchOf(t, p) : TRUE, "change")

Delete(p) ==
  /\ User /\ p \in ino.exists
  /\ LET t == Uses([ino EXCEPT !.owed = @ \cup Watching(ino, p), !.exists = @ \ {p}])
     IN ino' = IF WatchOf(t, p) = {} THEN t
               ELSE inotify_rm_watch(t, CHOOSE w \in WatchOf(t, p) : TRUE)

-----------------------------------------------------------------------------
(* The handles.                                                            *)

\* RB_FIND
find_watcher(s, wd) == s.list[wd].alive

\* mutant: a list is freed although it is walked over
MaybeFreed(s, wd) ==
  IF s.list[wd].watchers # <<>> THEN s
  ELSE inotify_rm_watch([s EXCEPT !.list[wd] = NoList], wd)

\* mutant: the watch stays in the kernel
FreedOnly(s, wd) ==
  IF s.list[wd].iterating \/ s.list[wd].watchers # <<>> THEN s
  ELSE [s EXCEPT !.list[wd] = NoList]

maybe_free_watcher_list(s, wd) ==
  IF s.list[wd].iterating \/ s.list[wd].watchers # <<>> THEN s
  ELSE inotify_rm_watch([s EXCEPT !.list[wd] = NoList], wd)

\* uv_fs_event_start of a file that exists, with memory for a list.
Started(s, x, p) ==
  LET t == inotify_add_watch([s EXCEPT !.fd = TRUE], p)
      wd == CHOOSE w \in WatchOf(t, p) : TRUE
      u == IF find_watcher(t, wd) THEN t
           ELSE [t EXCEPT !.list[wd] = [NoList EXCEPT !.alive = TRUE, !.path = p]]
  IN [u EXCEPT !.list[wd].watchers = Append(@, x),
               !.h[x].active = TRUE, !.h[x].wd = wd, !.h[x].path = u.list[wd].path]

CanWatch(s, p) == WatchOf(s, p) # {} \/ s.nextwd <= MaxWd

uv_fs_event_start(x, p) ==
  /\ User /\ ~ino.h[x].active /\ ~ino.h[x].closing
  /\ p \in ino.exists => CanWatch(ino, p)
  /\ ino' = IF p \in ino.exists THEN Uses(Started(ino, x, p))
            ELSE Uses([ino EXCEPT !.fd = TRUE])     \* ENOENT, after init_inotify

\* UV_ENOMEM: the kernel keeps a watch that has no list.
StartFails(p) ==
  /\ User /\ p \in ino.exists /\ WatchOf(ino, p) = {} /\ CanWatch(ino, p)
  /\ ino' = Uses([inotify_add_watch([ino EXCEPT !.fd = TRUE], p) EXCEPT !.nomem = TRUE])

\* uv__queue_remove finds the handle where it is, in a list or in a walk.
\* mutant: only the list is searched
RemovedFromList(s, x) ==
  [s EXCEPT !.list[s.h[x].wd].watchers = SelectSeq(@, LAMBDA y : y # x)]

Removed(s, x) ==
  [s EXCEPT !.list[s.h[x].wd].watchers = SelectSeq(@, LAMBDA y : y # x),
            !.queue = SelectSeq(@, LAMBDA y : y # x)]

Stopped(s, x) ==
  IF ~s.h[x].active THEN s
  ELSE LET wd == s.h[x].wd
           t == [Removed(s, x) EXCEPT !.h[x].active = FALSE, !.h[x].wd = NoWd,
                                      !.h[x].path = "none", !.owed = @ \ {x},
                                      !.gone = @ \cup {x}]
       IN maybe_free_watcher_list(t, wd)

uv_fs_event_stop(x) ==
  /\ User /\ ino.h[x].active
  /\ ino' = Uses(Stopped(ino, x))

uv__fs_event_close(x) ==
  /\ User /\ ~ino.h[x].closing
  /\ ino' = Uses([Stopped(ino, x) EXCEPT !.h[x].closing = TRUE])

-----------------------------------------------------------------------------
(* uv__inotify_read                                                        *)

\* read() of what fits.
Read ==
  /\ ino.pc = "idle" /\ ino.fd /\ ino.kq # <<>>
  /\ LET n == IF Len(ino.kq) < Batch THEN Len(ino.kq) ELSE Batch
     IN ino' = [ino EXCEPT !.buf = SubSeq(ino.kq, 1, n), !.pc = "event",
                           !.kq = SubSeq(ino.kq, n + 1, Len(ino.kq))]

\* The next event: its list is moved to the local queue, or there is none.
Event ==
  /\ ino.pc = "event" /\ ino.buf # <<>>
  /\ LET wd == Head(ino.buf)[1]
         t == [ino EXCEPT !.buf = Tail(@)]
     IN ino' = IF ~find_watcher(ino, wd) THEN t
               ELSE [t EXCEPT !.list[wd].iterating = TRUE, !.list[wd].watchers = <<>>,
                              !.queue = ino.list[wd].watchers, !.cur = wd,
                              !.due = ToSet(ino.list[wd].watchers), !.called = <<>>,
                              !.gone = {}, !.pc = "walk"]

\* mutant: the handle is not put back on its list
MovedAway(s, x) == [s EXCEPT !.queue = Tail(@)]

\* "uv__queue_remove(q); uv__queue_insert_tail(&w->watchers, q);"
MovedBack(s, x) == [s EXCEPT !.queue = Tail(@), !.list[s.cur].watchers = Append(@, x)]

\* The callback of the next handle of the walk begins.
Call ==
  /\ ino.pc = "walk" /\ ino.queue # <<>>
  /\ LET x == Head(ino.queue)
     IN ino' = [MovedBack(ino, x) EXCEPT !.called = Append(@, x), !.owed = @ \ {x},
                                         !.pc = "callback"]

CallbackReturns ==
  /\ ino.pc = "callback"
  /\ ino' = [ino EXCEPT !.pc = "walk"]

\* "done iterating, time to (maybe) free empty watcher_list"
Walked ==
  /\ ino.pc = "walk" /\ ino.queue = <<>>
  /\ ino' = maybe_free_watcher_list([ino EXCEPT !.list[ino.cur].iterating = FALSE,
               !.cur = NoWd, !.pc = "event", !.due = {}, !.called = <<>>, !.gone = {}],
               ino.cur)

\* The buffer is done with; the loop reads until there is nothing more.
ReadAgain ==
  /\ ino.pc = "event" /\ ino.buf = <<>>
  /\ ino' = [ino EXCEPT !.pc = "idle"]

-----------------------------------------------------------------------------
(* uv_loop_fork in the child: uv__io_fork has closed the descriptor, and   *)
(* uv__inotify_fork stops every handle and starts it on a new one.         *)

\* mutant: the path is copied after the stop
SavedPathLate(s, x) == Stopped(s, x).h[x].path

\* "It's critical to keep a copy of path here"
SavedPath(s, x) == s.h[x].path

\* The handles xs of one list are stopped; saved keeps their paths.
RECURSIVE AllStopped(_, _, _)
AllStopped(s, xs, saved) ==
  IF xs = <<>> THEN [s |-> s, saved |-> saved]
  ELSE AllStopped(Stopped(s, Head(xs)), Tail(xs),
                  [saved EXCEPT ![Head(xs)] = SavedPath(s, Head(xs))])

\* RB_FOREACH_SAFE: the lists from wd on are emptied and freed.
RECURSIVE Emptied(_, _, _)
Emptied(s, wd, saved) ==
  IF wd > MaxWd THEN [s |-> s, saved |-> saved]
  ELSE IF ~s.list[wd].alive THEN Emptied(s, wd + 1, saved)
  ELSE LET r == AllStopped([s EXCEPT !.list[wd].iterating = TRUE],
                           s.list[wd].watchers, saved)
       IN Emptied(maybe_free_watcher_list([r.s EXCEPT !.list[wd].iterating = FALSE], wd),
                  wd + 1, r.saved)

\* Every handle is started on its path; the first failure ends that.
RECURSIVE Restarted(_, _, _)
Restarted(s, xs, path) ==
  IF xs = <<>> THEN [s EXCEPT !.restarted = "all"]
  ELSE LET x == Head(xs)
       IN IF path[x] \in s.exists THEN Restarted(Started(s, x, path[x]), Tail(xs), path)
          ELSE [s EXCEPT !.fd = TRUE, !.restarted = "failed"]

uv__inotify_fork ==
  /\ ino.pc = "idle" /\ ino.restarted = "no" /\ ino.fd
  /\ LET old == [ino EXCEPT !.fd = FALSE, !.watch = [w \in Wd |-> "none"],
                            !.nextwd = 1, !.kq = <<>>]
         r == Emptied(old, 1, [x \in Handle |-> "none"])
         xs == FlattenSeq([w \in Wd |-> ino.list[w].watchers])
     IN ino' = Restarted(r.s, xs, r.saved)

Next ==
  \/ \E p \in File : Modify(p) \/ Delete(p) \/ StartFails(p)
  \/ \E x \in Handle : uv_fs_event_stop(x) \/ uv__fs_event_close(x)
  \/ \E x \in Handle : \E p \in File : uv_fs_event_start(x, p)
  \/ Read \/ Event \/ Call \/ CallbackReturns \/ Walked \/ ReadAgain
  \/ uv__inotify_fork

Spec == Init /\ [][Next]_vars

-----------------------------------------------------------------------------
(* Properties.                                                             *)

TypeOK ==
  /\ ino.pc \in {"idle", "event", "walk", "callback"}
  /\ \A x \in Handle : ino.h[x].active <=> ino.h[x].wd \in Wd
  /\ ToSet(ino.queue) \subseteq Handle /\ ino.owed \subseteq Handle

(***************************************************************************)
(* uv_fs_event_start, uv_fs_event_stop, maybe_free_watcher_list: an active *)
(* handle is in one place, the list of its descriptor or the walk over it, *)
(* and no other handle is anywhere; a list is there exactly as long as it  *)
(* has handles or is walked over, so that the walk never uses a freed one. *)
(***************************************************************************)
Places(x) == {w \in Wd : x \in ToSet(ino.list[w].watchers)}

HandlesAreListed ==
  /\ \A x \in Handle :
       /\ ino.h[x].active => \/ Places(x) = {ino.h[x].wd} /\ x \notin ToSet(ino.queue)
                             \/ Places(x) = {} /\ x \in ToSet(ino.queue) /\ ino.h[x].wd = ino.cur
       /\ ~ino.h[x].active => Places(x) = {} /\ x \notin ToSet(ino.queue)
  /\ \A w \in Wd :
       /\ IsInjective(ino.list[w].watchers \o IF ino.cur = w THEN ino.queue ELSE <<>>)
       /\ ino.list[w].alive <=> ino.list[w].watchers # <<>> \/ w = ino.cur

(***************************************************************************)
(* inotify_add_watch, inotify_rm_watch: the kernel watches a file exactly  *)
(* while a list is there for it, unless the file was deleted, or memory    *)
(* ran out between the watch and its list.                                 *)
(***************************************************************************)
KernelWatchesTheLists ==
  \A w \in Wd :
    /\ ino.watch[w] # "none" /\ ~ino.nomem => ino.list[w].alive
    /\ ino.list[w].alive /\ ino.list[w].path \in ino.exists =>
         ino.watch[w] = ino.list[w].path

(***************************************************************************)
(* uv__inotify_read: when a walk ends every handle that was on the list    *)
(* was called once, unless a callback stopped it before its turn; no other *)
(* handle was called, and none after it was stopped.                       *)
(***************************************************************************)
WalkCallsEachOnce ==
  /\ IsInjective(ino.called) /\ ToSet(ino.called) \subseteq ino.due
  /\ ino.pc = "walk" /\ ino.queue = <<>> => ino.due \ ino.gone \subseteq ToSet(ino.called)
  /\ ino.pc = "walk" => \A x \in ToSet(ino.queue) : ino.h[x].active

(***************************************************************************)
(* A change that happened while a handle was started is never lost: it is  *)
(* in the kernel's queue, in the buffer, or the walk comes to the handle.  *)
(***************************************************************************)
NoChangeIsLost ==
  \A x \in ino.owed :
    \/ ino.h[x].wd \in {e[1] : e \in ToSet(ino.kq) \cup ToSet(ino.buf)}
    \/ x \in ToSet(ino.queue)

(***************************************************************************)
(* uv__inotify_fork: in the child every handle that was started watches    *)
(* its path again, unless a path is gone: then uv_loop_fork fails and the  *)
(* handles that were not reached are stopped.                              *)
(***************************************************************************)
ForkRestartsHandles ==
  [][ino.restarted = "no" /\ ino'.restarted # "no" =>
       \A x \in Handle :
         /\ ino'.h[x].active => ino.h[x].active /\ ino'.h[x].path = ino.h[x].path
         /\ ino.h[x].active => \/ ino'.h[x].active
                               \/ \E y \in Handle : /\ ino.h[y].active
                                                    /\ ino.h[y].path \notin ino.exists]_vars
=============================================================================
