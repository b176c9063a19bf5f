----------------------------- MODULE Processes ------------------------------
(***************************************************************************)
(* Child processes of a libuv loop (src/unix/process.c, with SIGCHLD): the *)
(* pipe on which uv_spawn waits for the exec of the child, the list of     *)
(* process handles, and uv__wait_children, which one SIGCHLD message makes *)
(* collect every child that has exited.                                    *)
(*                                                                         *)
(* A SIGCHLD is a message in the signal pipe of the loop (module Signals); *)
(* several of them may be one.  The stdio of the child is module           *)
(* SpawnStdio.                                                             *)
(***************************************************************************)
EXTENDS Naturals, Sequences, SequencesExt

CONSTANTS
  Child,       \* the processes that are spawned, one handle each
  MaySteal     \* TRUE if other code of the process may wait for our children

VARIABLES
  child,       \* "none", "forked", "running", "zombie" or "gone" (waited for)
  report,      \* the pipe to the parent: "open", "eof" or "errno"
  handle,      \* "none", "active", "done", "failed" or "closed" (uv_close called)
  watching,    \* child_watcher has been started
  signaled,    \* a SIGCHLD message is in the signal pipe
  process_handles, pending,   \* the queues
  scan,        \* the handles uv__wait_children has still to look at
  current,     \* the child uv_spawn waits for, or the handle of exit_cb
  stolen,
  pc           \* "loop", "spawn", "scan", "pending" or "exit_cb"

kernel == <<child, report>>
queues == <<process_handles, pending, scan>>
vars == <<kernel, handle, watching, signaled, queues, current, stolen, pc>>

None == "none"

Init ==
  /\ child = [c \in Child |-> "none"] /\ report = [c \in Child |-> "open"]
  /\ handle = [c \in Child |-> "none"]
  /\ watching = FALSE /\ signaled = FALSE
  /\ process_handles = <<>> /\ pending = <<>> /\ scan = <<>>
  /\ current = <<>> /\ stolen = {} /\ pc = "loop"

InUserCode == pc \in {"loop", "exit_cb"}

\* uv__queue_remove of a handle that may be in the queue; a handle is in it
\* once.
Without(q, c) ==
  IF c \in ToSet(q) THEN RemoveAt(q, CHOOSE i \in DOMAIN q : q[i] = c) ELSE q

-----------------------------------------------------------------------------
(* The child.                                                              *)

\* execve closes the pipe; otherwise uv__write_errno and _exit(127); a signal
\* may end the child before either.
Exec(c) ==
  /\ child[c] = "forked"
  /\ child' = [child EXCEPT ![c] = "running"]
  /\ report' = [report EXCEPT ![c] = "eof"]
  /\ UNCHANGED <<handle, watching, signaled, queues, current, stolen, pc>>

\* The child ends: its pipe closes, and SIGCHLD reaches the watcher if there
\* is one.
Die(c, how) ==
  /\ child[c] \in {"forked", "running"}
  /\ how = "errno" => child[c] = "forked"
  /\ child' = [child EXCEPT ![c] = "zombie"]
  /\ report' = [report EXCEPT ![c] = IF @ = "open" THEN how ELSE @]
  /\ signaled' = (signaled \/ watching)
  /\ UNCHANGED <<handle, watching, queues, current, stolen, pc>>

\* Other code calls waitpid(-1).
Steal(c) ==
  /\ MaySteal /\ child[c] = "zombie" /\ report[c] = "eof"
  /\ child' = [child EXCEPT ![c] = "gone"]
  /\ stolen' = stolen \cup {c}
  /\ UNCHANGED <<report, handle, watching, signaled, queues, current, pc>>

-----------------------------------------------------------------------------
(* uv_spawn.                                                               *)

Spawn(c) ==
  /\ InUserCode /\ handle[c] = "none" /\ child[c] = "none"
  /\ watching' = TRUE
  /\ child' = [child EXCEPT ![c] = "forked"]
  /\ current' = <<c>> \o current
  /\ pc' = IF pc = "loop" THEN "spawn" ELSE "spawn_cb"
  /\ UNCHANGED <<report, handle, signaled, queues, stolen>>

\* Mutant: a child that could not exec is not waited for.
ReapFailedNever(c) == child

\* waitpid for a child that reported an error.
ReapFailed(c) == [child EXCEPT ![c] = "gone"]

\* The read of the pipe returns.  EOF counts as success, also when the child
\* was killed before its exec.
SpawnReturns ==
  /\ pc \in {"spawn", "spawn_cb"}
  /\ LET c == Head(current) IN
     \/ /\ report[c] = "eof"
        /\ handle' = [handle EXCEPT ![c] = "active"]
        /\ process_handles' = Append(process_handles, c)
        /\ UNCHANGED <<child, watching>>
     \/ /\ report[c] = "errno" /\ child[c] = "zombie"
        /\ handle' = [handle EXCEPT ![c] = "failed"]
        /\ child' = ReapFailed(c)
        /\ UNCHANGED <<process_handles, watching>>
  /\ current' = Tail(current)
  /\ pc' = IF pc = "spawn" THEN "loop" ELSE "exit_cb"
  /\ UNCHANGED <<report, signaled, pending, scan, stolen>>

\* Mutant: the watcher stops with the first handle that is closed.
StopsWatchingAlways(rest) == TRUE

StopsWatching(rest) == rest = <<>>

\* What uv__wait_children still visits although it is closed: the handle it has
\* noted as the next, and what the stale link of a closed one leads to.
StillVisited(c) ==
  \E i \in DOMAIN pending :
    pending[i] = c /\ (i = 1 \/ handle[pending[i - 1]] = "closed")

\* uv__process_close.  The handle leaves its queue; its own link to the next
\* handle stays as it was.
Close(c) ==
  /\ InUserCode /\ handle[c] \in {"active", "done", "failed"}
  /\ handle' = [handle EXCEPT ![c] = "closed"]
  /\ process_handles' = Without(process_handles, c)
  /\ watching' = (watching /\ ~StopsWatching(Without(process_handles, c)))
  /\ pending' = IF StillVisited(c) THEN pending ELSE Without(pending, c)
  /\ UNCHANGED <<kernel, signaled, scan, current, stolen, pc>>

-----------------------------------------------------------------------------
(* uv__wait_children.                                                      *)

\* The loop dispatches the SIGCHLD message, if it is still wanted.
Chld ==
  /\ pc = "loop" /\ signaled
  /\ signaled' = FALSE
  /\ scan' = IF watching THEN process_handles ELSE <<>>
  /\ pc' = IF watching THEN "scan" ELSE "loop"
  /\ UNCHANGED <<kernel, handle, watching, process_handles, pending, current, stolen>>

\* Mutant: after one child the rest is left for another signal.
ScanRestOne == IF child[Head(scan)] = "zombie" THEN <<>> ELSE Tail(scan)

ScanRest == Tail(scan)

\* Mutants: a child that still runs counts as collected; a collected one
\* stays on the list.
WaitAny ==
  /\ pc = "scan" /\ scan # <<>>
  /\ process_handles' = Without(process_handles, Head(scan))
  /\ pending' = Append(pending, Head(scan))
  /\ scan' = ScanRest
  /\ UNCHANGED <<kernel, handle, watching, signaled, current, stolen, pc>>

WaitKeepsHandle ==
  /\ pc = "scan" /\ scan # <<>>
  /\ LET c == Head(scan) IN
     IF child[c] = "zombie"
     THEN /\ child' = [child EXCEPT ![c] = "gone"]
          /\ pending' = Append(pending, c)
     ELSE UNCHANGED <<child, pending>>
  /\ scan' = ScanRest
  /\ UNCHANGED <<report, handle, watching, signaled, process_handles, current,
                 stolen, pc>>

\* waitpid with WNOHANG for the next handle: not yet, or ECHILD, or collected.
Wait ==
  /\ pc = "scan" /\ scan # <<>>
  /\ LET c == Head(scan) IN
     IF child[c] = "zombie"
     THEN /\ child' = [child EXCEPT ![c] = "gone"]
          /\ process_handles' = Without(process_handles, c)
          /\ pending' = Append(pending, c)
     ELSE UNCHANGED <<child, process_handles, pending>>
  /\ scan' = ScanRest
  /\ UNCHANGED <<report, handle, watching, signaled, current, stolen, pc>>

WaitEnd ==
  /\ pc = "scan" /\ scan = <<>>
  /\ pc' = "pending"
  /\ UNCHANGED <<kernel, handle, watching, signaled, queues, current, stolen>>

\* The next of them is stopped and its exit_cb called.  One that the
\* exit_cb before it has closed is called, too.
ExitCb ==
  /\ pc = "pending" /\ pending # <<>>
  /\ pending' = Tail(pending)
  /\ handle' = [handle EXCEPT ![Head(pending)] =
                  IF @ = "active" THEN "done" ELSE @]
  /\ current' = <<Head(pending)>>
  /\ pc' = "exit_cb"
  /\ UNCHANGED <<kernel, watching, signaled, process_handles, scan, stolen>>

ExitReturn ==
  /\ pc = "exit_cb"
  /\ pc' = "pending"
  /\ current' = <<>>
  /\ UNCHANGED <<kernel, handle, watching, signaled, queues, stolen>>

PendingEnd ==
  /\ pc = "pending" /\ pending = <<>>
  /\ pc' = "loop"
  /\ UNCHANGED <<kernel, handle, watching, signaled, queues, current, stolen>>

-----------------------------------------------------------------------------
LoopStep == \/ SpawnReturns \/ Chld \/ Wait \/ WaitEnd \/ ExitCb \/ ExitReturn
            \/ PendingEnd

Next ==
  \/ \E c \in Child :
       \/ Exec(c) \/ \E how \in {"eof", "errno"} : Die(c, how)
       \/ Steal(c) \/ Spawn(c) \/ Close(c)
  \/ LoopStep

Spec == Init /\ [][Next]_vars

(***************************************************************************)
(* Fairness: the loop runs, callbacks return, and a forked child gets as   *)
(* far as exec or exit.                                                    *)
(***************************************************************************)
FairSpec ==
  /\ Spec /\ WF_vars(LoopStep)
  /\ \A c \in Child : WF_vars(Exec(c))

-----------------------------------------------------------------------------
(* Properties.                                                             *)

(***************************************************************************)
(* Type invariant; a handle is in one queue at most.                       *)
(***************************************************************************)
TypeOK ==
  /\ child \in [Child -> {"none", "forked", "running", "zombie", "gone"}]
  /\ handle \in [Child -> {"none", "active", "done", "failed", "closed"}]
  /\ IsInjective(process_handles \o pending)
  /\ Len(current) <= 2

(***************************************************************************)
(* Whenever the loop waits, a child that has exited and whose handle is    *)
(* open is known to it: a SIGCHLD message is under way.  Children that     *)
(* exit together, before uv_spawn returns or while uv__wait_children is at *)
(* work are not overlooked.                                                *)
(***************************************************************************)
NoExitIsMissed ==
  pc = "loop" => \A c \in Child :
    handle[c] = "active" /\ child[c] = "zombie" => watching /\ signaled

(***************************************************************************)
(* A child that could not exec is waited for before uv_spawn returns its   *)
(* error: it leaves no zombie and no handle in the queue.                  *)
(***************************************************************************)
FailedSpawnIsClean ==
  \A c \in Child : handle[c] = "failed" =>
    child[c] = "gone" /\ c \notin ToSet(process_handles)

(***************************************************************************)
(* exit_cb comes once for a handle, and only for a child that is gone.     *)
(***************************************************************************)
ExitCbOnce ==
  [][pc' = "exit_cb" /\ pc = "pending" =>
       LET c == Head(pending) IN
       child[c] = "gone" /\ handle[c] \in {"active", "closed"}]_vars

(***************************************************************************)
(* Liveness: the exit of a child is reported, unless its handle is closed  *)
(* or other code has collected it (ECHILD).                                *)
(***************************************************************************)
ExitIsReported ==
  \A c \in Child :
    (handle[c] = "active" /\ child[c] \in {"zombie", "gone"})
      ~> (handle[c] # "active" \/ c \in stolen)
=============================================================================
