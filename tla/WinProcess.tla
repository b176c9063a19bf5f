----------------------------- MODULE WinProcess -----------------------------
(***************************************************************************)
(* A child process on Windows (src/win/process.c, process-stdio.c).        *)
(* uv_spawn makes inheritable copies of the stdio handles for the child,   *)
(* creates the process and has a thread of the system wait for it;         *)
(* that thread posts exit_req to the loop, while user code may kill the    *)
(* process or close the handle.  Kernel handles are counted by name.       *)
(*                                                                         *)
(* The command line, the environment (module WinCommandLine) and the       *)
(* search for the program are left out: each may make uv_spawn fail.       *)
(***************************************************************************)
EXTENDS Integers, Sequences

CONSTANTS
  Stdio,    \* the fds of options->stdio
  MaxUse    \* bound: calls of user code

Kinds == {"ignore", "pipe", "fd", "stream"}
Signals == {0, 15}

VARIABLES
  proc,    \* the handle, the child and the kernel handles
  waiter,  \* the thread that waits: <<"none">>, <<"armed">>, <<"fired">>
  pc,      \* <<"idle">> or <<"exit_cb">>
  uses

vars == <<proc, waiter, pc, uses>>

(***************************************************************************)
(* flags     ACTIVE, CLOSING, ENDGAME, CLOSED                              *)
(* child     "none", "running", "dying" (terminated), "exited"             *)
(* open      the kernel handles that are open                              *)
(* parents   the stdio pipes whose parent end is connected                 *)
(* wait      wait_handle is registered; pending: exit_cb_pending           *)
(* posted    exit_req is in the completion port                            *)
(* signal    exit_signal                                                   *)
(* told, lost, killed, checked    history: exit_cb calls; a suspended      *)
(* child could not be resumed; TerminateProcess and then kill(0) worked    *)
(***************************************************************************)
Init ==
  /\ proc = [flags |-> {}, child |-> "none", open |-> {}, parents |-> {}, wait |-> FALSE,
             pending |-> FALSE, posted |-> FALSE, signal |-> 0, told |-> 0, lost |-> FALSE,
             killed |-> FALSE, checked |-> FALSE]
  /\ waiter = <<"none">> /\ pc = <<"idle">> /\ uses = 0

Has(f) == f \in proc.flags

-----------------------------------------------------------------------------
(* uv__stdio_create and uv_spawn.                                          *)

\* The first three fds are always open in the child.
Count == IF Stdio > 3 THEN Stdio ELSE 3
Child(i) == <<"child", i>>

\* uv__stdio_destroy: the copies for the child are closed.
StdioDestroy(p) == [p EXCEPT !.open = {x \in @ : x[1] # "child"}]

\* The copy for fd i; a bad fd 0 to 2 is left out in the child.
StdioStep(p, i, kind) ==
  LET opened == [p EXCEPT !.open = @ \cup {Child(i)}] IN
  CASE kind = "ignore" -> {IF i <= 2 THEN opened ELSE p}
    [] kind = "pipe"   -> {[opened EXCEPT !.parents = @ \cup {i}]}
    [] kind = "fd"     -> {opened} \cup (IF i <= 2 THEN {p} ELSE {})
    [] kind = "stream" -> {opened}

\* What is there after the fds below n; the one that fails is n.
StdioBelow(p, kinds, n) ==
  LET below[i \in 0..n] ==
        IF i = 0 THEN {p}
        ELSE UNION {StdioStep(q, i - 1, IF i <= Stdio THEN kinds[i - 1] ELSE "ignore") : q \in below[i - 1]}
  IN below[n]

\* Mutant: an error leaves the copies that were made.
StdioCreateLeaks(p, kinds) ==
  {<<TRUE, q>> : q \in StdioBelow(p, kinds, Count)}
  \cup {<<FALSE, q>> : q \in UNION {StdioBelow(p, kinds, n) : n \in 0..(Count - 1)}}

\* uv__stdio_create: all of the fds, or an error that closes the copies.
StdioCreate(p, kinds) ==
  {<<TRUE, q>> : q \in StdioBelow(p, kinds, Count)}
  \cup {<<FALSE, StdioDestroy(q)>> : q \in UNION {StdioBelow(p, kinds, n) : n \in 0..(Count - 1)}}

\* Mutant: nobody waits for a detached child.
CreatedNoWait(p) ==
  {[StdioDestroy(p) EXCEPT !.child = "running", !.flags = @ \cup {"ACTIVE"},
                           !.open = @ \cup {<<"process">>}]}

\* uv_spawn from CreateProcessW on: the copies for the child are closed
\* whatever happens.  A detached child is created suspended; when it cannot
\* be resumed it is terminated and its handles stay open.
Created(p) ==
  LET q == [StdioDestroy(p) EXCEPT !.child = "running", !.wait = TRUE,
                                   !.flags = @ \cup {"ACTIVE"}, !.open = @ \cup {<<"process">>}]
  IN {q, StdioDestroy(p),
      [StdioDestroy(p) EXCEPT !.lost = TRUE, !.open = @ \cup {<<"process">>, <<"thread">>}]}

\* uv_spawn: an error may come before, in or after uv__stdio_create.
Spawn ==
  /\ uses < MaxUse /\ uses' = uses + 1
  /\ proc.child = "none" /\ ~Has("CLOSING") /\ ~proc.lost /\ proc.parents = {}
  /\ \E kinds \in [0..(Stdio - 1) -> Kinds], r \in {"early", "late"} :
       IF r = "early" THEN proc' = proc
       ELSE \E s \in StdioCreate(proc, kinds) :
              IF s[1] THEN proc' \in Created(s[2]) \cup {StdioDestroy(s[2])} ELSE proc' = s[2]
  /\ waiter' = IF proc'.wait THEN <<"armed">> ELSE waiter
  /\ UNCHANGED pc

-----------------------------------------------------------------------------
(* Killing and closing.                                                    *)

User == uses < MaxUse /\ uses' = uses + 1 /\ UNCHANGED pc

\* Mutant: the signal is kept though the process was gone.
KilledAnyway(p, s) == [p EXCEPT !.signal = s]

\* uv_process_kill when uv__kill returns an error.
KillFailed(p, s) == p

\* uv__kill of a running child.
Killed(p, s) ==
  IF s = 0 THEN [p EXCEPT !.checked = p.killed, !.signal = 0]
  ELSE [p EXCEPT !.child = "dying", !.signal = s, !.killed = TRUE]

\* uv_process_kill, with a supported signal.
Kill ==
  /\ User /\ proc.child # "none" /\ ~Has("CLOSED")
  /\ \E s \in Signals :
       proc' = CASE proc.child = "exited" -> KillFailed(proc, s)
                 [] proc.child = "dying" /\ s # 0 -> KillFailed(proc, s)
                 [] OTHER -> Killed(proc, s)
  /\ UNCHANGED waiter

\* Mutant: the endgame although exit_req is under way.
CloseEndsNow(p) == [p EXCEPT !.flags = @ \cup {"ENDGAME"}]

\* uv__want_endgame, unless exit_req is under way.
CloseEnds(p) == IF p.pending THEN p ELSE [p EXCEPT !.flags = @ \cup {"ENDGAME"}]

\* uv__process_close: UnregisterWaitEx waits for a callback that has begun.
Close ==
  /\ User /\ ~Has("CLOSING")
  /\ proc.wait => waiter # <<"fired">>
  /\ proc' = CloseEnds([proc EXCEPT !.flags = (@ \ {"ACTIVE"}) \cup {"CLOSING"}, !.wait = FALSE])
  /\ waiter' = IF proc.wait THEN <<"none">> ELSE waiter

-----------------------------------------------------------------------------
(* The child, the thread that waits, and the loop.                         *)

Exit ==
  /\ proc.child \in {"running", "dying"}
  /\ proc' = [proc EXCEPT !.child = "exited"]
  /\ UNCHANGED <<waiter, pc, uses>>

\* exit_wait_callback, in two steps: exit_cb_pending, and the post.
WaitFires ==
  /\ waiter = <<"armed">> /\ proc.child = "exited"
  /\ waiter' = <<"fired">> /\ proc' = [proc EXCEPT !.pending = TRUE]
  /\ UNCHANGED <<pc, uses>>

WaitPosts ==
  /\ waiter = <<"fired">>
  /\ waiter' = <<"none">> /\ proc' = [proc EXCEPT !.posted = TRUE]
  /\ UNCHANGED <<pc, uses>>

\* uv__process_proc_exit.
ProcExit ==
  /\ pc = <<"idle">> /\ proc.posted
  /\ LET p == [proc EXCEPT !.posted = FALSE, !.pending = FALSE] IN
     IF Has("CLOSING")
     THEN proc' = [p EXCEPT !.flags = @ \cup {"ENDGAME"}] /\ pc' = pc
     ELSE /\ proc' = [p EXCEPT !.wait = FALSE, !.flags = @ \ {"ACTIVE"}, !.told = @ + 1]
          /\ pc' = <<"exit_cb">>
  /\ UNCHANGED <<waiter, uses>>

CallbackReturn == pc = <<"exit_cb">> /\ pc' = <<"idle">> /\ UNCHANGED <<proc, waiter, uses>>

\* uv__process_endgame.
Endgame ==
  /\ pc = <<"idle">> /\ Has("ENDGAME") /\ ~Has("CLOSED")
  /\ proc' = [proc EXCEPT !.flags = @ \cup {"CLOSED"},
                          !.open = IF proc.child = "none" THEN @ ELSE @ \ {<<"process">>}]
  /\ UNCHANGED <<waiter, pc, uses>>

Next ==
  Spawn \/ Kill \/ Close \/ Exit \/ WaitFires \/ WaitPosts \/ ProcExit \/ CallbackReturn \/ Endgame

Spec == Init /\ [][Next]_vars

-----------------------------------------------------------------------------
(* What process.c promises.                                                *)

\* No kernel handle outlives its use: the copies made for the child are
\* closed when uv_spawn returns, and the process handle with the uv_process_t,
\* except those of a detached child that could not be resumed.
SpawnLeaksNothing ==
  /\ ~proc.lost => proc.open \subseteq {<<"process">>}
  /\ \A x \in proc.open : x[1] # "child"
  /\ Has("CLOSED") /\ ~proc.lost => proc.open = {}

\* The handle is not given back to the user while the waiting thread or the
\* completion port refers to it, and exit_cb is called at most once.
ExitReqComesHome ==
  /\ Has("ENDGAME") => waiter = <<"none">> /\ ~proc.posted
  /\ proc.told <= 1
  /\ proc.pending <=> waiter = <<"fired">> \/ proc.posted

\* A handle that is neither closed nor told of the exit will be told: a
\* thread waits for the child, or its message is under way.
ExitIsAwaited ==
  proc.child # "none" /\ proc.told = 0 /\ ~Has("CLOSING") =>
    waiter # <<"none">> \/ proc.posted

\* exit_cb names the signal of the uv_process_kill that ended the child, and
\* none for a child that ended by itself.  A health check with signal 0
\* between the two makes libuv forget the signal.
SignalIsTold ==
  /\ proc.signal # 0 => proc.killed
  /\ proc.killed /\ ~proc.checked => proc.signal # 0
=============================================================================
