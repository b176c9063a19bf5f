----------------------------- MODULE WinTtyRead -----------------------------
(***************************************************************************)
(* Reading from a console on Windows (the first half of src/win/tty.c).    *)
(* In raw mode the system's wait thread reports that input records are     *)
(* there, and the loop turns them into bytes.  In line mode a work item    *)
(* blocks in ReadConsole; to stop it the loop thread takes the output      *)
(* lock, sets a trap for the work item and presses Enter, and the work     *)
(* item gives the lock back.                                               *)
(*                                                                         *)
(* One console handle for input.  What a key prints is Bytes numbered      *)
(* bytes; a line is one key.  uv_sem_wait is a guard: the loop thread does *)
(* nothing else while it waits.  alloc_cb of a line read only allocates.   *)
(***************************************************************************)
EXTENDS Integers, Sequences, FiniteSets

CONSTANTS
  Bytes,    \* bytes of the sequence that a key prints
  MaxKeys,  \* bound: keys that are pressed
  MaxUse    \* bound: calls of user code

VARIABLES
  tty,      \* the handle and its read request
  console,  \* the input records, what the work item does, the globals of tty.c
  pc,       \* the callback or the step of the loop thread under way
  uses

vars == <<tty, console, pc, uses>>

NoKey == [id |-> 0, off |-> 0, repeat |-> 0]

(***************************************************************************)
(* tty:     flags, act, reqs    the flags, activecnt and reqs_pending      *)
(*          wait     the wait thread has read_raw_wait                     *)
(*          posted   the results of read_req that wait for the loop        *)
(*          line     read_line_buffer is not empty                         *)
(*          key      the key whose bytes are being copied, id 0: none      *)
(* history: due, got    bytes of the keys that the loop took, bytes that   *)
(*          read_cb got;  cancelled  the user stopped this line read;      *)
(*          lost, late  a line was dropped, or reported after stop;        *)
(*          stale, failed, starved, leaked  the exceptions of the          *)
(*          properties, see where they are set                             *)
(* console: input, typed    the records, the keys pressed so far           *)
(*          status, lock    uv__read_console_status, uv_tty_output_lock    *)
(*          thread   the work item: what it is about to do, and its result *)
(***************************************************************************)
Init ==
  /\ tty = [flags |-> {}, act |-> 0, reqs |-> 0, wait |-> FALSE, posted |-> {}, line |-> FALSE,
            key |-> NoKey, due |-> <<>>, got |-> <<>>, cancelled |-> FALSE, lost |-> FALSE,
            late |-> FALSE, stale |-> FALSE, failed |-> FALSE, starved |-> FALSE,
            leaked |-> FALSE]
  /\ console = [input |-> <<>>, typed |-> 0, status |-> "NOT_STARTED", lock |-> 1,
                thread |-> <<"none">>]
  /\ pc = <<"idle">> /\ uses = 0

Has(t, f) == f \in t.flags
Set(t, fs) == [t EXCEPT !.flags = @ \cup fs]
Clear(t, fs) == [t EXCEPT !.flags = @ \ fs]

Increase(t) == [t EXCEPT !.act = @ + 1, !.flags = @ \cup {"ACTIVE"}]
Decrease(t) ==
  [t EXCEPT !.act = @ - 1,
            !.flags = IF t.act = 1 /\ ~Has(t, "CLOSING") THEN @ \ {"ACTIVE"} ELSE @]

DecreasePending(t) ==
  [t EXCEPT !.reqs = @ - 1,
            !.flags = IF t.reqs = 1 /\ Has(t, "CLOSING") THEN @ \cup {"ENDGAME"} ELSE @]

\* An operation of the loop thread turns a state <<tty, console>> into a set
\* of states.
Becomes(states) == \E s \in states : tty' = s[1] /\ console' = s[2]

-----------------------------------------------------------------------------
(* Asking for input.                                                       *)

Pends(t) == [Set(t, {"READ_PENDING"}) EXCEPT !.reqs = @ + 1]

\* uv__tty_queue_read_raw: a failure is processed like a completion.
QueueReadRaw(t, c) ==
  LET u == [Pends(t) EXCEPT !.line = FALSE] IN
  {<<[u EXCEPT !.wait = TRUE], c>>, <<[u EXCEPT !.posted = @ \cup {<<"error">>}], c>>}

\* uv__tty_queue_read_line.  Without a buffer read_cb gets UV_ENOBUFS and the
\* handle reads on without a request (starved).
QueueReadLine(t, c) ==
  LET u == [Pends(t) EXCEPT !.line = TRUE, !.cancelled = FALSE]
      reset == [c EXCEPT !.status = "NOT_STARTED"]
  IN {<<[t EXCEPT !.line = FALSE, !.starved = TRUE], c>>,
      <<u, [reset EXCEPT !.thread = <<"start">>]>>,
      <<[u EXCEPT !.posted = @ \cup {<<"error">>}], reset>>}

QueueRead(t, c) ==
  IF Has(t, "RAW") THEN QueueReadRaw(t, c) ELSE QueueReadLine(t, c)

\* uv__tty_read_start: nothing is queued while a request is pending, and
\* bytes of a key that were left over are processed without waiting.
Start(t, c) ==
  LET u == Increase(Set(t, {"READING"})) IN
  IF Has(t, "READ_PENDING") THEN {<<u, c>>}
  ELSE IF t.key.id # 0 THEN {<<[Pends(u) EXCEPT !.posted = @ \cup {<<"ok", 0>>}], c>>}
  ELSE QueueRead(u, c)

-----------------------------------------------------------------------------
(* Taking the request back: states with whether it succeeded.              *)

\* uv__cancel_read_console.  A trap that was set before ReadConsole or came
\* too late needs nothing more; otherwise the lock is left to the work item,
\* and Enter is pressed, which may fail.  The handle is marked even when the
\* request that is pending is not a line read (stale).
CancelReadConsole(t, c) ==
  LET trapped == [c EXCEPT !.status = "TRAP_REQUESTED"]
      held == [trapped EXCEPT !.lock = 0]
      u == [Set(t, {"CANCELLATION_PENDING"}) EXCEPT !.stale = @ \/ ~t.line, !.cancelled = TRUE]
  IN IF c.lock = 0 THEN {}
     ELSE IF c.status # "IN_PROGRESS" THEN {<<u, trapped, TRUE>>}
     ELSE {<<u, [held EXCEPT !.input = Append(@, <<"return", 0, 1>>)], TRUE>>,
           <<[t EXCEPT !.failed = TRUE], held, FALSE>>}

\* Mutant: activecnt is left alone when a request is pending.
StopKeepsActive(t, c) ==
  LET u == Clear(t, {"READING"}) IN
  IF ~Has(t, "READ_PENDING") THEN {<<Decrease(u), c, TRUE>>}
  ELSE IF Has(t, "RAW")
  THEN {<<u, [c EXCEPT !.input = Append(@, <<"focus", 0, 0>>)], TRUE>>}
  ELSE CancelReadConsole(Decrease(u), c)

\* uv__tty_read_stop: in raw mode an event of no meaning ends the wait.
Stop(t, c) ==
  LET u == Decrease(Clear(t, {"READING"})) IN
  IF ~Has(t, "READ_PENDING") THEN {<<u, c, TRUE>>}
  ELSE IF Has(t, "RAW")
  THEN {<<u, [c EXCEPT !.input = Append(@, <<"focus", 0, 0>>)], TRUE>>,
        <<[u EXCEPT !.failed = TRUE], c, FALSE>>}
  ELSE IF Has(t, "CANCELLATION_PENDING") THEN {<<u, c, TRUE>>}
  ELSE CancelReadConsole(u, c)

-----------------------------------------------------------------------------
(* User code, outside uv_run or in a callback.                             *)

UserRuns == pc[1] \in {"idle", "alloc", "full", "last"}
Open == UserRuns /\ uses < MaxUse /\ uses' = uses + 1 /\ ~Has(tty, "CLOSING")

ReadStart ==
  /\ Open /\ ~Has(tty, "READING")
  /\ Becomes(Start(tty, console)) /\ UNCHANGED pc

ReadStop ==
  /\ Open /\ Has(tty, "READING")
  /\ Becomes(Stop(tty, console)) /\ UNCHANGED pc

\* uv_tty_set_mode stops a handle that reads; an error of that ends it.
SetMode ==
  /\ Open
  /\ IF Has(tty, "READING")
     THEN \E s \in Stop(tty, console) :
            /\ tty' = s[1] /\ console' = s[2]
            /\ pc' = IF s[3] THEN <<"mode", pc, TRUE>> ELSE pc
     ELSE pc' = <<"mode", pc, FALSE>> /\ UNCHANGED <<tty, console>>

\* Then it gets the output lock, changes the mode, which may fail, and starts
\* reading again.
SetModeEnds ==
  /\ pc[1] = "mode" /\ console.lock = 1
  /\ LET u == IF Has(tty, "RAW") THEN Clear(tty, {"RAW"}) ELSE Set(tty, {"RAW"}) IN
     Becomes({<<tty, console>>} \cup (IF pc[3] THEN Start(u, console) ELSE {<<u, console>>}))
  /\ pc' = pc[2] /\ UNCHANGED uses

\* uv__tty_write_bufs on a handle for the same console, and uv_tty_init,
\* uv_tty_get_winsize, uv_tty_set_vterm_state and uv_tty_get_vterm_state,
\* which also hold the lock while they work.
WriteBegins ==
  /\ UserRuns /\ uses < MaxUse /\ uses' = uses + 1 /\ console.lock = 1
  /\ console' = [console EXCEPT !.lock = 0]
  /\ pc' = <<"write", pc>> /\ UNCHANGED tty

WriteEnds ==
  /\ pc[1] = "write"
  /\ console' = [console EXCEPT !.lock = @ + 1]
  /\ pc' = pc[2] /\ UNCHANGED <<tty, uses>>

\* Mutant: the handle is freed without waiting for its request.
CloseEndsNow(t) == Set(t, {"ENDGAME"})

\* uv__want_endgame, when no request is pending.
CloseEnds(t) == IF t.reqs = 0 THEN Set(t, {"ENDGAME"}) ELSE t

\* uv__tty_close: an error of stopping is not looked at.
Close ==
  /\ Open
  /\ Becomes({<<CloseEnds(Set(Clear(s[1], {"ACTIVE"}), {"CLOSING"})), s[2]>> :
                s \in IF Has(tty, "READING") THEN Stop(tty, console) ELSE {<<tty, console>>}})
  /\ UNCHANGED pc

-----------------------------------------------------------------------------
(* The user at the keyboard, the wait thread and the work item.            *)

\* The first key is held down until it repeats.
Type ==
  /\ console.typed < MaxKeys
  /\ console' = [console EXCEPT
       !.typed = @ + 1,
       !.input = Append(@, <<"key", console.typed + 1, IF console.typed = 0 THEN 2 ELSE 1>>)]
  /\ UNCHANGED <<tty, pc, uses>>

\* uv_tty_post_raw_read.
PostRawRead ==
  /\ tty.wait /\ console.input # <<>>
  /\ tty' = [tty EXCEPT !.wait = FALSE, !.posted = @ \cup {<<"ok", 0>>}]
  /\ UNCHANGED <<console, pc, uses>>

\* uv_tty_line_read_thread, its four parts: it looks for a trap,
LineReadBegins ==
  /\ console.thread = <<"start">>
  /\ IF console.status = "TRAP_REQUESTED"
     THEN /\ tty' = [tty EXCEPT !.posted = @ \cup {<<"ok", 0>>}]
          /\ console' = [console EXCEPT !.status = "COMPLETED", !.thread = <<"none">>]
     ELSE /\ console' = [console EXCEPT !.status = "IN_PROGRESS", !.thread = <<"read">>]
          /\ UNCHANGED tty
  /\ UNCHANGED <<pc, uses>>

\* is in ReadConsole, which a key ends, and which fails on a closed handle,
ReadConsole ==
  /\ console.thread = <<"read">>
  /\ \/ \E n \in 1..Len(console.input) :
          /\ console.input[n][1] # "focus"
          /\ \A k \in 1..(n - 1) : console.input[k][1] = "focus"
          /\ console' = [console EXCEPT
               !.input = SubSeq(@, n + 1, Len(@)),
               !.thread = <<"returned", <<"ok", 1>>>>]
     \/ console' = [console EXCEPT !.thread = <<"returned", <<"error">>>>]
  /\ UNCHANGED <<tty, pc, uses>>

\* Mutant: the end of the read is noted without looking for a trap.
LineReadReturnsUntrapped ==
  /\ console.thread[1] = "returned"
  /\ console' = [console EXCEPT !.status = "COMPLETED", !.thread = <<"post", console.thread[2]>>]
  /\ UNCHANGED <<tty, pc, uses>>

\* notes that it is back and learns of a trap,
LineReadReturns ==
  /\ console.thread[1] = "returned"
  /\ console' = [console EXCEPT
       !.status = "COMPLETED",
       !.thread = <<IF console.status = "TRAP_REQUESTED" THEN "restore" ELSE "post",
                    console.thread[2]>>]
  /\ UNCHANGED <<tty, pc, uses>>

\* undoes the Enter on the screen and gives the lock back,
LineReadRestores ==
  /\ console.thread[1] = "restore"
  /\ console' = [console EXCEPT !.lock = @ + 1, !.thread = <<"post", console.thread[2]>>]
  /\ UNCHANGED <<tty, pc, uses>>

\* and posts the request.
LineReadPosts ==
  /\ console.thread[1] = "post"
  /\ tty' = [tty EXCEPT !.posted = @ \cup {console.thread[2]}]
  /\ console' = [console EXCEPT !.thread = <<"none">>]
  /\ UNCHANGED <<pc, uses>>

-----------------------------------------------------------------------------
(* The loop processes the request.                                         *)

\* The end of both functions: more input is asked for.
Finish(t, c) ==
  {<<DecreasePending(s[1]), s[2]>> :
     s \in IF Has(t, "READING") /\ ~Has(t, "READ_PENDING") THEN QueueRead(t, c)
           ELSE {<<t, c>>}}

Taken == Clear([tty EXCEPT !.posted = {}], {"READ_PENDING"})

\* Mutant: the mark of a cancelled read stays.
LineTakenMarked == [Taken EXCEPT !.line = FALSE]

\* The request with its buffer, and the mark of a cancelled read taken away.
LineTaken == Clear([Taken EXCEPT !.line = FALSE], {"CANCELLATION_PENDING"})

\* A read that failed keeps the mark of its cancellation (stale).
LineFailed ==
  [Taken EXCEPT !.line = FALSE, !.stale = @ \/ Has(tty, "CANCELLATION_PENDING")]

\* uv_process_tty_read_line_req: a cancelled line is dropped.
ProcessLine ==
  /\ pc = <<"idle">> /\ tty.line /\ tty.posted # {}
  /\ \E r \in tty.posted :
       IF r = <<"error">>
       THEN IF Has(tty, "READING")
            THEN /\ tty' = Decrease(Clear(LineFailed, {"READING"}))
                 /\ pc' = <<"last">> /\ UNCHANGED console
            ELSE Becomes(Finish(LineFailed, console)) /\ UNCHANGED pc
       ELSE IF ~Has(tty, "CANCELLATION_PENDING") /\ r[2] # 0
       THEN /\ tty' = [LineTaken EXCEPT !.late = @ \/ ~Has(tty, "READING")]
            /\ pc' = <<"last">> /\ UNCHANGED console
       ELSE /\ Becomes(Finish([LineTaken EXCEPT !.lost = @ \/ (r[2] # 0 /\ ~tty.cancelled)],
                              console))
            /\ UNCHANGED pc
  /\ UNCHANGED uses

\* uv_process_tty_read_raw_req: a request that is no longer wanted, an error
\* (after which activecnt is one too high: leaked), or input records.
ProcessRaw ==
  /\ pc = <<"idle">> /\ ~tty.line /\ tty.posted # {}
  /\ \E r \in tty.posted :
       IF ~Has(tty, "READING") \/ ~Has(tty, "RAW")
       THEN Becomes(Finish(Taken, console)) /\ UNCHANGED pc
       ELSE IF r = <<"error">>
       THEN /\ tty' = [Clear(Taken, {"READING"}) EXCEPT !.leaked = TRUE]
            /\ pc' = <<"last">> /\ UNCHANGED console
       ELSE /\ tty' = Taken /\ UNCHANGED console
            /\ pc' = <<"scan", Len(console.input), <<>>, 0>>
  /\ UNCHANGED uses

\* The bytes a key prints, repeated, and those that are not copied yet.
KeyBytes(id, from) == [k \in 1..(Bytes - from) |-> <<id, from + k>>]
Prints(id, repeat) == IF repeat = 2 THEN KeyBytes(id, 0) \o KeyBytes(id, 0) ELSE KeyBytes(id, 0)
Rest(key) ==
  IF key.id = 0 THEN <<>>
  ELSE KeyBytes(key.id, key.off) \o (IF key.repeat = 2 THEN KeyBytes(key.id, 0) ELSE <<>>)

\* ReadConsoleInput and the choice of the records that print something.  An
\* error takes the bytes in the buffer with it.  It waits when the work item
\* of a mode that user code has changed to took the records.
ReadRecord ==
  /\ pc[1] = "scan" /\ tty.key.id = 0 /\ pc[2] > 0 /\ Has(tty, "READING")
  /\ \/ /\ console.input # <<>>
        /\ LET r == Head(console.input) IN
           tty' = IF r[1] = "focus" THEN tty
                  ELSE [tty EXCEPT !.key = [id |-> r[2] + 1, off |-> 0, repeat |-> r[3]],
                                   !.due = @ \o Prints(r[2] + 1, r[3])]
        /\ console' = [console EXCEPT !.input = Tail(@)]
        /\ pc' = <<"scan", pc[2] - 1, pc[3], pc[4]>>
     \/ /\ tty' = [Decrease(Clear(tty, {"READING"})) EXCEPT !.due = tty.got]
        /\ pc' = <<"last">> /\ UNCHANGED console
  /\ UNCHANGED uses

\* A byte needs a buffer, which alloc_cb gives, or not.
NeedBuffer ==
  /\ pc[1] = "scan" /\ tty.key.id # 0 /\ tty.key.off < Bytes /\ pc[3] = <<>>
  /\ pc[4] = 0 /\ Has(tty, "READING")
  /\ pc' = <<"alloc", pc[2]>>
  /\ UNCHANGED <<tty, console, uses>>

AllocReturns ==
  /\ pc[1] = "alloc"
  /\ \/ pc' = <<"last">>
     \/ \E size \in {1, 3} : pc' = <<"copy", pc[2], <<>>, size>>
  /\ UNCHANGED <<tty, console, uses>>

\* Mutant: the offset in the key is not advanced when the buffer is full.
CopyByteAgain ==
  /\ \/ pc[1] = "copy"
     \/ pc[1] = "scan" /\ tty.key.id # 0 /\ tty.key.off < Bytes /\ pc[4] # 0
        /\ Has(tty, "READING")
  /\ LET used == Append(pc[3], <<tty.key.id, tty.key.off + 1>>) IN
     IF Len(used) = pc[4]
     THEN pc' = <<"full", pc[2]>> /\ tty' = [tty EXCEPT !.got = @ \o used]
     ELSE pc' = <<"scan", pc[2], used, pc[4]>> /\ tty' = [tty EXCEPT !.key.off = @ + 1]
  /\ UNCHANGED <<console, uses>>

\* A byte is copied; a full buffer goes to read_cb.
CopyByte ==
  /\ \/ pc[1] = "copy"
     \/ pc[1] = "scan" /\ tty.key.id # 0 /\ tty.key.off < Bytes /\ pc[4] # 0
        /\ Has(tty, "READING")
  /\ LET used == Append(pc[3], <<tty.key.id, tty.key.off + 1>>) IN
     IF Len(used) = pc[4]
     THEN pc' = <<"full", pc[2]>> /\ tty' = [tty EXCEPT !.got = @ \o used, !.key.off = @ + 1]
     ELSE pc' = <<"scan", pc[2], used, pc[4]>> /\ tty' = [tty EXCEPT !.key.off = @ + 1]
  /\ UNCHANGED <<console, uses>>

FullReturns ==
  /\ pc[1] = "full"
  /\ pc' = <<"scan", pc[2], <<>>, 0>>
  /\ UNCHANGED <<tty, console, uses>>

\* The key is done, or is repeated.
KeyEnds ==
  /\ pc[1] = "scan" /\ tty.key.id # 0 /\ tty.key.off = Bytes /\ Has(tty, "READING")
  /\ tty' = [tty EXCEPT !.key = IF @.repeat > 1
                                THEN [@ EXCEPT !.repeat = @ - 1, !.off = 0] ELSE NoKey]
  /\ UNCHANGED <<console, pc, uses>>

\* Nothing is left, or user code stopped: what is in the buffer is reported.
ScanEnds ==
  /\ pc[1] = "scan" /\ ((pc[2] = 0 /\ tty.key.id = 0) \/ ~Has(tty, "READING"))
  /\ IF pc[3] # <<>>
     THEN tty' = [tty EXCEPT !.got = @ \o pc[3]] /\ pc' = <<"last">> /\ UNCHANGED console
     ELSE Becomes(Finish(tty, console)) /\ pc' = <<"idle">>
  /\ UNCHANGED uses

\* The last read_cb of a request returns.
LastReturns ==
  /\ pc[1] = "last"
  /\ Becomes(Finish(tty, console)) /\ pc' = <<"idle">>
  /\ UNCHANGED uses

\* uv__tty_endgame.
Endgame ==
  /\ pc = <<"idle">> /\ Has(tty, "ENDGAME") /\ ~Has(tty, "CLOSED") /\ tty.reqs = 0 /\ ~tty.wait
  /\ tty' = Set(tty, {"CLOSED"})
  /\ UNCHANGED <<console, pc, uses>>

Next ==
  \/ ReadStart \/ ReadStop \/ SetMode \/ SetModeEnds \/ WriteBegins \/ WriteEnds \/ Close
  \/ Type \/ PostRawRead
  \/ LineReadBegins \/ ReadConsole \/ LineReadReturns \/ LineReadRestores \/ LineReadPosts
  \/ ProcessLine \/ ProcessRaw \/ ReadRecord \/ NeedBuffer \/ AllocReturns \/ CopyByte
  \/ FullReturns \/ KeyEnds \/ ScanEnds \/ LastReturns \/ Endgame

Spec == Init /\ [][Next]_vars

-----------------------------------------------------------------------------
(* What tty.c promises of reading.                                         *)

\* Where the read request is.
Places ==
  Cardinality(tty.posted) + (IF tty.wait THEN 1 ELSE 0)
    + (IF console.thread = <<"none">> THEN 0 ELSE 1)

\* The one read request is in at most one place, READ_PENDING tells whether
\* it is out, a handle that reads has it out unless there was no buffer for a
\* line, and the handle is given back after it.
TtyReadsOnce ==
  LET idle == pc = <<"idle">> \/ (pc[1] \in {"write", "mode"} /\ pc[2] = <<"idle">>) IN
  /\ Places <= 1
  /\ Has(tty, "READ_PENDING") <=> Places = 1
  /\ pc = <<"idle">> /\ Has(tty, "READING") /\ ~tty.starved => Has(tty, "READ_PENDING")
  /\ tty.reqs = Places + (IF idle THEN 0 ELSE 1)
  /\ Has(tty, "ENDGAME") => Places = 0

\* uv__cancel_read_console: the output lock is held by nobody, by a writer,
\* or on behalf of a work item that will find the trap and give it back; the
\* work item restores the screen only under it.
LockComesBack ==
  LET writing == pc[1] = "write"
      owed == \/ console.thread[1] = "restore"
              \/ console.thread[1] \in {"read", "returned"} /\ console.status = "TRAP_REQUESTED"
  IN /\ console.lock = 1 <=> ~writing /\ ~owed
     /\ ~(writing /\ owed)
     /\ console.lock \in {0, 1}

\* A line is dropped only when the user stopped the read it came to, and none
\* is reported after the user stopped; except when the mark of a cancellation
\* was set for a raw read or outlived a failed one (stale), or cancelling
\* itself failed.
LinesArrive == ~tty.stale /\ ~tty.failed => ~tty.lost /\ ~tty.late

\* Raw mode: the bytes of all keys reach read_cb in order, none twice and none
\* left out, wherever user code stopped and restarted between them.
KeysInOrder ==
  tty.got \o (IF pc[1] \in {"scan", "copy"} THEN pc[3] ELSE <<>>) \o Rest(tty.key) = tty.due

\* The handle keeps the loop alive exactly while it reads.
TtyActiveExact ==
  ~tty.leaked => /\ tty.act = (IF Has(tty, "READING") THEN 1 ELSE 0)
                 /\ ~Has(tty, "CLOSING") => (Has(tty, "ACTIVE") <=> Has(tty, "READING"))
=============================================================================
