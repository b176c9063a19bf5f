----------------------------- MODULE WinFsEvent -----------------------------
(***************************************************************************)
(* A uv_fs_event_t on Windows (src/win/fs-event.c).  One overlapped        *)
(* ReadDirectoryChangesW fills handle->buffer with a batch of entries; the *)
(* callback is called for each entry that passes the filter, and may stop  *)
(* or close the handle in the middle of the batch.  A file is watched      *)
(* through its directory, with its long and short name as the filter.      *)
(*                                                                         *)
(* A name is whether it passes the filter; resolving it to its long form   *)
(* and the conversions are left out.                                       *)
(***************************************************************************)
EXTENDS Integers, Sequences

CONSTANTS
  Batch,    \* bound: entries that a request brings
  MaxUse    \* bound: calls of user code

VARIABLES
  fse,   \* the handle and its request
  pc,    \* <<"idle">>, or in the callback with the entries that are left
  uses

vars == <<fse, pc, uses>>

(***************************************************************************)
(* active, closing, endgame, closed    flags of the handle                 *)
(* dir       dir_handle is open                                            *)
(* filter    "none", "dir" (dirw is set) or "file" (filew is set)          *)
(* buffer    handle->buffer is allocated                                   *)
(* pending   req_pending                                                   *)
(* kernel    the kernel has the request                                    *)
(* back      <<>>, or the completed request: its status and its entries    *)
(* late      history: a callback was called on a handle that was stopped   *)
(***************************************************************************)
Init ==
  /\ fse = [active |-> FALSE, closing |-> FALSE, endgame |-> FALSE, closed |-> FALSE,
            dir |-> FALSE, filter |-> "none", buffer |-> FALSE, pending |-> FALSE,
            kernel |-> FALSE, back |-> <<>>, late |-> FALSE]
  /\ pc = <<"idle">> /\ uses = 0

\* uv__fs_event_queue_readdirchanges: a failure comes through the queue.
QueueReadDirChanges(e) ==
  {[e EXCEPT !.pending = TRUE, !.kernel = TRUE],
   [e EXCEPT !.pending = TRUE, !.back = <<"error", <<>>>>]}

\* Closing dir_handle makes the kernel give the request back.
CloseDir(e) ==
  [e EXCEPT !.dir = FALSE, !.kernel = FALSE,
            !.back = IF e.kernel THEN <<"error", <<>>>> ELSE @]

\* Mutant: the filter of a directory outlives uv_fs_event_stop.
StoppedKeepsDir(e) ==
  IF ~e.active THEN e
  ELSE [CloseDir(e) EXCEPT !.active = FALSE, !.filter = IF @ = "dir" THEN @ ELSE "none"]

\* Mutant: the buffer is freed with the names.
StoppedFreesBuffer(e) ==
  IF ~e.active THEN e
  ELSE [CloseDir(e) EXCEPT !.active = FALSE, !.filter = "none", !.buffer = FALSE]

\* uv_fs_event_stop.
Stopped(e) ==
  IF ~e.active THEN e
  ELSE [CloseDir(e) EXCEPT !.active = FALSE, !.filter = "none"]

-----------------------------------------------------------------------------
(* User code.                                                              *)

Use == uses < MaxUse /\ uses' = uses + 1 /\ UNCHANGED pc /\ ~fse.closing

\* uv_fs_event_start succeeds.  A start while the request of an earlier
\* start is not back, or in the callback, uses the request twice: user code
\* must not do that.
Start ==
  /\ Use /\ ~fse.active /\ ~fse.pending /\ pc = <<"idle">>
  /\ \E filter \in {"dir", "file"} :
       fse' = [fse EXCEPT !.active = TRUE, !.dir = TRUE, !.filter = filter,
                          !.buffer = TRUE, !.pending = TRUE, !.kernel = TRUE]

\* uv_fs_event_start fails, and takes everything back.
StartFails ==
  /\ Use /\ ~fse.active /\ ~fse.pending /\ pc = <<"idle">>
  /\ fse' = [fse EXCEPT !.buffer = FALSE]

Stop == Use /\ fse' = Stopped(fse)

\* uv__want_endgame, unless the request is out.
CloseEnds(e) == IF e.pending THEN e ELSE [e EXCEPT !.endgame = TRUE]

\* uv__fs_event_close.
Close == Use /\ fse' = CloseEnds([Stopped(fse) EXCEPT !.closing = TRUE])

-----------------------------------------------------------------------------
(* The kernel and the loop.                                                *)

Batches == UNION {[1..n -> {"match", "other"}] : n \in 0..Batch}

\* ReadDirectoryChangesW completes; no entries means that too many changed.
Complete ==
  /\ fse.kernel
  /\ \E b \in {<<"error", <<>>>>} \cup {<<"ok", es>> : es \in Batches} :
       fse' = [fse EXCEPT !.kernel = FALSE, !.back = b]
  /\ UNCHANGED <<pc, uses>>

\* The entry is reported: a directory is watched, or the name is the file's.
Passes(e, entry) == e.filter = "dir" \/ (e.filter = "file" /\ entry = "match")

\* Mutant: a stopped handle alone is asked about when the batch is done.
FinishedStopped(e) ==
  IF e.closing THEN {[e EXCEPT !.endgame = TRUE]} ELSE {e}

\* After the batch: the endgame, or the next request.
Finished(e) ==
  IF e.closing THEN {[e EXCEPT !.endgame = TRUE]}
  ELSE IF e.active THEN QueueReadDirChanges(e) ELSE {e}

\* The entries of the batch from the first one that passes the filter.
NextEntry(e, es) ==
  LET hits == {i \in DOMAIN es : Passes(e, es[i])} IN
  IF hits = {} THEN <<>>
  ELSE SubSeq(es, CHOOSE i \in hits : \A j \in hits : i <= j, Len(es))

\* Goes on with the batch.
Report(e, es) ==
  LET left == NextEntry(e, es) IN
  IF left = <<>>
  THEN fse' \in Finished(e) /\ pc' = <<"idle">>
  ELSE /\ fse' = [e EXCEPT !.late = @ \/ ~e.active]
       /\ pc' = <<"cb", Tail(left)>>

\* uv__process_fs_event_req, up to the first callback.
ProcessReq ==
  /\ pc = <<"idle">> /\ fse.back # <<>>
  /\ LET e == [fse EXCEPT !.pending = FALSE, !.back = <<>>] IN
     \/ /\ ~fse.active
        /\ fse' = [e EXCEPT !.endgame = fse.closing] /\ UNCHANGED pc
     \/ /\ fse.active /\ fse.back[2] # <<>>
        /\ Report(e, fse.back[2])
     \/ /\ fse.active /\ fse.back[2] = <<>>
        /\ fse' = e /\ pc' = <<"cb", <<>>>>
  /\ UNCHANGED uses

\* The callback returns; the batch ends early when the handle is closing.
CallbackReturn ==
  /\ pc[1] = "cb"
  /\ Report(fse, IF fse.closing THEN <<>> ELSE pc[2])
  /\ UNCHANGED uses

\* uv__fs_event_endgame.
Endgame ==
  /\ pc = <<"idle">> /\ fse.endgame /\ ~fse.pending /\ ~fse.closed
  /\ fse' = [fse EXCEPT !.closed = TRUE, !.buffer = FALSE]
  /\ UNCHANGED <<pc, uses>>

Next ==
  Start \/ StartFails \/ Stop \/ Close \/ Complete \/ ProcessReq \/ CallbackReturn \/ Endgame

Spec == Init /\ [][Next]_vars

-----------------------------------------------------------------------------
(* What fs-event.c promises.                                               *)

\* The callback is never called on a handle that user code stopped or
\* closed, not even for the rest of the batch under way.
NothingAfterStop == ~fse.late

\* req_pending is exact, the kernel always has a buffer to write to, and the
\* handle is given back to the user only when the request is back.
FsRequestExact ==
  /\ fse.pending <=> fse.kernel \/ fse.back # <<>>
  /\ fse.pending => fse.buffer
  /\ ~(fse.kernel /\ fse.back # <<>>)
  /\ fse.closed => ~fse.pending

\* Between callbacks a started handle has its request out, so no change goes
\* unnoticed, and a closed one reaches its endgame.
FsWatchGoesOn ==
  pc = <<"idle">> => /\ fse.active => fse.pending /\ (fse.dir \/ fse.back = <<"error", <<>>>>)
                     /\ fse.closing /\ ~fse.pending => fse.endgame
=============================================================================
