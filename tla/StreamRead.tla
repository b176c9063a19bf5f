----------------------------- MODULE StreamRead -----------------------------
(***************************************************************************)
(* The reading side of one libuv stream (src/unix/stream.c): uv__read with *)
(* its bounded number of reads per event, the end of file and the short    *)
(* cut for POLLHUP, and callbacks that stop, restart or close the stream.  *)
(*                                                                         *)
(* The socket is the number of bytes that can be read and what the peer    *)
(* has done.  The writing side is module StreamWrite.  alloc_cb only       *)
(* returns a buffer of BufLen bytes or refuses.  Proofs: MCUnixHandles.    *)
(***************************************************************************)
EXTENDS Naturals

CONSTANTS
  MaxBytes,   \* bound: bytes the peer sends
  BufLen,     \* bytes alloc_cb provides
  ReadCount   \* reads per event, 32 in uv__read

VARIABLES
  avail, total,    \* bytes to be read, bytes sent so far
  peer,            \* "open", "fin" (it has closed) or "reset"
  hstate,          \* "open" or "closing"
  readable, reading, read_eof, read_partial,   \* the flags
  active,          \* UV_HANDLE_ACTIVE
  pollin,
  pc,              \* "loop", "read", "hup", or a callback
  hup,             \* POLLHUP is among the events being handled
  count

kernel == <<avail, total, peer>>
flags == <<hstate, readable, reading, read_eof, read_partial, active>>
vars == <<kernel, flags, pollin, pc, hup, count>>

Init ==
  /\ avail = 0 /\ total = 0 /\ peer = "open"
  /\ hstate = "open" /\ readable = TRUE
  /\ reading = FALSE /\ read_eof = FALSE /\ read_partial = FALSE
  /\ active = FALSE /\ pollin = FALSE
  /\ pc = "loop" /\ hup = FALSE /\ count = 0

Callbacks == {"nobufs_cb", "again_cb", "error_cb", "full_cb", "partial_cb",
              "eof_cb", "hup_eof_cb"}

InUserCode == pc \in Callbacks \cup {"loop"}

-----------------------------------------------------------------------------
(* The peer.                                                               *)

PeerSends ==
  /\ peer = "open" /\ total < MaxBytes
  /\ avail' = avail + 1
  /\ total' = total + 1
  /\ UNCHANGED <<peer, flags, pollin, pc, hup, count>>

PeerEnds(how) ==
  /\ peer = "open"
  /\ peer' = how
  /\ avail' = IF how = "reset" THEN 0 ELSE avail
  /\ UNCHANGED <<total, flags, pollin, pc, hup, count>>

-----------------------------------------------------------------------------
(* The API.                                                                *)

\* Mutant: the watcher is not started when the stream was read before.
ReadStartUnwatched ==
  /\ InUserCode
  /\ hstate = "open" /\ ~reading /\ readable
  /\ reading' = TRUE
  /\ read_eof' = FALSE
  /\ active' = TRUE
  /\ UNCHANGED <<kernel, hstate, readable, read_partial, pollin, pc, hup, count>>

uv_read_start ==
  /\ InUserCode
  /\ hstate = "open" /\ ~reading /\ readable
  /\ reading' = TRUE
  /\ read_eof' = FALSE
  /\ pollin' = TRUE
  /\ active' = TRUE
  /\ UNCHANGED <<kernel, hstate, readable, read_partial, pc, hup, count>>

\* Mutant: the watcher goes on.
StopReadingKeepsPolling ==
  /\ reading' = FALSE
  /\ active' = FALSE
  /\ UNCHANGED pollin

\* What uv_read_stop, an end of file and an error have in common.
StopReading ==
  /\ reading' = FALSE
  /\ active' = FALSE
  /\ pollin' = FALSE

uv_read_stop ==
  /\ InUserCode
  /\ reading
  /\ StopReading
  /\ UNCHANGED <<kernel, hstate, readable, read_eof, read_partial, pc, hup, count>>

Close ==
  /\ InUserCode
  /\ hstate = "open"
  /\ hstate' = "closing"
  /\ StopReading
  /\ readable' = FALSE
  /\ UNCHANGED <<kernel, read_eof, read_partial, pc, hup, count>>

-----------------------------------------------------------------------------
(* uv__stream_io and uv__read.                                             *)

\* The loop reports that there is something to read; POLLHUP may come with
\* it, or alone, once the peer has closed its side.
Io(withHup) ==
  /\ pc = "loop"
  /\ hstate = "open"
  /\ pollin
  /\ avail > 0 \/ peer # "open"
  /\ withHup => peer = "fin"
  /\ hup' = withHup
  /\ read_partial' = FALSE
  /\ count' = ReadCount
  /\ pc' = "read"
  /\ UNCHANGED <<kernel, hstate, readable, reading, read_eof, active, pollin>>

\* Mutants: the reads are not limited; uv__read does not look at the flag again.
GoesOnUncounted == reading

GoesOnAnyway == count > 0 /\ hstate = "open"

\* The loop of uv__read goes round again.
GoesOn == reading /\ count > 0

ReadEnd ==
  /\ pc = "read" /\ ~GoesOn
  /\ pc' = "hup"
  /\ UNCHANGED <<kernel, flags, pollin, hup, count>>

\* alloc_cb refuses.
NoBuffer ==
  /\ pc = "read" /\ GoesOn
  /\ pc' = "nobufs_cb"
  /\ UNCHANGED <<kernel, flags, pollin, hup, count>>

\* read(2) yields data; a buffer that is not full ends the reading.
ReadData ==
  /\ pc = "read" /\ GoesOn
  /\ avail > 0
  /\ avail' = IF avail < BufLen THEN 0 ELSE avail - BufLen
  /\ count' = count - 1
  /\ pc' = IF avail < BufLen THEN "partial_cb" ELSE "full_cb"
  /\ UNCHANGED <<total, peer, flags, pollin, hup>>

ReadAgain ==
  /\ pc = "read" /\ GoesOn
  /\ avail = 0 /\ peer = "open"
  /\ pc' = "again_cb"
  /\ UNCHANGED <<kernel, flags, pollin, hup, count>>

\* read(2) fails: the stream is of no use any more.
ReadError ==
  /\ pc = "read" /\ GoesOn
  /\ peer = "reset"
  /\ readable' = FALSE
  /\ pc' = "error_cb"
  /\ UNCHANGED <<kernel, hstate, reading, read_eof, read_partial, active, pollin,
                 hup, count>>

\* uv__stream_eof, with the place its callback returns to.
StreamEof(place) ==
  /\ read_eof' = TRUE
  /\ StopReading
  /\ pc' = place
  /\ UNCHANGED <<kernel, hstate, readable, read_partial, hup, count>>

ReadEof ==
  /\ pc = "read" /\ GoesOn
  /\ avail = 0 /\ peer = "fin"
  /\ StreamEof("eof_cb")

\* Mutant: a partial read stops the watcher.
ReadReturnStops ==
  /\ pc \in Callbacks \ {"hup_eof_cb"}
  /\ pc' = IF pc = "full_cb" THEN "read" ELSE "hup"
  /\ read_partial' = (read_partial \/ pc = "partial_cb")
  /\ pollin' = (pollin /\ pc # "partial_cb")
  /\ UNCHANGED <<kernel, hstate, readable, reading, active, read_eof, hup, count>>

\* The read callback returns.
ReadReturn ==
  /\ pc \in Callbacks \ {"hup_eof_cb"}
  /\ pc' = IF pc = "full_cb" THEN "read" ELSE "hup"
  /\ read_partial' = (read_partial \/ pc = "partial_cb")
  /\ IF pc = "error_cb" /\ reading THEN StopReading
     ELSE UNCHANGED <<reading, active, pollin>>
  /\ UNCHANGED <<kernel, hstate, readable, read_eof, hup, count>>

\* Mutant: a partial read is not asked for.
HupEndsEarly == hup /\ reading /\ ~read_eof

\* POLLHUP ends the stream at once if the last read emptied it.
HupEnds == hup /\ reading /\ read_partial /\ ~read_eof

\* The rest of uv__stream_io; if read_cb closed the stream it returns.
AfterRead ==
  /\ pc = "hup"
  /\ IF hstate = "open" /\ HupEnds THEN StreamEof("hup_eof_cb")
     ELSE /\ pc' = "loop"
          /\ hup' = FALSE
          /\ count' = 0
          /\ UNCHANGED <<kernel, flags, pollin>>

HupReturn ==
  /\ pc = "hup_eof_cb"
  /\ pc' = "loop"
  /\ hup' = FALSE
  /\ count' = 0
  /\ UNCHANGED <<kernel, flags, pollin>>

-----------------------------------------------------------------------------
LoopStep ==
  \/ \E withHup \in BOOLEAN : Io(withHup)
  \/ ReadEnd \/ ReadData \/ ReadAgain \/ ReadError \/ ReadEof \/ ReadReturn
  \/ AfterRead \/ HupReturn

Next ==
  \/ PeerSends \/ \E how \in {"fin", "reset"} : PeerEnds(how)
  \/ uv_read_start \/ uv_read_stop \/ Close
  \/ LoopStep \/ NoBuffer

Spec == Init /\ [][Next]_vars

(***************************************************************************)
(* Fairness: the loop runs and callbacks return.  A buffer is refused only *)
(* now and then: reading goes on after it.                                 *)
(***************************************************************************)
FairSpec == Spec /\ WF_vars(LoopStep) /\ SF_vars(ReadData) /\ SF_vars(ReadEof)

-----------------------------------------------------------------------------
(* Properties.                                                             *)

(***************************************************************************)
(* Type invariant.                                                         *)
(***************************************************************************)
TypeOK ==
  /\ avail \in 0 .. MaxBytes /\ total \in 0 .. MaxBytes
  /\ peer \in {"open", "fin", "reset"}
  /\ hstate \in {"open", "closing"}
  /\ readable \in BOOLEAN /\ reading \in BOOLEAN /\ read_eof \in BOOLEAN
  /\ read_partial \in BOOLEAN /\ active \in BOOLEAN
  /\ pollin \in BOOLEAN /\ hup \in BOOLEAN
  /\ pc \in Callbacks \cup {"loop", "read", "hup"}
  /\ count \in 0 .. ReadCount

(***************************************************************************)
(* The flag the user asks by, the flag that keeps the loop alive and the   *)
(* watched event agree whenever the loop polls, on every way out of        *)
(* uv__read and whatever its callbacks did.                                *)
(***************************************************************************)
ReadingIsWatched == active = reading /\ pollin = reading

(***************************************************************************)
(* The end of file is reported only when every byte has been: the short    *)
(* cut for POLLHUP does not overtake data.                                 *)
(***************************************************************************)
EofIsLast == pc \in {"eof_cb", "hup_eof_cb"} => avail = 0

(***************************************************************************)
(* No read callback comes after uv_read_stop or uv_close, also when they   *)
(* are called in a read callback in the middle of uv__read.                *)
(***************************************************************************)
NoReadAfterStop ==
  [][pc' \in Callbacks /\ pc' # pc => reading /\ hstate = "open"]_vars

(***************************************************************************)
(* Liveness: what the peer sent is read, and its end reported, unless the  *)
(* user stops reading.                                                     *)
(***************************************************************************)
EverythingIsRead == (avail > 0 /\ reading) ~> (avail = 0 \/ ~reading)

EofIsReported == (peer = "fin" /\ reading) ~> ~reading
=============================================================================
