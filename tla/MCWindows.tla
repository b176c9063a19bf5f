----------------------------- MODULE MCWindows ------------------------------
(***************************************************************************)
(* libuv on Windows for TLC. The modules share no state, so one behaviour  *)
(* is about one of them, which part chooses, and leaves the state of the   *)
(* others alone. What is left alone stays in an initial state of its own   *)
(* behaviours, so an invariant of a component is asked of the states in    *)
(* which that component is the one chosen.                                 *)
(***************************************************************************)
EXTENDS Integers, Sequences

VARIABLES
  part,   \* the component this behaviour is about
  list, next, active, refd, closing, closed, active_handles, async_sent,
  posting, iocp, pending, reqs, endgame, mode, stop_flag, can_sleep,
  timeout, r, loop_uses, loop_pc, after,
  tcp, tcp_pc, tcp_uses,
  pipe, worker, wire, pipe_pc, pipe_uses,
  poll, poll_pc, poll_uses,
  udp, udp_pc, udp_uses,
  fse, fsevent_pc, fsevent_uses,
  proc, waiter, process_pc, process_uses,
  tty, console, tty_pc, tty_uses,
  req, mem, disk, dir, usermode, hist, text, tick, fs_uses,
  h, con, ideal, alphabet, bytes, faults

L == INSTANCE WinLoop WITH
  Idle <- {"i1", "i2"}, Prepare <- {}, Check <- {}, Async <- {"a1"},
  Batch <- 2, Rounds <- 1, MaxUse <- 3, uses <- loop_uses, pc <- loop_pc

T == INSTANCE WinTcp WITH
  N <- 2, Writes <- {"w1", "w2"}, Reads <- 2, MaxUse <- 7, pc <- tcp_pc,
  uses <- tcp_uses

P == INSTANCE WinPipe WITH
  N <- 2, Writes <- {"w1", "w2"}, MaxUse <- 4, pc <- pipe_pc,
  uses <- pipe_uses

O == INSTANCE WinPoll WITH
  MaxUse <- 3, pc <- poll_pc, uses <- poll_uses

U == INSTANCE WinUdp WITH
  Sends <- {"s1", "s2"}, Count <- 1, MaxUse <- 6, pc <- udp_pc,
  uses <- udp_uses

E == INSTANCE WinFsEvent WITH
  Batch <- 2, MaxUse <- 5, pc <- fsevent_pc, uses <- fsevent_uses

R == INSTANCE WinProcess WITH
  Stdio <- 4, MaxUse <- 5, pc <- process_pc, uses <- process_uses

Y == INSTANCE WinTtyRead WITH
  Bytes <- 2, MaxKeys <- 2, MaxUse <- 4, pc <- tty_pc, uses <- tty_uses

Q == INSTANCE WinFs WITH
  Reqs <- {"r1", "r2"},
  Programs <- {<<{}, 0>>, <<{"unlink"}, 2>>, <<{"fchmod"}, 2>>, <<{"stat", "utime"}, 2>>, <<{"lstat", "lutime"}, 1>>, <<{"readlink", "realpath"}, 2>>, <<{"statfs"}, 1>>, <<{"mktemp"}, 3>>, <<{"symlink", "junction"}, 2>>, <<{"read", "scandir"}, 2>>, <<{"other"}, 1>>, <<{"opendir", "readdir", "closedir"}, 4>>},
  Entries <- <<".", "a", "..", "b", "c">>, Batch <- 2, Names <- {"x", "y"},
  TmpMax <- 2, Alphabet <- {"\\", "/", "C", ":", "?"}, MaxText <- 5,
  Ten <- 2, Million <- 2, Hundred <- 2, Half <- 8, Ticks <- -28 .. 28,
  uses <- fs_uses

S == INSTANCE WinTtyWrite WITH
  Alphabets <- {{10, 13, 97, 27, 91, 67}, {27, 91, 49, 57, 59, 72}, {27, 91, 97, 50, 65, 74}, {27, 91, 51, 55, 59, 109}, {27, 55, 56, 97, 99, 115, 117, 91}, {27, 91, 50, 53, 63, 32, 104, 113}, {27, 80, 34, 92, 7, 97}, {194, 155, 226, 240, 97, 255}},
  ArgvSize <- 2, MaxArg <- 95, BufSize <- 2, Width <- 3, Rows <- 4,
  Samples <- {0, 127, 128, 2047, 2048, 65535, 65536, 1114111},
  MaxBytes <- 5, MaxFaults <- 1

loopVars ==
  <<list, next, active, refd, closing, closed, active_handles, async_sent,
    posting, iocp, pending, reqs, endgame, mode, stop_flag, can_sleep,
    timeout, r, loop_uses, loop_pc, after>>
tcpVars == <<tcp, tcp_pc, tcp_uses>>
pipeVars == <<pipe, worker, wire, pipe_pc, pipe_uses>>
pollVars == <<poll, poll_pc, poll_uses>>
udpVars == <<udp, udp_pc, udp_uses>>
fseventVars == <<fse, fsevent_pc, fsevent_uses>>
processVars == <<proc, waiter, process_pc, process_uses>>
ttyVars == <<tty, console, tty_pc, tty_uses>>
fsVars == <<req, mem, disk, dir, usermode, hist, text, tick, fs_uses>>
screenVars == <<h, con, ideal, alphabet, bytes, faults>>
suite ==
  <<part, loopVars, tcpVars, pipeVars, pollVars, udpVars, fseventVars,
    processVars, ttyVars, fsVars, screenVars>>

SuiteInit ==
  /\ part \in {"loop", "tcp", "pipe", "poll", "udp", "fsevent", "process",
               "tty", "fs", "screen"}
  /\ L!Init
  /\ T!Init
  /\ P!Init
  /\ O!Init
  /\ part # "poll" => poll.slow = FALSE
  /\ U!Init
  /\ part # "udp" => udp.socket = "none"
  /\ E!Init
  /\ R!Init
  /\ Y!Init
  /\ Q!Init
  /\ part # "fs" => disk.kind = "none" /\ tick = 0 /\ hist.types = {}
  /\ S!Init
  /\ part # "screen" => alphabet = {10, 13, 97, 27, 91, 67}

\* A step of one component leaves the others alone.
Only(which) ==
  /\ part = which /\ UNCHANGED part
  /\ IF which = "loop" THEN TRUE ELSE UNCHANGED loopVars
  /\ IF which = "tcp" THEN TRUE ELSE UNCHANGED tcpVars
  /\ IF which = "pipe" THEN TRUE ELSE UNCHANGED pipeVars
  /\ IF which = "poll" THEN TRUE ELSE UNCHANGED pollVars
  /\ IF which = "udp" THEN TRUE ELSE UNCHANGED udpVars
  /\ IF which = "fsevent" THEN TRUE ELSE UNCHANGED fseventVars
  /\ IF which = "process" THEN TRUE ELSE UNCHANGED processVars
  /\ IF which = "tty" THEN TRUE ELSE UNCHANGED ttyVars
  /\ IF which = "fs" THEN TRUE ELSE UNCHANGED fsVars
  /\ IF which = "screen" THEN TRUE ELSE UNCHANGED screenVars

SuiteNext ==
  \/ Only("loop") /\ L!Next
  \/ Only("tcp") /\ T!Next
  \/ Only("pipe") /\ P!Next
  \/ Only("poll") /\ O!Next
  \/ Only("udp") /\ U!Next
  \/ Only("fsevent") /\ E!Next
  \/ Only("process") /\ R!Next
  \/ Only("tty") /\ Y!Next
  \/ Only("fs") /\ Q!Next
  \/ Only("screen") /\ S!Next

SuiteSpec ==
  /\ SuiteInit /\ [][SuiteNext]_suite

-----------------------------------------------------------------------------
(***************************************************************************)
(* The loop. A package that was announced is under way, nothing refers to  *)
(* a closed handle, the iterator of a watcher pass is in the list, and     *)
(* active_handles is exact.                                                *)
(***************************************************************************)
WinLoopIsSound ==
  /\ part = "loop" =>
       /\ L!SentIsUnderWay /\ L!ClosedIsGone /\ L!IteratorIsListed
       /\ L!WinActiveExact

(***************************************************************************)
(* TCP, pipes, UDP and uv_poll_t. reqs_pending and activecnt are exact, so *)
(* that the endgame comes after the last request and before nothing else;  *)
(* a handle that reads has one read out; a server is never deaf; a wanted  *)
(* event is watched by a request and reported once.                        *)
(***************************************************************************)
WinSocketsAreSound ==
  /\ part = "tcp" =>
       /\ T!PendingExact /\ T!ReadsOnce /\ T!AcceptsInOnePlace
       /\ T!ShutAfterWrites /\ T!TcpActiveExact
  /\ part = "pipe" =>
       /\ P!PipePendingExact /\ P!ReadIsInterrupted /\ P!PipeReadsOnce
       /\ P!WritesOneByOne /\ P!FramesInStep
  /\ part = "poll" =>
       /\ O!PollCovered /\ O!OneReporter /\ O!PollEndgameLast
  /\ part = "udp" =>
       /\ U!UdpPendingExact /\ U!UdpReadsOnce /\ U!UdpActiveExact

(***************************************************************************)
(* The console. One read is out, a cancelled read gives the output lock    *)
(* back, lines and keys arrive in order; the parser of escape sequences    *)
(* never overruns its arguments, writes text before the command that       *)
(* follows it and keeps the caret in the window.                           *)
(***************************************************************************)
WinTtyIsSound ==
  /\ part = "tty" =>
       /\ Y!TtyReadsOnce /\ Y!LockComesBack /\ Y!LinesArrive /\ Y!KeysInOrder
       /\ Y!TtyActiveExact
  /\ part = "screen" =>
       /\ S!ParserConsistent /\ S!ArgumentIsExact /\ S!TextBeforeCommand
       /\ S!NewlineReturns /\ S!CaretInWindow /\ S!StyleIsKept /\ S!Utf8Decodes

(***************************************************************************)
(* File system requests, file watches and child processes. A request gives *)
(* back its memory and handles, a watch has its request out and is silent  *)
(* once stopped, and the exit of a child is awaited, told once and leaves  *)
(* no kernel handle.                                                       *)
(***************************************************************************)
WinFilesAreSound ==
  /\ part = "fsevent" =>
       /\ E!NothingAfterStop /\ E!FsRequestExact /\ E!FsWatchGoesOn
  /\ part = "process" =>
       /\ R!SpawnLeaksNothing /\ R!ExitReqComesHome /\ R!ExitIsAwaited
       /\ R!SignalIsTold
  /\ part = "fs" =>
       /\ Q!RequestsFreeAll /\ Q!PathIsKept /\ Q!EntriesOnce
       /\ Q!TempNamesDistinct /\ Q!LinksReadBack /\ Q!TimesConvert
=============================================================================
