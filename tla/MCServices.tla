----------------------------- MODULE MCServices -----------------------------
(***************************************************************************)
(* The services that libuv's handles stand on (the kernel's queues on      *)
(* Linux and macOS, timers and their heap, threads) and its file system    *)
(* requests, for TLC. The modules share no state, so one behaviour is      *)
(* about one of them, which part chooses, and leaves the state of the      *)
(* others alone. What is left alone stays in an initial state of its own   *)
(* behaviours, so an invariant of a component is asked of the states in    *)
(* which that component is the one chosen.                                 *)
(***************************************************************************)
EXTENDS Integers, Sequences

VARIABLES
  part,   \* the component this behaviour is about
  ringfd, sqe, sqhead, sqtail, cqe, cqhead, cqtail, overflow, sqthread,
  need_wakeup, working, in_flight, state, tail, at, iou_pc, step, flags,
  iou_uses,
  fdOf, elsewhere, pevents, events, watchers, watcher_queue, ctl, k, inv,
  batch, filled, nevents, have_signals, count, epoll_timeout, user_timeout,
  delivered, forgotten, epoll_uses, epoll_pc,
  req, mem, dir, fs_disk, lock, statics, fs_hist, tick, fs_uses,
  mode, o, mutex, sync_pc, sync_uses, h,
  hash, file, file_disk, maps, work, file_hist, file_uses,
  args, env, parent,
  kind, s,
  fp,
  time, timer_timeout, repeat, start_id, known, closing, theap, counter,
  ready, timer_pc, deadline, ran,
  heap,
  kq,
  ino

IO == INSTANCE IoUring WITH
  KernelVersion <- 60100, Req <- {"r1", "r2", "r3"}, SqSize <- 2,
  CqSize <- 2, Wrap <- 4, MaxUse <- 4, pc <- iou_pc, uses <- iou_uses

EP == INSTANCE LinuxPoll WITH
  Fd <- {3, 4}, File <- {"f1", "f2", "f3"}, Shared <- {"f2"},
  Opened <- {"f1", "f2"}, Signal <- "f3", RingSize <- 2, MaxEvents <- 2,
  Count <- 2, MaxUse <- 3, timeout <- epoll_timeout, uses <- epoll_uses,
  pc <- epoll_pc

FS == INSTANCE UnixFs WITH
  Reqs <- {"r1", "r2"},
  Programs <- {<<{}, 0>>, <<{"stat", "open", "utime", "fsync", "close"}, 2>>, <<{"readlink", "scandir", "read"}, 2>>, <<{"opendir", "readdir", "closedir"}, 4>>, <<{"write"}, 1>>, <<{"sendfile"}, 2>>, <<{"copyfile"}, 1>>, <<{"mkstemp"}, 3>>},
  Entries <- <<".", "a", "..", "b", "c">>, Batch <- 2,
  BufLists <- {<<1>>, <<2, 1>>, <<1, 0, 2, 1>>, <<0, 3>>}, IovMax <- 2,
  Src <- <<1, 2, 3>>, Chunk <- 2, Second <- 12, Micro <- 3,
  Times <- -26 .. 26, disk <- fs_disk, hist <- fs_hist, uses <- fs_uses

TS == INSTANCE ThreadSync WITH
  Thread <- {"a", "b", "c"},
  Modes <- {"barrier", "sem", "once", "thread", "create", "stack", "mask"},
  Threshold <- 2, MaxUse <- 2, Word <- 1024, pc <- sync_pc,
  uses <- sync_uses

F == INSTANCE WinFile WITH
  Workers <- {1, 2}, Paths <- {"a", "b", "d"}, Dir <- "d", HashSize <- 1,
  GroupSize <- 2, Offsets <- {1}, Sizes <- {0, 2}, MaxLen <- 2, MaxUse <- 4,
  Opens <- {<<"a", {"RDWR", "CREAT", "FILEMAP"}>>, <<"a", {"RDWR", "CREAT"}>>, <<"a", {"WRONLY", "TRUNC", "FILEMAP"}>>, <<"a", {}>>, <<"b", {"WRONLY", "CREAT", "APPEND", "FILEMAP"}>>, <<"b", {"WRONLY", "CREAT", "APPEND"}>>, <<"b", {"CREAT", "EXCL", "NOWRITE", "RDWR", "TEMPORARY"}>>, <<"d", {"FILEMAP"}>>, <<"d", {"RDWR", "CREAT", "TRUNC"}>>, <<"d", {"WRONLY", "APPEND", "DIRECT"}>>},
  disk <- file_disk, hist <- file_hist, uses <- file_uses

C == INSTANCE WinCommandLine WITH
  MaxLen <- 6, MaxArgs <- 2, MaxVars <- 3, Names <- 1..5, Required <- {2, 4}

NT == INSTANCE NetText WITH
  Alphabet <- [bytes |-> {65, 128, 191, 194, 224, 237, 240, 244}, label |-> {97, 45, 233, 945, 20013, 65536}, host |-> {-1, 97, 46, 12290, 233}, utf16 |-> {65, 233, 2048, 55296, 56319, 56320, 57343}, inet4 |-> {0, 5, 17}, inet6 |-> {1, 16, 17}, address |-> {0, 1, 4660, 65535}],
  MaxLen <- [bytes |-> 4, label |-> 4, host |-> 4, utf16 |-> 3, inet4 |-> 9, inet6 |-> 9, address |-> 4],
  Groups <- 4

FP == INSTANCE FsPoll WITH
  Answers <- {1, 2, -2}, Intervals <- {0, 3}, Delays <- {4}, MaxUse <- 3

T == INSTANCE Timers WITH
  Timer <- {"t1", "t2"}, Timeouts <- {0, 1, 3}, Repeats <- {0, 1},
  MaxTime <- 3, IntMax <- 2, MaxStarts <- 3, timeout <- timer_timeout,
  pc <- timer_pc

H == INSTANCE TimerHeap WITH
  Keys <- 1 .. 6

KQ == INSTANCE Kqueue WITH
  Io <- {"a"}, V <- "v", S <- "s", Fd <- {3, 4}, Pid <- 3, MaxEvents <- 2,
  Count <- 2, MaxUse <- 3

NY == INSTANCE Inotify WITH
  Handle <- {"h1", "h2"}, File <- {"a", "b"}, Batch <- 2, MaxWd <- 3,
  MaxUse <- 5

iouVars ==
  <<ringfd, sqe, sqhead, sqtail, cqe, cqhead, cqtail, overflow, sqthread,
    need_wakeup, working, in_flight, state, tail, at, iou_pc, step, flags,
    iou_uses>>
epollVars ==
  <<fdOf, elsewhere, pevents, events, watchers, watcher_queue, ctl, k, inv,
    batch, filled, nevents, have_signals, count, epoll_timeout,
    user_timeout, delivered, forgotten, epoll_uses, epoll_pc>>
fsVars == <<req, mem, dir, fs_disk, lock, statics, fs_hist, tick, fs_uses>>
syncVars == <<mode, o, mutex, sync_pc, sync_uses, h>>
fileVars == <<hash, file, file_disk, maps, work, file_hist, file_uses>>
cmdVars == <<args, env, parent>>
textVars == <<kind, s>>
pollVars == <<fp>>
timerVars ==
  <<time, timer_timeout, repeat, start_id, known, closing, theap, counter,
    ready, timer_pc, deadline, ran>>
heapVars == <<heap>>
kqueueVars == <<kq>>
inotifyVars == <<ino>>
suite ==
  <<part, iouVars, epollVars, fsVars, syncVars, fileVars, cmdVars, textVars,
    pollVars, timerVars, heapVars, kqueueVars, inotifyVars>>

SuiteInit ==
  /\ part \in {"iou", "epoll", "fs", "sync", "file", "cmd", "text", "poll",
               "timer", "heap", "kqueue", "inotify"}
  /\ IO!Init
  /\ part # "iou" => ~ringfd
  /\ EP!Init
  /\ part # "epoll" => ~ctl
  /\ FS!Init
  /\ part # "fs" => fs_hist.types = {} /\ tick = 0
  /\ TS!Init
  /\ part # "sync" => mode = "once"
  /\ F!Init
  /\ C!Init
  /\ NT!Init
  /\ part # "text" => kind = "bytes"
  /\ FP!Init
  /\ part # "poll" => fp.file = 1
  /\ T!Init
  /\ H!Init
  /\ KQ!Init
  /\ part # "kqueue" => ~kq.metrics
  /\ NY!Init

\* A step of one component leaves the others alone.
Only(which) ==
  /\ part = which /\ UNCHANGED part
  /\ IF which = "iou" THEN TRUE ELSE UNCHANGED iouVars
  /\ IF which = "epoll" THEN TRUE ELSE UNCHANGED epollVars
  /\ IF which = "fs" THEN TRUE ELSE UNCHANGED fsVars
  /\ IF which = "sync" THEN TRUE ELSE UNCHANGED syncVars
  /\ IF which = "file" THEN TRUE ELSE UNCHANGED fileVars
  /\ IF which = "cmd" THEN TRUE ELSE UNCHANGED cmdVars
  /\ IF which = "text" THEN TRUE ELSE UNCHANGED textVars
  /\ IF which = "poll" THEN TRUE ELSE UNCHANGED pollVars
  /\ IF which = "timer" THEN TRUE ELSE UNCHANGED timerVars
  /\ IF which = "heap" THEN TRUE ELSE UNCHANGED heapVars
  /\ IF which = "kqueue" THEN TRUE ELSE UNCHANGED kqueueVars
  /\ IF which = "inotify" THEN TRUE ELSE UNCHANGED inotifyVars

SuiteNext ==
  \/ Only("iou") /\ IO!Next
  \/ Only("epoll") /\ EP!Next
  \/ Only("fs") /\ FS!Next
  \/ Only("sync") /\ TS!Next
  \/ Only("file") /\ F!Next
  \/ Only("cmd") /\ C!Next
  \/ Only("text") /\ NT!Next
  \/ Only("poll") /\ FP!Next
  \/ Only("timer") /\ T!Next
  \/ Only("heap") /\ H!Next
  \/ Only("kqueue") /\ KQ!Next
  \/ Only("inotify") /\ NY!Next

SuiteSpec ==
  /\ SuiteInit /\ [][SuiteNext]_suite

-----------------------------------------------------------------------------
(***************************************************************************)
(* Timers are called in the order of their due times, once per round, the  *)
(* poll does not sleep past the first of them, and the heap keeps its      *)
(* order and its shape.                                                    *)
(***************************************************************************)
TimersAreSound ==
  /\ part = "timer" =>
       /\ T!TypeOK /\ T!CalledInOrder /\ T!OncePerRound /\ T!PollWakesInTime
  /\ part = "heap" => H!HeapOrder

(***************************************************************************)
(* epoll, io_uring and kqueue. A request is in one place of the ring and   *)
(* the kernel thread is woken when it has to be; epoll and kqueue know     *)
(* every active watcher when the loop sleeps, no event of a closed file    *)
(* reaches the file that got its number, the exit of a child is not        *)
(* dropped with a descriptor of the same number, and a one-shot file watch *)
(* is armed again.                                                         *)
(***************************************************************************)
PollingIsSound ==
  /\ part = "iou" =>
       /\ IO!RingKeepsRequests /\ IO!NoSleepOnWork /\ IO!OverflowIsSeen
  /\ part = "epoll" =>
       /\ EP!SleepsRegistered /\ EP!NoStaleEvent /\ EP!RingEndsWithPoll
       /\ EP!NeverAborts
  /\ part = "kqueue" =>
       /\ KQ!BlocksRegistered /\ KQ!EventsAreOfOpenFiles /\ KQ!ExitIsKept
       /\ KQ!WatchIsArmed /\ KQ!VnodeIsKnown

(***************************************************************************)
(* File system requests. A request gives its memory back however it ends   *)
(* and retries with its arguments; directories are listed once, writes,    *)
(* sendfile and copies move each byte once or report less; mapped files of *)
(* Windows act like files.                                                 *)
(***************************************************************************)
FilesAreSound ==
  /\ part = "fs" =>
       /\ FS!UnixRequestsFreeAll /\ FS!RetriesKeepArguments
       /\ FS!UnixEntriesOnce /\ FS!WriteIsExact /\ FS!SendfileIsExact
       /\ FS!CopyIsWhole /\ FS!ChildInheritsNothing /\ FS!UnixTimesConvert
  /\ part = "file" =>
       /\ F!HashFinds /\ F!MappingsExact /\ F!ActsLikeAFile /\ F!OpenIsPosix

(***************************************************************************)
(* Threads. Rounds of a barrier do not mix and no wakeup is lost, a        *)
(* semaphore counts, uv_once runs its callback once and first, a thread    *)
(* knows its own handle, and an initialisation that fails is undone.       *)
(***************************************************************************)
SyncIsSound ==
  /\ part = "sync" =>
       /\ TS!RoundsAreWhole /\ TS!NobodyIsForgotten /\ TS!DestroyIsLast
       /\ TS!SemaphoreCounts /\ TS!OnceIsOnce /\ TS!SelfIsTheHandle
       /\ TS!StackFits /\ TS!AffinityReadsBack /\ TS!FailureIsUndone

(***************************************************************************)
(* Conversions of text. The child parses the arguments that were given, in *)
(* a buffer that holds them; UTF-8 is read in shortest forms only;         *)
(* Punycode, UTF-16 and addresses read back what was written, within their *)
(* buffers.                                                                *)
(***************************************************************************)
TextIsSound ==
  /\ part = "cmd" =>
       /\ C!ArgumentsArrive /\ C!CommandLineFits /\ C!EnvironmentComplete
  /\ part = "text" =>
       /\ NT!Utf8IsStrict /\ NT!PunycodeReadsBack /\ NT!HostNameFits
       /\ NT!Utf16ReadsBack /\ NT!NeededLengthIsTold /\ NT!Inet4IsExact
       /\ NT!Inet6IsExact /\ NT!AddressReadsBack

(***************************************************************************)
(* Watching files by polling and with inotify. A context waits for one     *)
(* thing at a time and the handle outlives it; every change is reported,   *)
(* and none to a handle that was stopped; inotify watches the paths of the *)
(* listed handles, and a walk over the handles of a path calls each of     *)
(* them once.                                                              *)
(***************************************************************************)
WatchersAreSound ==
  /\ part = "poll" =>
       /\ FP!ContextWaitsForOneThing /\ FP!CloseWaitsForContexts
       /\ FP!ReportsEveryChange /\ FP!StoppedWatchIsSilent /\ FP!NextStatIsDue
  /\ part = "inotify" =>
       /\ NY!HandlesAreListed /\ NY!KernelWatchesTheLists
       /\ NY!WalkCallsEachOnce /\ NY!NoChangeIsLost

(***************************************************************************)
(* What a step may never do: call a timer before it is due, lose or invent *)
(* a node of the heap, or forget a watched path in the child of a fork.    *)
(***************************************************************************)
NothingUncalledFor ==
  /\ T!NeverEarly
  /\ H!OneNodeAtATime
  /\ NY!ForkRestartsHandles
=============================================================================
