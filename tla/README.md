# A verification project for linuxc

The repository is a collection of C programs for Linux. Most of them are
event-driven programs built on libuv 1.48.0, which is kept in the repository
(`src/myCore/network/socket/libuv/libuv-1.48.0_x86`, below `LIB`), with the
programs under `learning-code` and `my_demo` on top of it. Beside them are small
programs about processes, pipes, shared memory, sockets and SQLite. What can go
wrong in these programs, and can hardly be tested, happens inside libuv: the
event loop, its wakeup from other threads, the thread pool, and the state machines
of streams, signals, processes and files. These are modelled component by
component, together with the repository's own programs that keep state.

TLA+ modules model the code, TLC checks them on small instances (12 runs), and
TLAPS proves theorems about thirteen of them for every value of their constants: the
async handles, the thread pool, the loop, streams, datagrams, signals, child
processes and the repository's own programs. `PROJECT.json` says which lines every definition models, which
hazards of the code the properties are for, and which theorems are proved.

## Inventory

| Component | State | Operations | Interacts with | What makes it correct |
|---|---|---|---|---|
| Async handles (`LIB/src/unix/async.c`) | `pending`, `busy` of each handle, the list `async_handles`, the eventfd | `uv_async_init`, `uv_async_send` (any thread), `uv__async_io`, `uv__async_close`, `uv__async_stop`, `uv__async_fork` | polled by the loop; used by the thread pool and by demo 009 | no wakeup lost, no write to a closed fd, no callback after close |
| Thread pool (`LIB/src/threadpool.c`) | two queues, two counters, a mutex and a condition; per loop a queue and a mutex | `uv_queue_work`, `uv_cancel`, the worker, `uv__work_done`, cleanup | reports through the loop's async handle; file system and DNS requests run in it | each work done once, with a truthful status; no deadlock; slow work bounded |
| Event loop (`unix/core.c`, `loop-watcher.c`, `uv-common.h`) | handle flags, `active_handles`, lists of watchers, `pending_queue`, `closing_handles`, `stop_flag`, locals of `uv_run` | `uv_run` in three modes, start, stop, ref, unref, close, `uv_stop` | calls every callback | counter exact, nothing closed is called, sleeps and returns only when it may, timers and closes are not starved |
| Timers (`timer.c`, `heap-inl.h`) | heap ordered by time and start number | start, stop, again, `uv__run_timers` | loop time and poll timeout | order, no overflow, expiry in the right iteration |
| epoll backend (`unix/linux.c`, `unix/loop.c`) | `watchers`, `watcher_queue`, the batch of events, the control ring | `uv__io_start`, `uv__io_stop`, `uv__io_poll`, `uv_loop_fork` | loop, streams | stale events are dropped; the kernel watches what is wanted when the loop blocks |
| io_uring (`unix/linux.c`) | submission and completion ring, the sleeping kernel thread | submit, poll, fall back to the pool | file system requests | every request completes once, the kernel thread is woken |
| Streams (`unix/stream.c`, `tcp.c`, `pipe.c`) | write queue, flags, requests, descriptors that wait | write, read, connect, shutdown, listen, accept, close | epoll, loop, echo programs | every request called back once and in order; no descriptor lost |
| UDP (`unix/udp.c`) | queue of sends, flags | send, receive, close | epoll | the same for datagrams |
| Signals (`unix/signal.c`) | tree of handles, pipe, counters of caught and dispatched signals | start, stop, handler, dispatch, close, fork | signal handlers, loop, processes | no message for a freed handle, no deadlock with the handler |
| Processes (`unix/process.c`) | list of children, descriptors between fork and exec | spawn, SIGCHLD, kill, close | signals | each exit reported once; a failed spawn leaves nothing |
| Watching files (`fs-poll.c`, `unix/linux.c` inotify, `unix/kqueue.c`) | contexts, watcher lists, filters | start, stop, close, fork, the walk over events | pool, kernel | no change of a watched file is missed, nothing stopped is called |
| File system requests (`unix/fs.c`) | a request and its memory | the life of a request; the operations of several system calls | pool, io_uring | memory is freed once; partial work and errors are told |
| Threads, text, addresses (`unix/thread.c`, `win/thread.c`, `thread-common.c`, `idna.c`, `inet.c`) | locks and conditions; none | semaphores, barriers, conditions; conversions | pthread; callers | nobody waits for what has happened; conversion equals its definition |
| Windows (`LIB/src/win`) | completion port, requests in flight, endgames | the same interface over overlapped I/O | completion port, threads of the system | `reqs_pending` exact, nothing freed under the kernel |
| Own libuv programs (`learning-code`, `my_demo`) | a few handles | callbacks | the loop | the program ends; memory is not used after free |
| `fork.c` | two pipes, two counters | ping-pong of two processes | kernel | strict alternation, both end |
| `shme`, `sql` | a segment; a buffer and a database | straight-line code | kernel, SQLite | no reading past the end; error paths release what they hold |
| `tcp_echo`, `multicast`, raw sockets, small examples | little or none | straight-line code | kernel | not modelled |

The hard behaviours are: threads between two atomic operations of
`uv_async_send`; two locks taken in different orders by workers and `uv_cancel`;
condition-variable signals that are skipped by a counter; signal handlers that
interrupt the code whose data they use; callbacks that change the lists being
walked; values read before callbacks and used after them; requests the kernel
still owns when their handle is closed; partial results and errors in the middle
of a queue; and everything that has to happen eventually. `PROJECT.json` lists each
of them under "hazards", at its line and with the properties that watch it.

## Modules

Each module's head says what it models and what it abstracts. `LIB/src` is left
out before the file names.

| Module | Models |
|---|---|
| `Async` | `unix/async.c`: one loop, any number of sending threads |
| `Wakeup` | abstract: what a `uv_async_t` promises; `Async` implements it |
| `ThreadPool` | `threadpool.c` with several loops |
| `WorkRequest` | abstract: what the pool promises for each request; `ThreadPool` implements it |
| `EventLoop` | `uv_run` and the handles it serves |
| `Timers`, `TimerHeap` | `timer.c` with its arithmetic of time; `heap-inl.h` node by node |
| `StreamWrite` | the writing side of `unix/stream.c`: queue, connect, shutdown, close |
| `StreamRead` | its reading side: `uv__read` and what callbacks do to it |
| `StreamAccept` | descriptors that arrive: accept, the EMFILE trick, ipc pipes |
| `Udp` | `unix/udp.c` |
| `Signals` | `unix/signal.c` with handlers that interrupt |
| `Processes`, `SpawnStdio` | `unix/process.c`: children and their exits; the descriptors between fork and exec |
| `LinuxPoll`, `IoUring` | `unix/linux.c`: epoll with its control ring; the ring of file requests |
| `Kqueue` | `unix/kqueue.c`: the backend of macOS and the BSDs |
| `Inotify`, `FsPoll` | `uv_fs_event_t` on Linux; `fs-poll.c` |
| `UnixFs` | `unix/fs.c` |
| `ThreadSync` | `unix/thread.c`, `win/thread.c`, `thread-common.c` |
| `NetText` | `idna.c`, `inet.c` |
| `WinLoop` | `win/core.c`, `async.c`, `loop-watcher.c`, requests and endgames |
| `WinTcp`, `WinPipe`, `WinUdp`, `WinPoll` | `win/tcp.c`, `pipe.c`, `udp.c`, `poll.c` |
| `WinProcess`, `WinCommandLine` | `win/process.c`, `process-stdio.c` |
| `WinTtyRead`, `WinTtyWrite` | the two halves of `win/tty.c` |
| `WinFile`, `WinFs`, `WinFsEvent` | `win/fs.c`, `fs-fd-hash-inl.h`, `fs-event.c` |
| `WakeDemo` | `learning-code/009/demo.c` on top of `Wakeup` and of the places where `uv_run` reads `stop_flag` |
| `ForkPingPong` | `src/myCore/fork/fork.c` |
| `Demos` | the echo client and server of `my_demo`, `shme`, the SQL file runner |
| `AsyncProofs`, `ThreadPoolProofs`, `EventLoopProofs` | theorems; those about `StreamWrite`, `StreamAccept`, `SpawnStdio` and `Signals` are at the end of these modules, those about `StreamRead`, `Udp`, `Processes`, `ForkPingPong` and `Demos` in `MCUnixHandles` |
| `MCThreadPool` | which loop owns which work, and symmetry, for TLC |
| `MCUnixHandles`, `MCServices`, `MCWindows`, `MCThreads`, `MCLive` | suites, see below |

Every definition that models code is mapped to its lines in `PROJECT.json`.
Operators introduced by a comment that begins with "Mutant" are not part of the
models: each is a plausible wrong version of the definition that follows it. For
one of them per property `PROJECT.json` says so, and replacing the definition by
it makes TLC find that property violated; the others document what else the
property catches.

**Suites.** A component by itself is often a small state space, so one run checks
several. A suite declares the variables of all its components, INSTANCEs each
with its bounds, and lets a variable `part` choose, in the initial state, the
component a behaviour is about. The components of a suite share no state: the
others stay in one of their own initial states, and a conjunct of an invariant is
asked while its component is the chosen one (action properties hold trivially of
stuttering). A property of a suite is a conjunction of the components' named
properties; each part is stated, and commented, in its module.

`MCUnixHandles` is more than a suite. What it gives its components are constants,
valued for TLC in `UnixHandles.cfg`, so that its properties can be proved for every
value. It begins with the components that are proved about there, under prefixes
(`R!` reading, `U!` datagrams, `P!` processes; the names of `ForkPingPong` are used
as they are), and their proofs; then come the components that hold their own
(`W!`, `A!`, `EL!`, `SI!`, `O!`), the suite, its properties and their proofs.

### The three core modules

`Async`. The linked lists are sets, the eventfd is its counter, which saturates at
`EventfdMax`. Each atomic operation of `uv_async_send` is an action (`SendLoad`,
`SendEnter`, `SendExchange`, `SendWrite`, `SendLeave`); the loop thread drains the
fd and takes over the list (`IoBegin`), visits handles (`IoNext`), runs callbacks
that may send, open and close handles, and spins in `uv__async_spin` (`CloseBegin`
to `CloseEnd`, `StopNext` to `StopSpun`). A handle's memory is initialised again
only when no thread is inside `uv_async_send` with it: that is the user's duty and
a guard of `AsyncInit`. Memory is sequentially consistent; the relaxed first read
matters for the data a sender publishes, which is not part of the model.
The ghost variable `owed` remembers that a send was called and no callback has
begun since.

`ThreadPool`. The state after `init_threads`. A critical section in which the code
cannot block is one action; the worker's loop and `uv__work_cancel` hold the mutex
explicitly across several actions, because they decide or take a second lock inside.
`uv_cond_wait` may wake spuriously. `fate` is a ghost variable: what has really
become of a request, to compare with the status its callback is given. A second
`uv_cancel` of a cancelled request succeeds again in the code and moves the
request to the end of the loop's queue; `EveryWorkIsDone` therefore makes an
exception for a user who cancels the same request for ever.

`EventLoop`. One action per phase of `uv_run`, one per API call, one per kind of
callback. Lists are sets, so all orders within a pass are explored. `todo` is the
local list of the pass under way; `late` and `due` are the timers whose time has
come by the clock and by `loop->time`. What callbacks do is left open: any API
call, any number of times. Requests, the loop's own async and signal fds, and the
arithmetic of time (module `Timers`) are left out.

### Conventions of the other modules

Requests, datagrams, bytes and descriptors are numbered in the order in which they
come, so that order and loss can be stated. The kernel, the peer, other threads
and other processes are actions of their own. User code, in callbacks and outside,
may make any call that the API allows at that point; where an assertion of the
code stops the program for a legal sequence of calls, the model guards the call
and the list at the end of this file says so. Variables
marked "history" record what happened, so that a property can speak of it.

## Runs

| Run | Instance | Shows |
|---|---|---|
| `threadpool` | `MCThreadPool`: 2 workers, 2 loops, a fast and 2 slow works; 639 thousand states | a work is in one place; nothing cancelled is run; slow work is bounded and announced; the workers are not all asleep over runnable work; a callback is told the truth; `WorkRequest` is implemented |
| `event_loop` | `EventLoop`: a timer and two fds, all three modes; 307 thousand states | `active_handles` exact, closing list consistent; `uv_run` sleeps and returns only when it may; nothing stopped or closed is called; closes are reported, `uv_stop` is obeyed, timers are not starved |
| `unix_handles` | suite `MCUnixHandles`: streams, UDP, `EventLoop` with two idle handles and an fd, signals, processes and their descriptors, `fork.c` with the program's own numbers, the other own programs; 748 thousand states | requests are called back once and in order, descriptors are not lost, exits are told, idle callbacks keep the loop from sleeping, nothing is called after its stop, the own programs do what they are for |
| `services` | suite `MCServices`: timers and heap, epoll, kqueue, inotify, io_uring, files on both platforms, threads, text, `fs-poll`; 1.1 million states | timers are called in order and not early, the kernel watches what is wanted, the ring keeps requests, no stale event, requests give back their memory, conversions equal their definitions |
| `windows` | suite `MCWindows`: loop, TCP, pipes, polling, UDP, file watches, processes, console, files; 820 thousand states | `reqs_pending` and `activecnt` are exact, nothing is out twice, nothing is freed under the kernel, the console's parser and locks are consistent |
| `threads` | suite `MCThreads`: 2 async handles and 2 sending threads, eventfd up to 2; `StreamWrite` and `Signals` under fairness | `uv_async_t`: no write after the spin, no lost wakeup, one list per handle, `Wakeup` is implemented; every send is answered, the spin ends, writes are called back, signal handles close |
| `liveness` | suite `MCLive`: `StreamRead`, `Udp`, `Processes`, `ForkPingPong` (20 rounds), `ThreadPool` (2 workers, 1 loop, 2 slow works) | what was sent is read, sends are called back, exits are reported, both processes of `fork.c` end; every work is done and the shutdown of the pool ends |
| `event_loop_return` | `EventLoop`: a timer | finding 1 |
| `wake_demo` | `WakeDemo` | finding 2 |
| `epoll_fork` | `LinuxPoll`: two descriptors | finding 3 |
| `semaphore_post` | `ThreadSync`: three threads at one semaphore | finding 4 |
| `fs_poll_restart` | `FsPoll`: two starts | finding 5 |

`ForkPingPong` is checked with the program's own numbers (10000 rounds, pipes of
65536 bytes).

**Bounds.** They are chosen so that the case a property is about happens, which
the mutants confirm: each property is violated by a bug of its kind within the
same bounds. Two senders are enough for every overlap of a sender with another
one, with the loop and with a close; a second user handle is needed for a handle
that is on the other list while the first one is being closed. `EventfdMax` of 2
makes the counter saturate. Two workers give a threshold of one slow work, so that
a worker waits at the threshold; two slow works are needed for the second to be
announced again. Two handles of the same kind are what a pass needs for one
callback to remove the other: `event_loop` has two fds, and the loop in
`unix_handles` two idle handles. `PendingRounds` is 8 in the code, the batch of
events 1024, of signal messages 32, of datagrams 20, of reads in `uv__read` 32;
1 or 2 are enough for the bound to be reached. Buffers of one or two bytes make
every write partial. Numbers that wrap or are clamped have small limits
(`MaxTime`, `Word`, `Wrap`, `MaxArg`, `Half`); the arithmetic is modulo those.
`MaxUse` and the like bound the API calls of a behaviour. Symmetry is used in
`threadpool` only. Deadlock checking is off because the modelled systems may stop:
nobody has to call an API again, and programs end.

**Fairness.** A thread inside a libuv call is scheduled, and mutexes are obtained
at last; user callbacks and work functions return; the loop goes round while user
code runs it, so its poll and closing phases come again and again, whatever user
code does in between (strong fairness where the user may disable the step in
between). A connection is established or fails at last and a peer that is
connected reads; a forked child comes to its exec or fails before it. Nothing forces
a child to exit, an API call, an fd event, a signal, a spurious wakeup or the
shutdown.

## Findings

1. `event_loop_return`: `uv_run` returns a stale non-zero value when a timer called
   before the first iteration ends the last activity and calls `uv_stop`, although
   `LIB/docs/src/loop.rst:105-107` promises zero.
2. `wake_demo`: in demo 009 `uv_stop` is called by another thread than the loop's.
   If the loop has already answered the preceding `uv_async_send` and gone back to
   its poll, nothing wakes it, and the program hangs. Calling `uv_stop` before
   `uv_async_send`, or in the async callback, would be safe.
3. `epoll_fork`: `uv_loop_fork` forgets the registered events only of watchers that
   are not queued; one whose mask was changed just before is modified in an epoll
   that does not know it, and the child aborts.
4. `semaphore_post`: `uv__custom_sem_post` signals only on the step from 0 to 1, so
   two posts release one of two sleeping threads.
5. `fs_poll_restart`: a `uv_fs_poll_t` that is stopped during its stat and started
   again goes on with both contexts, and an assertion fails.

## Proofs

The theorems hold for every value of the constants that satisfies the named
assumptions: of `Async` (`InternalIsHandle`, `NoCallbackHandles`, `ThreadsFinite`,
`EventfdMaxPositive`, `NoneIsNoHandle`), of `ThreadPool` (`PoolIsFinite`,
`LoopOfType`, `SlowWorks`, `ThreadsDiffer`, `MessagesDiffer`), of `EventLoop`
(`HandlesFinite`, `TypesDisjoint`, `RoundsPositive`, `NoneIsNoHandle`), of
`Signals` (`Hypotheses`), of `SpawnStdio` (`StdioBounds`) and of `ForkPingPong`.
Where a component is only instantiated, what it needs of its bounds is a hypothesis
of its theorems (`BoundsAreNumbers`, `ReadBounds`, `UdpBounds`: the bounds are
natural numbers, and positive where the code's are; `DemoBounds`: the message
with its final 0 fits into the shared segment, and files consist of statements). `ConstantsFit` of
`MCUnixHandles` puts together what its components need, and TLC evaluates it for
the values of the run. `Processes` needs nothing of its set of children, not even
that it is finite.

The proofs are of one form: an inductive invariant `Inv`, found by asking what each
property needs to survive a step and first checked by TLC; `InvInit`; `InvNext`,
with one step per action; and the theorems, which are consequences of `Inv` or, for
action properties, of `Inv` and the step. In `MCUnixHandles` the names have the
component before them (`ReadInv`, `UdpInv`, `ProcessInv`, `ForkInv`, `DemosInv`).

**AsyncProofs.** `Inv` conjoins `TypeOK`, `BusyCountsSenders`, `ListedOnce`,
`NoWriteAfterSpin` and `NoLostWakeup` with what relates the places of the threads
to the state:

- `TargetInv`: a thread has a target exactly while it is inside `uv_async_send`,
  and the target has been initialised;
- `LoopInv`: what the place of the loop thread says about the local list, the
  running callback, the handle it spins on and the fd;
- `CloseInv`: a handle keeps `pending = 1` from `uv_close` on, which is what turns
  late senders away from writing;
- `StopInv`: the same for the handles `uv__async_stop` has visited.

The heart of the argument is `NoWriteAfterSpin`: the spin ends when `busy` is 0;
by `BusyCountsSenders` nobody is inside then (lemma `NobodyInside`, which needs the
cardinality theorems); whoever comes later finds `pending` set and does not write.
`RefinesWakeup` follows from `StepsRefine`: under `Inv` every step of `Async` is a
step of `Wakeup` or leaves its variables unchanged.

**ThreadPoolProofs.** All safety properties of the run and the refinement of
`WorkRequest`. `Inv` conjoins `TypeOK` with

- `PlaceInv`, `OnceInv`, `HomeInv`: a request is in one place, once, and in the
  queues of its own loop. While a request moves, the place depends on which thread
  holds it: a worker between taking it and reporting it, a `uv_cancel` between
  unlinking it and putting it on the loop's queue;
- `StateInv`: the fields `work` and `linked`, by which `uv__work_cancel` decides,
  say what has become of the request. `NeverRunsCancelled` needs the place that a
  cancellation under way has reached, because both locks are free in its middle;
- `WorkerInv`, `LoopInv`: what the place of a thread says of the mutexes it holds
  and of the request in its hands;
- `SlowInv`: `slow_io_work_running` is the number of workers with a slow request,
  and the message is in `wq` or in the hands of a worker while slow work waits;
- `IdleInv`: `idle_threads` counts the workers inside `uv_cond_wait`, those that
  were signalled and have not run yet included. This is why `post` may skip a
  signal and `NotAllAsleep` still holds.

The lemmas `AppendFacts`, `TailFacts`, `RemoveAtFacts` and `WithoutFacts` say which
elements the queue operations leave and that they leave them once.
`RequestStep` maps each action to a step of `WorkRequest` or a stutter.

**EventLoopProofs.** `Inv` conjoins `FieldTypes`, `ClosingListed` and
`ActiveHandlesExact` with

- `OpenInv`: only open handles are active or deferred, only handles in use are
  referenced;
- `TodoInv`: what the local list of the pass under way may hold in each phase of
  `uv_run`: active watchers, open fds, or open timers that are not armed. Without
  it a repeating timer could be counted twice when it is armed again, and a close
  callback could come to an active handle;
- `LocalsInv`: the locals of `uv_run`, which are computed before callbacks run and
  used after them: `r` is not out of date at the head of the loop, and `can_sleep`
  means that the passes before had nothing to call.

`ListNext` shows that the lists stay consistent. `CountNext` adds the counter:
`CountAdded` and `CountRemoved` say what adding to and removing from `active` does
to the cardinality, and every action is one of the two, a change of `ref`, or
leaves the handles alone. `SleepsOnlyWhenIdle` and `ReturnsWhenDone` use
`AliveMeansLeft`: the loop's test for being alive is the existence of a handle, a
close or a deferred callback, which is the exact counter read as a set.

**StreamRead** (in `MCUnixHandles`). `ReadInv` is `TypeOK` with `ReadingIsWatched`
and `ReadEventInv`, which says what the flags know of the socket in the
middle of an event: `POLLHUP` means that the peer has closed, so a partial read
means that nothing is left, for any number of bytes and any buffer size. The end
of file then comes last although `uv__stream_io` reports it without a read.
`EofIsLast` is a consequence, and
`NoReadAfterStop` follows as an action property.

**StreamWrite** (in the module). `Inv` conjoins

- `PlaceInv` and `RequestsInOrder`: the queues and the list of requests called
  back, in a row, are the numbers of the accepted requests in order;
- `ShutInv`, `ShutdownIsLast`, `CloseInv`, `KernelInv`: where connect, shutdown and
  close stand;
- `SizeInv`: there is a function of partial sums of `left`, zero up to the last
  request called back, whose last value is `write_queue_size`. This is why the
  `size_t` never wraps, and why `uv_try_write`, which writes at once when the
  counter is zero, cannot overtake a request (`BytesInOrder`, with `SentInv` about
  the bytes sent so far).

`QueueSizeIsExact` goes on from there to the recursive function `Bytes` by which
the property states the sum: `BytesIsSum` says that it has the values of a partial
sum, by the least number at which the two would differ (`LeastNat`).

`MoveHead` is the lemma about queues: to move the head of one to the end of the
one before it changes nothing in the order of both.

**StreamAccept** (in the module). `Inv` conjoins `TypeOK`, `OneAtATime`,
`StillListening` and `SpareComesBack` with

- `ControlInv`: while the spare descriptor of the EMFILE trick is away nothing waits
  to be accepted, and there is room for it unless another thread took it;
- `OrderInv`: `accepted_fd`, the queue of an ipc pipe and what the kernel holds, in a
  row, are in the order of arrival;
- `PlaceInv`: a descriptor waits, or is with the user or closed, never both, and
  unless memory ran out (`oom`) every one that arrived is somewhere.

`FdsAreKept` counts, so the proof goes through the cardinalities of disjoint sets.
`MessageTaken` and `MessageFacts` say what the descriptors of one message become;
`AtMost` is the arithmetic of the limit of descriptors.

**Processes** (in `MCUnixHandles`). `ProcessInv` conjoins the types with

- `ProcessQueueInv`: `process_handles` are the children that may still exit, the local list
  `pending` those that were collected and not told; each is there once, and the two
  are disjoint, also while exit callbacks spawn and close;
- `ProcessPlaceInv`: while `uv_spawn` waits for the result of exec, the watcher is started,
  and the exit of the new child, which is in no queue yet, is signaled;
- `ProcessSignalInv`: a child in the queue is watched, and if it has exited this is
  signaled or the scan under way is still to visit it. Without the second half
  `NoExitIsMissed` would not survive `uv__wait_children`, which takes the signal
  before it looks at the children.

**ForkPingPong** (in `MCUnixHandles`). `OneByteGoesRound` is strengthened by the
fact that a waiting parent has a round left.

**Demos** (in `MCUnixHandles`). `DemosInv` says of the program that runs

- `ClientInv`: the client's counters, with one write or one timer once it is
  connected (`OneSendAtATime`, `RequestsAreFreed`);
- `ServerInv`: what was sent is on its way to the server, in its echoes, on its way
  back, or received. The sum of the echoes is given by a function of running sums
  (`SumsTo`), since a partial write takes from the first of them and a read adds one
  at the end (`SumTaken`, `SumAppended`); `SumIsTotal` shows by the least
  counterexample that `Sum` is what the running sums come to;
- `SegmentInv`: each place of the segment holds 0 or the message's character, in
  whatever order `strcpy` stores. The last place of the message stays 0, so `printf`
  stops inside the segment;
- `RunnerInv`: what the SQL runner holds at each place (`HeldInv`), and that what
  was executed is the beginning of what was read (`StatementInv`). That `success`
  means the whole file needs both: the size taken by `ftell` is kept until the
  exit, although others write to the file meanwhile. `SizeInv` says what the test
  of the size lets through: what is loaded fits into the buffer unless `ftell`
  failed, and after that failure nothing is executed and the status is not 0.

**Udp** (in `MCUnixHandles`). `UdpInv` conjoins

- `UdpOrderInv`: requests called back, completed and waiting, in a row, are
  numbered from 1, so one that is sent at once by `uv__udp_sendmsg1` cannot pass
  those that wait, whatever the size of a batch;
- `UdpSendInv`: what waits is watched for (`pollout`), fed, or about to be called
  back in the event under way, and a closing handle is not watched any more;
- `UdpRecvInv`: `recv_cb` is set exactly while `POLLIN` is watched, and a buffer is
  lent only between a batch and its last callback.

`SplitSeq` says what the first elements of a queue, a batch, and its rest are.

**Signals** (in the module). `Inv` conjoins the types, `CountsExact`,
`DispositionFits` and `NoMessageForClosed` with

- `LoopInv`: a loop thread that is inside `uv__signal_start` or `uv__signal_stop`
  holds the lock, its handle is open, and between two dispatches its batch is empty;
- `HandlerInv`: the handler holds the lock while it writes, writes only for handles
  that watch its signal, and while it waits for the lock the thread it interrupted
  does not hold it: that thread has blocked all signals before it took it;
- `UseInv`: a watcher is regular or one-shot as its handle is used.

`CountsExact` is inductive with these, and a closed handle is unnamed because the
two counters are equal when it is given back. The messages are counted by the
cardinality of sets of positions; `CountType` and the lemmas after it say how the
count changes when a message is appended or the first ones are taken. `Hypotheses`
holds one restriction of use: a handle is started with `uv_signal_start` or with
`uv_signal_start_oneshot`, not now with the one and now with the other, because the
code never clears `UV_SIGNAL_ONE_SHOT`.

**SpawnStdio** (in the module). `StdioInv` conjoins the two properties with

- `BeforeFork` and `Opening`: which descriptors the parent has, container by
  container; the pairs are new and all different (`Pairs`);
- `Duplicating`: while the child duplicates low descriptors, the file given to each
  container is found where the second entry of its pair says, and no container that
  was looked at is given from a number below its own;
- `Moving`: containers before `i` have their file at their number, and those from
  `i` on are given from a number not below their own, so `dup2` to `i` overwrites
  nothing that is still needed. This is why the pass over the low descriptors comes
  first;
- `ChildOnly`: nothing survives exec but the containers; the pipe for errors is
  intact unless its number is one of theirs.

`LowestFd` (the kernel gives the lowest free number) and `TopFits` use `LeastNat`.
`StdioBounds` says that the caller's descriptors 0 to 2 are open, as the assertion
of `uv__close` takes for granted, and that `MaxFd` is large enough for every
descriptor that is made: that descriptors run out is one of the errors with which
`InitStdio` may end anyway.

**The suite** (`MCUnixHandles`). While a part runs, the steps of the suite are steps
of its component, and the other parts stand still (`WriteRuns`, `ReadSteps` and the
like). So what is proved of the components holds of the suite:
`SocketsStaySound`, `SignalsStaySound`, `ChildrenStaySound`, `ProgramsStaySound`,
`ProcessesAlternate` and `SilenceAfterStop` state all properties of the run `unix_handles`, for every
value of its constants. For the loop this includes what the run with `Idle` handles
adds to `event_loop`: `SleepsOnlyWhenIdle` and `OnlyOpenHandlesAreCalled` with
callbacks that come before `uv__io_poll`.

What stays model-checked only, and why:

- liveness and what rests on ENABLED: `SendIsDelivered`, `SpinEnds`,
  `EveryWorkIsDone`, `CleanupEnds`, `RunMakesProgress` (closes are reported,
  `uv_stop` ends the run, timers fire), `WritesAreCalledBack`, `CloseCompletes`,
  `EverythingIsRead`, `EofIsReported`, `SendsAreCalledBack`, `ExitIsReported`,
  `BothEnd`;
- what RECURSIVE operators compute, and with it everything in the modules that
  declare one: `Inotify`, `NetText`, `TimerHeap`, `Timers`, `UnixFs`,
  `WinCommandLine`, `WinFs` and `WinTtyWrite`. The provers cannot instantiate the
  induction theorems of the library, which take an operator. Induction over
  numbers for one particular statement can be done by its least counterexample,
  which `LeastNat` proves to exist by the well-foundedness of the finite sets of
  numbers; `BytesIsSum` and `SumIsTotal` are such proofs about recursive functions;
- `LinuxPoll`, `IoUring`, `Kqueue`, `FsPoll`, `ThreadSync`, `WakeDemo` and
  the modules about Windows, whose proofs have not been tried: the plan at the end of
  this file names the next ones.

## What the models show beside the properties

Reading and modelling the code brought up the following. Where a name is given
in parentheses it is the variable or operator of the model that stands for the
case; properties make their exception for it there, or a guard keeps the program
from the call that an assertion would stop.

Unix
- `stream.c`: a `shutdown` that waits for a connection is never answered when the
  connect fails, and the status given to `connect_cb` may be that of a write.
  `uv__stream_recv_cmsg` closes one descriptor for each of the rest when it is out
  of memory (`oom`). A `uv_accept` that fails after the callback leaves the server
  deaf (`failedLate`). `uv_accept` on an ipc pipe starts `POLLIN` although nobody
  reads.
- `udp.c`: the buffer of `recvmmsg` is not handed back when a chunk's callback
  stops the handle; a send that fails after the close is reported with its error,
  not `UV_ECANCELED`; an error of `sendmmsg` marks the whole batch.
- `signal.c`: `UV_SIGNAL_ONE_SHOT` is never cleared; a one-shot handle started
  before the dispatch of its signal registers nothing.
- `process.c`: if `uv__stream_open` fails the descriptors of earlier streams are
  closed twice; an `error_fd` below `stdio_count` may be overwritten; on macOS the
  search for unused descriptors starts again at `fd2 = 1` (`Overlooked`), and the
  number of a duplicate replaces the parent's own entry of a pipe, which
  `uv__process_open_stream` then closes: a descriptor that is not its own, or one
  below 3, for which `uv__close` asserts (`Misplaced`, `"aborted"`). `uv__wait_children` follows the links of handles that
  exit callbacks have closed, so it calls the callback of a closed handle that it
  had noted as the next, and of one that follows it (`StillVisited`).
- `linux.c`: a command of the control ring is executed after its descriptor was
  closed, so a file that is open elsewhere stays in epoll (`Leftover`);
  `uv__io_fork` loses entries of the ring (a TODO of the code); the retry of
  `statx` after `EOPNOTSUPP` leaks the buffer. Inotify: out of memory leaves a watch
  (`nomem`), the fork ends at the first path that is gone, `IN_Q_OVERFLOW` is
  ignored, hard links share a watch.
- `fs.c`: a cancelled `closedir` keeps the directory open (`dropped`); `mkstemp`
  after `EINTR` has lost its template; `copyfile` does not end when the source
  shrinks, and onto itself may unlink the source; the emulation of `sendfile` loses
  partial progress.
- `fs-poll.c`: a start that fails leaves the timer in the loop (`dangling`).
- `kqueue.c`: a filter that fires between a stop and a start is lost (`undone`);
  queued watchers are not registered again after a fork; a file watch that is
  started again in its own callback asserts when the batch is full (`early`).
- `thread.c`: the custom `uv_sem_trywait` reports `EAGAIN` while the mutex is busy;
  `uv_thread_setaffinity` shifts an `int` (CPU 31); stack sizes wrap.
- `idna.c`, `inet.c`: the boundary of `wtf8_to_utf16` is `> 0x10000`; truncated
  and some overlong sequences are accepted by `uv__utf8_decode1_slow`. (Its error
  `UV_E2BIG` is left out of the model: `delta` overflows its 32 bits only in labels
  of some thousand characters.)

Windows
- `tcp.c`, `pipe.c`: `uv_accept` on a server that does not listen any more asserts
  or returns 0 with an invalid handle; a second `uv_listen` counts the handle again
  (`listens`); failed coalesced writes leak; the eof timer never closes a pipe that
  is not overlapped, and a restart after it asserts (`ended`).
- `poll.c`: slow mode asserts when the wanted events grow twice while both requests
  are out; an error leaves the handle active without events.
- `udp.c`: a receive that fails at once is queued without `READ_PENDING`
  (`refused`).
- `fs-event.c`: a start while the old request is out asserts; a failed start frees
  the buffer.
- `process.c`: a failure of `ResumeThread` leaks the process (`lost`); `uv_kill`
  with 0 resets the exit signal (`checked`); parent's pipe ends stay connected after
  a failed spawn; `search_path` does not know a lone quote.
- `tty.c`: `UV_HANDLE_READING` is cleared without `DECREASE_ACTIVE_COUNT`
  (`leaked`); `ENOBUFS` leaves a reading handle without request (`starved`); a
  cancellation may stay pending (`stale`); if `WriteConsoleInput` fails the lock is
  kept (`failed`); an argument between 65536 and 65539 overflows (`over`).
- `fs.c`: `opendir` succeeds when `FindFirstFileW` finds nothing, and the first
  `readdir` then makes an entry of `find_data` that nobody filled: it returns a
  made-up name or an error, never 0 (`first`, `MadeUp`). Operations on mapped files are not atomic and their error paths leave the
  descriptor open (`broken`); positional operations move the pointer; an error of
  `readdir` loses entries; `sendfile` with -1 asserts, and a partial write loses
  data; file times wrap at 32 bits.

Own programs
- The echo client leaks its last request when the server has gone; the server
  never frees its clients and closes before its echoes are written.
- The SQL runner takes the -1 of a failed `ftell` for a size: the buffer has
  `malloc(0)` bytes and `fread` is asked for `SIZE_MAX`, so it overruns the buffer
  if the file has anything in it (`loaded`, `Room`; `SizeProtects` makes its one
  exception there). It ends with status 0 after a failed statement, stops at a NUL,
  and does not close the database when opening fails. The shared segment is never
  removed.
- Demo 010 sends the signal before it installs the handler; demo 012 uses a
  `uv_write_t` again while it is queued.

## Not modelled

- The ports to AIX, illumos and z/OS, FSEvents of macOS, the signals and the
  system information of Windows; `uv__async_fork`, `uv_loop_close`, `uv_walk`,
  active requests in `EventLoop`; the parsing of `UV_THREADPOOL_SIZE`; metrics.
- Socket options, `bind`, UDP `connect` and `try_send`, terminal modes, random
  numbers, name lookup, CPU and memory information, `uv_dlopen`: thin wrappers of
  the platform.
- Weak memory. Models are sequentially consistent. `IoUring` has the store of the
  ring's tail, the load of its flags and the wakeup as three steps, with the
  kernel's thread between them; that the processor might move the load before the
  store is not looked at, nor what the relaxed read of `uv_async_send` would see.
- The other demos of `learning-code` (what their callbacks may do is part of
  `EventLoop`), `tcp_echo`, `multicast`, the raw-socket programs and single-call
  examples, which keep little or no state.

`PROJECT.json` gives the state of each component and the reason.

## Plan

What is left, in the order of its worth:

1. Proofs. For `LinuxPoll` that no stale event is reported, for `IoUring` that
   requests are kept, for `FsPoll` that a stopped context is not called; for
   `WinLoop` that `reqs_pending` is exact. `Timers` and `TimerHeap` with recursive
   functions in the place of their RECURSIVE operators. That the three modules of
   streams implement an abstract stream, as `ThreadPool` implements `WorkRequest`.
2. The model. `uv__async_fork` in `Async`; `uv_loop_close`, `uv_walk` and active
   requests in `EventLoop`; UDP `connect` and `try_send`.
3. The remaining demos of `learning-code` that keep state, `tcp_echo`, `multicast`.
