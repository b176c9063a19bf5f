----------------------------- MODULE ThreadSync -----------------------------
(***************************************************************************)
(* What libuv builds itself on top of the system's threads:                *)
(* src/thread-common.c (a barrier of a mutex and a condition variable),    *)
(* src/unix/thread.c (the semaphore for a glibc before 2.21, the size of   *)
(* stacks, the affinity masks) and src/win/thread.c (uv_once out of an     *)
(* event, threads that know their own handle).                             *)
(*                                                                         *)
(* One behaviour is about one primitive, which mode names.  A section      *)
(* between uv_mutex_lock and the next uv_cond_wait or uv_mutex_unlock is   *)
(* one step, except in the semaphore, whose uv_sem_trywait looks at a      *)
(* mutex that others hold.  A thread in uv_cond_wait may wake for no       *)
(* reason.                                                                 *)
(***************************************************************************)
EXTENDS Integers, Sequences, FiniteSets

CONSTANTS
  Thread,      \* the threads of the program
  Modes,       \* the primitives of this instance
  Threshold,   \* the count of the barrier
  MaxUse,      \* bound: calls of each thread
  Word         \* the number of values of size_t

VARIABLES
  mode,    \* "barrier", "sem", "once", "thread", "create",
           \* "stack" or "mask"
  o,       \* the object under test
  mutex,   \* the holder of its mutex
  pc,      \* where each thread is
  uses,    \* calls left to each thread
  h        \* ghost: what has happened

vars == <<mode, o, mutex, pc, uses, h>>

Free == "free"
-----------------------------------------------------------------------------
(* Creating the objects: each step may fail, and undoes the earlier ones.  *)

\* What uv_barrier_init, uv__custom_sem_init and uv_cond_init acquire.
Steps(kind) ==
  CASE kind = "barrier" -> <<"memory", "mutex", "cond">>
    [] kind = "sem" -> <<"memory", "mutex", "cond">>
    [] kind = "cond" -> <<"attr", "clock", "cond", "attrgone">>

Acquired(kind, n) == {Steps(kind)[i] : i \in 1..n}

\* What is undone when step k fails (labels error, error2).
UndoneNoMutex(kind, k) ==
  CASE kind \in {"barrier", "sem"} -> IF k >= 2 THEN {"memory"} ELSE {}
    [] OTHER -> {"attr", "clock"} \cup (IF k = 4 THEN {"cond"} ELSE {})
Undone(kind, k) ==
  CASE kind \in {"barrier", "sem"} ->
         (IF k >= 2 THEN {"memory"} ELSE {}) \cup (IF k = 3 THEN {"mutex"} ELSE {})
    [] OTHER ->
         IF k = 1 THEN {}
         ELSE {"attr", "clock"} \cup (IF k = 4 THEN {"cond"} ELSE {})

\* What is held once the call is over; k = 0 when nothing failed.
Created(kind, k) ==
  IF k = 0
    THEN Acquired(kind, Len(Steps(kind))) \ {"attr", "clock", "attrgone"}
    ELSE Acquired(kind, k - 1) \ Undone(kind, k)

CreateObject ==
  /\ mode = "create" /\ h.result = 0
  /\ h' = [h EXCEPT !.result = 1, !.held = Created(o.kind, o.fails)]
  /\ UNCHANGED <<mode, o, mutex, pc, uses>>

-----------------------------------------------------------------------------
(* Condition variables.  A pc that starts with "z" is asleep.              *)

Asleep == {"zgate", "zin", "zdestroy", "zwait"}
Awake(p) ==
  CASE p = "zgate" -> "gate"
    [] p = "zin" -> "in"
    [] p = "zdestroy" -> "destroy"
    [] p = "zwait" -> "wait"
    [] OTHER -> p

Broadcast(q) == [t \in Thread |-> Awake(q[t])]
\* Some sleeper wakes, if there is one.
Signal(q) ==
  LET z == {t \in Thread : q[t] \in Asleep}
  IN IF z = {} THEN {q} ELSE {[q EXCEPT ![t] = Awake(@)] : t \in z}

Spurious(t) ==
  /\ pc[t] \in Asleep
  /\ h.spurious < 1
  /\ pc' = [pc EXCEPT ![t] = Awake(@)]
  /\ h' = [h EXCEPT !.spurious = @ + 1]
  /\ UNCHANGED <<mode, o, mutex, uses>>

-----------------------------------------------------------------------------
(* uv_barrier_wait.                                                        *)

\* A thread leaves; the last one of the round opens the gate again.
LeaveResult(b, q, t) ==
  [b |-> [b EXCEPT !.out = @ - 1],
   q |-> LET r == [q EXCEPT ![t] = "idle"]
         IN IF b.out = 1 THEN Broadcast(r) ELSE r]

Leave(t, b, q, g) ==
  LET r == LeaveResult(b, q, t)
  IN /\ o' = r.b
     /\ pc' = r.q
     /\ h' = [g EXCEPT !.left = @ + 1, !.ticket[t] = 0, !.seen = g.ticket[t],
                       !.lasts = IF r.b.out = 0 THEN @ + 1 ELSE @]

\* The threads of a round that still goes out hold up the next round.
GateShutNever(b) == FALSE
GateShut(b) == b.out # 0

Arrive(t) ==
  /\ pc[t] = "gate" /\ ~h.freed
  /\ IF GateShut(o)
       THEN pc' = [pc EXCEPT ![t] = "zgate"] /\ UNCHANGED <<o, h>>
       ELSE LET g == [h EXCEPT !.arrived = @ + 1, !.ticket[t] = h.arrived + 1]
            IN IF o.in + 1 = Threshold
                 THEN Leave(t, [o EXCEPT !.in = 0, !.out = Threshold], Broadcast(pc), g)
                 ELSE /\ o' = [o EXCEPT !.in = @ + 1]
                      /\ pc' = [pc EXCEPT ![t] = "zin"]
                      /\ h' = g
  /\ UNCHANGED <<mode, mutex, uses>>

InWakes(t) ==
  /\ pc[t] = "in" /\ ~h.freed
  /\ IF o.in # 0
       THEN pc' = [pc EXCEPT ![t] = "zin"] /\ UNCHANGED <<o, h>>
       ELSE Leave(t, o, pc, h)
  /\ UNCHANGED <<mode, mutex, uses>>

BarrierWait(t) ==
  /\ mode = "barrier" /\ pc[t] = "idle" /\ uses[t] > 0 /\ ~h.closing
  /\ pc' = [pc EXCEPT ![t] = "gate"]
  /\ uses' = [uses EXCEPT ![t] = @ - 1]
  /\ UNCHANGED <<mode, o, mutex, h>>

\* uv_barrier_destroy, by a thread that has been through the barrier, when
\* nobody waits for a round that is not complete and none will come.
BarrierDestroy(t) ==
  /\ mode = "barrier" /\ pc[t] = "idle" /\ ~h.closing
  /\ h.arrived > 0 /\ h.arrived % Threshold = 0
  /\ \A u \in Thread : pc[u] \notin {"gate", "zgate"}
  /\ pc' = [pc EXCEPT ![t] = "destroy"]
  /\ h' = [h EXCEPT !.closing = TRUE]
  /\ UNCHANGED <<mode, o, mutex, uses>>

MayFreeAtOnce(b) == TRUE
MayFree(b) == b.out = 0

DestroyTurn(t) ==
  /\ pc[t] = "destroy"
  /\ IF MayFree(o)
       THEN pc' = [pc EXCEPT ![t] = "idle"] /\ h' = [h EXCEPT !.freed = TRUE]
       ELSE pc' = [pc EXCEPT ![t] = "zdestroy"] /\ UNCHANGED h
  /\ UNCHANGED <<mode, o, mutex, uses>>

BarrierStep(t) ==
  BarrierWait(t) \/ Arrive(t) \/ InWakes(t) \/ BarrierDestroy(t) \/ DestroyTurn(t)

-----------------------------------------------------------------------------
(* uv_sem_t.  glibc_version_check: a glibc before 2.21 gets the custom     *)
(* semaphore, any other the system's own.                                  *)

NeedsCustom(version) == version[1] = 2 /\ version[2] < 21

SemCall(t) ==
  /\ mode = "sem" /\ pc[t] = "idle" /\ uses[t] > 0
  /\ \E c \in {"post", "wait", "try"} : pc' = [pc EXCEPT ![t] = c]
  /\ uses' = [uses EXCEPT ![t] = @ - 1]
  /\ UNCHANGED <<mode, o, mutex, h>>

\* uv_mutex_lock in uv__custom_sem_post and _wait, also when a wait ends.
SemLock(t) ==
  /\ mode = "sem" /\ NeedsCustom(o.version)
  /\ pc[t] \in {"post", "wait"} /\ mutex = Free
  /\ mutex' = t
  /\ pc' = [pc EXCEPT ![t] = IF @ = "post" THEN "posting" ELSE "waiting"]
  /\ UNCHANGED <<mode, o, uses, h>>

SignalsNever(value) == FALSE
Signals(value) == value = 1

CustomPost(t) ==
  /\ pc[t] = "posting"
  /\ o' = [o EXCEPT !.value = @ + 1]
  /\ LET q == [pc EXCEPT ![t] = "idle"]
     IN pc' \in (IF Signals(o.value + 1) THEN Signal(q) ELSE {q})
  /\ h' = [h EXCEPT !.posts = @ + 1]
  /\ mutex' = Free
  /\ UNCHANGED <<mode, uses>>

\* A wait looks again whenever it wakes.
WaitsForOnce(value, woken) == value = 0 /\ ~woken
WaitsFor(value, woken) == value = 0

CustomWait(t) ==
  /\ pc[t] = "waiting"
  /\ IF WaitsFor(o.value, t \in h.slept)
       THEN /\ pc' = [pc EXCEPT ![t] = "zwait"]
            /\ h' = [h EXCEPT !.slept = @ \cup {t},
                              !.two = @ \/ \E u \in Thread \ {t} : pc[u] \in {"zwait", "wait"} /\ u \in h.slept]
            /\ UNCHANGED o
       ELSE /\ pc' = [pc EXCEPT ![t] = "idle"]
            /\ o' = [o EXCEPT !.value = @ - 1]
            /\ h' = [h EXCEPT !.slept = @ \ {t}, !.takes = @ + 1]
  /\ mutex' = Free
  /\ UNCHANGED <<mode, uses>>

\* uv__custom_sem_trywait gives up when the mutex is merely busy.
CustomTry(t) ==
  /\ pc[t] = "try" /\ NeedsCustom(o.version)
  /\ pc' = [pc EXCEPT ![t] = "idle"]
  /\ IF mutex # Free \/ o.value = 0
       THEN UNCHANGED <<o, h>>
       ELSE /\ o' = [o EXCEPT !.value = @ - 1]
            /\ h' = [h EXCEPT !.takes = @ + 1]
  /\ UNCHANGED <<mode, mutex, uses>>

\* The semaphore of the system; a wait that a signal interrupts is repeated.
SystemSem(t) ==
  /\ mode = "sem" /\ ~NeedsCustom(o.version)
  /\ \/ /\ pc[t] = "post"
        /\ o' = [o EXCEPT !.value = @ + 1]
        /\ h' = [h EXCEPT !.posts = @ + 1]
     \/ /\ pc[t] \in {"wait", "try"} /\ o.value > 0
        /\ o' = [o EXCEPT !.value = @ - 1]
        /\ h' = [h EXCEPT !.takes = @ + 1]
     \/ pc[t] = "try" /\ o.value = 0 /\ UNCHANGED <<o, h>>
  /\ pc' = [pc EXCEPT ![t] = "idle"]
  /\ UNCHANGED <<mode, mutex, uses>>

SemStep(t) ==
  SemCall(t) \/ SemLock(t) \/ CustomPost(t) \/ CustomWait(t) \/ CustomTry(t) \/ SystemSem(t)

-----------------------------------------------------------------------------
(* uv_once of Windows: o.ran, o.event and whether it is signalled.         *)

OnceCall(t) ==
  /\ mode = "once" /\ pc[t] = "idle" /\ uses[t] > 0
  /\ uses' = [uses EXCEPT ![t] = @ - 1]
  /\ IF o.ran
       THEN /\ h' = [h EXCEPT !.early = @ \/ ~h.finished]
            /\ UNCHANGED <<pc, o>>
       ELSE /\ o' = [o EXCEPT !.events = @ + 1]      \* CreateEvent
            /\ pc' = [pc EXCEPT ![t] = "race"]
            /\ UNCHANGED h
  /\ UNCHANGED <<mode, mutex>>

\* InterlockedCompareExchangePointer.
Race(t) ==
  /\ pc[t] = "race"
  /\ IF o.event = Free
       THEN /\ o' = [o EXCEPT !.event = t]
            /\ pc' = [pc EXCEPT ![t] = "callback"]
       ELSE /\ o' = [o EXCEPT !.events = @ - 1]      \* CloseHandle
            /\ pc' = [pc EXCEPT ![t] = "lost"]
  /\ UNCHANGED <<mode, mutex, uses, h>>

OnceCallback(t) ==
  /\ pc[t] = "callback"
  /\ pc' = [pc EXCEPT ![t] = "set"]
  /\ h' = [h EXCEPT !.finished = TRUE, !.calls = @ + 1]
  /\ UNCHANGED <<mode, o, mutex, uses>>

OnceSetEvent(t) ==
  /\ pc[t] = "set"
  /\ pc' = [pc EXCEPT ![t] = "ran"]
  /\ o' = [o EXCEPT !.signalled = TRUE]
  /\ UNCHANGED <<mode, mutex, uses, h>>

OnceRan(t) ==
  /\ pc[t] = "ran"
  /\ pc' = [pc EXCEPT ![t] = "idle"]
  /\ o' = [o EXCEPT !.ran = TRUE]
  /\ UNCHANGED <<mode, mutex, uses, h>>

OnceMayPassAtOnce(b) == TRUE
OnceMayPass(b) == b.signalled

OnceWait(t) ==
  /\ pc[t] = "lost" /\ OnceMayPass(o)
  /\ pc' = [pc EXCEPT ![t] = "idle"]
  /\ h' = [h EXCEPT !.early = @ \/ ~h.finished]
  /\ UNCHANGED <<mode, o, mutex, uses>>

OnceStep(t) ==
  OnceCall(t) \/ Race(t) \/ OnceCallback(t) \/ OnceSetEvent(t) \/ OnceRan(t) \/ OnceWait(t)

-----------------------------------------------------------------------------
(* uv_thread_create_ex, uv__thread_start, uv_thread_self and uv_thread_join *)
(* of Windows.  Every thread of Thread is a child of the main thread, which *)
(* creates and joins them.  A handle is the pair of its thread and a number.*)

NoHandle == <<"none", 0>>
Creation(t) == <<t, 1>>

Create(t) ==
  /\ mode = "thread" /\ pc[t] = "idle" /\ uses[t] > 0
  /\ uses' = [uses EXCEPT ![t] = @ - 1]
  /\ \/ UNCHANGED <<pc, o>>                 \* no memory, or no thread: ctx is freed
     \/ /\ pc' = [pc EXCEPT ![t] = "suspended"]
        /\ o' = [o EXCEPT !.ctx[t] = "half", !.handles = @ \cup {Creation(t)}]
  /\ UNCHANGED <<mode, mutex, h>>

\* *tid = thread, ctx->self = thread, ResumeThread.
Resume(t) ==
  /\ mode = "thread" /\ o.tid[t] = NoHandle /\ Creation(t) \in o.handles
  /\ o' = [o EXCEPT !.ctx[t] = IF @ = "half" THEN "full" ELSE @,
                    !.tid[t] = Creation(t)]
  /\ pc' = [pc EXCEPT ![t] = IF @ = "suspended" THEN "resumed" ELSE @]
  /\ UNCHANGED <<mode, mutex, uses, h>>

MayStartAtOnce(p) == p \in {"suspended", "resumed"}
MayStart(p) == p = "resumed"

\* uv__thread_start: copy and free ctx, uv_once for the key, uv_key_set.
Start(t) ==
  /\ MayStart(pc[t])
  /\ o' = [o EXCEPT !.ctx[t] = "none",
                    !.key = TRUE,
                    !.tls[t] = IF o.ctx[t] = "full" THEN Creation(t) ELSE NoHandle]
  /\ pc' = [pc EXCEPT ![t] = "entry"]
  /\ UNCHANGED <<mode, mutex, uses, h>>

\* uv_thread_self, in the entry function.
Self(t) ==
  /\ pc[t] = "entry"
  /\ LET own == IF o.tls[t] = NoHandle THEN <<t, 2>> ELSE o.tls[t]
     IN /\ o' = [o EXCEPT !.tls[t] = own, !.handles = @ \cup {own}]
        /\ h' = [h EXCEPT !.self[t] = own]
  /\ pc' = [pc EXCEPT ![t] = "returned"]
  /\ UNCHANGED <<mode, mutex, uses>>

EntryReturns(t) ==
  /\ pc[t] \in {"entry", "returned"}
  /\ pc' = [pc EXCEPT ![t] = "ended"]
  /\ UNCHANGED <<mode, o, mutex, uses, h>>

Join(t) ==
  /\ pc[t] = "ended" /\ o.tid[t] # NoHandle
  /\ pc' = [pc EXCEPT ![t] = "idle"]
  /\ o' = [o EXCEPT !.handles = @ \ {o.tid[t]}, !.tid[t] = NoHandle, !.tls[t] = NoHandle]
  /\ h' = [h EXCEPT !.self[t] = NoHandle]
  /\ UNCHANGED <<mode, mutex, uses>>

ThreadStep(t) ==
  Create(t) \/ Resume(t) \/ Start(t) \/ Self(t) \/ EntryReturns(t) \/ Join(t)

-----------------------------------------------------------------------------
(* The size of a stack: the request, RLIMIT_STACK, the size of a page and   *)
(* PTHREAD_STACK_MIN, in units of a kilobyte; size_t has Word values.       *)

uv__min_stack_size(c) == IF 8 < c.stackmin THEN c.stackmin ELSE 8
uv__default_stack_size == 64

\* RLIMIT_STACK, unless it cannot be read (-1), has no limit (-2) or is small.
RlimitRaw(c) == IF c.rlimit >= uv__min_stack_size(c) THEN c.rlimit ELSE uv__default_stack_size
uv__thread_stack_size(c) ==
  LET cur == c.rlimit - (c.rlimit % c.page)
  IN IF c.rlimit < 0 THEN uv__default_stack_size
     ELSE IF cur >= uv__min_stack_size(c) THEN cur
     ELSE uv__default_stack_size

StackSize(c) ==
  LET up == (((c.request + c.page - 1) % Word) \div c.page) * c.page
      m == uv__min_stack_size(c)
  IN IF c.request = 0 THEN uv__thread_stack_size(c)
     ELSE IF up < m THEN m ELSE up

StackCases ==
  [request : {0, 1, 7, 8, 9, 15, 16, 17, 40, Word - 9, Word - 1},
   rlimit : {-2, -1, 0, 7, 8, 9, 23, 48, 100}, page : {1, 4, 16}, stackmin : {0, 16}]

StackStep ==
  /\ mode = "stack" /\ h.result = 0
  /\ h' = [h EXCEPT !.result = StackSize(o)]
  /\ UNCHANGED <<mode, o, mutex, pc, uses>>

-----------------------------------------------------------------------------
(* Affinity.  A mask is a set of processors.  On Windows 1 << i is an int: *)
(* the processor of its sign bit is extended to all that follow.           *)

IntBits == 3
Cpus == 0..4
Bit(i) ==
  LET j == i % IntBits    \* the processor takes the count modulo the width
  IN IF j < IntBits - 1 THEN {j} ELSE {k \in Cpus : k >= j}

Refused == {-1}
\* uv_thread_setaffinity of Windows: what the thread may run on afterwards.
WinMask(ask, proc) ==
  IF \E i \in ask : Bit(i) \cap proc = {} THEN Refused
  ELSE UNION {Bit(i) : i \in ask}

\* SetThreadAffinityMask refuses an empty mask and one outside the process.
MaskStep ==
  /\ mode = "mask" /\ h.result = 0
  /\ LET new == WinMask(o.ask, o.proc)
         done == new # Refused /\ new # {} /\ new \subseteq o.proc
     IN h' = [h EXCEPT !.result = 1,
                       !.set = IF done THEN new ELSE o.mask,
                       !.old = IF done THEN o.mask ELSE Refused]
  /\ UNCHANGED <<mode, o, mutex, pc, uses>>

\* uv_thread_getaffinity of Windows sets the mask of the process for a
\* moment and puts the thread's own back.
GetMaskKeeps(b, mask) == [mask |-> b.proc, told |-> mask]
GetMask(b, mask) == [mask |-> mask, told |-> mask]

MaskGet ==
  /\ mode = "mask" /\ h.result = 1
  /\ LET r == GetMask(o, h.set)
     IN h' = [h EXCEPT !.result = 2, !.set = r.mask, !.told = r.told]
  /\ UNCHANGED <<mode, o, mutex, pc, uses>>

-----------------------------------------------------------------------------
InitObject(k) ==
  CASE k = "barrier" -> o = [in |-> 0, out |-> 0]
    [] k = "sem" -> o \in [value : {0, 1}, version : {<<2, 17>>, <<2, 21>>}]
    [] k = "once" -> o = [ran |-> FALSE, event |-> Free, events |-> 0, signalled |-> FALSE]
    [] k = "thread" ->
         o = [tid |-> [t \in Thread |-> NoHandle], ctx |-> [t \in Thread |-> "none"],
              tls |-> [t \in Thread |-> NoHandle], handles |-> {}, key |-> FALSE]
    [] k = "create" -> o \in [kind : {"barrier", "sem", "cond"}, fails : 0..3]
                         \cup [kind : {"cond"}, fails : {4}]
    [] k = "stack" -> o \in StackCases
    [] k = "mask" ->
         o \in [ask : SUBSET Cpus, proc : {{0, 1}, {1, 3, 4}, Cpus}, mask : {{1}}]

Init ==
  /\ mode \in Modes
  /\ InitObject(mode)
  /\ mutex = Free
  /\ pc = [t \in Thread |-> "idle"]
  /\ uses = [t \in Thread |-> MaxUse]
  /\ h = [spurious |-> 0, arrived |-> 0, left |-> 0, lasts |-> 0, seen |-> 0,
          ticket |-> [t \in Thread |-> 0], closing |-> FALSE, freed |-> FALSE,
          posts |-> 0, takes |-> 0, slept |-> {}, two |-> FALSE,
          calls |-> 0, finished |-> FALSE, early |-> FALSE,
          self |-> [t \in Thread |-> NoHandle], result |-> 0,
          set |-> {}, old |-> {}, told |-> {}, held |-> {},
          initial |-> IF mode = "sem" THEN o.value ELSE 0]

Step(t) == BarrierStep(t) \/ SemStep(t) \/ OnceStep(t) \/ ThreadStep(t)

Next ==
  \/ \E t \in Thread : Step(t) \/ Spurious(t)
  \/ CreateObject \/ StackStep \/ MaskStep \/ MaskGet

Spec == Init /\ [][Next]_vars

-----------------------------------------------------------------------------
(* Properties.                                                             *)

Complete == Threshold * (h.arrived \div Threshold)

(***************************************************************************)
(* uv_barrier_wait: a thread leaves the barrier only when its round is     *)
(* complete, no thread of the next round leaves with it, and exactly one   *)
(* thread of every round that has left is told that it was the last.       *)
(***************************************************************************)
RoundsAreWhole ==
  mode = "barrier" =>
    /\ h.left <= Complete /\ h.seen <= Complete
    /\ h.lasts = h.left \div Threshold

\* Nobody can run: every thread is idle or asleep.
AllQuiet == \A t \in Thread : pc[t] \in Asleep \cup {"idle"}

(***************************************************************************)
(* uv_barrier_wait, uv_barrier_destroy, uv_sem_wait: when every thread is  *)
(* asleep or idle, those in the barrier wait for a round that is not       *)
(* complete, nobody waits at its gate or to destroy it, and a sole sleeper *)
(* on a semaphore really finds it empty.                                   *)
(***************************************************************************)
NobodyIsForgotten ==
  AllQuiet =>
    \A t \in Thread :
      /\ pc[t] = "zin" => h.ticket[t] > Complete
      /\ pc[t] \notin {"zgate", "zdestroy"}
      /\ pc[t] = "zwait" /\ ~h.two => o.value = 0

(***************************************************************************)
(* uv_barrier_destroy frees the barrier when no other thread is inside     *)
(* uv_barrier_wait, whichever thread calls it.                             *)
(***************************************************************************)
DestroyIsLast ==
  h.freed => \A t \in Thread : pc[t] = "idle"

(***************************************************************************)
(* uv_sem_post, uv_sem_wait, uv_sem_trywait: the value is what was there   *)
(* plus the posts minus the successful waits, and nobody takes what is not *)
(* there, however the callers interleave.                                  *)
(***************************************************************************)
SemaphoreCounts ==
  mode = "sem" =>
    /\ o.value = h.initial + h.posts - h.takes
    /\ o.value >= 0

(***************************************************************************)
(* uv_sem_post: "Release one to replace us".  When nobody is under way any *)
(* more, no thread sleeps in uv_sem_wait while the semaphore has a value.  *)
(***************************************************************************)
PostReleasesOne ==
  AllQuiet /\ mode = "sem" =>
    \A t \in Thread : pc[t] = "zwait" => o.value = 0

(***************************************************************************)
(* uv_once of Windows: the callback runs once, nobody returns before it    *)
(* has finished, and the events of the callers that lost are closed.       *)
(***************************************************************************)
OnceIsOnce ==
  mode = "once" =>
    /\ h.calls <= 1 /\ ~h.early
    /\ (\A t \in Thread : pc[t] = "idle") => o.events <= 1

(***************************************************************************)
(* uv_thread_create, uv_thread_self: a thread that asks for itself gets    *)
(* the handle its creator holds, no handle is left over when all threads   *)
(* were joined, and no context is.                                         *)
(***************************************************************************)
SelfIsTheHandle ==
  mode = "thread" =>
    /\ \A t \in Thread :
         h.self[t] # NoHandle /\ o.tid[t] # NoHandle => h.self[t] = o.tid[t]
    /\ (\A t \in Thread : pc[t] = "idle") =>
         o.handles = {} /\ \A t \in Thread : o.ctx[t] = "none"

(***************************************************************************)
(* uv_thread_create_ex: the stack is what pthread_attr_setstacksize takes: *)
(* whole pages, not below the minimum, and not below what was asked for    *)
(* (a request that wraps when it is rounded gets the minimum).             *)
(***************************************************************************)
StackFits ==
  mode = "stack" /\ h.result > 0 =>
    /\ h.result >= uv__min_stack_size(o)
    /\ h.result % o.page = 0 \/ h.result = uv__min_stack_size(o)
    /\ o.request < Word - o.page => h.result >= o.request

(***************************************************************************)
(* uv_thread_setaffinity, uv_thread_getaffinity of Windows: below the sign *)
(* bit of an int a thread runs exactly where it was asked to, or the call  *)
(* fails and changes nothing; asking for the mask does not change it.      *)
(***************************************************************************)
AffinityReadsBack ==
  mode = "mask" /\ h.result = 2 =>
    /\ h.told = h.set
    /\ h.old = Refused => h.set = o.mask
    /\ h.old # Refused /\ (\A i \in o.ask : i < IntBits - 1) => h.set = o.ask

(***************************************************************************)
(* uv_barrier_init, uv__custom_sem_init, uv_cond_init: whichever step      *)
(* fails, what the steps before it acquired is given back, and a success   *)
(* keeps all of it.                                                        *)
(***************************************************************************)
FailureIsUndone ==
  mode = "create" /\ h.result = 1 =>
    h.held = IF o.fails # 0 THEN {}
             ELSE {"cond"} \cup IF o.kind = "cond" THEN {} ELSE {"memory", "mutex"}
=============================================================================
