------------------------------ MODULE IoUring -------------------------------
(***************************************************************************)
(* File system requests that libuv hands to the kernel through an io_uring *)
(* (src/unix/linux.c, struct uv__iou): the submission ring, which a kernel *)
(* thread empties, the completion ring, which uv__poll_io_uring empties,   *)
(* and the thread pool as the way out when the ring is missing, full or    *)
(* does not know the operation.                                            *)
(*                                                                         *)
(* uv__iou_submit is several steps, between which the kernel thread runs.  *)
(* They take effect in the order of the program: memory is taken to be     *)
(* sequentially consistent, which the release store of the tail and the    *)
(* acquire load of the flags do not promise by themselves, since a store   *)
(* may become visible after a later load.  Heads and tails are 32-bit      *)
(* counters in the code; the model compares them modulo Wrap, a multiple   *)
(* of the ring sizes, as the code does modulo 2^32.                        *)
(***************************************************************************)
EXTENDS Naturals, Sequences, FiniteSets, SequencesExt

CONSTANTS
  KernelVersion,   \* 10000 * major + 100 * minor + patch, 51300 or later
  Req,       \* the uv_fs_t requests
  SqSize,    \* entries of the submission ring, 64
  CqSize,    \* entries of the completion ring
  Wrap,      \* 2^32
  MaxUse     \* bound: how often requests are submitted

VARIABLES
  ringfd,              \* the ring exists; uv__iou_init may have failed
  sqe, sqhead, sqtail, \* the submission ring
  cqe, cqhead, cqtail, \* the completion ring
  overflow,            \* completions the kernel keeps, IORING_SQ_CQ_OVERFLOW
  sqthread,            \* "awake", "checking" or "asleep"
  need_wakeup,         \* IORING_SQ_NEED_WAKEUP
  working,             \* taken from the ring by the kernel
  in_flight,
  state,               \* of each request: "idle", "ring", "pool" or "done"
  tail, at,            \* locals of uv__poll_io_uring: the tail, the position
  pc,                  \* "loop", "cqes" or "cb"
  step, flags,         \* uv__iou_submit: its next step, 0 outside, and its local
  uses

sqring == <<sqe, sqhead, sqtail>>
cqring == <<cqe, cqhead, cqtail, overflow>>
kernel == <<sqthread, need_wakeup, working>>
submit == <<step, flags>>
vars == <<ringfd, sqring, cqring, kernel, in_flight, state, tail, at, pc, submit, uses>>

None == "none"

Init ==
  /\ ringfd \in BOOLEAN
  /\ sqe = [k \in 0 .. SqSize - 1 |-> None] /\ sqhead = 0 /\ sqtail = 0
  /\ cqe = [k \in 0 .. CqSize - 1 |-> None] /\ cqhead = 0 /\ cqtail = 0
  /\ overflow = <<>>
  /\ sqthread = "awake" /\ need_wakeup = FALSE /\ working = {}
  /\ in_flight = 0 /\ state = [r \in Req |-> "idle"]
  /\ tail = 0 /\ at = 0 /\ pc = "loop" /\ step = 0 /\ flags = FALSE /\ uses = 0

-----------------------------------------------------------------------------
(* uv__iou_fs_open and its like, uv__iou_get_sqe and uv__iou_submit.       *)

\* One entry stays free.
SqFull == sqhead % SqSize = (sqtail + 1) % SqSize

\* The request gets a place in the ring, or goes to the thread pool.
\* known: the kernel version, or the flags of the ring, allow the operation.
Submit(r, known) ==
  /\ pc \in {"loop", "cb"} /\ step = 0 /\ uses < MaxUse
  /\ state[r] \in {"idle", "done"}
  /\ uses' = uses + 1
  /\ IF ~known \/ ~ringfd \/ SqFull
     THEN /\ state' = [state EXCEPT ![r] = "pool"]
          /\ UNCHANGED <<sqe, in_flight, step>>
     ELSE /\ state' = [state EXCEPT ![r] = "ring"]
          /\ sqe' = [sqe EXCEPT ![sqtail % SqSize] = r]
          /\ in_flight' = in_flight + 1
          /\ step' = 1
  /\ UNCHANGED <<ringfd, sqhead, sqtail, cqring, kernel, tail, at, pc, flags>>

\* Mutant: the flags are read before the tail is stored.
LoadsFirst == <<"load", "store", "wake">>

SubmitSteps == <<"store", "load", "wake">>

\* uv__iou_submit is at the step with this name, and ends with the last one.
AtStep(name) ==
  /\ step # 0 /\ SubmitSteps[step] = name
  /\ step' = IF step = Len(SubmitSteps) THEN 0 ELSE step + 1
  /\ UNCHANGED <<ringfd, sqe, sqhead, cqring, working, in_flight, state, tail, at, pc, uses>>

StoreTail ==
  /\ AtStep("store")
  /\ sqtail' = (sqtail + 1) % Wrap
  /\ UNCHANGED <<sqthread, need_wakeup, flags>>

LoadFlags ==
  /\ AtStep("load")
  /\ flags' = need_wakeup
  /\ UNCHANGED <<sqthread, need_wakeup, sqtail>>

\* io_uring_enter, if the flag was set; a thread that is awake stays so.
Wakeup ==
  /\ AtStep("wake")
  /\ sqthread' = IF flags THEN "awake" ELSE sqthread
  /\ need_wakeup' = (need_wakeup /\ ~flags)
  /\ flags' = FALSE
  /\ UNCHANGED sqtail

\* The comment in the code says 5.16.0 where the number is 5.10.0.
FsClose(r) ==
  Submit(r, /\ KernelVersion >= 51590
            /\ ~(KernelVersion >= 51000 /\ KernelVersion < 60100))

MKDIRAT_SYMLINKAT_LINKAT == KernelVersion >= 51500

FsPath(r) ==
  \E op \in {"link", "mkdir", "symlink", "open", "rename", "unlink"} :
    Submit(r, op \in {"link", "mkdir", "symlink"} => MKDIRAT_SYMLINKAT_LINKAT)

FsSync(r) == Submit(r, TRUE)

\* Reads are cut to IOV_MAX buffers, writes are not.
FsReadOrWrite(r) ==
  \E is_read, many \in BOOLEAN : Submit(r, many => is_read)

\* allocated: there is memory for the buffer of statx.
FsStatx(r) == \E allocated \in BOOLEAN : Submit(r, allocated)

FsRequest(r) ==
  FsClose(r) \/ FsPath(r) \/ FsSync(r) \/ FsReadOrWrite(r) \/ FsStatx(r)

-----------------------------------------------------------------------------
(* The kernel, and the thread pool (module ThreadPool).                    *)

Consume ==
  /\ ringfd /\ sqthread # "asleep" /\ sqhead # sqtail
  /\ working' = working \cup {sqe[sqhead % SqSize]}
  /\ sqe' = [sqe EXCEPT ![sqhead % SqSize] = None]
  /\ sqhead' = (sqhead + 1) % Wrap
  /\ sqthread' = "awake" /\ need_wakeup' = FALSE
  /\ UNCHANGED <<ringfd, sqtail, cqring, in_flight, state, tail, at, pc, submit, uses>>

\* With nothing to do for a while it sets the flag, looks again, and sleeps.
FallAsleep ==
  /\ ringfd /\ sqhead = sqtail /\ sqthread # "asleep"
  /\ need_wakeup' = TRUE
  /\ sqthread' = IF sqthread = "awake" THEN "checking" ELSE "asleep"
  /\ UNCHANGED <<ringfd, sqring, cqring, working, in_flight, state, tail, at, pc, submit, uses>>

\* An operation ends; unsupported is the result -EOPNOTSUPP.
Complete(w, supported) ==
  LET entry == <<w, supported>> IN
  /\ working' = working \ {w}
  /\ IF (cqtail + Wrap - cqhead) % Wrap < CqSize /\ overflow = <<>>
     THEN /\ cqe' = [cqe EXCEPT ![cqtail % CqSize] = entry]
          /\ cqtail' = (cqtail + 1) % Wrap
          /\ UNCHANGED <<cqhead, overflow>>
     ELSE /\ overflow' = Append(overflow, entry)
          /\ UNCHANGED <<cqe, cqhead, cqtail>>
  /\ UNCHANGED <<ringfd, sqring, sqthread, need_wakeup, in_flight, state, tail,
                 at, pc, submit, uses>>

PoolDone(r) ==
  /\ pc = "loop" /\ step = 0 /\ state[r] = "pool"
  /\ state' = [state EXCEPT ![r] = "done"]
  /\ pc' = "cb"
  /\ at' = cqhead /\ tail' = cqhead
  /\ UNCHANGED <<ringfd, sqring, cqring, kernel, in_flight, submit, uses>>

-----------------------------------------------------------------------------
(* uv__poll_io_uring, called when epoll reports the descriptor of the ring. *)

PollBegin ==
  /\ pc = "loop" /\ step = 0 /\ ringfd /\ cqhead # cqtail
  /\ at' = cqhead /\ tail' = cqtail
  /\ pc' = "cqes"
  /\ UNCHANGED <<ringfd, sqring, cqring, kernel, in_flight, state, submit, uses>>

\* The next completion: back to the thread pool, or the callback.
Cqe ==
  /\ pc = "cqes" /\ at # tail
  /\ LET e == cqe[at % CqSize] IN
     /\ state' = [state EXCEPT ![e[1]] = IF e[2] THEN "done" ELSE "pool"]
     /\ pc' = IF e[2] THEN "cb" ELSE "cqes"
  /\ in_flight' = in_flight - 1
  /\ at' = (at + 1) % Wrap
  /\ UNCHANGED <<ringfd, sqring, cqring, kernel, tail, submit, uses>>

CallbackReturn ==
  /\ pc = "cb" /\ step = 0
  /\ IF tail = cqhead /\ at = tail
     THEN pc' = "loop" /\ tail' = 0 /\ at' = 0
     ELSE pc' = "cqes" /\ UNCHANGED <<tail, at>>
  /\ UNCHANGED <<ringfd, sqring, cqring, kernel, in_flight, state, submit, uses>>

\* Mutants: the head goes to the tail of now; overflowed entries stay behind.
HeadAfterNow == cqtail
HeadAfter == tail

TakesOverflowNever == FALSE
TakesOverflow == overflow # <<>>

\* The head moves, and io_uring_enter makes room for overflowed completions.
PollEnd ==
  /\ pc = "cqes" /\ at = tail
  /\ cqhead' = HeadAfter
  /\ LET n == IF Len(overflow) < CqSize THEN Len(overflow) ELSE CqSize
         used == (cqtail + Wrap - HeadAfter) % Wrap
         fit == IF n < CqSize - used THEN n ELSE CqSize - used
     IN IF TakesOverflow
        THEN /\ cqe' = [k \in DOMAIN cqe |->
                          LET j == (k + CqSize - (cqtail % CqSize)) % CqSize
                          IN IF j < fit THEN overflow[j + 1] ELSE cqe[k]]
             /\ cqtail' = (cqtail + fit) % Wrap
             /\ overflow' = SubSeq(overflow, fit + 1, Len(overflow))
        ELSE UNCHANGED <<cqe, cqtail, overflow>>
  /\ pc' = "loop" /\ tail' = 0 /\ at' = 0
  /\ UNCHANGED <<ringfd, sqring, kernel, in_flight, state, submit, uses>>

-----------------------------------------------------------------------------
LoopStep == PollBegin \/ Cqe \/ CallbackReturn \/ PollEnd
Kernel == Consume \/ \E w \in working : \E ok \in BOOLEAN : Complete(w, ok)

Next ==
  \/ \E r \in Req : FsRequest(r) \/ PoolDone(r)
  \/ StoreTail \/ LoadFlags \/ Wakeup
  \/ Kernel \/ FallAsleep \/ LoopStep

Spec == Init /\ [][Next]_vars

-----------------------------------------------------------------------------
(* Properties.                                                             *)

\* Completions that uv__poll_io_uring has not looked at.
Unseen ==
  LET first == IF pc = "loop" THEN cqhead ELSE at IN
  {cqe[k % CqSize][1] :
     k \in {j \in 0 .. Wrap + CqSize :
              j >= first /\ j < first + ((cqtail + Wrap - first) % Wrap)}}

Waiting ==
  {sqe[(sqhead + k) % SqSize] : k \in 0 .. ((sqtail + Wrap - sqhead) % Wrap) - 1}

\* What uv__iou_submit still has to do, and the entry whose tail is not stored.
ToDo == IF step = 0 THEN {} ELSE {SubmitSteps[k] : k \in step .. Len(SubmitSteps)}
Filled == IF "store" \in ToDo THEN {sqe[sqtail % SqSize]} ELSE {}

(***************************************************************************)
(* A request that was put into the ring is in exactly one place: filled in *)
(* by the loop, in the submission ring, with the kernel, in the completion *)
(* ring or among the overflowed completions.  None is overwritten when a   *)
(* ring is full, and in_flight, which keeps uv__io_poll polling, counts    *)
(* them.                                                                   *)
(***************************************************************************)
RingKeepsRequests ==
  /\ {r \in Req : state[r] = "ring"}
       = Filled \cup Waiting \cup working \cup Unseen
           \cup {overflow[k][1] : k \in DOMAIN overflow}
  /\ in_flight = Cardinality({r \in Req : state[r] = "ring"})

(***************************************************************************)
(* uv__iou_submit: the kernel thread does not stay asleep on a request.    *)
(* Whenever it falls asleep, while the loop fills an entry, stores the     *)
(* tail or has just read the flag: if it sleeps with an entry in the ring, *)
(* the loop has still to read the flag, or has read it set and is about to *)
(* wake the thread.                                                        *)
(***************************************************************************)
NoSleepOnWork ==
  sqthread = "asleep" /\ sqhead # sqtail =>
    "load" \in ToDo \/ ("wake" \in ToDo /\ flags)

(***************************************************************************)
(* Overflowed completions are not left where nothing reports them: unless  *)
(* the completion ring is not empty, there are none when the loop polls.   *)
(***************************************************************************)
OverflowIsSeen == pc = "loop" /\ overflow # <<>> => cqhead # cqtail
=============================================================================
