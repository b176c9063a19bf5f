-------------------------- MODULE ThreadPoolProofs --------------------------
(***************************************************************************)
(* Proofs about module ThreadPool, for any finite set of workers and any   *)
(* loops, works and slow works: the safety properties the threadpool run   *)
(* checks on a small pool, and the refinement of WorkRequest.              *)
(***************************************************************************)
EXTENDS ThreadPool, FiniteSetTheorems, SequenceTheorems, TLAPS

(***************************************************************************)
(* Lemmas about queues: threadpool.c's wq, slow_io_pending_wq, loop->wq    *)
(* and the local list of uv__work_done are sequences.                      *)
(***************************************************************************)

\* No work is in the queue twice.
Once(q) ==
  \A i, j \in 1 .. Len(q) : q[i] \in Works /\ q[i] = q[j] => i = j

(***************************************************************************)
(* The elements of a queue are what its positions hold.                    *)
(***************************************************************************)
LEMMA InQueue ==
  ASSUME NEW S, NEW q \in Seq(S), NEW x
  PROVE  x \in ToSet(q) <=> \E i \in 1 .. Len(q) : q[i] = x
  BY DEF ToSet

(***************************************************************************)
(* The empty queue (uv__queue_init) holds nothing.                         *)
(***************************************************************************)
LEMMA EmptyFacts == ToSet(<<>>) = {} /\ Once(<<>>)
  BY DEF ToSet, Once

(***************************************************************************)
(* uv__queue_insert_tail adds one element at the end, and keeps a queue    *)
(* free of repetitions when the element was not in it.                     *)
(***************************************************************************)
LEMMA AppendFacts ==
  ASSUME NEW S, NEW q \in Seq(S), NEW x \in S
  PROVE  /\ Append(q, x) \in Seq(S)
         /\ Append(q, x) # <<>>
         /\ \A y : y \in ToSet(Append(q, x)) <=> y \in ToSet(q) \/ y = x
         /\ Once(q) /\ (x \in Works => x \notin ToSet(q)) => Once(Append(q, x))
<1>1. /\ Append(q, x) \in Seq(S)
      /\ Len(Append(q, x)) = Len(q) + 1
      /\ \A i \in 1 .. Len(q) : Append(q, x)[i] = q[i]
      /\ Append(q, x)[Len(q) + 1] = x
  BY AppendProperties
<1>2. Len(q) \in Nat
  BY LenProperties
<1> DEFINE a == Append(q, x)
<1> HIDE DEF a
<1>3. \A y : y \in ToSet(a) <=> \E i \in 1 .. Len(a) : a[i] = y
  BY <1>1, InQueue DEF a
<1>4. \A y : y \in ToSet(q) <=> \E i \in 1 .. Len(q) : q[i] = y
  BY InQueue
<1>5. \A y : y \in ToSet(a) <=> y \in ToSet(q) \/ y = x
  BY <1>1, <1>2, <1>3, <1>4 DEF a
<1>6. a # <<>>
  BY <1>1, <1>2 DEF a
<1>7. Once(q) /\ (x \in Works => x \notin ToSet(q)) => Once(a)
  BY <1>1, <1>2, <1>4 DEF a, Once
<1> QED
  BY <1>1, <1>5, <1>6, <1>7 DEF a

(***************************************************************************)
(* uv__queue_head and uv__queue_remove of the head take one element away,  *)
(* and it is not in the rest.                                              *)
(***************************************************************************)
LEMMA TailFacts ==
  ASSUME NEW S, NEW q \in Seq(S), q # <<>>
  PROVE  /\ Tail(q) \in Seq(S)
         /\ Head(q) \in S
         /\ \A y : y \in ToSet(q) <=> y \in ToSet(Tail(q)) \/ y = Head(q)
         /\ Once(q) => Once(Tail(q))
         /\ Once(q) /\ Head(q) \in Works => Head(q) \notin ToSet(Tail(q))
<1>1. /\ Len(q) \in Nat \ {0}
      /\ Tail(q) \in Seq(S)
      /\ Len(Tail(q)) = Len(q) - 1
      /\ \A i \in 1 .. Len(q) - 1 : Tail(q)[i] = q[i + 1]
      /\ Head(q) = q[1]
      /\ Head(q) \in S
  BY HeadTailProperties, LenProperties, EmptySeq
<1> DEFINE b == Tail(q)
<1> HIDE DEF b
<1>3. \A y : y \in ToSet(b) <=> \E i \in 1 .. Len(b) : b[i] = y
  BY <1>1, InQueue DEF b
<1>4. \A y : y \in ToSet(q) <=> \E i \in 1 .. Len(q) : q[i] = y
  BY InQueue
<1>5. ASSUME NEW y, y \in ToSet(q), y # Head(q)
      PROVE  y \in ToSet(b)
  <2>1. PICK i \in 1 .. Len(q) : q[i] = y
    BY <1>4, <1>5
  <2>2. i # 1 /\ i - 1 \in 1 .. Len(b) /\ b[i - 1] = y
    BY <1>1, <1>5, <2>1 DEF b
  <2> QED
    BY <2>2, <1>3
<1>6. ASSUME NEW y, y \in ToSet(b)
      PROVE  y \in ToSet(q)
  <2>1. PICK i \in 1 .. Len(b) : b[i] = y
    BY <1>3, <1>6
  <2>2. i + 1 \in 1 .. Len(q) /\ q[i + 1] = y
    BY <1>1, <2>1 DEF b
  <2> QED
    BY <2>2, <1>4
<1>7. Head(q) \in ToSet(q)
  BY <1>1, <1>4
<1>8. Once(q) => Once(b)
  BY <1>1 DEF b, Once
<1>9. ASSUME Once(q), Head(q) \in Works, Head(q) \in ToSet(b)
      PROVE  FALSE
  <2>1. PICK i \in 1 .. Len(b) : b[i] = Head(q)
    BY <1>3, <1>9
  <2>2. i + 1 \in 1 .. Len(q) /\ q[i + 1] = q[1] /\ 1 \in 1 .. Len(q)
    BY <1>1, <2>1 DEF b
  <2> QED
    BY <1>1, <1>9, <2>2 DEF Once
<1> QED
  BY <1>1, <1>5, <1>6, <1>7, <1>8, <1>9 DEF b

(***************************************************************************)
(* Removing a position keeps the others in their order.                    *)
(***************************************************************************)
LEMMA RemoveAtFacts ==
  ASSUME NEW S, NEW q \in Seq(S), NEW k \in 1 .. Len(q)
  PROVE  /\ RemoveAt(q, k) \in Seq(S)
         /\ Len(RemoveAt(q, k)) = Len(q) - 1
         /\ \A i \in 1 .. Len(q) - 1 :
              RemoveAt(q, k)[i] = IF i < k THEN q[i] ELSE q[i + 1]
<1> DEFINE a == SubSeq(q, 1, k - 1)
           b == SubSeq(q, k + 1, Len(q))
<1>1. Len(q) \in Nat /\ k \in Nat /\ k >= 1 /\ k <= Len(q)
  BY LenProperties
<1>2. a \in Seq(S) /\ Len(a) = k - 1 /\ \A i \in 1 .. k - 1 : a[i] = q[i]
  <2>1. \A i \in 1 .. k - 1 : i \in 1 .. Len(q)
    BY <1>1
  <2>2. \A i \in 1 .. k - 1 : q[i] \in S
    BY <2>1, ElementOfSeq
  <2> QED
  BY <1>1, SubSeqProperties
<1>3. /\ b \in Seq(S) /\ Len(b) = Len(q) - k
      /\ \A i \in 1 .. Len(q) - k : b[i] = q[k + i]
  BY <1>1, SubSeqProperties
<1> HIDE DEF a, b
<1>4. /\ a \o b \in Seq(S)
      /\ Len(a \o b) = Len(a) + Len(b)
      /\ \A i \in 1 .. Len(a) + Len(b) :
           (a \o b)[i] = IF i <= Len(a) THEN a[i] ELSE b[i - Len(a)]
  BY <1>2, <1>3, ConcatProperties
<1>5. RemoveAt(q, k) = a \o b
  BY DEF RemoveAt, a, b
<1>6. Len(a \o b) = Len(q) - 1
  BY <1>1, <1>2, <1>3, <1>4
<1>7. ASSUME NEW i \in 1 .. Len(q) - 1, i < k
      PROVE  (a \o b)[i] = q[i]
  BY <1>1, <1>2, <1>3, <1>4, <1>7
<1>8. ASSUME NEW i \in 1 .. Len(q) - 1, ~(i < k)
      PROVE  (a \o b)[i] = q[i + 1]
  <2>1. i - Len(a) \in 1 .. Len(q) - k /\ k + (i - Len(a)) = i + 1
    BY <1>1, <1>2, <1>8
  <2>2. b[i - Len(a)] = q[k + (i - Len(a))]
    BY <1>3, <2>1
  <2> QED
    BY <1>1, <1>2, <1>3, <1>4, <1>8, <2>1, <2>2
<1> QED
  BY <1>4, <1>5, <1>6, <1>7, <1>8

(***************************************************************************)
(* uv__queue_remove of a work, as uv__work_cancel does it: the work is     *)
(* gone, the rest stays, and a queue without it does not change.           *)
(***************************************************************************)
LEMMA WithoutFacts ==
  ASSUME NEW S, NEW q \in Seq(S), NEW w \in Works
  PROVE  /\ Without(q, w) \in Seq(S)
         /\ w \notin ToSet(q) => Without(q, w) = q
         /\ \A y : y # w => (y \in ToSet(Without(q, w)) <=> y \in ToSet(q))
         /\ Once(q) => Once(Without(q, w))
         /\ Once(q) => w \notin ToSet(Without(q, w))
<1>1. CASE w \notin ToSet(q)
  BY <1>1 DEF Without
<1>2. CASE w \in ToSet(q)
  <2> DEFINE k == CHOOSE i \in DOMAIN q : q[i] = w
             r == RemoveAt(q, k)
  <2>1. Len(q) \in Nat /\ DOMAIN q = 1 .. Len(q)
    BY LenProperties
  <2>2. k \in 1 .. Len(q) /\ q[k] = w
    <3>1. \E i \in DOMAIN q : q[i] = w
      BY <1>2 DEF ToSet
    <3> QED
      BY <2>1, <3>1
  <2> HIDE DEF k
  <2>3. /\ r \in Seq(S)
        /\ Len(r) = Len(q) - 1
        /\ \A i \in 1 .. Len(q) - 1 : r[i] = IF i < k THEN q[i] ELSE q[i + 1]
    BY <2>2, RemoveAtFacts
  <2>4. Without(q, w) = r
    BY <1>2 DEF Without, k
  <2> HIDE DEF r
  <2>5. \A y : y \in ToSet(r) <=> \E i \in 1 .. Len(r) : r[i] = y
    BY <2>3, InQueue
  <2>6. \A y : y \in ToSet(q) <=> \E i \in 1 .. Len(q) : q[i] = y
    BY InQueue
  <2>7. ASSUME NEW y, y # w, y \in ToSet(q)
        PROVE  y \in ToSet(r)
    <3>1. PICK i \in 1 .. Len(q) : q[i] = y
      BY <2>6, <2>7
    <3>2. CASE i < k
      <4>1. i \in 1 .. Len(r) /\ r[i] = y
        BY <2>1, <2>2, <2>3, <3>1, <3>2
      <4> QED
        BY <2>5, <4>1
    <3>3. CASE i > k
      <4>1. i - 1 \in 1 .. Len(r) /\ r[i - 1] = y
        BY <2>1, <2>2, <2>3, <3>1, <3>3
      <4> QED
        BY <2>5, <4>1
    <3> QED
      BY <2>1, <2>2, <2>7, <3>1, <3>2, <3>3
  <2>8. ASSUME NEW y, y \in ToSet(r)
        PROVE  \E i \in 1 .. Len(q) : i # k /\ q[i] = y
    <3>1. PICK i \in 1 .. Len(r) : r[i] = y
      BY <2>5, <2>8
    <3> QED
      BY <2>1, <2>2, <2>3, <3>1
  <2>9. Once(q) => Once(r)
    <3> SUFFICES ASSUME Once(q), NEW i \in 1 .. Len(r), NEW j \in 1 .. Len(r),
                        r[i] \in Works, r[i] = r[j]
                 PROVE  i = j
      BY DEF Once
    <3> QED
      BY <2>1, <2>2, <2>3 DEF Once
  <2>10. Once(q) => w \notin ToSet(r)
    BY <2>2, <2>8 DEF Once
  <2> QED
    BY <2>3, <2>4, <2>6, <2>7, <2>8, <2>9, <2>10, <1>2
<1> QED
  BY <1>1, <1>2

-----------------------------------------------------------------------------
(***************************************************************************)
(* The inductive invariant.  None of the properties is inductive alone.    *)
(* That a work is in one place needs which thread holds it, hence          *)
(* WorkerInv and LoopInv; that a worker never runs a cancelled work needs  *)
(* what uv__work_cancel, which writes w->work without the mutex, can have  *)
(* reached in each place, hence StateInv; that somebody is awake needs     *)
(* that idle_threads counts the workers inside uv_cond_wait, the signalled *)
(* ones too, hence IdleInv; the bound on slow work needs that slow work    *)
(* comes only through its own queue, hence SlowInv.  The places where a    *)
(* work can be are those of Places, without the positions.                 *)
(***************************************************************************)
AtWq(w) == w \in ToSet(wq)
AtSlow(w) == w \in ToSet(slow_io_pending_wq)
AtWorker(w) == \E t \in Workers : job[t] = w
AtLoop(w) == w \in ToSet(loop_wq[LoopOf[w]])
AtDone(w) == w \in ToSet(done_wq[LoopOf[w]])
AtCancel(w) ==
  cancelling[LoopOf[w]] = w /\ cpc[LoopOf[w]] \in {"unlinked", "marked"}

Nowhere(w) ==
  /\ ~AtWq(w) /\ ~AtSlow(w) /\ ~AtWorker(w)
  /\ ~AtLoop(w) /\ ~AtDone(w) /\ ~AtCancel(w)
OnlyWq(w) ==
  /\ AtWq(w) /\ ~AtSlow(w) /\ ~AtWorker(w)
  /\ ~AtLoop(w) /\ ~AtDone(w) /\ ~AtCancel(w)
OnlySlow(w) ==
  /\ ~AtWq(w) /\ AtSlow(w) /\ ~AtWorker(w)
  /\ ~AtLoop(w) /\ ~AtDone(w) /\ ~AtCancel(w)
OnlyWorker(w) ==
  /\ ~AtWq(w) /\ ~AtSlow(w) /\ AtWorker(w)
  /\ ~AtLoop(w) /\ ~AtDone(w) /\ ~AtCancel(w)
OnlyLoop(w) ==
  /\ ~AtWq(w) /\ ~AtSlow(w) /\ ~AtWorker(w)
  /\ AtLoop(w) /\ ~AtDone(w) /\ ~AtCancel(w)
OnlyDone(w) ==
  /\ ~AtWq(w) /\ ~AtSlow(w) /\ ~AtWorker(w)
  /\ ~AtLoop(w) /\ AtDone(w) /\ ~AtCancel(w)
OnlyCancel(w) ==
  /\ ~AtWq(w) /\ ~AtSlow(w) /\ ~AtWorker(w)
  /\ ~AtLoop(w) /\ ~AtDone(w) /\ AtCancel(w)

\* A pending work is in one place, and a work of the user's in none.
PlaceInv ==
  \A w \in Works :
    IF req[w] = "pending"
    THEN \/ OnlyWq(w) \/ OnlySlow(w) \/ OnlyWorker(w)
         \/ OnlyLoop(w) \/ OnlyDone(w) \/ OnlyCancel(w)
    ELSE Nowhere(w)

\* ... and there only once.
OnceInv ==
  /\ Once(wq)
  /\ Once(slow_io_pending_wq)
  /\ \A l \in Loops : Once(loop_wq[l]) /\ Once(done_wq[l])
  /\ \A t, u \in Workers : job[t] # None /\ job[t] = job[u] => t = u

\* A loop is only handed, and only cancels, works of its own.
HomeInv ==
  \A l \in Loops :
    /\ \A w \in Works : w \in ToSet(loop_wq[l]) => LoopOf[w] = l
    /\ \A w \in Works : w \in ToSet(done_wq[l]) => LoopOf[w] = l
    /\ cancelling[l] # None => LoopOf[cancelling[l]] = l

\* What a work's function pointer, its list node and its past are in each place.
StateOf(w) ==
  /\ AtWq(w) \/ AtSlow(w) =>
       w \in linked /\ work[w] = "work" /\ fate[w] = "none"
  /\ AtWorker(w) => w \notin linked /\ work[w] = "work"
  /\ AtLoop(w) \/ AtDone(w) =>
       /\ w \in linked
       /\ \/ work[w] = "null" /\ fate[w] = "ran"
          \/ work[w] = "cancelled" /\ fate[w] = "cancelled"
  /\ AtCancel(w) =>
       /\ fate[w] = "cancelled"
       /\ cpc[LoopOf[w]] = "marked" => work[w] = "cancelled"

StateInv == \A w \in Works : StateOf(w)

\* A worker has a work exactly from taking it to reporting it.
WorkerOf(t) ==
  /\ job[t] # None <=> pc[t] \in {"run", "report", "reporting"}
  /\ pc[t] = "run" => fate[job[t]] = "none"
  /\ pc[t] \in {"report", "reporting"} => fate[job[t]] = "ran"

WorkerInv == \A t \in Workers : WorkerOf(t)

\* A loop cancels only outside uv__work_done or in a callback of it, and the
\* work it cancels is pending.
LoopInv ==
  \A l \in Loops :
    /\ cancelling[l] # None <=> cpc[l] # "none"
    /\ cancelling[l] # None => lpc[l] \in {"poll", "cb"}
    /\ cancelling[l] # None => req[cancelling[l]] = "pending"
    /\ lpc[l] \in {"poll", "done"} => done_wq[l] = <<>>

\* A slow work is queued, and executed, as slow work only.
SlowInv ==
  /\ \A w \in Works : AtWq(w) => w \notin Slow
  /\ \A t \in Workers : job[t] \in Slow => is_slow_work[t]
  /\ \A t \in Workers :
       is_slow_work[t] => pc[t] \in {"lock", "run", "report", "reporting"}

Idle == {t \in Workers : pc[t] \in {"wait", "woken"}}

\* idle_threads counts the workers inside uv_cond_wait, the woken ones too.
IdleInv == idle_threads = Cardinality(Idle)

Inv ==
  /\ TypeOK
  /\ PlaceInv
  /\ OnceInv
  /\ HomeInv
  /\ StateInv
  /\ WorkerInv
  /\ LoopInv
  /\ SlowInv
  /\ IdleInv
  /\ SlowWorkIsBounded
  /\ SlowWorkIsAnnounced
  /\ NotAllAsleep
-----------------------------------------------------------------------------
USE PoolIsFinite, LoopOfType, SlowWorks, ThreadsDiffer, MessagesDiffer
USE DEF queues, poolvars, workervars, queuevars, loopvars, workvars, outside,
        vars

PCs == {"lock", "locked", "wait", "woken", "run", "report", "reporting", "exited"}

\* Some waiting workers have been woken, and nothing else happened to any.
Woke(p, r) ==
  /\ r \in [Workers -> PCs]
  /\ \A t \in Workers : r[t] = p[t] \/ (p[t] = "wait" /\ r[t] = "woken")

(***************************************************************************)
(* uv_cond_signal wakes a waiting thread if there is one.                  *)
(***************************************************************************)
LEMMA SignalFacts ==
  ASSUME NEW p \in [Workers -> PCs], NEW r \in Signal(p)
  PROVE  Woke(p, r) /\ \E t \in Workers : r[t] # "wait"
  BY DEF Signal, Woke, PCs

(***************************************************************************)
(* post signals when idle_threads > 0, and then some worker is awake.      *)
(***************************************************************************)
LEMMA SignalIfIdleFacts ==
  ASSUME NEW p \in [Workers -> PCs], NEW r \in SignalIfIdle(p)
  PROVE  /\ Woke(p, r)
         /\ idle_threads > 0 => \E t \in Workers : r[t] # "wait"
  BY SignalFacts DEF SignalIfIdle, Woke

\* Whatever is queued for the workers.
Items == Works \cup Messages

(***************************************************************************)
(* The two message nodes of the queue are no works.                        *)
(***************************************************************************)
LEMMA ItemFacts == /\ Works \subseteq Items /\ SlowMsg \in Items /\ ExitMsg \in Items
                   /\ SlowMsg \notin Works /\ ExitMsg \notin Works
  BY DEF Items, Messages

(***************************************************************************)
(* post of a work, and of the exit message.                                *)
(***************************************************************************)
LEMMA PostWorkFacts ==
  ASSUME TypeOK, NEW w \in Works, Post(w, w \in Slow)
  PROVE  /\ Woke(pc, pc')
         /\ wq' \in Seq(Items)
         /\ w \notin Slow => wq' = Append(wq, w)
         /\ w \in Slow => \/ wq' = wq /\ SlowMsg \in ToSet(wq)
                          \/ wq' = Append(wq, SlowMsg)
         /\ wq' # wq /\ idle_threads > 0 => \E t \in Workers : pc'[t] # "wait"
<1>1. pc \in [Workers -> PCs] /\ wq \in Seq(Items)
  BY DEF PCs, TypeOK, Items
<1>2. CASE w \in Slow /\ SlowMsg \in ToSet(wq)
  BY <1>1, <1>2 DEF Post, Woke
<1>3. CASE ~(w \in Slow /\ SlowMsg \in ToSet(wq))
  <2>1. pc' \in SignalIfIdle(pc) /\ wq' = Append(wq, IF w \in Slow THEN SlowMsg ELSE w)
    BY <1>3 DEF Post
  <2>2. CASE w \in Slow
    <3>1. wq' = Append(wq, SlowMsg) /\ wq' \in Seq(Items)
      BY <1>1, <2>1, <2>2, AppendFacts, ItemFacts
    <3> QED
      BY <1>1, <2>1, <2>2, <3>1, SignalIfIdleFacts
  <2>3. CASE w \notin Slow
    <3>1. wq' = Append(wq, w) /\ wq' \in Seq(Items)
      BY <1>1, <2>1, <2>3, AppendFacts, ItemFacts
    <3> QED
      BY <1>1, <2>1, <2>3, <3>1, SignalIfIdleFacts
  <2> QED
    BY <2>2, <2>3
<1> QED
  BY <1>2, <1>3

(***************************************************************************)
(* post of the exit message, by uv__threadpool_cleanup and by each worker  *)
(* that leaves.                                                            *)
(***************************************************************************)
LEMMA PostExitFacts ==
  ASSUME TypeOK, Post(ExitMsg, FALSE)
  PROVE  /\ Woke(pc, pc')
         /\ wq' \in Seq(Items)
         /\ wq' = Append(wq, ExitMsg)
         /\ idle_threads > 0 => \E t \in Workers : pc'[t] # "wait"
<1>1. pc \in [Workers -> PCs] /\ wq \in Seq(Items)
  BY DEF PCs, TypeOK, Items
<1>2. pc' \in SignalIfIdle(pc) /\ wq' = Append(wq, ExitMsg)
  BY DEF Post
<1> QED
  BY <1>1, <1>2, SignalIfIdleFacts, AppendFacts, ItemFacts

(***************************************************************************)
(* Every step keeps the variables within their types.                      *)
(***************************************************************************)
LEMMA TypeNext ==
  ASSUME Inv, Next
  PROVE  TypeOK'
<1> USE DEF TypeOK, Items
<1>0. TypeOK
  BY DEF Inv
<1>1. ASSUME NEW t \in Workers, WorkerLock(t) PROVE TypeOK'
  <2>1. is_slow_work[t] => slow_io_work_running - 1 \in Nat
    <3> DEFINE R == {u \in Workers : is_slow_work[u]}
    <3>1. IsFiniteSet(R)
      BY FS_Subset
    <3>2. is_slow_work[t] => Cardinality(R) # 0
      BY <3>1, FS_EmptySet
    <3> QED
      BY <1>0, <3>2 DEF Inv, SlowWorkIsBounded
  <2> QED
    BY <1>0, <1>1, <2>1 DEF WorkerLock, SlowRunningWithout
<1>2. ASSUME NEW t \in Workers, WorkerWait(t) PROVE TypeOK'
  BY <1>0, <1>2 DEF WorkerWait
<1>3. ASSUME NEW t \in Workers, WorkerWoken(t) PROVE TypeOK'
  <2>1. idle_threads - 1 \in Nat
    <3>1. IsFiniteSet(Idle) /\ t \in Idle
      BY <1>3, FS_Subset DEF Idle, WorkerWoken
    <3>2. Cardinality(Idle) # 0
      BY <3>1, FS_EmptySet
    <3> QED
      BY <1>0, <3>2 DEF Inv, IdleInv
  <2> QED
    BY <1>0, <1>3, <2>1 DEF WorkerWoken
<1>4. ASSUME NEW t \in Workers, WorkerExit(t) PROVE TypeOK'
  <2>1. pc' \in [Workers -> PCs]
    <3>1. [pc EXCEPT ![t] = "exited"] \in [Workers -> PCs]
      BY <1>0 DEF PCs
    <3> QED
      BY <1>4, <3>1, SignalFacts DEF WorkerExit, Woke
  <2> QED
    BY <1>0, <1>4, <2>1 DEF WorkerExit, PCs
<1>5. ASSUME NEW t \in Workers, WorkerTake(t) PROVE TypeOK'
  <2>1. wq # <<>>
    BY <1>5 DEF WorkerTake, MustWait
  <2>2. wq' \in Seq(Items)
    BY <1>0, <1>5, <2>1, TailFacts DEF WorkerTake
  <2> QED
    BY <1>0, <1>5, <2>2 DEF WorkerTake, Unlinked
<1>6. ASSUME NEW t \in Workers, WorkerDeferSlow(t) PROVE TypeOK'
  <2>1. wq # <<>>
    BY <1>6 DEF WorkerDeferSlow, MustWait
  <2>2. Tail(wq) \in Seq(Items)
    BY <1>0, <2>1, TailFacts
  <2>3. wq' \in Seq(Items)
    BY <1>6, <2>2, AppendFacts, ItemFacts DEF WorkerDeferSlow
  <2> QED
    BY <1>0, <1>6, <2>3 DEF WorkerDeferSlow
<1>7. ASSUME NEW t \in Workers, WorkerDropSlow(t) PROVE TypeOK'
  <2>1. wq # <<>>
    BY <1>7 DEF WorkerDropSlow, MustWait
  <2>2. wq' \in Seq(Items)
    BY <1>0, <1>7, <2>1, TailFacts DEF WorkerDropSlow
  <2> QED
    BY <1>0, <1>7, <2>2 DEF WorkerDropSlow
<1>8. ASSUME NEW t \in Workers, WorkerTakeSlow(t) PROVE TypeOK'
  <2>1. wq # <<>> /\ slow_io_pending_wq # <<>>
    BY <1>8 DEF WorkerTakeSlow, MustWait
  <2>2. Tail(wq) \in Seq(Items)
    BY <1>0, <2>1, TailFacts
  <2>3. wq' \in Seq(Items)
    <3>1. Append(Tail(wq), SlowMsg) \in Seq(Items)
      BY <2>2, AppendFacts, ItemFacts
    <3> QED
      BY <1>8, <2>2, <3>1 DEF WorkerTakeSlow
  <2>4. /\ slow_io_pending_wq' \in Seq(Slow)
        /\ Head(slow_io_pending_wq) \in Works
    BY <1>0, <1>8, <2>1, TailFacts DEF WorkerTakeSlow
  <2>5. pc' \in [Workers -> PCs]
    <3>1. [pc EXCEPT ![t] = "run"] \in [Workers -> PCs]
      BY <1>0 DEF PCs
    <3> QED
      BY <1>8, <3>1, SignalIfIdleFacts DEF WorkerTakeSlow, Woke
  <2>6. /\ slow_io_work_running' \in Nat
        /\ is_slow_work' \in [Workers -> BOOLEAN]
        /\ job' \in [Workers -> Works \cup {None}]
        /\ linked' \in SUBSET Works
    BY <1>0, <1>8, <2>4 DEF WorkerTakeSlow, Unlinked
  <2>7. mutex' = None /\ UNCHANGED <<idle_threads, queuevars, loopvars, work,
                                     req, fate, shutdown>>
    BY <1>8 DEF WorkerTakeSlow
  <2> QED
    BY <1>0, <2>3, <2>4, <2>5, <2>6, <2>7 DEF PCs
<1>9. ASSUME NEW t \in Workers, WorkerRun(t) PROVE TypeOK'
  BY <1>0, <1>9 DEF WorkerRun
<1>10. ASSUME NEW t \in Workers, WorkerLockLoop(t) PROVE TypeOK'
  BY <1>0, <1>10 DEF WorkerLockLoop
<1>11. ASSUME NEW t \in Workers, WorkerReport(t) PROVE TypeOK'
  <2>1. job[t] \in Works
    BY <1>0, <1>11 DEF WorkerReport, Inv, WorkerInv, WorkerOf
  <2>2. loop_wq' \in [Loops -> Seq(Works)]
    BY <1>0, <1>11, <2>1, AppendFacts DEF WorkerReport
  <2> QED
    BY <1>0, <1>11, <2>1, <2>2 DEF WorkerReport
<1>12. ASSUME NEW t \in Workers, SpuriousWakeup(t) PROVE TypeOK'
  BY <1>0, <1>12 DEF SpuriousWakeup
<1>13. ASSUME NEW l \in Loops, NEW w \in Works, Submit(l, w) PROVE TypeOK'
  <2>1. Woke(pc, pc') /\ wq' \in Seq(Items)
    BY <1>0, <1>13, PostWorkFacts DEF Submit
  <2>3. slow_io_pending_wq' \in Seq(Slow)
    BY <1>0, <1>13, AppendFacts DEF Submit, Post
  <2> QED
    BY <1>0, <1>13, <2>1, <2>3 DEF Submit, Post, Woke, PCs
<1>14. ASSUME NEW l \in Loops, NEW w \in Works, CancelLock(l, w) PROVE TypeOK'
  BY <1>0, <1>14 DEF CancelLock
<1>15. ASSUME NEW l \in Loops, CancelLockLoop(l) PROVE TypeOK'
  BY <1>0, <1>15 DEF CancelLockLoop
<1>16. ASSUME NEW l \in Loops, CancelUnlink(l) PROVE TypeOK'
  <2>1. cancelling[l] \in Works
    BY <1>0, <1>16 DEF CancelUnlink, Inv, LoopInv
  <2>2. /\ wq' \in Seq(Items)
        /\ slow_io_pending_wq' \in Seq(Slow)
    BY <1>0, <1>16, <2>1, WithoutFacts DEF CancelUnlink
  <2>3. /\ loop_wq' \in [Loops -> Seq(Works)]
        /\ done_wq' \in [Loops -> Seq(Works)]
    <3>1. /\ Without(loop_wq[l], cancelling[l]) \in Seq(Works)
          /\ Without(done_wq[l], cancelling[l]) \in Seq(Works)
      BY <1>0, <2>1, WithoutFacts
    <3> QED
      BY <1>0, <1>16, <3>1 DEF CancelUnlink
  <2>4. fate' \in [Works -> {"none", "ran", "cancelled"}]
    BY <1>0, <1>16, <2>1 DEF CancelUnlink
  <2> QED
    BY <1>0, <1>16, <2>2, <2>3, <2>4 DEF CancelUnlink
<1>17. ASSUME NEW l \in Loops, CancelBusy(l) PROVE TypeOK'
  BY <1>0, <1>17 DEF CancelBusy
<1>18. ASSUME NEW l \in Loops, CancelMark(l) PROVE TypeOK'
  BY <1>0, <1>18 DEF CancelMark
<1>19. ASSUME NEW l \in Loops, CancelReport(l) PROVE TypeOK'
  <2>1. cancelling[l] \in Works
    BY <1>0, <1>19 DEF CancelReport, Inv, LoopInv
  <2>2. loop_wq' \in [Loops -> Seq(Works)]
    BY <1>0, <1>19, <2>1, AppendFacts DEF CancelReport
  <2> QED
    BY <1>0, <1>19, <2>1, <2>2 DEF CancelReport
<1>20. ASSUME NEW l \in Loops, WorkDoneBegin(l) PROVE TypeOK'
  BY <1>0, <1>20 DEF WorkDoneBegin
<1>21. ASSUME NEW l \in Loops, WorkDoneMove(l) PROVE TypeOK'
  <2>1. <<>> \in Seq(Works)
    OBVIOUS
  <2> QED
    BY <1>0, <1>21, <2>1 DEF WorkDoneMove
<1>22. ASSUME NEW l \in Loops, WorkDoneNext(l) PROVE TypeOK'
  <2>1. done_wq' \in [Loops -> Seq(Works)] /\ Head(done_wq[l]) \in Works
    BY <1>0, <1>22, TailFacts DEF WorkDoneNext
  <2> QED
    BY <1>0, <1>22, <2>1 DEF WorkDoneNext
<1>23. ASSUME NEW l \in Loops, CallbackReturn(l) PROVE TypeOK'
  BY <1>0, <1>23 DEF CallbackReturn
<1>24. ASSUME NEW l \in Loops, WorkDoneEnd(l) PROVE TypeOK'
  BY <1>0, <1>24 DEF WorkDoneEnd
<1>25. CASE CleanupPost
  <2>1. Woke(pc, pc') /\ wq' \in Seq(Items)
    BY <1>0, <1>25, PostExitFacts DEF CleanupPost
  <2> QED
    BY <1>0, <1>25, <2>1 DEF CleanupPost, Post, Woke, PCs
<1>26. CASE CleanupJoin
  BY <1>0, <1>26 DEF CleanupJoin
<1> QED
  BY <1>1, <1>2, <1>3, <1>4, <1>5, <1>6, <1>7, <1>8, <1>9, <1>10, <1>11, <1>12,
     <1>13, <1>14, <1>15, <1>16, <1>17, <1>18, <1>19, <1>20, <1>21, <1>22,
     <1>23, <1>24, <1>25, <1>26
  DEF Next, WorkerStep, WorkerLocked, CancelStep, WorkDoneStep

-----------------------------------------------------------------------------
(***************************************************************************)
(* How a step moves works between the places.  Every other work stays.     *)
(***************************************************************************)
Stay(w) ==
  /\ AtWq(w)' <=> AtWq(w)
  /\ AtSlow(w)' <=> AtSlow(w)
  /\ AtWorker(w)' <=> AtWorker(w)
  /\ AtLoop(w)' <=> AtLoop(w)
  /\ AtDone(w)' <=> AtDone(w)
  /\ AtCancel(w)' <=> AtCancel(w)

places == <<wq, slow_io_pending_wq, job, loop_wq, done_wq, cpc, cancelling>>

(***************************************************************************)
(* A step that changes none of the queues moves no work.                   *)
(***************************************************************************)
LEMMA NoMove ==
  ASSUME UNCHANGED places
  PROVE  \A w \in Works : Stay(w)
  BY DEF places, Stay, AtWq, AtSlow, AtWorker, AtLoop, AtDone, AtCancel

\* Works in a queue that changes by a message only.
LEMMA MessageMove ==
  ASSUME UNCHANGED <<slow_io_pending_wq, job, loop_wq, done_wq, cpc, cancelling>>,
         \A w \in Works : w \in ToSet(wq') <=> w \in ToSet(wq)
  PROVE  \A w \in Works : Stay(w)
  BY DEF Stay, AtWq, AtSlow, AtWorker, AtLoop, AtDone, AtCancel

(***************************************************************************)
(* uv__work_submit brings one work from nowhere to a queue of the pool.    *)
(***************************************************************************)
LEMMA SubmitMove ==
  ASSUME Inv, NEW l \in Loops, NEW x \in Works, Submit(l, x)
  PROVE  /\ Nowhere(x)
         /\ x \in Slow => OnlySlow(x)'
         /\ x \notin Slow => OnlyWq(x)'
         /\ \A w \in Works \ {x} : Stay(w)
<1>1. TypeOK /\ Nowhere(x)
  BY DEF Inv, PlaceInv, Submit
<1>2. wq \in Seq(Items) /\ slow_io_pending_wq \in Seq(Slow)
  BY <1>1 DEF TypeOK, Items
<1>3. UNCHANGED <<job, loop_wq, done_wq, cpc, cancelling>>
  BY DEF Submit, Post
<1>4. CASE x \in Slow
  <2>1. slow_io_pending_wq' = Append(slow_io_pending_wq, x)
    BY <1>4 DEF Submit, Post
  <2>2. \A y : y \in ToSet(slow_io_pending_wq') <=> y \in ToSet(slow_io_pending_wq) \/ y = x
    BY <1>2, <1>4, <2>1, AppendFacts
  <2>3. wq' = wq \/ wq' = Append(wq, SlowMsg)
    BY <1>1, <1>4, PostWorkFacts DEF Submit
  <2>4. \A y \in Works : y \in ToSet(wq') <=> y \in ToSet(wq)
    <3>1. \A y : y \in ToSet(Append(wq, SlowMsg)) <=> y \in ToSet(wq) \/ y = SlowMsg
      BY <1>2, AppendFacts, ItemFacts
    <3> QED
      BY <2>3, <3>1, ItemFacts
  <2> QED
    BY <1>1, <1>3, <1>4, <2>2, <2>4 DEF Nowhere, OnlySlow, Stay, AtWq, AtSlow,
       AtWorker, AtLoop, AtDone, AtCancel
<1>5. CASE x \notin Slow
  <2>1. slow_io_pending_wq' = slow_io_pending_wq
    BY <1>5 DEF Submit, Post
  <2>2. wq' = Append(wq, x)
    BY <1>1, <1>5, PostWorkFacts DEF Submit
  <2>3. \A y : y \in ToSet(wq') <=> y \in ToSet(wq) \/ y = x
    BY <1>2, <2>2, AppendFacts, ItemFacts
  <2> QED
    BY <1>1, <1>3, <1>5, <2>1, <2>3 DEF Nowhere, OnlyWq, Stay, AtWq, AtSlow,
       AtWorker, AtLoop, AtDone, AtCancel
<1> QED
  BY <1>1, <1>4, <1>5

(***************************************************************************)
(* A worker that takes the head of wq moves that work from wq to itself.   *)
(***************************************************************************)
LEMMA TakeMove ==
  ASSUME Inv, NEW t \in Workers, WorkerTake(t),
         NEW x, x = Head(wq)
  PROVE  /\ x \in Works
         /\ OnlyWq(x) /\ OnlyWorker(x)'
         /\ \A w \in Works \ {x} : Stay(w)
<1>1. TypeOK /\ x \in Works /\ wq # <<>> /\ wq' = Tail(wq)
  BY DEF Inv, WorkerTake, MustWait
<1>2. wq \in Seq(Items) /\ Once(wq) /\ job \in [Workers -> Works \cup {None}]
  BY <1>1 DEF TypeOK, Items, Inv, OnceInv
<1>3. /\ \A y : y \in ToSet(wq) <=> y \in ToSet(wq') \/ y = x
      /\ x \notin ToSet(wq')
  BY <1>1, <1>2, TailFacts
<1>4. job[t] = None /\ job' = [job EXCEPT ![t] = x]
  BY DEF Inv, WorkerInv, WorkerOf, WorkerTake
<1>5. UNCHANGED <<slow_io_pending_wq, loop_wq, done_wq, cpc, cancelling>>
  BY DEF WorkerTake
<1>6. OnlyWq(x)
  BY <1>1, <1>3 DEF Inv, PlaceInv, AtWq, OnlyWq, OnlySlow, OnlyWorker, OnlyLoop,
     OnlyDone, OnlyCancel, Nowhere
<1>7. \A w \in Works : AtWorker(w)' <=> AtWorker(w) \/ w = x
  BY <1>1, <1>2, <1>4 DEF AtWorker
<1>8. OnlyWorker(x)'
  BY <1>1, <1>3, <1>5, <1>6, <1>7 DEF OnlyWq, OnlyWorker, AtWq, AtSlow, AtLoop,
     AtDone, AtCancel
<1>9. \A w \in Works \ {x} : Stay(w)
  BY <1>3, <1>5, <1>7 DEF Stay, AtWq, AtSlow, AtLoop, AtDone, AtCancel
<1> QED
  BY <1>1, <1>6, <1>8, <1>9

(***************************************************************************)
(* A worker that answers the slow message moves the head of the slow queue *)
(* to itself.                                                              *)
(***************************************************************************)
LEMMA TakeSlowMove ==
  ASSUME Inv, NEW t \in Workers, WorkerTakeSlow(t),
         NEW x, x = Head(slow_io_pending_wq)
  PROVE  /\ x \in Slow
         /\ OnlySlow(x)
         /\ OnlyWorker(x)'
         /\ \A w \in Works \ {x} : Stay(w)
<1>1. /\ TypeOK /\ slow_io_pending_wq # <<>> /\ wq # <<>> /\ Head(wq) = SlowMsg
      /\ slow_io_pending_wq' = Tail(slow_io_pending_wq)
      /\ wq' = Tail(wq) \/ wq' = Append(Tail(wq), SlowMsg)
  BY DEF Inv, WorkerTakeSlow, MustWait
<1>2. /\ wq \in Seq(Items) /\ job \in [Workers -> Works \cup {None}]
      /\ slow_io_pending_wq \in Seq(Slow) /\ Once(slow_io_pending_wq)
  BY <1>1 DEF TypeOK, Items, Inv, OnceInv
<1>3. /\ x \in Slow
      /\ \A y : y \in ToSet(slow_io_pending_wq)
                  <=> y \in ToSet(slow_io_pending_wq') \/ y = x
      /\ x \notin ToSet(slow_io_pending_wq')
  BY <1>1, <1>2, TailFacts
<1>4. \A y \in Works : y \in ToSet(wq') <=> y \in ToSet(wq)
  <2>1. /\ Tail(wq) \in Seq(Items)
        /\ \A y \in Works : y \in ToSet(wq) <=> y \in ToSet(Tail(wq))
    BY <1>1, <1>2, TailFacts, ItemFacts
  <2>2. \A y : y \in ToSet(Append(Tail(wq), SlowMsg))
                 <=> y \in ToSet(Tail(wq)) \/ y = SlowMsg
    <3>1. Tail(wq) \in Seq(Items) /\ SlowMsg \in Items
      BY <2>1, ItemFacts
    <3> QED
      BY <3>1, AppendFacts
  <2> QED
    BY <1>1, <2>1, <2>2, ItemFacts
<1>5. job[t] = None /\ job' = [job EXCEPT ![t] = x]
  BY DEF Inv, WorkerInv, WorkerOf, WorkerTakeSlow
<1>6. UNCHANGED <<loop_wq, done_wq, cpc, cancelling>>
  BY DEF WorkerTakeSlow
<1>7. OnlySlow(x)
  BY <1>3 DEF Inv, PlaceInv, AtSlow, OnlyWq, OnlySlow, OnlyWorker, OnlyLoop,
     OnlyDone, OnlyCancel, Nowhere
<1>8. \A w \in Works : AtWorker(w)' <=> AtWorker(w) \/ w = x
  BY <1>2, <1>3, <1>5 DEF AtWorker
<1>9. OnlyWorker(x)'
  BY <1>3, <1>4, <1>6, <1>7, <1>8 DEF OnlySlow, OnlyWorker, AtWq, AtSlow, AtLoop,
     AtDone, AtCancel
<1>10. \A w \in Works \ {x} : Stay(w)
  BY <1>3, <1>4, <1>6, <1>8 DEF Stay, AtWq, AtSlow, AtLoop, AtDone, AtCancel
<1> QED
  BY <1>3, <1>7, <1>9, <1>10

(***************************************************************************)
(* A worker that reports moves its work to the queue of the work's loop.   *)
(***************************************************************************)
LEMMA ReportMove ==
  ASSUME Inv, NEW t \in Workers, WorkerReport(t),
         NEW x, x = job[t]
  PROVE  /\ x \in Works
         /\ OnlyWorker(x) /\ OnlyLoop(x)'
         /\ \A w \in Works \ {x} : Stay(w)
<1>1. TypeOK /\ x \in Works
  BY DEF Inv, WorkerReport, WorkerInv, WorkerOf, TypeOK
<1>2. OnlyWorker(x)
  BY <1>1 DEF Inv, PlaceInv, AtWorker, OnlyWq, OnlySlow, OnlyWorker, OnlyLoop,
     OnlyDone, OnlyCancel, Nowhere
<1>3. /\ LoopOf[x] \in Loops /\ loop_wq \in [Loops -> Seq(Works)]
      /\ loop_wq' = [loop_wq EXCEPT ![LoopOf[x]] = Append(@, x)]
  BY <1>1 DEF TypeOK, WorkerReport
<1>4. \A w \in Works : AtLoop(w)' <=> AtLoop(w) \/ w = x
  <2>1. \A y : y \in ToSet(Append(loop_wq[LoopOf[x]], x))
                 <=> y \in ToSet(loop_wq[LoopOf[x]]) \/ y = x
    BY <1>1, <1>3, AppendFacts
  <2> QED
    BY <1>1, <1>3, <2>1 DEF AtLoop
<1>5. \A w \in Works : AtWorker(w)' <=> AtWorker(w) /\ w # x
  <2>1. job' = [job EXCEPT ![t] = None] /\ job \in [Workers -> Works \cup {None}]
    BY <1>1 DEF WorkerReport, TypeOK
  <2>2. \A u, v \in Workers : job[u] # None /\ job[u] = job[v] => u = v
    BY DEF Inv, OnceInv
  <2> QED
    BY <1>1, <2>1, <2>2 DEF AtWorker
<1>6. UNCHANGED <<wq, slow_io_pending_wq, done_wq, cpc, cancelling>>
  BY DEF WorkerReport
<1>7. OnlyLoop(x)'
  BY <1>1, <1>2, <1>4, <1>5, <1>6 DEF OnlyWorker, OnlyLoop, AtWq, AtSlow, AtDone,
     AtCancel
<1>8. \A w \in Works \ {x} : Stay(w)
  BY <1>4, <1>5, <1>6 DEF Stay, AtWq, AtSlow, AtDone, AtCancel
<1> QED
  BY <1>1, <1>2, <1>7, <1>8

\* The steps of uv__work_cancel that change no queue.
LEMMA CancelStay ==
  ASSUME Inv, NEW l \in Loops,
         \/ \E w \in Works : CancelLock(l, w)
         \/ CancelLockLoop(l) \/ CancelBusy(l) \/ CancelMark(l)
  PROVE  \A w \in Works : Stay(w)
<1>1. /\ UNCHANGED <<wq, slow_io_pending_wq, job, loop_wq, done_wq>>
      /\ \/ cpc[l] = "none" /\ cpc' = [cpc EXCEPT ![l] = "locking"]
            /\ \E w \in Works : cancelling' = [cancelling EXCEPT ![l] = w]
         \/ cpc[l] = "locking" /\ cpc' = [cpc EXCEPT ![l] = "locked"]
            /\ cancelling' = cancelling
         \/ cpc[l] = "locked" /\ cpc' = [cpc EXCEPT ![l] = "none"]
            /\ cancelling' = [cancelling EXCEPT ![l] = None]
         \/ cpc[l] = "unlinked" /\ cpc' = [cpc EXCEPT ![l] = "marked"]
            /\ cancelling' = cancelling
  BY DEF CancelLock, InUserCode, CancelLockLoop, CancelBusy, CancelMark
<1>2. cpc \in [Loops -> {"none", "locking", "locked", "unlinked", "marked"}]
      /\ cancelling \in [Loops -> Works \cup {None}]
  BY DEF Inv, TypeOK
<1>3. \A w \in Works : AtCancel(w)' <=> AtCancel(w)
  BY <1>1, <1>2 DEF AtCancel
<1> QED
  BY <1>1, <1>3 DEF Stay, AtWq, AtSlow, AtWorker, AtLoop, AtDone

(***************************************************************************)
(* uv__work_cancel takes a work from whatever queue it is linked in, the   *)
(* one of the pool or the one of its loop.                                 *)
(***************************************************************************)
LEMMA UnlinkMove ==
  ASSUME Inv, NEW l \in Loops, CancelUnlink(l),
         NEW x, x = cancelling[l]
  PROVE  /\ x \in Works /\ LoopOf[x] = l
         /\ \/ OnlyWq(x) \/ OnlySlow(x)
            \/ OnlyLoop(x) \/ OnlyDone(x)
         /\ OnlyCancel(x)'
         /\ \A w \in Works \ {x} : Stay(w)
<1>1. TypeOK /\ x \in Works /\ LoopOf[x] = l /\ req[x] = "pending"
  BY DEF Inv, CancelUnlink, LoopInv, HomeInv, TypeOK
<1>2. \/ OnlyWq(x) \/ OnlySlow(x) \/ OnlyLoop(x) \/ OnlyDone(x)
  <2>1. ~OnlyWorker(x)
    BY <1>1 DEF CancelUnlink, Cancellable, Inv, StateInv, StateOf, OnlyWorker
  <2>2. ~OnlyCancel(x)
    BY <1>1 DEF CancelUnlink, OnlyCancel, AtCancel
  <2> QED
    BY <1>1, <2>1, <2>2 DEF Inv, PlaceInv
<1>3. /\ wq \in Seq(Items) /\ slow_io_pending_wq \in Seq(Slow)
      /\ loop_wq \in [Loops -> Seq(Works)] /\ done_wq \in [Loops -> Seq(Works)]
      /\ cpc \in [Loops -> {"none", "locking", "locked", "unlinked", "marked"}]
      /\ Once(wq) /\ Once(slow_io_pending_wq) /\ Once(loop_wq[l]) /\ Once(done_wq[l])
  BY <1>1 DEF TypeOK, Items, Inv, OnceInv
<1>4. /\ wq' = Without(wq, x) /\ slow_io_pending_wq' = Without(slow_io_pending_wq, x)
      /\ loop_wq' = [loop_wq EXCEPT ![l] = Without(@, x)]
      /\ done_wq' = [done_wq EXCEPT ![l] = Without(@, x)]
      /\ cpc[l] = "locked" /\ cpc' = [cpc EXCEPT ![l] = "unlinked"]
      /\ UNCHANGED <<job, cancelling>>
  BY DEF CancelUnlink
<1>5. \A w \in Works : AtWq(w)' <=> AtWq(w) /\ w # x
  BY <1>1, <1>3, <1>4, WithoutFacts DEF AtWq
<1>6. \A w \in Works : AtSlow(w)' <=> AtSlow(w) /\ w # x
  BY <1>1, <1>3, <1>4, WithoutFacts DEF AtSlow
<1>7. \A w \in Works : AtLoop(w)' <=> AtLoop(w) /\ w # x
  <2>1. \A y : y \in ToSet(Without(loop_wq[l], x)) <=> y \in ToSet(loop_wq[l]) /\ y # x
    <3>1. loop_wq[l] \in Seq(Works) /\ Once(loop_wq[l])
      BY <1>3
    <3> QED
      BY <1>1, <3>1, WithoutFacts
  <2> QED
    BY <1>1, <1>3, <1>4, <2>1 DEF AtLoop
<1>8. \A w \in Works : AtDone(w)' <=> AtDone(w) /\ w # x
  <2>1. \A y : y \in ToSet(Without(done_wq[l], x)) <=> y \in ToSet(done_wq[l]) /\ y # x
    <3>1. done_wq[l] \in Seq(Works) /\ Once(done_wq[l])
      BY <1>3
    <3> QED
      BY <1>1, <3>1, WithoutFacts
  <2> QED
    BY <1>1, <1>3, <1>4, <2>1 DEF AtDone
<1>9. \A w \in Works : AtCancel(w)' <=> AtCancel(w) \/ w = x
  BY <1>1, <1>3, <1>4 DEF AtCancel
<1>10. \A w \in Works : AtWorker(w)' <=> AtWorker(w)
  BY <1>4 DEF AtWorker
<1>11. OnlyCancel(x)'
  BY <1>1, <1>2, <1>5, <1>6, <1>7, <1>8, <1>9, <1>10 DEF OnlyCancel, OnlyWq,
     OnlySlow, OnlyLoop, OnlyDone
<1>12. \A w \in Works \ {x} : Stay(w)
  BY <1>5, <1>6, <1>7, <1>8, <1>9, <1>10 DEF Stay
<1> QED
  BY <1>1, <1>2, <1>11, <1>12

(***************************************************************************)
(* A successful uv_cancel moves the work to the queue of its loop.         *)
(***************************************************************************)
LEMMA CancelReportMove ==
  ASSUME Inv, NEW l \in Loops, CancelReport(l),
         NEW x, x = cancelling[l]
  PROVE  /\ x \in Works /\ LoopOf[x] = l
         /\ OnlyCancel(x) /\ OnlyLoop(x)'
         /\ \A w \in Works \ {x} : Stay(w)
<1>1. TypeOK /\ x \in Works /\ LoopOf[x] = l
  <2>1. cpc[l] # "none"
    BY DEF CancelReport
  <2>2. x \in Works
    BY <2>1 DEF Inv, LoopInv, TypeOK
  <2> QED
    BY <2>2 DEF Inv, HomeInv
<1>2. OnlyCancel(x)
  <2>1. AtCancel(x)
    BY <1>1 DEF CancelReport, AtCancel
  <2> QED
    BY <1>1, <2>1 DEF Inv, PlaceInv, OnlyWq, OnlySlow, OnlyWorker, OnlyLoop,
       OnlyDone, OnlyCancel, Nowhere
<1>3. /\ loop_wq \in [Loops -> Seq(Works)]
      /\ cpc \in [Loops -> {"none", "locking", "locked", "unlinked", "marked"}]
      /\ loop_wq' = [loop_wq EXCEPT ![l] = Append(@, x)]
      /\ cpc' = [cpc EXCEPT ![l] = "none"]
      /\ cancelling' = [cancelling EXCEPT ![l] = None]
      /\ UNCHANGED <<wq, slow_io_pending_wq, job, done_wq>>
  BY <1>1 DEF TypeOK, CancelReport
<1>4. \A w \in Works : AtLoop(w)' <=> AtLoop(w) \/ w = x
  <2>1. \A y : y \in ToSet(Append(loop_wq[l], x)) <=> y \in ToSet(loop_wq[l]) \/ y = x
    BY <1>1, <1>3, AppendFacts
  <2> QED
    BY <1>1, <1>3, <2>1 DEF AtLoop
<1>5. \A w \in Works : AtCancel(w)' <=> AtCancel(w) /\ w # x
  BY <1>1, <1>3 DEF AtCancel, TypeOK
<1>6. OnlyLoop(x)'
  BY <1>1, <1>2, <1>3, <1>4, <1>5 DEF OnlyCancel, OnlyLoop, AtWq, AtSlow,
     AtWorker, AtDone
<1>7. \A w \in Works \ {x} : Stay(w)
  BY <1>3, <1>4, <1>5 DEF Stay, AtWq, AtSlow, AtWorker, AtDone
<1> QED
  BY <1>1, <1>2, <1>6, <1>7

(***************************************************************************)
(* uv__work_done moves all of loop->wq to its local list, in one step      *)
(* under wq_mutex.                                                         *)
(***************************************************************************)
LEMMA DoneMove ==
  ASSUME Inv, NEW l \in Loops, WorkDoneMove(l)
  PROVE  \A w \in Works :
           IF LoopOf[w] = l /\ AtLoop(w)
           THEN OnlyLoop(w) /\ OnlyDone(w)'
           ELSE Stay(w)
<1>1. /\ loop_wq \in [Loops -> Seq(Works)] /\ done_wq \in [Loops -> Seq(Works)]
      /\ done_wq[l] = <<>>
      /\ done_wq' = [done_wq EXCEPT ![l] = loop_wq[l]]
      /\ loop_wq' = [loop_wq EXCEPT ![l] = <<>>]
      /\ UNCHANGED <<wq, slow_io_pending_wq, job, cpc, cancelling>>
  BY DEF Inv, TypeOK, LoopInv, WorkDoneMove
<1>2. ASSUME NEW w \in Works, LoopOf[w] = l
      PROVE  ~AtLoop(w)' /\ ~AtDone(w) /\ (AtDone(w)' <=> AtLoop(w))
  BY <1>1, <1>2, EmptyFacts DEF AtLoop, AtDone
<1>3. ASSUME NEW w \in Works, LoopOf[w] # l
      PROVE  (AtLoop(w)' <=> AtLoop(w)) /\ (AtDone(w)' <=> AtDone(w))
  BY <1>1, <1>3 DEF AtLoop, AtDone
<1>4. \A w \in Works : AtLoop(w) => OnlyLoop(w)
  BY DEF Inv, PlaceInv, OnlyWq, OnlySlow, OnlyWorker, OnlyLoop,
     OnlyDone, OnlyCancel, Nowhere
<1>5. \A w \in Works : /\ AtWq(w)' <=> AtWq(w)
                       /\ AtSlow(w)' <=> AtSlow(w)
                       /\ AtWorker(w)' <=> AtWorker(w)
                       /\ AtCancel(w)' <=> AtCancel(w)
  BY <1>1 DEF AtWq, AtSlow, AtWorker, AtCancel
<1> QED
  BY <1>2, <1>3, <1>4, <1>5 DEF Stay, OnlyLoop, OnlyDone

(***************************************************************************)
(* uv__work_done calls the done callback of the head of its list, which    *)
(* gives the work back to the user.                                        *)
(***************************************************************************)
LEMMA NextMove ==
  ASSUME Inv, NEW l \in Loops, WorkDoneNext(l),
         NEW x, x = Head(done_wq[l])
  PROVE  /\ x \in Works /\ LoopOf[x] = l
         /\ OnlyDone(x) /\ Nowhere(x)'
         /\ \A w \in Works \ {x} : Stay(w)
<1>1. /\ done_wq \in [Loops -> Seq(Works)] /\ done_wq[l] # <<>> /\ Once(done_wq[l])
      /\ done_wq' = [done_wq EXCEPT ![l] = Tail(@)]
      /\ UNCHANGED <<wq, slow_io_pending_wq, job, loop_wq, cpc, cancelling>>
  BY DEF Inv, TypeOK, OnceInv, WorkDoneNext
<1>2. /\ x \in Works
      /\ \A y : y \in ToSet(done_wq[l]) <=> y \in ToSet(Tail(done_wq[l])) \/ y = x
      /\ x \notin ToSet(Tail(done_wq[l]))
  BY <1>1, TailFacts
<1>3. LoopOf[x] = l
  BY <1>2 DEF Inv, HomeInv
<1>4. \A w \in Works : AtDone(w)' <=> AtDone(w) /\ w # x
  BY <1>1, <1>2, <1>3 DEF AtDone
<1>5. OnlyDone(x)
  <2>1. AtDone(x)
    BY <1>2, <1>3 DEF AtDone
  <2> QED
    BY <1>2, <2>1 DEF Inv, PlaceInv, OnlyWq, OnlySlow, OnlyWorker, OnlyLoop,
       OnlyDone, OnlyCancel, Nowhere
<1>6. Nowhere(x)'
  BY <1>1, <1>2, <1>4, <1>5 DEF OnlyDone, Nowhere, AtWq, AtSlow, AtWorker,
     AtLoop, AtCancel
<1>7. \A w \in Works \ {x} : Stay(w)
  BY <1>1, <1>4 DEF Stay, AtWq, AtSlow, AtWorker, AtLoop, AtCancel
<1> QED
  BY <1>2, <1>3, <1>5, <1>6, <1>7

-----------------------------------------------------------------------------
(***************************************************************************)
(* The steps that move a work, that write its function pointer in          *)
(* uv__work_cancel, and that execute it.                                   *)
(***************************************************************************)
Moving ==
  \/ \E l \in Loops, w \in Works : Submit(l, w)
  \/ \E t \in Workers : WorkerTake(t) \/ WorkerTakeSlow(t) \/ WorkerReport(t)
  \/ \E l \in Loops : \/ CancelUnlink(l) \/ CancelReport(l)
                      \/ WorkDoneMove(l) \/ WorkDoneNext(l)

Marking == \E l \in Loops : CancelMark(l)

Executing == \E t \in Workers : WorkerRun(t)

(***************************************************************************)
(* The steps that move the slow message or add the exit message leave the  *)
(* works of wq where they are.                                             *)
(***************************************************************************)
LEMMA MessageSteps ==
  ASSUME Inv, (\E t \in Workers : WorkerDeferSlow(t) \/ WorkerDropSlow(t)) \/ CleanupPost
  PROVE  /\ \A y \in Works : y \in ToSet(wq') <=> y \in ToSet(wq)
         /\ Once(wq')
<1>1. TypeOK /\ wq \in Seq(Items) /\ Once(wq)
  BY DEF Inv, OnceInv, TypeOK, Items
<1>2. ASSUME NEW t \in Workers, WorkerDeferSlow(t) \/ WorkerDropSlow(t)
      PROVE  /\ \A y \in Works : y \in ToSet(wq') <=> y \in ToSet(wq)
             /\ Once(wq')
  <2>1. wq # <<>> /\ Head(wq) = SlowMsg
    BY <1>2 DEF WorkerDeferSlow, WorkerDropSlow, MustWait
  <2>2. Tail(wq) \in Seq(Items) /\ Once(Tail(wq))
    BY <1>1, <2>1, TailFacts
  <2>3. \A y \in Works : y \in ToSet(Tail(wq)) <=> y \in ToSet(wq)
    BY <1>1, <2>1, TailFacts, ItemFacts
  <2>4. /\ \A y : y \in ToSet(Append(Tail(wq), SlowMsg))
                    <=> y \in ToSet(Tail(wq)) \/ y = SlowMsg
        /\ Once(Append(Tail(wq), SlowMsg))
    <3>1. SlowMsg \in Items /\ SlowMsg \notin Works
      BY ItemFacts
    <3> QED
      BY <2>2, <3>1, AppendFacts
  <2>5. wq' = Tail(wq) \/ wq' = Append(Tail(wq), SlowMsg)
    BY <1>2 DEF WorkerDeferSlow, WorkerDropSlow
  <2> QED
    BY <2>2, <2>3, <2>4, <2>5, ItemFacts
<1>3. CASE CleanupPost
  <2>1. wq' = Append(wq, ExitMsg)
    BY <1>1, <1>3, PostExitFacts DEF CleanupPost
  <2>2. ExitMsg \in Items /\ ExitMsg \notin Works
    BY ItemFacts
  <2> QED
    BY <1>1, <2>1, <2>2, AppendFacts
<1> QED
  BY <1>2, <1>3

(***************************************************************************)
(* Every step that is not one of Moving leaves each work in its place;     *)
(* only CancelMark writes w->work then, and only WorkerRun runs a work.    *)
(***************************************************************************)
LEMMA StillSteps ==
  ASSUME Inv, Next, ~Moving
  PROVE  /\ \A w \in Works : Stay(w)
         /\ UNCHANGED <<slow_io_pending_wq, job, loop_wq, done_wq, req, linked>>
         /\ Once(wq')
         /\ ~Marking => /\ UNCHANGED work
                        /\ \A l \in Loops : cpc'[l] = "marked" => cpc[l] = "marked"
         /\ ~Executing => UNCHANGED fate
<1> DEFINE Goal == /\ \A w \in Works : Stay(w)
                   /\ UNCHANGED <<slow_io_pending_wq, job, loop_wq, done_wq,
                                   req, linked>>
                   /\ Once(wq')
                   /\ ~Marking => /\ UNCHANGED work
                                  /\ \A l \in Loops : cpc'[l] = "marked" => cpc[l] = "marked"
                   /\ ~Executing => UNCHANGED fate
<1>0. Once(wq)
  BY DEF Inv, OnceInv
<1>1. ASSUME NEW t \in Workers,
             \/ WorkerLock(t) \/ WorkerWoken(t) \/ WorkerWait(t) \/ WorkerExit(t)
             \/ WorkerLockLoop(t) \/ SpuriousWakeup(t)
      PROVE  Goal
  BY <1>0, <1>1, NoMove DEF WorkerLock, WorkerWoken, WorkerWait, WorkerExit,
     WorkerLockLoop, SpuriousWakeup, places
<1>2. ASSUME NEW t \in Workers, WorkerRun(t)
      PROVE  Goal
  BY <1>0, <1>2, NoMove DEF WorkerRun, places, Executing
<1>3. ASSUME \/ \E t \in Workers : WorkerDeferSlow(t) \/ WorkerDropSlow(t)
             \/ CleanupPost
      PROVE  Goal
  <2>1. UNCHANGED <<slow_io_pending_wq, job, loop_wq, done_wq, cpc, cancelling,
                    workvars>>
    BY <1>3 DEF WorkerDeferSlow, WorkerDropSlow, CleanupPost, Post
  <2>2. \A w \in Works : Stay(w)
    BY <1>3, <2>1, MessageSteps, MessageMove
  <2> QED
    BY <1>3, <2>1, <2>2, MessageSteps
<1>4. ASSUME NEW l \in Loops,
             WorkDoneBegin(l) \/ CallbackReturn(l) \/ WorkDoneEnd(l)
      PROVE  Goal
  BY <1>0, <1>4, NoMove DEF WorkDoneBegin, CallbackReturn, WorkDoneEnd, places
<1>5. ASSUME NEW l \in Loops,
             \/ \E w \in Works : CancelLock(l, w)
             \/ CancelLockLoop(l) \/ CancelBusy(l) \/ CancelMark(l)
      PROVE  Goal
  <2>1. \A w \in Works : Stay(w)
    BY <1>5, CancelStay
  <2>2. /\ UNCHANGED <<slow_io_pending_wq, wq, job, loop_wq, done_wq, req,
                        linked, fate>>
        /\ ~Marking => UNCHANGED work
    BY <1>5 DEF CancelLock, CancelLockLoop, CancelBusy, CancelMark, Marking
  <2>3. cpc \in [Loops -> {"none", "locking", "locked", "unlinked", "marked"}]
    BY DEF Inv, TypeOK
  <2>4. ~Marking => \A k \in Loops : cpc'[k] = "marked" => cpc[k] = "marked"
    BY <1>5, <2>3 DEF CancelLock, CancelLockLoop, CancelBusy, Marking
  <2> QED
    BY <1>0, <2>1, <2>2, <2>4
<1>6. ASSUME CleanupJoin
      PROVE  Goal
  BY <1>0, <1>6, NoMove DEF CleanupJoin, places
<1> HIDE DEF Goal
<1>7. ASSUME NEW t \in Workers, WorkerStep(t) \/ SpuriousWakeup(t)
      PROVE  Goal
  <2>1. \/ WorkerLock(t) \/ WorkerWoken(t) \/ WorkerWait(t) \/ WorkerExit(t)
        \/ WorkerLockLoop(t) \/ SpuriousWakeup(t)
        \/ WorkerRun(t) \/ WorkerDeferSlow(t) \/ WorkerDropSlow(t)
    BY <1>7 DEF Moving, WorkerStep, WorkerLocked
  <2> QED
    BY <1>1, <1>2, <1>3, <2>1
<1>8. ASSUME NEW l \in Loops, NEW w \in Works, Submit(l, w) \/ CancelLock(l, w)
      PROVE  Goal
  <2>1. CancelLock(l, w)
    BY <1>8 DEF Moving
  <2> QED
    BY <1>5, <2>1
<1>9. ASSUME NEW l \in Loops, CancelStep(l) \/ WorkDoneBegin(l) \/ WorkDoneStep(l)
      PROVE  Goal
  <2>1. \/ WorkDoneBegin(l) \/ CallbackReturn(l) \/ WorkDoneEnd(l)
        \/ CancelLockLoop(l) \/ CancelBusy(l) \/ CancelMark(l)
    BY <1>9 DEF Moving, CancelStep, WorkDoneStep
  <2> QED
    BY <1>4, <1>5, <2>1
<1>10. Goal
  BY <1>3, <1>6, <1>7, <1>8, <1>9 DEF Next
<1> QED
  BY <1>10 DEF Goal

(***************************************************************************)
(* A pending work stays in one place, and a work of the user's in none.    *)
(***************************************************************************)
LEMMA PlaceNext ==
  ASSUME Inv, Next
  PROVE  PlaceInv'
<1>0. PlaceInv /\ TypeOK
  BY DEF Inv
<1> USE DEF PlaceInv, OnlyWq, OnlySlow, OnlyWorker, OnlyLoop, OnlyDone,
            OnlyCancel, Nowhere
<1>1. ASSUME UNCHANGED req, \A w \in Works : Stay(w)
      PROVE  PlaceInv'
  BY <1>0, <1>1 DEF Stay
<1>2. ASSUME UNCHANGED req, NEW x \in Works, \A w \in Works \ {x} : Stay(w),
             req[x] = "pending", OnlyWorker(x)' \/ OnlyLoop(x)' \/ OnlyCancel(x)'
      PROVE  PlaceInv'
  BY <1>0, <1>2 DEF Stay
<1>3. ASSUME NEW l \in Loops, NEW x \in Works, Submit(l, x)
      PROVE  PlaceInv'
  <2>1. req' = [req EXCEPT ![x] = "pending"] /\ req \in [Works -> {"free", "pending"}]
    BY <1>0, <1>3 DEF Submit, TypeOK
  <2>2. OnlySlow(x)' \/ OnlyWq(x)'
    BY <1>3, SubmitMove
  <2>3. \A w \in Works \ {x} : Stay(w)
    BY <1>3, SubmitMove
  <2> QED
    BY <1>0, <2>1, <2>2, <2>3 DEF Stay
<1>4. ASSUME NEW t \in Workers, WorkerTake(t)
      PROVE  PlaceInv'
  <2>1. PICK x : x = Head(wq)
    OBVIOUS
  <2>2. UNCHANGED req
    BY <1>4 DEF WorkerTake
  <2> QED
    BY <1>0, <1>2, <1>4, <2>1, <2>2, TakeMove
<1>5. ASSUME NEW t \in Workers, WorkerTakeSlow(t)
      PROVE  PlaceInv'
  <2>1. PICK x : x = Head(slow_io_pending_wq)
    OBVIOUS
  <2>2. UNCHANGED req
    BY <1>5 DEF WorkerTakeSlow
  <2> QED
    BY <1>0, <1>2, <1>5, <2>1, <2>2, TakeSlowMove
<1>6. ASSUME NEW t \in Workers, WorkerReport(t)
      PROVE  PlaceInv'
  <2>1. PICK x : x = job[t]
    OBVIOUS
  <2>2. UNCHANGED req
    BY <1>6 DEF WorkerReport
  <2> QED
    BY <1>0, <1>2, <1>6, <2>1, <2>2, ReportMove
<1>7. ASSUME NEW l \in Loops, CancelUnlink(l)
      PROVE  PlaceInv'
  <2>1. PICK x : x = cancelling[l]
    OBVIOUS
  <2>2. UNCHANGED req
    BY <1>7 DEF CancelUnlink
  <2> QED
    BY <1>0, <1>2, <1>7, <2>1, <2>2, UnlinkMove
<1>8. ASSUME NEW l \in Loops, CancelReport(l)
      PROVE  PlaceInv'
  <2>1. PICK x : x = cancelling[l]
    OBVIOUS
  <2>2. UNCHANGED req
    BY <1>8 DEF CancelReport
  <2> QED
    BY <1>0, <1>2, <1>8, <2>1, <2>2, CancelReportMove
<1>9. ASSUME NEW l \in Loops, WorkDoneMove(l)
      PROVE  PlaceInv'
  <2>1. UNCHANGED req
    BY <1>9 DEF WorkDoneMove
  <2> QED
    BY <1>0, <1>9, <2>1, DoneMove DEF Stay
<1>10. ASSUME NEW l \in Loops, WorkDoneNext(l)
      PROVE  PlaceInv'
  <2>1. PICK x : x = Head(done_wq[l])
    OBVIOUS
  <2>2. req' = [req EXCEPT ![x] = "free"] /\ req \in [Works -> {"free", "pending"}]
    BY <1>0, <1>10, <2>1 DEF WorkDoneNext, TypeOK
  <2>3. x \in Works /\ Nowhere(x)' /\ \A w \in Works \ {x} : Stay(w)
    BY <1>10, <2>1, NextMove
  <2> QED
    BY <1>0, <2>2, <2>3 DEF Stay
<1>11. CASE ~Moving
  BY <1>1, <1>11, StillSteps
<1> QED
  BY <1>3, <1>4, <1>5, <1>6, <1>7, <1>8, <1>9, <1>10, <1>11 DEF Moving

(***************************************************************************)
(* No work is in a queue, or with the workers, twice.                      *)
(***************************************************************************)
LEMMA OnceNext ==
  ASSUME Inv, Next
  PROVE  OnceInv'
<1>0. TypeOK /\ OnceInv
  BY DEF Inv
<1>01. /\ wq \in Seq(Items) /\ slow_io_pending_wq \in Seq(Slow)
       /\ loop_wq \in [Loops -> Seq(Works)] /\ done_wq \in [Loops -> Seq(Works)]
       /\ job \in [Workers -> Works \cup {None}]
  BY <1>0 DEF TypeOK, Items
<1>1. ASSUME ~Moving
      PROVE  OnceInv'
  BY <1>0, <1>1, StillSteps DEF OnceInv
<1>2. ASSUME NEW l \in Loops, NEW x \in Works, Submit(l, x)
      PROVE  OnceInv'
  <2>1. x \notin ToSet(wq) /\ x \notin ToSet(slow_io_pending_wq)
    BY <1>2, SubmitMove DEF Nowhere, AtWq, AtSlow
  <2>2. Once(slow_io_pending_wq')
    <3>1. CASE x \in Slow
      BY <1>0, <1>01, <1>2, <2>1, <3>1, AppendFacts DEF Submit, Post, OnceInv
    <3>2. CASE x \notin Slow
      BY <1>0, <1>2, <3>2 DEF Submit, Post, OnceInv
    <3> QED
      BY <3>1, <3>2
  <2>3. Once(wq')
    <3>1. Once(Append(wq, SlowMsg)) /\ Once(Append(wq, x))
      <4>1. SlowMsg \in Items /\ SlowMsg \notin Works /\ x \in Items
        BY ItemFacts
      <4> QED
        BY <1>0, <1>01, <2>1, <4>1, AppendFacts DEF OnceInv
    <3>2. wq' = wq \/ wq' = Append(wq, SlowMsg) \/ wq' = Append(wq, x)
      BY <1>0, <1>2, PostWorkFacts DEF Submit
    <3> QED
      BY <1>0, <3>1, <3>2 DEF OnceInv
  <2>4. UNCHANGED <<loop_wq, done_wq, job>>
    BY <1>2 DEF Submit, Post
  <2> QED
    BY <1>0, <2>2, <2>3, <2>4 DEF OnceInv
<1>3. ASSUME NEW t \in Workers, WorkerTake(t)
      PROVE  OnceInv'
  <2>1. PICK x : x = Head(wq)
    OBVIOUS
  <2>2. /\ wq # <<>> /\ wq' = Tail(wq) /\ job' = [job EXCEPT ![t] = x]
        /\ UNCHANGED <<slow_io_pending_wq, loop_wq, done_wq>>
    BY <1>3, <2>1 DEF WorkerTake, MustWait
  <2>3. Once(wq')
    BY <1>0, <1>01, <2>2, TailFacts DEF OnceInv
  <2>4. \A u \in Workers : job[u] # x
    BY <1>3, <2>1, TakeMove DEF OnlyWq, AtWorker
  <2> QED
    BY <1>0, <1>01, <2>2, <2>3, <2>4 DEF OnceInv
<1>4. ASSUME NEW t \in Workers, WorkerTakeSlow(t)
      PROVE  OnceInv'
  <2>1. PICK x : x = Head(slow_io_pending_wq)
    OBVIOUS
  <2>2. /\ wq # <<>> /\ slow_io_pending_wq # <<>>
        /\ wq' = Tail(wq) \/ wq' = Append(Tail(wq), SlowMsg)
        /\ slow_io_pending_wq' = Tail(slow_io_pending_wq)
        /\ job' = [job EXCEPT ![t] = x]
        /\ UNCHANGED <<loop_wq, done_wq>>
    BY <1>4, <2>1 DEF WorkerTakeSlow, MustWait
  <2>3. Once(wq')
    <3>1. Tail(wq) \in Seq(Items) /\ Once(Tail(wq))
      BY <1>0, <1>01, <2>2, TailFacts DEF OnceInv
    <3>2. SlowMsg \in Items /\ SlowMsg \notin Works
      BY ItemFacts
    <3>3. Once(Append(Tail(wq), SlowMsg))
      BY <3>1, <3>2, AppendFacts
    <3> QED
      BY <2>2, <3>1, <3>3
  <2>4. Once(slow_io_pending_wq')
    BY <1>0, <1>01, <2>2, TailFacts DEF OnceInv
  <2>5. \A u \in Workers : job[u] # x
    BY <1>4, <2>1, TakeSlowMove DEF OnlySlow, AtWorker
  <2> QED
    BY <1>0, <1>01, <2>2, <2>3, <2>4, <2>5 DEF OnceInv
<1>5. ASSUME NEW t \in Workers, WorkerReport(t)
      PROVE  OnceInv'
  <2>1. PICK x : x = job[t]
    OBVIOUS
  <2>2. /\ x \in Works /\ LoopOf[x] \in Loops
        /\ loop_wq' = [loop_wq EXCEPT ![LoopOf[x]] = Append(@, x)]
        /\ job' = [job EXCEPT ![t] = None]
        /\ UNCHANGED <<wq, slow_io_pending_wq, done_wq>>
    BY <1>5, <2>1, ReportMove DEF WorkerReport
  <2>3. x \notin ToSet(loop_wq[LoopOf[x]])
    BY <1>5, <2>1, ReportMove DEF OnlyWorker, AtLoop
  <2>4. Once(Append(loop_wq[LoopOf[x]], x))
    <3>1. loop_wq[LoopOf[x]] \in Seq(Works) /\ Once(loop_wq[LoopOf[x]])
      BY <1>0, <1>01, <2>2 DEF OnceInv
    <3> QED
      BY <2>2, <2>3, <3>1, AppendFacts
  <2> QED
    BY <1>0, <1>01, <2>2, <2>4 DEF OnceInv
<1>6. ASSUME NEW l \in Loops, CancelUnlink(l)
      PROVE  OnceInv'
  <2>1. PICK x : x = cancelling[l]
    OBVIOUS
  <2>2. /\ x \in Works
        /\ wq' = Without(wq, x)
        /\ slow_io_pending_wq' = Without(slow_io_pending_wq, x)
        /\ loop_wq' = [loop_wq EXCEPT ![l] = Without(@, x)]
        /\ done_wq' = [done_wq EXCEPT ![l] = Without(@, x)]
        /\ job' = job
    BY <1>6, <2>1, UnlinkMove DEF CancelUnlink
  <2>3. Once(wq') /\ Once(slow_io_pending_wq')
    BY <1>0, <1>01, <2>2, WithoutFacts DEF OnceInv
  <2>4. Once(Without(loop_wq[l], x)) /\ Once(Without(done_wq[l], x))
    <3>1. /\ loop_wq[l] \in Seq(Works) /\ Once(loop_wq[l])
          /\ done_wq[l] \in Seq(Works) /\ Once(done_wq[l])
      BY <1>0, <1>01 DEF OnceInv
    <3> QED
      BY <2>2, <3>1, WithoutFacts
  <2> QED
    BY <1>0, <1>01, <2>2, <2>3, <2>4 DEF OnceInv
<1>7. ASSUME NEW l \in Loops, CancelReport(l)
      PROVE  OnceInv'
  <2>1. PICK x : x = cancelling[l]
    OBVIOUS
  <2>2. /\ x \in Works /\ LoopOf[x] = l
        /\ loop_wq' = [loop_wq EXCEPT ![l] = Append(@, x)]
        /\ UNCHANGED <<wq, slow_io_pending_wq, done_wq, job>>
    BY <1>7, <2>1, CancelReportMove DEF CancelReport
  <2>3. x \notin ToSet(loop_wq[l])
    BY <1>7, <2>1, <2>2, CancelReportMove DEF OnlyCancel, AtLoop
  <2>4. Once(Append(loop_wq[l], x))
    <3>1. loop_wq[l] \in Seq(Works) /\ Once(loop_wq[l])
      BY <1>0, <1>01 DEF OnceInv
    <3> QED
      BY <2>2, <2>3, <3>1, AppendFacts
  <2> QED
    BY <1>0, <1>01, <2>2, <2>4 DEF OnceInv
<1>8. ASSUME NEW l \in Loops, WorkDoneMove(l)
      PROVE  OnceInv'
  BY <1>0, <1>01, <1>8, EmptyFacts DEF WorkDoneMove, OnceInv
<1>9. ASSUME NEW l \in Loops, WorkDoneNext(l)
      PROVE  OnceInv'
  <2>1. Once(Tail(done_wq[l]))
    <3>1. done_wq[l] \in Seq(Works) /\ Once(done_wq[l]) /\ done_wq[l] # <<>>
      BY <1>0, <1>01, <1>9 DEF OnceInv, WorkDoneNext
    <3> QED
      BY <3>1, TailFacts
  <2> QED
    BY <1>0, <1>01, <1>9, <2>1 DEF WorkDoneNext, OnceInv
<1> QED
  BY <1>1, <1>2, <1>3, <1>4, <1>5, <1>6, <1>7, <1>8, <1>9 DEF Moving

(***************************************************************************)
(* A loop keeps to its own works.                                          *)
(***************************************************************************)
LEMMA HomeNext ==
  ASSUME Inv, Next
  PROVE  HomeInv'
<1>0. /\ HomeInv
      /\ loop_wq \in [Loops -> Seq(Works)] /\ done_wq \in [Loops -> Seq(Works)]
      /\ cancelling \in [Loops -> Works \cup {None}]
  BY DEF Inv, TypeOK
<1>1. ASSUME UNCHANGED <<loop_wq, done_wq, cancelling>>
      PROVE  HomeInv'
  BY <1>0, <1>1 DEF HomeInv
<1>2. ASSUME ~Moving
      PROVE  HomeInv'
  <2>1. UNCHANGED <<loop_wq, done_wq>>
    BY <1>2, StillSteps
  <2>2. ASSUME NEW l \in Loops,
               \/ \E w \in Works : CancelLock(l, w)
               \/ CancelLockLoop(l) \/ CancelBusy(l) \/ CancelMark(l)
        PROVE  \A k \in Loops : cancelling'[k] # None => LoopOf[cancelling'[k]] = k
    BY <1>0, <2>2, ZenonT(60) DEF CancelLock, CancelLockLoop, CancelBusy, CancelMark, HomeInv
  <2>3. \/ UNCHANGED cancelling
        \/ \E l \in Loops : \/ \E w \in Works : CancelLock(l, w)
                            \/ CancelLockLoop(l) \/ CancelBusy(l) \/ CancelMark(l)
    <3>1. ASSUME NEW t \in Workers, WorkerStep(t) \/ SpuriousWakeup(t)
          PROVE  UNCHANGED cancelling
      BY <3>1 DEF WorkerStep, WorkerLocked, WorkerLock, WorkerWoken, WorkerWait,
         WorkerExit, WorkerTake, WorkerDeferSlow, WorkerDropSlow, WorkerTakeSlow,
         WorkerRun, WorkerLockLoop, WorkerReport, SpuriousWakeup
    <3>2. ASSUME NEW l \in Loops, WorkDoneBegin(l) \/ CallbackReturn(l) \/ WorkDoneEnd(l)
          PROVE  UNCHANGED cancelling
      BY <3>2 DEF WorkDoneBegin, CallbackReturn, WorkDoneEnd
    <3>3. ASSUME CleanupPost \/ CleanupJoin
          PROVE  UNCHANGED cancelling
      BY <3>3 DEF CleanupPost, CleanupJoin
    <3> QED
      BY <1>2, <3>1, <3>2, <3>3 DEF Moving, Next, CancelStep, WorkDoneStep
  <2> QED
    BY <1>0, <2>1, <2>2, <2>3 DEF HomeInv
<1>3. ASSUME NEW l \in Loops, NEW x \in Works, Submit(l, x)
      PROVE  HomeInv'
  BY <1>1, <1>3 DEF Submit
<1>4. ASSUME NEW t \in Workers, WorkerTake(t) \/ WorkerTakeSlow(t)
      PROVE  HomeInv'
  BY <1>1, <1>4 DEF WorkerTake, WorkerTakeSlow
<1>5. ASSUME UNCHANGED done_wq, NEW l \in Loops, NEW x \in Works, LoopOf[x] = l,
             loop_wq' = [loop_wq EXCEPT ![l] = Append(@, x)],
             UNCHANGED cancelling \/ cancelling' = [cancelling EXCEPT ![l] = None]
      PROVE  HomeInv'
  <2>1. loop_wq[l] \in Seq(Works)
    BY <1>0
  <2>2. \A y : y \in ToSet(Append(loop_wq[l], x)) <=> y \in ToSet(loop_wq[l]) \/ y = x
    BY <2>1, AppendFacts
  <2> QED
    BY <1>0, <1>5, <2>2 DEF HomeInv
<1>6. ASSUME NEW t \in Workers, WorkerReport(t)
      PROVE  HomeInv'
  <2>1. PICK x : x = job[t]
    OBVIOUS
  <2>2. x \in Works
    BY <1>6, <2>1, ReportMove
  <2>3. /\ LoopOf[x] \in Loops /\ UNCHANGED <<done_wq, cancelling>>
        /\ loop_wq' = [loop_wq EXCEPT ![LoopOf[x]] = Append(@, x)]
    BY <1>6, <2>1, <2>2 DEF WorkerReport
  <2> QED
    BY <1>5, <2>2, <2>3
<1>7. ASSUME NEW l \in Loops, CancelReport(l)
      PROVE  HomeInv'
  <2>1. PICK x : x = cancelling[l]
    OBVIOUS
  <2>2. x \in Works /\ LoopOf[x] = l
    BY <1>7, <2>1, CancelReportMove
  <2>3. /\ UNCHANGED done_wq
        /\ loop_wq' = [loop_wq EXCEPT ![l] = Append(@, x)]
        /\ cancelling' = [cancelling EXCEPT ![l] = None]
    BY <1>7, <2>1 DEF CancelReport
  <2> QED
    BY <1>5, <2>2, <2>3
<1>8. ASSUME NEW l \in Loops, CancelUnlink(l)
      PROVE  HomeInv'
  <2>1. PICK x : x = cancelling[l]
    OBVIOUS
  <2>2. x \in Works /\ LoopOf[x] = l
    BY <1>8, <2>1, UnlinkMove
  <2>3. /\ loop_wq' = [loop_wq EXCEPT ![l] = Without(@, x)]
        /\ done_wq' = [done_wq EXCEPT ![l] = Without(@, x)]
        /\ UNCHANGED cancelling
    BY <1>8, <2>1 DEF CancelUnlink
  <2>4. /\ \A y : y # x => (y \in ToSet(Without(loop_wq[l], x)) <=> y \in ToSet(loop_wq[l]))
        /\ \A y : y # x => (y \in ToSet(Without(done_wq[l], x)) <=> y \in ToSet(done_wq[l]))
    <3>1. loop_wq[l] \in Seq(Works) /\ done_wq[l] \in Seq(Works)
      BY <1>0
    <3> QED
      BY <2>2, <3>1, WithoutFacts
  <2> QED
    BY <1>0, <2>2, <2>3, <2>4 DEF HomeInv
<1>9. ASSUME NEW l \in Loops, WorkDoneMove(l)
      PROVE  HomeInv'
  BY <1>0, <1>9, EmptyFacts DEF WorkDoneMove, HomeInv
<1>10. ASSUME NEW l \in Loops, WorkDoneNext(l)
      PROVE  HomeInv'
  <2>1. \A y : y \in ToSet(Tail(done_wq[l])) => y \in ToSet(done_wq[l])
    <3>1. done_wq[l] \in Seq(Works) /\ done_wq[l] # <<>>
      BY <1>0, <1>10 DEF WorkDoneNext
    <3> QED
      BY <3>1, TailFacts
  <2> QED
    BY <1>0, <1>10, <2>1 DEF WorkDoneNext, HomeInv
<1> QED
  BY <1>2, <1>3, <1>4, <1>6, <1>7, <1>8, <1>9, <1>10 DEF Moving

(***************************************************************************)
(* A work's function pointer, node and past go with its place.             *)
(***************************************************************************)
LEMMA StateNext ==
  ASSUME Inv, Next
  PROVE  StateInv'
<1>0. /\ TypeOK /\ StateInv /\ \A w \in Works : StateOf(w)
      /\ work \in [Works -> {"unset", "work", "cancelled", "null"}]
      /\ fate \in [Works -> {"none", "ran", "cancelled"}]
      /\ cpc \in [Loops -> {"none", "locking", "locked", "unlinked", "marked"}]
  BY DEF Inv, TypeOK, StateInv
\* A work that stays keeps its state, whatever happens to another one.
<1>1. ASSUME NEW w \in Works, Stay(w), work'[w] = work[w], fate'[w] = fate[w],
             w \in linked' <=> w \in linked,
             AtCancel(w) /\ cpc'[LoopOf[w]] = "marked" => cpc[LoopOf[w]] = "marked"
      PROVE  StateOf(w)'
  BY <1>0, <1>1 DEF Stay, StateOf
<1>2. ASSUME NEW x \in Works, StateOf(x)', \A w \in Works \ {x} : Stay(w),
             \A w \in Works \ {x} : work'[w] = work[w] /\ fate'[w] = fate[w],
             \A w \in Works \ {x} : w \in linked' <=> w \in linked,
             UNCHANGED cpc
      PROVE  StateInv'
  BY <1>1, <1>2 DEF StateInv
<1>3. ASSUME ~Moving
      PROVE  StateInv'
  <2>1. (\A w \in Works : Stay(w)) /\ UNCHANGED linked
    BY <1>3, StillSteps
  <2>2. CASE ~Marking /\ ~Executing
    BY <1>0, <1>1, <1>3, <2>1, <2>2, StillSteps DEF StateInv
  <2>3. ASSUME NEW l \in Loops, CancelMark(l)
        PROVE  StateInv'
    <3>1. PICK x : x = cancelling[l]
      OBVIOUS
    <3>2. /\ cpc[l] = "unlinked" /\ cpc' = [cpc EXCEPT ![l] = "marked"]
          /\ work' = [work EXCEPT ![x] = "cancelled"]
          /\ UNCHANGED fate
      BY <2>3, <3>1 DEF CancelMark
    <3>3. x \in Works /\ LoopOf[x] = l /\ AtCancel(x)
      <4>1. x \in Works
        BY <3>1, <3>2 DEF Inv, LoopInv, TypeOK
      <4>2. LoopOf[x] = l
        BY <3>1, <4>1 DEF Inv, HomeInv
      <4> QED
        BY <3>1, <3>2, <4>1, <4>2 DEF AtCancel
    <3>4. OnlyCancel(x)
      BY <3>3 DEF Inv, PlaceInv, OnlyWq, OnlySlow, OnlyWorker, OnlyLoop, OnlyDone,
         OnlyCancel, Nowhere
    <3>5. StateOf(x)'
      BY <1>0, <2>1, <3>2, <3>3, <3>4 DEF StateOf, OnlyCancel, Stay
    <3>6. ASSUME NEW w \in Works \ {x}
          PROVE  StateOf(w)'
      <4>1. AtCancel(w) => LoopOf[w] # l
        BY <3>1, <3>6 DEF AtCancel
      <4> QED
        BY <1>0, <1>1, <2>1, <3>2, <4>1
    <3> QED
      BY <3>5, <3>6 DEF StateInv
  <2>4. ASSUME NEW t \in Workers, WorkerRun(t)
        PROVE  StateInv'
    <3>1. PICK x : x = job[t]
      OBVIOUS
    <3>2. fate' = [fate EXCEPT ![x] = "ran"] /\ UNCHANGED <<work, cpc>>
      BY <2>4, <3>1 DEF WorkerRun
    <3>3. x \in Works /\ AtWorker(x)
      BY <2>4, <3>1 DEF WorkerRun, Inv, WorkerInv, WorkerOf, TypeOK, AtWorker
    <3>4. OnlyWorker(x)
      BY <3>3 DEF Inv, PlaceInv, OnlyWq, OnlySlow, OnlyWorker, OnlyLoop, OnlyDone,
         OnlyCancel, Nowhere
    <3>5. StateOf(x)'
      BY <1>0, <2>1, <3>2, <3>3, <3>4 DEF StateOf, OnlyWorker, Stay
    <3> QED
      BY <1>0, <1>2, <2>1, <3>2, <3>3, <3>5
  <2> QED
    BY <2>2, <2>3, <2>4 DEF Marking, Executing
<1>4. ASSUME NEW l \in Loops, NEW x \in Works, Submit(l, x)
      PROVE  StateInv'
  <2>1. /\ work' = [work EXCEPT ![x] = "work"] /\ linked' = linked \cup {x}
        /\ fate' = [fate EXCEPT ![x] = "none"] /\ UNCHANGED cpc
    BY <1>4 DEF Submit
  <2>2. /\ OnlySlow(x)' \/ OnlyWq(x)'
        /\ \A w \in Works \ {x} : Stay(w)
    BY <1>4, SubmitMove
  <2>3. StateOf(x)'
    BY <1>0, <2>1, <2>2 DEF StateOf, OnlySlow, OnlyWq
  <2> QED
    BY <1>0, <1>2, <2>1, <2>2, <2>3
<1>5. ASSUME NEW x \in Works, OnlyWq(x) \/ OnlySlow(x), OnlyWorker(x)',
             \A w \in Works \ {x} : Stay(w), linked' = linked \ {x},
             UNCHANGED <<work, fate, cpc>>
      PROVE  StateInv'
  <2>1. StateOf(x)'
    BY <1>0, <1>5 DEF StateOf, OnlyWq, OnlySlow, OnlyWorker
  <2> QED
    BY <1>2, <1>5, <2>1
<1>6. ASSUME NEW t \in Workers, WorkerTake(t)
      PROVE  StateInv'
  <2>1. PICK x : x = Head(wq)
    OBVIOUS
  <2>2. linked' = linked \ {x} /\ UNCHANGED <<work, fate, cpc>>
    BY <1>6, <2>1 DEF WorkerTake, Unlinked
  <2> QED
    BY <1>5, <1>6, <2>1, <2>2, TakeMove
<1>7. ASSUME NEW t \in Workers, WorkerTakeSlow(t)
      PROVE  StateInv'
  <2>1. PICK x : x = Head(slow_io_pending_wq)
    OBVIOUS
  <2>2. linked' = linked \ {x} /\ UNCHANGED <<work, fate, cpc>>
    BY <1>7, <2>1 DEF WorkerTakeSlow, Unlinked
  <2>3. x \in Works
    BY <1>7, <2>1, TakeSlowMove
  <2> QED
    BY <1>5, <1>7, <2>1, <2>2, <2>3, TakeSlowMove
<1>8. ASSUME NEW t \in Workers, WorkerReport(t)
      PROVE  StateInv'
  <2>1. PICK x : x = job[t]
    OBVIOUS
  <2>2. /\ work' = [work EXCEPT ![x] = "null"] /\ linked' = linked \cup {x}
        /\ UNCHANGED <<fate, cpc>>
    BY <1>8, <2>1 DEF WorkerReport
  <2>3. fate[x] = "ran"
    BY <1>8, <2>1 DEF WorkerReport, Inv, WorkerInv, WorkerOf
  <2>4. /\ x \in Works /\ OnlyLoop(x)' /\ \A w \in Works \ {x} : Stay(w)
    BY <1>8, <2>1, ReportMove
  <2>5. StateOf(x)'
    BY <1>0, <2>2, <2>3, <2>4 DEF StateOf, OnlyLoop
  <2> QED
    BY <1>0, <1>2, <2>2, <2>4, <2>5
<1>9. ASSUME NEW l \in Loops, CancelUnlink(l)
      PROVE  StateInv'
  <2>1. PICK x : x = cancelling[l]
    OBVIOUS
  <2>2. /\ fate' = [fate EXCEPT ![x] = IF @ = "ran" THEN @ ELSE "cancelled"]
        /\ cpc' = [cpc EXCEPT ![l] = "unlinked"]
        /\ work[x] # "null" /\ UNCHANGED <<work, linked>>
    BY <1>9, <2>1 DEF CancelUnlink, Cancellable
  <2>3. /\ x \in Works /\ LoopOf[x] = l
        /\ OnlyWq(x) \/ OnlySlow(x) \/ OnlyLoop(x) \/ OnlyDone(x)
        /\ OnlyCancel(x)' /\ \A w \in Works \ {x} : Stay(w)
    BY <1>9, <2>1, UnlinkMove
  <2>4. fate[x] # "ran"
    BY <1>0, <2>2, <2>3 DEF StateOf, OnlyWq, OnlySlow, OnlyLoop, OnlyDone
  <2>5. StateOf(x)'
    BY <1>0, <2>2, <2>3, <2>4 DEF StateOf, OnlyCancel
  <2>6. \A w \in Works \ {x} : StateOf(w)'
    BY <1>0, <1>1, <2>2, <2>3
  <2> QED
    BY <2>5, <2>6 DEF StateInv
<1>10. ASSUME NEW l \in Loops, CancelReport(l)
      PROVE  StateInv'
  <2>1. PICK x : x = cancelling[l]
    OBVIOUS
  <2>2. /\ cpc[l] = "marked" /\ cpc' = [cpc EXCEPT ![l] = "none"]
        /\ linked' = linked \cup {x} /\ UNCHANGED <<work, fate>>
    BY <1>10, <2>1 DEF CancelReport
  <2>3. /\ x \in Works /\ LoopOf[x] = l /\ OnlyCancel(x) /\ OnlyLoop(x)'
        /\ \A w \in Works \ {x} : Stay(w)
    BY <1>10, <2>1, CancelReportMove
  <2>4. StateOf(x)'
    BY <1>0, <2>2, <2>3 DEF StateOf, OnlyCancel, OnlyLoop
  <2>5. \A w \in Works \ {x} : StateOf(w)'
    BY <1>0, <1>1, <2>2, <2>3
  <2> QED
    BY <2>4, <2>5 DEF StateInv
<1>11. ASSUME NEW l \in Loops, WorkDoneMove(l)
      PROVE  StateInv'
  <2>1. UNCHANGED <<work, linked, fate, cpc>>
    BY <1>11 DEF WorkDoneMove
  <2>2. ASSUME NEW w \in Works, OnlyLoop(w), OnlyDone(w)'
        PROVE  StateOf(w)'
    BY <1>0, <2>1, <2>2 DEF StateOf, OnlyLoop, OnlyDone
  <2> QED
    BY <1>1, <1>11, <2>1, <2>2, DoneMove DEF StateInv
<1>12. ASSUME NEW l \in Loops, WorkDoneNext(l)
      PROVE  StateInv'
  <2>1. PICK x : x = Head(done_wq[l])
    OBVIOUS
  <2>2. UNCHANGED <<work, linked, fate, cpc>>
    BY <1>12 DEF WorkDoneNext
  <2>3. x \in Works /\ Nowhere(x)' /\ \A w \in Works \ {x} : Stay(w)
    BY <1>12, <2>1, NextMove
  <2>4. StateOf(x)'
    BY <2>3 DEF StateOf, Nowhere
  <2> QED
    BY <1>2, <2>2, <2>3, <2>4
<1> QED
  BY <1>3, <1>4, <1>6, <1>7, <1>8, <1>9, <1>10, <1>11, <1>12 DEF Moving

(***************************************************************************)
(* A worker has a work while it executes and reports it.                   *)
(***************************************************************************)
LEMMA WorkerNext ==
  ASSUME Inv, Next
  PROVE  WorkerInv'
<1>0. /\ \A t \in Workers : WorkerOf(t)
      /\ pc \in [Workers -> PCs] /\ job \in [Workers -> Works \cup {None}]
      /\ fate \in [Works -> {"none", "ran", "cancelled"}]
  BY DEF Inv, TypeOK, WorkerInv, PCs
<1>1. ASSUME NEW t \in Workers, job'[t] = job[t],
             pc'[t] = pc[t] \/ (pc[t] = "wait" /\ pc'[t] = "woken"),
             job[t] # None => fate'[job[t]] = fate[job[t]]
      PROVE  WorkerOf(t)'
  BY <1>0, <1>1 DEF WorkerOf
<1>2. ASSUME UNCHANGED <<job, fate>>, Woke(pc, pc')
      PROVE  WorkerInv'
  BY <1>0, <1>1, <1>2 DEF WorkerInv, Woke
<1>3. Woke(pc, pc)
  BY <1>0 DEF Woke
<1>4. ASSUME NEW t \in Workers, UNCHANGED fate,
             job[t] = None /\ job'[t] = None
               /\ pc'[t] \notin {"run", "report", "reporting"},
             \A u \in Workers \ {t} :
               /\ job'[u] = job[u]
               /\ pc'[u] = pc[u] \/ (pc[u] = "wait" /\ pc'[u] = "woken")
      PROVE  WorkerInv'
  BY <1>0, <1>1, <1>4 DEF WorkerInv, WorkerOf
<1>5. ASSUME NEW t \in Workers, WorkerLock(t) \/ WorkerWoken(t) \/ WorkerWait(t)
                                  \/ SpuriousWakeup(t)
      PROVE  WorkerInv'
  <2>1. /\ UNCHANGED <<fate, job>>
        /\ pc[t] \in {"lock", "woken", "locked", "wait"}
        /\ \E p \in {"locked", "wait", "woken"} : pc' = [pc EXCEPT ![t] = p]
    BY <1>5 DEF WorkerLock, WorkerWoken, WorkerWait, SpuriousWakeup
  <2>2. job[t] = None
    BY <1>0, <2>1 DEF WorkerOf
  <2>3. pc'[t] \in {"locked", "wait", "woken"} /\ \A u \in Workers \ {t} : pc'[u] = pc[u]
    BY <1>0, <2>1
  <2> QED
    BY <1>4, <2>1, <2>2, <2>3
<1>6. ASSUME NEW t \in Workers, WorkerExit(t)
      PROVE  WorkerInv'
  <2>1. [pc EXCEPT ![t] = "exited"] \in [Workers -> PCs]
    BY <1>0 DEF PCs
  <2>2. Woke([pc EXCEPT ![t] = "exited"], pc')
    BY <1>6, <2>1, SignalFacts DEF WorkerExit
  <2>3. pc[t] = "locked" /\ UNCHANGED <<job, fate>>
    BY <1>6 DEF WorkerExit
  <2>4. job[t] = None
    BY <1>0, <2>3 DEF WorkerOf
  <2>5. /\ pc'[t] = "exited"
        /\ \A u \in Workers \ {t} : pc'[u] = pc[u] \/ (pc[u] = "wait" /\ pc'[u] = "woken")
    BY <1>0, <2>2 DEF Woke
  <2> QED
    BY <1>4, <2>3, <2>4, <2>5
<1>7. ASSUME NEW t \in Workers, WorkerDeferSlow(t) \/ WorkerDropSlow(t)
      PROVE  WorkerInv'
  BY <1>2, <1>3, <1>7 DEF WorkerDeferSlow, WorkerDropSlow
<1>8. ASSUME NEW t \in Workers, NEW x \in Works, OnlyWq(x) \/ OnlySlow(x),
             job' = [job EXCEPT ![t] = x], UNCHANGED fate,
             Woke([pc EXCEPT ![t] = "run"], pc')
      PROVE  WorkerInv'
  <2>1. fate[x] = "none"
    BY <1>8 DEF Inv, StateInv, StateOf, OnlyWq, OnlySlow
  <2>2. /\ pc'[t] = "run"
        /\ \A u \in Workers \ {t} : pc'[u] = pc[u] \/ (pc[u] = "wait" /\ pc'[u] = "woken")
    BY <1>0, <1>8 DEF Woke
  <2>3. WorkerOf(t)'
    BY <1>0, <1>8, <2>1, <2>2 DEF WorkerOf
  <2> QED
    BY <1>0, <1>1, <1>8, <2>2, <2>3 DEF WorkerInv
<1>9. ASSUME NEW t \in Workers, WorkerTake(t)
      PROVE  WorkerInv'
  <2>1. PICK x : x = Head(wq)
    OBVIOUS
  <2>2. job' = [job EXCEPT ![t] = x] /\ UNCHANGED fate /\ pc' = [pc EXCEPT ![t] = "run"]
    BY <1>9, <2>1 DEF WorkerTake
  <2>3. Woke([pc EXCEPT ![t] = "run"], pc')
    BY <1>0, <2>2 DEF Woke, PCs
  <2> QED
    BY <1>8, <1>9, <2>1, <2>2, <2>3, TakeMove
<1>10. ASSUME NEW t \in Workers, WorkerTakeSlow(t)
      PROVE  WorkerInv'
  <2>1. PICK x : x = Head(slow_io_pending_wq)
    OBVIOUS
  <2>2. job' = [job EXCEPT ![t] = x] /\ UNCHANGED fate
    BY <1>10, <2>1 DEF WorkerTakeSlow
  <2>3. Woke([pc EXCEPT ![t] = "run"], pc')
    <3>1. [pc EXCEPT ![t] = "run"] \in [Workers -> PCs]
      BY <1>0 DEF PCs
    <3>2. \/ pc' \in SignalIfIdle([pc EXCEPT ![t] = "run"])
          \/ pc' = [pc EXCEPT ![t] = "run"]
      BY <1>10 DEF WorkerTakeSlow
    <3> QED
      BY <3>1, <3>2, SignalIfIdleFacts, ZenonT(30) DEF Woke
  <2>4. x \in Works /\ OnlySlow(x)
    BY <1>10, <2>1, TakeSlowMove
  <2> QED
    BY <1>8, <2>2, <2>3, <2>4
<1>11. ASSUME NEW t \in Workers, WorkerRun(t)
      PROVE  WorkerInv'
  <2>1. /\ pc[t] = "run" /\ fate' = [fate EXCEPT ![job[t]] = "ran"]
        /\ pc' = [pc EXCEPT ![t] = "report"] /\ UNCHANGED job
    BY <1>11 DEF WorkerRun
  <2>2. job[t] \in Works
    BY <1>0, <2>1 DEF WorkerOf
  <2>3. WorkerOf(t)'
    BY <1>0, <2>1, <2>2 DEF WorkerOf
  <2>4. \A u \in Workers \ {t} : job[u] # None => job[u] # job[t]
    BY DEF Inv, OnceInv
  <2> QED
    BY <1>0, <1>1, <2>1, <2>2, <2>3, <2>4 DEF WorkerInv
<1>12. ASSUME NEW t \in Workers, WorkerLockLoop(t)
      PROVE  WorkerInv'
  <2>1. /\ pc[t] = "report" /\ pc' = [pc EXCEPT ![t] = "reporting"]
        /\ UNCHANGED <<job, fate>>
    BY <1>12 DEF WorkerLockLoop
  <2>2. WorkerOf(t)'
    BY <1>0, <2>1 DEF WorkerOf
  <2> QED
    BY <1>0, <1>1, <2>1, <2>2 DEF WorkerInv
<1>13. ASSUME NEW t \in Workers, WorkerReport(t)
      PROVE  WorkerInv'
  <2>1. /\ pc' = [pc EXCEPT ![t] = "lock"] /\ job' = [job EXCEPT ![t] = None]
        /\ UNCHANGED fate
    BY <1>13 DEF WorkerReport
  <2>2. WorkerOf(t)'
    BY <1>0, <2>1 DEF WorkerOf
  <2> QED
    BY <1>0, <1>1, <2>1, <2>2 DEF WorkerInv
<1>14. ASSUME NEW l \in Loops, NEW x \in Works, Submit(l, x)
      PROVE  WorkerInv'
  <2>1. Woke(pc, pc') /\ UNCHANGED job /\ fate' = [fate EXCEPT ![x] = "none"]
    <3>1. TypeOK
      BY DEF Inv
    <3> QED
      BY <1>14, <3>1, PostWorkFacts DEF Submit, Post
  <2>2. \A t \in Workers : job[t] # x
    BY <1>14, SubmitMove DEF Nowhere, AtWorker
  <2> QED
    BY <1>0, <1>1, <2>1, <2>2 DEF WorkerInv, Woke
<1>15. ASSUME NEW l \in Loops, CancelUnlink(l)
      PROVE  WorkerInv'
  <2>1. PICK x : x = cancelling[l]
    OBVIOUS
  <2>2. /\ UNCHANGED <<job, pc>>
        /\ \A w \in Works \ {x} : fate'[w] = fate[w]
    BY <1>0, <1>15, <2>1 DEF CancelUnlink
  <2>3. \A t \in Workers : job[t] # x
    BY <1>15, <2>1, UnlinkMove DEF OnlyWq, OnlySlow, OnlyLoop, OnlyDone, AtWorker
  <2> QED
    BY <1>0, <1>1, <2>2, <2>3 DEF WorkerInv
<1>16. ASSUME NEW l \in Loops,
              \/ \E w \in Works : CancelLock(l, w)
              \/ CancelLockLoop(l) \/ CancelBusy(l) \/ CancelMark(l)
              \/ CancelReport(l) \/ WorkDoneBegin(l) \/ WorkDoneStep(l)
      PROVE  WorkerInv'
  <2>1. UNCHANGED <<job, pc, fate>>
    BY <1>16 DEF CancelLock, CancelLockLoop, CancelBusy, CancelMark, CancelReport,
       WorkDoneBegin, WorkDoneStep, WorkDoneMove, WorkDoneNext, CallbackReturn,
       WorkDoneEnd
  <2> QED
    BY <1>2, <1>3, <2>1
<1>17. CASE CleanupPost
  <2>1. TypeOK
    BY DEF Inv
  <2>2. Woke(pc, pc') /\ UNCHANGED <<job, fate>>
    BY <1>17, <2>1, PostExitFacts DEF CleanupPost, Post
  <2> QED
    BY <1>2, <2>2
<1>18. CASE CleanupJoin
  BY <1>2, <1>3, <1>18 DEF CleanupJoin
<1> QED
  BY <1>5, <1>6, <1>7, <1>9, <1>10, <1>11, <1>12, <1>13, <1>14, <1>15, <1>16,
     <1>17, <1>18 DEF Next, WorkerStep, WorkerLocked, CancelStep

(***************************************************************************)
(* What a loop cancels is pending, and only user code cancels.             *)
(***************************************************************************)
LEMMA LoopNext ==
  ASSUME Inv, Next
  PROVE  LoopInv'
<1>0. /\ LoopInv /\ HomeInv
      /\ req \in [Works -> {"free", "pending"}]
      /\ lpc \in [Loops -> {"poll", "done", "drain", "cb"}]
      /\ done_wq \in [Loops -> Seq(Works)]
      /\ cpc \in [Loops -> {"none", "locking", "locked", "unlinked", "marked"}]
      /\ cancelling \in [Loops -> Works \cup {None}]
  BY DEF Inv, TypeOK
<1> USE DEF LoopInv
<1>1. ASSUME UNCHANGED <<loopvars, req>>
      PROVE  LoopInv'
  BY <1>0, <1>1
<1>2. ASSUME NEW t \in Workers, WorkerStep(t) \/ SpuriousWakeup(t)
      PROVE  LoopInv'
  <2>1. UNCHANGED <<loopvars, req>>
    BY <1>2 DEF WorkerStep, WorkerLocked, WorkerLock, WorkerWoken, WorkerWait,
       WorkerExit, WorkerTake, WorkerDeferSlow, WorkerDropSlow, WorkerTakeSlow,
       WorkerRun, WorkerLockLoop, WorkerReport, SpuriousWakeup
  <2> QED
    BY <1>1, <2>1
<1>3. ASSUME NEW l \in Loops, NEW w \in Works, Submit(l, w)
      PROVE  LoopInv'
  <2>1. req' = [req EXCEPT ![w] = "pending"] /\ UNCHANGED loopvars
    BY <1>3 DEF Submit
  <2>2. \A x \in Works : req[x] = "pending" => req'[x] = "pending"
    BY <1>0, <2>1
  <2> QED
    BY <1>0, <2>1, <2>2
<1>4. ASSUME NEW l \in Loops, NEW w \in Works, CancelLock(l, w)
      PROVE  LoopInv'
  BY <1>0, <1>4 DEF CancelLock, InUserCode
<1>5. ASSUME NEW l \in Loops,
             \/ CancelLockLoop(l) \/ CancelBusy(l) \/ CancelMark(l)
             \/ CancelReport(l)
      PROVE  LoopInv'
  BY <1>0, <1>5, ZenonT(60) DEF CancelLockLoop, CancelBusy, CancelMark, CancelReport
<1>6. ASSUME NEW l \in Loops, CancelUnlink(l)
      PROVE  LoopInv'
  <2>1. Without(<<>>, cancelling[l]) = <<>>
    BY EmptyFacts DEF Without
  <2> QED
    BY <1>0, <1>6, <2>1 DEF CancelUnlink
<1>7. ASSUME NEW l \in Loops,
             WorkDoneBegin(l) \/ WorkDoneMove(l) \/ CallbackReturn(l) \/ WorkDoneEnd(l)
      PROVE  LoopInv'
  BY <1>0, <1>7 DEF WorkDoneBegin, WorkDoneMove, CallbackReturn, WorkDoneEnd
<1>8. ASSUME NEW l \in Loops, WorkDoneNext(l)
      PROVE  LoopInv'
  <2>1. PICK x : x = Head(done_wq[l])
    OBVIOUS
  <2>2. x \in Works /\ LoopOf[x] = l
    BY <1>8, <2>1, NextMove
  <2>3. /\ lpc[l] = "drain" /\ lpc' = [lpc EXCEPT ![l] = "cb"]
        /\ req' = [req EXCEPT ![x] = "free"]
        /\ done_wq' = [done_wq EXCEPT ![l] = Tail(@)]
        /\ UNCHANGED <<cpc, cancelling>>
    BY <1>8, <2>1 DEF WorkDoneNext
  <2>4. \A k \in Loops : cancelling[k] # None => cancelling[k] # x
    BY <1>0, <2>2, <2>3 DEF HomeInv
  <2> QED
    BY <1>0, <2>2, <2>3, <2>4
<1>9. CASE CleanupPost \/ CleanupJoin
  BY <1>1, <1>9 DEF CleanupPost, CleanupJoin
<1> QED
  BY <1>2, <1>3, <1>4, <1>5, <1>6, <1>7, <1>8, <1>9 DEF Next, CancelStep,
     WorkDoneStep

(***************************************************************************)
(* Slow work comes from the slow queue, by workers that say so.            *)
(***************************************************************************)
LEMMA SlowNext ==
  ASSUME Inv, Next
  PROVE  SlowInv'
<1>0. /\ SlowInv
      /\ \A t \in Workers : WorkerOf(t)
      /\ pc \in [Workers -> PCs] /\ job \in [Workers -> Works \cup {None}]
      /\ is_slow_work \in [Workers -> BOOLEAN]
      /\ None \notin Slow
  BY DEF Inv, TypeOK, WorkerInv, PCs
<1> USE DEF SlowInv
\* Steps of others, that leave workers as they are or wake some.
<1>1. ASSUME UNCHANGED <<job, is_slow_work>>, Woke(pc, pc'),
             \A w \in Works : AtWq(w)' => AtWq(w) \/ w \notin Slow
      PROVE  SlowInv'
  BY <1>0, <1>1 DEF Woke
<1>2. Woke(pc, pc)
  BY <1>0 DEF Woke
\* Steps of a worker.
<1>3. ASSUME NEW t \in Workers,
             \A w \in Works : AtWq(w)' => AtWq(w),
             \A u \in Workers \ {t} :
               /\ job'[u] = job[u] /\ is_slow_work'[u] = is_slow_work[u]
               /\ pc'[u] = pc[u] \/ (pc[u] = "wait" /\ pc'[u] = "woken"),
             job'[t] \in Slow => is_slow_work'[t],
             is_slow_work'[t] => pc'[t] \in {"lock", "run", "report", "reporting"}
      PROVE  SlowInv'
  BY <1>0, <1>3
<1>4. ASSUME NEW t \in Workers, WorkerLock(t)
      PROVE  SlowInv'
  <2>1. /\ pc[t] = "lock" /\ pc' = [pc EXCEPT ![t] = "locked"]
        /\ is_slow_work' = [is_slow_work EXCEPT ![t] = FALSE]
        /\ UNCHANGED <<job, wq>>
    BY <1>4 DEF WorkerLock
  <2>2. job[t] = None
    BY <1>0, <2>1 DEF WorkerOf
  <2>3. \A w \in Works : AtWq(w)' => AtWq(w)
    BY <2>1 DEF AtWq
  <2>4. /\ is_slow_work'[t] = FALSE
        /\ \A u \in Workers \ {t} : is_slow_work'[u] = is_slow_work[u] /\ pc'[u] = pc[u]
    BY <1>0, <2>1
  <2> QED
    BY <1>0, <1>3, <2>1, <2>2, <2>3, <2>4
<1>5. ASSUME NEW t \in Workers, UNCHANGED <<job, is_slow_work, wq>>,
             \E p \in PCs : /\ pc' = [pc EXCEPT ![t] = p]
                            /\ \/ pc[t] \notin {"lock", "run", "report", "reporting"}
                               \/ p \in {"lock", "run", "report", "reporting"}
      PROVE  SlowInv'
  <2>1. \A w \in Works : AtWq(w)' => AtWq(w)
    BY <1>5 DEF AtWq
  <2>2. /\ \A u \in Workers \ {t} : pc'[u] = pc[u]
        /\ is_slow_work[t] => pc'[t] \in {"lock", "run", "report", "reporting"}
    BY <1>0, <1>5
  <2> QED
    BY <1>0, <1>3, <1>5, <2>1, <2>2
<1>6. ASSUME NEW t \in Workers,
             \/ WorkerWait(t) \/ WorkerWoken(t) \/ SpuriousWakeup(t)
             \/ WorkerRun(t) \/ WorkerLockLoop(t)
      PROVE  SlowInv'
  BY <1>5, <1>6 DEF WorkerWait, WorkerWoken, SpuriousWakeup, WorkerRun,
     WorkerLockLoop, PCs
<1>7. ASSUME NEW t \in Workers, WorkerExit(t)
      PROVE  SlowInv'
  <2>1. [pc EXCEPT ![t] = "exited"] \in [Workers -> PCs]
    BY <1>0 DEF PCs
  <2>2. Woke([pc EXCEPT ![t] = "exited"], pc')
    BY <1>7, <2>1, SignalFacts DEF WorkerExit
  <2>3. /\ pc[t] = "locked" /\ UNCHANGED <<job, is_slow_work, wq>>
    BY <1>7 DEF WorkerExit
  <2>4. ~is_slow_work[t] /\ job[t] = None
    BY <1>0, <2>3 DEF WorkerOf
  <2>5. \A u \in Workers \ {t} : pc'[u] = pc[u] \/ (pc[u] = "wait" /\ pc'[u] = "woken")
    BY <1>0, <2>2 DEF Woke
  <2>6. \A w \in Works : AtWq(w)' => AtWq(w)
    BY <2>3 DEF AtWq
  <2> QED
    BY <1>0, <1>3, <2>3, <2>4, <2>5, <2>6
<1>8. ASSUME NEW t \in Workers, WorkerDeferSlow(t) \/ WorkerDropSlow(t)
      PROVE  SlowInv'
  <2>1. UNCHANGED <<job, is_slow_work, pc>>
    BY <1>8 DEF WorkerDeferSlow, WorkerDropSlow
  <2>2. \A w \in Works : AtWq(w)' => AtWq(w)
    BY <1>8, MessageSteps DEF AtWq
  <2> QED
    BY <1>1, <1>2, <2>1, <2>2
<1>9. ASSUME NEW t \in Workers, WorkerTake(t)
      PROVE  SlowInv'
  <2>1. PICK x : x = Head(wq)
    OBVIOUS
  <2>2. /\ pc[t] = "locked" /\ pc' = [pc EXCEPT ![t] = "run"]
        /\ job' = [job EXCEPT ![t] = x] /\ UNCHANGED is_slow_work
    BY <1>9, <2>1 DEF WorkerTake
  <2>3. /\ x \in Works /\ OnlyWq(x) /\ OnlyWorker(x)'
        /\ \A w \in Works \ {x} : Stay(w)
    BY <1>9, <2>1, TakeMove
  <2>4. \A w \in Works : AtWq(w)' => AtWq(w)
    BY <2>3 DEF OnlyWq, Stay
  <2>5. x \notin Slow
    BY <1>0, <2>3 DEF OnlyWq
  <2>6. /\ job'[t] = x /\ pc'[t] = "run"
        /\ \A u \in Workers \ {t} : job'[u] = job[u] /\ pc'[u] = pc[u]
    BY <1>0, <2>2
  <2> QED
    BY <1>3, <2>2, <2>4, <2>5, <2>6
<1>10. ASSUME NEW t \in Workers, WorkerTakeSlow(t)
      PROVE  SlowInv'
  <2>1. PICK x : x = Head(slow_io_pending_wq)
    OBVIOUS
  <2>2. /\ job' = [job EXCEPT ![t] = x]
        /\ is_slow_work' = [is_slow_work EXCEPT ![t] = TRUE]
    BY <1>10, <2>1 DEF WorkerTakeSlow
  <2>3. /\ x \in Slow /\ OnlySlow(x) /\ OnlyWorker(x)'
        /\ \A w \in Works \ {x} : Stay(w)
    BY <1>10, <2>1, TakeSlowMove
  <2>4. \A w \in Works : AtWq(w)' => AtWq(w)
    BY <2>3 DEF OnlySlow, OnlyWorker, Stay
  <2>5. Woke([pc EXCEPT ![t] = "run"], pc')
    <3>1. [pc EXCEPT ![t] = "run"] \in [Workers -> PCs]
      BY <1>0 DEF PCs
    <3>2. \/ pc' \in SignalIfIdle([pc EXCEPT ![t] = "run"])
          \/ pc' = [pc EXCEPT ![t] = "run"]
      BY <1>10 DEF WorkerTakeSlow
    <3> QED
      BY <3>1, <3>2, SignalIfIdleFacts, ZenonT(30) DEF Woke
  <2>6. /\ pc'[t] = "run"
        /\ \A u \in Workers \ {t} : pc'[u] = pc[u] \/ (pc[u] = "wait" /\ pc'[u] = "woken")
    BY <1>0, <2>5 DEF Woke
  <2>7. /\ is_slow_work'[t] = TRUE
        /\ \A u \in Workers \ {t} : job'[u] = job[u] /\ is_slow_work'[u] = is_slow_work[u]
    BY <1>0, <2>2
  <2> QED
    BY <1>3, <2>4, <2>6, <2>7
<1>11. ASSUME NEW t \in Workers, WorkerReport(t)
      PROVE  SlowInv'
  <2>1. /\ pc' = [pc EXCEPT ![t] = "lock"] /\ job' = [job EXCEPT ![t] = None]
        /\ UNCHANGED <<wq, is_slow_work>>
    BY <1>11 DEF WorkerReport
  <2>2. \A w \in Works : AtWq(w)' => AtWq(w)
    BY <2>1 DEF AtWq
  <2>3. /\ pc'[t] = "lock" /\ job'[t] = None
        /\ \A u \in Workers \ {t} : job'[u] = job[u] /\ pc'[u] = pc[u]
    BY <1>0, <2>1
  <2> QED
    BY <1>0, <1>3, <2>1, <2>2, <2>3
<1>12. ASSUME NEW l \in Loops, NEW x \in Works, Submit(l, x)
      PROVE  SlowInv'
  <2>1. TypeOK
    BY DEF Inv
  <2>2. Woke(pc, pc') /\ UNCHANGED <<job, is_slow_work>>
    BY <1>12, <2>1, PostWorkFacts DEF Submit, Post
  <2>3. \A w \in Works : AtWq(w)' => AtWq(w) \/ w \notin Slow
    BY <1>12, SubmitMove DEF OnlySlow, Stay
  <2> QED
    BY <1>1, <2>2, <2>3
<1>13. ASSUME NEW l \in Loops, CancelUnlink(l)
      PROVE  SlowInv'
  <2>1. PICK x : x = cancelling[l]
    OBVIOUS
  <2>2. UNCHANGED <<job, pc, is_slow_work>>
    BY <1>13 DEF CancelUnlink
  <2>3. \A w \in Works : AtWq(w)' => AtWq(w)
    BY <1>13, <2>1, UnlinkMove DEF OnlyCancel, Stay
  <2> QED
    BY <1>1, <1>2, <2>2, <2>3
<1>14. ASSUME NEW l \in Loops,
              \/ \E w \in Works : CancelLock(l, w)
              \/ CancelLockLoop(l) \/ CancelBusy(l) \/ CancelMark(l)
              \/ CancelReport(l) \/ WorkDoneBegin(l) \/ WorkDoneStep(l)
      PROVE  SlowInv'
  <2>1. UNCHANGED <<wq, job, pc, is_slow_work>>
    BY <1>14 DEF CancelLock, CancelLockLoop, CancelBusy, CancelMark, CancelReport,
       WorkDoneBegin, WorkDoneStep, WorkDoneMove, WorkDoneNext, CallbackReturn,
       WorkDoneEnd
  <2>2. \A w \in Works : AtWq(w)' => AtWq(w)
    BY <2>1 DEF AtWq
  <2> QED
    BY <1>1, <1>2, <2>1, <2>2
<1>15. CASE CleanupPost
  <2>1. TypeOK
    BY DEF Inv
  <2>2. Woke(pc, pc') /\ UNCHANGED <<job, is_slow_work>>
    BY <1>15, <2>1, PostExitFacts DEF CleanupPost, Post
  <2>3. \A w \in Works : AtWq(w)' => AtWq(w)
    BY <1>15, MessageSteps DEF AtWq
  <2> QED
    BY <1>1, <2>2, <2>3
<1>16. CASE CleanupJoin
  <2>1. UNCHANGED <<wq, job, pc, is_slow_work>>
    BY <1>16 DEF CleanupJoin
  <2>2. \A w \in Works : AtWq(w)' => AtWq(w)
    BY <2>1 DEF AtWq
  <2> QED
    BY <1>1, <1>2, <2>1, <2>2
<1> QED
  BY <1>4, <1>6, <1>7, <1>8, <1>9, <1>10, <1>11, <1>12, <1>13, <1>14, <1>15,
     <1>16 DEF Next, WorkerStep, WorkerLocked, CancelStep

(***************************************************************************)
(* idle_threads is exact: it grows and shrinks with the wait.              *)
(***************************************************************************)
LEMMA IdleNext ==
  ASSUME Inv, Next
  PROVE  IdleInv'
<1>0. /\ IdleInv /\ pc \in [Workers -> PCs]
      /\ IsFiniteSet(Idle) /\ idle_threads \in Nat
  BY FS_Subset DEF Inv, TypeOK, Idle, PCs
<1>1. ASSUME UNCHANGED idle_threads, Woke(pc, pc')
      PROVE  IdleInv'
  <2>1. Idle' = Idle
    BY <1>0, <1>1 DEF Idle, Woke
  <2> QED
    BY <1>0, <1>1, <2>1 DEF IdleInv
\* A worker that was not in the wait is not in it afterwards.
<1>2. ASSUME NEW t \in Workers, UNCHANGED idle_threads,
             pc[t] \notin {"wait", "woken"}, pc'[t] \notin {"wait", "woken"},
             \A u \in Workers \ {t} :
               pc'[u] = pc[u] \/ (pc[u] = "wait" /\ pc'[u] = "woken")
      PROVE  IdleInv'
  <2>1. Idle' = Idle
    BY <1>2 DEF Idle
  <2> QED
    BY <1>0, <1>2, <2>1 DEF IdleInv
<1>3. ASSUME NEW t \in Workers, UNCHANGED idle_threads,
             pc[t] \notin {"wait", "woken"},
             \E p \in PCs \ {"wait", "woken"} :
               pc' = [pc EXCEPT ![t] = p] \/ Woke([pc EXCEPT ![t] = p], pc')
      PROVE  IdleInv'
  <2>1. /\ pc'[t] \notin {"wait", "woken"}
        /\ \A u \in Workers \ {t} :
             pc'[u] = pc[u] \/ (pc[u] = "wait" /\ pc'[u] = "woken")
    BY <1>0, <1>3 DEF Woke
  <2> QED
    BY <1>2, <1>3, <2>1
<1>4. ASSUME NEW t \in Workers,
             \/ WorkerLock(t) \/ WorkerTake(t) \/ WorkerRun(t) \/ WorkerLockLoop(t)
             \/ WorkerReport(t)
      PROVE  IdleInv'
  BY <1>3, <1>4 DEF WorkerLock, WorkerTake, WorkerRun, WorkerLockLoop,
     WorkerReport, PCs
<1>5. ASSUME NEW t \in Workers, WorkerExit(t)
      PROVE  IdleInv'
  <2>1. [pc EXCEPT ![t] = "exited"] \in [Workers -> PCs]
    BY <1>0 DEF PCs
  <2>2. Woke([pc EXCEPT ![t] = "exited"], pc')
    BY <1>5, <2>1, SignalFacts DEF WorkerExit
  <2>3. pc[t] = "locked" /\ UNCHANGED idle_threads
    BY <1>5 DEF WorkerExit
  <2> QED
    BY <1>3, <2>2, <2>3 DEF PCs
<1>6. ASSUME NEW t \in Workers, WorkerTakeSlow(t)
      PROVE  IdleInv'
  <2>1. [pc EXCEPT ![t] = "run"] \in [Workers -> PCs]
    BY <1>0 DEF PCs
  <2>2. \/ pc' \in SignalIfIdle([pc EXCEPT ![t] = "run"])
        \/ pc' = [pc EXCEPT ![t] = "run"]
    BY <1>6 DEF WorkerTakeSlow
  <2>3. Woke([pc EXCEPT ![t] = "run"], pc')
    BY <2>1, <2>2, SignalIfIdleFacts, ZenonT(30) DEF Woke
  <2>4. pc[t] = "locked" /\ UNCHANGED idle_threads
    BY <1>6 DEF WorkerTakeSlow
  <2> QED
    BY <1>3, <2>3, <2>4 DEF PCs
<1>7. ASSUME NEW t \in Workers, WorkerWait(t)
      PROVE  IdleInv'
  <2>1. /\ pc[t] = "locked" /\ pc' = [pc EXCEPT ![t] = "wait"]
        /\ idle_threads' = idle_threads + 1
    BY <1>7 DEF WorkerWait
  <2>2. Idle' = Idle \cup {t} /\ t \notin Idle
    BY <1>0, <2>1 DEF Idle
  <2> QED
    BY <1>0, <2>1, <2>2, FS_AddElement DEF IdleInv
<1>8. ASSUME NEW t \in Workers, WorkerWoken(t)
      PROVE  IdleInv'
  <2>1. /\ pc[t] = "woken" /\ pc' = [pc EXCEPT ![t] = "locked"]
        /\ idle_threads' = idle_threads - 1
    BY <1>8 DEF WorkerWoken
  <2>2. Idle' = Idle \ {t} /\ t \in Idle
    BY <1>0, <2>1 DEF Idle
  <2> QED
    BY <1>0, <2>1, <2>2, FS_RemoveElement DEF IdleInv
<1>9. ASSUME NEW t \in Workers,
             WorkerDeferSlow(t) \/ WorkerDropSlow(t) \/ SpuriousWakeup(t)
      PROVE  IdleInv'
  BY <1>0, <1>1, <1>9 DEF WorkerDeferSlow, WorkerDropSlow, SpuriousWakeup, Woke, PCs
<1>10. ASSUME NEW l \in Loops, NEW x \in Works, Submit(l, x)
       PROVE  IdleInv'
  <2>1. TypeOK
    BY DEF Inv
  <2>2. Woke(pc, pc') /\ UNCHANGED idle_threads
    BY <1>10, <2>1, PostWorkFacts DEF Submit, Post
  <2> QED
    BY <1>1, <2>2
<1>11. ASSUME NEW l \in Loops,
              \/ \E w \in Works : CancelLock(l, w)
              \/ CancelStep(l) \/ WorkDoneBegin(l) \/ WorkDoneStep(l)
       PROVE  IdleInv'
  <2>1. UNCHANGED <<idle_threads, pc>>
    BY <1>11 DEF CancelLock, CancelStep, CancelLockLoop, CancelUnlink, CancelBusy,
       CancelMark, CancelReport, WorkDoneBegin, WorkDoneStep, WorkDoneMove,
       WorkDoneNext, CallbackReturn, WorkDoneEnd
  <2> QED
    BY <1>0, <1>1, <2>1 DEF Woke
<1>12. CASE CleanupPost
  <2>1. TypeOK
    BY DEF Inv
  <2>2. Woke(pc, pc') /\ UNCHANGED idle_threads
    BY <1>12, <2>1, PostExitFacts DEF CleanupPost, Post
  <2> QED
    BY <1>1, <2>2
<1>13. CASE CleanupJoin
  BY <1>0, <1>1, <1>13 DEF CleanupJoin, Woke
<1> QED
  BY <1>4, <1>5, <1>6, <1>7, <1>8, <1>9, <1>10, <1>11, <1>12, <1>13 DEF Next,
     WorkerStep, WorkerLocked

(***************************************************************************)
(* slow_io_work_running counts the workers that execute slow work.         *)
(***************************************************************************)
LEMMA BoundNext ==
  ASSUME Inv, Next
  PROVE  SlowWorkIsBounded'
<1> DEFINE R == {t \in Workers : is_slow_work[t]}
<1>0. /\ SlowWorkIsBounded /\ SlowInv /\ is_slow_work \in [Workers -> BOOLEAN]
      /\ slow_io_work_running = Cardinality(R)
      /\ slow_io_work_running <= slow_work_thread_threshold
      /\ IsFiniteSet(R) /\ slow_io_work_running \in Nat
      /\ slow_work_thread_threshold \in Nat
  <2>1. Cardinality(Workers) \in Nat
    BY FS_CardinalityType
  <2>2. IsFiniteSet(R)
    BY FS_Subset
  <2> QED
    BY <2>1, <2>2 DEF Inv, TypeOK, SlowWorkIsBounded, slow_work_thread_threshold
<1>1. ASSUME UNCHANGED <<slow_io_work_running, is_slow_work>>
      PROVE  SlowWorkIsBounded'
  BY <1>0, <1>1 DEF SlowWorkIsBounded, slow_work_thread_threshold
<1>2. ASSUME NEW t \in Workers, WorkerLock(t)
      PROVE  SlowWorkIsBounded'
  <2>1. is_slow_work' = [is_slow_work EXCEPT ![t] = FALSE]
    BY <1>2 DEF WorkerLock
  <2>2. R' = R \ {t}
    BY <1>0, <2>1
  <2>3. Cardinality(R') = IF t \in R THEN Cardinality(R) - 1 ELSE Cardinality(R)
    BY <1>0, <2>2, FS_RemoveElement
  <2>4. slow_io_work_running' = Cardinality(R')
    BY <1>0, <1>2, <2>3 DEF WorkerLock, SlowRunningWithout
  <2>5. slow_io_work_running' <= slow_io_work_running
    BY <1>0, <1>2 DEF WorkerLock, SlowRunningWithout
  <2> QED
    BY <1>0, <2>4, <2>5, <1>2 DEF SlowWorkIsBounded, slow_work_thread_threshold,
       WorkerLock, SlowRunningWithout
<1>3. ASSUME NEW t \in Workers, WorkerTakeSlow(t)
      PROVE  SlowWorkIsBounded'
  <2>1. /\ is_slow_work' = [is_slow_work EXCEPT ![t] = TRUE]
        /\ slow_io_work_running' = slow_io_work_running + 1
        /\ ~(slow_io_work_running >= slow_work_thread_threshold)
        /\ pc[t] = "locked"
    BY <1>3 DEF WorkerTakeSlow, AtThreshold
  <2>2. t \notin R /\ R' = R \cup {t}
    BY <1>0, <2>1 DEF SlowInv
  <2>3. Cardinality(R') = Cardinality(R) + 1
    BY <1>0, <2>2, FS_AddElement
  <2> QED
    BY <1>0, <2>1, <2>3 DEF SlowWorkIsBounded, slow_work_thread_threshold
<1>4. ASSUME NEW t \in Workers,
             \/ WorkerWoken(t) \/ WorkerWait(t) \/ WorkerExit(t) \/ WorkerTake(t)
             \/ WorkerDeferSlow(t) \/ WorkerDropSlow(t) \/ WorkerRun(t)
             \/ WorkerLockLoop(t) \/ WorkerReport(t) \/ SpuriousWakeup(t)
      PROVE  SlowWorkIsBounded'
  BY <1>1, <1>4 DEF WorkerWoken, WorkerWait, WorkerExit, WorkerTake,
     WorkerDeferSlow, WorkerDropSlow, WorkerRun, WorkerLockLoop, WorkerReport,
     SpuriousWakeup
<1>5. ASSUME NEW l \in Loops,
             \/ \E w \in Works : Submit(l, w) \/ CancelLock(l, w)
             \/ CancelStep(l) \/ WorkDoneBegin(l) \/ WorkDoneStep(l)
      PROVE  SlowWorkIsBounded'
  BY <1>1, <1>5 DEF Submit, Post, CancelLock, CancelStep, CancelLockLoop,
     CancelUnlink, CancelBusy, CancelMark, CancelReport, WorkDoneBegin,
     WorkDoneStep, WorkDoneMove, WorkDoneNext, CallbackReturn, WorkDoneEnd
<1>6. CASE CleanupPost \/ CleanupJoin
  BY <1>1, <1>6 DEF CleanupPost, CleanupJoin, Post
<1> QED
  BY <1>2, <1>3, <1>4, <1>5, <1>6 DEF Next, WorkerStep, WorkerLocked

(***************************************************************************)
(* Whoever takes the message away takes the last slow work or announces    *)
(* the rest again.                                                         *)
(***************************************************************************)
LEMMA AnnouncedNext ==
  ASSUME Inv, Next
  PROVE  SlowWorkIsAnnounced'
<1>0. /\ SlowWorkIsAnnounced /\ TypeOK
      /\ wq \in Seq(Items) /\ slow_io_pending_wq \in Seq(Slow)
      /\ SlowMsg \in Items /\ SlowMsg \notin Works
  BY ItemFacts DEF Inv, TypeOK, Items
<1> USE DEF SlowWorkIsAnnounced
<1>1. ASSUME UNCHANGED <<wq, slow_io_pending_wq>>
      PROVE  SlowWorkIsAnnounced'
  BY <1>0, <1>1
<1>2. \A y \in Items : /\ SlowMsg \in ToSet(wq) => SlowMsg \in ToSet(Append(wq, y))
                       /\ y \in ToSet(Append(wq, y))
  BY <1>0, AppendFacts
<1>3. ASSUME NEW l \in Loops, NEW x \in Works, Submit(l, x)
      PROVE  SlowWorkIsAnnounced'
  <2>1. CASE x \in Slow
    <3>1. \/ wq' = wq /\ SlowMsg \in ToSet(wq)
          \/ wq' = Append(wq, SlowMsg)
      BY <1>0, <1>3, <2>1, PostWorkFacts DEF Submit
    <3> QED
      BY <1>0, <1>2, <3>1
  <2>2. CASE x \notin Slow
    <3>1. wq' = Append(wq, x)
      BY <1>0, <1>3, <2>2, PostWorkFacts DEF Submit
    <3>2. UNCHANGED slow_io_pending_wq
      BY <1>3, <2>2 DEF Submit, Post
    <3> QED
      BY <1>0, <1>2, <3>1, <3>2, ItemFacts
  <2> QED
    BY <2>1, <2>2
<1>4. ASSUME NEW t \in Workers, WorkerTake(t)
      PROVE  SlowWorkIsAnnounced'
  <2>1. /\ wq # <<>> /\ wq' = Tail(wq) /\ Head(wq) \in Works
        /\ UNCHANGED slow_io_pending_wq
    BY <1>4 DEF WorkerTake, MustWait
  <2>2. SlowMsg \in ToSet(wq) => SlowMsg \in ToSet(wq')
    BY <1>0, <2>1, TailFacts
  <2> QED
    BY <1>0, <2>1, <2>2
<1>5. ASSUME NEW t \in Workers, wq # <<>>, wq' = Append(Tail(wq), SlowMsg)
      PROVE  SlowWorkIsAnnounced'
  <2>1. Tail(wq) \in Seq(Items)
    BY <1>0, <1>5, TailFacts
  <2>2. SlowMsg \in ToSet(Append(Tail(wq), SlowMsg))
    BY <1>0, <2>1, AppendFacts
  <2> QED
    BY <1>5, <2>2
<1>6. ASSUME NEW t \in Workers, WorkerDeferSlow(t)
      PROVE  SlowWorkIsAnnounced'
  BY <1>5, <1>6 DEF WorkerDeferSlow, MustWait
<1>7. ASSUME NEW t \in Workers, WorkerDropSlow(t)
      PROVE  SlowWorkIsAnnounced'
  BY <1>7 DEF WorkerDropSlow
<1>8. ASSUME NEW t \in Workers, WorkerTakeSlow(t)
      PROVE  SlowWorkIsAnnounced'
  <2>1. CASE MoreSlowWork
    BY <1>5, <1>8, <2>1 DEF WorkerTakeSlow, MustWait
  <2>2. CASE ~MoreSlowWork
    <3>1. /\ slow_io_pending_wq # <<>> /\ ~(Len(slow_io_pending_wq) > 1)
          /\ slow_io_pending_wq' = Tail(slow_io_pending_wq)
      BY <1>8, <2>2 DEF WorkerTakeSlow, MoreSlowWork
    <3>2. /\ Tail(slow_io_pending_wq) \in Seq(Slow)
          /\ Len(slow_io_pending_wq) \in Nat
          /\ Len(Tail(slow_io_pending_wq)) = Len(slow_io_pending_wq) - 1
          /\ Len(Tail(slow_io_pending_wq)) \in Nat
      BY <1>0, <3>1, HeadTailProperties, LenProperties
    <3>3. Tail(slow_io_pending_wq) = <<>>
      <4>1. Len(Tail(slow_io_pending_wq)) = 0
        BY <3>1, <3>2
      <4> QED
        BY <3>2, <4>1, EmptySeq
    <3> QED
      BY <3>1, <3>3
  <2> QED
    BY <2>1, <2>2
<1>9. ASSUME NEW l \in Loops, CancelUnlink(l)
      PROVE  SlowWorkIsAnnounced'
  <2>1. PICK x : x = cancelling[l]
    OBVIOUS
  <2>2. /\ x \in Works /\ wq' = Without(wq, x)
        /\ slow_io_pending_wq' = Without(slow_io_pending_wq, x)
    BY <1>9, <2>1, UnlinkMove DEF CancelUnlink
  <2>3. SlowMsg \in ToSet(wq) => SlowMsg \in ToSet(wq')
    BY <1>0, <2>2, WithoutFacts
  <2>4. Without(<<>>, x) = <<>>
    BY EmptyFacts DEF Without
  <2> QED
    BY <1>0, <2>2, <2>3, <2>4
<1>10. CASE CleanupPost
  <2>1. wq' = Append(wq, ExitMsg)
    BY <1>0, <1>10, PostExitFacts DEF CleanupPost
  <2>2. UNCHANGED slow_io_pending_wq
    BY <1>10 DEF CleanupPost, Post
  <2> QED
    BY <1>0, <1>2, <2>1, <2>2, ItemFacts
<1>11. ASSUME NEW t \in Workers,
              \/ WorkerLock(t) \/ WorkerWoken(t) \/ WorkerWait(t) \/ WorkerExit(t)
              \/ WorkerRun(t) \/ WorkerLockLoop(t) \/ WorkerReport(t)
              \/ SpuriousWakeup(t)
       PROVE  SlowWorkIsAnnounced'
  BY <1>1, <1>11 DEF WorkerLock, WorkerWoken, WorkerWait, WorkerExit, WorkerRun,
     WorkerLockLoop, WorkerReport, SpuriousWakeup
<1>12. ASSUME NEW l \in Loops,
              \/ \E w \in Works : CancelLock(l, w)
              \/ CancelLockLoop(l) \/ CancelBusy(l) \/ CancelMark(l)
              \/ CancelReport(l) \/ WorkDoneBegin(l) \/ WorkDoneStep(l)
       PROVE  SlowWorkIsAnnounced'
  BY <1>1, <1>12 DEF CancelLock, CancelLockLoop, CancelBusy, CancelMark,
     CancelReport, WorkDoneBegin, WorkDoneStep, WorkDoneMove, WorkDoneNext,
     CallbackReturn, WorkDoneEnd
<1>13. CASE CleanupJoin
  BY <1>1, <1>13 DEF CleanupJoin
<1> QED
  BY <1>3, <1>4, <1>6, <1>7, <1>8, <1>9, <1>10, <1>11, <1>12, <1>13 DEF Next,
     WorkerStep, WorkerLocked, CancelStep

(***************************************************************************)
(* The last worker goes to sleep only when it must, and whoever changes    *)
(* the queue while all sleep finds idle_threads > 0 and wakes one.         *)
(***************************************************************************)
LEMMA AsleepNext ==
  ASSUME Inv, Next
  PROVE  NotAllAsleep'
<1>0. /\ NotAllAsleep /\ TypeOK /\ pc \in [Workers -> PCs]
  BY DEF Inv, TypeOK, PCs
<1> DEFINE Asleep(p) == \A t \in Workers : p[t] = "wait"
<1>1. Asleep(pc) => idle_threads > 0
  <2>1. Asleep(pc) => Idle = Workers
    BY DEF Idle
  <2>2. Cardinality(Workers) \in Nat /\ Cardinality(Workers) # 0
    BY FS_CardinalityType, FS_EmptySet
  <2> QED
    BY <2>1, <2>2 DEF Inv, IdleInv
<1>2. ASSUME UNCHANGED <<pc, wq, slow_io_work_running>>
      PROVE  NotAllAsleep'
  BY <1>0, <1>2 DEF NotAllAsleep, MustWait, AtThreshold, slow_work_thread_threshold
<1>3. ASSUME NEW t \in Workers, pc'[t] # "wait"
      PROVE  NotAllAsleep'
  BY <1>3 DEF NotAllAsleep
<1>4. ASSUME NEW t \in Workers,
             \/ WorkerLock(t) \/ WorkerWoken(t) \/ SpuriousWakeup(t)
             \/ WorkerTake(t) \/ WorkerDeferSlow(t) \/ WorkerDropSlow(t)
             \/ WorkerRun(t) \/ WorkerLockLoop(t) \/ WorkerReport(t)
      PROVE  NotAllAsleep'
  <2>1. pc'[t] # "wait"
    BY <1>0, <1>4 DEF WorkerLock, WorkerWoken, SpuriousWakeup, WorkerTake,
       WorkerDeferSlow, WorkerDropSlow, WorkerRun, WorkerLockLoop, WorkerReport
  <2> QED
    BY <1>3, <2>1
<1>5. ASSUME NEW t \in Workers, WorkerWait(t)
      PROVE  NotAllAsleep'
  BY <1>5 DEF WorkerWait, NotAllAsleep, MustWait, AtThreshold,
     slow_work_thread_threshold
<1>6. ASSUME NEW t \in Workers, WorkerExit(t)
      PROVE  NotAllAsleep'
  <2>1. [pc EXCEPT ![t] = "exited"] \in [Workers -> PCs]
    BY <1>0 DEF PCs
  <2>2. \E u \in Workers : pc'[u] # "wait"
    BY <1>6, <2>1, SignalFacts DEF WorkerExit
  <2> QED
    BY <1>3, <2>2
<1>7. ASSUME NEW t \in Workers, WorkerTakeSlow(t)
      PROVE  NotAllAsleep'
  <2>1. [pc EXCEPT ![t] = "run"] \in [Workers -> PCs]
    BY <1>0 DEF PCs
  <2>2. \/ pc' \in SignalIfIdle([pc EXCEPT ![t] = "run"])
        \/ pc' = [pc EXCEPT ![t] = "run"]
    BY <1>7 DEF WorkerTakeSlow
  <2>3. Woke([pc EXCEPT ![t] = "run"], pc')
    BY <2>1, <2>2, SignalIfIdleFacts, ZenonT(30) DEF Woke
  <2>4. pc'[t] # "wait"
    BY <1>0, <2>3 DEF Woke
  <2> QED
    BY <1>3, <2>4
<1>8. ASSUME NEW l \in Loops, NEW x \in Works, Submit(l, x)
      PROVE  NotAllAsleep'
  <2>1. /\ Woke(pc, pc') /\ UNCHANGED slow_io_work_running
        /\ wq' # wq /\ idle_threads > 0 => \E t \in Workers : pc'[t] # "wait"
    BY <1>0, <1>8, PostWorkFacts DEF Submit, Post
  <2>2. CASE Asleep(pc')
    <3>1. Asleep(pc) /\ UNCHANGED pc
      BY <1>0, <2>1, <2>2 DEF Woke
    <3>2. UNCHANGED wq
      BY <1>1, <2>1, <2>2, <3>1
    <3> QED
      BY <1>2, <2>1, <3>1, <3>2
  <2>3. CASE ~Asleep(pc')
    BY <1>3, <2>3
  <2> QED
    BY <2>2, <2>3
<1>9. CASE CleanupPost
  <2>1. Woke(pc, pc') /\ (idle_threads > 0 => \E t \in Workers : pc'[t] # "wait")
    BY <1>0, <1>9, PostExitFacts DEF CleanupPost
  <2>2. \E t \in Workers : pc'[t] # "wait"
    BY <1>1, <2>1 DEF Woke
  <2> QED
    BY <1>3, <2>2
<1>10. ASSUME NEW l \in Loops, CancelUnlink(l)
       PROVE  NotAllAsleep'
  <2>1. PICK x : x = cancelling[l]
    OBVIOUS
  <2>2. /\ x \in Works /\ wq' = Without(wq, x) /\ UNCHANGED <<pc, slow_io_work_running>>
    BY <1>10, <2>1, UnlinkMove DEF CancelUnlink
  <2>3. Without(<<>>, x) = <<>>
    BY EmptyFacts DEF Without
  <2>4. Without(<<SlowMsg>>, x) = <<SlowMsg>>
    <3>1. ToSet(<<SlowMsg>>) = {SlowMsg}
      BY DEF ToSet
    <3> QED
      BY <2>2, <3>1, ItemFacts DEF Without
  <2> QED
    BY <1>0, <2>2, <2>3, <2>4 DEF NotAllAsleep, MustWait, AtThreshold,
       slow_work_thread_threshold
<1>11. ASSUME NEW l \in Loops,
              \/ \E w \in Works : CancelLock(l, w)
              \/ CancelLockLoop(l) \/ CancelBusy(l) \/ CancelMark(l)
              \/ CancelReport(l) \/ WorkDoneBegin(l) \/ WorkDoneStep(l)
       PROVE  NotAllAsleep'
  BY <1>2, <1>11 DEF CancelLock, CancelLockLoop, CancelBusy, CancelMark,
     CancelReport, WorkDoneBegin, WorkDoneStep, WorkDoneMove, WorkDoneNext,
     CallbackReturn, WorkDoneEnd
<1>12. CASE CleanupJoin
  BY <1>2, <1>12 DEF CleanupJoin
<1> QED
  BY <1>4, <1>5, <1>6, <1>7, <1>8, <1>9, <1>10, <1>11, <1>12 DEF Next,
     WorkerStep, WorkerLocked, CancelStep

-----------------------------------------------------------------------------
(***************************************************************************)
(* The invariant is inductive.                                             *)
(***************************************************************************)
LEMMA InvInit ==
  ASSUME Init
  PROVE  Inv
<1>1. Cardinality(Workers) \in Nat
  BY FS_CardinalityType
<1>2. TypeOK
  BY DEF Init, TypeOK
<1>3. PlaceInv
  BY EmptyFacts DEF Init, PlaceInv, Nowhere, AtWq, AtSlow, AtWorker, AtLoop,
     AtDone, AtCancel
<1>4. OnceInv /\ HomeInv
  BY EmptyFacts DEF Init, OnceInv, HomeInv
<1>5. StateInv
  BY EmptyFacts DEF Init, StateInv, StateOf, AtWq, AtSlow, AtWorker, AtLoop,
     AtDone, AtCancel
<1>6. WorkerInv /\ LoopInv
  BY DEF Init, WorkerInv, WorkerOf, LoopInv
<1>7. SlowInv
  BY EmptyFacts DEF Init, SlowInv, AtWq
<1>8. IdleInv
  <2>1. Idle = {}
    BY DEF Init, Idle
  <2> QED
    BY <2>1, FS_EmptySet DEF Init, IdleInv
<1>9. SlowWorkIsBounded
  <2>1. {t \in Workers : is_slow_work[t]} = {}
    BY DEF Init
  <2>2. slow_work_thread_threshold \in Nat
    BY <1>1 DEF slow_work_thread_threshold
  <2> QED
    <3>1. Cardinality({t \in Workers : is_slow_work[t]}) = 0
      BY <2>1, FS_EmptySet
    <3>2. slow_io_work_running = 0
      BY DEF Init
    <3> QED
      BY <2>2, <3>1, <3>2 DEF SlowWorkIsBounded
<1>10. SlowWorkIsAnnounced /\ NotAllAsleep
  BY DEF Init, SlowWorkIsAnnounced, NotAllAsleep, MustWait
<1> QED
  BY <1>2, <1>3, <1>4, <1>5, <1>6, <1>7, <1>8, <1>9, <1>10 DEF Inv

(***************************************************************************)
(* Every step keeps the invariant, a stutter too.                          *)
(***************************************************************************)
LEMMA InvNext ==
  ASSUME Inv, [Next]_vars
  PROVE  Inv'
<1>1. CASE Next
  BY <1>1, TypeNext, PlaceNext, OnceNext, HomeNext, StateNext, WorkerNext,
     LoopNext, SlowNext, IdleNext, BoundNext, AnnouncedNext, AsleepNext DEF Inv
<1>2. CASE UNCHANGED vars
  <2>1. TypeOK'
    BY <1>2 DEF Inv, TypeOK
  <2>2. UNCHANGED places /\ UNCHANGED <<req, work, linked, fate, is_slow_work, pc>>
    BY <1>2 DEF places
  <2>3. \A w \in Works : Stay(w)
    BY <2>2, NoMove
  <2>31. PlaceInv'
    <3> USE DEF PlaceInv, OnlyWq, OnlySlow, OnlyWorker, OnlyLoop, OnlyDone,
                OnlyCancel, Nowhere
    <3>1. PlaceInv
      BY DEF Inv
    <3> QED
      BY <2>2, <2>3, <3>1 DEF Stay
  <2>4. OnceInv' /\ HomeInv'
    BY <1>2 DEF Inv, OnceInv, HomeInv
  <2>5. StateInv'
    <3>1. \A w \in Works : StateOf(w)
      BY DEF Inv, StateInv
    <3>2. \A w \in Works : StateOf(w)'
      BY <2>2, <2>3, <3>1 DEF Stay, StateOf, places
    <3> QED
      BY <3>2 DEF StateInv
  <2>6. WorkerInv' /\ LoopInv'
    BY <1>2 DEF Inv, WorkerInv, WorkerOf, LoopInv
  <2>7. SlowInv'
    <3>1. SlowInv
      BY DEF Inv
    <3> QED
      BY <2>2, <2>3, <3>1 DEF Stay, SlowInv, places
  <2>8. IdleInv' /\ SlowWorkIsBounded'
    BY <1>2 DEF Inv, IdleInv, Idle, SlowWorkIsBounded, slow_work_thread_threshold
  <2>9. SlowWorkIsAnnounced' /\ NotAllAsleep'
    BY <1>2 DEF Inv, SlowWorkIsAnnounced, NotAllAsleep, MustWait, AtThreshold,
       slow_work_thread_threshold
  <2> QED
    BY <2>1, <2>31, <2>4, <2>5, <2>6, <2>7, <2>8, <2>9 DEF Inv
<1> QED
  BY <1>1, <1>2

(***************************************************************************)
(* The invariant holds in every reachable state of the pool.               *)
(***************************************************************************)
THEOREM InvAlways == Spec => []Inv
<1>1. Init => Inv
  BY InvInit
<1>2. Inv /\ [Next]_vars => Inv'
  BY InvNext
<1> QED
  BY <1>1, <1>2, PTL DEF Spec

-----------------------------------------------------------------------------
(* What follows from the invariant.                                        *)

(***************************************************************************)
(* The variables keep their types in every reachable state: among others,  *)
(* idle_threads-- and slow_io_work_running-- in worker never go below      *)
(* zero, where the unsigned counters of threadpool.c would wrap.           *)
(***************************************************************************)
THEOREM TypeCorrect == Spec => []TypeOK
<1>1. Inv => TypeOK
  BY DEF Inv
<1> QED
  BY <1>1, InvAlways, PTL

(***************************************************************************)
(* slow_io_work_running counts the workers at slow work and is never above *)
(* half of the pool, for pools of any size: worker() increments it only    *)
(* after it tested the threshold under the same lock.                      *)
(***************************************************************************)
THEOREM SlowBound == Spec => []SlowWorkIsBounded
<1>1. Inv => SlowWorkIsBounded
  BY DEF Inv
<1> QED
  BY <1>1, InvAlways, PTL

(***************************************************************************)
(* The slow queue is never without the message in wq that makes a worker   *)
(* look there, although worker() removes the message, uv__work_cancel      *)
(* empties the queue behind its back and post adds the message only when   *)
(* it is not queued.                                                       *)
(***************************************************************************)
THEOREM SlowAnnounced == Spec => []SlowWorkIsAnnounced
<1>1. Inv => SlowWorkIsAnnounced
  BY DEF Inv
<1> QED
  BY <1>1, InvAlways, PTL

(***************************************************************************)
(* The workers are never all in uv_cond_wait with work they could take:    *)
(* the signal of post, sent only when idle_threads > 0, is enough.         *)
(***************************************************************************)
THEOREM SomeoneIsUp == Spec => []NotAllAsleep
<1>1. Inv => NotAllAsleep
  BY DEF Inv
<1> QED
  BY <1>1, InvAlways, PTL

(***************************************************************************)
(* A worker calls the function of a work that nobody cancelled and that    *)
(* never ran, and not uv__cancelled, which aborts: uv__work_cancel writes  *)
(* w->work without the mutex, but only after it took the work out of every *)
(* queue.                                                                  *)
(***************************************************************************)
THEOREM RunsOnlyQueuedWork == Spec => []NeverRunsCancelled
<1>1. Inv => NeverRunsCancelled
  <2> SUFFICES ASSUME Inv, NEW t \in Workers, pc[t] = "run"
               PROVE  work[job[t]] = "work" /\ fate[job[t]] = "none"
    BY DEF NeverRunsCancelled
  <2>1. job[t] \in Works /\ fate[job[t]] = "none"
    BY DEF Inv, TypeOK, WorkerInv, WorkerOf
  <2>2. AtWorker(job[t])
    BY <2>1 DEF AtWorker
  <2> QED
    BY <2>1, <2>2 DEF Inv, StateInv, StateOf
<1> QED
  BY <1>1, InvAlways, PTL

(***************************************************************************)
(* The positions of a work in a queue: none, or one if it is there once.   *)
(***************************************************************************)
LEMMA PositionsFacts ==
  ASSUME NEW S, NEW q \in Seq(S), NEW w \in Works
  PROVE  /\ w \notin ToSet(q) => Positions(q, w) = {}
         /\ w \in ToSet(q) /\ Once(q) => \E i : Positions(q, w) = {i}
<1>1. w \in ToSet(q) <=> \E i \in 1 .. Len(q) : q[i] = w
  BY InQueue
<1>2. ASSUME w \in ToSet(q), Once(q)
      PROVE  \E i : Positions(q, w) = {i}
  <2>1. PICK i \in 1 .. Len(q) : q[i] = w
    BY <1>1, <1>2
  <2>2. \A j \in 1 .. Len(q) : q[j] = w => j = i
    BY <1>2, <2>1 DEF Once
  <2>3. Positions(q, w) = {i}
    BY <2>1, <2>2 DEF Positions
  <2> QED
    BY <2>3
<1> QED
  BY <1>1, <1>2 DEF Positions

(***************************************************************************)
(* A work is in exactly one place from uv__work_submit to its done         *)
(* callback, and otherwise in none.                                        *)
(***************************************************************************)
THEOREM OnePlace == Spec => []WorkInOnePlace
<1>1. ASSUME Inv, NEW w \in Works
      PROVE  Cardinality(Places(w)) = IF req[w] = "pending" THEN 1 ELSE 0
  <2> DEFINE home == LoopOf[w]
             inWq == {"wq"} \X Positions(wq, w)
             inSlow == {"slow"} \X Positions(slow_io_pending_wq, w)
             withWorker == {"worker"} \X {t \in Workers : job[t] = w}
             inLoop == {"loop"} \X UNION {{l} \X Positions(loop_wq[l], w) : l \in Loops}
             inDone == {"done"} \X UNION {{l} \X Positions(done_wq[l], w) : l \in Loops}
             cancelled == {"cancel"} \X {l \in Loops : cancelling[l] = w
                                          /\ cpc[l] \in {"unlinked", "marked"}}
  <2>0. /\ wq \in Seq(Items) /\ slow_io_pending_wq \in Seq(Slow)
        /\ loop_wq \in [Loops -> Seq(Works)] /\ done_wq \in [Loops -> Seq(Works)]
        /\ OnceInv /\ HomeInv
    BY <1>1 DEF Inv, TypeOK, Items
  <2>01. home \in Loops /\ w # None
    OBVIOUS
  <2>1. (~AtWq(w) => inWq = {}) /\ (AtWq(w) => \E p : inWq = {p})
    <3>1. ~AtWq(w) => Positions(wq, w) = {}
      BY <2>0, PositionsFacts DEF AtWq
    <3>2. AtWq(w) => \E i : Positions(wq, w) = {i}
      BY <2>0, PositionsFacts DEF AtWq, OnceInv
    <3>3. \A i : {"wq"} \X {i} = {<<"wq", i>>}
      OBVIOUS
    <3> QED
      BY <3>1, <3>2, <3>3
  <2>2. (~AtSlow(w) => inSlow = {}) /\ (AtSlow(w) => \E p : inSlow = {p})
    <3>1. ~AtSlow(w) => Positions(slow_io_pending_wq, w) = {}
      BY <2>0, PositionsFacts DEF AtSlow
    <3>2. AtSlow(w) => \E i : Positions(slow_io_pending_wq, w) = {i}
      BY <2>0, PositionsFacts DEF AtSlow, OnceInv
    <3>3. \A i : {"slow"} \X {i} = {<<"slow", i>>}
      OBVIOUS
    <3> QED
      BY <3>1, <3>2, <3>3
  <2>3. (~AtWorker(w) => withWorker = {}) /\ (AtWorker(w) => \E p : withWorker = {p})
    <3>1. ASSUME AtWorker(w)
          PROVE  \E t : {u \in Workers : job[u] = w} = {t}
      <4>1. PICK t \in Workers : job[t] = w
        BY <3>1 DEF AtWorker
      <4>2. \A u \in Workers : job[u] = w => u = t
        BY <2>0, <2>01, <4>1 DEF OnceInv
      <4>3. {u \in Workers : job[u] = w} = {t}
        BY <4>1, <4>2
      <4> QED
        BY <4>3
    <3>2. \A i : {"worker"} \X {i} = {<<"worker", i>>}
      OBVIOUS
    <3> QED
      BY <3>1, <3>2 DEF AtWorker
  <2>4. (~AtLoop(w) => inLoop = {}) /\ (AtLoop(w) => \E p : inLoop = {p})
    <3>1. \A l \in Loops : (l # home \/ ~AtLoop(w)) => Positions(loop_wq[l], w) = {}
      <4>1. ASSUME NEW l \in Loops, l # home \/ ~AtLoop(w)
            PROVE  Positions(loop_wq[l], w) = {}
        <5>1. loop_wq[l] \in Seq(Works) /\ w \notin ToSet(loop_wq[l])
          BY <2>0, <4>1 DEF HomeInv, AtLoop
        <5> QED
          BY <5>1, PositionsFacts
      <4> QED
        BY <4>1
    <3>2. AtLoop(w) => \E i : Positions(loop_wq[home], w) = {i}
      <4>1. loop_wq[home] \in Seq(Works) /\ Once(loop_wq[home])
        BY <2>0, <2>01 DEF OnceInv
      <4> QED
        BY <4>1, PositionsFacts DEF AtLoop
    <3>3. ~AtLoop(w) => UNION {{l} \X Positions(loop_wq[l], w) : l \in Loops} = {}
      BY <3>1
    <3>4. ASSUME NEW i, AtLoop(w), Positions(loop_wq[home], w) = {i}
          PROVE  UNION {{l} \X Positions(loop_wq[l], w) : l \in Loops} = {<<home, i>>}
      <4>1. \A l \in Loops : l # home => {l} \X Positions(loop_wq[l], w) = {}
        BY <3>1
      <4>2. {home} \X Positions(loop_wq[home], w) = {<<home, i>>}
        BY <3>4
      <4> QED
        BY <2>01, <4>1, <4>2
    <3>5. \A i : {"loop"} \X {i} = {<<"loop", i>>}
      OBVIOUS
    <3> QED
      BY <3>2, <3>3, <3>4, <3>5
  <2>5. (~AtDone(w) => inDone = {}) /\ (AtDone(w) => \E p : inDone = {p})
    <3>1. \A l \in Loops : (l # home \/ ~AtDone(w)) => Positions(done_wq[l], w) = {}
      <4>1. ASSUME NEW l \in Loops, l # home \/ ~AtDone(w)
            PROVE  Positions(done_wq[l], w) = {}
        <5>1. done_wq[l] \in Seq(Works) /\ w \notin ToSet(done_wq[l])
          BY <2>0, <4>1 DEF HomeInv, AtDone
        <5> QED
          BY <5>1, PositionsFacts
      <4> QED
        BY <4>1
    <3>2. AtDone(w) => \E i : Positions(done_wq[home], w) = {i}
      <4>1. done_wq[home] \in Seq(Works) /\ Once(done_wq[home])
        BY <2>0, <2>01 DEF OnceInv
      <4> QED
        BY <4>1, PositionsFacts DEF AtDone
    <3>3. ~AtDone(w) => UNION {{l} \X Positions(done_wq[l], w) : l \in Loops} = {}
      BY <3>1
    <3>4. ASSUME NEW i, AtDone(w), Positions(done_wq[home], w) = {i}
          PROVE  UNION {{l} \X Positions(done_wq[l], w) : l \in Loops} = {<<home, i>>}
      <4>1. \A l \in Loops : l # home => {l} \X Positions(done_wq[l], w) = {}
        BY <3>1
      <4>2. {home} \X Positions(done_wq[home], w) = {<<home, i>>}
        BY <3>4
      <4> QED
        BY <2>01, <4>1, <4>2
    <3>5. \A i : {"done"} \X {i} = {<<"done", i>>}
      OBVIOUS
    <3> QED
      BY <3>2, <3>3, <3>4, <3>5
  <2>6. (~AtCancel(w) => cancelled = {}) /\ (AtCancel(w) => \E p : cancelled = {p})
    <3>1. \A l \in Loops : cancelling[l] = w => l = home
      BY <2>0, <2>01 DEF HomeInv
    <3>2. AtCancel(w) => {l \in Loops : cancelling[l] = w
                            /\ cpc[l] \in {"unlinked", "marked"}} = {home}
      BY <2>01, <3>1 DEF AtCancel
    <3>3. ~AtCancel(w) => {l \in Loops : cancelling[l] = w
                             /\ cpc[l] \in {"unlinked", "marked"}} = {}
      BY <2>01, <3>1 DEF AtCancel
    <3>4. {"cancel"} \X {home} = {<<"cancel", home>>} /\ {"cancel"} \X {} = {}
      OBVIOUS
    <3> QED
      BY <3>2, <3>3, <3>4
  <2> DEFINE all == inWq \cup inSlow \cup withWorker \cup inLoop \cup inDone
                    \cup cancelled
  <2>7. Places(w) = all
    BY DEF Places
  <2> HIDE DEF inWq, inSlow, withWorker, inLoop, inDone, cancelled
  <2>8. CASE req[w] = "pending"
    <3>0. \/ OnlyWq(w) \/ OnlySlow(w) \/ OnlyWorker(w)
          \/ OnlyLoop(w) \/ OnlyDone(w) \/ OnlyCancel(w)
      BY <1>1, <2>8 DEF Inv, PlaceInv
    <3>1. \E p : all = {p}
      <4>1. CASE OnlyWq(w)
        BY <2>1, <2>2, <2>3, <2>4, <2>5, <2>6, <4>1 DEF OnlyWq
      <4>2. CASE OnlySlow(w)
        BY <2>1, <2>2, <2>3, <2>4, <2>5, <2>6, <4>2 DEF OnlySlow
      <4>3. CASE OnlyWorker(w)
        BY <2>1, <2>2, <2>3, <2>4, <2>5, <2>6, <4>3 DEF OnlyWorker
      <4>4. CASE OnlyLoop(w)
        BY <2>1, <2>2, <2>3, <2>4, <2>5, <2>6, <4>4 DEF OnlyLoop
      <4>5. CASE OnlyDone(w)
        BY <2>1, <2>2, <2>3, <2>4, <2>5, <2>6, <4>5 DEF OnlyDone
      <4>6. CASE OnlyCancel(w)
        BY <2>1, <2>2, <2>3, <2>4, <2>5, <2>6, <4>6 DEF OnlyCancel
      <4> QED
        BY <3>0, <4>1, <4>2, <4>3, <4>4, <4>5, <4>6
    <3> QED
      BY <2>7, <2>8, <3>1, FS_Singleton
  <2>9. CASE req[w] # "pending"
    <3>1. Nowhere(w)
      BY <1>1, <2>9 DEF Inv, PlaceInv
    <3>2. all = {}
      BY <2>1, <2>2, <2>3, <2>4, <2>5, <2>6, <3>1 DEF Nowhere
    <3> QED
      BY <2>7, <2>9, <3>2, FS_EmptySet
  <2> QED
    BY <2>8, <2>9
<1>2. Inv => WorkInOnePlace
  BY <1>1 DEF WorkInOnePlace
<1> QED
  BY <1>2, InvAlways, PTL

(***************************************************************************)
(* The done callback is told UV_ECANCELED only for a work that uv_cancel   *)
(* took away and that never ran, and 0 only for one that ran.              *)
(***************************************************************************)
THEOREM Truthful == Spec => StatusIsTruthful
<1> DEFINE Told(w) == \/ work[w] = "cancelled" /\ fate[w] = "cancelled"
                      \/ work[w] = "null" /\ fate[w] = "ran"
<1>1. ASSUME Inv, Next, NEW w \in Works, req[w] = "pending", req'[w] = "free"
      PROVE  Told(w)
  <2>1. ASSUME NEW l \in Loops, NEW x \in Works, Submit(l, x)
        PROVE  FALSE
    <3>1. req' = [req EXCEPT ![x] = "pending"] /\ req \in [Works -> {"free", "pending"}]
      BY <1>1, <2>1 DEF Submit, Inv, TypeOK
    <3> QED
      BY <1>1, <3>1
  <2>2. ASSUME NEW l \in Loops, WorkDoneNext(l)
        PROVE  Told(w)
    <3>1. PICK x : x = Head(done_wq[l])
      OBVIOUS
    <3>2. req' = [req EXCEPT ![x] = "free"] /\ req \in [Works -> {"free", "pending"}]
      BY <1>1, <2>2, <3>1 DEF WorkDoneNext, Inv, TypeOK
    <3>3. w = x
      BY <1>1, <3>2
    <3>4. AtDone(w)
      BY <1>1, <2>2, <3>1, <3>3, NextMove DEF OnlyDone
    <3> QED
      BY <1>1, <3>4 DEF Inv, StateInv, StateOf
  <2>3. ASSUME UNCHANGED req
        PROVE  FALSE
    BY <1>1, <2>3
  <2>4. ASSUME NEW t \in Workers, WorkerTake(t) \/ WorkerTakeSlow(t) \/ WorkerReport(t)
        PROVE  FALSE
    BY <2>3, <2>4 DEF WorkerTake, WorkerTakeSlow, WorkerReport
  <2>5. ASSUME NEW l \in Loops, CancelUnlink(l) \/ CancelReport(l) \/ WorkDoneMove(l)
        PROVE  FALSE
    BY <2>3, <2>5 DEF CancelUnlink, CancelReport, WorkDoneMove
  <2>6. Moving
    BY <1>1, <2>3, StillSteps
  <2> QED
    BY <2>1, <2>2, <2>4, <2>5, <2>6 DEF Moving
<1>2. Inv /\ [Next]_vars =>
        [\A w \in Works : req[w] = "pending" /\ req'[w] = "free" => Told(w)]_vars
  BY <1>1
<1> QED
  BY <1>2, InvAlways, PTL DEF Spec, StatusIsTruthful

-----------------------------------------------------------------------------
(***************************************************************************)
(* The refinement of WorkRequest.  In each place a work stands for one     *)
(* state of its request.                                                   *)
(***************************************************************************)
StandsFor(w) ==
  /\ Nowhere(w) => RequestState(w) = "free"
  /\ OnlyWq(w) \/ OnlySlow(w) => RequestState(w) = "queued"
  /\ OnlyWorker(w) => RequestState(w) = "running"
  /\ OnlyLoop(w) \/ OnlyDone(w) => RequestState(w) \in {"ran", "cancelled"}
  /\ OnlyCancel(w) => RequestState(w) = "cancelled"
  /\ RequestState(w) = "running" => AtWorker(w)

(***************************************************************************)
(* The place of a work tells the state of its request.                     *)
(***************************************************************************)
LEMMA Standing == Inv => \A w \in Works : StandsFor(w)
<1> SUFFICES ASSUME Inv, NEW w \in Works
             PROVE  StandsFor(w)
  OBVIOUS
<1>0. /\ StateOf(w) /\ req[w] \in {"free", "pending"}
      /\ \A t \in Workers : WorkerOf(t)
  BY DEF Inv, TypeOK, StateInv, WorkerInv
<1>1. Nowhere(w) <=> req[w] = "free"
  BY <1>0 DEF Inv, PlaceInv, Nowhere, OnlyWq, OnlySlow, OnlyWorker, OnlyLoop,
     OnlyDone, OnlyCancel
<1>2. CASE Nowhere(w)
  <2>1. RequestState(w) = "free"
    BY <1>1, <1>2 DEF RequestState
  <2> QED
    BY <1>2, <2>1 DEF StandsFor, Nowhere, OnlyWq, OnlySlow, OnlyWorker, OnlyLoop,
       OnlyDone, OnlyCancel
<1>3. CASE OnlyWq(w) \/ OnlySlow(w)
  <2>1. /\ req[w] = "pending" /\ fate[w] = "none" /\ work[w] = "work"
        /\ ~\E t \in Workers : job[t] = w
    BY <1>0, <1>1, <1>3 DEF Nowhere, OnlyWq, OnlySlow, StateOf, AtWorker
  <2>2. RequestState(w) = "queued"
    BY <2>1 DEF RequestState
  <2> QED
    BY <1>3, <2>2 DEF StandsFor, Nowhere, OnlyWq, OnlySlow, OnlyWorker, OnlyLoop,
       OnlyDone, OnlyCancel
<1>4. CASE OnlyWorker(w)
  <2>1. PICK t \in Workers : job[t] = w
    BY <1>4 DEF OnlyWorker, AtWorker
  <2>2. fate[w] # "cancelled"
    BY <1>0, <2>1 DEF WorkerOf
  <2>3. req[w] = "pending" /\ work[w] = "work"
    BY <1>0, <1>1, <1>4 DEF Nowhere, OnlyWorker, StateOf
  <2>4. RequestState(w) = "running"
    BY <2>1, <2>2, <2>3 DEF RequestState
  <2> QED
    BY <1>4, <2>4 DEF StandsFor, Nowhere, OnlyWq, OnlySlow, OnlyWorker, OnlyLoop,
       OnlyDone, OnlyCancel
<1>5. CASE OnlyLoop(w) \/ OnlyDone(w)
  <2>1. /\ req[w] = "pending"
        /\ \/ work[w] = "null" /\ fate[w] = "ran"
           \/ work[w] = "cancelled" /\ fate[w] = "cancelled"
    BY <1>0, <1>1, <1>5 DEF Nowhere, OnlyLoop, OnlyDone, StateOf
  <2>2. RequestState(w) \in {"ran", "cancelled"}
    BY <2>1 DEF RequestState
  <2> QED
    BY <1>5, <2>2 DEF StandsFor, Nowhere, OnlyWq, OnlySlow, OnlyWorker, OnlyLoop,
       OnlyDone, OnlyCancel
<1>6. CASE OnlyCancel(w)
  <2>1. req[w] = "pending" /\ fate[w] = "cancelled"
    BY <1>0, <1>1, <1>6 DEF Nowhere, OnlyCancel, StateOf
  <2>2. RequestState(w) = "cancelled"
    BY <2>1 DEF RequestState
  <2> QED
    BY <1>6, <2>2 DEF StandsFor, Nowhere, OnlyWq, OnlySlow, OnlyWorker, OnlyLoop,
       OnlyDone, OnlyCancel
<1> QED
  BY <1>1, <1>2, <1>3, <1>4, <1>5, <1>6 DEF Inv, PlaceInv

(***************************************************************************)
(* WorkRequest counts as this module does: its Cardinality, seen through   *)
(* the instance, is the Cardinality of the other lemmas.                   *)
(***************************************************************************)
LEMMA SameCount == \A S : Abs!Cardinality(S) = Cardinality(S)
  BY Zenon DEF Abs!Cardinality, Cardinality

(***************************************************************************)
(* How many requests are running: never more than there are workers with a *)
(* work, and so many slow ones as workers that say so.                     *)
(***************************************************************************)
LEMMA RunningFacts ==
  ASSUME Inv
  PROVE  /\ \A t \in Workers : job[t] = None =>
              Cardinality(Abs!Running) < Cardinality(Workers)
         /\ IsFiniteSet(Abs!Running \cap Slow)
         /\ Cardinality(Abs!Running \cap Slow) <= slow_io_work_running
<1>0. /\ job \in [Workers -> Works \cup {None}]
      /\ \A w \in Abs!Running : w \in Works /\ \E t \in Workers : job[t] = w
      /\ \A t \in Workers : job[t] \in Slow => is_slow_work[t]
  BY Standing DEF Inv, TypeOK, SlowInv, StandsFor, AtWorker, Abs!Running
<1> DEFINE at == [w \in Abs!Running |-> CHOOSE t \in Workers : job[t] = w]
<1>1. \A w \in Abs!Running : at[w] \in Workers /\ job[at[w]] = w
  BY <1>0
<1> HIDE DEF at
<1>2. ASSUME NEW t \in Workers, job[t] = None
      PROVE  Cardinality(Abs!Running) < Cardinality(Workers)
  <2>1. \A w \in Abs!Running : at[w] \in Workers \ {t}
    BY <1>0, <1>1, <1>2
  <2>2. at \in Injection(Abs!Running, Workers \ {t})
    <3>1. at \in [Abs!Running -> Workers \ {t}]
      BY <2>1 DEF at
    <3>2. \A v, w \in Abs!Running : at[v] = at[w] => v = w
      BY <1>1
    <3>3. IsInjective(at)
      BY <3>1, <3>2 DEF IsInjective
    <3> QED
      BY <3>1, <3>3 DEF Injection
  <2>3. /\ IsFiniteSet(Workers \ {t}) /\ Cardinality(Workers) \in Nat
        /\ Cardinality(Workers \ {t}) = Cardinality(Workers) - 1
    BY FS_RemoveElement, FS_CardinalityType
  <2>4. Cardinality(Abs!Running) <= Cardinality(Workers \ {t})
        /\ IsFiniteSet(Abs!Running)
    BY <2>2, <2>3, FS_Injection
  <2>5. Cardinality(Abs!Running) \in Nat
    BY <2>4, FS_CardinalityType
  <2> QED
    BY <2>3, <2>4, <2>5
<1>3. /\ IsFiniteSet(Abs!Running \cap Slow)
      /\ Cardinality(Abs!Running \cap Slow) <= slow_io_work_running
  <2> DEFINE S == Abs!Running \cap Slow
             R == {t \in Workers : is_slow_work[t]}
             f == [w \in S |-> at[w]]
  <2>1. \A w \in S : at[w] \in R
    BY <1>0, <1>1
  <2>2. f \in Injection(S, R)
    <3>1. f \in [S -> R]
      BY <2>1
    <3>2. \A v, w \in S : f[v] = f[w] => v = w
      BY <1>1
    <3>3. IsInjective(f)
      BY <3>1, <3>2 DEF IsInjective
    <3> QED
      BY <3>1, <3>3 DEF Injection
  <2>3. IsFiniteSet(R)
    BY FS_Subset
  <2> HIDE DEF S, R, f
  <2>4. IsFiniteSet(S) /\ Cardinality(S) <= Cardinality(R)
    BY <2>2, <2>3, FS_Injection
  <2>5. slow_io_work_running = Cardinality(R)
    BY DEF Inv, SlowWorkIsBounded, R
  <2> QED
    BY <2>4, <2>5 DEF S
<1> QED
  BY <1>2, <1>3

(***************************************************************************)
(* Every step of the pool is a step of one request, or of none.            *)
(***************************************************************************)
Requests == [w \in Works |-> RequestState(w)]

(***************************************************************************)
(* Given the invariant, each step is a step of WorkRequest or leaves every *)
(* request as it is.                                                       *)
(***************************************************************************)
LEMMA RequestStep ==
  ASSUME Inv, Inv', Next
  PROVE  Abs!Next \/ UNCHANGED Requests
<1>0. \A w \in Works : StandsFor(w)
  BY Standing
<1>01. Inv' => (\A w \in Works : StandsFor(w))'
  BY Standing, PTL
<1>02. \A w \in Works : StandsFor(w)'
  BY <1>01
<1>03. /\ req \in [Works -> {"free", "pending"}]
       /\ work \in [Works -> {"unset", "work", "cancelled", "null"}]
       /\ fate \in [Works -> {"none", "ran", "cancelled"}]
  BY DEF Inv, TypeOK
<1>1. ASSUME NEW w \in Works, Stay(w), req'[w] = req[w], fate'[w] = fate[w],
             work'[w] = work[w]
      PROVE  RequestState(w)' = RequestState(w)
  BY <1>1 DEF RequestState, Stay, AtWorker
<1>2. ASSUME NEW x \in Works, \A w \in Works \ {x} : Stay(w),
             \A w \in Works \ {x} :
               req'[w] = req[w] /\ fate'[w] = fate[w] /\ work'[w] = work[w]
      PROVE  Requests' = [Requests EXCEPT ![x] = RequestState(x)']
  BY <1>1, <1>2 DEF Requests
<1>3. ASSUME NEW x \in Works, \A w \in Works \ {x} : Stay(w),
             \A w \in Works \ {x} :
               req'[w] = req[w] /\ fate'[w] = fate[w] /\ work'[w] = work[w],
             RequestState(x)' = RequestState(x)
      PROVE  UNCHANGED Requests
  BY <1>1, <1>3 DEF Requests
<1>4. ASSUME NEW l \in Loops, NEW x \in Works, Submit(l, x)
      PROVE  Abs!Next
  <2>1. /\ OnlySlow(x)' \/ OnlyWq(x)'
        /\ Nowhere(x) /\ \A w \in Works \ {x} : Stay(w)
    BY <1>4, SubmitMove
  <2>2. \A w \in Works \ {x} :
          req'[w] = req[w] /\ fate'[w] = fate[w] /\ work'[w] = work[w]
    BY <1>03, <1>4 DEF Submit
  <2>3. RequestState(x) = "free" /\ RequestState(x)' = "queued"
    BY <1>0, <1>02, <2>1 DEF StandsFor
  <2>4. Requests' = [Requests EXCEPT ![x] = "queued"]
    BY <1>2, <2>1, <2>2, <2>3
  <2>5. Abs!Submit(x)
    BY <2>3, <2>4 DEF Requests, Abs!Submit
  <2> QED
    BY <2>5 DEF Abs!Next
<1>5. ASSUME NEW t \in Workers, WorkerTake(t)
      PROVE  Abs!Next
  <2>1. PICK x : x = Head(wq)
    OBVIOUS
  <2>2. /\ x \in Works /\ OnlyWq(x) /\ OnlyWorker(x)'
        /\ \A w \in Works \ {x} : Stay(w)
    BY <1>5, <2>1, TakeMove
  <2>3. UNCHANGED <<req, fate, work>> /\ pc[t] = "locked"
    BY <1>5 DEF WorkerTake
  <2>4. RequestState(x) = "queued" /\ RequestState(x)' = "running"
    BY <1>0, <1>02, <2>2 DEF StandsFor
  <2>5. Requests' = [Requests EXCEPT ![x] = "running"]
    BY <1>2, <2>2, <2>3, <2>4
  <2>6. x \notin Slow
    BY <2>2 DEF Inv, SlowInv, OnlyWq
  <2>7. job[t] = None
    BY <2>3 DEF Inv, WorkerInv, WorkerOf
  <2>8. Cardinality(Abs!Running) < Cardinality(Workers)
    BY <2>7, RunningFacts
  <2>9. Abs!Start(x)
    <3>1. [w \in Works |-> RequestState(w)][x] = "queued"
      BY <2>2, <2>4
    <3>2. [w \in Works |-> RequestState(w)]'
            = [[w \in Works |-> RequestState(w)] EXCEPT ![x] = "running"]
      BY <2>5 DEF Requests
    <3> QED
      BY <3>1, <3>2, <2>6, <2>8, SameCount DEF Abs!Start
  <2> QED
    BY <2>2, <2>9 DEF Abs!Next
<1>6. ASSUME NEW t \in Workers, WorkerTakeSlow(t)
      PROVE  Abs!Next
  <2>1. PICK x : x = Head(slow_io_pending_wq)
    OBVIOUS
  <2>2. /\ x \in Works /\ OnlySlow(x) /\ OnlyWorker(x)'
        /\ \A w \in Works \ {x} : Stay(w)
    BY <1>6, <2>1, TakeSlowMove
  <2>3. /\ UNCHANGED <<req, fate, work>> /\ pc[t] = "locked"
        /\ ~(slow_io_work_running >= slow_work_thread_threshold)
    BY <1>6 DEF WorkerTakeSlow, AtThreshold
  <2>4. RequestState(x) = "queued" /\ RequestState(x)' = "running"
    BY <1>0, <1>02, <2>2 DEF StandsFor
  <2>5. Requests' = [Requests EXCEPT ![x] = "running"]
    BY <1>2, <2>2, <2>3, <2>4
  <2>6. job[t] = None
    BY <2>3 DEF Inv, WorkerInv, WorkerOf
  <2>7. Cardinality(Abs!Running) < Cardinality(Workers)
    BY <2>6, RunningFacts
  <2>8. Cardinality(Abs!Running \cap Slow) < slow_work_thread_threshold
    <3>1. Cardinality(Abs!Running \cap Slow) \in Nat
      <4>1. IsFiniteSet(Abs!Running \cap Slow)
        BY RunningFacts
      <4> QED
        BY <4>1, FS_CardinalityType
    <3>2. slow_io_work_running \in Nat /\ slow_work_thread_threshold \in Nat
      BY FS_CardinalityType DEF Inv, TypeOK, slow_work_thread_threshold
    <3> QED
      BY <2>3, <3>1, <3>2, RunningFacts
  <2>9. Abs!Start(x)
    <3>1. [w \in Works |-> RequestState(w)][x] = "queued"
      BY <2>2, <2>4
    <3>2. [w \in Works |-> RequestState(w)]'
            = [[w \in Works |-> RequestState(w)] EXCEPT ![x] = "running"]
      BY <2>5 DEF Requests
    <3> QED
      BY <3>1, <3>2, <2>7, <2>8, SameCount DEF Abs!Start
  <2> QED
    BY <2>2, <2>9 DEF Abs!Next
<1>7. ASSUME NEW t \in Workers, WorkerReport(t)
      PROVE  Abs!Next
  <2>1. PICK x : x = job[t]
    OBVIOUS
  <2>2. /\ x \in Works /\ OnlyWorker(x) /\ OnlyLoop(x)'
        /\ \A w \in Works \ {x} : Stay(w)
    BY <1>7, <2>1, ReportMove
  <2>3. /\ UNCHANGED <<req, fate>> /\ work' = [work EXCEPT ![x] = "null"]
        /\ fate[x] = "ran"
    BY <1>7, <2>1 DEF WorkerReport, Inv, WorkerInv, WorkerOf
  <2>4. \A w \in Works \ {x} : work'[w] = work[w]
    BY <1>03, <2>3
  <2>5. RequestState(x) = "running" /\ RequestState(x)' # "cancelled"
    <3>1. RequestState(x) = "running"
      BY <1>0, <2>2 DEF StandsFor
    <3>2. work'[x] = "null" /\ fate'[x] = "ran"
      BY <1>03, <2>2, <2>3
    <3>3. RequestState(x)' # "cancelled"
      BY <3>2 DEF RequestState
    <3> QED
      BY <3>1, <3>3
  <2>6. RequestState(x)' = "ran"
    BY <1>02, <2>2, <2>5 DEF StandsFor
  <2>7. Requests' = [Requests EXCEPT ![x] = "ran"]
    BY <1>2, <2>2, <2>3, <2>4, <2>6
  <2>8. Abs!Finish(x)
    BY <2>2, <2>5, <2>7 DEF Requests, Abs!Finish
  <2> QED
    BY <2>2, <2>8 DEF Abs!Next
<1>8. ASSUME NEW l \in Loops, CancelUnlink(l)
      PROVE  Abs!Next \/ UNCHANGED Requests
  <2>1. PICK x : x = cancelling[l]
    OBVIOUS
  <2>2. /\ x \in Works /\ OnlyCancel(x)'
        /\ OnlyWq(x) \/ OnlySlow(x) \/ OnlyLoop(x) \/ OnlyDone(x)
        /\ \A w \in Works \ {x} : Stay(w)
    BY <1>8, <2>1, UnlinkMove
  <2>3. /\ UNCHANGED <<req, work>> /\ work[x] # "null"
        /\ \A w \in Works \ {x} : fate'[w] = fate[w]
    BY <1>03, <1>8, <2>1 DEF CancelUnlink, Cancellable
  <2>4. RequestState(x)' = "cancelled"
    BY <1>02, <2>2 DEF StandsFor
  <2>5. CASE OnlyWq(x) \/ OnlySlow(x)
    <3>1. RequestState(x) = "queued"
      BY <1>0, <2>2, <2>5 DEF StandsFor
    <3>2. Requests' = [Requests EXCEPT ![x] = "cancelled"]
      BY <1>2, <2>2, <2>3, <2>4
    <3>3. Abs!Cancel(x)
      BY <2>2, <3>1, <3>2 DEF Requests, Abs!Cancel
    <3> QED
      BY <2>2, <3>3 DEF Abs!Next
  <2>6. CASE OnlyLoop(x) \/ OnlyDone(x)
    <3>1. fate[x] = "cancelled"
      BY <2>2, <2>3, <2>6 DEF Inv, StateInv, StateOf, OnlyLoop, OnlyDone
    <3>2. req[x] = "pending"
      BY <1>03, <2>2, <2>6 DEF Inv, PlaceInv, Nowhere, OnlyLoop, OnlyDone
    <3>3. RequestState(x) = "cancelled"
      BY <3>1, <3>2 DEF RequestState
    <3> QED
      BY <1>3, <2>2, <2>3, <2>4, <3>3
  <2> QED
    BY <2>2, <2>5, <2>6
<1>9. ASSUME NEW l \in Loops, CancelReport(l)
      PROVE  UNCHANGED Requests
  <2>1. PICK x : x = cancelling[l]
    OBVIOUS
  <2>2. /\ x \in Works /\ OnlyCancel(x) /\ OnlyLoop(x)'
        /\ \A w \in Works \ {x} : Stay(w)
    BY <1>9, <2>1, CancelReportMove
  <2>3. UNCHANGED <<req, fate, work>>
    BY <1>9 DEF CancelReport
  <2>4. fate[x] = "cancelled" /\ req[x] = "pending"
    BY <1>03, <2>2 DEF Inv, StateInv, StateOf, PlaceInv, Nowhere, OnlyCancel
  <2>5. RequestState(x) = "cancelled" /\ RequestState(x)' = "cancelled"
    BY <2>3, <2>4 DEF RequestState
  <2> QED
    BY <1>3, <2>2, <2>3, <2>5
<1>10. ASSUME NEW l \in Loops, WorkDoneMove(l)
       PROVE  UNCHANGED Requests
  <2>1. UNCHANGED <<req, fate, work, job>>
    BY <1>10 DEF WorkDoneMove
  <2>2. \A w \in Works : RequestState(w)' = RequestState(w)
    BY <2>1 DEF RequestState
  <2> QED
    BY <2>2 DEF Requests
<1>11. ASSUME NEW l \in Loops, WorkDoneNext(l)
       PROVE  Abs!Next
  <2>1. PICK x : x = Head(done_wq[l])
    OBVIOUS
  <2>2. /\ x \in Works /\ OnlyDone(x) /\ Nowhere(x)'
        /\ \A w \in Works \ {x} : Stay(w)
    BY <1>11, <2>1, NextMove
  <2>3. /\ UNCHANGED <<fate, work>>
        /\ \A w \in Works \ {x} : req'[w] = req[w]
    BY <1>03, <1>11, <2>1 DEF WorkDoneNext
  <2>4. RequestState(x) \in {"ran", "cancelled"} /\ RequestState(x)' = "free"
    BY <1>0, <1>02, <2>2 DEF StandsFor
  <2>5. Requests' = [Requests EXCEPT ![x] = "free"]
    BY <1>2, <2>2, <2>3, <2>4
  <2>6. Abs!Done(x)
    BY <2>2, <2>4, <2>5 DEF Requests, Abs!Done
  <2> QED
    BY <2>2, <2>6 DEF Abs!Next
<1>12. ASSUME NEW t \in Workers, WorkerRun(t)
       PROVE  UNCHANGED Requests
  <2>1. PICK x : x = job[t]
    OBVIOUS
  <2>2. /\ UNCHANGED <<req, work, job>> /\ fate' = [fate EXCEPT ![x] = "ran"]
        /\ fate[x] = "none" /\ x \in Works
    BY <1>12, <2>1 DEF WorkerRun, Inv, TypeOK, WorkerInv, WorkerOf
  <2>3. \A w \in Works : (fate'[w] = "cancelled") <=> (fate[w] = "cancelled")
    BY <1>03, <2>2
  <2>4. \A w \in Works : RequestState(w)' = RequestState(w)
    BY <2>2, <2>3 DEF RequestState
  <2> QED
    BY <2>4 DEF Requests
<1>13. ASSUME NEW l \in Loops, CancelMark(l)
       PROVE  UNCHANGED Requests
  <2>1. PICK x : x = cancelling[l]
    OBVIOUS
  <2>2. /\ UNCHANGED <<req, fate, job>> /\ work' = [work EXCEPT ![x] = "cancelled"]
        /\ cpc[l] = "unlinked"
    BY <1>13, <2>1 DEF CancelMark
  <2>3. x \in Works /\ LoopOf[x] = l
    BY <2>1, <2>2 DEF Inv, TypeOK, LoopInv, HomeInv
  <2>4. fate[x] = "cancelled"
    BY <2>1, <2>2, <2>3 DEF Inv, StateInv, StateOf, AtCancel
  <2>5. RequestState(x)' = RequestState(x)
    BY <1>03, <2>2, <2>3, <2>4 DEF RequestState
  <2>6. \A w \in Works \ {x} : work'[w] = work[w]
    BY <1>03, <2>2
  <2>7. \A w \in Works \ {x} : RequestState(w)' = RequestState(w)
    BY <2>2, <2>6 DEF RequestState
  <2> QED
    BY <2>5, <2>7 DEF Requests
<1>14. ASSUME ~Moving, ~Marking, ~Executing
       PROVE  UNCHANGED Requests
  <2>1. UNCHANGED <<req, fate, work, job>>
    BY <1>14, StillSteps
  <2>2. \A w \in Works : RequestState(w)' = RequestState(w)
    BY <2>1 DEF RequestState
  <2> QED
    BY <2>2 DEF Requests
<1> QED
  BY <1>4, <1>5, <1>6, <1>7, <1>8, <1>9, <1>10, <1>11, <1>12, <1>13, <1>14
  DEF Moving, Marking, Executing

(***************************************************************************)
(* The pool does for each request what module WorkRequest promises: it     *)
(* runs it at most once or cancels it before, calls back once after that,  *)
(* and runs no more requests at a time than there are workers, nor more    *)
(* slow ones than the threshold.                                           *)
(***************************************************************************)
THEOREM RefinesWorkRequest == Spec => ImplementsWorkRequest
<1>1. Init => Abs!Init
  <2> SUFFICES ASSUME Init
               PROVE  Abs!Init
    OBVIOUS
  <2>1. \A w \in Works : RequestState(w) = "free"
    BY DEF Init, RequestState
  <2> QED
    BY <2>1 DEF Abs!Init
<1>2. Inv /\ Inv' /\ [Next]_vars => [Abs!Next]_Requests
  <2> SUFFICES ASSUME Inv, Inv', [Next]_vars
               PROVE  Abs!Next \/ UNCHANGED Requests
    OBVIOUS
  <2>1. CASE Next
    BY <2>1, RequestStep
  <2>2. CASE UNCHANGED vars
    <3>1. UNCHANGED <<req, fate, work, job>>
      BY <2>2
    <3>2. \A w \in Works : RequestState(w)' = RequestState(w)
      BY <3>1 DEF RequestState
    <3> QED
      BY <3>2 DEF Requests
  <2> QED
    BY <2>1, <2>2
<1> QED
  BY <1>1, <1>2, InvAlways, PTL DEF Spec, ImplementsWorkRequest, Abs!Spec, Requests
=============================================================================
