-------------------------- MODULE EventLoopProofs --------------------------
(***************************************************************************)
(* Proofs about EventLoop, for any number of handles of each type and any  *)
(* number of rounds over the deferred callbacks.                           *)
(***************************************************************************)
EXTENDS EventLoop, FiniteSetTheorems, TLAPS

(***************************************************************************)
(* The inductive invariant.  What the safety properties lack is what the   *)
(* local list of the pass under way may hold in each phase of uv_run.      *)
(***************************************************************************)
Open == {h \in Handles : hstate[h] = "open"}

\* Only open handles are active or wait for a deferred callback, and only
\* handles in use are referenced; time has come for armed timers only.
OpenInv ==
  /\ active \subseteq Open
  /\ pending_queue \subseteq Open
  /\ \A h \in ref : hstate[h] \in {"open", "closing"}
  /\ late \subseteq active

\* The local list holds the watchers, open fds or open timers of the pass.
TodoInv ==
  /\ pc \in {"out", "top", "poll"} => todo = {} /\ running = None
  /\ pc = "idle" => todo \subseteq active \cap Idle
  /\ pc = "prepare" => todo \subseteq active \cap Prepare
  /\ pc = "check" => todo \subseteq active \cap Check
  /\ pc \in {"pending", "events", "after"} => todo \subseteq Open \cap Io
  /\ pc \in {"timers0", "timers"} => todo \subseteq (Open \cap Timer) \ active

ListInv == FieldTypes /\ ClosingListed /\ OpenInv /\ TodoInv

Inv == ListInv /\ ActiveHandlesExact

-----------------------------------------------------------------------------
(* Counting.                                                               *)

(***************************************************************************)
(* uv__active_handle_add: the count after the handles of S became active.  *)
(***************************************************************************)
LEMMA CountAdded ==
  ASSUME active \in SUBSET Handles, NEW S \in SUBSET Handles, S \cap active = {}
  PROVE  /\ Cardinality((active \cup S) \cap ref)
              = Cardinality(active \cap ref) + Counted(S)
         /\ Counted(S) \in Nat
         /\ Cardinality(active \cap ref) \in Nat
<1>1. IsFiniteSet(active \cap ref) /\ IsFiniteSet(S \cap ref)
  BY HandlesFinite, FS_Subset
<1>2. (active \cup S) \cap ref = (active \cap ref) \cup (S \cap ref)
  OBVIOUS
<1>3. (active \cap ref) \cap (S \cap ref) = {}
  OBVIOUS
<1>4. Cardinality((active \cap ref) \cup (S \cap ref))
        = Cardinality(active \cap ref) + Cardinality(S \cap ref) - 0
  BY <1>1, <1>3, FS_Union, FS_EmptySet
<1>5. Cardinality(active \cap ref) \in Nat /\ Cardinality(S \cap ref) \in Nat
  BY <1>1, FS_CardinalityType
<1>6. Cardinality((active \cup S) \cap ref)
        = Cardinality((active \cap ref) \cup (S \cap ref))
  BY <1>2, Zenon
<1> QED
  BY <1>4, <1>5, <1>6 DEF Counted

(***************************************************************************)
(* uv__active_handle_rm: the count after the handles of S were stopped.    *)
(***************************************************************************)
LEMMA CountRemoved ==
  ASSUME active \in SUBSET Handles, NEW S \in SUBSET active
  PROVE  /\ Cardinality((active \ S) \cap ref)
              = Cardinality(active \cap ref) - Counted(S)
         /\ Counted(S) \in Nat
         /\ Cardinality(active \cap ref) \in Nat
         /\ Cardinality((active \ S) \cap ref) \in Nat
<1>1. /\ IsFiniteSet(active \cap ref)
      /\ IsFiniteSet(S \cap ref)
      /\ IsFiniteSet((active \ S) \cap ref)
  BY HandlesFinite, FS_Subset
<1>2. (active \ S) \cap ref = (active \cap ref) \ (S \cap ref)
  OBVIOUS
<1>3. (active \cap ref) \cap (S \cap ref) = S \cap ref
  OBVIOUS
<1>4. Cardinality((active \cap ref) \ (S \cap ref))
        = Cardinality(active \cap ref) - Cardinality(S \cap ref)
  <2>1. Cardinality((active \cap ref) \ (S \cap ref))
          = Cardinality(active \cap ref)
            - Cardinality((active \cap ref) \cap (S \cap ref))
    BY <1>1, FS_Difference
  <2> QED
    BY <2>1, <1>3, Zenon
<1>5. Cardinality((active \ S) \cap ref)
        = Cardinality((active \cap ref) \ (S \cap ref))
  BY <1>2, Zenon
<1>6. /\ Cardinality(active \cap ref) \in Nat
      /\ Cardinality(S \cap ref) \in Nat
      /\ Cardinality((active \ S) \cap ref) \in Nat
  BY <1>1, FS_CardinalityType
<1> QED
  BY <1>4, <1>5, <1>6 DEF Counted

-----------------------------------------------------------------------------
(* The lists.                                                              *)

LEMMA ListInit == Init => ListInv
<1> SUFFICES ASSUME Init PROVE ListInv
  OBVIOUS
<1>1. FieldTypes
  <2>1. rounds \in 0 .. PendingRounds
    BY RoundsPositive DEF Init
  <2> QED
    BY <2>1, Zenon DEF Init, FieldTypes
<1>2. ClosingListed
  BY DEF Init, ClosingListed
<1>3. OpenInv /\ TodoInv
  BY DEF Init, OpenInv, TodoInv, Open
<1> QED
  BY <1>1, <1>2, <1>3 DEF ListInv

(***************************************************************************)
(* Every API call, every phase of uv_run and every callback keeps the      *)
(* lists consistent, whatever happens inside a pass.                       *)
(***************************************************************************)
LEMMA ListNext == ListInv /\ [Next]_vars => ListInv'
<1> SUFFICES ASSUME ListInv, [Next]_vars PROVE ListInv'
  OBVIOUS
<1> USE TypesDisjoint, NoneIsNoHandle, RoundsPositive
<1> USE DEF ListInv, FieldTypes, ClosingListed, OpenInv, TodoInv, Open, Handles,
            InUserCode, PassOver, NextOfPass, handlevars, queuevars, timevars,
            runvars
<1>1. ASSUME NEW h \in Handles, InitHandle(h) PROVE ListInv'
  BY <1>1 DEF InitHandle
<1>2. ASSUME NEW h \in Handles, Start(h) PROVE ListInv'
  BY <1>2 DEF Start
<1>3. ASSUME NEW h \in Handles, Stop(h) PROVE ListInv'
  BY <1>3 DEF Stop, StopEffect, TodoWithout
<1>4. ASSUME NEW h \in Handles, Close(h) PROVE ListInv'
  BY <1>4 DEF Close, StopEffect, TodoWithout, PendingWithout
<1>5. ASSUME NEW h \in Handles, Ref(h) PROVE ListInv'
  BY <1>5 DEF Ref
<1>6. ASSUME NEW h \in Handles, Unref(h) PROVE ListInv'
  BY <1>6 DEF Unref
<1>7. ASSUME NEW h \in Handles, Feed(h) PROVE ListInv'
  BY <1>7 DEF Feed
<1>8. ASSUME NEW h \in Timer, NEW now \in BOOLEAN, TimerStart(h, now)
      PROVE  ListInv'
  BY <1>8 DEF TimerStart, TodoWithout
<1>9. CASE uv_stop
  BY <1>9 DEF uv_stop
<1>10. ASSUME NEW h \in Timer, Tick(h) PROVE ListInv'
  BY <1>10 DEF Tick
<1>11. ASSUME NEW m \in {"default", "once", "nowait"}, RunBegin(m)
      PROVE  ListInv'
  BY <1>11 DEF RunBegin, CollectTimers, LoopAlive
<1>12. CASE FirstTimersEnd
  BY <1>12 DEF FirstTimersEnd
<1>13. CASE Iterate
  <2>1. FieldTypes'
    BY <1>13 DEF Iterate
  <2>2. ClosingListed'
    BY <1>13 DEF Iterate
  <2>3. OpenInv' /\ TodoInv'
    BY <1>13 DEF Iterate
  <2> QED
    BY <2>1, <2>2, <2>3
<1>14. CASE RunIdle
  BY <1>14 DEF RunIdle
<1>15. CASE RunPrepare
  BY <1>15 DEF RunPrepare
<1>16. CASE PollBegin
  <2>1. timeout' \in {"zero", "timer", "forever"}
    BY <1>16, Zenon DEF PollBegin, uv__backend_timeout, uv__next_timeout
  <2>2. FieldTypes'
    BY <1>16, <2>1 DEF PollBegin
  <2>3. ClosingListed'
    BY <1>16 DEF PollBegin
  <2>4. OpenInv' /\ TodoInv'
    BY <1>16 DEF PollBegin
  <2> QED
    BY <2>2, <2>3, <2>4
<1>17. CASE PollEnd
  BY <1>17 DEF PollEnd
<1>18. CASE PendingRound
  BY <1>18 DEF PendingRound, MoreRounds
<1>19. CASE RunCheck
  BY <1>19 DEF RunCheck, MoreRounds
<1>20. CASE RunClosing
  BY <1>20 DEF RunClosing
<1>21. CASE RunTimers
  BY <1>21 DEF RunTimers, CollectTimers
<1>22. CASE IterationEnd
  <2>1. alive' \in BOOLEAN
    BY <1>22, Zenon DEF IterationEnd, LoopAlive
  <2>2. FieldTypes'
    BY <1>22, <2>1 DEF IterationEnd
  <2>3. ClosingListed'
    BY <1>22 DEF IterationEnd
  <2>4. OpenInv' /\ TodoInv'
    BY <1>22 DEF IterationEnd
  <2> QED
    BY <2>2, <2>3, <2>4
<1>23. CASE RunEnd
  <2>1. FieldTypes'
    BY <1>23 DEF RunEnd
  <2>2. ClosingListed'
    BY <1>23 DEF RunEnd
  <2>3. OpenInv' /\ TodoInv'
    BY <1>23 DEF RunEnd
  <2> QED
    BY <2>1, <2>2, <2>3
<1>24. ASSUME NEW E \in SUBSET (active \cap Io), PollReturn(E) PROVE ListInv'
  <2>1. FieldTypes'
    BY <1>24 DEF PollReturn
  <2>2. ClosingListed'
    BY <1>24 DEF PollReturn
  <2>3. OpenInv' /\ TodoInv'
    BY <1>24 DEF PollReturn
  <2> QED
    BY <2>1, <2>2, <2>3
<1>25. ASSUME NEW h \in Handles, Callback(h) PROVE ListInv'
  BY <1>25 DEF Callback
<1>26. ASSUME NEW h \in Handles, DropEvent(h) PROVE ListInv'
  BY <1>26 DEF DropEvent
<1>27. ASSUME NEW h \in Handles, CloseCallback(h) PROVE ListInv'
  BY <1>27 DEF CloseCallback
<1>28. ASSUME NEW h \in Timer, NEW repeat \in BOOLEAN, TimerCallback(h, repeat)
      PROVE  ListInv'
  BY <1>28 DEF TimerCallback
<1>29. CASE CallbackReturn
  BY <1>29 DEF CallbackReturn
<1>30. CASE UNCHANGED vars
  BY <1>30 DEF vars
<1> HIDE DEF ListInv, Handles
<1>31. CASE UserCall
  BY <1>31, <1>1, <1>2, <1>3, <1>4, <1>5, <1>6, <1>7, <1>8, <1>9
  DEF UserCall
<1>32. CASE Phase
  <2>1. {} \in SUBSET (active \cap Io)
    OBVIOUS
  <2>2. PollReturn({}) => ListInv'
    BY <1>24, <2>1
  <2> QED
    BY <1>32, <2>2, <1>12, <1>13, <1>14, <1>15, <1>16, <1>17, <1>18, <1>19,
       <1>20, <1>21, <1>22, <1>23
    DEF Phase
<1>33. CASE AnyCallback
  BY <1>33, <1>25, <1>26, <1>27, <1>28 DEF AnyCallback
<1> QED
  BY <1>10, <1>11, <1>24, <1>29, <1>30, <1>31, <1>32, <1>33 DEF Next

-----------------------------------------------------------------------------
(* The counter.                                                            *)

(***************************************************************************)
(* Each step that makes a handle active, stops it, refs it or unrefs it    *)
(* moves loop->active_handles by as much as the set it counts.             *)
(***************************************************************************)
LEMMA CountNext == Inv /\ [Next]_vars => ActiveHandlesExact'
<1> SUFFICES ASSUME ListInv, ActiveHandlesExact, [Next]_vars
             PROVE  ActiveHandlesExact'
  BY DEF Inv
<1>a. active \in SUBSET Handles /\ ref \in SUBSET Handles
  BY DEF ListInv, FieldTypes
<1>b. active \subseteq Open
  BY DEF ListInv, OpenInv
<1>c. active_handles = Cardinality(active \cap ref)
  BY DEF ActiveHandlesExact
\* The set that is counted is the same, and so is the counter.
<1>same. ASSUME active' \cap ref' = active \cap ref,
                active_handles' = active_handles
         PROVE  ActiveHandlesExact'
  <2>1. Cardinality(active' \cap ref') = Cardinality(active \cap ref)
    BY <1>same, Zenon
  <2> QED
    BY <2>1, <1>c, <1>same DEF ActiveHandlesExact
<1>added. ASSUME NEW S \in SUBSET Handles, S \cap active = {}, ref' = ref,
                 active' = active \cup S,
                 active_handles' = active_handles + Counted(S)
          PROVE  ActiveHandlesExact'
  <2>1. Cardinality(active' \cap ref') = Cardinality((active \cup S) \cap ref)
    BY <1>added, Zenon
  <2>2. Cardinality((active \cup S) \cap ref)
          = Cardinality(active \cap ref) + Counted(S)
    BY <1>added, <1>a, CountAdded
  <2> QED
    BY <2>1, <2>2, <1>c, <1>added DEF ActiveHandlesExact
<1>removed. ASSUME NEW S \in SUBSET active, ref' = ref, active' = active \ S,
                   active_handles' = active_handles - Counted(S)
            PROVE  ActiveHandlesExact'
  <2>1. Cardinality(active' \cap ref') = Cardinality((active \ S) \cap ref)
    BY <1>removed, Zenon
  <2>2. Cardinality((active \ S) \cap ref)
          = Cardinality(active \cap ref) - Counted(S)
    BY <1>removed, <1>a, CountRemoved
  <2> QED
    BY <2>1, <2>2, <1>c, <1>removed DEF ActiveHandlesExact
<1>stopped. ASSUME NEW h \in Handles, StopEffect(h), ref' = ref
            PROVE  ActiveHandlesExact'
  <2>1. {h} \cap active \in SUBSET active /\ active' = active \ ({h} \cap active)
    BY <1>stopped DEF StopEffect
  <2> QED
    BY <2>1, <1>stopped, <1>removed DEF StopEffect
<1>collected. ASSUME CollectTimers, ref' = ref PROVE ActiveHandlesExact'
  <2>1. late \cap active \in SUBSET active
    OBVIOUS
  <2> QED
    BY <2>1, <1>collected, <1>removed DEF CollectTimers
<1>1. ASSUME NEW h \in Handles, InitHandle(h) PROVE ActiveHandlesExact'
  <2>1. h \notin active
    BY <1>1, <1>b DEF InitHandle, Open
  <2> QED
    BY <2>1, <1>1, <1>same DEF InitHandle
<1>2. ASSUME NEW h \in Handles, Start(h) PROVE ActiveHandlesExact'
  <2>1. {h} \in SUBSET Handles /\ {h} \cap active = {}
    BY <1>2 DEF Start
  <2> QED
    BY <2>1, <1>2, <1>added DEF Start
<1>3. ASSUME NEW h \in Handles, Stop(h) PROVE ActiveHandlesExact'
  BY <1>3, <1>stopped DEF Stop
<1>4. ASSUME NEW h \in Handles, Close(h) PROVE ActiveHandlesExact'
  BY <1>4, <1>stopped DEF Close
<1>5. ASSUME NEW h \in Handles, Ref(h) PROVE ActiveHandlesExact'
  <2>1. CASE h \in active
    <3>1. hstate[h] = "open" /\ h \notin active \cap ref
      BY <1>5, <2>1, <1>b DEF Ref, Open
    <3>2. active' \cap ref' = (active \cap ref) \cup {h}
      BY <1>5, <2>1 DEF Ref
    <3>3. Cardinality(active' \cap ref') = Cardinality((active \cap ref) \cup {h})
      BY <3>2, Zenon
    <3>4. IsFiniteSet(active \cap ref)
      BY <1>a, HandlesFinite, FS_Subset
    <3>5. Cardinality((active \cap ref) \cup {h}) = Cardinality(active \cap ref) + 1
      BY <3>1, <3>4, FS_AddElement
    <3> QED
      BY <3>1, <3>3, <3>5, <1>5, <2>1, <1>c DEF Ref, ActiveHandlesExact
  <2>2. CASE h \notin active
    <3>1. active' \cap ref' = active \cap ref /\ active_handles' = active_handles
      BY <1>5, <2>2 DEF Ref
    <3> QED
      BY <3>1, <1>same
  <2> QED
    BY <2>1, <2>2
<1>6. ASSUME NEW h \in Handles, Unref(h) PROVE ActiveHandlesExact'
  <2>1. CASE h \in active
    <3>1. hstate[h] = "open" /\ h \in active \cap ref
      BY <1>6, <2>1, <1>b DEF Unref, Open
    <3>2. active' \cap ref' = (active \cap ref) \ {h}
      BY <1>6, <2>1 DEF Unref
    <3>3. Cardinality(active' \cap ref') = Cardinality((active \cap ref) \ {h})
      BY <3>2, Zenon
    <3>4. IsFiniteSet(active \cap ref)
      BY <1>a, HandlesFinite, FS_Subset
    <3>5. Cardinality((active \cap ref) \ {h}) = Cardinality(active \cap ref) - 1
      BY <3>1, <3>4, FS_RemoveElement
    <3> QED
      BY <3>1, <3>3, <3>5, <1>6, <2>1, <1>c DEF Unref, ActiveHandlesExact
  <2>2. CASE h \notin active
    <3>1. active' \cap ref' = active \cap ref /\ active_handles' = active_handles
      BY <1>6, <2>2 DEF Unref
    <3> QED
      BY <3>1, <1>same
  <2> QED
    BY <2>1, <2>2
<1>7. ASSUME NEW h \in Timer, NEW now \in BOOLEAN, TimerStart(h, now)
      PROVE  ActiveHandlesExact'
  <2>1. /\ {h} \ active \in SUBSET Handles
        /\ ({h} \ active) \cap active = {}
        /\ active \cup ({h} \ active) = active \cup {h}
    BY DEF Handles
  <2> QED
    BY <2>1, <1>7, <1>added DEF TimerStart
<1>8. ASSUME NEW m \in {"default", "once", "nowait"}, RunBegin(m)
      PROVE  ActiveHandlesExact'
  BY <1>8, <1>collected, <1>same DEF RunBegin
<1>9. CASE RunTimers
  BY <1>9, <1>collected DEF RunTimers
<1>10. ASSUME NEW h \in Handles, CloseCallback(h) PROVE ActiveHandlesExact'
  <2>1. h \notin active
    BY <1>10, <1>b DEF CloseCallback, NextOfPass, ListInv, ClosingListed, Open
  <2> QED
    BY <2>1, <1>10, <1>same DEF CloseCallback
<1>11. ASSUME NEW h \in Timer, NEW repeat \in BOOLEAN, TimerCallback(h, repeat)
      PROVE  ActiveHandlesExact'
  <2>1. {h} \in SUBSET Handles /\ {h} \cap active = {}
    BY <1>11 DEF TimerCallback, NextOfPass, ListInv, TodoInv, Handles
  <2>2. CASE repeat
    BY <2>1, <2>2, <1>11, <1>added DEF TimerCallback
  <2>3. CASE ~repeat
    BY <2>3, <1>11, <1>same DEF TimerCallback
  <2> QED
    BY <2>2, <2>3
\* Every other step leaves the handles alone.
<1>12. CASE UNCHANGED handlevars
  BY <1>12, <1>same DEF handlevars
<1>13. CASE UserCall
  <2>1. ASSUME NEW h \in Handles, Feed(h) PROVE UNCHANGED handlevars
    BY <2>1 DEF Feed
  <2>2. uv_stop => UNCHANGED handlevars
    BY DEF uv_stop
  <2> QED
    BY <1>13, <2>1, <2>2, <1>1, <1>2, <1>3, <1>4, <1>5, <1>6, <1>7, <1>12
    DEF UserCall
<1>14. ASSUME NEW E, PollReturn(E) PROVE UNCHANGED handlevars
  BY <1>14 DEF PollReturn
<1>15. CASE Phase
  <2>1. CASE FirstTimersEnd \/ Iterate \/ RunIdle \/ RunPrepare \/ PollBegin
    BY <2>1, <1>12 DEF FirstTimersEnd, Iterate, RunIdle, RunPrepare, PollBegin
  <2>2. CASE PollEnd \/ PendingRound \/ RunCheck \/ RunClosing
    BY <2>2, <1>12 DEF PollEnd, PendingRound, RunCheck, RunClosing
  <2>3. CASE IterationEnd \/ RunEnd
    BY <2>3, <1>12 DEF IterationEnd, RunEnd
  <2> QED
    BY <1>15, <2>1, <2>2, <2>3, <1>9, <1>12, <1>14 DEF Phase
<1>16. CASE AnyCallback
  <2>1. ASSUME NEW h \in Handles, Callback(h) \/ DropEvent(h)
        PROVE  UNCHANGED handlevars
    BY <2>1 DEF Callback, DropEvent
  <2> QED
    BY <1>16, <2>1, <1>10, <1>11, <1>12 DEF AnyCallback
<1>17. \/ \E h \in Timer : Tick(h)
       \/ CallbackReturn
       \/ UNCHANGED vars
       => UNCHANGED handlevars
  BY DEF Tick, CallbackReturn, vars, handlevars
<1> QED
  BY <1>8, <1>12, <1>13, <1>14, <1>15, <1>16, <1>17 DEF Next

-----------------------------------------------------------------------------
(* Theorems.                                                               *)

(***************************************************************************)
(* The invariant holds in every reachable state.                           *)
(***************************************************************************)
THEOREM Invariance == Spec => []Inv
<1>1. Init => Inv
  <2>1. Init => active \cap ref = {} /\ active_handles = 0
    BY DEF Init
  <2>2. Init => ActiveHandlesExact
    BY <2>1, FS_EmptySet DEF ActiveHandlesExact
  <2> QED
    BY <2>2, ListInit DEF Inv
<1>2. Inv /\ [Next]_vars => Inv'
  BY ListNext, CountNext DEF Inv
<1> QED
  BY <1>1, <1>2, PTL DEF Spec

(***************************************************************************)
(* Types; in particular the unsigned loop->active_handles never wraps.     *)
(***************************************************************************)
THEOREM TypeCorrect == Spec => []TypeOK
<1>1. Inv => TypeOK
  <2> SUFFICES ASSUME Inv PROVE TypeOK
    OBVIOUS
  <2>1. FieldTypes /\ active \in SUBSET Handles
    BY DEF Inv, ListInv, FieldTypes
  <2>2. IsFiniteSet(active \cap ref)
    BY <2>1, HandlesFinite, FS_Subset
  <2>3. active_handles \in Nat
    BY <2>2, FS_CardinalityType DEF Inv, ActiveHandlesExact
  <2> QED
    BY <2>1, <2>3 DEF TypeOK
<1> QED
  BY <1>1, Invariance, PTL

(***************************************************************************)
(* loop->active_handles, which decides whether uv_run goes on, is the      *)
(* number of active and referenced handles.                                *)
(***************************************************************************)
THEOREM CounterIsExact == Spec => []ActiveHandlesExact
<1>1. Inv => ActiveHandlesExact
  BY DEF Inv
<1> QED
  BY <1>1, Invariance, PTL

(***************************************************************************)
(* A handle is in one of the two lists of uv__run_closing_handles exactly  *)
(* while it waits for its close callback.                                  *)
(***************************************************************************)
THEOREM ClosesAreListed == Spec => []ClosingListed
<1>1. Inv => ClosingListed
  BY DEF Inv, ListInv
<1> QED
  BY <1>1, Invariance, PTL

(***************************************************************************)
(* No callback but the close callback is called for a handle that is not   *)
(* open, and none for a stopped watcher, whatever the callbacks of the     *)
(* same pass stop or close.                                                *)
(***************************************************************************)
THEOREM CalledHandlesAreOpen == Spec => OnlyOpenHandlesAreCalled
<1> DEFINE Called(h) ==
      running = None /\ running' = h /\ pc # "closing" =>
        /\ hstate[h] = "open"
        /\ h \in Idle \cup Prepare \cup Check => h \in active
<1>1. Inv /\ [Next]_vars => [\A h \in Handles : Called(h)]_vars
  <2> SUFFICES ASSUME ListInv, Next, NEW h \in Handles,
                      running = None, running' = h, pc # "closing"
               PROVE  /\ hstate[h] = "open"
                      /\ h \in Idle \cup Prepare \cup Check => h \in active
    BY DEF Inv
  <2>1. running' # running
    BY NoneIsNoHandle
  <2>2. UserCall => running' = running
    BY DEF UserCall, InitHandle, Start, Stop, Close, Ref, Unref, Feed,
           TimerStart, uv_stop
  <2>3. (\E t \in Timer : Tick(t)) => running' = running
    BY DEF Tick
  <2>4. (\E m \in {"default", "once", "nowait"} : RunBegin(m))
        => running' = running
    BY DEF RunBegin
  <2>5. ASSUME NEW E, PollReturn(E) PROVE running' = running
    BY <2>5 DEF PollReturn
  <2>6. Phase => running' = running
    BY <2>5 DEF Phase, FirstTimersEnd, Iterate, RunIdle, RunPrepare, PollBegin,
           PollEnd, PendingRound, RunCheck, RunClosing, RunTimers,
           IterationEnd, RunEnd
  <2>7. ~CallbackReturn
    BY DEF CallbackReturn
  <2>8. AnyCallback
    BY <2>1, <2>2, <2>3, <2>4, <2>5, <2>6, <2>7 DEF Next
  <2>9. \/ Callback(h)
        \/ \E repeat \in BOOLEAN : h \in Timer /\ TimerCallback(h, repeat)
    BY <2>8, <2>1 DEF AnyCallback, Callback, DropEvent, CloseCallback,
       TimerCallback, NextOfPass
  <2>10. CASE Callback(h)
    BY <2>10, TypesDisjoint DEF Callback, NextOfPass, ListInv, FieldTypes,
       OpenInv, TodoInv, Open, Handles
  <2>11. CASE \E repeat \in BOOLEAN : h \in Timer /\ TimerCallback(h, repeat)
    BY <2>11, TypesDisjoint DEF TimerCallback, NextOfPass, ListInv, FieldTypes,
       TodoInv, Open, Handles
  <2> QED
    BY <2>9, <2>10, <2>11
<1> QED
  BY <1>1, Invariance, PTL DEF Spec, OnlyOpenHandlesAreCalled

-----------------------------------------------------------------------------
(* The locals of uv_run.                                                   *)

(***************************************************************************)
(* What the locals r and can_sleep of uv_run stand for where they are      *)
(* tested, although callbacks may have changed the loop since they were    *)
(* set: r is not out of date at the head of the loop, and can_sleep says   *)
(* that the passes over the deferred callbacks and the idle watchers had   *)
(* nothing to call, hence that no user code ran during them.               *)
(***************************************************************************)
LocalsInv ==
  /\ pc = "timers0" => alive
  /\ pc = "top" /\ ~alive => ~LoopAlive
  /\ can_sleep =>
       /\ pc \in {"pending", "idle", "prepare"}
       /\ ~worked
       /\ pc \in {"pending", "idle"} => todo = {} /\ running = None
       /\ pc = "pending" => active \cap Idle = {}

(***************************************************************************)
(* What the properties say of a state of the loop: the counter and the two *)
(* lists of uv__loop_alive, outside the pass over the closing handles,     *)
(* tell whether something is left to do.                                   *)
(***************************************************************************)
LEMMA AliveMeansLeft ==
  ASSUME Inv, pc # "closing"
  PROVE  /\ LoopAlive <=> SomethingLeft
         /\ active_handles > 0 <=> active \cap ref # {}
         /\ closing_handles = {h \in Handles : hstate[h] = "closing"}
<1>1. IsFiniteSet(active \cap ref)
  <2>1. active \in SUBSET Handles
    BY DEF Inv, ListInv, FieldTypes
  <2> QED
    BY <2>1, HandlesFinite, FS_Subset
<1>2. Cardinality(active \cap ref) \in Nat
  BY <1>1, FS_CardinalityType
<1>3. Cardinality(active \cap ref) = 0 <=> active \cap ref = {}
  BY <1>1, FS_EmptySet
<1>4. active_handles > 0 <=> active \cap ref # {}
  BY <1>2, <1>3 DEF Inv, ActiveHandlesExact
<1>5. closing_handles = {h \in Handles : hstate[h] = "closing"}
  BY DEF Inv, ListInv, ClosingListed
<1> QED
  BY <1>4, <1>5 DEF LoopAlive, SomethingLeft

(***************************************************************************)
(* User code runs while a callback runs or outside uv_run, and leaves the  *)
(* locals of uv_run alone.                                                 *)
(***************************************************************************)
LEMMA LocalsUser ==
  ASSUME ListInv, LocalsInv, UserCall
  PROVE  LocalsInv' /\ pc' # "poll" /\ UNCHANGED pc
<1>1. /\ InUserCode /\ UNCHANGED <<runvars, running, worked>>
  BY DEF UserCall, InitHandle, Start, Stop, Close, Ref, Unref, Feed, TimerStart,
         uv_stop
<1>2. pc \notin {"top", "poll"}
  BY <1>1 DEF InUserCode, ListInv, TodoInv
<1>3. can_sleep => pc = "prepare"
  BY <1>1 DEF LocalsInv, InUserCode
<1> QED
  BY <1>1, <1>2, <1>3 DEF LocalsInv, runvars

(***************************************************************************)
(* Every step keeps the locals in order.                                   *)
(***************************************************************************)
LEMMA LocalsNext == Inv /\ LocalsInv /\ [Next]_vars => LocalsInv'
<1> SUFFICES ASSUME Inv, LocalsInv, [Next]_vars PROVE LocalsInv'
  OBVIOUS
<1> USE DEF LocalsInv, LoopAlive, PassOver, NextOfPass, handlevars, queuevars,
            timevars, runvars
<1>0. /\ pc \in {"out", "top", "poll"} => todo = {} /\ running = None
      /\ alive \in BOOLEAN /\ can_sleep \in BOOLEAN /\ worked \in BOOLEAN
  BY DEF Inv, ListInv, FieldTypes, TodoInv
<1>1. CASE UserCall
  BY <1>1, LocalsUser DEF Inv
<1>2. ASSUME NEW h \in Timer, Tick(h) PROVE LocalsInv'
  BY <1>2 DEF Tick
<1>3. ASSUME NEW m \in {"default", "once", "nowait"}, RunBegin(m)
      PROVE  LocalsInv'
  <2>1. ~can_sleep /\ ~can_sleep'
    BY <1>3 DEF RunBegin
  <2>2. \/ pc' = "timers0" /\ alive'
        \/ pc' = "top" /\ alive' = LoopAlive
           /\ UNCHANGED <<active_handles, pending_queue, closing_handles>>
    BY <1>3 DEF RunBegin
  <2> QED
    BY <2>1, <2>2
<1>4. CASE FirstTimersEnd
  BY <1>4 DEF FirstTimersEnd
<1>5. CASE Iterate
  BY <1>0, <1>5 DEF Iterate
<1>6. CASE RunIdle
  BY <1>0, <1>6 DEF RunIdle
<1>7. CASE RunPrepare
  BY <1>0, <1>7 DEF RunPrepare
<1>8. CASE PollBegin
  BY <1>0, <1>8 DEF PollBegin
<1>9. ASSUME NEW E, PollReturn(E) PROVE LocalsInv'
  BY <1>0, <1>9 DEF PollReturn
<1>10. CASE PollEnd \/ PendingRound \/ RunCheck \/ RunClosing
  BY <1>10 DEF PollEnd, PendingRound, RunCheck, RunClosing
<1>11. CASE RunTimers
  BY <1>11 DEF RunTimers
<1>12. CASE IterationEnd
  <2>1. ~can_sleep'
    BY <1>12 DEF IterationEnd
  <2>2. /\ pc' \in {"top", "out"} /\ alive' = LoopAlive
        /\ UNCHANGED <<active_handles, pending_queue, closing_handles>>
    BY <1>12 DEF IterationEnd
  <2> QED
    BY <2>1, <2>2
<1>13. CASE RunEnd
  BY <1>0, <1>13 DEF RunEnd
<1>14. ASSUME NEW h \in Handles, Callback(h) \/ DropEvent(h) \/ CloseCallback(h)
       PROVE  LocalsInv'
  BY <1>0, <1>14 DEF Callback, DropEvent, CloseCallback
<1>15. ASSUME NEW h \in Timer, NEW repeat \in BOOLEAN, TimerCallback(h, repeat)
       PROVE  LocalsInv'
  BY <1>0, <1>15 DEF TimerCallback
<1>16. CASE CallbackReturn
  BY <1>0, <1>16, NoneIsNoHandle DEF CallbackReturn
<1>17. CASE UNCHANGED vars
  BY <1>17 DEF vars
<1> QED
  BY <1>1, <1>2, <1>3, <1>4, <1>5, <1>6, <1>7, <1>8, <1>9, <1>10, <1>11, <1>12,
     <1>13, <1>14, <1>15, <1>16, <1>17 DEF Next, Phase, AnyCallback

(***************************************************************************)
(* The poll is entered with a timeout only when nothing is left to do      *)
(* before it, and nothing but the clock goes on while it sleeps.           *)
(***************************************************************************)
LEMMA SleepNext ==
  Inv /\ LocalsInv /\ SleepsOnlyWhenIdle /\ [Next]_vars => SleepsOnlyWhenIdle'
<1> SUFFICES ASSUME Inv, LocalsInv, SleepsOnlyWhenIdle, [Next]_vars, pc' = "poll"
             PROVE  SleepsOnlyWhenIdle'
  BY DEF SleepsOnlyWhenIdle
<1> USE DEF handlevars, queuevars, timevars, runvars
<1>1. ~UserCall
  BY LocalsUser DEF Inv
<1>2. CASE PollBegin
  <2> SUFFICES ASSUME timeout' # "zero"
               PROVE  /\ mode # "nowait"
                      /\ mode = "once" => ~worked
                      /\ active \cap Idle = {} /\ pending_queue = {}
                      /\ \A h \in Handles : hstate[h] # "closing"
                      /\ active \cap ref # {}
    BY <1>2 DEF SleepsOnlyWhenIdle, PollBegin
  <2>1. AsksTimeout /\ uv__backend_timeout # "zero" /\ pc = "prepare"
    BY <1>2 DEF PollBegin, PassOver
  <2>2. /\ active_handles > 0 /\ pending_queue = {}
        /\ active \cap Idle = {} /\ closing_handles = {}
    BY <2>1 DEF uv__backend_timeout
  <2>3. active \cap ref # {} /\ \A h \in Handles : hstate[h] # "closing"
    BY <2>1, <2>2, AliveMeansLeft
  <2>4. mode # "nowait" /\ (mode = "once" => ~worked)
    BY <2>1 DEF AsksTimeout, LocalsInv
  <2> QED
    BY <2>2, <2>3, <2>4
<1>3. ASSUME NEW h \in Timer, Tick(h) PROVE SleepsOnlyWhenIdle'
  BY <1>3 DEF Tick, SleepsOnlyWhenIdle
<1>4. CASE UNCHANGED vars
  BY <1>4 DEF vars, SleepsOnlyWhenIdle
<1>5. ASSUME NEW m, RunBegin(m) PROVE FALSE
  BY <1>5 DEF RunBegin
<1>6. ASSUME NEW E, PollReturn(E) PROVE FALSE
  BY <1>6 DEF PollReturn
<1>7. ASSUME Phase, ~PollBegin PROVE FALSE
  BY <1>6, <1>7 DEF Phase, FirstTimersEnd, Iterate, RunIdle, RunPrepare, PollEnd,
     PendingRound, RunCheck, RunClosing, RunTimers, IterationEnd, RunEnd, PassOver
<1>8. ~AnyCallback
  BY DEF AnyCallback, Callback, DropEvent, CloseCallback, TimerCallback
<1>9. ~CallbackReturn
  BY DEF CallbackReturn, Inv, ListInv, TodoInv
<1> QED
  BY <1>1, <1>2, <1>3, <1>4, <1>5, <1>6, <1>7, <1>8, <1>9 DEF Next

(***************************************************************************)
(* Both hold in every reachable state.                                     *)
(***************************************************************************)
THEOREM LocalsAlways == Spec => [](Inv /\ LocalsInv /\ SleepsOnlyWhenIdle)
<1>1. Init => LocalsInv /\ SleepsOnlyWhenIdle
  BY DEF Init, LocalsInv, SleepsOnlyWhenIdle
<1> QED
  BY <1>1, Invariance, LocalsNext, SleepNext, PTL DEF Spec

(***************************************************************************)
(* uv__io_poll gets a timeout other than zero only when no idle watcher is *)
(* active, nothing is deferred or closing and a referenced handle is       *)
(* active; in UV_RUN_ONCE only if no callback ran before in the iteration  *)
(* (the local can_sleep of uv_run), and never in UV_RUN_NOWAIT.            *)
(***************************************************************************)
THEOREM SleepIsJustified == Spec => []SleepsOnlyWhenIdle
  BY LocalsAlways, PTL

(***************************************************************************)
(* uv_run(UV_RUN_DEFAULT), when not stopped, does not return before every  *)
(* active referenced handle, deferred callback and close is done with,     *)
(* although it tests a local that was computed before the last callbacks   *)
(* or at its very beginning.                                               *)
(***************************************************************************)
THEOREM ReturnIsJustified == Spec => ReturnsWhenDone
<1>1. ASSUME Inv, LocalsInv, Next, pc = "top", pc' = "out", ~stop_flag
      PROVE  ~SomethingLeft
  <2>1. ~UserCall
    BY <1>1, LocalsUser DEF Inv
  <2>2. RunEnd
    BY <1>1, <2>1 DEF Next, Tick, RunBegin, Phase, FirstTimersEnd, Iterate,
       RunIdle, RunPrepare, PollBegin, PollReturn, PollEnd, PendingRound,
       RunCheck, RunClosing, RunTimers, IterationEnd, PassOver, AnyCallback,
       Callback, DropEvent, CloseCallback, TimerCallback, CallbackReturn,
       runvars
  <2>3. ~alive
    BY <1>1, <2>2 DEF RunEnd
  <2>4. ~LoopAlive
    BY <1>1, <2>3 DEF LocalsInv
  <2> QED
    BY <1>1, <2>4, AliveMeansLeft
<1>2. Inv /\ LocalsInv /\ [Next]_vars =>
        [pc = "top" /\ pc' = "out" /\ ~stop_flag => ~SomethingLeft]_vars
  BY <1>1
<1> QED
  BY <1>2, LocalsAlways, PTL DEF Spec, ReturnsWhenDone
=============================================================================
