---------------------------- MODULE AsyncProofs ----------------------------
(***************************************************************************)
(* Proofs about module Async, for any set of handles, any finite set of    *)
(* sending threads and any size of the eventfd counter.                    *)
(***************************************************************************)
EXTENDS Async, FiniteSetTheorems, TLAPS

(***************************************************************************)
(* The inductive invariant.  The safety properties are not inductive on    *)
(* their own: they also need where the loop thread is when a handle is     *)
(* being spun on, and that a handle keeps pending = 1 from the beginning   *)
(* of its close on, which is what turns late senders away.                 *)
(***************************************************************************)

\* A thread has a target exactly while it is inside uv_async_send, and the
\* target has been initialised.
TargetInv ==
  \A t \in Threads :
    /\ pc[t] = "idle" <=> target[t] = None
    /\ target[t] # None => hstate[target[t]] # "unused"

\* Where the loop thread is determines the locals of uv__async_io.
LoopInv ==
  /\ spinning # None <=> lpc \in {"spin", "stopspin"}
  /\ lpc = "cb" => running # None
  /\ lpc \notin {"cb", "spin"} => running = None
  /\ queue # {} => running # None \/ lpc \in {"io", "stop", "stopspin"}
  /\ fdOpen <=> lpc # "gone"
  /\ lpc = "gone" => queue = {}

\* A handle keeps pending = 1 from uv_close on.
CloseInv ==
  /\ hstate[Internal] = "active"
  /\ \A h \in Handles : hstate[h] \in {"closing", "closed"} => pending[h] = 1
  /\ lpc = "spin" => hstate[spinning] = "closing"

\* What uv__async_stop has established for the handles it has visited.
StopInv ==
  Stopping =>
    /\ \A h \in Handles \ {Internal} : hstate[h] \in {"unused", "closed"}
    /\ \A h \in async_handles :
         /\ pending[h] = 1
         /\ h # spinning => \A t \in Threads : pc[t] = "write" => target[t] # h

Inv ==
  /\ TypeOK
  /\ BusyCountsSenders
  /\ ListedOnce
  /\ NoWriteAfterSpin
  /\ NoLostWakeup
  /\ TargetInv
  /\ LoopInv
  /\ CloseInv
  /\ StopInv

-----------------------------------------------------------------------------
USE InternalIsHandle, NoCallbackHandles, EventfdMaxPositive, NoneIsNoHandle

(***************************************************************************)
(* When uv__async_spin reads busy == 0, no thread is between busy++ and    *)
(* busy-- of that handle.                                                  *)
(***************************************************************************)
LEMMA NobodyInside ==
  ASSUME TypeOK, BusyCountsSenders, NEW h \in Handles, busy[h] = 0
  PROVE  \A t \in Threads : target[t] = h => pc[t] \in {"idle", "enter"}
<1>1. IsFiniteSet(Inside(h))
  BY ThreadsFinite, FS_Subset DEF Inside
<1>2. Inside(h) = {}
  BY <1>1, FS_EmptySet DEF BusyCountsSenders
<1> QED
  BY <1>2 DEF Inside, TypeOK

(***************************************************************************)
(* Every step of uv_async_send and of the loop keeps busy equal to the     *)
(* number of threads inside.                                               *)
(***************************************************************************)
LEMMA BusyPreserved ==
  ASSUME Inv, Next
  PROVE  BusyCountsSenders'
<1> USE DEF Inv, BusyCountsSenders, Inside
<1>1. ASSUME NEW t \in Threads, SendEnter(t)
      PROVE  BusyCountsSenders'
  <2> SUFFICES ASSUME NEW h \in Handles
               PROVE  busy'[h] = Cardinality(Inside(h)')
    BY DEF BusyCountsSenders
  <2>1. target[t] \in Handles /\ t \notin Inside(h) /\ IsFiniteSet(Inside(h))
    BY <1>1, ThreadsFinite, FS_Subset DEF SendEnter, TypeOK, TargetInv
  <2>2. CASE h = target[t]
    <3>1. Inside(h)' = Inside(h) \cup {t}
      BY <1>1, <2>2 DEF SendEnter, TypeOK
    <3>2. Cardinality(Inside(h)') = Cardinality(Inside(h)) + 1
      BY <2>1, <3>1, FS_AddElement
    <3> QED
      BY <1>1, <2>1, <2>2, <3>2 DEF SendEnter, TypeOK
  <2>3. CASE h # target[t]
    <3>1. Inside(h)' = Inside(h)
      BY <1>1, <2>3 DEF SendEnter, TypeOK
    <3> QED
      BY <1>1, <2>1, <2>3, <3>1 DEF SendEnter, TypeOK
  <2> QED
    BY <2>2, <2>3
<1>2. ASSUME NEW t \in Threads, SendLeave(t)
      PROVE  BusyCountsSenders'
  <2> SUFFICES ASSUME NEW h \in Handles
               PROVE  busy'[h] = Cardinality(Inside(h)')
    BY DEF BusyCountsSenders
  <2>1. target[t] \in Handles /\ IsFiniteSet(Inside(h))
    BY <1>2, ThreadsFinite, FS_Subset DEF SendLeave, TypeOK, TargetInv
  <2>2. CASE h = target[t]
    <3>1. t \in Inside(h) /\ Inside(h)' = Inside(h) \ {t}
      BY <1>2, <2>2 DEF SendLeave, TypeOK
    <3> HIDE DEF Inside
    <3>2. Cardinality(Inside(h)') = Cardinality(Inside(h)) - 1
      <4>1. Cardinality(Inside(h) \ {t}) = Cardinality(Inside(h)) - 1
        BY <2>1, <3>1, FS_RemoveElement
      <4> QED
        BY <3>1, <4>1, Zenon
    <3>3. busy'[h] = busy[h] - 1
      BY <1>2, <2>1, <2>2 DEF SendLeave, TypeOK
    <3> QED
      BY <3>2, <3>3 DEF BusyCountsSenders
  <2>3. CASE h # target[t]
    <3>1. Inside(h)' = Inside(h)
      BY <1>2, <2>3 DEF SendLeave, TypeOK
    <3> QED
      BY <1>2, <2>1, <2>3, <3>1 DEF SendLeave, TypeOK
  <2> QED
    BY <2>2, <2>3
<1>3. ASSUME NEW g \in Handles, AsyncInit(g)
      PROVE  BusyCountsSenders'
  <2> SUFFICES ASSUME NEW h \in Handles
               PROVE  busy'[h] = Cardinality(Inside(h)')
    BY DEF BusyCountsSenders
  <2>1. Inside(h)' = Inside(h) /\ (h = g => Inside(h) = {})
    BY <1>3 DEF AsyncInit, svars
  <2> QED
    BY <1>3, <2>1, FS_EmptySet DEF AsyncInit, TypeOK
<1>4. ASSUME busy' = busy, \A h \in Handles : Inside(h)' = Inside(h)
      PROVE  BusyCountsSenders'
  BY <1>4
<1>5. ASSUME NEW t \in Threads, \/ \E h \in Handles : SendLoad(t, h)
                                \/ SendExchange(t)
                                \/ SendWrite(t)
      PROVE  BusyCountsSenders'
  BY <1>5, <1>4 DEF SendLoad, SendExchange, SendWrite, TypeOK, TargetInv,
                    hvars, lvars
<1>6. CASE UNCHANGED <<busy, pc, target>>
  BY <1>6, <1>4
<1> QED
  BY <1>1, <1>2, <1>3, <1>5, <1>6
  DEF Next, Send, LoopStep, LoopSend, IoBegin, IoNext, CallbackReturn, IoEnd,
      CloseBegin, CloseEnd, CloseCallback, StopBegin, StopNext, StopSpun,
      StopEnd, hvars, svars

(***************************************************************************)
(* The invariant holds initially.                                          *)
(***************************************************************************)
LEMMA InvInit == Init => Inv
<1> SUFFICES ASSUME Init PROVE Inv
  OBVIOUS
<1>1. BusyCountsSenders
  <2>1. \A h \in Handles : Inside(h) = {}
    BY DEF Init, Inside
  <2> QED
    BY <2>1, FS_EmptySet DEF Init, BusyCountsSenders
<1> QED
  BY <1>1 DEF Init, Inv, TypeOK, ListedOnce, NoWriteAfterSpin, NoLostWakeup,
              TargetInv, LoopInv, CloseInv, StopInv, Stopping

(***************************************************************************)
(* Every step preserves the invariant.                                     *)
(***************************************************************************)
LEMMA InvNext ==
  ASSUME Inv, [Next]_vars
  PROVE  Inv'
<1> USE DEF Inv, TypeOK, Stopping, InUserCode, hvars, svars, lvars
<1>1. ASSUME NEW t \in Threads, NEW h \in Handles, SendLoad(t, h)
      PROVE  Inv'
  <2>1. BusyCountsSenders'
    BY <1>1, BusyPreserved DEF Next, Send, LoopStep
  <2>2. TypeOK' /\ TargetInv'
    BY <1>1 DEF SendLoad, TargetInv, LoopInv
  <2>3. LoopInv' /\ CloseInv' /\ ListedOnce'
    BY <1>1 DEF SendLoad, LoopInv, CloseInv, ListedOnce, TargetInv
  <2>4. NoWriteAfterSpin' /\ StopInv'
    BY <1>1 DEF SendLoad, NoWriteAfterSpin, StopInv, TargetInv, LoopInv,
       CloseInv, ListedOnce
  <2>5. NoLostWakeup'
    BY <1>1 DEF SendLoad, NoLostWakeup, ListedOnce, LoopInv, CloseInv, TargetInv
  <2> QED
    BY <2>1, <2>2, <2>3, <2>4, <2>5
<1>2. ASSUME NEW t \in Threads, SendEnter(t)
      PROVE  Inv'
  <2>1. BusyCountsSenders'
    BY <1>2, BusyPreserved DEF Next, Send, LoopStep
  <2>2. TypeOK' /\ TargetInv'
    BY <1>2 DEF SendEnter, TargetInv, LoopInv
  <2>3. LoopInv' /\ CloseInv' /\ ListedOnce'
    BY <1>2 DEF SendEnter, LoopInv, CloseInv, ListedOnce, TargetInv
  <2>4. NoWriteAfterSpin' /\ StopInv'
    BY <1>2 DEF SendEnter, NoWriteAfterSpin, StopInv, TargetInv, LoopInv,
       CloseInv, ListedOnce
  <2>5. NoLostWakeup'
    BY <1>2 DEF SendEnter, NoLostWakeup, ListedOnce, LoopInv, CloseInv, TargetInv
  <2> QED
    BY <2>1, <2>2, <2>3, <2>4, <2>5
<1>3. ASSUME NEW t \in Threads, SendExchange(t)
      PROVE  Inv'
  <2>1. BusyCountsSenders'
    BY <1>3, BusyPreserved DEF Next, Send, LoopStep
  <2>2. TypeOK' /\ TargetInv'
    BY <1>3 DEF SendExchange, TargetInv, LoopInv
  <2>3. LoopInv' /\ CloseInv' /\ ListedOnce'
    BY <1>3 DEF SendExchange, LoopInv, CloseInv, ListedOnce, TargetInv
  <2>4. NoWriteAfterSpin' /\ StopInv'
    BY <1>3 DEF SendExchange, NoWriteAfterSpin, StopInv, TargetInv, LoopInv,
       CloseInv, ListedOnce
  <2>5. NoLostWakeup'
    BY <1>3 DEF SendExchange, NoLostWakeup, ListedOnce, LoopInv, CloseInv, TargetInv
  <2> QED
    BY <2>1, <2>2, <2>3, <2>4, <2>5
<1>4. ASSUME NEW t \in Threads, SendWrite(t)
      PROVE  Inv'
  <2>1. BusyCountsSenders'
    BY <1>4, BusyPreserved DEF Next, Send, LoopStep
  <2>2. TypeOK' /\ TargetInv'
    BY <1>4 DEF SendWrite, TargetInv, LoopInv
  <2>3. LoopInv' /\ CloseInv' /\ ListedOnce'
    BY <1>4 DEF SendWrite, LoopInv, CloseInv, ListedOnce, TargetInv
  <2>4. NoWriteAfterSpin' /\ StopInv'
    BY <1>4 DEF SendWrite, NoWriteAfterSpin, StopInv, TargetInv, LoopInv,
       CloseInv, ListedOnce
  <2>5. NoLostWakeup'
    BY <1>4 DEF SendWrite, NoLostWakeup, ListedOnce, LoopInv, CloseInv, TargetInv
  <2> QED
    BY <2>1, <2>2, <2>3, <2>4, <2>5
<1>5. ASSUME NEW t \in Threads, SendLeave(t)
      PROVE  Inv'
  <2>1. BusyCountsSenders'
    BY <1>5, BusyPreserved DEF Next, Send, LoopStep
  <2>busy. busy' \in [Handles -> Nat]
    <3>1. ASSUME NEW h \in Handles
          PROVE  busy'[h] \in Nat
      <4>1. IsFiniteSet(Inside(h)')
        BY ThreadsFinite, FS_Subset DEF Inside
      <4> QED
        BY <2>1, <4>1, FS_CardinalityType DEF BusyCountsSenders
    <3> QED
      BY <1>5, <3>1 DEF SendLeave
  <2>2. TypeOK' /\ TargetInv'
    BY <1>5, <2>busy DEF SendLeave, TargetInv, LoopInv
  <2>3. LoopInv' /\ CloseInv' /\ ListedOnce'
    BY <1>5 DEF SendLeave, LoopInv, CloseInv, ListedOnce, TargetInv
  <2>4. NoWriteAfterSpin' /\ StopInv'
    BY <1>5 DEF SendLeave, NoWriteAfterSpin, StopInv, TargetInv, LoopInv,
       CloseInv, ListedOnce
  <2>5. NoLostWakeup'
    BY <1>5 DEF SendLeave, NoLostWakeup, ListedOnce, LoopInv, CloseInv, TargetInv
  <2> QED
    BY <2>1, <2>2, <2>3, <2>4, <2>5
<1>6. ASSUME NEW h \in Handles, AsyncInit(h)
      PROVE  Inv'
  <2>1. BusyCountsSenders'
    BY <1>6, BusyPreserved DEF Next, Send, LoopStep
  <2>2. TypeOK' /\ TargetInv'
    BY <1>6 DEF AsyncInit, TargetInv, LoopInv
  <2>3. LoopInv' /\ CloseInv' /\ ListedOnce'
    BY <1>6 DEF AsyncInit, LoopInv, CloseInv, ListedOnce, TargetInv
  <2>4. NoWriteAfterSpin' /\ StopInv'
    BY <1>6 DEF AsyncInit, NoWriteAfterSpin, StopInv, TargetInv, LoopInv,
       CloseInv, ListedOnce
  <2>5. NoLostWakeup'
    BY <1>6 DEF AsyncInit, NoLostWakeup, ListedOnce, LoopInv, CloseInv, TargetInv
  <2> QED
    BY <2>1, <2>2, <2>3, <2>4, <2>5
<1>7. ASSUME NEW h \in Handles, LoopSend(h)
      PROVE  Inv'
  <2>1. BusyCountsSenders'
    BY <1>7, BusyPreserved DEF Next, Send, LoopStep
  <2>2. TypeOK' /\ TargetInv'
    BY <1>7 DEF LoopSend, TargetInv, LoopInv
  <2>3. LoopInv' /\ CloseInv' /\ ListedOnce'
    BY <1>7 DEF LoopSend, LoopInv, CloseInv, ListedOnce, TargetInv
  <2>4. NoWriteAfterSpin' /\ StopInv'
    BY <1>7 DEF LoopSend, NoWriteAfterSpin, StopInv, TargetInv, LoopInv,
       CloseInv, ListedOnce
  <2>5. NoLostWakeup'
    BY <1>7 DEF LoopSend, NoLostWakeup, ListedOnce, LoopInv, CloseInv, TargetInv
  <2> QED
    BY <2>1, <2>2, <2>3, <2>4, <2>5
<1>8. ASSUME IoBegin
      PROVE  Inv'
  <2>1. BusyCountsSenders'
    BY <1>8, BusyPreserved DEF Next, Send, LoopStep
  <2>2. TypeOK' /\ TargetInv'
    BY <1>8 DEF IoBegin, TargetInv, LoopInv
  <2>3. LoopInv' /\ CloseInv' /\ ListedOnce'
    BY <1>8 DEF IoBegin, LoopInv, CloseInv, ListedOnce, TargetInv
  <2>4. NoWriteAfterSpin' /\ StopInv'
    BY <1>8 DEF IoBegin, NoWriteAfterSpin, StopInv, TargetInv, LoopInv,
       CloseInv, ListedOnce
  <2>5. NoLostWakeup'
    BY <1>8 DEF IoBegin, NoLostWakeup, ListedOnce, LoopInv, CloseInv, TargetInv
  <2> QED
    BY <2>1, <2>2, <2>3, <2>4, <2>5
<1>9. ASSUME NEW h \in Handles, IoNext(h)
      PROVE  Inv'
  <2>1. BusyCountsSenders'
    BY <1>9, BusyPreserved DEF Next, Send, LoopStep
  <2>2. TypeOK' /\ TargetInv'
    BY <1>9 DEF IoNext, TargetInv, LoopInv
  <2>3. LoopInv' /\ CloseInv' /\ ListedOnce'
    BY <1>9 DEF IoNext, LoopInv, CloseInv, ListedOnce, TargetInv
  <2>4. NoWriteAfterSpin' /\ StopInv'
    BY <1>9 DEF IoNext, NoWriteAfterSpin, StopInv, TargetInv, LoopInv,
       CloseInv, ListedOnce
  <2>5. NoLostWakeup'
    BY <1>9 DEF IoNext, NoLostWakeup, ListedOnce, LoopInv, CloseInv, TargetInv
  <2> QED
    BY <2>1, <2>2, <2>3, <2>4, <2>5
<1>10. ASSUME CallbackReturn
      PROVE  Inv'
  <2>1. BusyCountsSenders'
    BY <1>10, BusyPreserved DEF Next, Send, LoopStep
  <2>2. TypeOK' /\ TargetInv'
    BY <1>10 DEF CallbackReturn, TargetInv, LoopInv
  <2>3. LoopInv' /\ CloseInv' /\ ListedOnce'
    BY <1>10 DEF CallbackReturn, LoopInv, CloseInv, ListedOnce, TargetInv
  <2>4. NoWriteAfterSpin' /\ StopInv'
    BY <1>10 DEF CallbackReturn, NoWriteAfterSpin, StopInv, TargetInv, LoopInv,
       CloseInv, ListedOnce
  <2>5. NoLostWakeup'
    BY <1>10 DEF CallbackReturn, NoLostWakeup, ListedOnce, LoopInv, CloseInv, TargetInv
  <2> QED
    BY <2>1, <2>2, <2>3, <2>4, <2>5
<1>11. ASSUME IoEnd
      PROVE  Inv'
  <2>1. BusyCountsSenders'
    BY <1>11, BusyPreserved DEF Next, Send, LoopStep
  <2>2. TypeOK' /\ TargetInv'
    BY <1>11 DEF IoEnd, TargetInv, LoopInv
  <2>3. LoopInv' /\ CloseInv' /\ ListedOnce'
    BY <1>11 DEF IoEnd, LoopInv, CloseInv, ListedOnce, TargetInv
  <2>4. NoWriteAfterSpin' /\ StopInv'
    BY <1>11 DEF IoEnd, NoWriteAfterSpin, StopInv, TargetInv, LoopInv,
       CloseInv, ListedOnce
  <2>5. NoLostWakeup'
    BY <1>11 DEF IoEnd, NoLostWakeup, ListedOnce, LoopInv, CloseInv, TargetInv
  <2> QED
    BY <2>1, <2>2, <2>3, <2>4, <2>5
<1>12. ASSUME NEW h \in Handles, CloseBegin(h)
      PROVE  Inv'
  <2>1. BusyCountsSenders'
    BY <1>12, BusyPreserved DEF Next, Send, LoopStep
  <2>2. TypeOK' /\ TargetInv'
    BY <1>12 DEF CloseBegin, TargetInv, LoopInv
  <2>3. LoopInv' /\ CloseInv' /\ ListedOnce'
    BY <1>12 DEF CloseBegin, LoopInv, CloseInv, ListedOnce, TargetInv
  <2>4. NoWriteAfterSpin' /\ StopInv'
    BY <1>12 DEF CloseBegin, NoWriteAfterSpin, StopInv, TargetInv, LoopInv,
       CloseInv, ListedOnce
  <2>5. NoLostWakeup'
    BY <1>12 DEF CloseBegin, NoLostWakeup, ListedOnce, LoopInv, CloseInv, TargetInv
  <2> QED
    BY <2>1, <2>2, <2>3, <2>4, <2>5
<1>13. ASSUME CloseEnd
      PROVE  Inv'
  <2>1. BusyCountsSenders'
    BY <1>13, BusyPreserved DEF Next, Send, LoopStep
  <2>2. TypeOK' /\ TargetInv'
    BY <1>13 DEF CloseEnd, TargetInv, LoopInv
  <2>3. LoopInv' /\ CloseInv' /\ ListedOnce'
    BY <1>13 DEF CloseEnd, LoopInv, CloseInv, ListedOnce, TargetInv
  <2>4. NoWriteAfterSpin' /\ StopInv'
    BY <1>13, NobodyInside DEF CloseEnd, NoWriteAfterSpin, StopInv, TargetInv, LoopInv,
       CloseInv, ListedOnce
  <2>5. NoLostWakeup'
    BY <1>13 DEF CloseEnd, NoLostWakeup, ListedOnce, LoopInv, CloseInv, TargetInv
  <2> QED
    BY <2>1, <2>2, <2>3, <2>4, <2>5
<1>14. ASSUME NEW h \in Handles, CloseCallback(h)
      PROVE  Inv'
  <2>1. BusyCountsSenders'
    BY <1>14, BusyPreserved DEF Next, Send, LoopStep
  <2>2. TypeOK' /\ TargetInv'
    BY <1>14 DEF CloseCallback, TargetInv, LoopInv
  <2>3. LoopInv' /\ CloseInv' /\ ListedOnce'
    BY <1>14 DEF CloseCallback, LoopInv, CloseInv, ListedOnce, TargetInv
  <2>4. NoWriteAfterSpin' /\ StopInv'
    BY <1>14 DEF CloseCallback, NoWriteAfterSpin, StopInv, TargetInv, LoopInv,
       CloseInv, ListedOnce
  <2>5. NoLostWakeup'
    BY <1>14 DEF CloseCallback, NoLostWakeup, ListedOnce, LoopInv, CloseInv, TargetInv
  <2> QED
    BY <2>1, <2>2, <2>3, <2>4, <2>5
<1>15. ASSUME StopBegin
      PROVE  Inv'
  <2>1. BusyCountsSenders'
    BY <1>15, BusyPreserved DEF Next, Send, LoopStep
  <2>2. TypeOK' /\ TargetInv'
    BY <1>15 DEF StopBegin, TargetInv, LoopInv
  <2>3. LoopInv' /\ CloseInv' /\ ListedOnce'
    BY <1>15 DEF StopBegin, LoopInv, CloseInv, ListedOnce, TargetInv
  <2>4. NoWriteAfterSpin' /\ StopInv'
    BY <1>15 DEF StopBegin, NoWriteAfterSpin, StopInv, TargetInv, LoopInv,
       CloseInv, ListedOnce
  <2>5. NoLostWakeup'
    BY <1>15 DEF StopBegin, NoLostWakeup, ListedOnce, LoopInv, CloseInv, TargetInv
  <2> QED
    BY <2>1, <2>2, <2>3, <2>4, <2>5
<1>16. ASSUME NEW h \in Handles, StopNext(h)
      PROVE  Inv'
  <2>1. BusyCountsSenders'
    BY <1>16, BusyPreserved DEF Next, Send, LoopStep
  <2>2. TypeOK' /\ TargetInv'
    BY <1>16 DEF StopNext, TargetInv, LoopInv
  <2>3. LoopInv' /\ CloseInv' /\ ListedOnce'
    BY <1>16 DEF StopNext, LoopInv, CloseInv, ListedOnce, TargetInv
  <2>4. NoWriteAfterSpin' /\ StopInv'
    BY <1>16 DEF StopNext, NoWriteAfterSpin, StopInv, TargetInv, LoopInv,
       CloseInv, ListedOnce
  <2>5. NoLostWakeup'
    BY <1>16 DEF StopNext, NoLostWakeup, ListedOnce, LoopInv, CloseInv, TargetInv
  <2> QED
    BY <2>1, <2>2, <2>3, <2>4, <2>5
<1>17. ASSUME StopSpun
      PROVE  Inv'
  <2>1. BusyCountsSenders'
    BY <1>17, BusyPreserved DEF Next, Send, LoopStep
  <2>2. TypeOK' /\ TargetInv'
    BY <1>17 DEF StopSpun, TargetInv, LoopInv
  <2>3. LoopInv' /\ CloseInv' /\ ListedOnce'
    BY <1>17 DEF StopSpun, LoopInv, CloseInv, ListedOnce, TargetInv, StopInv
  <2>4. NoWriteAfterSpin' /\ StopInv'
    BY <1>17, NobodyInside DEF StopSpun, NoWriteAfterSpin, StopInv, TargetInv, LoopInv,
       CloseInv, ListedOnce
  <2>5. NoLostWakeup'
    BY <1>17 DEF StopSpun, NoLostWakeup, ListedOnce, LoopInv, CloseInv, TargetInv
  <2> QED
    BY <2>1, <2>2, <2>3, <2>4, <2>5
<1>18. ASSUME StopEnd
      PROVE  Inv'
  <2>1. BusyCountsSenders'
    BY <1>18, BusyPreserved DEF Next, Send, LoopStep
  <2>2. TypeOK' /\ TargetInv'
    BY <1>18 DEF StopEnd, TargetInv, LoopInv
  <2>3. LoopInv' /\ CloseInv' /\ ListedOnce'
    BY <1>18 DEF StopEnd, LoopInv, CloseInv, ListedOnce, TargetInv
  <2>4. NoWriteAfterSpin' /\ StopInv'
    BY <1>18 DEF StopEnd, NoWriteAfterSpin, StopInv, TargetInv, LoopInv,
       CloseInv, ListedOnce
  <2>5. NoLostWakeup'
    BY <1>18 DEF StopEnd, NoLostWakeup, ListedOnce, LoopInv, CloseInv, TargetInv
  <2> QED
    BY <2>1, <2>2, <2>3, <2>4, <2>5
<1>19. CASE UNCHANGED vars
  BY <1>19 DEF vars, BusyCountsSenders, Inside, TargetInv, LoopInv, CloseInv,
             StopInv, ListedOnce, NoWriteAfterSpin, NoLostWakeup
<1> QED
  BY <1>1, <1>2, <1>3, <1>4, <1>5, <1>6, <1>7, <1>8, <1>9, <1>10, <1>11, <1>12, <1>13, <1>14, <1>15, <1>16, <1>17, <1>18, <1>19
  DEF Next, Send, LoopStep

-----------------------------------------------------------------------------
(***************************************************************************)
(* The invariant holds in every reachable state of async.c.                *)
(***************************************************************************)
THEOREM InvAlways == Spec => []Inv
<1>1. Init => Inv
  BY InvInit
<1>2. Inv /\ [Next]_vars => Inv'
  BY InvNext
<1> QED
  BY <1>1, <1>2, PTL DEF Spec

(***************************************************************************)
(* Type correctness of the state of uv_async_t and of the loop's lists; in *)
(* particular the busy count never goes below zero.                        *)
(***************************************************************************)
THEOREM TypeCorrect == Spec => []TypeOK
<1>1. Inv => TypeOK
  BY DEF Inv
<1> QED
  BY <1>1, InvAlways, PTL

(***************************************************************************)
(* After uv__async_spin no thread writes to the wakeup fd on behalf of the *)
(* handle, and none writes to it once uv__async_stop has closed it.        *)
(***************************************************************************)
THEOREM WritesAreSafe == Spec => []NoWriteAfterSpin
<1>1. Inv => NoWriteAfterSpin
  BY DEF Inv
<1> QED
  BY <1>1, InvAlways, PTL

(***************************************************************************)
(* The pending flag of a live handle is never left set with nobody going   *)
(* to look at it.                                                          *)
(***************************************************************************)
THEOREM WakeupsAreKept == Spec => []NoLostWakeup
<1>1. Inv => NoLostWakeup
  BY DEF Inv
<1> QED
  BY <1>1, InvAlways, PTL

(***************************************************************************)
(* A live handle is on exactly one of the loop's two lists.                *)
(***************************************************************************)
THEOREM HandlesAreListed == Spec => []ListedOnce
<1>1. Inv => ListedOnce
  BY DEF Inv
<1> QED
  BY <1>1, InvAlways, PTL

(***************************************************************************)
(* Every step of async.c is a step of module Wakeup or changes nothing     *)
(* that Wakeup sees.                                                       *)
(***************************************************************************)
LEMMA StepsRefine ==
  ASSUME Inv, [Next]_vars
  PROVE  [Abs!Next]_(Abs!vars)
<1> USE DEF Inv, TypeOK, Stopping, InUserCode, hvars, svars, lvars,
            Abs!Next, Abs!vars
<1>1. ASSUME NEW t \in Threads, NEW h \in Handles, SendLoad(t, h)
      PROVE  UNCHANGED Abs!vars
  BY <1>1 DEF SendLoad
<1>2. ASSUME NEW t \in Threads, SendExchange(t)
      PROVE  [Abs!Next]_(Abs!vars)
  <2>1. PICK h \in Handles : h = target[t]
    BY <1>2 DEF SendExchange, TargetInv
  <2>2. CASE hstate[h] = "active" /\ ~Stopping
    <3>1. Abs!Ask(h)
      BY <1>2, <2>1, <2>2 DEF SendExchange, Abs!Ask
    <3> QED
      BY <2>1, <3>1
  <2>3. CASE ~(hstate[h] = "active" /\ ~Stopping)
    BY <1>2, <2>1, <2>3 DEF SendExchange
  <2> QED
    BY <2>2, <2>3
<1>3. ASSUME NEW t \in Threads, SendEnter(t) \/ SendWrite(t) \/ SendLeave(t)
      PROVE  UNCHANGED Abs!vars
  BY <1>3 DEF SendEnter, SendWrite, SendLeave
<1>4. ASSUME NEW h \in Handles, AsyncInit(h)
      PROVE  Abs!Open(h)
  BY <1>4 DEF AsyncInit, Abs!Open
<1>5. ASSUME NEW h \in Handles, LoopSend(h)
      PROVE  Abs!Ask(h) \/ UNCHANGED Abs!vars
  BY <1>5 DEF LoopSend, Abs!Ask
<1>6. ASSUME NEW h \in Handles, IoNext(h)
      PROVE  Abs!Answer(h) \/ UNCHANGED Abs!vars
  BY <1>6 DEF IoNext, Abs!Answer, LoopInv, ListedOnce
<1>7. ASSUME CallbackReturn
      PROVE  Abs!CallbackReturn
  BY <1>7 DEF CallbackReturn, Abs!CallbackReturn, LoopInv
<1>8. ASSUME NEW h \in Handles, CloseBegin(h)
      PROVE  Abs!Close(h)
  BY <1>8 DEF CloseBegin, Abs!Close
<1>9. ASSUME NEW h \in Handles, CloseCallback(h)
      PROVE  Abs!Closed(h)
  BY <1>9 DEF CloseCallback, Abs!Closed, LoopInv
<1>10. ASSUME StopBegin
       PROVE  Abs!TakeDown
  BY <1>10 DEF StopBegin, Abs!TakeDown, LoopInv
<1>11. CASE IoBegin \/ IoEnd \/ CloseEnd
  BY <1>11 DEF IoBegin, IoEnd, CloseEnd
<1>12. CASE (\E h \in Handles : StopNext(h)) \/ StopSpun \/ StopEnd
  BY <1>12 DEF StopNext, StopSpun, StopEnd
<1>13. CASE UNCHANGED vars
  BY <1>13 DEF vars
<1> QED
  BY <1>1, <1>2, <1>3, <1>4, <1>5, <1>6, <1>7, <1>8, <1>9, <1>10, <1>11,
     <1>12, <1>13 DEF Next, Send, LoopStep

(***************************************************************************)
(* async.c keeps the promise of module Wakeup: requests coalesce, every    *)
(* callback answers a request, and no callback begins after uv_close.      *)
(***************************************************************************)
THEOREM RefinesWakeup == Spec => ImplementsWakeup
<1>1. Init => Abs!Init
  BY DEF Init, Abs!Init, Stopping
<1>2. Inv /\ [Next]_vars => [Abs!Next]_(Abs!vars)
  BY StepsRefine
<1> QED
  BY <1>1, <1>2, InvAlways, PTL DEF Spec, ImplementsWakeup, Abs!Spec
=============================================================================
