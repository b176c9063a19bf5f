---------------------------- MODULE WorkRequest ----------------------------
(***************************************************************************)
(* What the thread pool promises for each request handed to it with        *)
(* uv_queue_work or as an asynchronous file system request, without        *)
(* threads, locks or queues: it is run at most once, or cancelled before   *)
(* it runs and never after; its done callback comes once, after that; no   *)
(* more requests run at a time than there are workers, and no more slow    *)
(* ones than SlowLimit.                                                    *)
(***************************************************************************)
EXTENDS Naturals, FiniteSets

CONSTANTS Works, Slow, Pool, SlowLimit

VARIABLE state  \* "free", "queued", "running", "ran" or "cancelled"

Running == {w \in Works : state[w] = "running"}

Init == state = [w \in Works |-> "free"]

Submit(w) ==
  /\ state[w] = "free"
  /\ state' = [state EXCEPT ![w] = "queued"]

Start(w) ==
  /\ state[w] = "queued"
  /\ Cardinality(Running) < Pool
  /\ w \in Slow => Cardinality(Running \cap Slow) < SlowLimit
  /\ state' = [state EXCEPT ![w] = "running"]

Finish(w) ==
  /\ state[w] = "running"
  /\ state' = [state EXCEPT ![w] = "ran"]

Cancel(w) ==
  /\ state[w] = "queued"
  /\ state' = [state EXCEPT ![w] = "cancelled"]

Done(w) ==
  /\ state[w] \in {"ran", "cancelled"}
  /\ state' = [state EXCEPT ![w] = "free"]

Next == \E w \in Works : Submit(w) \/ Start(w) \/ Finish(w) \/ Cancel(w) \/ Done(w)

Spec == Init /\ [][Next]_state
=============================================================================
