------------------------------- MODULE WinPoll -------------------------------
(***************************************************************************)
(* A uv_poll_t on Windows (src/win/poll.c).  Readiness of a socket is      *)
(* asked for with requests that return once, so the handle has two: when   *)
(* the wanted events grow, the second request replaces the first, which is *)
(* masked and made to return.  In fast mode a request is an AFD poll of    *)
(* the kernel, in slow mode a thread in select() that cannot be called     *)
(* back and that reads handle->events when it gets to run.                 *)
(***************************************************************************)
EXTENDS Integers, Sequences, FiniteSets

CONSTANT MaxUse    \* bound: calls of user code

Reqs == 1..2
Other(i) == 3 - i
Events == {"READABLE", "WRITABLE", "DISCONNECT"}

VARIABLES
  poll,     \* the handle and its two requests
  pc,    \* <<"idle">>, or in poll_cb
  uses

vars == <<poll, pc, uses>>

(***************************************************************************)
(* slow      UV_HANDLE_POLL_SLOW                                           *)
(* events, sub, mask    handle->events, submitted_events_, mask_events_    *)
(* out       where a request is: none, queued (for a thread), kernel, back *)
(* asked     what the kernel or select() was asked for                     *)
(* ok, got   the status of a request and the events that it reports        *)
(* refused   history: the kernel refused a poll                            *)
(***************************************************************************)
Init ==
  /\ \E slow \in BOOLEAN :
       poll = [slow |-> slow, flags |-> {}, events |-> {}, sub |-> [i \in Reqs |-> {}],
            mask |-> [i \in Reqs |-> {}], out |-> [i \in Reqs |-> "none"],
            asked |-> [i \in Reqs |-> {}], ok |-> [i \in Reqs |-> TRUE],
            got |-> [i \in Reqs |-> {}], refused |-> FALSE]
  /\ pc = <<"idle">> /\ uses = 0

Has(f) == f \in poll.flags
Submitted(p) == p.sub[1] \cup p.sub[2]
Returned(p, i) == [p EXCEPT !.out[i] = "back", !.asked[i] = {}]
Failed(p, i) == [Returned(p, i) EXCEPT !.ok[i] = FALSE]

\* An exclusive poll makes the other requests of the socket return, with
\* no event.
Interrupt(p, is) ==
  [p EXCEPT !.out = [i \in Reqs |-> IF i \in is /\ @[i] = "kernel" THEN "back" ELSE @[i]],
            !.ok = [i \in Reqs |-> IF i \in is /\ p.out[i] = "kernel" THEN TRUE ELSE @[i]],
            !.got = [i \in Reqs |-> IF i \in is /\ p.out[i] = "kernel" THEN {} ELSE @[i]],
            !.asked = [i \in Reqs |-> IF i \in is THEN {} ELSE @[i]]]

-----------------------------------------------------------------------------
(* Submitting.                                                             *)

\* Mutant: the older request is not masked.
ClaimNoMask(p, i) == [p EXCEPT !.sub[i] = p.events, !.mask[i] = {}]

\* A free request takes the wanted events; what the other one still reports
\* of them is masked.
Claim(p, i) ==
  [p EXCEPT !.sub[i] = p.events, !.mask[i] = {}, !.mask[Other(i)] = p.events]

\* The AFD events for the wanted events.
AfdEvents(events) ==
  (IF "READABLE" \in events THEN {"RECEIVE", "AFD_DISCONNECT"}
   ELSE IF "DISCONNECT" \in events THEN {"AFD_DISCONNECT"} ELSE {})
  \cup (IF "WRITABLE" \in events THEN {"SEND"} ELSE {})

\* uv__fast_poll_submit_poll_req: with both requests out, wait for the one
\* that is about to return.
FastSubmit(p) ==
  IF \A i \in Reqs : p.sub[i] # {} THEN {p}
  ELSE LET i == IF p.sub[1] = {} THEN 1 ELSE 2
           q == Claim(p, i)
       IN {Interrupt([q EXCEPT !.out[i] = "kernel", !.asked[i] = AfdEvents(p.events)], {Other(i)}),
           [Failed(q, i) EXCEPT !.refused = TRUE]}

\* uv__slow_poll_submit_poll_req: a thread, or an error when there is none.
SlowSubmit(p) ==
  LET i == IF p.sub[1] = {} THEN 1 ELSE 2
      q == Claim(p, i)
  IN {[q EXCEPT !.out[i] = "queued"], Failed(q, i)}

Submit(p) == IF p.slow THEN SlowSubmit(p) ELSE FastSubmit(p)

\* Mutant: events that a request, though masked, asks for are left to it.
NeedsRequestOnce(p) == p.events # {} /\ Submitted(p) = {}

\* Wanted events that no request asks for.
NeedsRequest(p) == ~(p.events \subseteq Submitted(p))

-----------------------------------------------------------------------------
(* User code, outside uv_run or in poll_cb.                                *)

User == uses < MaxUse /\ uses' = uses + 1 /\ UNCHANGED pc

\* uv__poll_set with events.  In slow mode a third set of events while both
\* requests are out fails an assertion, and the program ends.
Start ==
  /\ User /\ ~Has("CLOSING")
  /\ \E ev \in SUBSET Events \ {{}} :
       LET p == [poll EXCEPT !.events = ev, !.flags = @ \cup {"ACTIVE"}] IN
       /\ ~(poll.slow /\ NeedsRequest(p) /\ \A i \in Reqs : poll.sub[i] # {})
       /\ poll' \in IF NeedsRequest(p) THEN Submit(p) ELSE {p}

\* uv_poll_stop: the requests stay out.
Stop ==
  /\ User /\ ~Has("CLOSING")
  /\ poll' = [poll EXCEPT !.events = {}, !.flags = @ \ {"ACTIVE"}]

\* Mutant: the endgame does not wait for the second request.
EndgameIfDoneEarly(p) ==
  IF "CLOSING" \in p.flags /\ p.sub[1] = {}
  THEN [p EXCEPT !.flags = @ \cup {"ENDGAME"}] ELSE p

\* uv__want_endgame, when no request is out.
EndgameIfDone(p) ==
  IF "CLOSING" \in p.flags /\ Submitted(p) = {}
  THEN [p EXCEPT !.flags = @ \cup {"ENDGAME"}] ELSE p

\* uv__poll_close: in fast mode an exclusive poll makes the requests
\* return, unless it fails.
Close ==
  /\ User /\ ~Has("CLOSING")
  /\ LET p == EndgameIfDone([poll EXCEPT !.events = {},
                                      !.flags = (@ \ {"ACTIVE"}) \cup {"CLOSING"}])
     IN poll' \in IF p.slow THEN {p} ELSE {p, Interrupt(p, Reqs)}

-----------------------------------------------------------------------------
(* The kernel and the threads of the slow mode.                            *)

\* uv__msafd_poll completes: with events, because the socket was closed, or
\* with an error.
AfdReturns(i) ==
  /\ ~poll.slow /\ poll.out[i] = "kernel"
  /\ \/ \E ev \in SUBSET (poll.asked[i] \cup {"LOCAL_CLOSE"}) :
          ev # {} /\ poll' = [Returned(poll, i) EXCEPT !.ok[i] = TRUE, !.got[i] = ev]
     \/ poll' = Failed(poll, i)
  /\ UNCHANGED <<pc, uses>>

\* uv__slow_poll_thread_proc reads handle->events; select() of nothing is an
\* error, which is stored in the first request whichever one this is.
ThreadStarts(i) ==
  /\ poll.out[i] = "queued"
  /\ LET want == poll.events \ {"DISCONNECT"} IN
     poll' = IF want = {} THEN [Returned(poll, i) EXCEPT !.ok[1] = FALSE]
          ELSE [poll EXCEPT !.out[i] = "kernel", !.asked[i] = want]
  /\ UNCHANGED <<pc, uses>>

\* select() returns: with events, after three minutes, or with an error.
SelectReturns(i) ==
  /\ poll.slow /\ poll.out[i] = "kernel"
  /\ \/ \E ev \in SUBSET poll.asked[i] :
          poll' = [Returned(poll, i) EXCEPT !.ok[i] = TRUE, !.got[i] = ev]
     \/ poll' = [Returned(poll, i) EXCEPT !.ok[1] = FALSE]
  /\ UNCHANGED <<pc, uses>>

-----------------------------------------------------------------------------
(* uv__process_poll_req.                                                   *)

\* The events of uv_poll_t that the AFD events stand for.
FromAfd(got) ==
  (IF got \cap {"RECEIVE", "AFD_DISCONNECT"} # {} THEN {"READABLE"} ELSE {})
  \cup (IF "AFD_DISCONNECT" \in got THEN {"DISCONNECT"} ELSE {})
  \cup (IF "SEND" \in got THEN {"WRITABLE"} ELSE {})

\* What is left to do once poll_cb, if it is called, has returned.
Resubmit(p) == IF NeedsRequest(p) THEN Submit(p) ELSE {EndgameIfDone(p)}

\* uv__fast_poll_process_poll_req and uv__slow_poll_process_poll_req, up to
\* poll_cb.
ProcessReq(i) ==
  /\ pc = <<"idle">> /\ poll.out[i] = "back"
  /\ LET p == [poll EXCEPT !.sub[i] = {}, !.out[i] = "none",
                           !.ok[i] = @ \/ ~poll.slow, !.got[i] = IF poll.slow THEN @ ELSE {}]
         seen == (IF poll.slow THEN poll.got[i] ELSE FromAfd(poll.got[i])) \cap (poll.events \ poll.mask[i])
         q == IF ~poll.slow /\ "LOCAL_CLOSE" \in poll.got[i]
              THEN [p EXCEPT !.events = {}, !.flags = @ \ {"ACTIVE"}] ELSE p
     IN \/ /\ ~poll.ok[i] /\ poll.events # {}
           /\ poll' = [p EXCEPT !.events = {}] /\ pc' = <<"poll_cb">>
        \/ /\ ~poll.ok[i] /\ poll.events = {}
           /\ poll' \in Resubmit(p) /\ pc' = pc
        \/ /\ poll.ok[i] /\ seen # {}
           /\ poll' = q /\ pc' = <<"poll_cb">>
        \/ /\ poll.ok[i] /\ seen = {}
           /\ poll' \in Resubmit(q) /\ pc' = pc
  /\ UNCHANGED uses

CallbackReturn ==
  /\ pc = <<"poll_cb">> /\ pc' = <<"idle">>
  /\ poll' \in Resubmit(poll)
  /\ UNCHANGED uses

\* uv__poll_endgame.
Endgame ==
  /\ pc = <<"idle">> /\ Has("ENDGAME") /\ ~Has("CLOSED")
  /\ poll' = [poll EXCEPT !.flags = @ \cup {"CLOSED"}]
  /\ UNCHANGED <<pc, uses>>

Next ==
  \/ Start \/ Stop \/ Close \/ CallbackReturn \/ Endgame
  \/ \E i \in Reqs : AfdReturns(i) \/ ThreadStarts(i) \/ SelectReturns(i) \/ ProcessReq(i)

Spec == Init /\ [][Next]_vars

-----------------------------------------------------------------------------
(* What poll.c promises.                                                   *)

Idle == pc = <<"idle">> /\ ~Has("CLOSING")

\* Replacing one request by the other never leaves a wanted event without
\* one: in fast mode an unmasked request in the kernel asks for the event,
\* or a request is on its way back and will be submitted again.  After a
\* poll that the kernel refused a masked request may be left, which is
\* submitted again when the event comes.
PollCovered ==
  Idle =>
    \/ poll.events \subseteq UNION {poll.sub[i] \ poll.mask[i] : i \in {j \in Reqs : poll.out[j] = "kernel"}}
    \/ \E i \in Reqs : poll.out[i] = "back"
    \/ poll.refused /\ poll.events \subseteq Submitted(poll)
    \/ poll.slow /\ poll.events \subseteq Submitted(poll)

\* Two requests never report the same readiness to poll_cb: of two that
\* ask for an event one is masked.
OneReporter ==
  \A e \in poll.events : Cardinality({i \in Reqs : e \in poll.sub[i] \ poll.mask[i]}) <= 1

\* The handle is not freed while the kernel or a thread has one of its
\* requests, which uv__poll_endgame asserts of the submitted events.
PollEndgameLast ==
  /\ \A i \in Reqs : poll.sub[i] = {} <=> poll.out[i] = "none"
  /\ Has("ENDGAME") => \A i \in Reqs : poll.out[i] = "none"

=============================================================================
