---------------------------- MODULE StreamAccept ----------------------------
(***************************************************************************)
(* File descriptors that arrive at a libuv stream (src/unix/stream.c): the *)
(* connections a listening stream accepts, with the spare descriptor that  *)
(* is given up when the process has no descriptor left, and the            *)
(* descriptors that another process passes through an ipc pipe.  One of    *)
(* them waits in accepted_fd for uv_accept, the others of an ipc pipe in   *)
(* queued_fds.                                                             *)
(*                                                                         *)
(* A descriptor is named by the number of its arrival.  ENFILE is treated  *)
(* by the code as EMFILE and is not told apart here.                       *)
(***************************************************************************)
EXTENDS Naturals, Sequences, FiniteSets, SequencesExt, FiniteSetTheorems,
        SequenceTheorems, TLAPS

CONSTANTS
  MaxFds,      \* bound: descriptors that arrive
  Limit,       \* descriptors the process may hold besides its own sockets
  MaxCount     \* bound: descriptors in one message of an ipc pipe

Fds == 1 .. MaxFds
None == 0

VARIABLES
  kind,                \* "server" (listens) or "ipc" (is read)
  hstate,              \* "idle", "open" or "closed"
  pollin,
  accepted_fd, queued_fds,
  pc,                  \* "loop", "trick" or "cb"
  arrived,             \* descriptors that have arrived so far
  pending,             \* arrived, and still in the kernel
  clients,             \* handed to the user by uv_accept
  closed,
  emfile_fd,           \* the loop holds the spare descriptor
  others,              \* descriptors other threads hold
  grabbed, failedLate, oom  \* history: see SpareComesBack, StillListening,
                            \* NoFdIsLost

vars == <<kind, hstate, pollin, accepted_fd, queued_fds, pc, arrived, pending,
          clients, closed, emfile_fd, others, grabbed, failedLate, oom>>

Init ==
  /\ kind \in {"server", "ipc"} /\ hstate = "idle" /\ pollin = FALSE
  /\ accepted_fd = None /\ queued_fds = <<>> /\ pc = "loop"
  /\ arrived = 0 /\ pending = <<>> /\ clients = {} /\ closed = {}
  /\ emfile_fd = TRUE /\ others = 0 /\ grabbed = FALSE /\ failedLate = FALSE
  /\ oom = FALSE

Held == (IF accepted_fd = None THEN {} ELSE {accepted_fd})
          \cup ToSet(queued_fds) \cup clients

Room == Limit - (Cardinality(Held) + others + IF emfile_fd THEN 1 ELSE 0)

InUserCode == pc \in {"loop", "cb"}

-----------------------------------------------------------------------------
(* The peer and the other threads of the process.                          *)

Arrive ==
  /\ arrived < MaxFds
  /\ arrived' = arrived + 1
  /\ pending' = Append(pending, arrived + 1)
  /\ UNCHANGED <<kind, hstate, pollin, accepted_fd, queued_fds, pc, clients,
                 closed, emfile_fd, others, grabbed, failedLate, oom>>

OtherThread ==
  /\ \/ Room > 0 /\ others' = others + 1
     \/ others > 0 /\ others' = others - 1
  /\ grabbed' = (grabbed \/ (pc = "trick" /\ others' > others))
  /\ UNCHANGED <<kind, hstate, pollin, accepted_fd, queued_fds, pc, arrived,
                 pending, clients, closed, emfile_fd, failedLate, oom>>

-----------------------------------------------------------------------------
(* The API.                                                                *)

\* uv__tcp_listen, uv__pipe_listen.
Listen ==
  /\ hstate' = "open"
  /\ pollin' = TRUE

\* uv_listen of a server, uv_read_start of an ipc pipe; once.
uv_listen ==
  /\ InUserCode /\ hstate = "idle"
  /\ Listen
  /\ UNCHANGED <<kind, accepted_fd, queued_fds, pc, arrived, pending, clients,
                 closed, emfile_fd, others, grabbed, failedLate, oom>>

\* Mutants: the watcher is not started again; the first queued one is skipped.
NextAcceptedSilent(ok) ==
  /\ accepted_fd' = IF queued_fds = <<>> THEN None ELSE Head(queued_fds)
  /\ queued_fds' = IF queued_fds = <<>> THEN <<>> ELSE Tail(queued_fds)
  /\ UNCHANGED pollin

NextAcceptedLast(ok) ==
  /\ accepted_fd' = IF queued_fds = <<>> THEN None ELSE Last(queued_fds)
  /\ queued_fds' = IF queued_fds = <<>> THEN <<>> ELSE Front(queued_fds)
  /\ pollin' = (pollin \/ (ok /\ queued_fds = <<>>))

\* What uv_accept leaves behind for the next call.
NextAccepted(ok) ==
  /\ accepted_fd' = IF queued_fds = <<>> THEN None ELSE Head(queued_fds)
  /\ queued_fds' = IF queued_fds = <<>> THEN <<>> ELSE Tail(queued_fds)
  /\ pollin' = (pollin \/ (ok /\ queued_fds = <<>>))

\* The client handle takes the descriptor (ok), or cannot and it is closed.
uv_accept(ok) ==
  /\ InUserCode /\ hstate = "open"
  /\ accepted_fd # None
  /\ clients' = IF ok THEN clients \cup {accepted_fd} ELSE clients
  /\ closed' = IF ok THEN closed ELSE closed \cup {accepted_fd}
  /\ NextAccepted(ok)
  /\ failedLate' = (failedLate \/ (~ok /\ pc = "loop"))
  /\ UNCHANGED <<kind, hstate, pc, arrived, pending, emfile_fd, others, grabbed, oom>>

ClientClose(fd) ==
  /\ InUserCode
  /\ clients' = clients \ {fd}
  /\ closed' = closed \cup {fd}
  /\ UNCHANGED <<kind, hstate, pollin, accepted_fd, queued_fds, pc, arrived,
                 pending, emfile_fd, others, grabbed, failedLate, oom>>

\* Mutant: the queue is freed and its descriptors are not closed.
CloseForgetsQueue ==
  /\ InUserCode /\ hstate = "open"
  /\ hstate' = "closed"
  /\ pollin' = FALSE
  /\ closed' = closed \cup ({accepted_fd} \ {None})
  /\ accepted_fd' = None
  /\ queued_fds' = <<>>
  /\ UNCHANGED <<kind, pc, arrived, pending, clients, emfile_fd, others,
                 grabbed, failedLate, oom>>

\* uv__stream_close; what is still in the kernel goes with the socket.
Close ==
  /\ InUserCode /\ hstate = "open"
  /\ hstate' = "closed"
  /\ pollin' = FALSE
  /\ closed' = closed \cup (Held \ clients)
  /\ accepted_fd' = None
  /\ queued_fds' = <<>>
  /\ UNCHANGED <<kind, pc, arrived, pending, clients, emfile_fd, others,
                 grabbed, failedLate, oom>>

-----------------------------------------------------------------------------
(* uv__server_io and uv__emfile_trick.                                     *)

Readable == pc = "loop" /\ hstate = "open" /\ pollin /\ pending # <<>>

ServerIo ==
  /\ Readable /\ kind = "server"
  /\ Room > 0

  /\ accepted_fd' = Head(pending)
  /\ pending' = Tail(pending)
  /\ pc' = "cb"
  /\ UNCHANGED <<kind, hstate, pollin, queued_fds, arrived, clients, closed,
                 emfile_fd, others, grabbed, failedLate, oom>>

\* No descriptor is left: give up the spare one.  Without it uv__server_io
\* just returns.
TrickBegin ==
  /\ Readable /\ kind = "server"
  /\ Room = 0 /\ emfile_fd
  /\ emfile_fd' = FALSE
  /\ pc' = "trick"
  /\ UNCHANGED <<kind, hstate, pollin, accepted_fd, queued_fds, arrived, pending,
                 clients, closed, others, grabbed, failedLate, oom>>

TrickAccept ==
  /\ pc = "trick"
  /\ Room > 0 /\ pending # <<>>
  /\ closed' = closed \cup {Head(pending)}
  /\ pending' = Tail(pending)
  /\ UNCHANGED <<kind, hstate, pollin, accepted_fd, queued_fds, pc, arrived,
                 clients, emfile_fd, others, grabbed, failedLate, oom>>

\* Mutants: the spare descriptor is not opened again; it is taken for granted.
SpareAgainNever == FALSE

SpareAgainAlways == TRUE

SpareAgain == Room > 0

TrickEnd ==
  /\ pc = "trick"
  /\ Room = 0 \/ pending = <<>>
  /\ emfile_fd' = SpareAgain
  /\ pc' = "loop"
  /\ UNCHANGED <<kind, hstate, pollin, accepted_fd, queued_fds, arrived, pending,
                 clients, closed, others, grabbed, failedLate, oom>>

\* Mutant: the watcher goes on although the user has not called uv_accept.
CallbackReturnKeepsPolling ==
  /\ pc = "cb"
  /\ pc' = "loop"
  /\ UNCHANGED <<kind, hstate, pollin, accepted_fd, queued_fds, arrived, pending,
                 clients, closed, emfile_fd, others, grabbed, failedLate, oom>>

\* connection_cb of a server, or read_cb of an ipc pipe, returns.
CallbackReturn ==
  /\ pc = "cb"
  /\ pc' = "loop"
  /\ pollin' = (pollin /\ (kind = "server" => accepted_fd = None))
  /\ UNCHANGED <<kind, hstate, accepted_fd, queued_fds, arrived, pending,
                 clients, closed, emfile_fd, others, grabbed, failedLate, oom>>

-----------------------------------------------------------------------------
(* uv__read of an ipc pipe: a message with n descriptors.                  *)

Arriving(n) == SubSeq(pending, 1, n)

\* uv__stream_recv_cmsg: the first may become accepted_fd, the rest is queued.
RecvCmsg(n) ==
  LET free == IF accepted_fd = None THEN 1 ELSE 0 IN
  /\ accepted_fd' = IF free = 1 THEN pending[1] ELSE accepted_fd
  /\ queued_fds' = queued_fds \o SubSeq(pending, 1 + free, n)
  /\ UNCHANGED <<closed, oom>>

\* The queue cannot grow for descriptor number k: the loop that should close
\* the rest closes number k, and closes it again.
RecvCmsgFails(n, k) ==
  LET free == IF accepted_fd = None THEN 1 ELSE 0 IN
  /\ k > free
  /\ accepted_fd' = IF free = 1 THEN pending[1] ELSE accepted_fd
  /\ queued_fds' = queued_fds \o SubSeq(pending, 1 + free, k - 1)
  /\ closed' = closed \cup {pending[k]}
  /\ oom' = TRUE

ReadMessage ==
  /\ Readable /\ kind = "ipc"
  /\ \E n \in 1 .. MaxCount :
       /\ n <= Len(pending) /\ n <= Room
       /\ RecvCmsg(n) \/ \E k \in 1 .. n : RecvCmsgFails(n, k)
       /\ pending' = SubSeq(pending, n + 1, Len(pending))
  /\ pc' = "cb"
  /\ UNCHANGED <<kind, hstate, pollin, arrived, clients, emfile_fd, others,
                 grabbed, failedLate>>

-----------------------------------------------------------------------------
LoopStep == \/ ServerIo \/ TrickBegin \/ TrickAccept \/ TrickEnd
            \/ CallbackReturn \/ ReadMessage

Next ==
  \/ Arrive \/ OtherThread
  \/ uv_listen \/ \E ok \in BOOLEAN : uv_accept(ok)
  \/ \E fd \in clients : ClientClose(fd)
  \/ Close
  \/ LoopStep

Spec == Init /\ [][Next]_vars

-----------------------------------------------------------------------------
(* Properties.                                                             *)

(***************************************************************************)
(* Type invariant.                                                         *)
(***************************************************************************)
TypeOK ==
  /\ hstate \in {"idle", "open", "closed"}
  /\ pc \in {"loop", "trick", "cb"}
  /\ pollin \in BOOLEAN /\ emfile_fd \in BOOLEAN
  /\ grabbed \in BOOLEAN /\ failedLate \in BOOLEAN /\ oom \in BOOLEAN
  /\ accepted_fd \in Fds \cup {None}
  /\ queued_fds \in Seq(Fds) /\ pending \in Seq(Fds)
  /\ Room \in 0 .. Limit

(***************************************************************************)
(* Every descriptor that arrived is in one place: in the kernel, waiting   *)
(* in the stream, with the user or closed.  None is lost or closed twice,  *)
(* on any path through the queue, failed uv_accept and uv_close.  The      *)
(* exception is a message whose descriptors cannot be queued for lack of   *)
(* memory: there the code closes one descriptor for each of the rest.      *)
(***************************************************************************)
NoFdIsLost ==
  ~oom =>
  LET waiting == Held \ clients IN
  /\ ToSet(pending) \cup waiting \cup clients \cup closed = 1 .. arrived
  /\ Len(pending) + Cardinality(waiting) + Cardinality(clients)
       + Cardinality(closed) = arrived

(***************************************************************************)
(* uv_accept hands descriptors out in the order in which they arrived.     *)
(***************************************************************************)
AcceptedInOrder ==
  LET waiting == (IF accepted_fd = None THEN <<>> ELSE <<accepted_fd>>)
                   \o queued_fds \o pending
  IN \A i, j \in 1 .. Len(waiting) : i < j => waiting[i] < waiting[j]

(***************************************************************************)
(* The assertion of uv__server_io: no second connection is taken while one *)
(* waits for uv_accept.                                                    *)
(***************************************************************************)
OneAtATime ==
  kind = "server" /\ accepted_fd # None => pc = "cb" \/ ~pollin

(***************************************************************************)
(* A listening stream with nothing to accept watches its socket.  The one  *)
(* exception is a uv_accept that failed after the callback had returned:   *)
(* the code starts the watcher again only when uv_accept succeeds.         *)
(***************************************************************************)
StillListening ==
  hstate = "open" /\ accepted_fd = None /\ ~failedLate => pollin

(***************************************************************************)
(* The spare descriptor comes back after every use, unless another thread  *)
(* took a descriptor in the middle, which the comment at uv__emfile_trick  *)
(* concedes.                                                               *)
(***************************************************************************)
SpareComesBack == pc # "trick" /\ ~grabbed => emfile_fd

-----------------------------------------------------------------------------
(* Proofs.                                                                 *)

\* What the proofs assume of the constants.
BoundsAreNumbers == MaxFds \in Nat /\ MaxCount \in Nat /\ Limit \in Nat \ {0}

(***************************************************************************)
(* What the variables hold that TypeOK does not speak of, and the state a  *)
(* stream is in while the spare descriptor is away: there is nothing to    *)
(* accept, so that whatever the trick takes comes before nothing else.     *)
(***************************************************************************)
ControlInv ==
  /\ kind \in {"server", "ipc"}
  /\ arrived \in 0 .. MaxFds
  /\ others \in Nat
  /\ pollin => hstate = "open"
  /\ hstate # "open" => accepted_fd = None
  /\ accepted_fd = None => queued_fds = <<>>
  /\ kind = "server" => queued_fds = <<>>
  /\ pc = "cb" /\ hstate = "open" => pollin
  /\ pc = "trick" => /\ kind = "server" /\ hstate = "open"
                     /\ accepted_fd = None /\ ~emfile_fd
                     /\ grabbed \/ Room > 0

(***************************************************************************)
(* accepted_fd, the queue and what is in the kernel, in a row, are in the  *)
(* order of arrival.                                                       *)
(***************************************************************************)
OrderInv ==
  /\ accepted_fd <= arrived
  /\ \A i \in 1 .. Len(queued_fds) :
       queued_fds[i] <= arrived /\ accepted_fd < queued_fds[i]
  /\ \A i \in 1 .. Len(pending) :
       pending[i] <= arrived /\ accepted_fd < pending[i]
  /\ \A i, j \in 1 .. Len(queued_fds) : i < j => queued_fds[i] < queued_fds[j]
  /\ \A i, j \in 1 .. Len(pending) : i < j => pending[i] < pending[j]
  /\ \A i \in 1 .. Len(queued_fds), j \in 1 .. Len(pending) :
       queued_fds[i] < pending[j]

\* The descriptor waits, for uv_accept or in the kernel.
Waits(f) == \/ f = accepted_fd
            \/ \E i \in 1 .. Len(queued_fds) : queued_fds[i] = f
            \/ \E i \in 1 .. Len(pending) : pending[i] = f

(***************************************************************************)
(* A descriptor that waits is neither with the user nor closed, and all    *)
(* that arrived are in one of these places.                                *)
(***************************************************************************)
PlaceInv ==
  /\ clients \subseteq 1 .. arrived /\ closed \subseteq 1 .. arrived
  /\ clients \cap closed = {}
  /\ \A f \in clients \cup closed : ~Waits(f)
  /\ ~oom => \A f \in 1 .. arrived : f \in clients \cup closed \/ Waits(f)

Inv == /\ TypeOK /\ ControlInv /\ OrderInv /\ PlaceInv
       /\ OneAtATime /\ StillListening /\ SpareComesBack

(***************************************************************************)
(* What is in a queue is what its positions hold.                          *)
(***************************************************************************)
LEMMA InQueue ==
  ASSUME NEW q \in Seq(Fds)
  PROVE  /\ Len(q) \in Nat
         /\ \A i \in 1 .. Len(q) : q[i] \in Fds
         /\ \A f : f \in ToSet(q) <=> \E i \in 1 .. Len(q) : q[i] = f
         /\ q = <<>> <=> Len(q) = 0
  BY LenProperties, ElementOfSeq, EmptySeq DEF ToSet

(***************************************************************************)
(* Taking the first descriptor off a queue.                                *)
(***************************************************************************)
LEMMA FirstTaken ==
  ASSUME NEW q \in Seq(Fds), q # <<>>
  PROVE  /\ Len(q) \in Nat \ {0}
         /\ Head(q) = q[1] /\ Head(q) \in Fds
         /\ Tail(q) \in Seq(Fds)
         /\ Len(Tail(q)) = Len(q) - 1
         /\ \A i \in 1 .. Len(Tail(q)) : Tail(q)[i] = q[i + 1]
  BY HeadTailProperties, LenProperties, EmptySeq

(***************************************************************************)
(* A message takes n descriptors out of the kernel's queue p, which becomes*)
(* r; of those from number a + 1 to number m are put behind the queue q,   *)
(* which becomes s.                                                        *)
(***************************************************************************)
Taken(q, p, a, m, n, s, r) ==
  /\ s \in Seq(Fds)
  /\ Len(s) = Len(q) + (m - a)
  /\ \A i \in 1 .. Len(q) : s[i] = q[i]
  /\ \A i \in 1 .. m - a : s[Len(q) + i] = p[a + i]
  /\ r \in Seq(Fds)
  /\ Len(r) = Len(p) - n
  /\ \A i \in 1 .. Len(p) - n : r[i] = p[n + i]

(***************************************************************************)
(* What uv__stream_recv_cmsg does to the two queues.                       *)
(***************************************************************************)
LEMMA MessageTaken ==
  ASSUME NEW q \in Seq(Fds), NEW p \in Seq(Fds), NEW a \in Nat, NEW m \in Nat,
         NEW n \in Nat, a <= m, m <= n, n <= Len(p)
  PROVE  Taken(q, p, a, m, n, q \o SubSeq(p, 1 + a, m), SubSeq(p, n + 1, Len(p)))
<1> DEFINE s == SubSeq(p, 1 + a, m)
           r == SubSeq(p, n + 1, Len(p))
<1>1. Len(p) \in Nat /\ Len(q) \in Nat
  BY LenProperties
<1>2. \A i \in 1 .. Len(p) : p[i] \in Fds
  BY ElementOfSeq
<1>3. /\ s \in Seq(Fds) /\ Len(s) = m - a
      /\ \A i \in 1 .. m - a : s[i] = p[a + i]
  <2>1. \A i \in 1 + a .. m : p[i] \in Fds
    BY <1>1, <1>2
  <2>2. /\ s \in Seq(Fds)
        /\ Len(s) = IF 1 + a <= m THEN m - (1 + a) + 1 ELSE 0
        /\ \A i \in 1 .. m - (1 + a) + 1 : s[i] = p[1 + a + i - 1]
    <3>1. 1 + a \in Int /\ m \in Int
      OBVIOUS
    <3> DEFINE b == 1 + a
    <3> HIDE DEF b
    <3>2. /\ SubSeq(p, b, m) \in Seq(Fds)
          /\ Len(SubSeq(p, b, m)) = IF b <= m THEN m - b + 1 ELSE 0
          /\ \A i \in 1 .. m - b + 1 : SubSeq(p, b, m)[i] = p[b + i - 1]
      BY ONLY <2>1, <3>1, SubSeqProperties DEF b
    <3> QED
      BY <3>2 DEF b
  <2> HIDE DEF s
  <2> QED
    BY <2>2
<1>4. /\ r \in Seq(Fds) /\ Len(r) = Len(p) - n
      /\ \A i \in 1 .. Len(p) - n : r[i] = p[n + i]
  <2>1. \A i \in n + 1 .. Len(p) : p[i] \in Fds
    BY <1>1, <1>2
  <2>2. /\ r \in Seq(Fds)
        /\ Len(r) = IF n + 1 <= Len(p) THEN Len(p) - (n + 1) + 1 ELSE 0
        /\ \A i \in 1 .. Len(p) - (n + 1) + 1 : r[i] = p[n + 1 + i - 1]
    BY <2>1, <1>1, SubSeqProperties
  <2> HIDE DEF r
  <2> QED
    BY <2>2, <1>1
<1> HIDE DEF s, r
<1>5. /\ q \o s \in Seq(Fds)
      /\ Len(q \o s) = Len(q) + Len(s)
      /\ \A i \in 1 .. Len(q) + Len(s) :
           (q \o s)[i] = IF i <= Len(q) THEN q[i] ELSE s[i - Len(q)]
  BY <1>3, ConcatProperties
<1>6. \A i \in 1 .. Len(q) : (q \o s)[i] = q[i]
  BY <1>1, <1>3, <1>5
<1>7. ASSUME NEW i \in 1 .. m - a
      PROVE  (q \o s)[Len(q) + i] = p[a + i]
  <2>1. /\ Len(q) + i \in 1 .. Len(q) + Len(s) /\ ~(Len(q) + i <= Len(q))
        /\ (Len(q) + i) - Len(q) = i
    BY <1>1, <1>3
  <2> QED
    BY <2>1, <1>3, <1>5
<1> QED
  BY <1>3, <1>4, <1>5, <1>6, <1>7 DEF s, r, Taken

(***************************************************************************)
(* uv__read of an ipc pipe, with and without memory for the queue: a says  *)
(* whether accepted_fd was free, m how many descriptors were taken over.   *)
(***************************************************************************)
LEMMA MessageFacts ==
  ASSUME BoundsAreNumbers, TypeOK, ReadMessage
  PROVE  \E a \in {0, 1}, m, n \in Nat :
           /\ a <= m /\ m <= n /\ 1 <= n /\ n <= Len(pending) /\ n <= Room
           /\ accepted_fd = None => a = 1 /\ accepted_fd' = pending[1]
           /\ accepted_fd # None => a = 0 /\ accepted_fd' = accepted_fd
           /\ Taken(queued_fds, pending, a, m, n, queued_fds', pending')
           /\ \/ m = n /\ closed' = closed /\ oom' = oom
              \/ m < n /\ closed' = closed \cup {pending[m + 1]} /\ oom' = TRUE
<1> DEFINE a == IF accepted_fd = None THEN 1 ELSE 0
<1>1. PICK n \in 1 .. MaxCount :
        /\ n <= Len(pending) /\ n <= Room
        /\ RecvCmsg(n) \/ \E k \in 1 .. n : RecvCmsgFails(n, k)
        /\ pending' = SubSeq(pending, n + 1, Len(pending))
  BY DEF ReadMessage
<1>2. /\ n \in Nat /\ 1 <= n /\ a \in {0, 1} /\ a \in Nat /\ a <= n
      /\ queued_fds \in Seq(Fds) /\ pending \in Seq(Fds)
  BY DEF BoundsAreNumbers, TypeOK
<1>3. \E m \in Nat :
        /\ a <= m /\ m <= n
        /\ accepted_fd' = IF a = 1 THEN pending[1] ELSE accepted_fd
        /\ queued_fds' = queued_fds \o SubSeq(pending, 1 + a, m)
        /\ \/ m = n /\ closed' = closed /\ oom' = oom
           \/ m < n /\ closed' = closed \cup {pending[m + 1]} /\ oom' = TRUE
  <2>1. CASE RecvCmsg(n)
    <3>1. /\ accepted_fd' = IF a = 1 THEN pending[1] ELSE accepted_fd
          /\ queued_fds' = queued_fds \o SubSeq(pending, 1 + a, n)
          /\ closed' = closed /\ oom' = oom
      BY <2>1 DEF RecvCmsg
    <3> HIDE DEF a
    <3> WITNESS n \in Nat
    <3> QED
      BY <1>2, <3>1
  <2>2. ASSUME NEW k \in 1 .. n, RecvCmsgFails(n, k)
        PROVE  <1>3!:
    <3>1. /\ k > a /\ closed' = closed \cup {pending[k]} /\ oom' = TRUE
          /\ accepted_fd' = IF a = 1 THEN pending[1] ELSE accepted_fd
          /\ queued_fds' = queued_fds \o SubSeq(pending, 1 + a, k - 1)
      BY <2>2 DEF RecvCmsgFails
    <3>2. /\ k - 1 \in Nat /\ a <= k - 1 /\ k - 1 < n /\ k - 1 <= n
          /\ (k - 1) + 1 = k
      BY <1>2, <3>1
    <3> HIDE DEF a
    <3> WITNESS k - 1 \in Nat
    <3> QED
      BY <3>1, <3>2
  <2> QED
    BY <1>1, <2>1, <2>2
<1>4. PICK m \in Nat :
        /\ a <= m /\ m <= n
        /\ accepted_fd' = IF a = 1 THEN pending[1] ELSE accepted_fd
        /\ queued_fds' = queued_fds \o SubSeq(pending, 1 + a, m)
        /\ \/ m = n /\ closed' = closed /\ oom' = oom
           \/ m < n /\ closed' = closed \cup {pending[m + 1]} /\ oom' = TRUE
  BY <1>3
<1>5. /\ accepted_fd = None => a = 1 /\ accepted_fd' = pending[1]
      /\ accepted_fd # None => a = 0 /\ accepted_fd' = accepted_fd
  BY <1>4
<1> HIDE DEF a
<1>6. Taken(queued_fds, pending, a, m, n, queued_fds \o SubSeq(pending, 1 + a, m),
            SubSeq(pending, n + 1, Len(pending)))
  BY <1>1, <1>2, <1>4, MessageTaken
<1>7. Taken(queued_fds, pending, a, m, n, queued_fds', pending')
  BY <1>1, <1>4, <1>6
<1> WITNESS a \in {0, 1}, m \in Nat, n \in Nat
<1> QED
  BY <1>1, <1>2, <1>4, <1>5, <1>7

-----------------------------------------------------------------------------
(* The descriptors of the process.                                         *)

(***************************************************************************)
(* At most n descriptors of a queue beside those of a set.                 *)
(***************************************************************************)
LEMMA AtMost ==
  ASSUME NEW A, IsFiniteSet(A), NEW p \in Seq(Fds), NEW n \in Nat,
         n <= Len(p), NEW B, B \subseteq A \cup {p[i] : i \in 1 .. n}
  PROVE  IsFiniteSet(B) /\ Cardinality(B) <= Cardinality(A) + n
<1> DEFINE T == {p[i] : i \in 1 .. n}
           f == [i \in 1 .. n |-> p[i]]
<1>1. IsFiniteSet(1 .. n) /\ Cardinality(1 .. n) = n
  BY FS_Interval
<1>2. f \in Surjection(1 .. n, T)
  BY DEF Surjection
<1> HIDE DEF f
<1>3. IsFiniteSet(T) /\ Cardinality(T) <= n
  BY <1>1, <1>2, FS_Surjection
<1>4. B \in SUBSET (A \cup T)
  OBVIOUS
<1> HIDE DEF T
<1>5. /\ IsFiniteSet(A \cup T)
      /\ Cardinality(A \cup T) = Cardinality(A) + Cardinality(T) - Cardinality(A \cap T)
  BY <1>3, FS_Union
<1>6. IsFiniteSet(A \cap T)
  BY FS_Intersection
<1>7. IsFiniteSet(B) /\ Cardinality(B) <= Cardinality(A \cup T)
  BY <1>4, <1>5, FS_Subset
<1>8. /\ Cardinality(A) \in Nat /\ Cardinality(T) \in Nat /\ Cardinality(B) \in Nat
      /\ Cardinality(A \cap T) \in Nat /\ Cardinality(A \cup T) \in Nat
  BY <1>3, <1>5, <1>6, <1>7, FS_CardinalityType
<1> QED
  BY <1>3, <1>5, <1>7, <1>8

(***************************************************************************)
(* What the stream and the user hold, as a set of descriptors.             *)
(***************************************************************************)
LEMMA HeldFacts ==
  ASSUME BoundsAreNumbers, TypeOK, ControlInv, PlaceInv
  PROVE  /\ IsFiniteSet(Held) /\ Cardinality(Held) \in Nat
         /\ Room = Limit - (Cardinality(Held) + others + IF emfile_fd THEN 1 ELSE 0)
         /\ \A f : f \in Held <=> \/ f = accepted_fd /\ f # None
                                  \/ \E i \in 1 .. Len(queued_fds) : queued_fds[i] = f
                                  \/ f \in clients
<1>1. \A f : f \in Held <=> \/ f = accepted_fd /\ f # None
                            \/ \E i \in 1 .. Len(queued_fds) : queued_fds[i] = f
                            \/ f \in clients
  <2>1. \A f : f \in ToSet(queued_fds)
                 <=> \E i \in 1 .. Len(queued_fds) : queued_fds[i] = f
    BY InQueue DEF TypeOK
  <2> QED
    BY <2>1 DEF Held
<1>2. Held \in SUBSET (1 .. MaxFds)
  <2>1. \A i \in 1 .. Len(queued_fds) : queued_fds[i] \in 1 .. MaxFds
    BY InQueue DEF TypeOK, Fds
  <2>2. clients \subseteq 1 .. MaxFds
    BY DEF PlaceInv, ControlInv, BoundsAreNumbers
  <2> QED
    BY <1>1, <2>1, <2>2 DEF TypeOK, Fds
<1>3. IsFiniteSet(1 .. MaxFds)
  BY FS_Interval DEF BoundsAreNumbers
<1>4. IsFiniteSet(Held) /\ Cardinality(Held) \in Nat
  BY <1>2, <1>3, FS_Subset, FS_CardinalityType
<1> QED
  BY <1>1, <1>4 DEF Room

(***************************************************************************)
(* The process never holds more descriptors than it may, and there is one  *)
(* left while the spare one is away, unless another thread took it.        *)
(***************************************************************************)
LEMMA RoomNext ==
  ASSUME BoundsAreNumbers, Inv, Next
  PROVE  Room' \in 0 .. Limit /\ (pc' = "trick" => grabbed' \/ Room' > 0)
<1> DEFINE C == Cardinality(Held)
           D == Cardinality(Held')
           e == IF emfile_fd THEN 1 ELSE 0
<1>1. /\ IsFiniteSet(Held) /\ C \in Nat /\ others \in Nat /\ Limit \in Nat \ {0}
      /\ e \in {0, 1} /\ Room = Limit - (C + others + e) /\ Room \in 0 .. Limit
      /\ emfile_fd \in BOOLEAN /\ grabbed \in BOOLEAN
  BY HeldFacts DEF Inv, TypeOK, ControlInv, BoundsAreNumbers
<1>2. Room' = Limit - (D + others' + IF emfile_fd' THEN 1 ELSE 0)
  BY DEF Room
<1>3. \A f : f \in Held <=> \/ f = accepted_fd /\ f # None
                            \/ \E i \in 1 .. Len(queued_fds) : queued_fds[i] = f
                            \/ f \in clients
  BY HeldFacts DEF Inv
<1>4. ASSUME Held' \subseteq Held
      PROVE  D \in Nat /\ D <= C
  BY <1>1, <1>4, FS_Subset, FS_CardinalityType
<1>5. \A q \in Seq(Fds) : \A f : f \in ToSet(q) <=> \E i \in 1 .. Len(q) : q[i] = f
  BY InQueue
<1>21. \A f : f \in Held' => \/ f = accepted_fd' /\ f # None
                             \/ f \in ToSet(queued_fds') \/ f \in clients'
  BY DEF Held
<1>6. /\ pc = "trick" => ~emfile_fd /\ (grabbed \/ Room > 0)
      /\ queued_fds \in Seq(Fds) /\ pending \in Seq(Fds)
      /\ accepted_fd = None => queued_fds = <<>>
  BY DEF Inv, TypeOK, ControlInv
<1> HIDE DEF C, D
<1>7. CASE Held' = Held /\ others' = others /\ emfile_fd' = emfile_fd
             /\ grabbed' = grabbed /\ (pc' = pc \/ pc' # "trick")
  <2>1. D = C
    BY <1>7 DEF C, D
  <2> QED
    BY <1>1, <1>2, <1>6, <1>7, <2>1
<1>8. CASE Held' \subseteq Held /\ others' = others /\ emfile_fd' = emfile_fd
             /\ grabbed' = grabbed /\ (pc' = pc \/ pc' # "trick")
  BY <1>1, <1>2, <1>4, <1>6, <1>8
<1>9. CASE Arrive
  BY <1>7, <1>9 DEF Arrive, Held
<1>10. CASE OtherThread
  <2>1. D = C
    BY <1>10 DEF OtherThread, Held, C, D
  <2>2. CASE Room > 0 /\ others' = others + 1
    <3>1. pc' = pc /\ emfile_fd' = emfile_fd /\ others' > others
      BY <1>1, <1>10, <2>2 DEF OtherThread
    <3>2. pc = "trick" => grabbed'
      BY <1>10, <3>1, Zenon DEF OtherThread
    <3> QED
      BY <1>1, <1>2, <2>1, <2>2, <3>1, <3>2
  <2>3. CASE others > 0 /\ others' = others - 1
    BY <1>1, <1>2, <1>6, <1>10, <2>1, <2>3 DEF OtherThread
  <2> QED
    BY <1>10, <2>2, <2>3 DEF OtherThread
<1>11. CASE uv_listen
  BY <1>7, <1>11 DEF uv_listen, Held
<1>12. ASSUME NEW ok \in BOOLEAN, uv_accept(ok)
       PROVE  Room' \in 0 .. Limit /\ (pc' = "trick" => grabbed' \/ Room' > 0)
  <2>0. accepted_fd # None /\ \A f \in clients' : f \in clients \/ f = accepted_fd
    BY <1>12 DEF uv_accept
  <2>1. CASE queued_fds = <<>>
    <3>1. accepted_fd' = None /\ queued_fds' = <<>>
      BY <1>12, <2>1 DEF uv_accept, NextAccepted
    <3>2. \A f \in Held' : f \in clients \/ f = accepted_fd
      <4>1. ToSet(<<>>) = {}
        BY DEF ToSet
      <4> QED
        BY ONLY <1>21, <2>0, <3>1, <4>1
    <3> QED
      BY <2>0, <1>3, <1>8, <1>12, <3>2 DEF uv_accept
  <2>2. CASE queued_fds # <<>>
    <3>1. accepted_fd' = Head(queued_fds) /\ queued_fds' = Tail(queued_fds)
      BY <1>12, <2>2 DEF uv_accept, NextAccepted
    <3>2. /\ Len(queued_fds) \in Nat \ {0} /\ Head(queued_fds) = queued_fds[1]
          /\ queued_fds' \in Seq(Fds) /\ Len(queued_fds') = Len(queued_fds) - 1
          /\ \A i \in 1 .. Len(queued_fds') : queued_fds'[i] = queued_fds[i + 1]
      BY <1>6, <2>2, <3>1, FirstTaken
    <3>3. \A f \in Held' : \/ f \in clients \/ f = accepted_fd
                           \/ f = queued_fds[1]
                           \/ \E i \in 1 .. Len(queued_fds') : queued_fds'[i] = f
      <4>1. \A f : f \in ToSet(queued_fds')
                     <=> \E i \in 1 .. Len(queued_fds') : queued_fds'[i] = f
        BY <1>5, <3>2
      <4> QED
        BY ONLY <1>21, <2>0, <3>1, <3>2, <4>1
    <3>4. /\ 1 \in 1 .. Len(queued_fds)
          /\ \A i \in 1 .. Len(queued_fds') : i + 1 \in 1 .. Len(queued_fds)
      BY <3>2
    <3>5. Held' \subseteq Held
      BY <2>0, <1>3, <3>2, <3>3, <3>4
    <3> QED
      BY <1>8, <1>12, <3>5 DEF uv_accept
  <2> QED
    BY <2>1, <2>2
<1>13. ASSUME NEW fd \in clients, ClientClose(fd)
       PROVE  Room' \in 0 .. Limit /\ (pc' = "trick" => grabbed' \/ Room' > 0)
  BY <1>8, <1>13 DEF ClientClose, Held
<1>14. CASE Close
  <2>1. ToSet(<<>>) = {}
    BY DEF ToSet
  <2> QED
    BY <1>8, <1>14, <2>1 DEF Close, Held
<1>15. CASE ServerIo
  <2>1. pending # <<>> /\ Room > 0 /\ pc' = "cb" /\ others' = others /\ emfile_fd' = emfile_fd
    BY <1>15 DEF ServerIo, Readable
  <2>2. Head(pending) = pending[1] /\ 1 <= Len(pending)
    BY <1>6, <2>1, FirstTaken
  <2>3. Held' \subseteq Held \cup {pending[i] : i \in 1 .. 1}
    BY <1>15, <2>2 DEF ServerIo, Held
  <2>4. D <= C + 1 /\ D \in Nat
    BY <1>1, <1>6, <2>2, <2>3, AtMost, FS_CardinalityType DEF C, D
  <2> QED
    BY <1>1, <1>2, <2>1, <2>4
<1>16. CASE TrickBegin
  <2>1. D = C /\ others' = others /\ Room = 0 /\ emfile_fd /\ ~emfile_fd'
    BY <1>16 DEF TrickBegin, Held, C, D
  <2> QED
    BY <1>1, <1>2, <2>1
<1>17. CASE TrickAccept
  BY <1>7, <1>17 DEF TrickAccept, Held
<1>18. CASE TrickEnd
  <2>1. D = C /\ others' = others /\ pc' = "loop" /\ emfile_fd' = (Room > 0)
        /\ pc = "trick"
    BY <1>18 DEF TrickEnd, SpareAgain, Held, C, D
  <2>2. ~emfile_fd
    BY <1>6, <2>1
  <2>3. CASE Room > 0
    BY <1>1, <1>2, <2>1, <2>2, <2>3
  <2>4. CASE ~(Room > 0)
    BY <1>1, <1>2, <2>1, <2>2, <2>4
  <2> QED
    BY <2>3, <2>4
<1>19. CASE CallbackReturn
  BY <1>7, <1>19 DEF CallbackReturn, Held
<1>20. CASE ReadMessage
  <2>1. PICK a \in {0, 1}, m, n \in Nat :
          /\ a <= m /\ m <= n /\ 1 <= n /\ n <= Len(pending) /\ n <= Room
          /\ accepted_fd = None => a = 1 /\ accepted_fd' = pending[1]
          /\ accepted_fd # None => a = 0 /\ accepted_fd' = accepted_fd
          /\ Taken(queued_fds, pending, a, m, n, queued_fds', pending')
    BY <1>20, MessageFacts DEF Inv
  <2>2. /\ others' = others /\ emfile_fd' = emfile_fd /\ pc' = "cb"
        /\ clients' = clients
    BY <1>20 DEF ReadMessage
  <2>3. /\ queued_fds' \in Seq(Fds) /\ Len(queued_fds') = Len(queued_fds) + (m - a)
        /\ \A i \in 1 .. Len(queued_fds) : queued_fds'[i] = queued_fds[i]
        /\ \A i \in 1 .. m - a :
             queued_fds'[Len(queued_fds) + i] = pending[a + i]
        /\ Len(queued_fds) \in Nat
    BY <1>6, <2>1, InQueue DEF Taken
  <2>4. ASSUME NEW i \in 1 .. Len(queued_fds')
        PROVE  queued_fds'[i] \in Held \cup {pending[j] : j \in 1 .. n}
    <3>1. CASE i <= Len(queued_fds)
      BY <1>3, <2>3, <3>1
    <3>2. CASE ~(i <= Len(queued_fds))
      <4>1. /\ i - Len(queued_fds) \in 1 .. m - a
            /\ Len(queued_fds) + (i - Len(queued_fds)) = i
            /\ a + (i - Len(queued_fds)) \in 1 .. n
        <5>1. i \in Nat /\ i <= Len(queued_fds) + (m - a) /\ Len(queued_fds) \in Nat
          BY <2>3
        <5>2. a \in Nat /\ m \in Nat /\ n \in Nat /\ m <= n
          BY <2>1
        <5> QED
          BY ONLY <3>2, <5>1, <5>2
      <4>2. queued_fds'[i] = pending[a + (i - Len(queued_fds))]
        BY <2>3, <4>1
      <4> QED
        BY <4>1, <4>2
    <3> QED
      BY <3>1, <3>2
  <2>5. accepted_fd' # None => accepted_fd' \in Held \cup {pending[j] : j \in 1 .. n}
    <3>1. 1 \in 1 .. n
      BY <2>1
    <3> QED
      BY <1>3, <2>1, <3>1
  <2>6. Held' \subseteq Held \cup {pending[j] : j \in 1 .. n}
    <3>1. \A f : f \in ToSet(queued_fds')
                   <=> \E i \in 1 .. Len(queued_fds') : queued_fds'[i] = f
      BY <1>5, <2>3
    <3>2. \A f \in clients : f \in Held
      BY <1>3
    <3> QED
      BY <2>2, <2>4, <2>5, <3>1, <3>2 DEF Held
  <2>7. D <= C + n /\ D \in Nat
    BY <1>1, <1>6, <2>1, <2>6, AtMost, FS_CardinalityType DEF C, D
  <2> QED
    BY <1>1, <1>2, <2>1, <2>2, <2>7
<1> QED
  BY <1>9, <1>10, <1>11, <1>12, <1>13, <1>14, <1>15, <1>16, <1>17, <1>18, <1>19,
     <1>20 DEF Next, LoopStep

-----------------------------------------------------------------------------
(* The flags.                                                              *)

(***************************************************************************)
(* What uv_accept leaves behind.                                           *)
(***************************************************************************)
LEMMA NextWaits ==
  ASSUME TypeOK, ControlInv, NEW ok \in BOOLEAN, NextAccepted(ok)
  PROVE  /\ accepted_fd' \in Fds \cup {None} /\ queued_fds' \in Seq(Fds)
         /\ \/ /\ queued_fds = <<>> /\ accepted_fd' = None /\ queued_fds' = <<>>
               /\ pollin' = (pollin \/ ok)
            \/ /\ Len(queued_fds) \in Nat \ {0}
               /\ queued_fds # <<>> /\ pollin' = pollin
               /\ accepted_fd' = queued_fds[1] /\ accepted_fd' # None
               /\ Len(queued_fds') = Len(queued_fds) - 1
               /\ \A i \in 1 .. Len(queued_fds') : queued_fds'[i] = queued_fds[i + 1]
<1>1. queued_fds \in Seq(Fds) /\ pollin \in BOOLEAN
  BY DEF TypeOK
<1>2. CASE queued_fds = <<>>
  <2>1. <<>> \in Seq(Fds)
    BY EmptySeq
  <2>2. accepted_fd' = None /\ queued_fds' = <<>>
    BY <1>2 DEF NextAccepted
  <2>3. pollin' = (pollin \/ ok)
    BY <1>2, Zenon DEF NextAccepted
  <2> QED
    BY <1>2, <2>1, <2>2, <2>3
<1>3. CASE queued_fds # <<>>
  <2>1. accepted_fd' = Head(queued_fds) /\ queued_fds' = Tail(queued_fds)
    BY <1>3 DEF NextAccepted
  <2>2. pollin' = pollin
    BY <1>1, <1>3 DEF NextAccepted
  <2>3. Head(queued_fds) # None
    BY <1>1, <1>3, FirstTaken DEF Fds, None
  <2> QED
    BY <1>1, <1>3, <2>1, <2>2, <2>3, FirstTaken
<1> QED
  BY <1>2, <1>3

(***************************************************************************)
(* Watching, listening and the spare descriptor.                           *)
(***************************************************************************)
LEMMA ControlNext ==
  ASSUME BoundsAreNumbers, Inv, Next
  PROVE  /\ TypeOK' /\ ControlInv'
         /\ OneAtATime' /\ StillListening' /\ SpareComesBack'
<1> DEFINE R == Room' \in 0 .. Limit /\ (pc' = "trick" => grabbed' \/ Room' > 0)
           Types == /\ hstate \in {"idle", "open", "closed"}
                    /\ pc \in {"loop", "trick", "cb"}
                    /\ pollin \in BOOLEAN /\ emfile_fd \in BOOLEAN
                    /\ grabbed \in BOOLEAN /\ failedLate \in BOOLEAN
                    /\ oom \in BOOLEAN
                    /\ accepted_fd \in Fds \cup {None}
                    /\ queued_fds \in Seq(Fds) /\ pending \in Seq(Fds)
           Control == /\ kind \in {"server", "ipc"}
                      /\ arrived \in 0 .. MaxFds
                      /\ others \in Nat
                      /\ pollin => hstate = "open"
                      /\ hstate # "open" => accepted_fd = None
                      /\ accepted_fd = None => queued_fds = <<>>
                      /\ kind = "server" => queued_fds = <<>>
                      /\ pc = "cb" /\ hstate = "open" => pollin
                      /\ pc = "trick" => /\ kind = "server" /\ hstate = "open"
                                         /\ accepted_fd = None /\ ~emfile_fd
           Goal == Types' /\ Control' /\ OneAtATime' /\ StillListening' /\ SpareComesBack'
<1>1. R
  BY RoomNext
<1> SUFFICES Goal
  <2>1. Types' /\ Room' \in 0 .. Limit => TypeOK'
    BY DEF TypeOK
  <2>2. Control' /\ (pc' = "trick" => grabbed' \/ Room' > 0) => ControlInv'
    BY DEF ControlInv
  <2> HIDE DEF Types, Control
  <2> QED
    BY <1>1, <2>1, <2>2
<1>2. Types /\ Control /\ OneAtATime /\ StillListening /\ SpareComesBack
  BY DEF Inv, TypeOK, ControlInv
<1>3. \A f \in Fds : f # None
  BY DEF Fds, None
<1>4. <<>> \in Seq(Fds)
  BY EmptySeq
<1>5. pc = "trick" => grabbed \/ Room > 0
  BY DEF Inv, ControlInv
<1> USE DEF OneAtATime, StillListening, SpareComesBack
<1>6. CASE Arrive
  <2>1. arrived + 1 \in Fds /\ arrived + 1 \in 0 .. MaxFds
    BY <1>2, <1>6 DEF Arrive, Fds, BoundsAreNumbers
  <2>2. pending' \in Seq(Fds)
    BY <1>2, <1>6, <2>1, AppendProperties DEF Arrive
  <2> QED
    BY <1>2, <1>6, <2>1, <2>2 DEF Arrive
<1>7. CASE OtherThread
  <2>1. others' \in Nat
    BY <1>2, <1>7 DEF OtherThread
  <2>2. grabbed' \in BOOLEAN /\ (pc # "trick" /\ ~grabbed' => ~grabbed)
    BY <1>2, <1>7, Zenon DEF OtherThread
  <2> QED
    BY <1>2, <1>7, <2>1, <2>2 DEF OtherThread
<1>8. CASE uv_listen
  BY <1>2, <1>8 DEF uv_listen, Listen, InUserCode
<1>9. ASSUME NEW ok \in BOOLEAN, uv_accept(ok)
      PROVE  Goal
  <2>1. NextAccepted(ok) /\ accepted_fd # None /\ hstate = "open" /\ pc \in {"loop", "cb"}
    BY <1>9 DEF uv_accept, InUserCode
  <2>2. /\ failedLate' \in BOOLEAN /\ (~failedLate' => ~failedLate /\ (ok \/ pc = "cb"))
    BY <1>2, <1>9, <2>1, Zenon DEF uv_accept
  <2>3. /\ accepted_fd' \in Fds \cup {None} /\ queued_fds' \in Seq(Fds)
        /\ \/ /\ queued_fds = <<>> /\ accepted_fd' = None /\ queued_fds' = <<>>
              /\ pollin' = (pollin \/ ok)
           \/ /\ queued_fds # <<>> /\ pollin' = pollin /\ accepted_fd' # None
    BY <2>1, NextWaits DEF Inv
  <2>4. UNCHANGED <<kind, hstate, pc, arrived, pending, emfile_fd, others, grabbed, oom>>
    BY <1>9 DEF uv_accept
  <2>5. pollin' \in BOOLEAN /\ (pollin => pollin') /\ (pollin' => pollin \/ queued_fds = <<>>)
    BY <1>2, <2>3
  <2>6. queued_fds = <<>> => (~failedLate' => pollin')
    <3>1. ok => (queued_fds = <<>> => pollin')
      BY <2>3
    <3> QED
      BY <1>2, <2>1, <2>2, <2>5, <3>1
  <2> QED
    BY <1>2, <2>1, <2>2, <2>3, <2>4, <2>5, <2>6
<1>10. ASSUME NEW fd \in clients, ClientClose(fd)
       PROVE  Goal
  BY <1>2, <1>10 DEF ClientClose
<1>11. CASE Close
  BY <1>2, <1>4, <1>11 DEF Close, InUserCode
<1>12. CASE ServerIo
  <2>1. /\ Head(pending) \in Fds /\ Tail(pending) \in Seq(Fds) /\ pending # <<>>
        /\ pc = "loop" /\ hstate = "open" /\ pollin /\ kind = "server"
    BY <1>2, <1>12, FirstTaken DEF ServerIo, Readable
  <2> QED
    BY <1>2, <1>3, <1>12, <2>1 DEF ServerIo
<1>13. CASE TrickBegin
  BY <1>2, <1>13 DEF TrickBegin, Readable
<1>14. CASE TrickAccept
  <2>1. Tail(pending) \in Seq(Fds)
    BY <1>2, <1>14, FirstTaken DEF TrickAccept
  <2> QED
    BY <1>2, <1>14, <2>1 DEF TrickAccept
<1>15. CASE TrickEnd
  <2>1. emfile_fd' \in BOOLEAN /\ (Room > 0 => emfile_fd')
    <3>1. emfile_fd' = (Room > 0)
      BY <1>15 DEF TrickEnd, SpareAgain
    <3>2. (Room > 0) \in BOOLEAN
      OBVIOUS
    <3> QED
      BY <3>1, <3>2
  <2> QED
    BY <1>2, <1>5, <1>15, <2>1 DEF TrickEnd
<1>16. CASE CallbackReturn
  <2>1. /\ pollin' \in BOOLEAN /\ (pollin' => pollin)
        /\ (pollin' => ~(kind = "server" /\ accepted_fd # None))
        /\ (pollin /\ accepted_fd = None => pollin')
    BY <1>2, <1>16, Zenon DEF CallbackReturn
  <2> QED
    BY <1>2, <1>16, <2>1 DEF CallbackReturn
<1>17. CASE ReadMessage
  <2>1. PICK a \in {0, 1}, m, n \in Nat :
          /\ a <= m /\ m <= n /\ 1 <= n /\ n <= Len(pending) /\ n <= Room
          /\ accepted_fd = None => a = 1 /\ accepted_fd' = pending[1]
          /\ accepted_fd # None => a = 0 /\ accepted_fd' = accepted_fd
          /\ Taken(queued_fds, pending, a, m, n, queued_fds', pending')
          /\ \/ m = n /\ closed' = closed /\ oom' = oom
             \/ m < n /\ closed' = closed \cup {pending[m + 1]} /\ oom' = TRUE
    BY <1>17, MessageFacts DEF Inv
  <2>2. /\ queued_fds' \in Seq(Fds) /\ pending' \in Seq(Fds)
        /\ pending[1] \in Fds
    <3>1. 1 \in 1 .. Len(pending)
      BY <2>1, <1>2, InQueue
    <3> QED
      BY <1>2, <2>1, <3>1, InQueue DEF Taken
  <2>3. accepted_fd' \in Fds /\ accepted_fd' # None /\ oom' \in BOOLEAN
    BY <1>2, <1>3, <2>1, <2>2
  <2>4. /\ pc = "loop" /\ hstate = "open" /\ pollin /\ kind = "ipc" /\ pc' = "cb"
        /\ UNCHANGED <<kind, hstate, pollin, arrived, clients, emfile_fd, others,
                       grabbed, failedLate>>
    BY <1>17 DEF ReadMessage, Readable
  <2> QED
    BY <1>2, <2>2, <2>3, <2>4
<1> HIDE DEF Goal
<1> QED
  BY <1>6, <1>7, <1>8, <1>9, <1>10, <1>11, <1>12, <1>13, <1>14, <1>15, <1>16, <1>17
     DEF Next, LoopStep

-----------------------------------------------------------------------------
(* The order of arrival.                                                   *)

(***************************************************************************)
(* The numbers behind the variables.                                       *)
(***************************************************************************)
LEMMA Numbers ==
  ASSUME BoundsAreNumbers, TypeOK, ControlInv
  PROVE  /\ arrived \in Nat /\ accepted_fd \in Nat
         /\ Len(queued_fds) \in Nat /\ Len(pending) \in Nat
         /\ \A i \in 1 .. Len(queued_fds) :
              queued_fds[i] \in Nat /\ queued_fds[i] >= 1
         /\ \A i \in 1 .. Len(pending) : pending[i] \in Nat /\ pending[i] >= 1
<1>1. queued_fds \in Seq(Fds) /\ pending \in Seq(Fds)
  BY DEF TypeOK
<1>2. \A f \in Fds : f \in Nat /\ f >= 1
  BY DEF Fds, BoundsAreNumbers
<1>3. arrived \in Nat /\ accepted_fd \in Nat
  BY <1>2 DEF ControlInv, BoundsAreNumbers, TypeOK, None
<1> QED
  BY <1>1, <1>2, <1>3, InQueue

(***************************************************************************)
(* uv_accept, the trick and uv__read take descriptors from the head of the *)
(* row and the kernel puts them at its end.                                *)
(***************************************************************************)
LEMMA OrderNext ==
  ASSUME BoundsAreNumbers, Inv, Next
  PROVE  OrderInv'
<1>1. /\ arrived \in Nat /\ accepted_fd \in Nat
      /\ Len(queued_fds) \in Nat /\ Len(pending) \in Nat
      /\ \A i \in 1 .. Len(queued_fds) :
           queued_fds[i] \in Nat /\ queued_fds[i] >= 1
      /\ \A i \in 1 .. Len(pending) : pending[i] \in Nat /\ pending[i] >= 1
  BY Numbers DEF Inv
<1>2. OrderInv /\ queued_fds \in Seq(Fds) /\ pending \in Seq(Fds)
  BY DEF Inv, TypeOK
<1>3. Len(<<>>) = 0
  OBVIOUS
<1> USE DEF OrderInv
<1>4. CASE UNCHANGED <<accepted_fd, queued_fds, pending, arrived>>
  BY <1>2, <1>4
<1>5. CASE Arrive
  <2>1. /\ arrived' = arrived + 1 /\ arrived + 1 \in Fds
        /\ pending' = Append(pending, arrived + 1)
        /\ UNCHANGED <<accepted_fd, queued_fds>>
    BY <1>1, <1>5 DEF Arrive, Fds, BoundsAreNumbers
  <2>2. /\ Len(pending') = Len(pending) + 1
        /\ \A i \in 1 .. Len(pending) : pending'[i] = pending[i]
        /\ pending'[Len(pending) + 1] = arrived + 1
    BY <1>2, <2>1, AppendProperties
  <2> QED
    BY <1>1, <1>2, <2>1, <2>2
<1>6. ASSUME NEW ok \in BOOLEAN, uv_accept(ok)
      PROVE  OrderInv'
  <2>1. NextAccepted(ok) /\ UNCHANGED <<pending, arrived>>
    BY <1>6 DEF uv_accept
  <2>2. \/ queued_fds = <<>> /\ accepted_fd' = None /\ queued_fds' = <<>>
        \/ /\ Len(queued_fds) \in Nat \ {0}
           /\ accepted_fd' = queued_fds[1]
           /\ Len(queued_fds') = Len(queued_fds) - 1
           /\ \A i \in 1 .. Len(queued_fds') : queued_fds'[i] = queued_fds[i + 1]
    BY <2>1, NextWaits DEF Inv
  <2>3. CASE accepted_fd' = None /\ queued_fds' = <<>>
    BY <1>1, <1>2, <1>3, <2>1, <2>3 DEF None
  <2>4. CASE /\ Len(queued_fds) \in Nat \ {0}
             /\ accepted_fd' = queued_fds[1]
             /\ Len(queued_fds') = Len(queued_fds) - 1
             /\ \A i \in 1 .. Len(queued_fds') : queued_fds'[i] = queued_fds[i + 1]
    <3>1. /\ 1 \in 1 .. Len(queued_fds)
          /\ \A i \in 1 .. Len(queued_fds') :
               i + 1 \in 1 .. Len(queued_fds) /\ 1 < i + 1
          /\ \A i, j \in 1 .. Len(queued_fds') : i < j => i + 1 < j + 1
      BY <2>4
    <3>2. accepted_fd' <= arrived
      BY <1>2, <2>4, <3>1
    <3>3. \A i \in 1 .. Len(queued_fds') :
            queued_fds'[i] <= arrived /\ accepted_fd' < queued_fds'[i]
      BY <1>2, <2>4, <3>1
    <3>4. \A i \in 1 .. Len(pending) :
            pending[i] <= arrived /\ accepted_fd' < pending[i]
      BY <1>2, <2>4, <3>1
    <3>5. \A i, j \in 1 .. Len(queued_fds') : i < j => queued_fds'[i] < queued_fds'[j]
      BY <1>2, <2>4, <3>1
    <3>6. \A i \in 1 .. Len(queued_fds'), j \in 1 .. Len(pending) :
            queued_fds'[i] < pending[j]
      BY <1>2, <2>4, <3>1
    <3> QED
      BY <1>2, <2>1, <3>2, <3>3, <3>4, <3>5, <3>6
  <2> QED
    BY <2>2, <2>3, <2>4
<1>7. CASE Close
  BY <1>1, <1>2, <1>3, <1>7 DEF Close, None
<1>8. ASSUME ServerIo \/ TrickAccept
      PROVE  OrderInv'
  <2>1. /\ pending # <<>> /\ pending' = Tail(pending) /\ queued_fds = <<>>
        /\ accepted_fd = None /\ UNCHANGED <<queued_fds, arrived>>
        /\ accepted_fd' = None \/ accepted_fd' = Head(pending)
    BY <1>8 DEF ServerIo, TrickAccept, Readable, Inv, OneAtATime, ControlInv
  <2>2. /\ Len(pending) \in Nat \ {0} /\ Head(pending) = pending[1]
        /\ Len(pending') = Len(pending) - 1
        /\ \A i \in 1 .. Len(pending') : pending'[i] = pending[i + 1]
    BY <1>2, <2>1, FirstTaken
  <2> QED
    BY <1>1, <1>2, <1>3, <2>1, <2>2 DEF None
<1>9. CASE ReadMessage
  <2>1. PICK a \in {0, 1}, m, n \in Nat :
          /\ a <= m /\ m <= n /\ 1 <= n /\ n <= Len(pending) /\ n <= Room
          /\ accepted_fd = None => a = 1 /\ accepted_fd' = pending[1]
          /\ accepted_fd # None => a = 0 /\ accepted_fd' = accepted_fd
          /\ Taken(queued_fds, pending, a, m, n, queued_fds', pending')
    BY <1>9, MessageFacts DEF Inv
  <2>2. arrived' = arrived /\ (accepted_fd = None => Len(queued_fds) = 0)
    BY <1>3, <1>9 DEF ReadMessage, Inv, ControlInv
  <2>3. /\ Len(queued_fds') = Len(queued_fds) + (m - a)
        /\ \A i \in 1 .. Len(queued_fds) : queued_fds'[i] = queued_fds[i]
        /\ \A i \in 1 .. m - a :
             queued_fds'[Len(queued_fds) + i] = pending[a + i]
        /\ Len(pending') = Len(pending) - n
        /\ \A i \in 1 .. Len(pending) - n : pending'[i] = pending[n + i]
    BY <2>1 DEF Taken
  <2>4. ASSUME NEW i \in 1 .. Len(queued_fds')
        PROVE  \/ i <= Len(queued_fds) /\ queued_fds'[i] = queued_fds[i]
               \/ \E j \in a + 1 .. m : /\ i = Len(queued_fds) + (j - a)
                                        /\ queued_fds'[i] = pending[j]
    <3>1. CASE i <= Len(queued_fds)
      BY <2>3, <3>1
    <3>2. CASE ~(i <= Len(queued_fds))
      <4> DEFINE l == i - Len(queued_fds)
      <4>1. /\ l \in 1 .. m - a /\ Len(queued_fds) + l = i
            /\ a + l \in a + 1 .. m /\ i = Len(queued_fds) + ((a + l) - a)
        BY <1>1, <2>1, <2>3, <3>2
      <4>2. queued_fds'[i] = pending[a + l]
        BY <2>3, <4>1
      <4> QED
        BY <4>1, <4>2
    <3> QED
      BY <3>1, <3>2
  <2>5. /\ \A j \in a + 1 .. m : j \in 1 .. Len(pending)
        /\ \A j \in 1 .. Len(pending') : n + j \in 1 .. Len(pending)
        /\ 1 \in 1 .. Len(pending)
    BY <1>1, <2>1, <2>3
  <2>6. accepted_fd' \in Nat /\ accepted_fd' <= arrived
    BY <1>1, <1>2, <2>1, <2>5
  <2>7. \A i \in 1 .. Len(queued_fds') :
          queued_fds'[i] <= arrived' /\ accepted_fd' < queued_fds'[i]
    <3> SUFFICES ASSUME NEW i \in 1 .. Len(queued_fds')
                 PROVE  queued_fds'[i] <= arrived /\ accepted_fd' < queued_fds'[i]
      BY <2>2
    <3>1. CASE i <= Len(queued_fds) /\ queued_fds'[i] = queued_fds[i]
      <4>1. i \in 1 .. Len(queued_fds) /\ accepted_fd # None
        BY <1>1, <2>2, <3>1
      <4> QED
        BY <1>2, <2>1, <3>1, <4>1
    <3>2. ASSUME NEW j \in a + 1 .. m, queued_fds'[i] = pending[j]
          PROVE  queued_fds'[i] <= arrived /\ accepted_fd' < queued_fds'[i]
      <4>1. j \in 1 .. Len(pending)
        BY <2>5
      <4>2. a = 1 => 1 < j
        OBVIOUS
      <4>3. pending[j] <= arrived /\ accepted_fd < pending[j]
        BY <1>2, <4>1
      <4>4. a = 1 => pending[1] < pending[j]
        BY <1>2, <2>5, <4>1, <4>2
      <4> QED
        BY <2>1, <3>2, <4>3, <4>4
    <3> QED
      BY <2>4, <3>1, <3>2
  <2>8. \A i \in 1 .. Len(pending') :
          pending'[i] <= arrived' /\ accepted_fd' < pending'[i]
    <3> SUFFICES ASSUME NEW i \in 1 .. Len(pending')
                 PROVE  pending'[i] <= arrived /\ accepted_fd' < pending'[i]
      BY <2>2
    <3>1. /\ pending'[i] = pending[n + i] /\ n + i \in 1 .. Len(pending)
          /\ 1 < n + i
      BY <1>1, <2>1, <2>3, <2>5
    <3>2. /\ pending[n + i] <= arrived /\ accepted_fd < pending[n + i]
          /\ pending[1] < pending[n + i]
      BY <1>2, <2>5, <3>1
    <3> QED
      BY <2>1, <3>1, <3>2
  <2>9. \A i, j \in 1 .. Len(queued_fds') : i < j => queued_fds'[i] < queued_fds'[j]
    <3> SUFFICES ASSUME NEW i \in 1 .. Len(queued_fds'), NEW j \in 1 .. Len(queued_fds'),
                        i < j
                 PROVE  queued_fds'[i] < queued_fds'[j]
      OBVIOUS
    <3>1. CASE j <= Len(queued_fds) /\ queued_fds'[j] = queued_fds[j]
      <4>1. /\ i \in 1 .. Len(queued_fds) /\ j \in 1 .. Len(queued_fds)
            /\ queued_fds'[i] = queued_fds[i]
        BY <1>1, <2>3, <3>1
      <4> QED
        BY <1>2, <3>1, <4>1
    <3>2. ASSUME NEW k \in a + 1 .. m, j = Len(queued_fds) + (k - a),
                 queued_fds'[j] = pending[k]
          PROVE  queued_fds'[i] < queued_fds'[j]
      <4>1. CASE i <= Len(queued_fds) /\ queued_fds'[i] = queued_fds[i]
        <5>1. i \in 1 .. Len(queued_fds) /\ k \in 1 .. Len(pending)
          BY <1>1, <2>5, <4>1
        <5> QED
          BY <1>2, <3>2, <4>1, <5>1
      <4>2. ASSUME NEW l \in a + 1 .. m, i = Len(queued_fds) + (l - a),
                   queued_fds'[i] = pending[l]
            PROVE  queued_fds'[i] < queued_fds'[j]
        <5>1. l \in 1 .. Len(pending) /\ k \in 1 .. Len(pending)
          BY <2>5
        <5>2. l < k
          BY <1>1, <3>2, <4>2, <2>1
        <5> QED
          BY <1>2, <3>2, <4>2, <5>1, <5>2
      <4> QED
        BY <2>4, <4>1, <4>2
    <3> QED
      BY <2>4, <3>1, <3>2
  <2>10. \A i, j \in 1 .. Len(pending') : i < j => pending'[i] < pending'[j]
    <3> SUFFICES ASSUME NEW i \in 1 .. Len(pending'), NEW j \in 1 .. Len(pending'), i < j
                 PROVE  pending'[i] < pending'[j]
      OBVIOUS
    <3>1. /\ pending'[i] = pending[n + i] /\ n + i \in 1 .. Len(pending)
          /\ pending'[j] = pending[n + j] /\ n + j \in 1 .. Len(pending)
          /\ n + i < n + j
      BY <1>1, <2>1, <2>3, <2>5
    <3> QED
      BY <1>2, <3>1
  <2>11. \A i \in 1 .. Len(queued_fds'), j \in 1 .. Len(pending') :
           queued_fds'[i] < pending'[j]
    <3> SUFFICES ASSUME NEW i \in 1 .. Len(queued_fds'), NEW j \in 1 .. Len(pending')
                 PROVE  queued_fds'[i] < pending'[j]
      OBVIOUS
    <3>1. pending'[j] = pending[n + j] /\ n + j \in 1 .. Len(pending)
      BY <1>1, <2>1, <2>3, <2>5
    <3>2. CASE i <= Len(queued_fds) /\ queued_fds'[i] = queued_fds[i]
      <4>1. i \in 1 .. Len(queued_fds)
        BY <1>1, <3>2
      <4> QED
        BY <1>2, <3>1, <3>2, <4>1
    <3>3. ASSUME NEW k \in a + 1 .. m, queued_fds'[i] = pending[k]
          PROVE  queued_fds'[i] < pending'[j]
      <4>1. k \in 1 .. Len(pending) /\ k < n + j
        BY <1>1, <2>1, <2>3, <2>5
      <4> QED
        BY <1>2, <3>1, <3>3, <4>1
    <3> QED
      BY <2>4, <3>2, <3>3
  <2> QED
    BY <2>2, <2>6, <2>7, <2>8, <2>9, <2>10, <2>11
<1> QED
  <2>1. ASSUME \/ OtherThread \/ uv_listen \/ TrickBegin \/ TrickEnd \/ CallbackReturn
               \/ \E fd \in clients : ClientClose(fd)
        PROVE  UNCHANGED <<accepted_fd, queued_fds, pending, arrived>>
    BY <2>1 DEF OtherThread, uv_listen, TrickBegin, TrickEnd, CallbackReturn, ClientClose
  <2> HIDE DEF OrderInv
  <2> QED
    BY <1>4, <1>5, <1>6, <1>7, <1>8, <1>9, <2>1 DEF Next, LoopStep

-----------------------------------------------------------------------------
(* The place of a descriptor.                                              *)

(***************************************************************************)
(* A step that changes where descriptors wait in one of three ways keeps   *)
(* every descriptor in one place: all stay (or one more arrives), those of *)
(* a set are handed out or closed, or some are forgotten for lack of       *)
(* memory.                                                                 *)
(***************************************************************************)
LEMMA OnePlace ==
  ASSUME PlaceInv, NEW X, X \subseteq 1 .. arrived, \A f \in X : Waits(f),
         arrived' = arrived, arrived \in Nat,
         clients' \cup closed' = clients \cup closed \cup X,
         clients' \cap closed' = {},
         \A f : Waits(f)' => f = None \/ (Waits(f) /\ f \notin X),
         ~oom' => ~oom /\ \A f : Waits(f) => f = None \/ f \in X \/ Waits(f)'
  PROVE  PlaceInv'
<1>1. clients' \subseteq 1 .. arrived' /\ closed' \subseteq 1 .. arrived'
  BY DEF PlaceInv
<1>2. \A f \in 1 .. arrived : f # None
  BY DEF None
<1>3. \A f \in clients' \cup closed' : ~Waits(f)'
  <2> SUFFICES ASSUME NEW f \in clients' \cup closed', Waits(f)'
               PROVE  FALSE
    OBVIOUS
  <2>1. f # None
    BY <1>1, <1>2
  <2>2. Waits(f) /\ f \notin X /\ f \in clients \cup closed
    BY <2>1
  <2> QED
    BY <2>2 DEF PlaceInv
<1>4. ASSUME ~oom', NEW f \in 1 .. arrived'
      PROVE  f \in clients' \cup closed' \/ Waits(f)'
  <2>1. f \in clients \cup closed \/ Waits(f)
    BY <1>4 DEF PlaceInv
  <2>2. f # None
    BY <1>2
  <2> QED
    BY <1>4, <2>1, <2>2
<1> QED
  BY <1>1, <1>3, <1>4 DEF PlaceInv

(***************************************************************************)
(* No step puts a descriptor in two places, and none loses one.            *)
(***************************************************************************)
LEMMA PlaceNext ==
  ASSUME BoundsAreNumbers, Inv, Next
  PROVE  PlaceInv'
<1>1. /\ arrived \in Nat /\ accepted_fd \in Nat
      /\ Len(queued_fds) \in Nat /\ Len(pending) \in Nat
      /\ \A i \in 1 .. Len(queued_fds) :
           queued_fds[i] \in Nat /\ queued_fds[i] >= 1
      /\ \A i \in 1 .. Len(pending) : pending[i] \in Nat /\ pending[i] >= 1
  BY Numbers DEF Inv
<1>2. /\ OrderInv /\ PlaceInv /\ queued_fds \in Seq(Fds) /\ pending \in Seq(Fds)
      /\ oom \in BOOLEAN
  BY DEF Inv, TypeOK
<1>3. Len(<<>>) = 0
  OBVIOUS
<1>4. \A f : Waits(f)' <=> \/ f = accepted_fd'
                           \/ \E i \in 1 .. Len(queued_fds') : queued_fds'[i] = f
                           \/ \E i \in 1 .. Len(pending') : pending'[i] = f
  BY DEF Waits
<1>5. \A f : Waits(f) <=> \/ f = accepted_fd
                          \/ \E i \in 1 .. Len(queued_fds) : queued_fds[i] = f
                          \/ \E i \in 1 .. Len(pending) : pending[i] = f
  BY DEF Waits
<1>6. \A f : Waits(f) => f \in Nat /\ f <= arrived
  BY <1>1, <1>2, <1>5 DEF OrderInv
<1>7. CASE UNCHANGED <<accepted_fd, queued_fds, pending, arrived, closed, clients, oom>>
  <2>1. \A f : Waits(f)' <=> Waits(f)
    BY <1>4, <1>5, <1>7
  <2> QED
    BY <1>2, <1>7, <2>1 DEF PlaceInv
<1>8. CASE Arrive
  <2>1. /\ arrived' = arrived + 1 /\ arrived + 1 \in Fds
        /\ pending' = Append(pending, arrived + 1)
        /\ UNCHANGED <<accepted_fd, queued_fds, clients, closed, oom>>
    BY <1>1, <1>8 DEF Arrive, Fds, BoundsAreNumbers
  <2>2. /\ Len(pending') = Len(pending) + 1
        /\ \A i \in 1 .. Len(pending) : pending'[i] = pending[i]
        /\ pending'[Len(pending) + 1] = arrived + 1
    BY <1>2, <2>1, AppendProperties
  <2>3. /\ Len(pending) + 1 \in 1 .. Len(pending')
        /\ \A i \in 1 .. Len(pending) : i \in 1 .. Len(pending')
        /\ \A i \in 1 .. Len(pending') : i = Len(pending) + 1 \/ i \in 1 .. Len(pending)
    BY <1>1, <2>2
  <2>4. \A f : Waits(f)' <=> Waits(f) \/ f = arrived + 1
    BY <1>4, <1>5, <2>1, <2>2, <2>3
  <2>5. /\ \A f \in 1 .. arrived : f # arrived + 1 /\ f \in 1 .. arrived + 1
        /\ \A f \in 1 .. arrived + 1 : f \in 1 .. arrived \/ f = arrived + 1
    BY <1>1
  <2> QED
    BY <1>2, <2>1, <2>4, <2>5 DEF PlaceInv
<1>9. ASSUME NEW ok \in BOOLEAN, uv_accept(ok)
      PROVE  PlaceInv'
  <2>1. /\ NextAccepted(ok) /\ accepted_fd # None
        /\ UNCHANGED <<pending, arrived, oom>>
        /\ \/ clients' = clients \cup {accepted_fd} /\ closed' = closed
           \/ clients' = clients /\ closed' = closed \cup {accepted_fd}
    BY <1>9 DEF uv_accept
  <2>2. accepted_fd \in 1 .. arrived /\ Waits(accepted_fd)
    BY <1>1, <1>5, <1>6, <2>1 DEF None
  <2>3. /\ clients' \cup closed' = clients \cup closed \cup {accepted_fd}
        /\ clients' \cap closed' = {}
    BY <1>2, <2>1, <2>2 DEF PlaceInv
  <2>4. \/ queued_fds = <<>> /\ accepted_fd' = None /\ queued_fds' = <<>>
        \/ /\ Len(queued_fds) \in Nat \ {0}
           /\ accepted_fd' = queued_fds[1]
           /\ Len(queued_fds') = Len(queued_fds) - 1
           /\ \A i \in 1 .. Len(queued_fds') : queued_fds'[i] = queued_fds[i + 1]
    BY <2>1, NextWaits DEF Inv
  <2>5. /\ \A i \in 1 .. Len(queued_fds) : queued_fds[i] # accepted_fd
        /\ \A i \in 1 .. Len(pending) : pending[i] # accepted_fd
    BY <1>1, <1>2 DEF OrderInv
  <2>6. /\ \A f : Waits(f)' => f = None \/ (Waits(f) /\ f # accepted_fd)
        /\ \A f : Waits(f) => f = accepted_fd \/ Waits(f)'
    <3>1. CASE queued_fds = <<>> /\ accepted_fd' = None /\ queued_fds' = <<>>
      BY <1>3, <1>4, <1>5, <2>1, <2>5, <3>1
    <3>2. CASE /\ Len(queued_fds) \in Nat \ {0}
               /\ accepted_fd' = queued_fds[1]
               /\ Len(queued_fds') = Len(queued_fds) - 1
               /\ \A i \in 1 .. Len(queued_fds') : queued_fds'[i] = queued_fds[i + 1]
      <4>1. /\ 1 \in 1 .. Len(queued_fds)
            /\ \A i \in 1 .. Len(queued_fds') : i + 1 \in 1 .. Len(queued_fds)
        BY <3>2
      <4>2. ASSUME NEW i \in 1 .. Len(queued_fds)
            PROVE  \/ queued_fds[i] = accepted_fd'
                   \/ \E j \in 1 .. Len(queued_fds') : queued_fds'[j] = queued_fds[i]
        <5>1. CASE i = 1
          BY <3>2, <5>1
        <5>2. CASE i # 1
          <6>1. i - 1 \in 1 .. Len(queued_fds') /\ (i - 1) + 1 = i
            BY <3>2, <5>2
          <6>2. queued_fds'[i - 1] = queued_fds[i]
            BY <3>2, <6>1
          <6> QED
            BY <6>1, <6>2
        <5> QED
          BY <5>1, <5>2
      <4>3. \A f : Waits(f)' => Waits(f) /\ f # accepted_fd
        BY <1>4, <1>5, <2>1, <2>5, <3>2, <4>1
      <4>4. \A f : Waits(f) => f = accepted_fd \/ Waits(f)'
        BY <1>4, <1>5, <2>1, <4>2
      <4> QED
        BY <4>3, <4>4
    <3> QED
      BY <2>4, <3>1, <3>2
  <2> DEFINE X == {accepted_fd}
  <2>7. /\ X \subseteq 1 .. arrived /\ (\A f \in X : Waits(f))
        /\ clients' \cup closed' = clients \cup closed \cup X
        /\ \A f : Waits(f)' => f = None \/ (Waits(f) /\ f \notin X)
        /\ ~oom' => ~oom /\ \A f : Waits(f) => f = None \/ f \in X \/ Waits(f)'
    BY <2>1, <2>2, <2>3, <2>6
  <2> HIDE DEF X
  <2> QED
    BY <1>1, <1>2, <2>1, <2>3, <2>7, OnePlace
<1>10. ASSUME NEW fd \in clients, ClientClose(fd)
       PROVE  PlaceInv'
  <2>1. /\ UNCHANGED <<accepted_fd, queued_fds, pending, arrived, oom>>
        /\ clients' = clients \ {fd} /\ closed' = closed \cup {fd}
    BY <1>10 DEF ClientClose
  <2>2. \A f : Waits(f)' <=> Waits(f)
    BY <1>4, <1>5, <2>1
  <2> QED
    BY <1>2, <2>1, <2>2 DEF PlaceInv
<1>11. CASE Close
  <2>1. /\ UNCHANGED <<pending, arrived, clients, oom>>
        /\ accepted_fd' = None /\ queued_fds' = <<>>
        /\ closed' = closed \cup (Held \ clients)
    BY <1>11 DEF Close
  <2> DEFINE X == Held \ clients
  <2>2. \A f : f \in X <=> \/ f = accepted_fd /\ f # None
                           \/ \E i \in 1 .. Len(queued_fds) : queued_fds[i] = f
    <3>1. \A f : f \in Held <=> \/ f = accepted_fd /\ f # None
                                \/ \E i \in 1 .. Len(queued_fds) : queued_fds[i] = f
                                \/ f \in clients
      BY HeldFacts DEF Inv
    <3>2. \A f \in clients : /\ f # accepted_fd
                             /\ ~\E i \in 1 .. Len(queued_fds) : queued_fds[i] = f
      BY <1>2, <1>5 DEF PlaceInv
    <3> QED
      BY <3>1, <3>2
  <2> HIDE DEF X
  <2>3. X \subseteq 1 .. arrived /\ (\A f \in X : Waits(f)) /\ X \cap clients = {}
    <3>1. \A f \in X : Waits(f) /\ f # None
      BY <1>1, <1>5, <2>2 DEF None
    <3>2. \A f \in X : f \in 1 .. arrived
      BY <1>1, <1>6, <3>1 DEF None
    <3> QED
      BY <1>2, <3>1, <3>2 DEF PlaceInv
  <2>4. /\ clients' \cup closed' = clients \cup closed \cup X
        /\ clients' \cap closed' = {}
    BY <1>2, <2>1, <2>3 DEF PlaceInv, X
  <2>5. /\ \A f : Waits(f)' => f = None \/ (Waits(f) /\ f \notin X)
        /\ \A f : Waits(f) => f = None \/ f \in X \/ Waits(f)'
    <3>1. \A f : Waits(f)' <=> f = None \/ \E i \in 1 .. Len(pending) : pending[i] = f
      BY <1>3, <1>4, <2>1
    <3>2. ASSUME NEW i \in 1 .. Len(pending)
          PROVE  pending[i] \notin X
      <4>1. /\ accepted_fd < pending[i] /\ pending[i] \in Nat
            /\ \A j \in 1 .. Len(queued_fds) : queued_fds[j] < pending[i]
        BY <1>1, <1>2 DEF OrderInv
      <4>2. /\ pending[i] # accepted_fd
            /\ \A j \in 1 .. Len(queued_fds) : queued_fds[j] # pending[i]
        BY <1>1, <4>1
      <4> QED
        BY <2>2, <4>2
    <3> QED
      BY <1>5, <2>2, <3>1, <3>2
  <2> QED
    BY <1>1, <1>2, <2>1, <2>3, <2>4, <2>5, OnePlace
<1>12. ASSUME ServerIo \/ TrickAccept
       PROVE  PlaceInv'
  <2>1. /\ pending # <<>> /\ pending' = Tail(pending) /\ queued_fds = <<>>
        /\ accepted_fd = None
        /\ UNCHANGED <<queued_fds, arrived, clients, oom>>
        /\ \/ accepted_fd' = Head(pending) /\ closed' = closed
           \/ accepted_fd' = None /\ closed' = closed \cup {Head(pending)}
    BY <1>12 DEF ServerIo, TrickAccept, Readable, Inv, OneAtATime, ControlInv
  <2>2. /\ Len(pending) \in Nat \ {0} /\ Head(pending) = pending[1]
        /\ Len(pending') = Len(pending) - 1
        /\ \A i \in 1 .. Len(pending') : pending'[i] = pending[i + 1]
    BY <1>2, <2>1, FirstTaken
  <2>3. /\ 1 \in 1 .. Len(pending)
        /\ \A i \in 1 .. Len(pending') : i + 1 \in 1 .. Len(pending) /\ 1 < i + 1
    BY <2>2
  <2>4. ASSUME NEW i \in 1 .. Len(pending), i # 1
        PROVE  \E j \in 1 .. Len(pending') : pending'[j] = pending[i]
    <3>1. i - 1 \in 1 .. Len(pending') /\ (i - 1) + 1 = i
      BY <2>2, <2>4
    <3>2. pending'[i - 1] = pending[i]
      BY <2>2, <3>1
    <3> QED
      BY <3>1, <3>2
  <2>5. \A f : Waits(f) <=> f = None \/ \E i \in 1 .. Len(pending) : pending[i] = f
    BY <1>3, <1>5, <2>1
  <2>6. \A f : Waits(f)' <=> f = accepted_fd' \/ \E i \in 1 .. Len(pending') : pending'[i] = f
    BY <1>3, <1>4, <2>1
  <2>7. CASE accepted_fd' = pending[1] /\ closed' = closed
    <3> DEFINE X == {}
    <3>1. \A f : Waits(f)' => Waits(f)
      BY <2>2, <2>3, <2>5, <2>6, <2>7
    <3>2. \A f : Waits(f) => f = None \/ Waits(f)'
      BY <2>4, <2>5, <2>6, <2>7
    <3>3. /\ X \subseteq 1 .. arrived /\ (\A f \in X : Waits(f))
          /\ clients' \cup closed' = clients \cup closed \cup X
          /\ clients' \cap closed' = {}
          /\ \A f : Waits(f)' => f = None \/ (Waits(f) /\ f \notin X)
          /\ ~oom' => ~oom /\ \A f : Waits(f) => f = None \/ f \in X \/ Waits(f)'
      BY <1>2, <2>1, <2>7, <3>1, <3>2 DEF PlaceInv
    <3> HIDE DEF X
    <3> QED
      BY <1>1, <1>2, <2>1, <3>3, OnePlace
  <2>8. CASE accepted_fd' = None /\ closed' = closed \cup {pending[1]}
    <3> DEFINE X == {pending[1]}
    <3>1. ASSUME NEW i \in 1 .. Len(pending')
          PROVE  pending'[i] # pending[1]
      <4>1. i + 1 \in 1 .. Len(pending) /\ 1 < i + 1 /\ pending'[i] = pending[i + 1]
        BY <2>2, <2>3
      <4>2. pending[1] < pending[i + 1]
        BY <1>2, <2>3, <4>1 DEF OrderInv
      <4>3. pending[1] \in Nat /\ pending[i + 1] \in Nat
        BY <1>1, <2>3, <4>1
      <4> QED
        BY <4>1, <4>2, <4>3
    <3>2. \A f : Waits(f)' => f = None \/ (Waits(f) /\ f # pending[1])
      BY <2>2, <2>3, <2>5, <2>6, <2>8, <3>1
    <3>3. \A f : Waits(f) => f = None \/ f = pending[1] \/ Waits(f)'
      BY <2>4, <2>5, <2>6
    <3>4. pending[1] \in 1 .. arrived /\ Waits(pending[1])
      BY <1>1, <1>2, <1>5, <2>3 DEF OrderInv
    <3>5. pending[1] \notin clients \cup closed
      BY <1>2, <3>4 DEF PlaceInv
    <3>6. /\ X \subseteq 1 .. arrived /\ (\A f \in X : Waits(f))
          /\ clients' \cup closed' = clients \cup closed \cup X
          /\ clients' \cap closed' = {}
          /\ \A f : Waits(f)' => f = None \/ (Waits(f) /\ f \notin X)
          /\ ~oom' => ~oom /\ \A f : Waits(f) => f = None \/ f \in X \/ Waits(f)'
      BY <1>2, <2>1, <2>8, <3>2, <3>3, <3>4, <3>5 DEF PlaceInv
    <3> HIDE DEF X
    <3> QED
      BY <1>1, <1>2, <2>1, <3>6, OnePlace
  <2> QED
    BY <2>1, <2>2, <2>7, <2>8
<1>13. CASE ReadMessage
  <2>1. PICK a \in {0, 1}, m, n \in Nat :
          /\ a <= m /\ m <= n /\ 1 <= n /\ n <= Len(pending) /\ n <= Room
          /\ accepted_fd = None => a = 1 /\ accepted_fd' = pending[1]
          /\ accepted_fd # None => a = 0 /\ accepted_fd' = accepted_fd
          /\ Taken(queued_fds, pending, a, m, n, queued_fds', pending')
          /\ \/ m = n /\ closed' = closed /\ oom' = oom
             \/ m < n /\ closed' = closed \cup {pending[m + 1]} /\ oom' = TRUE
    BY <1>13, MessageFacts DEF Inv
  <2>2. arrived' = arrived /\ clients' = clients
    BY <1>13 DEF ReadMessage
  <2>3. /\ Len(queued_fds') = Len(queued_fds) + (m - a)
        /\ \A i \in 1 .. Len(queued_fds) : queued_fds'[i] = queued_fds[i]
        /\ \A i \in 1 .. m - a :
             queued_fds'[Len(queued_fds) + i] = pending[a + i]
        /\ Len(pending') = Len(pending) - n
        /\ \A i \in 1 .. Len(pending) - n : pending'[i] = pending[n + i]
    BY <2>1 DEF Taken
  <2>4. \A i \in 1 .. Len(queued_fds) :
          \E j \in 1 .. Len(queued_fds') : queued_fds'[j] = queued_fds[i]
    <3>1. \A i \in 1 .. Len(queued_fds) : i \in 1 .. Len(queued_fds')
      BY <1>1, <2>1, <2>3
    <3> QED
      BY <2>3, <3>1
  <2>5. ASSUME NEW i \in 1 .. m
        PROVE  \/ pending[i] = accepted_fd'
               \/ \E j \in 1 .. Len(queued_fds') : queued_fds'[j] = pending[i]
    <3>1. CASE i <= a
      BY <2>1, <3>1
    <3>2. CASE ~(i <= a)
      <4>1. /\ i - a \in 1 .. m - a /\ a + (i - a) = i
            /\ Len(queued_fds) + (i - a) \in 1 .. Len(queued_fds')
        BY <1>1, <2>1, <2>3, <3>2
      <4>2. queued_fds'[Len(queued_fds) + (i - a)] = pending[i]
        BY <2>3, <4>1
      <4> QED
        BY <4>1, <4>2
    <3> QED
      BY <3>1, <3>2
  <2>6. ASSUME NEW i \in n + 1 .. Len(pending)
        PROVE  \E j \in 1 .. Len(pending') : pending'[j] = pending[i]
    <3>1. i - n \in 1 .. Len(pending) - n /\ n + (i - n) = i
      BY <1>1, <2>1
    <3>2. pending'[i - n] = pending[i]
      BY <2>3, <3>1
    <3> QED
      BY <2>3, <3>1, <3>2
  <2>7. ASSUME NEW i \in 1 .. Len(queued_fds')
        PROVE  \/ \E j \in 1 .. Len(queued_fds) : queued_fds[j] = queued_fds'[i]
               \/ \E j \in 1 .. m : pending[j] = queued_fds'[i]
    <3>1. CASE i <= Len(queued_fds)
      BY <1>1, <2>3, <3>1
    <3>2. CASE ~(i <= Len(queued_fds))
      <4> DEFINE l == i - Len(queued_fds)
      <4>1. /\ l \in 1 .. m - a /\ Len(queued_fds) + l = i
            /\ a + l \in 1 .. m
        BY <1>1, <2>1, <2>3, <3>2
      <4>2. queued_fds'[i] = pending[a + l]
        BY <2>3, <4>1
      <4> QED
        BY <4>1, <4>2
    <3> QED
      BY <3>1, <3>2
  <2>8. /\ \A i \in 1 .. Len(pending') :
             n + i \in 1 .. Len(pending) /\ pending'[i] = pending[n + i] /\ m < n + i
        /\ \A i \in 1 .. m : i \in 1 .. Len(pending)
        /\ 1 \in 1 .. Len(pending)
    BY <1>1, <2>1, <2>3
  <2>9. ASSUME NEW f, Waits(f)'
        PROVE  Waits(f)
    <3>1. CASE f = accepted_fd'
      <4>1. f = accepted_fd \/ f = pending[1]
        BY <2>1, <3>1
      <4> QED
        BY <1>5, <2>8, <4>1
    <3>2. CASE \E i \in 1 .. Len(queued_fds') : queued_fds'[i] = f
      <4>1. PICK i \in 1 .. Len(queued_fds') : queued_fds'[i] = f
        BY <3>2
      <4>2. \/ \E j \in 1 .. Len(queued_fds) : queued_fds[j] = f
            \/ \E j \in 1 .. m : pending[j] = f
        BY <2>7, <4>1
      <4> QED
        BY <1>5, <2>8, <4>2
    <3>3. CASE \E i \in 1 .. Len(pending') : pending'[i] = f
      <4>1. PICK i \in 1 .. Len(pending') : pending'[i] = f
        BY <3>3
      <4>2. n + i \in 1 .. Len(pending) /\ pending[n + i] = f
        BY <2>8, <4>1
      <4> QED
        BY <1>5, <4>2
    <3> QED
      BY <1>4, <2>9, <3>1, <3>2, <3>3
  <2>10. CASE m = n /\ closed' = closed /\ oom' = oom
    <3> DEFINE X == {}
    <3>1. \A i \in 1 .. Len(pending) : i \in 1 .. m \/ i \in n + 1 .. Len(pending)
      BY <1>1, <2>1, <2>10
    <3>2. ASSUME NEW f, Waits(f), f # None
          PROVE  Waits(f)'
      <4>1. CASE f = accepted_fd
        BY <1>4, <2>1, <3>2, <4>1
      <4>2. CASE \E i \in 1 .. Len(queued_fds) : queued_fds[i] = f
        BY <1>4, <2>4, <4>2
      <4>3. CASE \E i \in 1 .. Len(pending) : pending[i] = f
        <5>1. PICK i \in 1 .. Len(pending) : pending[i] = f
          BY <4>3
        <5>2. CASE i \in 1 .. m
          BY <1>4, <2>5, <5>1, <5>2
        <5>3. CASE i \in n + 1 .. Len(pending)
          BY <1>4, <2>6, <5>1, <5>3
        <5> QED
          BY <3>1, <5>2, <5>3
      <4> QED
        BY <1>5, <3>2, <4>1, <4>2, <4>3
    <3>3. /\ X \subseteq 1 .. arrived /\ (\A f \in X : Waits(f))
          /\ clients' \cup closed' = clients \cup closed \cup X
          /\ clients' \cap closed' = {}
          /\ \A f : Waits(f)' => f = None \/ (Waits(f) /\ f \notin X)
          /\ ~oom' => ~oom /\ \A f : Waits(f) => f = None \/ f \in X \/ Waits(f)'
      BY <1>2, <2>2, <2>9, <2>10, <3>2 DEF PlaceInv
    <3> HIDE DEF X
    <3> QED
      BY <1>1, <1>2, <2>2, <3>3, OnePlace
  <2>11. CASE m < n /\ closed' = closed \cup {pending[m + 1]} /\ oom' = TRUE
    <3> DEFINE x == pending[m + 1]
               X == {x}
    <3>1. m + 1 \in 1 .. Len(pending)
      BY <1>1, <2>1, <2>11
    <3>2. x \in 1 .. arrived /\ Waits(x)
      BY <1>1, <1>2, <1>5, <3>1 DEF OrderInv
    <3>3. x \notin clients \cup closed
      BY <1>2, <3>2 DEF PlaceInv
    <3>4. accepted_fd # x /\ \A i \in 1 .. Len(queued_fds) : queued_fds[i] # x
      BY <1>1, <1>2, <3>1 DEF OrderInv
    <3>5. \A i \in 1 .. m : pending[i] # x
      <4>1. \A i \in 1 .. m : i < m + 1
        BY <2>1
      <4> QED
        BY <1>1, <1>2, <2>8, <3>1, <4>1 DEF OrderInv
    <3>6. \A i \in 1 .. Len(pending') : pending'[i] # x
      <4>1. \A i \in 1 .. Len(pending') : m + 1 < n + i
        BY <1>1, <2>1, <2>3, <2>11
      <4> QED
        BY <1>1, <1>2, <2>8, <3>1, <4>1 DEF OrderInv
    <3>7. accepted_fd' # x
      <4>1. a = 1 => 1 \in 1 .. m
        BY <2>1
      <4> QED
        BY <2>1, <3>4, <3>5, <4>1
    <3> HIDE DEF x
    <3>8. \A f : Waits(f)' => f # x
      BY <1>4, <2>7, <3>4, <3>5, <3>6, <3>7
    <3>9. /\ X \subseteq 1 .. arrived /\ (\A f \in X : Waits(f))
          /\ clients' \cup closed' = clients \cup closed \cup X
          /\ clients' \cap closed' = {}
          /\ \A f : Waits(f)' => f = None \/ (Waits(f) /\ f \notin X)
          /\ ~oom' => ~oom /\ \A f : Waits(f) => f = None \/ f \in X \/ Waits(f)'
      BY <1>2, <2>2, <2>9, <2>11, <3>2, <3>3, <3>8 DEF PlaceInv, x
    <3> HIDE DEF X
    <3> QED
      BY <1>1, <1>2, <2>2, <3>9, OnePlace
  <2> QED
    BY <2>1, <2>10, <2>11
<1> QED
  <2>1. ASSUME \/ OtherThread \/ uv_listen \/ TrickBegin \/ TrickEnd \/ CallbackReturn
        PROVE  UNCHANGED <<accepted_fd, queued_fds, pending, arrived, closed, clients, oom>>
    BY <2>1 DEF OtherThread, uv_listen, TrickBegin, TrickEnd, CallbackReturn
  <2> QED
    BY <1>7, <1>8, <1>9, <1>10, <1>11, <1>12, <1>13, <2>1 DEF Next, LoopStep

(***************************************************************************)
(* The initial states.                                                     *)
(***************************************************************************)
LEMMA InvInit == ASSUME BoundsAreNumbers, Init PROVE Inv
<1>1. /\ <<>> \in Seq(Fds) /\ Len(<<>>) = 0 /\ 1 .. 0 = {} /\ 1 .. Len(<<>>) = {}
  BY EmptySeq
<1>2. Held = {}
  <2>1. ToSet(queued_fds) = {}
    BY <1>1, EmptySeq, InQueue DEF Init
  <2> QED
    BY <2>1 DEF Held, Init
<1>3. Room = Limit - 1
  <2>1. Cardinality(Held) = 0
    BY <1>2, FS_EmptySet
  <2>2. others = 0 /\ emfile_fd /\ Limit \in Nat
    BY DEF Init, BoundsAreNumbers
  <2>3. (IF emfile_fd THEN 1 ELSE 0) = 1
    BY <2>2
  <2>4. Limit - (0 + 0 + 1) = Limit - 1
    BY <2>2
  <2> QED
    BY <2>1, <2>2, <2>3, <2>4 DEF Room
<1>4. TypeOK
  <2>1. /\ pollin \in BOOLEAN /\ emfile_fd \in BOOLEAN
        /\ grabbed \in BOOLEAN /\ failedLate \in BOOLEAN /\ oom \in BOOLEAN
    BY Zenon DEF Init
  <2>2. /\ hstate = "idle" /\ pc = "loop" /\ accepted_fd = None
        /\ queued_fds \in Seq(Fds) /\ pending \in Seq(Fds)
    BY <1>1 DEF Init
  <2>3. Room \in 0 .. Limit
    BY <1>3 DEF BoundsAreNumbers
  <2> QED
    BY <2>1, <2>2, <2>3 DEF TypeOK
<1>5. ControlInv
  BY DEF ControlInv, Init, BoundsAreNumbers
<1>6. OrderInv
  BY <1>1 DEF OrderInv, Init, None
<1>7. PlaceInv
  BY <1>1 DEF PlaceInv, Init
<1> QED
  BY <1>4, <1>5, <1>6, <1>7
     DEF Inv, Init, OneAtATime, StillListening, SpareComesBack

(***************************************************************************)
(* Every step keeps the invariant.                                         *)
(***************************************************************************)
LEMMA InvNext == ASSUME BoundsAreNumbers, Inv, [Next]_vars PROVE Inv'
<1>1. CASE Next
  BY <1>1, ControlNext, OrderNext, PlaceNext DEF Inv
<1>2. CASE UNCHANGED vars
  <2>1. TypeOK'
    BY <1>2 DEF Inv, TypeOK, vars, Room, Held
  <2>2. ControlInv' /\ OrderInv'
    BY <1>2 DEF Inv, ControlInv, OrderInv, vars, Room, Held
  <2>3. PlaceInv'
    BY <1>2 DEF Inv, PlaceInv, Waits, vars
  <2>4. OneAtATime' /\ StillListening' /\ SpareComesBack'
    BY <1>2 DEF Inv, OneAtATime, StillListening, SpareComesBack, vars
  <2> QED
    BY <2>1, <2>2, <2>3, <2>4 DEF Inv
<1> QED
  BY <1>1, <1>2

(***************************************************************************)
(* The invariant holds throughout.                                         *)
(***************************************************************************)
THEOREM InvHolds == ASSUME BoundsAreNumbers PROVE Spec => []Inv
<1>1. Init => Inv
  BY InvInit
<1>2. Inv /\ [Next]_vars => Inv'
  BY InvNext
<1> QED
  BY <1>1, <1>2, PTL DEF Spec

(***************************************************************************)
(* Type correctness; the part that says something is that the process      *)
(* never holds more descriptors than it may, whatever the other threads    *)
(* take.                                                                   *)
(***************************************************************************)
THEOREM TypeCorrect == ASSUME BoundsAreNumbers PROVE Spec => []TypeOK
<1>1. Inv => TypeOK
  BY DEF Inv
<1> QED
  BY <1>1, InvHolds, PTL

(***************************************************************************)
(* A sequence in order, put before another whose elements are all larger.  *)
(***************************************************************************)
LEMMA RowInOrder ==
  ASSUME NEW s \in Seq(Nat), NEW t \in Seq(Nat),
         \A i, j \in 1 .. Len(s) : i < j => s[i] < s[j],
         \A i, j \in 1 .. Len(t) : i < j => t[i] < t[j],
         \A i \in 1 .. Len(s), j \in 1 .. Len(t) : s[i] < t[j]
  PROVE  /\ s \o t \in Seq(Nat)
         /\ \A i \in 1 .. Len(s \o t) :
              \/ \E j \in 1 .. Len(s) : (s \o t)[i] = s[j]
              \/ \E j \in 1 .. Len(t) : (s \o t)[i] = t[j]
         /\ \A i, j \in 1 .. Len(s \o t) : i < j => (s \o t)[i] < (s \o t)[j]
<1> DEFINE r == s \o t
<1>1. /\ r \in Seq(Nat) /\ Len(r) = Len(s) + Len(t)
      /\ \A i \in 1 .. Len(s) + Len(t) :
           r[i] = IF i <= Len(s) THEN s[i] ELSE t[i - Len(s)]
      /\ Len(s) \in Nat /\ Len(t) \in Nat
  BY ConcatProperties, LenProperties
<1> HIDE DEF r
<1>2. ASSUME NEW i \in 1 .. Len(r)
      PROVE  \/ i \in 1 .. Len(s) /\ r[i] = s[i]
             \/ /\ i - Len(s) \in 1 .. Len(t) /\ i > Len(s)
                /\ r[i] = t[i - Len(s)]
  BY <1>1
<1>3. ASSUME NEW i \in 1 .. Len(r), NEW j \in 1 .. Len(r), i < j
      PROVE  r[i] < r[j]
  <2>1. CASE j \in 1 .. Len(s)
    <3>1. i \in 1 .. Len(s)
      BY <1>1, <1>3, <2>1
    <3>2. r[i] = s[i] /\ r[j] = s[j]
      BY <1>1, <2>1, <3>1
    <3> QED
      BY <1>3, <2>1, <3>1, <3>2
  <2>2. CASE j \notin 1 .. Len(s) /\ i \in 1 .. Len(s)
    <3>1. r[i] = s[i] /\ j - Len(s) \in 1 .. Len(t) /\ r[j] = t[j - Len(s)]
      BY <1>1, <2>2
    <3> QED
      BY <2>2, <3>1
  <2>3. CASE i \notin 1 .. Len(s)
    <3>1. j \notin 1 .. Len(s) /\ i - Len(s) < j - Len(s)
      BY <1>1, <1>3, <2>3
    <3>2. /\ i - Len(s) \in 1 .. Len(t) /\ r[i] = t[i - Len(s)]
          /\ j - Len(s) \in 1 .. Len(t) /\ r[j] = t[j - Len(s)]
      BY <1>2, <2>3, <3>1
    <3> QED
      BY <3>1, <3>2
  <2> QED
    BY <2>1, <2>2, <2>3
<1>4. \A i \in 1 .. Len(r) : \/ \E j \in 1 .. Len(s) : r[i] = s[j]
                             \/ \E j \in 1 .. Len(t) : r[i] = t[j]
  BY <1>2
<1> QED
  BY <1>1, <1>3, <1>4 DEF r

(***************************************************************************)
(* uv_accept hands descriptors out in the order of their arrival.          *)
(***************************************************************************)
THEOREM InOrder == ASSUME BoundsAreNumbers PROVE Spec => []AcceptedInOrder
<1>1. ASSUME BoundsAreNumbers, Inv
      PROVE  AcceptedInOrder
  <2> DEFINE a == IF accepted_fd = None THEN <<>> ELSE <<accepted_fd>>
  <2>1. /\ accepted_fd \in Nat /\ OrderInv
        /\ queued_fds \in Seq(Fds) /\ pending \in Seq(Fds)
        /\ Fds \subseteq Nat
    BY <1>1, Numbers DEF Inv, TypeOK, Fds
  <2>2. queued_fds \in Seq(Nat) /\ pending \in Seq(Nat)
    <3>1. ASSUME NEW q \in Seq(Fds)
          PROVE  q \in Seq(Nat)
      BY <2>1, <3>1, SeqMonotonic
    <3> QED
      BY <2>1, <3>1
  <2>3. /\ a \in Seq(Nat) /\ Len(a) \in {0, 1}
        /\ \A i \in 1 .. Len(a) : i = 1 /\ a[i] = accepted_fd
    BY <2>1
  <2> HIDE DEF a
  <2>4. /\ \A i, j \in 1 .. Len(a) : i < j => a[i] < a[j]
        /\ \A i \in 1 .. Len(a), j \in 1 .. Len(queued_fds) : a[i] < queued_fds[j]
        /\ \A i, j \in 1 .. Len(queued_fds) : i < j => queued_fds[i] < queued_fds[j]
    BY <2>1, <2>3 DEF OrderInv
  <2>5. /\ \A i \in 1 .. Len(a), j \in 1 .. Len(pending) : a[i] < pending[j]
        /\ \A i, j \in 1 .. Len(pending) : i < j => pending[i] < pending[j]
        /\ \A i \in 1 .. Len(queued_fds), j \in 1 .. Len(pending) :
             queued_fds[i] < pending[j]
    BY <2>1, <2>3 DEF OrderInv
  <2> DEFINE w == a \o queued_fds
  <2>6. /\ w \in Seq(Nat)
        /\ \A i, j \in 1 .. Len(w) : i < j => w[i] < w[j]
        /\ \A i \in 1 .. Len(w) : \/ \E j \in 1 .. Len(a) : w[i] = a[j]
                                  \/ \E j \in 1 .. Len(queued_fds) : w[i] = queued_fds[j]
    <3>1. a \in Seq(Nat) /\ queued_fds \in Seq(Nat)
      BY <2>2, <2>3
    <3> QED
      BY ONLY <2>4, <3>1, RowInOrder DEF w
  <2> HIDE DEF w
  <2>7. \A i \in 1 .. Len(w), j \in 1 .. Len(pending) : w[i] < pending[j]
    BY <2>5, <2>6
  <2>8. \A i, j \in 1 .. Len(w \o pending) : i < j => (w \o pending)[i] < (w \o pending)[j]
    <3>1. w \in Seq(Nat) /\ pending \in Seq(Nat)
      BY <2>2, <2>6
    <3> QED
      BY ONLY <2>5, <2>6, <2>7, <3>1, RowInOrder
  <2> QED
    BY <2>8 DEF AcceptedInOrder, w, a
<1> QED
  BY <1>1, InvHolds, PTL

(***************************************************************************)
(* Two disjoint finite sets together.                                      *)
(***************************************************************************)
LEMMA Together ==
  ASSUME NEW S, IsFiniteSet(S), NEW T, IsFiniteSet(T), S \cap T = {}
  PROVE  /\ IsFiniteSet(S \cup T)
         /\ Cardinality(S) \in Nat /\ Cardinality(T) \in Nat
         /\ Cardinality(S \cup T) = Cardinality(S) + Cardinality(T)
<1>1. /\ IsFiniteSet(S \cup T)
      /\ Cardinality(S \cup T) = Cardinality(S) + Cardinality(T) - Cardinality(S \cap T)
  BY FS_Union
<1>2. Cardinality(S \cap T) = 0
  BY FS_EmptySet
<1>3. Cardinality(S) \in Nat /\ Cardinality(T) \in Nat
  BY FS_CardinalityType
<1> QED
  BY <1>1, <1>2, <1>3

(***************************************************************************)
(* The numbers up to n.                                                    *)
(***************************************************************************)
LEMMA UpTo ==
  ASSUME NEW n \in Nat
  PROVE  IsFiniteSet(1 .. n) /\ Cardinality(1 .. n) = n
<1>1. /\ IsFiniteSet(1 .. n)
      /\ Cardinality(1 .. n) = IF 1 > n THEN 0 ELSE n - 1 + 1
  BY FS_Interval
<1> QED
  BY <1>1

(***************************************************************************)
(* Every descriptor that arrived is in one place, and none is counted      *)
(* twice, unless the queue could not grow.                                 *)
(***************************************************************************)
THEOREM FdsAreKept == ASSUME BoundsAreNumbers PROVE Spec => []NoFdIsLost
<1>1. ASSUME BoundsAreNumbers, Inv
      PROVE  NoFdIsLost
  <2> SUFFICES ASSUME ~oom
               PROVE  /\ ToSet(pending) \cup (Held \ clients) \cup clients \cup closed
                           = 1 .. arrived
                      /\ Len(pending) + Cardinality(Held \ clients)
                           + Cardinality(clients) + Cardinality(closed) = arrived
    BY DEF NoFdIsLost
  <2> DEFINE P == ToSet(pending)
             W == Held \ clients
             f == [i \in 1 .. Len(pending) |-> pending[i]]
  <2>1. /\ arrived \in Nat /\ accepted_fd \in Nat
        /\ Len(queued_fds) \in Nat /\ Len(pending) \in Nat
        /\ \A i \in 1 .. Len(queued_fds) :
             queued_fds[i] \in Nat /\ queued_fds[i] >= 1
        /\ \A i \in 1 .. Len(pending) : pending[i] \in Nat /\ pending[i] >= 1
    BY <1>1, Numbers DEF Inv
  <2>2. OrderInv /\ PlaceInv
    BY <1>1 DEF Inv
  <2>3. \A x : x \in P <=> \E i \in 1 .. Len(pending) : pending[i] = x
    BY <1>1, InQueue DEF Inv, TypeOK
  <2>4. \A x : x \in W <=> \/ x = accepted_fd /\ x # None
                           \/ \E i \in 1 .. Len(queued_fds) : queued_fds[i] = x
    <3>1. \A x : x \in Held <=> \/ x = accepted_fd /\ x # None
                                \/ \E i \in 1 .. Len(queued_fds) : queued_fds[i] = x
                                \/ x \in clients
      BY <1>1, HeldFacts DEF Inv
    <3>2. \A x \in clients : /\ x # accepted_fd
                             /\ ~\E i \in 1 .. Len(queued_fds) : queued_fds[i] = x
      BY <2>2 DEF PlaceInv, Waits
    <3> QED
      BY <3>1, <3>2
  <2>5. \A x : Waits(x) /\ x # None <=> x \in P \cup W
    <3>1. \A i \in 1 .. Len(queued_fds) : queued_fds[i] # None
      BY <2>1 DEF None
    <3>2. \A i \in 1 .. Len(pending) : pending[i] # None
      BY <2>1 DEF None
    <3> QED
      BY <2>3, <2>4, <3>1, <3>2 DEF Waits
  <2> HIDE DEF W
  <2>6. P \cup W \subseteq 1 .. arrived
    BY <2>1, <2>2, <2>3, <2>4 DEF OrderInv, None
  <2>7. P \cap W = {}
    <3>1. ASSUME NEW i \in 1 .. Len(pending)
          PROVE  pending[i] \notin W
      <4>1. /\ accepted_fd < pending[i] /\ pending[i] \in Nat
            /\ \A j \in 1 .. Len(queued_fds) : queued_fds[j] < pending[i]
        BY <2>1, <2>2 DEF OrderInv
      <4>2. /\ pending[i] # accepted_fd
            /\ \A j \in 1 .. Len(queued_fds) : queued_fds[j] # pending[i]
        BY <2>1, <4>1
      <4> QED
        BY <2>4, <4>2
    <3> QED
      BY <2>3, <3>1
  <2>8. /\ (P \cup W) \cap clients = {} /\ (P \cup W \cup clients) \cap closed = {}
    BY <2>2, <2>5 DEF PlaceInv
  <2>9. P \cup W \cup clients \cup closed = 1 .. arrived
    <3>1. \A x \in 1 .. arrived : x # None
      BY DEF None
    <3>2. \A x \in 1 .. arrived : x \in clients \cup closed \/ x \in P \cup W
      BY <2>2, <2>5, <3>1 DEF PlaceInv
    <3> QED
      BY <2>2, <2>6, <3>2 DEF PlaceInv
  <2>10. /\ IsFiniteSet(1 .. arrived) /\ Cardinality(1 .. arrived) = arrived
         /\ IsFiniteSet(1 .. Len(pending))
         /\ Cardinality(1 .. Len(pending)) = Len(pending)
    BY <2>1, UpTo
  <2>11. Cardinality(P) = Len(pending)
    <3>1. f \in Bijection(1 .. Len(pending), P)
      <4>1. f \in [1 .. Len(pending) -> P] /\ \A x \in P : \E i \in 1 .. Len(pending) : f[i] = x
        BY <2>3
      <4>2. ASSUME NEW i \in 1 .. Len(pending), NEW j \in 1 .. Len(pending), f[i] = f[j]
            PROVE  i = j
        <5>1. /\ pending[i] = pending[j] /\ pending[i] \in Nat /\ pending[j] \in Nat
              /\ i < j => pending[i] < pending[j]
              /\ j < i => pending[j] < pending[i]
          BY <2>1, <2>2, <4>2 DEF OrderInv
        <5> QED
          BY <2>1, <5>1
      <4> HIDE DEF f
      <4>3. f \in Injection(1 .. Len(pending), P)
        BY <4>1, <4>2 DEF Injection, IsInjective
      <4>4. f \in Surjection(1 .. Len(pending), P)
        BY <4>1 DEF Surjection
      <4> QED
        BY <4>3, <4>4 DEF Bijection
    <3> QED
      BY <2>10, <3>1, FS_Bijection DEF ExistsBijection
  <2> HIDE DEF P
  <2>12. IsFiniteSet(P) /\ IsFiniteSet(W) /\ IsFiniteSet(clients) /\ IsFiniteSet(closed)
    <3>1. P \in SUBSET (1 .. arrived) /\ W \in SUBSET (1 .. arrived)
      BY <2>6
    <3>2. clients \in SUBSET (1 .. arrived) /\ closed \in SUBSET (1 .. arrived)
      BY <2>2 DEF PlaceInv
    <3> QED
      BY <2>10, <3>1, <3>2, FS_Subset
  <2>13. /\ IsFiniteSet(P \cup W)
         /\ Cardinality(P) \in Nat /\ Cardinality(W) \in Nat
         /\ Cardinality(P \cup W) = Cardinality(P) + Cardinality(W)
    BY <2>7, <2>12, Together
  <2>14. /\ IsFiniteSet(P \cup W \cup clients) /\ Cardinality(clients) \in Nat
         /\ Cardinality(P \cup W \cup clients) = Cardinality(P \cup W) + Cardinality(clients)
    BY <2>8, <2>12, <2>13, Together
  <2>15. /\ Cardinality(closed) \in Nat
         /\ Cardinality(P \cup W \cup clients \cup closed)
              = Cardinality(P \cup W \cup clients) + Cardinality(closed)
    BY <2>8, <2>12, <2>14, Together
  <2>16. Len(pending) + Cardinality(W) + Cardinality(clients) + Cardinality(closed) = arrived
    BY <2>9, <2>10, <2>11, <2>13, <2>14, <2>15
  <2> QED
    BY <2>9, <2>16 DEF P, W
<1> QED
  BY <1>1, InvHolds, PTL

(***************************************************************************)
(* The assertion of uv__server_io: no connection is taken while one waits. *)
(***************************************************************************)
THEOREM TakesOneAtATime == ASSUME BoundsAreNumbers PROVE Spec => []OneAtATime
<1>1. Inv => OneAtATime
  BY DEF Inv
<1> QED
  BY <1>1, InvHolds, PTL

(***************************************************************************)
(* A listening stream with nothing to accept watches its socket, unless    *)
(* uv_accept failed outside the callback.                                  *)
(***************************************************************************)
THEOREM KeepsListening == ASSUME BoundsAreNumbers PROVE Spec => []StillListening
<1>1. Inv => StillListening
  BY DEF Inv
<1> QED
  BY <1>1, InvHolds, PTL

(***************************************************************************)
(* The spare descriptor is open again after every use, unless another      *)
(* thread took a descriptor while it was given up.                         *)
(***************************************************************************)
THEOREM SpareIsBack == ASSUME BoundsAreNumbers PROVE Spec => []SpareComesBack
<1>1. Inv => SpareComesBack
  BY DEF Inv
<1> QED
  BY <1>1, InvHolds, PTL
=============================================================================
