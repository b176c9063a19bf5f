---------------------------- MODULE ForkPingPong ----------------------------
(***************************************************************************)
(* myCore/fork/fork.c: parent and child pass a byte to and fro through two *)
(* pipes to time context switches.  Neither process closes the pipe ends   *)
(* it does not use, so that a read of an empty pipe blocks for ever, even  *)
(* when the other process is gone: there is never an end of file.  The     *)
(* loops ignore what read and write return; no signal handler is           *)
(* installed, so neither call is interrupted.                              *)
(***************************************************************************)
EXTENDS Integers

CONSTANTS
  Rounds,        \* the 10000 of both loops
  PipeCapacity   \* bytes a pipe holds before write blocks (external)

ASSUME RoundsNat == Rounds \in Nat
ASSUME PipeCapacityPositive == PipeCapacity \in Nat \ {0}

VARIABLES
  fd, p,           \* the bytes in the pipe to the child, to the parent
  parent, child,   \* where each process is
  iParent, iChild  \* the loop counter i of each process

vars == <<fd, p, parent, child, iParent, iChild>>

Init ==
  /\ fd = 0
  /\ p = 0
  /\ parent = "fork"
  /\ child = "none"
  /\ iParent = 0
  /\ iChild = 0

\* fork is repeated until it succeeds; then each process has its own i.
Fork ==
  /\ parent = "fork"
  /\ parent' = "write"
  /\ child' = "read"
  /\ UNCHANGED <<fd, p, iParent, iChild>>

ParentWrite ==
  /\ parent = "write"
  /\ iParent < Rounds
  /\ fd < PipeCapacity
  /\ fd' = fd + 1
  /\ parent' = "read"
  /\ UNCHANGED <<p, child, iParent, iChild>>

\* Mutant: the parent does not wait for the answer.
ParentReadUnchecked ==
  /\ parent = "read"
  /\ p' = p - 1
  /\ iParent' = iParent + 1
  /\ parent' = "write"
  /\ UNCHANGED <<fd, child, iChild>>

ParentRead ==
  /\ parent = "read"
  /\ p > 0
  /\ p' = p - 1
  /\ iParent' = iParent + 1
  /\ parent' = "write"
  /\ UNCHANGED <<fd, child, iChild>>

ParentReturn ==
  /\ parent = "write"
  /\ iParent = Rounds
  /\ parent' = "done"
  /\ UNCHANGED <<fd, p, child, iParent, iChild>>

\* Mutant: the child reads with O_NONBLOCK and ignores that nothing came.
ChildReadNonblocking ==
  /\ child = "read"
  /\ iChild < Rounds
  /\ fd' = IF fd > 0 THEN fd - 1 ELSE fd
  /\ child' = "write"
  /\ UNCHANGED <<p, parent, iParent, iChild>>

ChildRead ==
  /\ child = "read"
  /\ iChild < Rounds
  /\ fd > 0
  /\ fd' = fd - 1
  /\ child' = "write"
  /\ UNCHANGED <<p, parent, iParent, iChild>>

\* Mutant: the child leaves its loop without the last write.
ChildWriteNotLast ==
  /\ child = "write"
  /\ p < PipeCapacity
  /\ p' = IF iChild + 1 < Rounds THEN p + 1 ELSE p
  /\ iChild' = iChild + 1
  /\ child' = "read"
  /\ UNCHANGED <<fd, parent, iParent>>

ChildWrite ==
  /\ child = "write"
  /\ p < PipeCapacity
  /\ p' = p + 1
  /\ iChild' = iChild + 1
  /\ child' = "read"
  /\ UNCHANGED <<fd, parent, iParent>>

ChildExit ==
  /\ child = "read"
  /\ iChild = Rounds
  /\ child' = "done"
  /\ UNCHANGED <<fd, p, parent, iParent, iChild>>

Parent == Fork \/ ParentWrite \/ ParentRead \/ ParentReturn
Child == ChildRead \/ ChildWrite \/ ChildExit

Next == Parent \/ Child

Spec == Init /\ [][Next]_vars

\* Both processes are scheduled, and fork succeeds in the end.
FairSpec == Spec /\ WF_vars(Parent) /\ WF_vars(Child)

-----------------------------------------------------------------------------
(* Properties.                                                             *)

(***************************************************************************)
(* Type invariant: pipes within their capacity, counters within the loop.  *)
(***************************************************************************)
TypeOK ==
  /\ fd \in 0 .. PipeCapacity
  /\ p \in 0 .. PipeCapacity
  /\ parent \in {"fork", "write", "read", "done"}
  /\ child \in {"none", "read", "write", "done"}
  /\ iParent \in 0 .. Rounds
  /\ iChild \in 0 .. Rounds

(***************************************************************************)
(* What the measurement rests on: one byte goes round.  While the parent   *)
(* waits, the byte is in one of the pipes or in the hands of the child,    *)
(* and otherwise nowhere; the child is ahead of the parent by exactly the  *)
(* answer the parent has not read yet.                                     *)
(***************************************************************************)
OneByteGoesRound ==
  /\ fd + p + (IF child = "write" THEN 1 ELSE 0)
       = IF parent = "read" THEN 1 ELSE 0
  /\ iChild = iParent + p

(***************************************************************************)
(* Liveness: both processes leave their loops and end.                     *)
(***************************************************************************)
BothEnd == <>(parent = "done" /\ child = "done")
=============================================================================
