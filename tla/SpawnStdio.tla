----------------------------- MODULE SpawnStdio -----------------------------
(***************************************************************************)
(* The descriptors of uv_spawn (src/unix/process.c): the parent makes a    *)
(* socket pair for every UV_CREATE_PIPE, the child moves what it is given  *)
(* to 0 .. stdio_count - 1 and executes the program, and the parent opens  *)
(* its ends as streams or cleans up.  The child does the work itself after *)
(* a fork, or, on macOS, has posix_spawn do it from a list of actions.     *)
(*                                                                         *)
(* An open file is named by the number it has in the parent at the fork.   *)
(***************************************************************************)
EXTENDS Integers, FiniteSets, FiniteSetsExt, FiniteSetTheorems, SequenceTheorems,
        WellFoundedInduction, TLAPS

CONSTANTS
  Count,       \* stdio_count, at least 3
  MaxFd,       \* bound: descriptors are 0 .. MaxFd
  ParentFds    \* open in the parent before the call

Stdio == 0 .. Count - 1
Fds == 0 .. MaxFd
Null == MaxFd + 1      \* the file /dev/null
Closed == -1

VARIABLES
  how,         \* "fork" or "posix_spawn"
  flags,       \* of each container: "ignore", "pipe" or "inherit"
  pipes,       \* pipes[i][1], pipes[i][2]: the parent's and the child's end
  open,        \* descriptors open in the parent
  streams,     \* descriptors that belong to the user's streams
  failed,      \* a step of uv_spawn has failed
  wanted,      \* history: pipes[i][2] at the fork
  error_fd,
  file,        \* of the child: the file behind each descriptor
  cloexec,     \* of the child: descriptors that exec closes
  i, pc

parent == <<flags, open, streams, failed>>
child == <<file, cloexec>>
vars == <<how, parent, pipes, wanted, error_fd, child, i, pc>>

Init ==
  /\ how \in {"fork", "posix_spawn"}
  /\ flags = [k \in Stdio |-> "ignore"]
  /\ pipes = [k \in Stdio |-> <<-1, -1>>]
  /\ open = ParentFds /\ streams = {} /\ failed = FALSE
  /\ wanted = [k \in Stdio |-> -1] /\ error_fd = -1
  /\ file = [d \in Fds |-> Closed] /\ cloexec = {}
  /\ i = 0 /\ pc = "stdio"

Lowest(set) == Min(set)
Free(set) == Fds \ set

-----------------------------------------------------------------------------
(* uv_spawn, before the fork.                                              *)

Goto(label) == pc' = label /\ i' = 0

Advance(label) == IF i + 1 < Count THEN i' = i + 1 /\ UNCHANGED pc ELSE Goto(label)

\* uv__process_init_stdio for container i.
InitStdio ==
  /\ pc = "stdio"
  /\ \/ /\ UNCHANGED <<flags, pipes, open, failed>> /\ Advance("fork")
     \/ LET a == Lowest(Free(open)) b == Lowest(Free(open \cup {a})) IN
        /\ flags' = [flags EXCEPT ![i] = "pipe"]
        /\ pipes' = [pipes EXCEPT ![i] = <<a, b>>]
        /\ open' = open \cup {a, b}
        /\ UNCHANGED failed /\ Advance("fork")
     \/ \E d \in ParentFds :
        /\ flags' = [flags EXCEPT ![i] = "inherit"]
        /\ pipes' = [pipes EXCEPT ![i] = <<-1, d>>]
        /\ UNCHANGED <<open, failed>> /\ Advance("fork")
     \/ \E g \in {"pipe", "inherit"} :   \* EINVAL, or no descriptor left
        /\ flags' = [flags EXCEPT ![i] = g]
        /\ failed' = TRUE /\ Goto("cleanup") /\ UNCHANGED <<pipes, open>>
  /\ UNCHANGED <<how, streams, wanted, error_fd, child>>

\* The pipe for errors of the child and the fork; descriptors above the
\* standard ones are close-on-exec, with posix_spawn all of them.
Fork ==
  /\ pc = "fork"
  /\ LET r == Lowest(Free(open)) w == Lowest(Free(open \cup {r})) IN
     /\ error_fd' = IF how = "fork" THEN w ELSE -1
     /\ file' = [d \in Fds |-> IF d \in open \/ (how = "fork" /\ d \in {r, w})
                               THEN d ELSE Closed]
  /\ cloexec' = IF how = "fork" THEN Fds \ (0 .. 2) ELSE Fds
  /\ wanted' = [k \in Stdio |-> pipes[k][2]]
  /\ Goto("predup")
  /\ UNCHANGED <<how, parent, pipes>>

-----------------------------------------------------------------------------
(* uv__process_child_init, and the actions of posix_spawn.                 *)

\* fcntl(F_DUPFD_CLOEXEC, stdio_count)
DupFd == Lowest({d \in Fds : d >= Count /\ file[d] = Closed})

\* The loop over fd2: the first descriptor above that no pipes entry uses.
\* It starts again at 1, not at 0, when it has met one.
UnusedFd ==
  Lowest({d \in Fds : /\ d >= Count
                      /\ \A k \in Stdio \ {0} : pipes[k][2] # d
                      /\ pipes[0][2] = d => d > Count})

\* Mutant: a low descriptor is used where it is.
IsLowNever(k) == FALSE

\* The source of container k would be replaced before its turn.
IsLow(k) == pipes[k][2] >= 0 /\ pipes[k][2] < k

PreDup ==
  /\ pc = "predup"
  /\ IF IsLow(i)
     THEN LET d == IF how = "fork" THEN DupFd ELSE UnusedFd IN
          /\ file' = [file EXCEPT ![d] = file[pipes[i][2]]]
          /\ pipes' = [pipes EXCEPT ![i][2] = d]
          /\ cloexec' = cloexec \cup {d}
     ELSE UNCHANGED <<child, pipes>>
  /\ Advance("move")
  /\ UNCHANGED <<how, parent, wanted, error_fd>>

InPlace(k) == cloexec \ {k}

\* Container i: /dev/null for an ignored standard one, the descriptor stays
\* where it is, or dup2.  (The program's own stdio is made blocking.)
Move ==
  /\ pc = "move"
  /\ LET use == pipes[i][2] IN
     \/ /\ use < 0 /\ i >= 3
        /\ UNCHANGED child
     \/ /\ use < 0 /\ i < 3
        /\ file' = [file EXCEPT ![i] = Null] /\ cloexec' = cloexec \ {i}
     \/ /\ use = i
        /\ cloexec' = InPlace(i) /\ UNCHANGED file
     \/ /\ use >= 0 /\ use # i
        /\ file' = [file EXCEPT ![i] = file[use]] /\ cloexec' = cloexec \ {i}
  /\ Advance("exec")
  /\ UNCHANGED <<how, parent, pipes, wanted, error_fd>>

-----------------------------------------------------------------------------
(* uv_spawn in the parent, after the fork.                                 *)

\* After a fork the parent still has its own pipes; posix_spawn has changed
\* the one array there is.
Executed ==
  /\ pc = "exec"
  /\ pipes' = IF how = "fork" THEN [k \in Stdio |-> <<pipes[k][1], wanted[k]>>]
                              ELSE pipes
  /\ Goto("open")
  /\ UNCHANGED <<how, parent, wanted, error_fd, child>>

\* What uv__close takes: descriptors that are open and not standard ones.
Closable == open \ (0 .. 2)

\* uv__process_open_stream: the child's end is closed, or the process aborts,
\* and the other one becomes the user's; uv__stream_open may fail, and then
\* the streams before it are closed again.
OpenStream ==
  /\ pc = "open"
  /\ IF flags[i] # "pipe"
     THEN UNCHANGED <<open, streams, pipes, failed>> /\ Advance("done")
     ELSE IF pipes[i][2] \notin Closable
     THEN UNCHANGED <<open, streams, pipes, failed>> /\ Goto("aborted")
     ELSE /\ pipes' = [pipes EXCEPT ![i][2] = -1]
          /\ \/ /\ open' = open \ {pipes[i][2]}
                /\ streams' = streams \cup {pipes[i][1]}
                /\ UNCHANGED failed /\ Advance("done")
             \/ /\ open' = open \ (streams \cup {pipes[i][2]})
                /\ streams' = {} /\ failed' = TRUE
                /\ Goto("cleanup")
  /\ UNCHANGED <<how, flags, wanted, error_fd, child>>

\* Mutant: only the parent's ends are closed.
CleanedHalf == {pipes[k][1] : k \in {j \in Stdio : flags[j] # "inherit"}}

\* The error section: both ends, but not what is inherited.
Cleaned ==
  UNION {{pipes[k][1], pipes[k][2]} : k \in {j \in Stdio : flags[j] # "inherit"}}

Cleanup ==
  /\ pc = "cleanup"
  /\ open' = open \ Cleaned
  /\ Goto("done")
  /\ UNCHANGED <<how, flags, streams, failed, pipes, wanted, error_fd, child>>

-----------------------------------------------------------------------------
Next == InitStdio \/ Fork \/ PreDup \/ Move \/ Executed \/ OpenStream \/ Cleanup

Spec == Init /\ [][Next]_vars

-----------------------------------------------------------------------------
(* Properties.                                                             *)

\* posix_spawn: the entry of container 0 is the one UnusedFd overlooks.
Overlooked == how = "posix_spawn" /\ wanted[0] > Count

(***************************************************************************)
(* What the child executes with: every container's file is at its number   *)
(* and survives exec, also when numbers are swapped or used twice; an      *)
(* ignored standard descriptor is /dev/null; nothing else is inherited;    *)
(* and the pipe for errors is intact unless its own number is asked for.   *)
(* With posix_spawn this holds unless the file for descriptor 0 sits right *)
(* where uv__spawn_set_posix_spawn_file_actions puts its duplicates.       *)
(***************************************************************************)
StdioArrives ==
  pc = "exec" /\ ~Overlooked =>
    /\ \A k \in Stdio : flags[k] # "ignore" =>
         file[k] = wanted[k] /\ k \notin cloexec
    /\ \A k \in 0 .. 2 : flags[k] = "ignore" => file[k] = Null
    /\ \A d \in Fds \ cloexec : d \in Stdio /\ (d < 3 \/ flags[d] # "ignore")
    /\ error_fd >= Count => file[error_fd] = error_fd

\* posix_spawn: the child's end of a pipe was duplicated, and the parent then
\* closes the number of the duplicate.
Misplaced ==
  /\ how = "posix_spawn"
  /\ \E k \in Stdio : flags[k] = "pipe" /\ wanted[k] >= 0 /\ wanted[k] < k

(***************************************************************************)
(* When uv_spawn returns, of the descriptors it has made only those of the *)
(* user's streams are left, and it has closed none of the caller's: after  *)
(* every failure, in whichever container it happens. With posix_spawn this *)
(* holds unless uv__spawn_set_posix_spawn_file_actions has replaced the    *)
(* entry of a pipe, which needs a free descriptor below the container's.   *)
(***************************************************************************)
SpawnLeaksNothing ==
  pc = "done" /\ ~Misplaced => /\ open = ParentFds \cup streams
                               /\ failed => streams = {}

-----------------------------------------------------------------------------
(* Proofs, for any containers and any open descriptors.                     *)

(***************************************************************************)
(* What is asked of the caller: the three standard descriptors are open,   *)
(* and descriptors do not run out (that they do is an error like others,   *)
(* which InitStdio has anyway).                                            *)
(***************************************************************************)
Roomy(m) == ParentFds \subseteq 0 .. m /\ m + 3 * Count + 2 <= MaxFd

StdioBounds ==
  /\ Count \in Nat /\ Count >= 3 /\ MaxFd \in Nat
  /\ 0 .. 2 \subseteq ParentFds
  /\ \E m \in 0 .. MaxFd : Roomy(m)

\* Above all descriptors that are open before the call.
Top == CHOOSE m \in 0 .. MaxFd : Roomy(m)

TypeInv ==
  /\ how \in {"fork", "posix_spawn"}
  /\ flags \in [Stdio -> {"ignore", "pipe", "inherit"}]
  /\ pipes \in [Stdio -> (-1 .. MaxFd) \X (-1 .. MaxFd)]
  /\ wanted \in [Stdio -> -1 .. MaxFd]
  /\ file \in [Fds -> -1 .. MaxFd + 1]
  /\ cloexec \subseteq Fds /\ open \subseteq Fds
  /\ error_fd \in -1 .. MaxFd
  /\ i \in Stdio
  /\ pc \in {"stdio", "fork", "predup", "move", "exec", "open", "cleanup", "done", "aborted"}

\* The containers with a socket pair, and the pairs: descriptors the caller
\* does not have, all different. to is the child's end of each.
Made == {k \in Stdio : flags[k] = "pipe"}

Pairs(to) ==
  /\ \A k \in Made : /\ pipes[k][1] \in Fds \ ParentFds
                     /\ to[k] \in Fds \ ParentFds
                     /\ pipes[k][1] # to[k]
  /\ \A k, l \in Made : k # l => /\ pipes[k][1] # pipes[l][1]
                                 /\ to[k] # to[l] /\ pipes[k][1] # to[l]

Given == [k \in Stdio |-> pipes[k][2]]

\* Container by container, up to the fork.
Reached == IF pc = "stdio" THEN i ELSE Count

BeforeFork ==
  pc \in {"stdio", "fork"} =>
    /\ ~failed /\ streams = {}
    /\ \A k \in Stdio : /\ k >= Reached => flags[k] = "ignore"
                        /\ flags[k] = "ignore" => pipes[k] = <<-1, -1>>
                        /\ flags[k] = "inherit" => /\ pipes[k][1] = -1
                                                   /\ pipes[k][2] \in ParentFds
    /\ Pairs(Given)
    /\ open = ParentFds \cup {pipes[k][1] : k \in Made} \cup {pipes[k][2] : k \in Made}
    /\ open \subseteq 0 .. Top + 2 * Reached

\* What the fork leaves as it is, until the parent goes on.
AfterFork ==
  pc \in {"predup", "move", "exec"} =>
    /\ ~failed /\ streams = {}
    /\ \A k \in Stdio : /\ flags[k] = "ignore" => pipes[k][1] = -1
                        /\ flags[k] = "ignore" <=> wanted[k] = -1
                        /\ pipes[k][2] = -1 <=> wanted[k] = -1
                        /\ wanted[k] >= k => pipes[k][2] = wanted[k]
    /\ Pairs(wanted)
    /\ open = ParentFds \cup {pipes[k][1] : k \in Made} \cup {wanted[k] : k \in Made}

\* The child before and after the low descriptors are duplicated, and while
\* files are moved: what was given to a container is found where pipes says,
\* until it is in its place.
Duplicating ==
  pc = "predup" =>
    /\ \A k \in Stdio : k >= i => pipes[k][2] = wanted[k]
    /\ \A k \in Stdio : k < i => pipes[k][2] = -1 \/ pipes[k][2] >= k
    /\ \A k \in Stdio : pipes[k][2] <= Top + 2 * Count + 2 + i
    /\ \A d \in Fds : file[d] # Closed => d <= Top + 2 * Count + 2 + i
    /\ ~Overlooked => \A k \in Stdio : wanted[k] >= 0 => file[pipes[k][2]] = wanted[k]

Moving ==
  pc = "move" /\ ~Overlooked =>
    /\ \A k \in Stdio : pipes[k][2] = -1 \/ pipes[k][2] >= k
    /\ \A k \in Stdio : k >= i /\ wanted[k] >= 0 => file[pipes[k][2]] = wanted[k]
    /\ \A k \in Stdio : k < i /\ flags[k] # "ignore" => file[k] = wanted[k] /\ k \notin cloexec
    /\ \A k \in 0 .. 2 : k < i /\ flags[k] = "ignore" => file[k] = Null

ChildOnly ==
  pc \in {"predup", "move", "exec"} =>
    /\ \A d \in Fds \ cloexec : d \in Stdio /\ (d < 3 \/ flags[d] # "ignore")
    /\ how = "posix_spawn" => error_fd = -1
    /\ error_fd >= Count => file[error_fd] = error_fd

\* The parent opens its ends one after the other, or closes what is left.
Opening ==
  pc = "open" /\ ~Misplaced =>
    /\ ~failed
    /\ Pairs(wanted)
    /\ \A k \in Stdio : flags[k] = "ignore" => pipes[k][1] = -1 /\ pipes[k][2] = -1
    /\ \A k \in Made : pipes[k][2] = IF k < i THEN -1 ELSE wanted[k]
    /\ streams = {pipes[k][1] : k \in {j \in Made : j < i}}
    /\ open = ParentFds \cup {pipes[k][1] : k \in Made}
                        \cup {wanted[k] : k \in {j \in Made : j >= i}}

Cleaning ==
  pc = "cleanup" /\ ~Misplaced => open \ Cleaned = ParentFds /\ streams = {}

StdioInv ==
  /\ TypeInv /\ BeforeFork /\ AfterFork /\ Duplicating /\ Moving /\ ChildOnly
  /\ Opening /\ Cleaning /\ StdioArrives /\ SpawnLeaksNothing

(***************************************************************************)
(* A set of numbers has a least element.                                   *)
(***************************************************************************)
LEMMA LeastNat ==
  ASSUME NEW T \in SUBSET Nat, T # {}
  PROVE  \E n \in T : \A m \in T : n <= m
<1> DEFINE U == {0 .. m : m \in T}
           R == StrictSubsetOrdering(Nat)
           S == FiniteSubsetsOf(Nat)
<1>1. IsWellFoundedOn(R, S)
  BY FS_StrictSubsetOrderingWellFounded
<1>2. U \subseteq S /\ U # {}
  <2>1. \A m \in Nat : IsFiniteSet(0 .. m) /\ 0 .. m \in SUBSET Nat
    BY FS_Interval
  <2> QED
    BY <2>1 DEF FiniteSubsetsOf
<1> HIDE DEF U, R, S
<1>3. PICK x \in U : \A y \in U : ~ (<<y, x>> \in R)
  BY <1>1, <1>2, WFMin
<1> USE DEF U
<1>4. PICK n \in T : x = 0 .. n
  BY <1>3
<1>5. \A m \in T : n <= m
  <2> SUFFICES ASSUME NEW m \in T, m < n PROVE FALSE
    OBVIOUS
  <2>1. 0 .. m \in U /\ <<0 .. m, x>> \notin R
    BY <1>3
  <2>2. 0 .. m \subseteq 0 .. n /\ n \in 0 .. n /\ n \notin 0 .. m
    OBVIOUS
  <2>3. 0 .. m \in SUBSET Nat /\ 0 .. n \in SUBSET Nat
    OBVIOUS
  <2> QED
    BY <2>1, <2>2, <2>3, <1>4 DEF R, StrictSubsetOrdering
<1> QED
  BY <1>5

\* The free descriptor that the kernel takes is free, and no free one is
\* below it.
LEMMA LowestFd ==
  ASSUME NEW S \in SUBSET Nat, NEW x \in S
  PROVE  Lowest(S) \in S /\ Lowest(S) <= x
<1>1. PICK n \in S : \A m \in S : n <= m
  BY LeastNat
<1>2. Lowest(S) \in S /\ \A m \in S : Lowest(S) <= m
  BY <1>1 DEF Lowest, Min
<1> QED
  BY <1>2

\* There is room above Top for every descriptor that is made.
LEMMA TopFits ==
  ASSUME StdioBounds
  PROVE  /\ Top \in 2 .. MaxFd /\ Top + 3 * Count + 2 <= MaxFd
         /\ ParentFds \subseteq 0 .. Top
<1>1. Top \in 0 .. MaxFd /\ Roomy(Top)
  BY DEF StdioBounds, Top
<1> QED
  BY <1>1 DEF StdioBounds, Roomy

\* Before the call.
LEMMA StdioInit == StdioBounds /\ Init => StdioInv
<1> SUFFICES ASSUME StdioBounds, Init PROVE StdioInv
  OBVIOUS
<1> USE DEF StdioBounds, Init, Stdio, Fds, Closed
<1>1. ParentFds \subseteq 0 .. Top /\ Top \in 2 .. MaxFd
  BY TopFits
<1>2. TypeInv
  BY <1>1 DEF TypeInv
<1>3. BeforeFork
  <2>1. Made = {}
    BY DEF Made
  <2> QED
    BY <1>1, <2>1 DEF BeforeFork, Pairs, Reached
<1>4. AfterFork /\ Duplicating /\ Moving /\ ChildOnly
  BY DEF AfterFork, Duplicating, Moving, ChildOnly
<1>5. Opening /\ Cleaning /\ StdioArrives /\ SpawnLeaksNothing
  BY DEF Opening, Cleaning, StdioArrives, SpawnLeaksNothing
<1> QED
  BY <1>2, <1>3, <1>4, <1>5 DEF StdioInv

\* The pair for container n: two descriptors that are free.
LEMMA FreePair ==
  ASSUME StdioBounds, TypeInv, NEW n \in 0 .. Count, open \subseteq 0 .. Top + 2 * n,
         NEW a, a = Lowest(Free(open)),
         NEW b, b = Lowest(Free(open \cup {a}))
  PROVE  /\ a \in Fds \ open /\ a <= Top + 2 * n + 1
         /\ b \in Fds \ open /\ b <= Top + 2 * n + 2 /\ b # a
<1> USE DEF StdioBounds, Fds, Free
<1>1. Top \in Nat /\ Top + 2 * n + 2 <= MaxFd
  BY TopFits
<1>2. Free(open) \in SUBSET Nat /\ Top + 2 * n + 1 \in Free(open)
  BY <1>1
<1>3. a \in Fds \ open /\ a <= Top + 2 * n + 1
  BY <1>2, LowestFd
<1>4. Free(open \cup {a}) \in SUBSET Nat /\ Top + 2 * n + 2 \in Free(open \cup {a})
  BY <1>1, <1>3
<1>5. b \in Free(open \cup {a}) /\ b <= Top + 2 * n + 2
  BY <1>4, LowestFd
<1> QED
  BY <1>3, <1>5

\* Only the phase before the fork says something before the fork.
LEMMA StillBefore ==
  ASSUME TypeInv', pc' \in {"stdio", "fork"}, BeforeFork'
  PROVE  StdioInv'
BY DEF StdioInv, AfterFork, Duplicating, Moving, ChildOnly, Opening, Cleaning,
   StdioArrives, SpawnLeaksNothing

\* Only the error section says something of what is left to close.
LEMMA StillCleaning ==
  ASSUME TypeInv', pc' = "cleanup", Cleaning'
  PROVE  StdioInv'
BY DEF StdioInv, BeforeFork, AfterFork, Duplicating, Moving, ChildOnly, Opening,
   StdioArrives, SpawnLeaksNothing

\* A container is set up, or the set-up fails.
LEMMA InitStdioKeeps ==
  ASSUME StdioBounds, StdioInv, InitStdio
  PROVE  StdioInv'
<1> USE DEF StdioBounds, Stdio
<1>1. /\ TypeInv /\ pc = "stdio" /\ ~failed /\ streams = {} /\ i \in Stdio
      /\ Reached = i
  BY DEF StdioInv, TypeInv, BeforeFork, InitStdio, Reached
<1>2. /\ \A k \in Stdio : /\ k >= i => flags[k] = "ignore"
                          /\ flags[k] = "ignore" => pipes[k] = <<-1, -1>>
                          /\ flags[k] = "inherit" => /\ pipes[k][1] = -1
                                                     /\ pipes[k][2] \in ParentFds
      /\ Pairs(Given)
      /\ open = ParentFds \cup {pipes[k][1] : k \in Made} \cup {pipes[k][2] : k \in Made}
      /\ open \subseteq 0 .. Top + 2 * i
  BY <1>1 DEF StdioInv, BeforeFork
<1>3. /\ UNCHANGED <<how, streams, wanted, error_fd, file, cloexec>>
  BY DEF InitStdio, child
<1>4. ASSUME Advance("fork")
      PROVE  /\ pc' \in {"stdio", "fork"} /\ i' \in Stdio
             /\ Reached' = i + 1
  BY <1>1, <1>4 DEF Advance, Goto, Reached
<1>5. Top \in 2 .. MaxFd /\ ParentFds \subseteq 0 .. Top /\ ParentFds \subseteq Fds
  BY TopFits DEF Fds
<1>51. /\ 0 .. Top + 2 * i \subseteq 0 .. Top + 2 * (i + 1)
       /\ Top + 2 * i + 2 = Top + 2 * (i + 1)
       /\ i \in Nat /\ Top \in Nat
  <2>1. i \in Nat /\ Top \in Nat
    BY <1>1, <1>5
  <2> QED
    BY <2>1
<1>6. ASSUME UNCHANGED <<flags, pipes, open, failed>>, Advance("fork")
      PROVE  StdioInv'
  <2>1. TypeInv'
    BY <1>1, <1>3, <1>4, <1>6 DEF TypeInv
  <2>2. Pairs(Given)' /\ Made' = Made
    BY <1>2, <1>6 DEF Pairs, Given, Made
  <2>3. \A k \in Stdio : k >= i + 1 => k >= i
    BY <1>51
  <2>4. BeforeFork'
    BY <1>1, <1>2, <1>3, <1>4, <1>51, <1>6, <2>2, <2>3 DEF BeforeFork
  <2> QED
    BY <1>4, <1>6, <2>1, <2>4, StillBefore
<1>7. ASSUME NEW a, a = Lowest(Free(open)),
             NEW b, b = Lowest(Free(open \cup {a})),
             flags' = [flags EXCEPT ![i] = "pipe"],
             pipes' = [pipes EXCEPT ![i] = <<a, b>>],
             open' = open \cup {a, b},
             UNCHANGED failed, Advance("fork")
      PROVE  StdioInv'
  <2>1. /\ a \in Fds \ open /\ a <= Top + 2 * i + 1
        /\ b \in Fds \ open /\ b <= Top + 2 * i + 2 /\ b # a
    <3>1. i \in 0 .. Count
      BY <1>1
    <3> QED
      BY <3>1, <1>1, <1>2, <1>7, FreePair
  <2>2. /\ flags' \in [Stdio -> {"ignore", "pipe", "inherit"}]
        /\ \A k \in Stdio : flags'[k] = IF k = i THEN "pipe" ELSE flags[k]
    BY <1>1, <1>7 DEF TypeInv
  <2>3. /\ pipes' \in [Stdio -> (-1 .. MaxFd) \X (-1 .. MaxFd)]
        /\ \A k \in Stdio : pipes'[k] = IF k = i THEN <<a, b>> ELSE pipes[k]
    <3>1. pipes \in [Stdio -> (-1 .. MaxFd) \X (-1 .. MaxFd)]
      BY <1>1 DEF TypeInv
    <3>2. a \in -1 .. MaxFd /\ b \in -1 .. MaxFd
      BY <2>1 DEF Fds
    <3>3. <<a, b>> \in (-1 .. MaxFd) \X (-1 .. MaxFd)
      BY <3>2
    <3> QED
      BY <1>7, <3>1, <3>3
  <2>4. TypeInv'
    BY <1>1, <1>3, <1>4, <1>7, <2>1, <2>2, <2>3 DEF TypeInv
  <2>5. i \notin Made /\ Made' = Made \cup {i}
    BY <1>1, <1>2, <2>2 DEF Made
  <2>6. /\ \A k \in Made : /\ pipes[k][1] \in open /\ pipes[k][2] \in open
                           /\ pipes'[k] = pipes[k]
        /\ pipes'[i][1] = a /\ pipes'[i][2] = b
    <3>1. \A k \in Made : k \in Stdio /\ k # i
      BY <2>5 DEF Made
    <3>2. \A k \in Made : pipes[k][1] \in open /\ pipes[k][2] \in open
      BY <1>2
    <3>3. pipes'[i] = <<a, b>>
      BY <1>1, <2>3
    <3>4. \A k \in Made : pipes'[k] = pipes[k]
      BY <2>3, <3>1
    <3> QED
      BY <3>2, <3>3, <3>4
  <2>7. Pairs(Given)'
    <3>1. \A k \in Made' : /\ pipes'[k][1] \in Fds \ ParentFds
                           /\ pipes'[k][2] \in Fds \ ParentFds
                           /\ pipes'[k][1] # pipes'[k][2]
      BY <1>2, <2>1, <2>5, <2>6 DEF Pairs, Given, Made
    <3>2. \A k, l \in Made' : k # l => /\ pipes'[k][1] # pipes'[l][1]
                                       /\ pipes'[k][2] # pipes'[l][2]
                                       /\ pipes'[k][1] # pipes'[l][2]
      BY <1>2, <2>1, <2>5, <2>6 DEF Pairs, Given, Made
    <3> QED
      BY <3>1, <3>2 DEF Pairs, Given, Made
  <2>8. open' = ParentFds \cup {pipes'[k][1] : k \in Made'} \cup {pipes'[k][2] : k \in Made'}
    <3>1. {pipes'[k][1] : k \in Made'} = {pipes[k][1] : k \in Made} \cup {a}
      BY <2>5, <2>6
    <3>2. {pipes'[k][2] : k \in Made'} = {pipes[k][2] : k \in Made} \cup {b}
      BY <2>5, <2>6
    <3> QED
      BY <1>2, <1>7, <3>1, <3>2
  <2>9. open' \subseteq 0 .. Top + 2 * (i + 1)
    <3>1. a \in Nat /\ b \in Nat
      BY <2>1 DEF Fds
    <3>2. a \in 0 .. Top + 2 * (i + 1) /\ b \in 0 .. Top + 2 * (i + 1)
      BY <2>1, <3>1, <1>51
    <3> QED
      BY <1>2, <1>51, <1>7, <3>2
  <2>12. \A k \in Stdio : k >= i + 1 => k >= i /\ k # i
    BY <1>51
  <2>10. \A k \in Stdio : /\ k >= i + 1 => flags'[k] = "ignore"
                          /\ flags'[k] = "ignore" => pipes'[k] = <<-1, -1>>
                          /\ flags'[k] = "inherit" => /\ pipes'[k][1] = -1
                                                      /\ pipes'[k][2] \in ParentFds
    BY <1>2, <2>2, <2>3, <2>12
  <2>11. BeforeFork'
    BY <1>1, <1>3, <1>4, <1>7, <2>7, <2>8, <2>9, <2>10 DEF BeforeFork
  <2> QED
    BY <1>4, <1>7, <2>4, <2>11, StillBefore
<1>8. ASSUME NEW d \in ParentFds,
             flags' = [flags EXCEPT ![i] = "inherit"],
             pipes' = [pipes EXCEPT ![i] = <<-1, d>>],
             UNCHANGED <<open, failed>>, Advance("fork")
      PROVE  StdioInv'
  <2>2. /\ flags' \in [Stdio -> {"ignore", "pipe", "inherit"}]
        /\ \A k \in Stdio : flags'[k] = IF k = i THEN "inherit" ELSE flags[k]
    BY <1>1, <1>8 DEF TypeInv
  <2>3. /\ pipes' \in [Stdio -> (-1 .. MaxFd) \X (-1 .. MaxFd)]
        /\ \A k \in Stdio : pipes'[k] = IF k = i THEN <<-1, d>> ELSE pipes[k]
    <3>1. pipes \in [Stdio -> (-1 .. MaxFd) \X (-1 .. MaxFd)]
      BY <1>1 DEF TypeInv
    <3>2. d \in -1 .. MaxFd /\ -1 \in -1 .. MaxFd
      BY <1>5 DEF Fds
    <3>3. <<-1, d>> \in (-1 .. MaxFd) \X (-1 .. MaxFd)
      BY <3>2
    <3> QED
      BY <1>8, <3>1, <3>3
  <2>4. TypeInv'
    BY <1>1, <1>3, <1>4, <1>8, <2>2, <2>3 DEF TypeInv
  <2>5. Made' = Made /\ i \notin Made
    BY <1>1, <1>2, <2>2 DEF Made
  <2>6. \A k \in Made : k \in Stdio /\ pipes'[k] = pipes[k]
    BY <2>3, <2>5 DEF Made
  <2>7. Pairs(Given)'
    <3>1. \A k \in Made' : pipes'[k] = pipes[k] /\ Given'[k] = Given[k]
      BY <2>5, <2>6 DEF Given
    <3> QED
      BY <1>2, <2>5, <3>1 DEF Pairs
  <2>8. open' = ParentFds \cup {pipes'[k][1] : k \in Made'} \cup {pipes'[k][2] : k \in Made'}
    BY <1>2, <1>8, <2>5, <2>6
  <2>9. open' \subseteq 0 .. Top + 2 * (i + 1)
    BY <1>2, <1>51, <1>8
  <2>12. \A k \in Stdio : k >= i + 1 => k >= i /\ k # i
    BY <1>51
  <2>10. \A k \in Stdio : /\ k >= i + 1 => flags'[k] = "ignore"
                          /\ flags'[k] = "ignore" => pipes'[k] = <<-1, -1>>
                          /\ flags'[k] = "inherit" => /\ pipes'[k][1] = -1
                                                      /\ pipes'[k][2] \in ParentFds
    <3>1. <<-1, d>>[1] = -1 /\ <<-1, d>>[2] = d
      OBVIOUS
    <3>2. pipes'[i][1] = -1 /\ pipes'[i][2] \in ParentFds
      BY <1>1, <1>8, <2>3, <3>1
    <3> SUFFICES ASSUME NEW k \in Stdio
                 PROVE  /\ k >= i + 1 => flags'[k] = "ignore"
                        /\ flags'[k] = "ignore" => pipes'[k] = <<-1, -1>>
                        /\ flags'[k] = "inherit" => /\ pipes'[k][1] = -1
                                                    /\ pipes'[k][2] \in ParentFds
      OBVIOUS
    <3>3. CASE k = i
      BY <2>2, <2>12, <3>2, <3>3
    <3>4. CASE k # i
      BY <1>2, <2>2, <2>3, <2>12, <3>4
    <3> QED
      BY <3>3, <3>4
  <2>11. BeforeFork'
    BY <1>1, <1>3, <1>4, <1>8, <2>7, <2>8, <2>9, <2>10 DEF BeforeFork
  <2> QED
    BY <1>4, <1>8, <2>4, <2>11, StillBefore
<1>9. ASSUME NEW g \in {"pipe", "inherit"},
             flags' = [flags EXCEPT ![i] = g],
             failed' = TRUE, Goto("cleanup"), UNCHANGED <<pipes, open>>
      PROVE  StdioInv'
  <2>1. pc' = "cleanup" /\ i' = 0 /\ i' \in Stdio
    BY <1>1, <1>9 DEF Goto
  <2>2. /\ flags' \in [Stdio -> {"ignore", "pipe", "inherit"}]
        /\ \A k \in Stdio : flags'[k] = IF k = i THEN g ELSE flags[k]
    BY <1>1, <1>9 DEF TypeInv
  <2>3. TypeInv'
    BY <1>1, <1>3, <1>9, <2>1, <2>2 DEF TypeInv
  <2>4. \A k \in Made : k \in Stdio /\ flags'[k] # "inherit"
    BY <1>1, <1>2, <2>2 DEF Made
  <2>5. {pipes[k][1] : k \in Made} \cup {pipes[k][2] : k \in Made} \subseteq Cleaned'
    BY <1>9, <2>4 DEF Cleaned
  <2>6. Cleaned' \cap ParentFds = {}
    <3> SUFFICES ASSUME NEW k \in Stdio, flags'[k] # "inherit"
                 PROVE  pipes[k][1] \notin ParentFds /\ pipes[k][2] \notin ParentFds
      BY <1>9 DEF Cleaned
    <3>1. -1 \notin ParentFds
      BY <1>5
    <3>2. CASE k \in Made
      BY <1>2, <3>2 DEF Pairs, Given, Made
    <3>3. CASE k \notin Made
      <4>1. flags[k] = "ignore"
        BY <1>1, <1>2, <2>2, <3>3 DEF TypeInv, Made
      <4> QED
        BY <1>2, <3>1, <4>1
    <3> QED
      BY <3>2, <3>3
  <2>7. Cleaning'
    BY <1>1, <1>2, <1>3, <1>9, <2>5, <2>6 DEF Cleaning
  <2> QED
    BY <2>1, <2>3, <2>7, StillCleaning
<1> QED
  BY <1>6, <1>7, <1>8, <1>9 DEF InitStdio

\* The pipe for errors and the fork: the child starts with all that is open.
LEMMA ForkKeeps ==
  ASSUME StdioBounds, StdioInv, Fork
  PROVE  StdioInv'
<1> USE DEF StdioBounds, Stdio, Fds, Closed
<1>1. /\ TypeInv /\ pc = "fork" /\ ~failed /\ streams = {} /\ Reached = Count
      /\ \A k \in Stdio : /\ flags[k] = "ignore" => pipes[k] = <<-1, -1>>
                          /\ flags[k] = "inherit" => pipes[k][2] \in ParentFds
      /\ Pairs(Given)
      /\ open = ParentFds \cup {pipes[k][1] : k \in Made} \cup {pipes[k][2] : k \in Made}
      /\ open \subseteq 0 .. Top + 2 * Count
  BY DEF StdioInv, BeforeFork, Fork, Reached
<1>2. Top \in 2 .. MaxFd /\ ParentFds \subseteq Fds /\ Top + 3 * Count + 2 <= MaxFd
  BY TopFits
<1>3. PICK r, w : /\ r = Lowest(Free(open)) /\ w = Lowest(Free(open \cup {r}))
                  /\ error_fd' = IF how = "fork" THEN w ELSE -1
                  /\ file' = [d \in Fds |-> IF d \in open \/ (how = "fork" /\ d \in {r, w})
                                            THEN d ELSE Closed]
  BY DEF Fork
<1>4. /\ r \in Fds /\ r <= Top + 2 * Count + 1
      /\ w \in Fds /\ w <= Top + 2 * Count + 2
  <2>1. Count \in 0 .. Count
    OBVIOUS
  <2> QED
    BY <2>1, <1>1, <1>3, FreePair
<1>5. /\ pc' = "predup" /\ i' = 0 /\ wanted' = Given
      /\ cloexec' = IF how = "fork" THEN Fds \ (0 .. 2) ELSE Fds
      /\ UNCHANGED <<how, flags, open, streams, failed, pipes>>
  BY DEF Fork, Goto, parent, Given
<1>6. \A k \in Stdio : Given[k] = pipes[k][2] /\ Given[k] \in -1 .. MaxFd
  BY <1>1 DEF Given, TypeInv
<1>7. TypeInv'
  <2>1. file' \in [Fds -> -1 .. MaxFd + 1] /\ error_fd' \in -1 .. MaxFd
    BY <1>1, <1>3, <1>4
  <2>2. wanted' \in [Stdio -> -1 .. MaxFd]
    BY <1>5, <1>6 DEF Given
  <2>3. i' \in Stdio
    BY <1>5
  <2> QED
    BY <1>1, <1>5, <2>1, <2>2, <2>3 DEF TypeInv
<1>8. \A k \in Stdio : /\ flags[k] = "ignore" => Given[k] = -1
                       /\ flags[k] # "ignore" => Given[k] \in open /\ Given[k] >= 0
  <2> TAKE k \in Stdio
  <2>1. CASE flags[k] = "ignore"
    BY <1>1, <1>6, <2>1
  <2>2. CASE flags[k] = "inherit"
    BY <1>1, <1>2, <1>6, <2>2
  <2>3. CASE flags[k] = "pipe"
    <3>1. k \in Made /\ pipes[k][2] \in open
      BY <1>1, <2>3 DEF Made
    <3>2. Given[k] \in open /\ Given[k] \in Fds
      BY <1>1, <1>6, <3>1 DEF TypeInv
    <3> QED
      BY <2>3, <3>2
  <2>4. flags[k] \in {"ignore", "pipe", "inherit"}
    BY <1>1 DEF TypeInv
  <2> QED
    BY <2>1, <2>2, <2>3, <2>4
<1>9. Made' = Made /\ \A k \in Made : k \in Stdio /\ wanted'[k] = pipes[k][2]
  BY <1>5, <1>6 DEF Made
<1>10. AfterFork'
  <2>1. Pairs(wanted)'
    BY <1>1, <1>5, <1>9 DEF Pairs
  <2>2. open' = ParentFds \cup {pipes'[k][1] : k \in Made'} \cup {wanted'[k] : k \in Made'}
    <3>1. open = ParentFds \cup {pipes[k][1] : k \in Made} \cup {pipes[k][2] : k \in Made}
      BY <1>1
    <3>2. {wanted'[k] : k \in Made} = {pipes[k][2] : k \in Made}
      BY <1>9
    <3> QED
      BY <1>5, <1>9, <3>1, <3>2
  <2>3. \A k \in Stdio : /\ flags[k] = "ignore" <=> wanted'[k] = -1
                         /\ pipes[k][2] = -1 <=> wanted'[k] = -1
                         /\ wanted'[k] >= k => pipes[k][2] = wanted'[k]
    BY <1>5, <1>6, <1>8
  <2>4. \A k \in Stdio : flags[k] = "ignore" => pipes[k][1] = -1
    BY <1>1
  <2> QED
    BY <1>1, <1>5, <2>1, <2>2, <2>3, <2>4 DEF AfterFork
<1>11. Duplicating'
  <2>1. \A k \in Stdio : pipes[k][2] = wanted'[k]
    BY <1>5, <1>6
  <2>2. \A d \in Fds : file'[d] # Closed => d <= Top + 2 * Count + 2
    <3> TAKE d \in Fds
    <3>0. d \in Nat /\ Top \in Nat /\ 2 * Count \in Nat
      BY <1>2
    <3>1. CASE d \in open
      <4>1. d \in 0 .. Top + 2 * Count
        BY <1>1, <3>1
      <4> QED
        BY <3>0, <4>1
    <3>2. CASE d \notin open /\ file'[d] # Closed
      <4>1. d = r \/ d = w
        BY <1>3, <3>2
      <4> QED
        BY <1>4, <3>0, <4>1
    <3>3. CASE file'[d] = Closed
      BY <3>3
    <3> QED
      BY <3>1, <3>2, <3>3
  <2>3. \A k \in Stdio : pipes[k][2] <= Top + 2 * Count + 2
    <3> TAKE k \in Stdio
    <3>1. CASE flags[k] = "ignore"
      BY <1>2, <1>6, <1>8, <3>1
    <3>2. CASE flags[k] # "ignore"
      BY <1>1, <1>2, <1>6, <1>8, <3>2
    <3> QED
      BY <3>1, <3>2
  <2>4. \A k \in Stdio : wanted'[k] >= 0 => file'[pipes[k][2]] = wanted'[k]
    <3> SUFFICES ASSUME NEW k \in Stdio, Given[k] >= 0
                 PROVE  file'[Given[k]] = Given[k]
      BY <1>5, <2>1
    <3>1. Given[k] \in open /\ Given[k] \in Fds
      BY <1>6, <1>8
    <3> QED
      BY <1>3, <3>1
  <2>5. Top + 2 * Count + 2 + i' = Top + 2 * Count + 2
    BY <1>2, <1>5
  <2>6. \A k \in Stdio : ~(k < i')
    BY <1>5
  <2> QED
    BY <1>5, <2>1, <2>2, <2>3, <2>4, <2>5, <2>6 DEF Duplicating
<1>12. ChildOnly'
  <2>1. \A d \in Fds \ cloexec' : d \in Stdio /\ d < 3
    BY <1>5
  <2>2. error_fd' >= Count => file'[error_fd'] = error_fd'
    BY <1>3, <1>4
  <2>3. how = "posix_spawn" => error_fd' = -1
    BY <1>3
  <2> QED
    BY <1>5, <2>1, <2>2, <2>3 DEF ChildOnly
<1>13. /\ BeforeFork' /\ Moving' /\ Opening' /\ Cleaning'
       /\ StdioArrives' /\ SpawnLeaksNothing'
  BY <1>5 DEF BeforeFork, Moving, Opening, Cleaning, StdioArrives, SpawnLeaksNothing
<1> QED
  BY <1>7, <1>10, <1>11, <1>12, <1>13 DEF StdioInv

\* The duplicate of a low descriptor takes a number that is free to take.
LEMMA DuplicateIsFree ==
  ASSUME StdioBounds, TypeInv, AfterFork, Duplicating, pc = "predup",
         NEW d, d = IF how = "fork" THEN DupFd ELSE UnusedFd
  PROVE  /\ d \in Fds /\ d >= Count /\ d <= Top + 2 * Count + 3 + i
         /\ ~Overlooked => \A k \in Stdio : wanted[k] >= 0 => pipes[k][2] # d
         /\ how = "fork" => file[d] = Closed
<1> USE DEF StdioBounds, Stdio, Fds
<1>1. i \in Nat /\ i < Count
  BY DEF TypeInv
<1>2. Top \in Nat /\ Top + 3 * Count + 2 <= MaxFd
  BY TopFits
<1> DEFINE x == Top + 2 * Count + 3 + i
<1>3. x \in Fds /\ x > Count /\ x > Top + 2 * Count + 2 + i
  BY <1>1, <1>2
<1>4. \A k \in Stdio : pipes[k][2] \in -1 .. MaxFd /\ pipes[k][2] # x
  <2> TAKE k \in Stdio
  <2>1. pipes[k][2] <= Top + 2 * Count + 2 + i
    BY DEF Duplicating
  <2>2. pipes[k] \in (-1 .. MaxFd) \X (-1 .. MaxFd)
    BY DEF TypeInv
  <2>3. pipes[k][2] \in -1 .. MaxFd
    BY <2>2
  <2>4. Top + 2 * Count + 2 + i \in Int /\ x \in Int /\ pipes[k][2] \in Int
    BY <1>1, <1>2, <2>3
  <2> HIDE DEF x
  <2> QED
    BY <1>3, <2>1, <2>3, <2>4
<1>5. file[x] = Closed
  BY <1>1, <1>2, <1>3 DEF Duplicating
<1> HIDE DEF x
<1>6. CASE how = "fork"
  <2> DEFINE S == {e \in Fds : e >= Count /\ file[e] = Closed}
  <2>1. S \in SUBSET Nat /\ x \in S /\ d = Lowest(S)
    BY <1>3, <1>5, <1>6 DEF DupFd
  <2> HIDE DEF S
  <2>2. d \in S /\ d <= x
    BY <2>1, LowestFd
  <2>3. d \in Fds /\ d >= Count /\ file[d] = Closed
    BY <2>2 DEF S
  <2>4. ~Overlooked => \A k \in Stdio : wanted[k] >= 0 => pipes[k][2] # d
    BY <2>3 DEF Duplicating, Closed
  <2> QED
    BY <2>2, <2>3, <2>4 DEF x
<1>7. CASE how # "fork"
  <2> DEFINE S == {e \in Fds : /\ e >= Count
                               /\ \A k \in Stdio \ {0} : pipes[k][2] # e
                               /\ pipes[0][2] = e => e > Count}
  <2>1. S \in SUBSET Nat /\ x \in S /\ d = Lowest(S)
    BY <1>3, <1>4, <1>7 DEF UnusedFd
  <2> HIDE DEF S
  <2>2. d \in S /\ d <= x
    BY <2>1, LowestFd
  <2>3. /\ d \in Fds /\ d >= Count /\ \A k \in Stdio \ {0} : pipes[k][2] # d
        /\ pipes[0][2] = d => d > Count
    BY <2>2 DEF S
  <2>4. ASSUME ~Overlooked, wanted[0] >= 0, pipes[0][2] = d PROVE FALSE
    <3>1. 0 \in Stdio /\ how = "posix_spawn"
      BY <1>7 DEF TypeInv
    <3>2. pipes[0][2] = wanted[0]
      BY <3>1, <2>4 DEF AfterFork
    <3> QED
      BY <2>3, <2>4, <3>1, <3>2 DEF Overlooked
  <2> QED
    BY <1>7, <2>2, <2>3, <2>4 DEF x
<1> QED
  BY <1>6, <1>7

\* pipes[i][2] = d, for a pair of numbers.
LEMMA SecondReplaced ==
  ASSUME NEW S, NEW q \in S \X S, NEW d \in S
  PROVE  /\ [q EXCEPT ![2] = d] = <<q[1], d>>
         /\ <<q[1], d>> \in S \X S
<1>1. PICK x \in S, y \in S : q = <<x, y>>
  OBVIOUS
<1>2. q[1] = x
  BY <1>1
<1>3. [<<x, y>> EXCEPT ![2] = d] = <<x, d>>
  OBVIOUS
<1> QED
  BY <1>1, <1>2, <1>3

\* A low descriptor is duplicated: what the others were given stays where
\* it is.
LEMMA PreDupKeeps ==
  ASSUME StdioBounds, StdioInv, PreDup
  PROVE  StdioInv'
<1> USE DEF StdioBounds, Stdio, Fds
<1>1. /\ TypeInv /\ AfterFork /\ Duplicating /\ ChildOnly /\ pc = "predup"
      /\ UNCHANGED <<how, flags, open, streams, failed, wanted, error_fd>>
  BY DEF StdioInv, PreDup, parent
<1>2. /\ i \in Stdio /\ i \in Nat
      /\ Top \in Nat /\ Top + 3 * Count + 2 <= MaxFd
  <2>1. i \in Stdio
    BY <1>1 DEF TypeInv
  <2>2. Top \in 2 .. MaxFd /\ Top + 3 * Count + 2 <= MaxFd
    BY TopFits
  <2> QED
    BY <2>1, <2>2
<1>3. /\ pipes \in [Stdio -> (-1 .. MaxFd) \X (-1 .. MaxFd)]
      /\ file \in [Fds -> -1 .. MaxFd + 1]
      /\ wanted \in [Stdio -> -1 .. MaxFd]
      /\ \A k \in Stdio : pipes[k][2] \in -1 .. MaxFd /\ pipes[k][2] \in Int
      /\ wanted \in [Stdio -> Int]
  <2>1. /\ pipes \in [Stdio -> (-1 .. MaxFd) \X (-1 .. MaxFd)]
        /\ file \in [Fds -> -1 .. MaxFd + 1]
        /\ wanted \in [Stdio -> -1 .. MaxFd]
    BY <1>1 DEF TypeInv
  <2>2. -1 .. MaxFd \subseteq Int
    OBVIOUS
  <2>3. \A k \in Stdio : pipes[k][2] \in -1 .. MaxFd
    BY <2>1
  <2>4. wanted \in [Stdio -> Int]
    BY <2>1, <2>2
  <2> QED
    BY <2>1, <2>2, <2>3, <2>4
<1>4. Advance("move")
  BY DEF PreDup
<1>5. /\ pc' \in {"predup", "move"} /\ i' \in Stdio
      /\ pc' = "predup" => i' = i + 1
      /\ pc' = "move" => i' = 0 /\ i + 1 = Count
  BY <1>1, <1>2, <1>4 DEF Advance, Goto
<1>6. \A k \in Stdio : pipes[k][2] >= 0 => wanted[k] >= 0 /\ pipes[k][2] \in Fds
  <2> TAKE k \in Stdio
  <2>1. pipes[k][2] = -1 <=> wanted[k] = -1
    BY <1>1 DEF AfterFork
  <2>2. pipes[k][2] \in -1 .. MaxFd /\ wanted[k] \in -1 .. MaxFd
    BY <1>3
  <2> QED
    BY <2>1, <2>2
\* Whichever way: the entry of i is that of a file at or above i.
<1>7. /\ pipes' \in [Stdio -> (-1 .. MaxFd) \X (-1 .. MaxFd)]
      /\ file' \in [Fds -> -1 .. MaxFd + 1] /\ cloexec \subseteq cloexec'
      /\ cloexec' \subseteq Fds
      /\ \A k \in Stdio : pipes'[k][1] = pipes[k][1]
      /\ \A k \in Stdio : k # i => pipes'[k] = pipes[k]
      /\ pipes'[i][2] = -1 \/ pipes'[i][2] >= i
      /\ pipes'[i][2] = -1 <=> pipes[i][2] = -1
      /\ pipes[i][2] >= i => pipes'[i][2] = pipes[i][2]
      /\ pipes'[i][2] <= Top + 2 * Count + 3 + i
      /\ \A e \in Fds : file'[e] # Closed => e <= Top + 2 * Count + 3 + i
      /\ ~Overlooked => \A k \in Stdio : wanted[k] >= 0 => file'[pipes'[k][2]] = wanted[k]
      /\ error_fd >= Count => file'[error_fd] = error_fd
  <2>1. CASE ~IsLow(i)
    <3>1. UNCHANGED <<file, cloexec, pipes>>
      BY <2>1 DEF PreDup, child
    <3>2. pipes[i][2] = -1 \/ pipes[i][2] >= i
      <4>1. pipes[i][2] \in -1 .. MaxFd
        BY <1>2, <1>3
      <4> QED
        BY <1>2, <2>1, <4>1 DEF IsLow
    <3>3. pipes[i][2] <= Top + 2 * Count + 3 + i
      <4>1. pipes[i][2] <= Top + 2 * Count + 2 + i
        BY <1>1, <1>2 DEF Duplicating
      <4>2. pipes[i][2] \in Int
        BY <1>2, <1>3
      <4> QED
        BY <1>2, <4>1, <4>2
    <3>4. \A e \in Fds : file[e] # Closed => e <= Top + 2 * Count + 3 + i
      <4> TAKE e \in Fds
      <4>1. file[e] # Closed => e <= Top + 2 * Count + 2 + i
        BY <1>1 DEF Duplicating
      <4> QED
        BY <1>2, <4>1
    <3> QED
      BY <1>1, <1>3, <3>1, <3>2, <3>3, <3>4 DEF TypeInv, Duplicating, ChildOnly
  <2>2. CASE IsLow(i)
    <3>1. PICK d : /\ d = IF how = "fork" THEN DupFd ELSE UnusedFd
                   /\ file' = [file EXCEPT ![d] = file[pipes[i][2]]]
                   /\ pipes' = [pipes EXCEPT ![i][2] = d]
                   /\ cloexec' = cloexec \cup {d}
      BY <2>2 DEF PreDup
    <3>2. /\ d \in Fds /\ d >= Count /\ d <= Top + 2 * Count + 3 + i
          /\ ~Overlooked => \A k \in Stdio : wanted[k] >= 0 => pipes[k][2] # d
          /\ how = "fork" => file[d] = Closed
      BY <1>1, <3>1, DuplicateIsFree
    <3>3. pipes[i][2] >= 0 /\ pipes[i][2] < i /\ pipes[i][2] \in Fds /\ d \in -1 .. MaxFd
      BY <1>2, <1>6, <2>2, <3>2 DEF IsLow
    <3>4. /\ [pipes[i] EXCEPT ![2] = d] = <<pipes[i][1], d>>
          /\ <<pipes[i][1], d>> \in (-1 .. MaxFd) \X (-1 .. MaxFd)
      BY <1>2, <1>3, <3>3, SecondReplaced
    <3>5. pipes' = [pipes EXCEPT ![i] = <<pipes[i][1], d>>]
      BY <3>1, <3>4
    <3>7. /\ pipes' \in [Stdio -> (-1 .. MaxFd) \X (-1 .. MaxFd)]
          /\ \A k \in Stdio : k # i => pipes'[k] = pipes[k]
          /\ pipes'[i][1] = pipes[i][1] /\ pipes'[i][2] = d
      BY <1>2, <1>3, <3>5, <3>4
    <3>8. /\ file' \in [Fds -> -1 .. MaxFd + 1]
          /\ \A e \in Fds : file'[e] = IF e = d THEN file[pipes[i][2]] ELSE file[e]
      BY <1>3, <3>1, <3>2, <3>3
    <3>9. cloexec \subseteq cloexec' /\ cloexec' \subseteq Fds
      BY <1>1, <3>1, <3>2 DEF TypeInv
    <3>10. d >= i /\ d # -1 /\ pipes[i][2] # -1 /\ ~(pipes[i][2] >= i)
      BY <1>2, <3>2, <3>3
    <3>11. \A e \in Fds : file'[e] # Closed => e <= Top + 2 * Count + 3 + i
      <4> TAKE e \in Fds
      <4>1. file[e] # Closed => e <= Top + 2 * Count + 2 + i
        BY <1>1 DEF Duplicating
      <4>2. CASE e = d
        BY <3>2, <4>2
      <4>3. CASE e # d
        <5>1. file'[e] = file[e]
          BY <3>8, <4>3
        <5>2. file'[e] # Closed => e <= Top + 2 * Count + 2 + i
          BY <4>1, <5>1
        <5> QED
          BY <1>2, <5>2
      <4> QED
        BY <4>2, <4>3
    <3>12. ~Overlooked => \A k \in Stdio : wanted[k] >= 0 => file'[pipes'[k][2]] = wanted[k]
      <4> SUFFICES ASSUME ~Overlooked, NEW k \in Stdio, wanted[k] >= 0
                   PROVE  file'[pipes'[k][2]] = wanted[k]
        OBVIOUS
      <4>1. file[pipes[k][2]] = wanted[k] /\ pipes[k][2] # d
        BY <1>1, <3>2 DEF Duplicating
      <4>2. pipes[k][2] \in Fds
        <5>1. pipes[k][2] # -1
          BY <1>1 DEF AfterFork
        <5>2. pipes[k][2] \in -1 .. MaxFd
          BY <1>3
        <5> QED
          BY <5>1, <5>2
      <4>3. CASE k = i
        BY <3>2, <3>7, <3>8, <4>1, <4>3
      <4>4. CASE k # i
        BY <3>7, <3>8, <4>1, <4>2, <4>4
      <4> QED
        BY <4>3, <4>4
    <3>13. error_fd >= Count => file'[error_fd] = error_fd
      <4> SUFFICES ASSUME error_fd >= Count PROVE file'[error_fd] = error_fd
        OBVIOUS
      <4>1. file[error_fd] = error_fd /\ error_fd \in Fds /\ error_fd # Closed
        BY <1>1 DEF ChildOnly, TypeInv, Closed
      <4>2. error_fd # d
        BY <1>1, <3>2, <4>1 DEF ChildOnly, TypeInv
      <4> QED
        BY <3>8, <4>1, <4>2
    <3> QED
      BY <1>2, <3>2, <3>7, <3>8, <3>9, <3>10, <3>11, <3>12, <3>13
  <2> QED
    BY <2>1, <2>2
<1>8. TypeInv'
  BY <1>1, <1>5, <1>7 DEF TypeInv
<1>9. AfterFork'
  <2>1. Made' = Made /\ \A k \in Made : k \in Stdio
    BY <1>1 DEF Made
  <2>5. /\ Pairs(wanted)
        /\ open = ParentFds \cup {pipes[k][1] : k \in Made} \cup {wanted[k] : k \in Made}
        /\ ~failed /\ streams = {}
        /\ \A k \in Stdio : flags[k] = "ignore" => pipes[k][1] = -1
    BY <1>1 DEF AfterFork
  <2>6. \A k \in Made : pipes'[k][1] = pipes[k][1] /\ wanted'[k] = wanted[k]
    BY <1>1, <1>7, <2>1
  <2>2. Pairs(wanted)'
    BY <2>1, <2>5, <2>6 DEF Pairs
  <2>3. open' = ParentFds \cup {pipes'[k][1] : k \in Made'} \cup {wanted'[k] : k \in Made'}
    <3>1. {pipes'[k][1] : k \in Made'} = {pipes[k][1] : k \in Made}
      BY <2>1, <2>6
    <3>2. {wanted'[k] : k \in Made'} = {wanted[k] : k \in Made}
      BY <2>1, <2>6
    <3> QED
      BY <1>1, <2>5, <3>1, <3>2
  <2>4. \A k \in Stdio : /\ flags'[k] = "ignore" <=> wanted'[k] = -1
                         /\ pipes'[k][2] = -1 <=> wanted'[k] = -1
                         /\ wanted'[k] >= k => pipes'[k][2] = wanted'[k]
    <3> TAKE k \in Stdio
    <3>1. CASE k = i
      BY <1>1, <1>2, <1>7, <3>1 DEF AfterFork
    <3>2. CASE k # i
      BY <1>1, <1>2, <1>7, <3>2 DEF AfterFork
    <3> QED
      BY <3>1, <3>2
  <2>7. \A k \in Stdio : flags'[k] = "ignore" => pipes'[k][1] = -1
    BY <1>1, <1>7, <2>5
  <2> QED
    BY <1>1, <2>2, <2>3, <2>4, <2>5, <2>7 DEF AfterFork
<1>10. \A k \in Stdio : k < i + 1 => pipes'[k][2] = -1 \/ pipes'[k][2] >= k
  <2> SUFFICES ASSUME NEW k \in Stdio, k < i + 1
               PROVE  pipes'[k][2] = -1 \/ pipes'[k][2] >= k
    OBVIOUS
  <2>1. CASE k = i
    BY <1>7, <2>1
  <2>2. CASE k # i
    <3>1. k < i
      BY <1>2, <2>2
    <3> QED
      BY <1>1, <1>7, <2>2, <3>1 DEF Duplicating
  <2> QED
    BY <2>1, <2>2
<1>11. Duplicating'
  <2> SUFFICES ASSUME pc' = "predup" PROVE Duplicating'
    BY DEF Duplicating
  <2>1. i' = i + 1
    BY <1>5
  <2>2. \A k \in Stdio : k >= i + 1 => k # i /\ k >= i
    BY <1>2
  <2>3. \A k \in Stdio : k >= i + 1 => pipes'[k][2] = wanted'[k]
    BY <1>1, <1>7, <2>2 DEF Duplicating
  <2>4. Top + 2 * Count + 3 + i = Top + 2 * Count + 2 + i'
    BY <1>2, <2>1
  <2>5. \A k \in Stdio : pipes'[k][2] <= Top + 2 * Count + 3 + i
    <3> TAKE k \in Stdio
    <3>1. pipes[k][2] <= Top + 2 * Count + 2 + i
      BY <1>1 DEF Duplicating
    <3>3. pipes[k][2] \in Int
      BY <1>3
    <3>2. pipes[k][2] <= Top + 2 * Count + 3 + i
      BY <1>2, <3>1, <3>3
    <3> QED
      BY <1>7, <3>2
  <2> QED
    <3>1. \A k \in Stdio : pipes'[k][2] <= Top + 2 * Count + 2 + i'
      BY <2>4, <2>5
    <3>2. \A e \in Fds : file'[e] # Closed => e <= Top + 2 * Count + 2 + i'
      BY <1>7, <2>4
    <3>3. \A k \in Stdio : k < i' => pipes'[k][2] = -1 \/ pipes'[k][2] >= k
      BY <1>10, <2>1
    <3>4. ~Overlooked' => \A k \in Stdio : wanted'[k] >= 0 => file'[pipes'[k][2]] = wanted'[k]
      BY <1>1, <1>7 DEF Overlooked
    <3> QED
      BY <2>1, <2>3, <3>1, <3>2, <3>3, <3>4 DEF Duplicating
<1>12. Moving'
  <2> SUFFICES ASSUME pc' = "move", ~Overlooked' PROVE Moving'
    BY DEF Moving
  <2>1. i' = 0 /\ i + 1 = Count /\ ~Overlooked
    BY <1>1, <1>5 DEF Overlooked
  <2>2. \A k \in Stdio : k < i + 1 /\ ~(k < i')
    BY <1>2, <2>1
  <2>3. \A k \in 0 .. 2 : ~(k < i')
    BY <2>1
  <2> QED
    BY <1>1, <1>7, <1>10, <2>1, <2>2, <2>3 DEF Moving
<1>13. ChildOnly'
  BY <1>1, <1>7 DEF ChildOnly
<1>14. /\ BeforeFork' /\ Opening' /\ Cleaning' /\ StdioArrives' /\ SpawnLeaksNothing'
  BY <1>5 DEF BeforeFork, Opening, Cleaning, StdioArrives, SpawnLeaksNothing
<1> QED
  BY <1>8, <1>9, <1>11, <1>12, <1>13, <1>14 DEF StdioInv

\* A file is moved to its number: the sources of the containers to come are
\* at or above their own numbers.
LEMMA MoveKeeps ==
  ASSUME StdioBounds, StdioInv, Move
  PROVE  StdioInv'
<1> USE DEF StdioBounds, Stdio, Fds
<1>1. /\ TypeInv /\ AfterFork /\ Moving /\ ChildOnly /\ pc = "move"
      /\ UNCHANGED <<how, flags, open, streams, failed, pipes, wanted, error_fd>>
  BY DEF StdioInv, Move, parent
<1>2. i \in Stdio /\ i \in Nat /\ i < Count /\ i \in Fds
  <2>1. i \in Stdio
    BY <1>1 DEF TypeInv
  <2>2. Top \in 2 .. MaxFd /\ Top + 3 * Count + 2 <= MaxFd
    BY TopFits
  <2> QED
    BY <2>1, <2>2
<1>3. /\ pipes \in [Stdio -> (-1 .. MaxFd) \X (-1 .. MaxFd)]
      /\ file \in [Fds -> -1 .. MaxFd + 1] /\ cloexec \subseteq Fds
      /\ \A k \in Stdio : pipes[k][2] \in -1 .. MaxFd
      /\ \A k \in Stdio : flags[k] = "ignore" <=> pipes[k][2] = -1
      /\ \A k \in Stdio : flags[k] = "ignore" <=> wanted[k] = -1
      /\ \A k \in Stdio : wanted[k] \in -1 .. MaxFd
  <2>1. pipes \in [Stdio -> (-1 .. MaxFd) \X (-1 .. MaxFd)]
    BY <1>1 DEF TypeInv
  <2>2. \A k \in Stdio : pipes[k][2] \in -1 .. MaxFd
    BY <2>1
  <2> QED
    BY <1>1, <2>1, <2>2 DEF TypeInv, AfterFork
<1>4. /\ pc' \in {"move", "exec"} /\ i' \in Stdio
      /\ pc' = "move" => i' = i + 1
      /\ pc' = "exec" => i + 1 = Count
  BY <1>1, <1>2 DEF Move, Advance, Goto
\* What is done for container i, and that nothing else is.
<1>5. /\ file' \in [Fds -> -1 .. MaxFd + 1] /\ cloexec' \subseteq Fds
      /\ \A d \in Fds : d # i => file'[d] = file[d]
      /\ cloexec \ {i} \subseteq cloexec' /\ cloexec' \subseteq cloexec
      /\ i \notin cloexec' => i \notin cloexec \/ i < 3 \/ flags[i] # "ignore"
      /\ i < 3 /\ flags[i] = "ignore" => file'[i] = Null
      /\ flags[i] # "ignore" => file'[i] = file[pipes[i][2]] /\ i \notin cloexec'
  <2>1. /\ file \in [Fds -> -1 .. MaxFd + 1] /\ cloexec \subseteq Fds
        /\ i \in Fds /\ i \in Nat /\ Null \in -1 .. MaxFd + 1
    <3>1. Null \in -1 .. MaxFd + 1
      BY DEF Null
    <3> QED
      BY <1>2, <1>3, <3>1
  <2>6. /\ flags[i] = "ignore" <=> pipes[i][2] < 0
        /\ pipes[i][2] >= 0 => pipes[i][2] \in Fds
    <3>1. pipes[i][2] \in -1 .. MaxFd /\ (flags[i] = "ignore" <=> pipes[i][2] = -1)
      BY <1>2, <1>3
    <3> QED
      BY <3>1
  <2>2. CASE pipes[i][2] < 0 /\ i >= 3 /\ UNCHANGED child
    <3>1. file' = file /\ cloexec' = cloexec /\ ~(i < 3) /\ flags[i] = "ignore"
      BY <2>1, <2>2, <2>6 DEF child
    <3> QED
      BY <2>1, <3>1
  <2>3. CASE pipes[i][2] < 0 /\ i < 3 /\ file' = [file EXCEPT ![i] = Null]
             /\ cloexec' = cloexec \ {i}
    <3>1. flags[i] = "ignore"
      BY <2>3, <2>6
    <3> QED
      BY <2>1, <2>3, <3>1
  <2>4. CASE pipes[i][2] = i /\ cloexec' = InPlace(i) /\ UNCHANGED file
    <3>1. flags[i] # "ignore" /\ cloexec' = cloexec \ {i} /\ file' = file
      BY <2>1, <2>4, <2>6 DEF InPlace
    <3> QED
      BY <2>1, <2>4, <3>1
  <2>5. CASE /\ pipes[i][2] >= 0 /\ pipes[i][2] # i
             /\ file' = [file EXCEPT ![i] = file[pipes[i][2]]]
             /\ cloexec' = cloexec \ {i}
    <3>1. pipes[i][2] \in Fds
      BY <2>5, <2>6
    <3>2. flags[i] # "ignore"
      <4>1. pipes[i][2] \in Nat
        BY <3>1
      <4> QED
        BY <2>5, <2>6, <4>1
    <3>3. file[pipes[i][2]] \in -1 .. MaxFd + 1
      BY <2>1, <3>1
    <3> QED
      BY <2>1, <2>5, <3>2, <3>3
  <2> QED
    BY <2>2, <2>3, <2>4, <2>5 DEF Move
<1>6. TypeInv'
  BY <1>1, <1>4, <1>5 DEF TypeInv
<1>7. AfterFork'
  <2>1. Made' = Made
    BY <1>1 DEF Made
  <2>2. Pairs(wanted)'
    BY <1>1, <2>1 DEF AfterFork, Pairs
  <2> QED
    BY <1>1, <2>1, <2>2 DEF AfterFork
<1>8. ChildOnly'
  <2>1. \A d \in Fds \ cloexec' : d \in Stdio /\ (d < 3 \/ flags[d] # "ignore")
    <3> SUFFICES ASSUME NEW d \in Fds \ cloexec'
                 PROVE  d \in Stdio /\ (d < 3 \/ flags[d] # "ignore")
      OBVIOUS
    <3>1. CASE d \notin cloexec
      BY <1>1, <3>1 DEF ChildOnly
    <3>2. CASE d \in cloexec
      <4>1. d = i
        BY <1>5, <3>2
      <4> QED
        BY <1>2, <1>5, <3>2, <4>1
    <3> QED
      BY <3>1, <3>2
  <2>2. error_fd >= Count => file'[error_fd] = error_fd
    <3> SUFFICES ASSUME error_fd >= Count PROVE file'[error_fd] = error_fd
      OBVIOUS
    <3>1. file[error_fd] = error_fd /\ error_fd \in Fds
      BY <1>1 DEF ChildOnly, TypeInv
    <3>2. error_fd # i
      BY <1>2, <3>1
    <3> QED
      BY <1>5, <3>1, <3>2
  <2> QED
    BY <1>1, <2>1, <2>2 DEF ChildOnly
\* Containers up to i are served, and what the others need is still there.
<1>9. ASSUME ~Overlooked
      PROVE  /\ \A k \in Stdio : pipes[k][2] = -1 \/ pipes[k][2] >= k
             /\ \A k \in Stdio : k >= i + 1 /\ wanted[k] >= 0 => file'[pipes[k][2]] = wanted[k]
             /\ \A k \in Stdio : k < i + 1 /\ flags[k] # "ignore" =>
                                   file'[k] = wanted[k] /\ k \notin cloexec'
             /\ \A k \in 0 .. 2 : k < i + 1 /\ flags[k] = "ignore" => file'[k] = Null
  <2>1. /\ \A k \in Stdio : pipes[k][2] = -1 \/ pipes[k][2] >= k
        /\ \A k \in Stdio : k >= i /\ wanted[k] >= 0 => file[pipes[k][2]] = wanted[k]
        /\ \A k \in Stdio : k < i /\ flags[k] # "ignore" => file[k] = wanted[k] /\ k \notin cloexec
        /\ \A k \in 0 .. 2 : k < i /\ flags[k] = "ignore" => file[k] = Null
    BY <1>1, <1>9 DEF Moving
  <2>2. Stdio \subseteq Fds
    <3>1. Top \in 2 .. MaxFd /\ Top + 3 * Count + 2 <= MaxFd
      BY TopFits
    <3> QED
      BY <3>1
  <2>3. ASSUME NEW k \in Stdio, k >= i + 1, wanted[k] >= 0
        PROVE  file'[pipes[k][2]] = wanted[k]
    <3>5. wanted[k] \in -1 .. MaxFd
      BY <1>3
    <3>3. wanted[k] \in -1 .. MaxFd /\ wanted[k] # -1
      BY <2>3, <3>5
    <3>4. pipes[k][2] \in -1 .. MaxFd /\ pipes[k][2] # -1
      BY <1>3, <3>3
    <3>1. pipes[k][2] \in -1 .. MaxFd /\ pipes[k][2] # -1 /\ pipes[k][2] >= k
      BY <2>1, <3>4
    <3>2. pipes[k][2] \in Fds /\ pipes[k][2] # i /\ k >= i
      BY <1>2, <2>3, <3>1
    <3> QED
      BY <1>5, <2>1, <2>3, <3>2
  <2>4. ASSUME NEW k \in Stdio, k < i + 1, flags[k] # "ignore"
        PROVE  file'[k] = wanted[k] /\ k \notin cloexec'
    <3>1. CASE k = i
      <4>1. wanted[i] \in -1 .. MaxFd /\ wanted[i] # -1
        BY <1>3, <2>4, <3>1
      <4>2. file[pipes[i][2]] = wanted[i]
        BY <1>2, <2>1, <4>1
      <4> QED
        BY <1>5, <2>4, <3>1, <4>2
    <3>2. CASE k # i
      <4>1. k < i
        BY <1>2, <2>4, <3>2
      <4> QED
        BY <1>5, <2>1, <2>2, <2>4, <3>2, <4>1
    <3> QED
      BY <3>1, <3>2
  <2>5. ASSUME NEW k \in 0 .. 2, k < i + 1, flags[k] = "ignore"
        PROVE  file'[k] = Null
    <3>1. CASE k = i
      BY <1>5, <2>5, <3>1
    <3>2. CASE k # i
      <4>1. k < i /\ k \in Fds
        BY <1>2, <2>5, <3>2
      <4> QED
        BY <1>5, <2>1, <2>5, <3>2, <4>1
    <3> QED
      BY <3>1, <3>2
  <2> QED
    BY <2>1, <2>3, <2>4, <2>5
<1>10. Overlooked' = Overlooked
  BY <1>1 DEF Overlooked
<1>11. Moving'
  <2> SUFFICES ASSUME pc' = "move", ~Overlooked PROVE Moving'
    BY <1>10 DEF Moving
  <2>1. i' = i + 1
    BY <1>4
  <2> QED
    BY <1>1, <1>9, <2>1 DEF Moving
<1>12. StdioArrives'
  <2> SUFFICES ASSUME pc' = "exec", ~Overlooked PROVE StdioArrives'
    BY <1>10 DEF StdioArrives
  <2>1. i + 1 = Count
    BY <1>4
  <2>2. /\ \A k \in Stdio : k < i + 1
        /\ \A k \in 0 .. 2 : k < i + 1
    BY <2>1
  <2>3. /\ \A k \in Stdio : flags[k] # "ignore" => file'[k] = wanted[k] /\ k \notin cloexec'
        /\ \A k \in 0 .. 2 : flags[k] = "ignore" => file'[k] = Null
    BY <1>9, <2>2
  <2>4. /\ \A d \in Fds \ cloexec' : d \in Stdio /\ (d < 3 \/ flags[d] # "ignore")
        /\ error_fd >= Count => file'[error_fd] = error_fd
    BY <1>1, <1>8 DEF ChildOnly
  <2> QED
    BY <1>1, <2>3, <2>4 DEF StdioArrives
<1>13. BeforeFork' /\ Duplicating' /\ Opening' /\ Cleaning' /\ SpawnLeaksNothing'
  BY <1>4 DEF BeforeFork, Duplicating, Opening, Cleaning, SpawnLeaksNothing
<1> QED
  BY <1>6, <1>7, <1>8, <1>11, <1>12, <1>13 DEF StdioInv

\* The parent goes on with its own array, or with the one that was changed.
LEMMA ExecutedKeeps ==
  ASSUME StdioBounds, StdioInv, Executed
  PROVE  StdioInv'
<1> USE DEF StdioBounds, Stdio, Fds
<1>1. /\ TypeInv /\ AfterFork /\ pc = "exec" /\ pc' = "open" /\ i' = 0
      /\ UNCHANGED <<how, flags, open, streams, failed, wanted, error_fd, file, cloexec>>
      /\ pipes' = IF how = "fork" THEN [k \in Stdio |-> <<pipes[k][1], wanted[k]>>]
                                  ELSE pipes
  BY DEF StdioInv, Executed, parent, child, Goto
<1>2. pipes \in [Stdio -> (-1 .. MaxFd) \X (-1 .. MaxFd)] /\ wanted \in [Stdio -> -1 .. MaxFd]
  BY <1>1 DEF TypeInv
<1>3. /\ pipes' \in [Stdio -> (-1 .. MaxFd) \X (-1 .. MaxFd)]
      /\ \A k \in Stdio : pipes'[k][1] = pipes[k][1]
      /\ \A k \in Stdio : pipes'[k][2] = IF how = "fork" THEN wanted[k] ELSE pipes[k][2]
  <2>1. CASE how = "fork"
    <3>1. \A k \in Stdio : <<pipes[k][1], wanted[k]>> \in (-1 .. MaxFd) \X (-1 .. MaxFd)
      BY <1>2
    <3> QED
      BY <1>1, <2>1, <3>1
  <2>2. CASE how # "fork"
    BY <1>1, <1>2, <2>2
  <2> QED
    BY <2>1, <2>2
<1>4. TypeInv'
  <2>1. i' \in Stdio
    BY <1>1
  <2> QED
    BY <1>1, <1>3, <2>1 DEF TypeInv
<1>5. /\ ~failed /\ streams = {} /\ Pairs(wanted)
      /\ open = ParentFds \cup {pipes[k][1] : k \in Made} \cup {wanted[k] : k \in Made}
      /\ \A k \in Stdio : /\ flags[k] = "ignore" => pipes[k][1] = -1
                          /\ flags[k] = "ignore" <=> wanted[k] = -1
                          /\ pipes[k][2] = -1 <=> wanted[k] = -1
                          /\ wanted[k] >= k => pipes[k][2] = wanted[k]
  BY <1>1 DEF AfterFork
<1>6. Made' = Made /\ \A k \in Made : k \in Stdio /\ ~(k < 0) /\ k >= 0 /\ flags[k] = "pipe"
  BY <1>1 DEF Made
<1>7. Opening'
  <2> SUFFICES ASSUME ~Misplaced PROVE Opening'
    BY <1>1 DEF Opening, Misplaced
  <2>1. \A k \in Made : pipes'[k][2] = wanted[k]
    <3> TAKE k \in Made
    <3>1. CASE how = "fork"
      BY <1>3, <1>6, <3>1
    <3>2. CASE how # "fork"
      <4>1. how = "posix_spawn" /\ wanted[k] \in -1 .. MaxFd /\ wanted[k] # -1
        BY <1>1, <1>2, <1>5, <1>6, <3>2 DEF TypeInv
      <4>2. ~(wanted[k] < k)
        BY <1>6, <4>1 DEF Misplaced
      <4>3. wanted[k] >= k
        BY <1>6, <4>1, <4>2
      <4> QED
        BY <1>3, <1>5, <1>6, <3>2, <4>3
    <3> QED
      BY <3>1, <3>2
  <2>0. \A k \in Made : pipes'[k][1] = pipes[k][1]
    BY <1>3, <1>6
  <2>2. Pairs(wanted)'
    BY <1>1, <1>5, <1>6, <2>0 DEF Pairs
  <2>3. {j \in Made : j < 0} = {} /\ {j \in Made : j >= 0} = Made
    BY <1>6
  <2>4. {pipes'[k][1] : k \in Made} = {pipes[k][1] : k \in Made}
    BY <2>0
  <2>5. /\ {j \in Made' : j < i'} = {} /\ {j \in Made' : j >= i'} = Made
    BY <1>1, <1>6, <2>3
  <2>6. {pipes'[k][1] : k \in {j \in Made' : j < i'}} = {}
    BY <2>5
  <2>7. open' = ParentFds \cup {pipes'[k][1] : k \in Made'}
                          \cup {wanted'[k] : k \in {j \in Made' : j >= i'}}
    <3>1. {wanted'[k] : k \in {j \in Made' : j >= i'}} = {wanted[k] : k \in Made}
      BY <1>1, <2>5
    <3>2. {pipes'[k][1] : k \in Made'} = {pipes[k][1] : k \in Made}
      BY <1>6, <2>4
    <3> QED
      BY <1>1, <1>5, <3>1, <3>2
  <2>8. \A k \in Made' : pipes'[k][2] = IF k < i' THEN -1 ELSE wanted'[k]
    BY <1>1, <1>6, <2>1
  <2>9. \A k \in Stdio : flags'[k] = "ignore" => pipes'[k][1] = -1 /\ pipes'[k][2] = -1
    BY <1>1, <1>3, <1>5
  <2> QED
    BY <1>1, <1>5, <2>2, <2>6, <2>7, <2>8, <2>9 DEF Opening
<1>8. /\ BeforeFork' /\ AfterFork' /\ Duplicating' /\ Moving' /\ ChildOnly'
      /\ Cleaning' /\ StdioArrives' /\ SpawnLeaksNothing'
  BY <1>1 DEF BeforeFork, AfterFork, Duplicating, Moving, ChildOnly, Cleaning,
     StdioArrives, SpawnLeaksNothing
<1> QED
  BY <1>4, <1>7, <1>8 DEF StdioInv

\* The parent opens an end, passes over a container, aborts or fails.
LEMMA OpenStreamKeeps ==
  ASSUME StdioBounds, StdioInv, OpenStream
  PROVE  StdioInv'
<1> USE DEF StdioBounds, Stdio, Fds
<1>1. /\ TypeInv /\ Opening /\ pc = "open" /\ UNCHANGED <<how, flags, wanted, error_fd, file, cloexec>>
      /\ i \in Stdio /\ i \in Nat
  <2>1. TypeInv /\ Opening
    BY DEF StdioInv
  <2>2. pc = "open" /\ UNCHANGED <<how, flags, wanted, error_fd, file, cloexec>>
    BY DEF OpenStream, child
  <2>3. i \in Stdio
    BY <2>1 DEF TypeInv
  <2> QED
    BY <2>1, <2>2, <2>3
<1>2. /\ pipes \in [Stdio -> (-1 .. MaxFd) \X (-1 .. MaxFd)]
      /\ \A k \in Stdio : pipes[k][1] \in -1 .. MaxFd /\ pipes[k][2] \in -1 .. MaxFd
  <2>1. pipes \in [Stdio -> (-1 .. MaxFd) \X (-1 .. MaxFd)]
    BY <1>1 DEF TypeInv
  <2> QED
    BY <2>1
<1>3. ASSUME Advance("done")
      PROVE  /\ pc' \in {"open", "done"} /\ i' \in Stdio
             /\ pc' = "open" => i' = i + 1
             /\ pc' = "done" => i + 1 = Count
  BY <1>1, <1>3 DEF Advance, Goto
<1>4. Made' = Made /\ Misplaced' = Misplaced
      /\ \A k \in Made : k \in Stdio /\ k \in Nat /\ k < Count /\ flags[k] = "pipe"
  BY <1>1 DEF Made, Misplaced
<1>5. ASSUME ~Misplaced
      PROVE  /\ ~failed /\ Pairs(wanted)
             /\ \A k \in Stdio : flags[k] = "ignore" => pipes[k][1] = -1 /\ pipes[k][2] = -1
             /\ \A k \in Made : pipes[k][2] = IF k < i THEN -1 ELSE wanted[k]
             /\ streams = {pipes[k][1] : k \in {j \in Made : j < i}}
             /\ open = ParentFds \cup {pipes[k][1] : k \in Made}
                                 \cup {wanted[k] : k \in {j \in Made : j >= i}}
  BY <1>1, <1>5 DEF Opening
\* What is to be shown when the loop goes on, with the same ends.
<1>6. ASSUME Advance("done"), TypeInv',
             ~Misplaced =>
               /\ ~failed'
               /\ \A k \in Stdio : pipes'[k][1] = pipes[k][1]
               /\ \A k \in Stdio : flags[k] = "ignore" => pipes'[k][2] = -1
               /\ \A k \in Made : pipes'[k][2] = IF k < i + 1 THEN -1 ELSE wanted[k]
               /\ streams' = {pipes[k][1] : k \in {j \in Made : j < i + 1}}
               /\ open' = ParentFds \cup {pipes[k][1] : k \in Made}
                                    \cup {wanted[k] : k \in {j \in Made : j >= i + 1}}
      PROVE  StdioInv'
  <2>1. /\ BeforeFork' /\ AfterFork' /\ Duplicating' /\ Moving' /\ ChildOnly'
        /\ Cleaning' /\ StdioArrives'
    BY <1>3, <1>6 DEF BeforeFork, AfterFork, Duplicating, Moving, ChildOnly,
       Cleaning, StdioArrives
  <2>2. Opening'
    <3> SUFFICES ASSUME pc' = "open", ~Misplaced PROVE Opening'
      BY <1>4 DEF Opening
    <3>1. i' = i + 1
      BY <1>3, <1>6
    <3>2. \A k \in Made : pipes'[k][1] = pipes[k][1]
      BY <1>4, <1>6
    <3>3. Pairs(wanted)'
      BY <1>1, <1>4, <1>5, <3>2 DEF Pairs
    <3>4. {pipes'[k][1] : k \in Made} = {pipes[k][1] : k \in Made}
      BY <3>2
    <3>5. {pipes'[k][1] : k \in {j \in Made : j < i + 1}} = {pipes[k][1] : k \in {j \in Made : j < i + 1}}
      BY <3>2
    <3>6. streams' = {pipes'[k][1] : k \in {j \in Made' : j < i'}}
      BY <1>4, <1>6, <3>1, <3>5
    <3>7. open' = ParentFds \cup {pipes'[k][1] : k \in Made'}
                            \cup {wanted'[k] : k \in {j \in Made' : j >= i'}}
      BY <1>1, <1>4, <1>6, <3>1, <3>4
    <3> QED
      BY <1>1, <1>4, <1>5, <1>6, <3>1, <3>3, <3>6, <3>7 DEF Opening
  <2>3. SpawnLeaksNothing'
    <3> SUFFICES ASSUME pc' = "done", ~Misplaced PROVE open' = ParentFds \cup streams' /\ ~failed'
      BY <1>4 DEF SpawnLeaksNothing
    <3>1. {j \in Made : j < i + 1} = Made /\ {j \in Made : j >= i + 1} = {}
      <4>1. i + 1 = Count
        BY <1>3, <1>6
      <4> QED
        BY <1>4, <4>1
    <3>2. {wanted[k] : k \in {j \in Made : j >= i + 1}} = {}
      BY <3>1
    <3> QED
      BY <1>6, <3>1, <3>2
  <2> QED
    BY <1>6, <2>1, <2>2, <2>3 DEF StdioInv
<1>7. CASE flags[i] # "pipe"
  <2>1. UNCHANGED <<open, streams, pipes, failed>> /\ Advance("done")
    BY <1>7 DEF OpenStream
  <2>2. TypeInv'
    BY <1>1, <1>3, <2>1 DEF TypeInv
  <2>3. \A k \in Made : k # i /\ (k < i <=> k < i + 1) /\ (k >= i <=> k >= i + 1)
    BY <1>1, <1>4, <1>7
  <2>4. /\ {j \in Made : j < i} = {j \in Made : j < i + 1}
        /\ {j \in Made : j >= i} = {j \in Made : j >= i + 1}
    BY <2>3
  <2>5. ~Misplaced => /\ ~failed'
                      /\ \A k \in Stdio : pipes'[k][1] = pipes[k][1]
                      /\ \A k \in Stdio : flags[k] = "ignore" => pipes'[k][2] = -1
                      /\ \A k \in Made : pipes'[k][2] = IF k < i + 1 THEN -1 ELSE wanted[k]
                      /\ streams' = {pipes[k][1] : k \in {j \in Made : j < i + 1}}
                      /\ open' = ParentFds \cup {pipes[k][1] : k \in Made}
                                    \cup {wanted[k] : k \in {j \in Made : j >= i + 1}}
    BY <1>5, <2>1, <2>3, <2>4
  <2> QED
    BY <1>6, <2>1, <2>2, <2>5
<1>8. CASE flags[i] = "pipe" /\ pipes[i][2] \notin Closable
  <2>1. UNCHANGED <<open, streams, pipes, failed>> /\ pc' = "aborted" /\ i' = 0
    BY <1>8 DEF OpenStream, Goto
  <2>2. TypeInv'
    <3>1. i' \in Stdio
      BY <2>1
    <3> QED
      BY <1>1, <2>1, <3>1 DEF TypeInv
  <2> QED
    BY <2>1, <2>2 DEF StdioInv, BeforeFork, AfterFork, Duplicating, Moving, ChildOnly,
       Opening, Cleaning, StdioArrives, SpawnLeaksNothing
<1>9. CASE flags[i] = "pipe" /\ pipes[i][2] \in Closable
  <2>1. /\ pipes' = [pipes EXCEPT ![i][2] = -1]
        /\ \/ /\ open' = open \ {pipes[i][2]}
              /\ streams' = streams \cup {pipes[i][1]}
              /\ UNCHANGED failed /\ Advance("done")
           \/ /\ open' = open \ (streams \cup {pipes[i][2]})
              /\ streams' = {} /\ failed' = TRUE
              /\ Goto("cleanup")
    BY <1>9 DEF OpenStream
  <2>2. /\ [pipes[i] EXCEPT ![2] = -1] = <<pipes[i][1], -1>>
        /\ <<pipes[i][1], -1>> \in (-1 .. MaxFd) \X (-1 .. MaxFd)
    <3>1. pipes[i] \in (-1 .. MaxFd) \X (-1 .. MaxFd) /\ -1 \in -1 .. MaxFd
      BY <1>1, <1>2
    <3> QED
      BY <3>1, SecondReplaced
  <2>3. /\ pipes' \in [Stdio -> (-1 .. MaxFd) \X (-1 .. MaxFd)]
        /\ \A k \in Stdio : pipes'[k][1] = pipes[k][1]
        /\ \A k \in Stdio : k # i => pipes'[k][2] = pipes[k][2]
        /\ pipes'[i][2] = -1
    <3>1. pipes' = [pipes EXCEPT ![i] = <<pipes[i][1], -1>>]
      BY <2>1, <2>2
    <3>2. <<pipes[i][1], -1>>[1] = pipes[i][1] /\ <<pipes[i][1], -1>>[2] = -1
      OBVIOUS
    <3> QED
      BY <1>1, <1>2, <2>2, <3>1, <3>2
  <2>4. i \in Made
    BY <1>1, <1>9 DEF Made
  <2>5. ASSUME ~Misplaced
        PROVE  /\ pipes[i][2] = wanted[i] /\ pipes[i][1] \in Fds /\ ~(i < i)
               /\ \A k \in Stdio : flags[k] = "ignore" => pipes'[k][2] = -1
               /\ \A k \in Made : pipes'[k][2] = IF k < i + 1 THEN -1 ELSE wanted[k]
               /\ {j \in Made : j < i + 1} = {j \in Made : j < i} \cup {i}
               /\ {j \in Made : j >= i} = {j \in Made : j >= i + 1} \cup {i}
               /\ wanted[i] \notin ParentFds
               /\ \A k \in Made : /\ pipes[k][1] # wanted[i]
                                  /\ k # i => wanted[k] # wanted[i]
    <3>1. ~(i < i)
      BY <1>1
    <3>2. pipes[i][2] = wanted[i]
      BY <1>5, <2>4, <2>5, <3>1
    <3>3. \A k \in Made : /\ k < i + 1 <=> k < i \/ k = i
                          /\ k >= i <=> k >= i + 1 \/ k = i
                          /\ k < i => k # i
      BY <1>1, <1>4
    <3>4. \A k \in Made : pipes'[k][2] = IF k < i + 1 THEN -1 ELSE wanted[k]
      BY <1>4, <1>5, <2>3, <2>5, <3>3
    <3>5. /\ {j \in Made : j < i + 1} = {j \in Made : j < i} \cup {i}
          /\ {j \in Made : j >= i} = {j \in Made : j >= i + 1} \cup {i}
      BY <2>4, <3>3
    <3>6. Pairs(wanted)
      BY <1>5, <2>5
    <3>7. \A k \in Stdio : flags[k] = "ignore" => pipes'[k][2] = -1
      BY <1>5, <2>3, <2>5
    <3> QED
      BY <2>4, <3>1, <3>2, <3>4, <3>5, <3>6, <3>7 DEF Pairs
  <2>6. CASE /\ open' = open \ {pipes[i][2]}
             /\ streams' = streams \cup {pipes[i][1]}
             /\ UNCHANGED failed /\ Advance("done")
    <3>1. TypeInv'
      <4>1. pipes[i][1] \in open \/ Misplaced
        BY <1>5, <2>4
      <4> QED
        BY <1>1, <1>3, <2>3, <2>6, <4>1 DEF TypeInv
    <3>2. ASSUME ~Misplaced
          PROVE  /\ streams' = {pipes[k][1] : k \in {j \in Made : j < i + 1}}
                 /\ open' = ParentFds \cup {pipes[k][1] : k \in Made}
                                \cup {wanted[k] : k \in {j \in Made : j >= i + 1}}
      <4>1. streams' = {pipes[k][1] : k \in {j \in Made : j < i + 1}}
        BY <1>5, <2>5, <2>6, <3>2
      <4>2. {wanted[k] : k \in {j \in Made : j >= i}}
              = {wanted[k] : k \in {j \in Made : j >= i + 1}} \cup {wanted[i]}
        BY <2>5, <3>2
      <4>3. wanted[i] \notin {wanted[k] : k \in {j \in Made : j >= i + 1}}
        <5>1. \A k \in Made : k >= i + 1 => k # i
          BY <1>1, <1>4
        <5> QED
          BY <2>5, <3>2, <5>1
      <4>4. wanted[i] \notin {pipes[k][1] : k \in Made}
        BY <2>5, <3>2
      <4>5. open = ParentFds \cup {pipes[k][1] : k \in Made}
                             \cup {wanted[k] : k \in {j \in Made : j >= i}}
        BY <1>5, <3>2
      <4> QED
        BY <2>5, <2>6, <3>2, <4>1, <4>2, <4>3, <4>4, <4>5
    <3> QED
      BY <1>5, <1>6, <2>3, <2>5, <2>6, <3>1, <3>2
  <2>7. CASE /\ open' = open \ (streams \cup {pipes[i][2]})
             /\ streams' = {} /\ failed' = TRUE
             /\ Goto("cleanup")
    <3>1. pc' = "cleanup" /\ i' \in Stdio
      BY <2>7 DEF Goto
    <3>2. TypeInv'
      BY <1>1, <2>3, <2>7, <3>1 DEF TypeInv
    <3>3. Cleaning'
      <4>0. streams' = {} /\ Misplaced' = Misplaced
        BY <1>4, <2>7
      <4> SUFFICES ASSUME ~Misplaced PROVE open' \ Cleaned' = ParentFds
        BY <4>0 DEF Cleaning
      <4>1. \A k \in Made : k \in Stdio /\ flags'[k] # "inherit"
        BY <1>1, <1>4
      <4>2. {pipes[k][1] : k \in Made} \subseteq Cleaned'
        <5> SUFFICES ASSUME NEW k \in Made PROVE pipes[k][1] \in Cleaned'
          OBVIOUS
        <5>1. pipes[k][1] \in {pipes'[k][1], pipes'[k][2]}
          BY <2>3, <4>1
        <5> QED
          BY <4>1, <5>1 DEF Cleaned
      <4>3. {wanted[k] : k \in {j \in Made : j >= i}} \subseteq Cleaned' \cup {wanted[i]}
        <5> SUFFICES ASSUME NEW k \in Made, k >= i, k # i PROVE wanted[k] \in Cleaned'
          OBVIOUS
        <5>1. ~(k < i + 1)
          BY <1>1, <1>4
        <5>2. pipes'[k][2] = wanted[k]
          BY <2>5, <5>1
        <5> QED
          BY <4>1, <5>2 DEF Cleaned
      <4>4. Cleaned' \cap ParentFds = {}
        <5> SUFFICES ASSUME NEW k \in Stdio, flags[k] # "inherit"
                     PROVE  pipes'[k][1] \notin ParentFds /\ pipes'[k][2] \notin ParentFds
          BY <1>1 DEF Cleaned
        <5>1. -1 \notin ParentFds
          BY TopFits
        <5>2. CASE k \in Made
          <6>1. /\ pipes[k][1] \notin ParentFds /\ wanted[k] \notin ParentFds
            BY <1>5, <5>2 DEF Pairs
          <6>2. pipes'[k][2] = -1 \/ pipes'[k][2] = wanted[k]
            BY <2>5, <5>2
          <6> QED
            BY <2>3, <5>1, <6>1, <6>2
        <5>3. CASE k \notin Made
          <6>1. flags[k] = "ignore" /\ k # i
            BY <1>1, <2>4, <5>3 DEF TypeInv, Made
          <6>2. pipes[k][1] = -1 /\ pipes'[k][2] = -1
            BY <1>5, <2>5, <6>1
          <6>3. pipes'[k][1] = -1
            BY <2>3, <6>2
          <6> QED
            BY <5>1, <6>2, <6>3
        <5> QED
          BY <5>2, <5>3
      <4>5. /\ streams \cap ParentFds = {} /\ pipes[i][2] \notin ParentFds
        <5>1. \A k \in Made : pipes[k][1] \notin ParentFds
          BY <1>5 DEF Pairs
        <5> QED
          BY <1>5, <2>5, <5>1
      <4> QED
        BY <1>5, <2>5, <2>7, <4>2, <4>3, <4>4, <4>5
    <3> QED
      BY <3>1, <3>2, <3>3, StillCleaning
  <2> QED
    BY <2>1, <2>6, <2>7
<1> QED
  BY <1>7, <1>8, <1>9

\* The error section closes what is left of the pairs.
LEMMA CleanupKeeps ==
  ASSUME StdioBounds, StdioInv, Cleanup
  PROVE  StdioInv'
<1>1. /\ TypeInv /\ Cleaning /\ pc = "cleanup" /\ pc' = "done" /\ i' = 0
      /\ UNCHANGED <<how, flags, streams, failed, pipes, wanted, error_fd, file, cloexec>>
      /\ open' = open \ Cleaned
  BY DEF StdioInv, Cleanup, Goto, child
<1>2. TypeInv'
  <2>1. i' \in Stdio
    BY <1>1 DEF StdioBounds, Stdio
  <2> QED
    BY <1>1, <2>1 DEF TypeInv
<1>3. SpawnLeaksNothing'
  <2>1. Misplaced' = Misplaced
    BY <1>1 DEF Misplaced
  <2> QED
    BY <1>1, <2>1 DEF SpawnLeaksNothing, Cleaning
<1> QED
  BY <1>1, <1>2, <1>3 DEF StdioInv, BeforeFork, AfterFork, Duplicating, Moving,
     ChildOnly, Opening, Cleaning, StdioArrives

\* Every step of uv_spawn, of its parent and its child.
LEMMA StdioNext ==
  ASSUME StdioBounds, StdioInv, [Next]_vars
  PROVE  StdioInv'
<1>1. CASE UNCHANGED vars
  <2>1. UNCHANGED <<how, flags, open, streams, failed, pipes, wanted, error_fd, file, cloexec, i, pc>>
    BY <1>1 DEF vars, parent, child
  <2>2. TypeInv' /\ Duplicating' /\ Moving' /\ ChildOnly' /\ StdioArrives'
    BY <2>1 DEF StdioInv, TypeInv, Duplicating, Moving, ChildOnly, StdioArrives, Overlooked
  <2>3. /\ Made' = Made /\ Given' = Given /\ Reached' = Reached /\ Misplaced' = Misplaced
        /\ Cleaned' = Cleaned
    BY <2>1 DEF Made, Given, Reached, Misplaced, Cleaned
  <2>4. BeforeFork' /\ AfterFork'
    BY <2>1, <2>3 DEF StdioInv, BeforeFork, AfterFork, Pairs
  <2>5. Opening' /\ Cleaning' /\ SpawnLeaksNothing'
    BY <2>1, <2>3 DEF StdioInv, Opening, Cleaning, SpawnLeaksNothing, Pairs
  <2> QED
    BY <2>2, <2>4, <2>5 DEF StdioInv
<1> QED
  BY <1>1, InitStdioKeeps, ForkKeeps, PreDupKeeps, MoveKeeps, ExecutedKeeps,
     OpenStreamKeeps, CleanupKeeps DEF Next

(***************************************************************************)
(* The child of uv_spawn executes with every file at its number and with   *)
(* nothing else, for any number of containers and any open descriptors,    *)
(* however numbers are swapped, shared and taken.                          *)
(***************************************************************************)
THEOREM FilesArrive ==
  ASSUME StdioBounds
  PROVE  Spec => []StdioArrives
<1>1. Init => StdioInv
  BY StdioInit
<1>2. StdioInv /\ [Next]_vars => StdioInv'
  BY StdioNext
<1>3. StdioInv => StdioArrives
  BY DEF StdioInv
<1> QED
  BY <1>1, <1>2, <1>3, PTL DEF Spec

(***************************************************************************)
(* uv_spawn gives back every descriptor it made but those of the user's    *)
(* streams, whichever of its steps fails, and none of the caller's.        *)
(***************************************************************************)
THEOREM NothingLeaks ==
  ASSUME StdioBounds
  PROVE  Spec => []SpawnLeaksNothing
<1>1. Init => StdioInv
  BY StdioInit
<1>2. StdioInv /\ [Next]_vars => StdioInv'
  BY StdioNext
<1>3. StdioInv => SpawnLeaksNothing
  BY DEF StdioInv
<1> QED
  BY <1>1, <1>2, <1>3, PTL DEF Spec
=============================================================================
