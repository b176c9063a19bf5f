--------------------------- MODULE WinCommandLine ---------------------------
(***************************************************************************)
(* What uv_spawn gives a child process on Windows (src/win/process.c): one *)
(* command line from which the child parses its arguments again, and one   *)
(* sorted environment block to which the variables that Windows needs are  *)
(* added.  Both are written into buffers that were sized beforehand.       *)
(*                                                                         *)
(* A character is one of those that quoting tells apart, a variable is its *)
(* name, a number in the order of env_strncmp.                             *)
(***************************************************************************)
EXTENDS Integers, Sequences, SequencesExt, FiniteSetsExt

CONSTANTS
  MaxLen,     \* bound: characters of all arguments
  MaxArgs,    \* bound: arguments
  MaxVars,    \* bound: entries of options->env
  Names,      \* names of variables, numbers from 1 on
  Required    \* required_vars, a subset of them

BS == "backslash"
QU == "quote"
SP == "space"
Chars == {BS, QU, SP, "letter"}

VARIABLES
  args,     \* options->args
  env,      \* options->env; 0 is an entry without '='
  parent    \* the required variables that are set in this process

vars == <<args, env, parent>>

Init == args = <<>> /\ env = <<>> /\ parent = {}

NewArg ==
  /\ env = <<>> /\ parent = {} /\ Len(args) < MaxArgs
  /\ args' = Append(args, <<>>) /\ UNCHANGED <<env, parent>>

Length(as) == FoldLeft(LAMBDA n, a : n + Len(a), 0, as)

Type ==
  /\ args # <<>> /\ Length(args) < MaxLen
  /\ \E c \in Chars : args' = [args EXCEPT ![Len(args)] = Append(@, c)]
  /\ UNCHANGED <<env, parent>>

AddVar ==
  /\ args = <<>> /\ Len(env) < MaxVars
  /\ \E v \in Names \cup {0} : env' = Append(env, v)
  /\ parent' \in SUBSET Required /\ UNCHANGED args

Next == NewArg \/ Type \/ AddVar

Spec == Init /\ [][Next]_vars

-----------------------------------------------------------------------------
(* The command line.                                                       *)

Has(arg, c) == c \in Range(arg)

\* Mutant: backslashes in front of the closing quote are not doubled.
EscapeOpen(arg) ==
  FoldRight(LAMBDA c, e : IF (e.hit /\ c = BS) \/ c = QU
                          THEN [out |-> <<BS, c>> \o e.out, hit |-> TRUE]
                          ELSE [out |-> <<c>> \o e.out, hit |-> FALSE],
            arg, [out |-> <<>>, hit |-> FALSE]).out

\* The loop of quote_cmd_arg, from the end: a quote, and the backslashes in
\* front of one, are escaped.
Escape(arg) ==
  FoldRight(LAMBDA c, e : IF (e.hit /\ c = BS) \/ c = QU
                          THEN [out |-> <<BS, c>> \o e.out, hit |-> TRUE]
                          ELSE [out |-> <<c>> \o e.out, hit |-> FALSE],
            arg, [out |-> <<>>, hit |-> TRUE]).out

\* quote_cmd_arg.
Quote(arg) ==
  IF arg = <<>> THEN <<QU, QU>>
  ELSE IF ~Has(arg, SP) /\ ~Has(arg, QU) THEN arg
  ELSE IF ~Has(arg, QU) /\ ~Has(arg, BS) THEN <<QU>> \o arg \o <<QU>>
  ELSE <<QU>> \o Escape(arg) \o <<QU>>

\* make_program_args: the arguments with a space between, and the final NUL.
CommandLine == FoldLeft(LAMBDA l, a : l \o Quote(a) \o <<SP>>, <<>>, args)

\* Mutant: no room for the quotes around an argument.
DstLenTight == FoldLeft(LAMBDA n, a : n + 2 * (Len(a) + 1), 0, args)

\* dst_len: every character and NUL twice, and two quotes.
DstLen == FoldLeft(LAMBDA n, a : n + 2 * (Len(a) + 1) + 2, 0, args)

(***************************************************************************)
(* How a C program takes its command line apart: 2n backslashes and a      *)
(* quote are n backslashes and a delimiter, 2n+1 are n and a quote, other  *)
(* backslashes are themselves; a space outside quotes ends an argument.    *)
(***************************************************************************)
RECURSIVE Parse(_, _, _)
Parse(s, st, n) ==
  LET BSs(k) == [i \in 1..k |-> BS] IN
  IF s = <<>> THEN st.out
  ELSE LET c == Head(s)  t == Tail(s) IN
       IF c = BS THEN Parse(t, [st EXCEPT !.open = TRUE], n + 1)
       ELSE IF c = QU /\ n % 2 = 0
       THEN Parse(t, [st EXCEPT !.arg = @ \o BSs(n \div 2), !.in = ~@, !.open = TRUE], 0)
       ELSE IF c = QU
       THEN Parse(t, [st EXCEPT !.arg = @ \o BSs(n \div 2) \o <<QU>>, !.open = TRUE], 0)
       ELSE IF c = SP /\ ~st.in
       THEN Parse(t, [st EXCEPT !.out = IF st.open THEN Append(@, st.arg \o BSs(n)) ELSE @,
                                !.arg = <<>>, !.open = FALSE], 0)
       ELSE Parse(t, [st EXCEPT !.arg = @ \o BSs(n) \o <<c>>, !.open = TRUE], 0)

Argv(s) == Parse(s, [out |-> <<>>, arg |-> <<>>, in |-> FALSE, open |-> FALSE], 0)

-----------------------------------------------------------------------------
(* The environment block.                                                  *)

\* The entries with a '=', sorted.
Block == SortSeq(SelectSeq(env, LAMBDA v : v # 0), LAMBDA v, w : v < w)
RequiredVars == SortSeq(SetToSeq(Required), LAMBDA v, w : v < w)

\* The comparison of a required variable with the next entry.
Compare(block, req) ==
  IF req = <<>> THEN 1
  ELSE IF block = <<>> THEN -1
  ELSE IF Head(req) < Head(block) THEN -1 ELSE IF Head(req) = Head(block) THEN 0 ELSE 1

\* Mutant: a required variable that is there is not ticked off.
AfterEntryAgain(block, req) == req

\* A required variable is ticked off when the entry is that variable.
AfterEntry(block, req) == IF Compare(block, req) = 0 THEN Tail(req) ELSE req

\* The third pass of make_program_env: the variables to be added.
RECURSIVE Missing(_, _)
Missing(block, req) ==
  IF req = <<>> THEN 0
  ELSE IF Compare(block, req) < 0
  THEN (IF Head(req) \in parent THEN 1 ELSE 0) + Missing(block, Tail(req))
  ELSE Missing(Tail(block), AfterEntry(block, req))

\* The final pass: copy in sort order, insert what is missing.
RECURSIVE Merge(_, _)
Merge(block, req) ==
  IF block = <<>> /\ req = <<>> THEN <<>>
  ELSE IF Compare(block, req) < 0
  THEN (IF Head(req) \in parent THEN <<Head(req)>> ELSE <<>>) \o Merge(block, Tail(req))
  ELSE <<Head(block)>> \o Merge(Tail(block), AfterEntry(block, req))

-----------------------------------------------------------------------------
(* What the child sees.                                                    *)

\* The child parses exactly the arguments that uv_spawn was given, whatever
\* quotes, spaces and backslashes they have.
ArgumentsArrive == Argv(CommandLine) = args

\* The command line fits the buffer that make_program_args allocated, as
\* its assertion says.
CommandLineFits == Len(CommandLine) <= DstLen

\* The block is sorted, has all that the user gave and, once, every
\* required variable that the user left out and this process has; and its
\* size is the one that was computed.
EnvironmentComplete ==
  LET out == Merge(Block, RequiredVars)
      count(s, v) == Len(SelectSeq(s, LAMBDA w : w = v))
  IN /\ \A i \in 2..Len(out) : out[i - 1] <= out[i]
     /\ \A v \in Names :
          count(out, v) = IF v \in Range(env) \/ v \notin parent THEN count(env, v) ELSE 1
     /\ Len(out) = Len(Block) + Missing(Block, RequiredVars)
=============================================================================
