---------------------------- MODULE MCThreadPool ----------------------------
(***************************************************************************)
(* ThreadPool for TLC: which loop each work belongs to, and the symmetry   *)
(* of the workers.                                                         *)
(***************************************************************************)
EXTENDS ThreadPool, TLC

CONSTANTS l1, l2

\* The slow works belong to the second loop.
TwoLoops == [w \in Works |-> IF w \in Slow THEN l2 ELSE l1]

Symmetry == Permutations(Workers)
=============================================================================
