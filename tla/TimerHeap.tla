----------------------------- MODULE TimerHeap ------------------------------
(***************************************************************************)
(* The binary heap of src/heap-inl.h.  A heap is the sequence of its nodes *)
(* in the order of the rows: the path the code computes from the bits of n *)
(* leads to the node at place n, whose parent is at place n \div 2.        *)
(* "less" is the relation that less_than computes.                         *)
(***************************************************************************)
EXTENDS Naturals, Sequences, SequencesExt

\* Mutant: only one of the two places is written.
SwapNodesHalf(h, i, j) == [h EXCEPT ![i] = h[j]]

\* heap_node_swap.
SwapNodes(h, i, j) == [h EXCEPT ![i] = h[j], ![j] = h[i]]

RECURSIVE WalkUp(_, _, _)
WalkUp(h, i, less) ==
  IF i > 1 /\ <<h[i], h[i \div 2]>> \in less
  THEN WalkUp(SwapNodes(h, i \div 2, i), i \div 2, less)
  ELSE h

\* The place of the smallest of a node and its children.
Smallest(h, i, less) ==
  LET Better(a, b) == IF a <= Len(h) /\ <<h[a], h[b]>> \in less THEN a ELSE b
  IN Better(2 * i + 1, Better(2 * i, i))

\* Walk down, then up again from where that ends.
RECURSIVE WalkDown(_, _, _)
WalkDown(h, i, less) ==
  LET s == Smallest(h, i, less) IN
  IF s = i THEN WalkUp(h, i, less) ELSE WalkDown(SwapNodes(h, i, s), s, less)

heap_insert(h, x, less) == WalkUp(Append(h, x), Len(h) + 1, less)

\* Mutant: the node that replaces the removed one only moves down.
RECURSIVE WalkDownOnly(_, _, _)
WalkDownOnly(h, i, less) ==
  LET s == Smallest(h, i, less) IN
  IF s = i THEN h ELSE WalkDownOnly(SwapNodes(h, i, s), s, less)

heap_remove_down(h, x, less) ==
  LET i == CHOOSE j \in 1 .. Len(h) : h[j] = x IN
  IF x = Last(h) THEN Front(h)
  ELSE WalkDownOnly(Front([h EXCEPT ![i] = Last(h)]), i, less)

\* The node at the end, "max" in the code, replaces the removed one.
heap_remove(h, x, less) ==
  LET i == CHOOSE j \in 1 .. Len(h) : h[j] = x IN
  IF x = Last(h) THEN Front(h)
  ELSE WalkDown(Front([h EXCEPT ![i] = Last(h)]), i, less)

IsHeap(h, less) ==
  \A i \in 2 .. Len(h) : <<h[i], h[i \div 2]>> \notin less

-----------------------------------------------------------------------------
(* All heaps that insertions and removals of Keys can build.               *)

CONSTANT Keys   \* a set of numbers

VARIABLE heap

KeyLess == {<<a, b>> \in Keys \X Keys : a < b}

Init == heap = <<>>

Next ==
  \/ \E x \in Keys \ ToSet(heap) : heap' = heap_insert(heap, x, KeyLess)
  \/ \E x \in ToSet(heap) : heap' = heap_remove(heap, x, KeyLess)

Spec == Init /\ [][Next]_heap

(***************************************************************************)
(* After any sequence of heap_insert and heap_remove no node is less than  *)
(* its parent, so that heap_min is the minimum.                            *)
(***************************************************************************)
HeapOrder == IsHeap(heap, KeyLess)

(***************************************************************************)
(* One call changes the contents by one node: none is lost or doubled by   *)
(* the swaps.                                                              *)
(***************************************************************************)
OneNodeAtATime ==
  [][/\ Len(heap') \in {Len(heap) - 1, Len(heap) + 1}
     /\ \E x \in Keys : \/ ToSet(heap') = ToSet(heap) \cup {x}
                        \/ ToSet(heap) = ToSet(heap') \cup {x}
     /\ IsInjective(heap')]_heap
=============================================================================
