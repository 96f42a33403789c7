------------------------------ MODULE MinQueue ------------------------------
(***************************************************************************)
(* What lib/min_heap promises to its callers: a bag of at most Size        *)
(* elements from which one that no other is less than is taken out.        *)
(*                                                                         *)
(* MinHeap.tla is shown to implement this module.                          *)
(***************************************************************************)
EXTENDS Integers, FiniteSets

CONSTANTS Elements, Less, Size

VARIABLE content      \* how many times each element is in the queue

Total(b) == Cardinality({c \in Elements \X (1..Size) : c[2] <= b[c[1]]})
Minimal(e) == content[e] > 0 /\ \A f \in Elements : <<f, e>> \in Less => content[f] = 0

Init == content = [e \in Elements |-> 0]

\* The caller fills the array of an empty heap itself and has it heapified.
Fill ==
    /\ Total(content) = 0
    /\ content' \in [Elements -> 0..Size] /\ Total(content') <= Size

Push(e) == Total(content) < Size /\ content' = [content EXCEPT ![e] = @ + 1]

Pop == \E e \in Elements : Minimal(e) /\ content' = [content EXCEPT ![e] = @ - 1]

\* "Remove the minimum element and then push the given element."
PopPush(f) ==
    \E e \in Elements :
      /\ Minimal(e)
      /\ LET rest == [content EXCEPT ![e] = @ - 1]
         IN  content' = [rest EXCEPT ![f] = @ + 1]

Next == Fill \/ Pop \/ \E e \in Elements : Push(e) \/ PopPush(e)

Spec == Init /\ [][Next]_content
=============================================================================
