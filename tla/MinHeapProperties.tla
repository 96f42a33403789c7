------------------------- MODULE MinHeapProperties --------------------------
(***************************************************************************)
(* What makes lib/min_heap correct.                                        *)
(***************************************************************************)
EXTENDS MinHeap

\* The variables have their types, and the places in use hold elements.
TypeOK ==
    /\ nr \in 0..Size
    /\ data \in [0..(Size - 1) -> Elements \cup {NoElement}]
    /\ \A k \in 0..(nr - 1) : data[k] \in Elements
    /\ op \in {"idle", "down", "up"}
    /\ pos \in Nat /\ low \in Nat
    /\ op = "idle" => pos = 0 /\ low = 0
    /\ op = "up" => pos < nr /\ low = 0
    /\ op = "down" => low <= pos

IsChild(c, p) == c = Left(p) \/ c = Right(p)

\* The order between a place and its parent, and between a place and the parent
\* of its parent when the loop stands between the two.
Ordered(c, p) == ~less(data[c], data[p])
OrderedOver(m) == \A c, p \in 0..(nr - 1) : IsChild(c, m) /\ IsChild(m, p) /\ p >= low => Ordered(c, p)

\* Between calls no element is less than its parent.
HeapOrder == op = "idle" => \A c, p \in 0..(nr - 1) : IsChild(c, p) => Ordered(c, p)

\* While an element sinks, only its own children may be less than it, and the
\* places before low are not heapified yet.
SinkOrder ==
    op = "down" =>
      /\ \A c, p \in 0..(nr - 1) : IsChild(c, p) /\ p >= low /\ p # pos => Ordered(c, p)
      /\ OrderedOver(pos)

\* While an element rises, only it may be less than its parent.
RiseOrder ==
    op = "up" =>
      /\ \A c, p \in 0..(nr - 1) : IsChild(c, p) /\ c # pos => Ordered(c, p)
      /\ OrderedOver(pos)

\* At every round of every sift the order fails at most at the place of the loop,
\* and only in the direction in which the loop will go on.
SiftOrder == SinkOrder /\ RiseOrder

\* Between calls nothing in the heap is less than the element at place 0, the
\* one the caller reads and min_heap_pop removes.
RootIsMinimal == op = "idle" => \A k \in 0..(nr - 1) : ~less(data[k], data[0])

\* How many times e is in the heap.
Count(e) == Cardinality({k \in 0..(nr - 1) : data[k] = e})

\* The callbacks' less is a strict weak order.
StrictWeakOrder ==
    /\ \A a, b \in Elements : less(a, b) => ~less(b, a)
    /\ \A a, b, c \in Elements : ~less(a, b) /\ ~less(b, c) => ~less(a, c)

-----------------------------------------------------------------------------
\* The heap implements the queue of MinQueue: a call has its effect with its
\* first writes, what pop and pop_push take away is minimal, and the rounds of
\* the loops move elements about without losing or doubling one.
Queue == INSTANCE MinQueue WITH content <- [e \in Elements |-> Count(e)]
ImplementsQueue == Queue!Spec
=============================================================================
