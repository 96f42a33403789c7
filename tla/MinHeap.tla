------------------------------ MODULE MinHeap -------------------------------
(***************************************************************************)
(* The binary heap of lib/min_heap in its array.  A call is its first      *)
(* writes and then one step per round of the sift loop it runs.            *)
(*                                                                         *)
(* Name_Fault is Name with a plausible mistake; see Workqueue.             *)
(***************************************************************************)
EXTENDS Integers, FiniteSets

CONSTANTS
    Elements,       \* what the caller puts into the heap
    Less,           \* <<a, b>>: func->less(a, b)
    Size,           \* heap->size
    NoElement       \* an array place nothing was written to

ASSUME HeapAssumption ==
    /\ Size \in Nat \ {0}
    /\ Less \subseteq Elements \X Elements
    /\ NoElement \notin Elements

VARIABLES
    data, nr,       \* struct min_heap
    op,             \* the running loop: "idle", "down" or "up"
    pos,            \* the place it has come to
    low             \* i of the loop in min_heapify_all, 0 in the other calls

vars == <<data, nr, op, pos, low>>

less(a, b) == <<a, b>> \in Less
Left(p) == 2 * p + 1
Right(p) == 2 * p + 2
Parent_OffByOne(c) == c \div 2
Parent(c) == (c - 1) \div 2

\* func->swp
Swapped(a, b) == [data EXCEPT ![a] = data[b], ![b] = data[a]]

Init ==
    /\ data = [k \in 0..(Size - 1) |-> NoElement] /\ nr = 0
    /\ op = "idle" /\ pos = 0 /\ low = 0

Idle == op' = "idle" /\ pos' = 0 /\ low' = 0
Down(from) == op' = "down" /\ pos' = from /\ low' = from

FirstParent(n) == n \div 2

\* The caller has filled n places of a heap that was empty.
min_heapify_all(n) ==
    /\ op = "idle" /\ nr = 0
    /\ nr' = n
    /\ \E v \in [0..(n - 1) -> Elements] :
         data' = [k \in 0..(Size - 1) |-> IF k < n THEN v[k] ELSE data[k]]
    /\ Down(FirstParent(n))

min_heap_pop ==
    /\ op = "idle" /\ nr > 0
    /\ nr' = nr - 1
    /\ data' = [data EXCEPT ![0] = data[nr - 1]]
    /\ Down(0)

\* There is no test of nr: the callers pop from a heap that has an element.
min_heap_pop_push(e) ==
    /\ op = "idle" /\ nr > 0
    /\ data' = [data EXCEPT ![0] = e]
    /\ Down(0) /\ UNCHANGED nr

HasRoom == nr < Size

min_heap_push(e) ==
    /\ op = "idle" /\ HasRoom
    /\ data' = [data EXCEPT ![nr] = e]
    /\ nr' = nr + 1
    /\ op' = "up" /\ pos' = nr /\ low' = 0

-----------------------------------------------------------------------------
(* min_heapify, in min_heap_pop, min_heap_pop_push and min_heapify_all.    *)

Lesser(a, b) == IF less(data[a], data[b]) THEN a ELSE b

smallest_LeftOnly(p) == Lesser(Left(p), p)
smallest(p) ==
    IF Right(p) < nr THEN Lesser(Right(p), Lesser(Left(p), p)) ELSE Lesser(Left(p), p)

Settled(p) == Left(p) < nr => smallest(p) = p

SiftDown ==
    /\ op = "down" /\ ~Settled(pos)
    /\ data' = Swapped(smallest(pos), pos)
    /\ pos' = smallest(pos)
    /\ UNCHANGED <<nr, op, low>>

MoreToHeapify_SkipsRoot == low > 1
MoreToHeapify == low > 0

\* The loop breaks; min_heapify_all goes on with the place before.
SiftedDown ==
    /\ op = "down" /\ Settled(pos)
    /\ IF MoreToHeapify THEN Down(low - 1) ELSE Idle
    /\ UNCHANGED <<data, nr>>

-----------------------------------------------------------------------------
(* The loop of min_heap_push.                                              *)

InPlace(c) == c > 0 => less(data[Parent(c)], data[c])

SiftUp ==
    /\ op = "up" /\ ~InPlace(pos)
    /\ data' = Swapped(Parent(pos), pos)
    /\ pos' = Parent(pos)
    /\ UNCHANGED <<nr, op, low>>

SiftedUp == op = "up" /\ InPlace(pos) /\ Idle /\ UNCHANGED <<data, nr>>

-----------------------------------------------------------------------------
Sift == SiftDown \/ SiftedDown \/ SiftUp \/ SiftedUp

Next ==
    \/ Sift \/ min_heap_pop
    \/ \E n \in 0..Size : min_heapify_all(n)
    \/ \E e \in Elements : min_heap_push(e) \/ min_heap_pop_push(e)

Spec == Init /\ [][Next]_vars
=============================================================================
