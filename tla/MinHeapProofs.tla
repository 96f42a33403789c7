--------------------------- MODULE MinHeapProofs ----------------------------
(***************************************************************************)
(* The order of the heap, proved for every set of elements, every strict   *)
(* weak order on them and every size.                                      *)
(*                                                                         *)
(* Between calls the invariant is HeapOrder.  Inside a loop the order is   *)
(* broken at pos only, and OrderedOver says that it would hold without     *)
(* pos: that is what makes the next swap safe.  In the second half the     *)
(* heap is shown to implement the queue of MinQueue.                       *)
(***************************************************************************)
EXTENDS MinHeapProperties, DataTheorems, FiniteSetTheorems, FunctionTheorems, TLAPS

HInv == TypeOK /\ HeapOrder /\ SinkOrder /\ RiseOrder

-----------------------------------------------------------------------------
(* Places.                                                                 *)

\* (pos - 1) / 2 is the place whose child pos is.
LEMMA ParentIsParent ==
    ASSUME NEW c \in Nat, c > 0
    PROVE  Parent(c) \in Nat /\ Parent(c) < c /\ IsChild(c, Parent(c))
BY SMT DEF Parent, IsChild, Left, Right

\* A child lies behind its parent, and has one parent.
LEMMA ChildFacts ==
    ASSUME NEW c \in Nat, NEW p \in Nat, IsChild(c, p)
    PROVE  p < c /\ \A q \in Nat : IsChild(c, q) => q = p
BY SMT DEF IsChild, Left, Right

\* The smallest of a place and its children is one of them, no child is less
\* than it, and it is less than the place when it is another one.
LEMMA SmallestIsSmallest ==
    ASSUME TypeOK, StrictWeakOrder, NEW p \in Nat, Left(p) < nr
    PROVE  /\ smallest(p) \in 0..(nr - 1)
           /\ smallest(p) # p => IsChild(smallest(p), p) /\ less(data[smallest(p)], data[p])
           /\ \A c \in 0..(nr - 1) : IsChild(c, p) => Ordered(c, smallest(p))
<1> DEFINE l == Left(p)  r == Right(p)  m == Lesser(l, p)
<1>1. /\ l \in 0..(nr - 1) /\ p \in 0..(nr - 1) /\ l # p /\ r # p /\ l # r /\ r \in Nat
      /\ nr \in Nat
  BY SMT DEF TypeOK, Left, Right
<1>2. /\ data[l] \in Elements /\ data[p] \in Elements
      /\ r < nr => data[r] \in Elements
  BY <1>1, SMT DEF TypeOK
<1>3. /\ m \in {l, p}
      /\ m = l => less(data[l], data[p])
      /\ m = p => ~less(data[l], data[p])
  BY <1>1 DEF Lesser
<1>4. ~less(data[l], data[m])
  BY <1>2, <1>3 DEF StrictWeakOrder
<1> HIDE DEF l, r, m
<1>5. CASE r < nr
  <2>1. smallest(p) = Lesser(r, m)
    BY <1>5 DEF smallest, l, r, m
  <2>2. CASE less(data[r], data[m])
    <3>1. smallest(p) = r
      BY <2>1, <2>2 DEF Lesser
    <3>2. ~less(data[l], data[r])
      BY <1>2, <1>3, <1>4, <1>5, <2>2 DEF StrictWeakOrder
    <3>3. less(data[r], data[p])
      BY <1>2, <1>3, <1>5, <2>2 DEF StrictWeakOrder
    <3>4. ~less(data[r], data[r])
      BY <1>2, <1>5 DEF StrictWeakOrder
    <3>. QED  BY <1>1, <1>5, <3>1, <3>2, <3>3, <3>4, SMT DEF IsChild, Ordered, l, r
  <2>3. CASE ~less(data[r], data[m])
    <3>1. smallest(p) = m
      BY <2>1, <2>3 DEF Lesser
    <3>. QED  BY <1>1, <1>3, <1>4, <2>3, <3>1, SMT DEF IsChild, Ordered, l, r
  <2>. QED  BY <2>2, <2>3
<1>6. CASE ~(r < nr)
  <2>1. smallest(p) = m
    BY <1>6 DEF smallest, l, r, m
  <2>. QED  BY <1>1, <1>3, <1>4, <1>6, <2>1, SMT DEF IsChild, Ordered, l, r
<1>. QED  BY <1>5, <1>6

\* Where the loop of min_heapify breaks, the children of the place are in order.
LEMMA SettledIsOrdered ==
    ASSUME TypeOK, StrictWeakOrder, NEW p \in Nat, Settled(p)
    PROVE  \A c \in 0..(nr - 1) : IsChild(c, p) => Ordered(c, p)
<1>1. CASE Left(p) < nr
  BY <1>1, SmallestIsSmallest DEF Settled
<1>2. CASE ~(Left(p) < nr)
  BY <1>2, SMT DEF TypeOK, IsChild, Left, Right
<1>. QED  BY <1>1, <1>2

-----------------------------------------------------------------------------
(* The calls.                                                              *)

LEMMA InitHolds == ASSUME HeapAssumption, Init PROVE HInv
BY SMT DEF HeapAssumption, Init, HInv, TypeOK, HeapOrder, SinkOrder, RiseOrder

LEMMA HeapifyAllStep ==
    ASSUME HeapAssumption, HInv, NEW n \in 0..Size, min_heapify_all(n)
    PROVE  HInv'
<1>1. PICK v \in [0..(n - 1) -> Elements] :
         data' = [k \in 0..(Size - 1) |-> IF k < n THEN v[k] ELSE data[k]]
  BY DEF min_heapify_all
<1>2. /\ nr' = n /\ op' = "down" /\ pos' = FirstParent(n) /\ low' = FirstParent(n)
      /\ n \in Nat /\ Size \in Nat
  BY SMT DEF min_heapify_all, Down, HeapAssumption
<1>3. FirstParent(n) \in Nat /\ 2 * FirstParent(n) + 1 >= n
  BY <1>2, SMT DEF FirstParent
<1>4. TypeOK'
  <2>1. \A k \in 0..(n - 1) : data'[k] = v[k]
    BY <1>1, <1>2, SMT
  <2>2. data' \in [0..(Size - 1) -> Elements \cup {NoElement}]
    BY <1>1, <1>2, SMT DEF HInv, TypeOK
  <2>. QED  BY <1>2, <1>3, <2>1, <2>2, SMT DEF TypeOK
<1>5. SinkOrder'
  <2>1. \A c, p \in 0..(n - 1) : IsChild(c, p) => ~(p >= FirstParent(n))
    BY <1>2, <1>3, SMT DEF IsChild, Left, Right
  <2>2. \A c, p \in 0..(nr' - 1) : IsChild(c, p) /\ p >= low' /\ p # pos' => Ordered(c, p)'
    BY <1>2, <2>1
  <2>3. \A p \in 0..(nr' - 1) : ~(IsChild(pos', p) /\ p >= low')
    BY <1>2, <1>3, SMT DEF IsChild, Left, Right
  <2>. QED  BY <2>2, <2>3 DEF SinkOrder, OrderedOver
<1>. QED  BY <1>2, <1>4, <1>5 DEF HInv, HeapOrder, RiseOrder

\* pop and pop_push write at place 0 and leave the rest as it is.
LEMMA RootStep ==
    ASSUME HeapAssumption, HInv, op = "idle", NEW e \in Elements \cup {NoElement},
           NEW n \in 0..nr, nr' = n, n > 0 => e \in Elements,
           data' = [data EXCEPT ![0] = e], Down(0)
    PROVE  HInv'
<1>1. /\ op' = "down" /\ pos' = 0 /\ low' = 0
      /\ nr \in Nat /\ n \in Nat /\ n <= nr /\ nr <= Size
      /\ Size \in Nat \ {0} /\ data \in [0..(Size - 1) -> Elements \cup {NoElement}]
  BY SMT DEF HInv, TypeOK, Down, HeapAssumption
<1>2. TypeOK'
  <2>1. n \in 0..Size
    BY <1>1, SMT
  <2>2. data' \in [0..(Size - 1) -> Elements \cup {NoElement}]
    BY <1>1, SMT
  <2>3. ASSUME NEW k \in 0..(n - 1) PROVE data'[k] \in Elements
    <3>1. k \in 0..(nr - 1) /\ k \in 0..(Size - 1) /\ n > 0
      BY <1>1, <2>3, SMT
    <3>2. data[k] \in Elements
      BY <3>1 DEF HInv, TypeOK
    <3>. QED  BY <1>1, <3>1, <3>2
  <2>. QED  BY <1>1, <2>1, <2>2, <2>3 DEF TypeOK
<1>3. SinkOrder'
  <2>1. ASSUME NEW c \in 0..(n - 1), NEW p \in 0..(n - 1), IsChild(c, p), p # 0
        PROVE  Ordered(c, p)'
    <3>1. c # 0 /\ c \in 0..(nr - 1) /\ p \in 0..(nr - 1)
      BY <1>1, <2>1, SMT DEF IsChild, Left, Right
    <3>2. data'[c] = data[c] /\ data'[p] = data[p]
      BY <1>1, <2>1, <3>1, SMT
    <3>. QED  BY <2>1, <3>1, <3>2 DEF HInv, HeapOrder, Ordered, less
  <2>2. \A p \in 0..(n - 1) : ~IsChild(0, p)
    BY <1>1, SMT DEF IsChild, Left, Right
  <2>. QED  BY <1>1, <2>1, <2>2 DEF SinkOrder, OrderedOver
<1>. QED  BY <1>1, <1>2, <1>3 DEF HInv, HeapOrder, RiseOrder

LEMMA PopStep == ASSUME HeapAssumption, HInv, min_heap_pop PROVE HInv'
<1>1. nr' \in 0..nr /\ nr - 1 \in 0..(nr - 1)
  BY SMT DEF HInv, TypeOK, min_heap_pop
<1>. QED  BY <1>1, RootStep DEF HInv, TypeOK, min_heap_pop

LEMMA PopPushStep ==
    ASSUME HeapAssumption, HInv, NEW e \in Elements, min_heap_pop_push(e)
    PROVE  HInv'
<1>1. nr' \in 0..nr
  BY SMT DEF HInv, TypeOK, min_heap_pop_push
<1>. QED  BY <1>1, RootStep DEF min_heap_pop_push

LEMMA PushStep ==
    ASSUME HeapAssumption, HInv, NEW e \in Elements, min_heap_push(e)
    PROVE  HInv'
<1>1. /\ op' = "up" /\ pos' = nr /\ low' = 0 /\ nr' = nr + 1 /\ nr \in Nat /\ nr < Size
      /\ Size \in Nat /\ data \in [0..(Size - 1) -> Elements \cup {NoElement}]
      /\ data' = [data EXCEPT ![nr] = e]
  BY SMT DEF HInv, TypeOK, min_heap_push, HasRoom, HeapAssumption
<1>2. TypeOK'
  <2>1. data' \in [0..(Size - 1) -> Elements \cup {NoElement}]
    BY <1>1, SMT
  <2>2. \A k \in 0..(nr' - 1) : data'[k] \in Elements
    BY <1>1, SMT DEF HInv, TypeOK
  <2>. QED  BY <1>1, <2>1, <2>2, SMT DEF TypeOK
<1>3. RiseOrder'
  <2>1. ASSUME NEW c \in 0..(nr' - 1), NEW p \in 0..(nr' - 1), IsChild(c, p), c # nr
        PROVE  Ordered(c, p)'
    <3>1. c \in 0..(nr - 1) /\ p \in 0..(nr - 1) /\ p # nr
      BY <1>1, <2>1, SMT DEF IsChild, Left, Right
    <3>2. data'[c] = data[c] /\ data'[p] = data[p]
      BY <1>1, <3>1, <2>1, SMT
    <3>. QED  BY <2>1, <3>1, <3>2 DEF HInv, HeapOrder, Ordered, less, min_heap_push
  <2>2. \A c \in 0..(nr' - 1) : ~IsChild(c, nr)
    BY <1>1, SMT DEF IsChild, Left, Right
  <2>. QED  BY <1>1, <2>1, <2>2 DEF RiseOrder, OrderedOver
<1>. QED  BY <1>1, <1>2, <1>3 DEF HInv, HeapOrder, SinkOrder

-----------------------------------------------------------------------------
(* The rounds of the loops.                                                *)

\* Two places in use change their elements.
LEMMA SwapFacts ==
    ASSUME HeapAssumption, TypeOK, NEW x \in 0..(nr - 1), NEW y \in 0..(nr - 1),
           data' = Swapped(x, y), nr' = nr
    PROVE  /\ data' \in [0..(Size - 1) -> Elements \cup {NoElement}]
           /\ data'[x] = data[y] /\ data'[y] = data[x]
           /\ \A k \in 0..(nr - 1) : k # x /\ k # y => data'[k] = data[k]
           /\ \A k \in 0..(nr - 1) : data[k] \in Elements /\ data'[k] \in Elements
<1>1. x \in 0..(Size - 1) /\ y \in 0..(Size - 1) /\ \A k \in 0..(nr - 1) : k \in 0..(Size - 1)
  BY SMT DEF HeapAssumption, TypeOK
<1>2. /\ data \in [0..(Size - 1) -> Elements \cup {NoElement}]
      /\ \A k \in 0..(nr - 1) : data[k] \in Elements
  BY DEF TypeOK
<1>. QED  BY <1>1, <1>2 DEF Swapped

LEMMA SiftDownStep == ASSUME HeapAssumption, StrictWeakOrder, HInv, SiftDown PROVE HInv'
<1> DEFINE m == smallest(pos)
<1>1. /\ op = "down" /\ op' = "down" /\ nr' = nr /\ low' = low /\ pos' = m
      /\ data' = Swapped(m, pos) /\ Left(pos) < nr /\ m # pos
      /\ TypeOK /\ SinkOrder /\ pos \in Nat /\ low \in Nat /\ nr \in Nat /\ low <= pos
  BY DEF SiftDown, Settled, HInv, TypeOK
<1>2. /\ m \in 0..(nr - 1) /\ IsChild(m, pos) /\ less(data[m], data[pos])
      /\ \A c \in 0..(nr - 1) : IsChild(c, pos) => Ordered(c, m)
  BY <1>1, SmallestIsSmallest
<1> HIDE DEF m
<1>3. pos \in 0..(nr - 1) /\ m \in Nat /\ pos < m
  BY <1>1, <1>2, SMT DEF IsChild, Left, Right
<1>4. /\ data' \in [0..(Size - 1) -> Elements \cup {NoElement}]
      /\ data'[m] = data[pos] /\ data'[pos] = data[m]
      /\ \A k \in 0..(nr - 1) : k # m /\ k # pos => data'[k] = data[k]
      /\ \A k \in 0..(nr - 1) : data[k] \in Elements /\ data'[k] \in Elements
  BY <1>1, <1>2, <1>3, SwapFacts
<1>5. TypeOK'
  BY <1>1, <1>2, <1>3, <1>4, SMT DEF TypeOK
<1>6. ASSUME NEW c \in 0..(nr - 1), NEW p \in 0..(nr - 1), IsChild(c, p), p >= low, p # m
      PROVE  Ordered(c, p)'
  <2>1. c \in Nat /\ p \in Nat /\ p < c /\ \A q \in Nat : IsChild(c, q) => q = p
    BY <1>6, ChildFacts, SMT
  <2>2. CASE p = pos /\ c = m
    BY <1>2, <1>3, <1>4, <2>2 DEF Ordered, StrictWeakOrder, less
  <2>3. CASE p = pos /\ c # m
    <3>1. data'[c] = data[c] /\ data'[p] = data[m]
      BY <1>3, <1>4, <2>1, <2>3, SMT
    <3>. QED  BY <1>2, <1>6, <2>3, <3>1 DEF Ordered, less
  <2>4. CASE p # pos /\ c = pos
    <3>1. data'[c] = data[m] /\ data'[p] = data[p]
      BY <1>4, <1>6, <2>4
    <3>2. Ordered(m, p)
      BY <1>1, <1>2, <1>6, <2>4 DEF SinkOrder, OrderedOver
    <3>. QED  BY <3>1, <3>2 DEF Ordered, less
  <2>5. CASE p # pos /\ c # pos
    <3>1. c # m
      BY <1>1, <1>2, <2>1, <2>5
    <3>2. data'[c] = data[c] /\ data'[p] = data[p]
      BY <1>4, <1>6, <2>5, <3>1
    <3>3. Ordered(c, p)
      BY <1>1, <1>6, <2>5 DEF SinkOrder
    <3>. QED  BY <3>2, <3>3 DEF Ordered, less
  <2>. QED  BY <2>2, <2>3, <2>4, <2>5
<1>7. ASSUME NEW c \in 0..(nr - 1), NEW p \in 0..(nr - 1), IsChild(c, m), IsChild(m, p)
      PROVE  Ordered(c, p)'
  <2>1. p = pos
    BY <1>1, <1>2, <1>3, <1>7, ChildFacts, SMT
  <2>2. c # m /\ c # pos
    BY <1>3, <1>7, ChildFacts, SMT
  <2>3. Ordered(c, m)
    BY <1>1, <1>2, <1>3, <1>7, SMT DEF SinkOrder
  <2>4. data'[c] = data[c] /\ data'[p] = data[m]
    BY <1>4, <2>1, <2>2
  <2>. QED  BY <2>3, <2>4 DEF Ordered, less
<1>8. SinkOrder'
  BY <1>1, <1>6, <1>7 DEF SinkOrder, OrderedOver
<1>. QED  BY <1>1, <1>5, <1>8 DEF HInv, HeapOrder, RiseOrder

LEMMA SiftedDownStep == ASSUME StrictWeakOrder, HInv, SiftedDown PROVE HInv'
<1>1. /\ op = "down" /\ nr' = nr /\ data' = data /\ Settled(pos)
      /\ TypeOK /\ SinkOrder /\ pos \in Nat /\ low \in Nat /\ nr \in Nat
  BY DEF SiftedDown, HInv, TypeOK
<1>2. \A c, p \in 0..(nr - 1) : IsChild(c, p) /\ p >= low => Ordered(c, p)
  BY <1>1, SettledIsOrdered DEF SinkOrder
<1>3. \A c, p \in 0..(nr - 1) : Ordered(c, p)' <=> Ordered(c, p)
  BY <1>1 DEF Ordered, less
<1>4. CASE low > 0
  <2>1. op' = "down" /\ pos' = low - 1 /\ low' = low - 1
    BY <1>4 DEF SiftedDown, MoreToHeapify, Down
  <2>2. TypeOK'
    BY <1>1, <1>4, <2>1, SMT DEF TypeOK
  <2>3. \A p \in 0..(nr - 1) : p >= low - 1 /\ p # low - 1 => p >= low
    BY <1>1, SMT
  <2>4. \A p \in 0..(nr - 1) : p >= low - 1 => ~IsChild(low - 1, p)
    BY <1>1, SMT DEF IsChild, Left, Right
  <2>5. SinkOrder'
    BY <1>1, <1>2, <1>3, <2>1, <2>3, <2>4 DEF SinkOrder, OrderedOver
  <2>. QED  BY <2>1, <2>2, <2>5 DEF HInv, HeapOrder, RiseOrder
<1>5. CASE ~(low > 0)
  <2>1. op' = "idle" /\ pos' = 0 /\ low' = 0 /\ low = 0
    BY <1>1, <1>5, SMT DEF SiftedDown, MoreToHeapify, Idle
  <2>2. TypeOK'
    BY <1>1, <2>1, SMT DEF TypeOK
  <2>3. \A p \in 0..(nr - 1) : p >= low
    BY <2>1, SMT
  <2>4. HeapOrder'
    BY <1>1, <1>2, <1>3, <2>3 DEF HeapOrder
  <2>. QED  BY <2>1, <2>2, <2>4 DEF HInv, SinkOrder, RiseOrder
<1>. QED  BY <1>4, <1>5

LEMMA SiftUpStep == ASSUME HeapAssumption, StrictWeakOrder, HInv, SiftUp PROVE HInv'
<1> DEFINE g == Parent(pos)
<1>1. /\ op = "up" /\ op' = "up" /\ nr' = nr /\ low' = low /\ pos' = g /\ low = 0
      /\ data' = Swapped(g, pos) /\ pos > 0 /\ ~less(data[g], data[pos])
      /\ TypeOK /\ RiseOrder /\ pos \in 0..(nr - 1) /\ pos \in Nat /\ nr \in Nat
  BY SMT DEF SiftUp, InPlace, HInv, TypeOK
<1>2. g \in Nat /\ g < pos /\ IsChild(pos, g)
  BY <1>1, ParentIsParent
<1> HIDE DEF g
<1>3. g \in 0..(nr - 1)
  BY <1>1, <1>2, SMT
<1>4. /\ data' \in [0..(Size - 1) -> Elements \cup {NoElement}]
      /\ data'[g] = data[pos] /\ data'[pos] = data[g]
      /\ \A k \in 0..(nr - 1) : k # g /\ k # pos => data'[k] = data[k]
      /\ \A k \in 0..(nr - 1) : data[k] \in Elements /\ data'[k] \in Elements
  BY <1>1, <1>3, SwapFacts
<1>5. TypeOK'
  BY <1>1, <1>2, <1>3, <1>4, SMT DEF TypeOK
<1>6. ASSUME NEW c \in 0..(nr - 1), NEW p \in 0..(nr - 1), IsChild(c, p), c # g
      PROVE  Ordered(c, p)'
  <2>1. c \in Nat /\ p \in Nat /\ p < c /\ \A q \in Nat : IsChild(c, q) => q = p
    BY <1>6, ChildFacts, SMT
  <2>2. CASE c = pos
    <3>1. p = g
      BY <1>2, <2>1, <2>2
    <3>. QED  BY <1>1, <1>4, <2>2, <3>1 DEF Ordered, less
  <2>3. CASE c # pos /\ p = g
    <3>1. data'[c] = data[c] /\ data'[p] = data[pos]
      BY <1>4, <1>6, <2>3
    <3>2. ~less(data[c], data[g])
      BY <1>1, <1>6, <2>3 DEF RiseOrder, Ordered
    <3>3. ~less(data[c], data[pos])
      BY <1>1, <1>3, <1>4, <3>2 DEF StrictWeakOrder
    <3>. QED  BY <3>1, <3>3 DEF Ordered, less
  <2>4. CASE p = pos
    <3>1. data'[c] = data[c] /\ data'[p] = data[g] /\ g >= low
      BY <1>1, <1>2, <1>4, <1>6, <2>1, <2>4, SMT
    <3>2. Ordered(c, g)
      BY <1>1, <1>2, <1>3, <1>6, <2>4, <3>1 DEF RiseOrder, OrderedOver
    <3>. QED  BY <3>1, <3>2 DEF Ordered, less
  <2>5. CASE c # pos /\ p # g /\ p # pos
    <3>1. data'[c] = data[c] /\ data'[p] = data[p]
      BY <1>4, <1>6, <2>5
    <3>2. Ordered(c, p)
      BY <1>1, <1>6, <2>5 DEF RiseOrder
    <3>. QED  BY <3>1, <3>2 DEF Ordered, less
  <2>. QED  BY <2>2, <2>3, <2>4, <2>5
<1>7. ASSUME NEW c \in 0..(nr - 1), NEW p \in 0..(nr - 1), IsChild(c, g), IsChild(g, p)
      PROVE  Ordered(c, p)'
  <2>1. p < g /\ g < c
    BY <1>2, <1>7, ChildFacts, SMT
  <2>2. data'[p] = data[p]
    BY <1>2, <1>4, <2>1, SMT
  <2>3. ~less(data[g], data[p])
    BY <1>1, <1>2, <1>3, <1>7, SMT DEF RiseOrder, Ordered
  <2>4. CASE c = pos
    BY <1>4, <2>2, <2>3, <2>4 DEF Ordered, less
  <2>5. CASE c # pos
    <3>1. data'[c] = data[c]
      BY <1>2, <1>4, <2>1, <2>5, SMT
    <3>2. ~less(data[c], data[g])
      BY <1>1, <1>3, <1>7, <2>5 DEF RiseOrder, Ordered
    <3>3. ~less(data[c], data[p])
      BY <1>3, <1>4, <2>3, <3>2 DEF StrictWeakOrder
    <3>. QED  BY <2>2, <3>1, <3>3 DEF Ordered, less
  <2>. QED  BY <2>4, <2>5
<1>8. RiseOrder'
  BY <1>1, <1>6, <1>7 DEF RiseOrder, OrderedOver
<1>. QED  BY <1>1, <1>5, <1>8 DEF HInv, HeapOrder, SinkOrder

LEMMA SiftedUpStep == ASSUME StrictWeakOrder, HInv, SiftedUp PROVE HInv'
<1>1. /\ op = "up" /\ op' = "idle" /\ pos' = 0 /\ low' = 0 /\ nr' = nr /\ data' = data
      /\ InPlace(pos) /\ TypeOK /\ RiseOrder /\ pos \in 0..(nr - 1) /\ nr \in Nat
  BY SMT DEF SiftedUp, Idle, HInv, TypeOK
<1>2. TypeOK'
  BY <1>1, SMT DEF TypeOK
<1>3. ASSUME NEW p \in 0..(nr - 1), IsChild(pos, p)
      PROVE  Ordered(pos, p)
  <2>1. pos \in Nat /\ p \in Nat /\ pos > 0 /\ p = Parent(pos)
    BY <1>1, <1>3, ChildFacts, ParentIsParent, SMT
  <2>2. less(data[p], data[pos])
    BY <1>1, <2>1 DEF InPlace
  <2>. QED  BY <1>1, <2>2 DEF TypeOK, StrictWeakOrder, Ordered
<1>4. \A c, p \in 0..(nr - 1) : IsChild(c, p) => Ordered(c, p)
  BY <1>1, <1>3 DEF RiseOrder
<1>5. HeapOrder'
  BY <1>1, <1>4 DEF HeapOrder, Ordered, less
<1>. QED  BY <1>1, <1>2, <1>5 DEF HInv, SinkOrder, RiseOrder

LEMMA HeapInductive ==
    ASSUME HeapAssumption, StrictWeakOrder, HInv, [Next]_vars
    PROVE  HInv'
<1>1. ASSUME NEW n \in 0..Size, min_heapify_all(n) PROVE HInv'
  BY <1>1, HeapifyAllStep
<1>2. ASSUME NEW e \in Elements, min_heap_push(e) PROVE HInv'
  BY <1>2, PushStep
<1>3. ASSUME NEW e \in Elements, min_heap_pop_push(e) PROVE HInv'
  BY <1>3, PopPushStep
<1>4. CASE min_heap_pop
  BY <1>4, PopStep
<1>5. CASE SiftDown
  BY <1>5, SiftDownStep
<1>6. CASE SiftedDown
  BY <1>6, SiftedDownStep
<1>7. CASE SiftUp
  BY <1>7, SiftUpStep
<1>8. CASE SiftedUp
  BY <1>8, SiftedUpStep
<1>9. CASE UNCHANGED vars
  BY <1>9 DEF vars, HInv, TypeOK, HeapOrder, SinkOrder, RiseOrder, OrderedOver, Ordered, less
<1>. QED
  BY <1>1, <1>2, <1>3, <1>4, <1>5, <1>6, <1>7, <1>8, <1>9 DEF Next, Sift

\* The invariant of the heap and of its loops, for every strict weak order.
THEOREM HeapInvariant == ASSUME StrictWeakOrder PROVE Spec => []HInv
<1>1. Init => HInv
  BY InitHolds, HeapAssumption
<1>2. HInv /\ [Next]_vars => HInv'
  BY HeapInductive, HeapAssumption
<1>. QED  BY <1>1, <1>2, PTL DEF Spec

\* Between calls no element is less than its parent: whatever calls came before,
\* the caller finds a heap.
THEOREM CallsKeepTheOrder == ASSUME StrictWeakOrder PROVE Spec => []HeapOrder
<1>1. HInv => HeapOrder
  BY DEF HInv
<1>. QED  BY <1>1, HeapInvariant, PTL

\* At every round of a sift, down or up, the order fails at most at the place of
\* the loop.
THEOREM SiftsKeepTheOrder == ASSUME StrictWeakOrder PROVE Spec => []SiftOrder
<1>1. HInv => SiftOrder
  BY DEF HInv, SiftOrder
<1>. QED  BY <1>1, HeapInvariant, PTL

-----------------------------------------------------------------------------
(* The root.                                                               *)

\* In an ordered heap nothing is less than the root: the first place that held
\* something less would have a parent that is not less than the root.
LEMMA OrderedHeapHasMinimalRoot ==
    ASSUME StrictWeakOrder, TypeOK, HeapOrder
    PROVE  RootIsMinimal
<1> SUFFICES ASSUME op = "idle", ~ \A k \in 0..(nr - 1) : ~less(data[k], data[0])
             PROVE  FALSE
  BY DEF RootIsMinimal
<1> DEFINE T == {k \in 0..(nr - 1) : less(data[k], data[0])}
<1>1. T \subseteq Nat /\ T # {} /\ nr \in Nat
  BY SMT DEF TypeOK
<1>2. PICK k \in T : \A j \in T : k <= j
  BY <1>1, LeastNumber
<1>3. k \in 0..(nr - 1) /\ k \in Nat /\ 0 \in 0..(nr - 1) /\ less(data[k], data[0])
  BY <1>1, <1>2, SMT
<1>4. data[k] \in Elements /\ data[0] \in Elements
  BY <1>3 DEF TypeOK
<1>5. k > 0
  <2>1. k # 0
    BY <1>3, <1>4 DEF StrictWeakOrder
  <2>. QED  BY <1>3, <2>1, SMT
<1> DEFINE p == Parent(k)
<1>6. p \in Nat /\ p < k /\ IsChild(k, p)
  BY <1>3, <1>5, ParentIsParent
<1> HIDE DEF p
<1>7. p \in 0..(nr - 1) /\ ~(k <= p)
  BY <1>1, <1>3, <1>6, SMT
<1>8. p \notin T
  BY <1>2, <1>7
<1>9. ~less(data[p], data[0]) /\ data[p] \in Elements
  BY <1>7, <1>8 DEF TypeOK
<1>10. ~less(data[k], data[p])
  BY <1>3, <1>6, <1>7 DEF HeapOrder, Ordered
<1>. QED  BY <1>3, <1>4, <1>9, <1>10 DEF StrictWeakOrder

\* The element at place 0, which pop removes, is minimal.
THEOREM MinimumIsAtTheRoot == ASSUME StrictWeakOrder PROVE Spec => []RootIsMinimal
<1>1. HInv => RootIsMinimal
  BY OrderedHeapHasMinimalRoot DEF HInv
<1>. QED  BY <1>1, HeapInvariant, PTL

-----------------------------------------------------------------------------
(* The heap implements the queue of MinQueue.                              *)

-----------------------------------------------------------------------------
(* Counting in the first n places of an array d.                           *)

Places(d, n, e) == {k \in 0..(n - 1) : d[k] = e}
CountIn(d, n, e) == Cardinality(Places(d, n, e))

LEMMA PlacesAreFinite ==
    ASSUME NEW d, NEW n \in Nat, NEW e
    PROVE  IsFiniteSet(Places(d, n, e)) /\ CountIn(d, n, e) \in Nat
<1>1. IsFiniteSet(0..(n - 1))
  BY FS_Interval, SMT
<1>2. Places(d, n, e) \in SUBSET (0..(n - 1))
  BY DEF Places
<1>3. IsFiniteSet(Places(d, n, e))
  BY <1>1, <1>2, FS_Subset
<1>. QED  BY <1>3, FS_CardinalityType DEF CountIn

\* One more place is one more of the element in it.
LEMMA OneMore ==
    ASSUME NEW d, NEW n \in Nat, NEW e
    PROVE  /\ d[n] = e => CountIn(d, n + 1, e) = CountIn(d, n, e) + 1
           /\ d[n] # e => CountIn(d, n + 1, e) = CountIn(d, n, e)
<1>1. IsFiniteSet(Places(d, n, e)) /\ n \notin Places(d, n, e)
  <2>1. IsFiniteSet(Places(d, n, e))
    BY PlacesAreFinite
  <2>2. n \notin Places(d, n, e)
    BY SMT DEF Places
  <2>. QED  BY <2>1, <2>2
<1>2. 0..(n + 1 - 1) = 0..(n - 1) \cup {n}
  BY SMT
<1>3. CASE d[n] = e
  <2>1. Places(d, n + 1, e) = Places(d, n, e) \cup {n}
    BY <1>2, <1>3 DEF Places
  <2>. QED  BY <1>1, <1>3, <2>1, FS_AddElement DEF CountIn
<1>4. CASE d[n] # e
  <2>1. Places(d, n + 1, e) = Places(d, n, e)
    BY <1>2, <1>4 DEF Places
  <2>. QED  BY <1>4, <2>1 DEF CountIn
<1>. QED  BY <1>3, <1>4

\* Only the first n places count.
LEMMA SameCounts ==
    ASSUME NEW d, NEW d2, NEW n, \A k \in 0..(n - 1) : d2[k] = d[k], NEW e
    PROVE  CountIn(d2, n, e) = CountIn(d, n, e)
<1>1. Places(d2, n, e) = Places(d, n, e)
  BY DEF Places
<1>. QED  BY <1>1 DEF CountIn

\* Two places that change their elements change no count.
LEMMA SwapKeepsCounts ==
    ASSUME NEW d, NEW d2, NEW n \in Nat, NEW x \in 0..(n - 1), NEW y \in 0..(n - 1), NEW e,
           d2[x] = d[y], d2[y] = d[x], \A k \in 0..(n - 1) : k # x /\ k # y => d2[k] = d[k]
    PROVE  CountIn(d2, n, e) = CountIn(d, n, e)
<1> DEFINE S == Places(d, n, e)
           T == Places(d2, n, e)
           f == [k \in S |-> IF k = x THEN y ELSE IF k = y THEN x ELSE k]
<1>1. f \in [S -> T]
  BY DEF Places
<1>2. \A j, k \in S : f[j] = f[k] => j = k
  OBVIOUS
<1>3. ASSUME NEW t \in T PROVE \E k \in S : f[k] = t
  <2> DEFINE k == IF t = x THEN y ELSE IF t = y THEN x ELSE t
  <2>1. k \in S
    BY <1>3 DEF Places
  <2>2. f[k] = t
    BY <2>1
  <2>. QED  BY <2>1, <2>2
<1> HIDE DEF f, S, T
<1>4. f \in Bijection(S, T)
  BY <1>1, <1>2, <1>3, Fun_IsBij, Zenon
<1>5. ExistsBijection(S, T)
  BY <1>4 DEF ExistsBijection
<1>6. IsFiniteSet(S)
  BY PlacesAreFinite DEF S
<1>. QED  BY <1>5, <1>6, FS_Bijection DEF CountIn, S, T

\* No more of an element than places.
LEMMA CountAtMost ==
    ASSUME NEW d, NEW n \in Nat, NEW e
    PROVE  CountIn(d, n, e) \in 0..n
<1>1. IsFiniteSet(0..(n - 1)) /\ Cardinality(0..(n - 1)) = n
  BY FS_Interval, SMT
<1>2. Places(d, n, e) \in SUBSET (0..(n - 1))
  BY DEF Places
<1>3. CountIn(d, n, e) <= n
  BY <1>1, <1>2, FS_Subset, Zenon DEF CountIn
<1>. QED  BY <1>3, PlacesAreFinite, SMT

LEMMA NoPlaces == ASSUME NEW d, NEW e PROVE CountIn(d, 0, e) = 0
<1>1. Places(d, 0, e) = {}
  BY DEF Places
<1>. QED  BY <1>1, FS_EmptySet DEF CountIn

\* The counts of all elements add up to the number of places: Slots has one pair
\* for each of them.
Slots(d, n) == {c \in Elements \X (1..Size) : c[2] <= CountIn(d, n, c[1])}

LEMMA OneMoreSlot ==
    ASSUME HeapAssumption, NEW d, NEW n \in Nat, n < Size, d[n] \in Elements,
           IsFiniteSet(Slots(d, n)), Cardinality(Slots(d, n)) = n
    PROVE  IsFiniteSet(Slots(d, n + 1)) /\ Cardinality(Slots(d, n + 1)) = n + 1
<1> DEFINE m == CountIn(d, n, d[n])
           c0 == <<d[n], m + 1>>
<1>1. m \in 0..n /\ m + 1 \in 1..Size /\ m + 1 \in Nat
  BY CountAtMost, SMT DEF HeapAssumption
<1>2. c0 \in Elements \X (1..Size) /\ c0 \notin Slots(d, n)
  BY <1>1, SMT DEF Slots
<1>3. \A e : /\ d[n] = e => CountIn(d, n + 1, e) = CountIn(d, n, e) + 1
             /\ d[n] # e => CountIn(d, n + 1, e) = CountIn(d, n, e)
  BY OneMore
<1>4. \A e : CountIn(d, n, e) \in 0..n
  BY CountAtMost
<1>5. ASSUME NEW c \in Elements \X (1..Size)
      PROVE  c[2] <= CountIn(d, n + 1, c[1]) <=> c[2] <= CountIn(d, n, c[1]) \/ c = c0
  <2>1. c[1] \in Elements /\ c[2] \in 1..Size /\ c[2] \in Nat /\ c = <<c[1], c[2]>>
    BY SMT DEF HeapAssumption
  <2>2. CASE c[1] = d[n]
    <3>1. CountIn(d, n + 1, c[1]) = m + 1 /\ CountIn(d, n, c[1]) = m
      BY <1>3, <2>2
    <3>2. c = c0 <=> c[2] = m + 1
      BY <2>1, <2>2
    <3> HIDE DEF m, c0
    <3>. QED  BY <1>1, <2>1, <3>1, <3>2, SMT
  <2>3. CASE c[1] # d[n]
    <3>1. CountIn(d, n + 1, c[1]) = CountIn(d, n, c[1]) /\ c # c0
      BY <1>3, <2>1, <2>3
    <3>. QED  BY <3>1
  <2>. QED  BY <2>2, <2>3
<1>6. Slots(d, n + 1) = Slots(d, n) \cup {c0}
  BY <1>2, <1>5 DEF Slots
<1>. QED  BY <1>2, <1>6, FS_AddElement

LEMMA SlotsArePlaces ==
    ASSUME HeapAssumption, NEW d, NEW n \in 0..Size, \A k \in 0..(n - 1) : d[k] \in Elements
    PROVE  Cardinality(Slots(d, n)) = n
<1> DEFINE Good(k) == IsFiniteSet(Slots(d, k)) /\ Cardinality(Slots(d, k)) = k
           T == {k \in 0..n : ~Good(k)}
<1>1. n \in Nat /\ Size \in Nat /\ n <= Size
  BY SMT DEF HeapAssumption
<1>2. Good(0)
  <2>1. Slots(d, 0) = {}
    BY NoPlaces, SMT DEF Slots, HeapAssumption
  <2>. QED  BY <2>1, FS_EmptySet
<1>3. ASSUME NEW k \in 0..(n - 1), Good(k) PROVE Good(k + 1)
  <2>1. k \in Nat /\ k < Size
    BY <1>1, SMT
  <2>. QED  BY <1>3, <2>1, OneMoreSlot
<1> HIDE DEF Good
<1>4. T = {}
  <2>1. SUFFICES ASSUME T # {} PROVE FALSE
    OBVIOUS
  <2>2. T \subseteq Nat
    BY <1>1, SMT
  <2>3. PICK k \in T : \A j \in T : k <= j
    BY <2>1, <2>2, LeastNumber
  <2>4. k # 0 /\ k \in 0..n
    BY <1>2, <2>3
  <2>5. k - 1 \in 0..(n - 1) /\ k - 1 \in 0..n /\ ~(k <= k - 1) /\ k - 1 + 1 = k
    BY <1>1, <2>4, SMT
  <2>6. Good(k - 1)
    BY <2>3, <2>5
  <2>7. Good(k)
    BY <1>3, <2>5, <2>6
  <2>. QED  BY <2>3, <2>7
<1>5. n \in 0..n
  BY <1>1, SMT
<1>. QED  BY <1>4, <1>5 DEF Good

-----------------------------------------------------------------------------
(* The calls.                                                              *)

content == [e \in Elements |-> Count(e)]

LEMMA ContentIs ==
    /\ content = [e \in Elements |-> CountIn(data, nr, e)]
    /\ content' = [e \in Elements |-> CountIn(data', nr', e)]
  BY DEF content, Count, CountIn, Places

LEMMA TotalIs ==
    ASSUME HeapAssumption, TypeOK
    PROVE  Queue!Total(content) = nr
<1>1. Queue!Total(content) = Cardinality({c \in Elements \X (1..Size) : c[2] <= content[c[1]]})
  BY Zenon DEF Queue!Total, Cardinality, Queue!Cardinality
<1>2. {c \in Elements \X (1..Size) : c[2] <= content[c[1]]} = Slots(data, nr)
  BY ContentIs DEF Slots
<1>. QED  BY <1>1, <1>2, SlotsArePlaces DEF TypeOK

LEMMA TotalIsNext ==
    ASSUME HeapAssumption, TypeOK'
    PROVE  Queue!Total(content') = nr'
<1>1. Queue!Total(content') = Cardinality({c \in Elements \X (1..Size) : c[2] <= content'[c[1]]})
  BY Zenon DEF Queue!Total, Cardinality, Queue!Cardinality
<1>2. {c \in Elements \X (1..Size) : c[2] <= content'[c[1]]} = Slots(data', nr')
  BY ContentIs DEF Slots
<1>. QED  BY <1>1, <1>2, SlotsArePlaces DEF TypeOK

LEMMA InitImplements == ASSUME Init PROVE Queue!Init
  BY ContentIs, NoPlaces DEF Init, Queue!Init, content

LEMMA FillImplements ==
    ASSUME HeapAssumption, HInv, NEW n \in 0..Size, min_heapify_all(n)
    PROVE  Queue!Fill
<1>1. TypeOK /\ TypeOK' /\ nr = 0 /\ nr' \in 0..Size /\ nr' \in Nat /\ Size \in Nat
  BY HeapifyAllStep, SMT DEF HInv, min_heapify_all, HeapAssumption
<1>2. Queue!Total(content) = 0 /\ Queue!Total(content') <= Size
  BY <1>1, TotalIs, TotalIsNext, SMT
<1>3. content' \in [Elements -> 0..Size]
  <2>1. \A e \in Elements : CountIn(data', nr', e) \in 0..Size
    BY <1>1, CountAtMost, SMT
  <2>. QED  BY <2>1, ContentIs
<1>. QED  BY <1>2, <1>3 DEF Queue!Fill, content

LEMMA PushImplements ==
    ASSUME HeapAssumption, HInv, NEW e \in Elements, min_heap_push(e)
    PROVE  Queue!Push(e)
<1>1. /\ nr \in Nat /\ nr < Size /\ nr' = nr + 1 /\ data' = [data EXCEPT ![nr] = e]
      /\ Size \in Nat /\ data \in [0..(Size - 1) -> Elements \cup {NoElement}]
  BY SMT DEF HInv, TypeOK, min_heap_push, HasRoom, HeapAssumption
<1>2. data'[nr] = e /\ \A k \in 0..(nr - 1) : data'[k] = data[k]
  BY <1>1, SMT
<1>3. \A f : /\ e = f => CountIn(data', nr + 1, f) = CountIn(data, nr, f) + 1
             /\ e # f => CountIn(data', nr + 1, f) = CountIn(data, nr, f)
  <2>1. \A f : CountIn(data', nr, f) = CountIn(data, nr, f)
    BY <1>2, SameCounts
  <2>2. \A f : /\ data'[nr] = f => CountIn(data', nr + 1, f) = CountIn(data', nr, f) + 1
               /\ data'[nr] # f => CountIn(data', nr + 1, f) = CountIn(data', nr, f)
    BY <1>1, OneMore
  <2>. QED  BY <1>2, <2>1, <2>2
<1>4. content' = [content EXCEPT ![e] = @ + 1]
  BY <1>1, <1>3, ContentIs
<1>5. Queue!Total(content) < Size
  BY <1>1, TotalIs DEF HInv
<1>. QED  BY <1>4, <1>5 DEF Queue!Push, content

\* The last place takes part in the counts as any other, so that a call may be
\* seen to move the element at place 0 there first.
Prefix == Swapped(0, nr - 1)

LEMMA CountsByPrefix ==
    ASSUME HeapAssumption, HInv, nr > 0, NEW e
    PROVE  /\ data[0] = e => CountIn(data, nr, e) = CountIn(Prefix, nr - 1, e) + 1
           /\ data[0] # e => CountIn(data, nr, e) = CountIn(Prefix, nr - 1, e)
<1>1. /\ nr \in Nat /\ nr - 1 \in Nat /\ 0 \in 0..(nr - 1) /\ nr - 1 \in 0..(nr - 1) /\ (nr - 1) + 1 = nr
      /\ \A k \in 0..(nr - 1) : k \in 0..(Size - 1)
      /\ data \in [0..(Size - 1) -> Elements \cup {NoElement}]
  BY SMT DEF HInv, TypeOK, HeapAssumption
<1>2. /\ Prefix[0] = data[nr - 1] /\ Prefix[nr - 1] = data[0]
      /\ \A k \in 0..(nr - 1) : k # 0 /\ k # nr - 1 => Prefix[k] = data[k]
  BY <1>1 DEF Prefix, Swapped
<1>3. CountIn(Prefix, nr, e) = CountIn(data, nr, e)
  BY <1>1, <1>2, SwapKeepsCounts
<1>4. /\ Prefix[nr - 1] = e => CountIn(Prefix, (nr - 1) + 1, e) = CountIn(Prefix, nr - 1, e) + 1
      /\ Prefix[nr - 1] # e => CountIn(Prefix, (nr - 1) + 1, e) = CountIn(Prefix, nr - 1, e)
  BY <1>1, OneMore
<1>. QED  BY <1>1, <1>2, <1>3, <1>4

\* What is at place 0 is there, and nothing less is.
LEMMA RootMinimal ==
    ASSUME StrictWeakOrder, HInv, op = "idle", nr > 0
    PROVE  data[0] \in Elements /\ Queue!Minimal(data[0])
<1>1. nr \in Nat /\ 0 \in 0..(nr - 1) /\ data[0] \in Elements
  BY SMT DEF HInv, TypeOK
<1>2. CountIn(data, nr, data[0]) > 0
  <2>1. Places(data, nr, data[0]) # {}
    BY <1>1 DEF Places
  <2>2. CountIn(data, nr, data[0]) # 0
    BY <1>1, <2>1, PlacesAreFinite, FS_EmptySet DEF CountIn
  <2>. QED  BY <1>1, <2>2, PlacesAreFinite, SMT
<1>3. ASSUME NEW f \in Elements, <<f, data[0]>> \in Less PROVE CountIn(data, nr, f) = 0
  <2>1. RootIsMinimal
    BY OrderedHeapHasMinimalRoot DEF HInv
  <2>2. Places(data, nr, f) = {}
    BY <1>3, <2>1 DEF Places, RootIsMinimal, less
  <2>. QED  BY <2>2, FS_EmptySet DEF CountIn
<1>. QED  BY <1>1, <1>2, <1>3, ContentIs DEF Queue!Minimal, content

LEMMA PopImplements ==
    ASSUME HeapAssumption, StrictWeakOrder, HInv, min_heap_pop
    PROVE  Queue!Pop
<1>1. /\ op = "idle" /\ nr > 0 /\ nr' = nr - 1 /\ data' = [data EXCEPT ![0] = data[nr - 1]]
      /\ nr \in Nat /\ nr - 1 \in Nat /\ Size \in Nat \ {0} /\ nr <= Size
      /\ data \in [0..(Size - 1) -> Elements \cup {NoElement}]
  BY SMT DEF min_heap_pop, HInv, TypeOK, HeapAssumption
<1>2. data[0] \in Elements /\ Queue!Minimal(data[0])
  BY <1>1, RootMinimal
<1>3. \A k \in 0..(nr - 1 - 1) : data'[k] = Prefix[k]
  BY <1>1, SMT DEF Prefix, Swapped
<1>4. \A f : CountIn(data', nr - 1, f) = CountIn(Prefix, nr - 1, f)
  BY <1>3, SameCounts
<1>5. \A f : CountIn(Prefix, nr - 1, f) \in Nat
  BY <1>1, PlacesAreFinite
<1>6. \A f : /\ data[0] = f => CountIn(data, nr, f) = CountIn(Prefix, nr - 1, f) + 1
             /\ data[0] # f => CountIn(data, nr, f) = CountIn(Prefix, nr - 1, f)
  BY <1>1, CountsByPrefix
<1>7. content' = [content EXCEPT ![data[0]] = @ - 1]
  <2>1. \A f : /\ data[0] = f => CountIn(data', nr', f) = CountIn(data, nr, f) - 1
               /\ data[0] # f => CountIn(data', nr', f) = CountIn(data, nr, f)
    <3>1. nr' = nr - 1
      BY <1>1
    <3>3. ASSUME NEW f, data[0] = f PROVE CountIn(data', nr', f) = CountIn(data, nr, f) - 1
      <4>1. CountIn(data, nr, f) = CountIn(Prefix, nr - 1, f) + 1 /\ CountIn(data', nr', f) = CountIn(Prefix, nr - 1, f)
        BY <1>4, <1>6, <3>1, <3>3, Zenon
      <4>2. CountIn(Prefix, nr - 1, f) \in Nat
        BY <1>5
      <4>. QED  BY <4>1, <4>2, SMT
    <3>4. ASSUME NEW f, data[0] # f PROVE CountIn(data', nr', f) = CountIn(data, nr, f)
      BY <1>4, <1>6, <3>1, <3>4
    <3>. QED  BY <3>3, <3>4
  <2>. QED  BY <1>2, <2>1, ContentIs
<1>. QED  BY <1>2, <1>7 DEF Queue!Pop, content

LEMMA PopPushImplements ==
    ASSUME HeapAssumption, StrictWeakOrder, HInv, NEW e \in Elements, min_heap_pop_push(e)
    PROVE  Queue!PopPush(e)
<1> DEFINE first == data[0]
           After == [Prefix EXCEPT ![nr - 1] = e]
<1>1. /\ op = "idle" /\ nr > 0 /\ nr' = nr /\ data' = [data EXCEPT ![0] = e]
      /\ nr \in Nat /\ nr - 1 \in Nat /\ (nr - 1) + 1 = nr /\ Size \in Nat \ {0} /\ nr <= Size
      /\ 0 \in 0..(nr - 1) /\ nr - 1 \in 0..(nr - 1) /\ \A k \in 0..(nr - 1) : k \in 0..(Size - 1)
      /\ data \in [0..(Size - 1) -> Elements \cup {NoElement}]
  BY SMT DEF min_heap_pop_push, HInv, TypeOK, HeapAssumption
<1>2. first \in Elements /\ Queue!Minimal(first)
  BY <1>1, RootMinimal
<1>3. \A f : /\ first = f => CountIn(data, nr, f) = CountIn(Prefix, nr - 1, f) + 1
             /\ first # f => CountIn(data, nr, f) = CountIn(Prefix, nr - 1, f)
  BY <1>1, CountsByPrefix
<1>4. \A f : /\ e = f => CountIn(data', nr, f) = CountIn(Prefix, nr - 1, f) + 1
             /\ e # f => CountIn(data', nr, f) = CountIn(Prefix, nr - 1, f)
  <2>1. /\ After[nr - 1] = e /\ After[0] = data'[nr - 1] /\ data'[0] = e
        /\ \A k \in 0..(nr - 1) : k # 0 /\ k # nr - 1 => After[k] = data'[k]
    BY <1>1 DEF Prefix, Swapped
  <2>2. \A k \in 0..((nr - 1) - 1) : After[k] = Prefix[k]
    BY <1>1, SMT DEF Prefix, Swapped
  <2> HIDE DEF After
  <2>3. \A f : CountIn(After, nr - 1, f) = CountIn(Prefix, nr - 1, f)
    BY <2>2, SameCounts
  <2>4. \A f : CountIn(After, nr, f) = CountIn(data', nr, f)
    <3> DEFINE last == nr - 1
    <3>1. /\ nr \in Nat /\ 0 \in 0..(nr - 1) /\ last \in 0..(nr - 1)
          /\ After[0] = data'[last] /\ After[last] = data'[0]
          /\ \A k \in 0..(nr - 1) : k # 0 /\ k # last => After[k] = data'[k]
      BY <1>1, <2>1
    <3> HIDE DEF last
    <3>2. ASSUME NEW f PROVE CountIn(After, nr, f) = CountIn(data', nr, f)
      BY <3>1, SwapKeepsCounts
    <3>. QED  BY <3>2
  <2>5. \A f : /\ After[nr - 1] = f => CountIn(After, (nr - 1) + 1, f) = CountIn(After, nr - 1, f) + 1
               /\ After[nr - 1] # f => CountIn(After, (nr - 1) + 1, f) = CountIn(After, nr - 1, f)
    BY <1>1, OneMore
  <2>. QED  BY <1>1, <2>1, <2>3, <2>4, <2>5
<1>5. \A f : CountIn(Prefix, nr - 1, f) \in Nat
  BY <1>1, PlacesAreFinite
<1> HIDE DEF first
<1> DEFINE rest == [content EXCEPT ![first] = @ - 1]
           new == [rest EXCEPT ![e] = @ + 1]
<1>6. content' = new
  <2>1. rest = [f \in Elements |-> CountIn(Prefix, nr - 1, f)]
    <3>1. ASSUME NEW f \in Elements PROVE rest[f] = CountIn(Prefix, nr - 1, f)
      <4>1. CASE first = f
        <5>1. rest[f] = CountIn(data, nr, f) - 1
          BY <1>2, <4>1, ContentIs
        <5>. QED  BY <1>3, <1>5, <4>1, <5>1, SMT
      <4>2. CASE first # f
        <5>1. rest[f] = CountIn(data, nr, f)
          BY <1>2, <4>2, ContentIs
        <5>. QED  BY <1>3, <4>2, <5>1
      <4>. QED  BY <4>1, <4>2
    <3>2. rest = [f \in Elements |-> rest[f]]
      BY ContentIs
    <3> HIDE DEF rest
    <3>. QED  BY <3>1, <3>2
  <2>2. content' = [f \in Elements |-> CountIn(data', nr, f)]
    BY <1>1, ContentIs
  <2> HIDE DEF rest
  <2>. QED  BY <1>4, <2>1, <2>2
<1>. QED  BY <1>2, <1>6 DEF Queue!PopPush, content

-----------------------------------------------------------------------------
(* The rounds of the loops.                                                *)

LEMMA SwapImplements ==
    ASSUME HeapAssumption, TypeOK, NEW x \in 0..(nr - 1), NEW y \in 0..(nr - 1),
           data' = Swapped(x, y), nr' = nr
    PROVE  content' = content
<1>1. /\ nr \in Nat /\ data'[x] = data[y] /\ data'[y] = data[x]
      /\ \A k \in 0..(nr - 1) : k # x /\ k # y => data'[k] = data[k]
  BY SwapFacts, SMT DEF TypeOK
<1>2. \A f : CountIn(data', nr, f) = CountIn(data, nr, f)
  BY <1>1, SwapKeepsCounts
<1>. QED  BY <1>2, ContentIs

LEMMA SiftImplements ==
    ASSUME HeapAssumption, StrictWeakOrder, HInv, Sift
    PROVE  content' = content
<1>1. CASE SiftDown
  <2>1. /\ TypeOK /\ pos \in Nat /\ nr \in Nat /\ Left(pos) < nr
        /\ data' = Swapped(smallest(pos), pos) /\ nr' = nr
    BY <1>1, SMT DEF SiftDown, Settled, HInv, TypeOK
  <2>2. smallest(pos) \in 0..(nr - 1)
    BY <2>1, SmallestIsSmallest
  <2>3. pos \in 0..(nr - 1)
    BY <2>1, SMT DEF Left
  <2>. QED  BY <2>1, <2>2, <2>3, SwapImplements
<1>2. CASE SiftUp
  <2>1. /\ TypeOK /\ pos \in Nat /\ nr \in Nat /\ pos < nr /\ pos > 0
        /\ data' = Swapped(Parent(pos), pos) /\ nr' = nr
    BY <1>2, SMT DEF SiftUp, InPlace, HInv, TypeOK
  <2>2. Parent(pos) \in Nat /\ Parent(pos) < pos
    BY <2>1, ParentIsParent
  <2>3. pos \in 0..(nr - 1) /\ Parent(pos) \in 0..(nr - 1)
    BY <2>1, <2>2, SMT
  <2>. QED  BY <2>1, <2>3, SwapImplements
<1>3. CASE SiftedDown \/ SiftedUp
  <2>1. data' = data /\ nr' = nr
    BY <1>3 DEF SiftedDown, SiftedUp
  <2>. QED  BY <2>1, ContentIs
<1>. QED  BY <1>1, <1>2, <1>3 DEF Sift

LEMMA StepImplements ==
    ASSUME HeapAssumption, StrictWeakOrder, HInv, [Next]_vars
    PROVE  Queue!Next \/ content' = content
<1>1. CASE Sift
  BY <1>1, SiftImplements
<1>2. CASE min_heap_pop
  BY <1>2, PopImplements DEF Queue!Next
<1>3. CASE \E n \in 0..Size : min_heapify_all(n)
  BY <1>3, FillImplements DEF Queue!Next
<1>4. CASE \E e \in Elements : min_heap_push(e)
  BY <1>4, PushImplements DEF Queue!Next
<1>5. CASE \E e \in Elements : min_heap_pop_push(e)
  BY <1>5, PopPushImplements DEF Queue!Next
<1>6. CASE UNCHANGED vars
  BY <1>6, ContentIs DEF vars
<1>. QED  BY <1>1, <1>2, <1>3, <1>4, <1>5, <1>6 DEF Next

\* Every behaviour of the heap is one of MinQueue, for every strict weak order:
\* pop and pop_push take a minimal element out of the bag, push adds one to it,
\* and no round of a loop loses or doubles an element.
THEOREM Refinement == ASSUME StrictWeakOrder PROVE Spec => ImplementsQueue
<1>1. Init => Queue!Init
  BY InitImplements
<1>2. HInv /\ [Next]_vars => [Queue!Next]_(content)
  BY HeapAssumption, StepImplements
<1>. QED  BY <1>1, <1>2, HeapInvariant, PTL DEF Spec, ImplementsQueue, Queue!Spec, content
=============================================================================
