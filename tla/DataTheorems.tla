--------------------------- MODULE DataTheorems ---------------------------
(***************************************************************************)
(* Lemmas on data that the proofs of several modules share.                *)
(*                                                                         *)
(* In the place of an induction: the least counterexample of a claim about *)
(* natural numbers, and a set that grows in rounds until a round adds      *)
(* nothing.                                                                *)
(*                                                                         *)
(* On rings: what is around a head h in a graph nx of one edge from each   *)
(* node, in which E are the entries and S all nodes; the entries as the    *)
(* one sequence that leads from h back to h; and what the writes that put  *)
(* a node behind another and that take one out do to it.                   *)
(***************************************************************************)
EXTENDS Integers, Sequences, FiniteSetTheorems, WellFoundedInduction, TLAPS

\* Every nonempty set of natural numbers has a least element.
LEMMA LeastNumber ==
    ASSUME NEW T, T \subseteq Nat, T # {}
    PROVE  \E x \in T : \A y \in T : x <= y
<1> DEFINE R == OpToRel(<, Nat)
<1>1. IsWellFoundedOn(R, Nat)
  BY NatLessThanWellFounded, Zenon
<1>2. \A x, y \in Nat : x < y => <<x, y>> \in R
  BY DEF OpToRel
<1> HIDE DEF R
<1>3. PICK x \in T : \A y \in T : <<y, x>> \notin R
  BY <1>1, WFMin
<1>4. ASSUME NEW y \in T PROVE x <= y
  <2>1. x \in Nat /\ y \in Nat /\ ~(y < x)
    BY <1>2, <1>3
  <2>. QED  BY <2>1, SMT
<1>. QED  BY <1>4

-----------------------------------------------------------------------------
(* A set of elements of S that grows in rounds until a round adds nothing. *)

\* G makes of a set a larger one, or the same.
Grows(G, S) == /\ G \in [SUBSET S -> SUBSET S]
               /\ \A m \in SUBSET S : m \subseteq G[m]

\* Nothing grows out of C.
Closed(G, S, C) == \A m \in SUBSET S : m \subseteq C => G[m] \subseteq C

\* f[k] is what k rounds make of A.
IsRounds(G, A, f, n) ==
    \A k \in 0..n : f[k] \in DOMAIN G /\ f[k] = IF k = 0 THEN A ELSE G[f[k - 1]]

\* There are as many rounds as one asks for.
LEMMA RoundsExist ==
    ASSUME NEW S, NEW G, Grows(G, S), NEW A \in SUBSET S, NEW n \in Nat
    PROVE  \E f : IsRounds(G, A, f, n)
<1> DEFINE T == {k \in Nat : ~ \E f : IsRounds(G, A, f, k)}
<1>1. SUFFICES ASSUME T # {} PROVE FALSE
  OBVIOUS
<1>2. PICK k \in T : \A j \in T : k <= j
  BY <1>1, LeastNumber
<1>3. k # 0
  <2>1. IsRounds(G, A, [j \in 0..0 |-> A], 0)
    BY DEF IsRounds, Grows
  <2>. QED  BY <2>1, <1>2
<1>4. k - 1 \in Nat /\ k \in Nat /\ k - 1 \notin T
  BY <1>2, <1>3
<1>5. PICK f : IsRounds(G, A, f, k - 1)
  BY <1>4
<1> DEFINE g == [j \in 0..k |-> IF j = k THEN G[f[k - 1]] ELSE f[j]]
<1>6. ASSUME NEW j \in 0..k PROVE g[j] \in DOMAIN G
  <2>1. f[k - 1] \in DOMAIN G
    BY <1>4, <1>5 DEF IsRounds
  <2>2. j # k => j \in 0..(k - 1)
    BY <1>4
  <2>. QED  BY <1>5, <2>1, <2>2 DEF Grows, IsRounds
<1>7. ASSUME NEW j \in 0..k PROVE g[j] = IF j = 0 THEN A ELSE G[g[j - 1]]
  <2>1. CASE j = k
    <3>1. g[j] = G[f[k - 1]] /\ g[k - 1] = f[k - 1]
      BY <1>3, <1>4, <2>1
    <3>. QED  BY <1>3, <2>1, <3>1
  <2>2. CASE j # k
    <3>1. j \in 0..(k - 1) /\ g[j] = f[j]
      BY <1>4, <2>2
    <3>2. f[j] = IF j = 0 THEN A ELSE G[f[j - 1]]
      BY <1>5, <3>1 DEF IsRounds
    <3>3. j # 0 => g[j - 1] = f[j - 1]
      BY <1>4, <3>1
    <3>. QED  BY <3>1, <3>2, <3>3
  <2>. QED  BY <2>1, <2>2
<1>8. IsRounds(G, A, g, k)
  BY <1>6, <1>7, Zenon DEF IsRounds
<1>. QED  BY <1>2, <1>8

\* The rounds stay inside a set that holds A and is closed under G.
LEMMA RoundsInside ==
    ASSUME NEW S, NEW G, Grows(G, S), NEW A \in SUBSET S, NEW n \in Nat,
           NEW f, IsRounds(G, A, f, n),
           NEW C, A \subseteq C, Closed(G, S, C)
    PROVE  \A k \in 0..n : A \subseteq f[k] /\ f[k] \subseteq C
<1> DEFINE T == {k \in Nat : k <= n /\ ~(A \subseteq f[k] /\ f[k] \subseteq C)}
<1>1. SUFFICES ASSUME T # {} PROVE FALSE
  OBVIOUS
<1>2. PICK k \in T : \A j \in T : k <= j
  BY <1>1, LeastNumber
<1>3. k \in 0..n /\ ~(A \subseteq f[k] /\ f[k] \subseteq C)
  BY <1>2
<1>4. f[k] = IF k = 0 THEN A ELSE G[f[k - 1]]
  BY <1>3 DEF IsRounds
<1>5. k # 0 /\ k - 1 \in Nat /\ k - 1 <= n /\ k - 1 \notin T
  BY <1>2, <1>3, <1>4
<1>6. A \subseteq f[k - 1] /\ f[k - 1] \subseteq C /\ f[k - 1] \in SUBSET S
  BY <1>5 DEF IsRounds, Grows
<1>. QED  BY <1>3, <1>4, <1>5, <1>6 DEF Grows, Closed

\* After as many rounds as S has elements nothing is added.
LEMMA RoundsEnd ==
    ASSUME NEW S, IsFiniteSet(S), NEW G, Grows(G, S), NEW A \in SUBSET S, NEW n, n = Cardinality(S),
           NEW f, IsRounds(G, A, f, n)
    PROVE  n \in Nat /\ f[n] \in SUBSET S /\ G[f[n]] = f[n]
<1>1. n \in Nat
  BY FS_CardinalityType
<1>2. \A k \in 0..n : IsFiniteSet(f[k]) /\ Cardinality(f[k]) \in Nat /\ f[k] \in SUBSET S
  <2>1. \A k \in 0..n : f[k] \in SUBSET S
    BY DEF IsRounds, Grows
  <2>. QED  BY <2>1, FS_Subset, FS_CardinalityType
<1> DEFINE T == {k \in Nat : k <= n /\ ~(Cardinality(f[k]) >= k \/ G[f[k]] = f[k])}
<1>3. T = {}
  <2>1. SUFFICES ASSUME T # {} PROVE FALSE
    OBVIOUS
  <2>2. PICK k \in T : \A j \in T : k <= j
    BY <2>1, LeastNumber
  <2>3. k \in 0..n /\ ~(Cardinality(f[k]) >= k) /\ G[f[k]] # f[k]
    BY <2>2
  <2>4. k # 0 /\ k - 1 \in 0..n /\ k - 1 \notin T
    <3>1. k # 0
      <4>1. 0 \in 0..n /\ Cardinality(f[0]) \in Nat
        BY <1>1, <1>2
      <4>. QED  BY <2>3, <4>1
    <3>. QED  BY <1>1, <2>2, <2>3, <3>1
  <2>5. f[k] = G[f[k - 1]]
    BY <2>3, <2>4 DEF IsRounds
  <2>6. Cardinality(f[k - 1]) >= k - 1 /\ f[k - 1] # f[k]
    <3>1. G[f[k - 1]] # f[k - 1]
      BY <2>3, <2>5
    <3>. QED  BY <1>1, <2>4, <2>5, <3>1
  <2>7. f[k - 1] \subseteq f[k]
    BY <1>2, <2>4, <2>5 DEF Grows
  <2>8. Cardinality(f[k - 1]) <= Cardinality(f[k]) /\ Cardinality(f[k - 1]) # Cardinality(f[k])
    BY <1>2, <2>3, <2>6, <2>7, FS_Subset
  <2>. QED  BY <1>2, <2>3, <2>4, <2>6, <2>8
<1>4. Cardinality(f[n]) >= n \/ G[f[n]] = f[n]
  BY <1>1, <1>3
<1>5. f[n] # S => Cardinality(f[n]) < n
  <2>1. f[n] \subseteq S
    BY <1>1, <1>2
  <2>. QED  BY <1>1, <1>2, <2>1, FS_Subset
<1>6. f[n] = S => G[f[n]] = f[n]
  <2>1. S \in SUBSET S /\ S \subseteq G[S] /\ G[S] \in SUBSET S
    BY DEF Grows
  <2>2. G[S] = S
    BY <2>1
  <2>. QED  BY <2>2
<1>. QED  BY <1>1, <1>2, <1>4, <1>5, <1>6

\* The same without the types, which follow.
Iterates(G, A, S, f, n) ==
    f[0] = A /\ \A k \in 1..n : f[k - 1] \in SUBSET S => f[k] = G[f[k - 1]]

\* U is the least set that holds A and is closed under G.
LeastClosed(G, A, S, U) ==
    /\ U \in SUBSET S /\ A \subseteq U /\ G[U] = U
    /\ \A C \in SUBSET S : A \subseteq C /\ Closed(G, S, C) => U \subseteq C

\* As many rounds as S has elements come to it.
LEMMA Closure ==
    ASSUME NEW S, IsFiniteSet(S), NEW G, Grows(G, S), NEW A \in SUBSET S, NEW n, n = Cardinality(S),
           NEW f, Iterates(G, A, S, f, n)
    PROVE  LeastClosed(G, A, S, f[n])
<1>1. n \in Nat
  BY FS_CardinalityType
<1>2. \A k \in 0..n : f[k] \in SUBSET S
  <2> DEFINE T == {k \in Nat : k <= n /\ ~(f[k] \in SUBSET S)}
  <2>1. SUFFICES ASSUME T # {} PROVE FALSE
    OBVIOUS
  <2>2. PICK k \in T : \A j \in T : k <= j
    BY <2>1, LeastNumber
  <2>3. k # 0 /\ k \in Nat /\ k <= n
    BY <2>2 DEF Iterates
  <2>6. k \in 1..n /\ k - 1 \in Nat /\ k - 1 <= n /\ k - 1 \notin T
    BY <1>1, <2>2, <2>3
  <2>4. f[k - 1] \in SUBSET S
    BY <2>6
  <2>5. f[k] = G[f[k - 1]]
    BY <2>6, <2>4 DEF Iterates
  <2>. QED  BY <2>2, <2>4, <2>5 DEF Grows
<1>3. IsRounds(G, A, f, n)
  <2>1. ASSUME NEW k \in 0..n PROVE f[k] = IF k = 0 THEN A ELSE G[f[k - 1]]
    <3>1. CASE k = 0
      BY <3>1 DEF Iterates
    <3>2. CASE k # 0
      <4>1. k \in 1..n /\ k - 1 \in 0..n
        BY <1>1, <3>2
      <4>. QED  BY <1>2, <3>2, <4>1 DEF Iterates
    <3>. QED  BY <3>1, <3>2
  <2>2. DOMAIN G = SUBSET S
    BY DEF Grows
  <2>. QED  BY <1>2, <2>1, <2>2, Zenon DEF IsRounds
<1>4. n \in 0..n
  BY <1>1
<1>5. G[f[n]] = f[n]
  BY <1>3, RoundsEnd
<1>6. ASSUME NEW C \in SUBSET S, A \subseteq C, Closed(G, S, C)
      PROVE  A \subseteq f[n] /\ f[n] \subseteq C
  <2>2. \A k \in 0..n : A \subseteq f[k] /\ f[k] \subseteq C
    BY <1>1, <1>3, <1>6, RoundsInside
  <2>. QED  BY <1>4, <2>2
<1>7. A \subseteq f[n]
  <2>1. Closed(G, S, S)
    BY DEF Grows, Closed
  <2>. QED  BY <1>6, <2>1
<1>. QED  BY <1>2, <1>4, <1>5, <1>6, <1>7 DEF LeastClosed

-----------------------------------------------------------------------------
(* What is around a node h in a graph nx with one edge from each node.     *)

Reach(nx, h, m) == m \cup ({nx[x] : x \in m \cup {h}} \ {h})
IsUpto(nx, h, f, n) == f = [k \in 0..n |-> IF k = 0 THEN {} ELSE Reach(nx, h, f[k - 1])]
MembersBy(E, nx, h) == (CHOOSE f : IsUpto(nx, h, f, Cardinality(E)))[Cardinality(E)]

LEMMA UptoExists == ASSUME NEW nx, NEW h, NEW n \in Nat PROVE \E f : IsUpto(nx, h, f, n)
<1> DEFINE T == {k \in Nat : ~ \E f : IsUpto(nx, h, f, k)}
<1>1. SUFFICES ASSUME T # {} PROVE FALSE
  OBVIOUS
<1>2. PICK k \in T : \A j \in T : k <= j
  BY <1>1, LeastNumber
<1>3. k # 0
  <2>1. IsUpto(nx, h, [j \in 0..0 |-> {}], 0)
    BY DEF IsUpto
  <2>. QED  BY <2>1, <1>2
<1>4. k - 1 \in Nat /\ k \in Nat /\ k - 1 \notin T
  BY <1>2, <1>3
<1>5. PICK f : IsUpto(nx, h, f, k - 1)
  BY <1>4
<1> DEFINE g == [j \in 0..k |-> IF j = k THEN Reach(nx, h, f[k - 1]) ELSE f[j]]
<1>6. ASSUME NEW j \in 0..k PROVE g[j] = IF j = 0 THEN {} ELSE Reach(nx, h, g[j - 1])
  <2>1. CASE j = k
    <3>1. g[j] = Reach(nx, h, f[k - 1]) /\ k - 1 \in 0..k /\ k - 1 # k
      BY <1>3, <1>4, <2>1
    <3>2. g[k - 1] = f[k - 1]
      BY <3>1
    <3>. QED  BY <1>3, <2>1, <3>1, <3>2
  <2>2. CASE j # k
    <3>1. j \in 0..(k - 1) /\ g[j] = f[j]
      BY <1>4, <2>2
    <3>2. f[j] = IF j = 0 THEN {} ELSE Reach(nx, h, f[j - 1])
      BY <1>5, <3>1 DEF IsUpto
    <3>3. j # 0 => g[j - 1] = f[j - 1]
      BY <1>4, <3>1
    <3>. QED  BY <3>1, <3>2, <3>3
  <2>. QED  BY <2>1, <2>2
<1>7. IsUpto(nx, h, g, k)
  BY <1>6, Zenon DEF IsUpto
<1>. QED  BY <1>2, <1>7

\* C holds h and what nx leads to.
Encloses(C, nx, h) == h \in C /\ \A x \in C : nx[x] \in C

LEMMA UptoInside ==
    ASSUME NEW nx, NEW h, NEW C, Encloses(C, nx, h), NEW n \in Nat, NEW f, IsUpto(nx, h, f, n)
    PROVE  \A k \in 0..n : f[k] \subseteq C \ {h}
<1> DEFINE T == {k \in Nat : k <= n /\ ~(f[k] \subseteq C \ {h})}
<1>1. SUFFICES ASSUME T # {} PROVE FALSE
  OBVIOUS
<1>2. PICK k \in T : \A j \in T : k <= j
  BY <1>1, LeastNumber
<1>3. k \in 0..n /\ ~(f[k] \subseteq C \ {h})
  BY <1>2
<1>4. f[k] = IF k = 0 THEN {} ELSE Reach(nx, h, f[k - 1])
  BY <1>3 DEF IsUpto
<1>5. k # 0 /\ k - 1 \in Nat /\ k - 1 <= n /\ k - 1 \notin T
  BY <1>2, <1>3, <1>4
<1>6. f[k - 1] \subseteq C \ {h}
  BY <1>5
<1>7. Reach(nx, h, f[k - 1]) \subseteq C \ {h}
  BY <1>6 DEF Reach, Encloses
<1>. QED  BY <1>3, <1>4, <1>5, <1>7

\* When a round adds nothing, no later one does.
LEMMA UptoStops ==
    ASSUME NEW nx, NEW h, NEW n \in Nat, NEW f, IsUpto(nx, h, f, n),
           NEW k \in 0..n, Reach(nx, h, f[k]) = f[k]
    PROVE  f[n] = f[k]
<1> DEFINE T == {j \in Nat : k <= j /\ j <= n /\ f[j] # f[k]}
<1>1. SUFFICES ASSUME T # {} PROVE FALSE
  BY DEF T
<1>2. PICK j \in T : \A m \in T : j <= m
  BY <1>1, LeastNumber
<1>3. j \in 0..n /\ j # 0 /\ j # k /\ f[j] # f[k] /\ k <= j
  BY <1>2
<1>4. f[j] = Reach(nx, h, f[j - 1])
  BY <1>3 DEF IsUpto
<1>5. j - 1 \in Nat /\ k <= j - 1 /\ j - 1 <= n /\ j - 1 \notin T
  BY <1>2, <1>3
<1>6. f[j - 1] = f[k]
  BY <1>5
<1>. QED  BY <1>3, <1>4, <1>6

\* Until then each round adds something.
LEMMA UptoGrows ==
    ASSUME NEW nx, NEW h, NEW n \in Nat, NEW f, IsUpto(nx, h, f, n), NEW S, IsFiniteSet(S),
           \A k \in 0..n : f[k] \subseteq S /\ Reach(nx, h, f[k]) # f[k]
    PROVE  Cardinality(f[n]) >= n
<1> DEFINE T == {k \in Nat : k <= n /\ ~(Cardinality(f[k]) >= k)}
<1>1. SUFFICES ASSUME T # {} PROVE FALSE
  BY DEF T
<1>2. PICK k \in T : \A j \in T : k <= j
  BY <1>1, LeastNumber
<1>3. k \in 0..n /\ ~(Cardinality(f[k]) >= k)
  BY <1>2
<1>4. IsFiniteSet(f[k]) /\ Cardinality(f[k]) \in Nat
  <2>1. f[k] \in SUBSET S
    BY <1>3
  <2>2. IsFiniteSet(f[k])
    BY <2>1, FS_Subset
  <2>. QED  BY <2>2, FS_CardinalityType
<1>5. k # 0 /\ k - 1 \in 0..n /\ k - 1 \notin T
  BY <1>2, <1>3, <1>4
<1>6. Cardinality(f[k - 1]) >= k - 1
  BY <1>5
<1>7. f[k] = Reach(nx, h, f[k - 1])
  BY <1>3, <1>5 DEF IsUpto
<1>8. f[k - 1] \subseteq f[k] /\ f[k - 1] # f[k]
  BY <1>5, <1>7 DEF Reach
<1>9. IsFiniteSet(f[k - 1]) /\ Cardinality(f[k - 1]) \in Nat
  BY <1>4, <1>8, FS_Subset, FS_CardinalityType
<1>10. Cardinality(f[k - 1]) <= Cardinality(f[k]) /\ Cardinality(f[k - 1]) # Cardinality(f[k])
  BY <1>4, <1>8, FS_Subset
<1>. QED  BY <1>3, <1>4, <1>6, <1>9, <1>10

\* And h itself.
RingOf(E, nx, h) == MembersBy(E, nx, h) \cup {h}

LEMMA MembersUpto ==
    ASSUME NEW E, IsFiniteSet(E), NEW nx, NEW h
    PROVE  /\ Cardinality(E) \in Nat
           /\ \E f : IsUpto(nx, h, f, Cardinality(E)) /\ MembersBy(E, nx, h) = f[Cardinality(E)]
<1>1. Cardinality(E) \in Nat
  BY FS_CardinalityType
<1>2. \E f : IsUpto(nx, h, f, Cardinality(E))
  BY <1>1, UptoExists
<1>. QED  BY <1>1, <1>2, Zenon DEF MembersBy

\* Nothing is around h that it does not lead to.
LEMMA AroundInside ==
    ASSUME NEW E, IsFiniteSet(E), NEW nx, NEW h, NEW C, Encloses(C, nx, h)
    PROVE  RingOf(E, nx, h) \subseteq C /\ MembersBy(E, nx, h) \subseteq C \ {h}
<1>1. Cardinality(E) \in Nat
  BY MembersUpto
<1>2. PICK f : IsUpto(nx, h, f, Cardinality(E)) /\ MembersBy(E, nx, h) = f[Cardinality(E)]
  BY MembersUpto
<1>3. f[Cardinality(E)] \subseteq C \ {h}
  BY <1>1, <1>2, UptoInside
<1>. QED  BY <1>2, <1>3 DEF Encloses, RingOf

\* All that it leads to is around h, if that is no other head.
LEMMA AroundHolds ==
    ASSUME NEW E, IsFiniteSet(E), NEW nx, NEW h, NEW C, Encloses(C, nx, h), C \ {h} \subseteq E
    PROVE  Encloses(RingOf(E, nx, h), nx, h)
<1> DEFINE n == Cardinality(E)
<1>1. n \in Nat
  BY MembersUpto
<1>2. PICK f : IsUpto(nx, h, f, n) /\ MembersBy(E, nx, h) = f[n]
  BY MembersUpto
<1> HIDE DEF n
<1>3. \A k \in 0..n : f[k] \subseteq C \ {h} /\ f[k] \subseteq E
  BY <1>1, <1>2, UptoInside
<1>4. CASE \E k \in 0..n : Reach(nx, h, f[k]) = f[k]
  <2>1. PICK k \in 0..n : Reach(nx, h, f[k]) = f[k]
    BY <1>4
  <2>2. f[n] = f[k]
    BY <1>1, <1>2, <2>1, UptoStops
  <2>. QED  BY <1>2, <2>1, <2>2 DEF Reach, Encloses, RingOf
<1>5. CASE \A k \in 0..n : Reach(nx, h, f[k]) # f[k]
  <2>1. Cardinality(f[n]) >= n
    BY <1>1, <1>2, <1>3, <1>5, UptoGrows
  <2>2. n \in 0..n /\ f[n] \in SUBSET E
    BY <1>1, <1>3
  <2>3. IsFiniteSet(f[n]) /\ Cardinality(f[n]) <= n /\ (n = Cardinality(f[n]) => E = f[n])
    BY <2>2, FS_Subset DEF n
  <2>4. Cardinality(f[n]) \in Nat
    BY <2>3, FS_CardinalityType
  <2>5. f[n] = E
    BY <1>1, <2>1, <2>3, <2>4
  <2>6. RingOf(E, nx, h) = C
    BY <1>1, <1>2, <1>3, <2>5 DEF Encloses, RingOf
  <2>. QED  BY <2>6
<1>. QED  BY <1>4, <1>5

-----------------------------------------------------------------------------
(* Rings                                                                   *)

\* Round the ring of h one meets no other head.
Alone(E, nx, h) == \E C : Encloses(C, nx, h) /\ C \ {h} \subseteq E

LEMMA AroundAHead ==
    ASSUME NEW E, IsFiniteSet(E), NEW nx, NEW h, Alone(E, nx, h)
    PROVE  Encloses(RingOf(E, nx, h), nx, h) /\ MembersBy(E, nx, h) \subseteq E
<1>1. PICK C : Encloses(C, nx, h) /\ C \ {h} \subseteq E
  BY DEF Alone
<1>. QED  BY <1>1, AroundHolds, AroundInside

\* In a finite ring, what leads into it is in it.
LEMMA AroundBefore ==
    ASSUME NEW E, IsFiniteSet(E), NEW nx, NEW h, Alone(E, nx, h), NEW x \in RingOf(E, nx, h),
           \A y, z \in RingOf(E, nx, h) : nx[y] = nx[z] => y = z
    PROVE  \E p \in RingOf(E, nx, h) : nx[p] = x
<1> DEFINE A == RingOf(E, nx, h)
<1>1. SUFFICES ASSUME \A p \in A : nx[p] # x PROVE FALSE
  OBVIOUS
<1>2. Encloses(A, nx, h) /\ IsFiniteSet(A)
  <2>1. IsFiniteSet(E \cup {h})
    BY FS_AddElement
  <2>2. A \in SUBSET (E \cup {h})
    BY AroundAHead DEF RingOf
  <2>. QED  BY <2>1, <2>2, FS_Subset, AroundAHead
<1> HIDE DEF A
<1>3. x \in A
  BY DEF A
<1>4. /\ IsFiniteSet(A \ {x}) /\ Cardinality(A \ {x}) < Cardinality(A)
  <2>1. Cardinality(A) \in Nat /\ Cardinality(A \ {x}) = Cardinality(A) - 1 /\ IsFiniteSet(A \ {x})
    BY <1>2, <1>3, FS_RemoveElement, FS_CardinalityType
  <2>. QED  BY <2>1
<1> DEFINE g == [y \in A |-> nx[y]]
<1>5. g \in [A -> A \ {x}] /\ \A y \in A : g[y] = nx[y]
  BY <1>1, <1>2 DEF Encloses
<1> HIDE DEF g
<1>6. \E y, z \in A : y # z /\ g[y] = g[z]
  BY <1>2, <1>4, <1>5, FS_PigeonHole
<1>. QED  BY <1>5, <1>6 DEF A

\* pv leads back over every edge of nx.
Undoes(S, nx, pv) == \A x \in S : pv[x] \in S /\ nx[pv[x]] = x /\ pv[nx[x]] = x

\* What is around a head is left in neither direction.
LEMMA AroundBothWays ==
    ASSUME NEW E, NEW S, E \subseteq S, IsFiniteSet(E), NEW nx, NEW pv, NEW h \in S, Alone(E, nx, h),
           Undoes(S, nx, pv)
    PROVE  \A x \in RingOf(E, nx, h) : x \in S /\ nx[x] \in RingOf(E, nx, h) /\ pv[x] \in RingOf(E, nx, h)
<1> DEFINE A == RingOf(E, nx, h)
<1>1. Encloses(A, nx, h) /\ A \subseteq S
  BY AroundAHead DEF RingOf
<1>2. \A y, z \in A : nx[y] = nx[z] => y = z
  BY <1>1 DEF Undoes
<1>3. ASSUME NEW x \in A PROVE pv[x] \in A
  <2>1. PICK p \in A : nx[p] = x
    BY <1>2, AroundBefore
  <2>. QED  BY <1>1, <2>1 DEF Undoes
<1>. QED  BY <1>1, <1>3 DEF Encloses

\* In S each of two directions undoes the other.
Mutual(S, fw, bk) == \A x \in S : bk[x] \in S /\ fw[x] \in S /\ fw[bk[x]] = x /\ bk[fw[x]] = x

\* In either direction a link puts e behind some b.
PutBehind(S, fw, bk, gw, gk, e, b) ==
    /\ fw[b] # e /\ b # e
    /\ gw[e] = fw[b] /\ gw[b] = e /\ gk[e] = b /\ gk[fw[b]] = e
    /\ \A x \in S : x # e /\ x # b => gw[x] = fw[x]
    /\ \A x \in S : x # e /\ x # fw[b] => gk[x] = bk[x]

\* The neighbours of e are joined and e is a ring of its own.
TakenOut(S, fw, bk, gw, gk, e) ==
    /\ gw[e] = e /\ gk[e] = e
    /\ bk[e] # e => gw[bk[e]] = fw[e]
    /\ fw[e] # e => gk[fw[e]] = bk[e]
    /\ \A x \in S : x # e /\ x # bk[e] => gw[x] = fw[x]
    /\ \A x \in S : x # e /\ x # fw[e] => gk[x] = bk[x]

\* A node that is a ring of its own goes between two neighbours in a ring.
LEMMA PutKeepsMutual ==
    ASSUME NEW S, NEW fw, NEW bk, Mutual(S, fw, bk), NEW gw, NEW gk,
           NEW e \in S, NEW b \in S, fw[e] = e, PutBehind(S, fw, bk, gw, gk, e, b)
    PROVE  Mutual(S, gw, gk)
<1> DEFINE a == fw[b]
<1>1. a \in S /\ bk[a] = b /\ bk[e] = e /\ a # e /\ b # e
  BY DEF Mutual, PutBehind
<1>2. /\ gw[e] = a /\ gw[b] = e /\ gk[e] = b /\ gk[a] = e
      /\ \A x \in S : x # e /\ x # b => gw[x] = fw[x]
      /\ \A x \in S : x # e /\ x # a => gk[x] = bk[x]
  BY DEF PutBehind
<1> HIDE DEF a
<1>3. ASSUME NEW x \in S PROVE gk[x] \in S /\ gw[gk[x]] = x
  <2>1. CASE x # e /\ x # a
    <3>1. bk[x] \in S /\ fw[bk[x]] = x /\ gk[x] = bk[x]
      BY <1>2, <2>1 DEF Mutual
    <3>2. bk[x] # e /\ bk[x] # b
      BY <2>1, <3>1 DEF a
    <3>. QED  BY <1>2, <3>1, <3>2
  <2>. QED  BY <1>1, <1>2, <2>1
<1>4. ASSUME NEW x \in S PROVE gw[x] \in S /\ gk[gw[x]] = x
  <2>1. CASE x # e /\ x # b
    <3>1. fw[x] \in S /\ bk[fw[x]] = x /\ gw[x] = fw[x]
      BY <1>2, <2>1 DEF Mutual
    <3>2. fw[x] # e /\ fw[x] # a
      BY <1>1, <2>1, <3>1
    <3>. QED  BY <1>2, <3>1, <3>2
  <2>. QED  BY <1>1, <1>2, <2>1
<1>. QED  BY <1>3, <1>4 DEF Mutual

\* Taking a node out joins its neighbours and leaves a ring of one, also when
\* it was one before.
LEMMA TakeKeepsMutual ==
    ASSUME NEW S, NEW fw, NEW bk, Mutual(S, fw, bk), NEW gw, NEW gk,
           NEW e \in S, TakenOut(S, fw, bk, gw, gk, e)
    PROVE  Mutual(S, gw, gk)
<1> DEFINE p == bk[e]  n == fw[e]
<1>1. p \in S /\ n \in S /\ fw[p] = e /\ bk[n] = e /\ (p = e <=> n = e)
  BY DEF Mutual
<1>2. /\ gw[e] = e /\ gk[e] = e
      /\ p # e => gw[p] = n
      /\ n # e => gk[n] = p
      /\ \A x \in S : x # e /\ x # p => gw[x] = fw[x]
      /\ \A x \in S : x # e /\ x # n => gk[x] = bk[x]
  BY DEF TakenOut
<1>5. \A x \in S : (fw[x] = e => x = p) /\ (bk[x] = e => x = n)
  BY DEF Mutual
<1>6. \A x \in S : (bk[x] = p => x = e) /\ (fw[x] = n => x = e)
  BY DEF Mutual
<1> HIDE DEF p, n
<1>3. ASSUME NEW x \in S PROVE gk[x] \in S /\ gw[gk[x]] = x
  <2>1. CASE x # e /\ x # n
    <3>1. bk[x] \in S /\ fw[bk[x]] = x /\ gk[x] = bk[x]
      BY <1>2, <2>1 DEF Mutual
    <3>. QED  BY <1>2, <1>5, <1>6, <2>1, <3>1
  <2>2. CASE x = n /\ x # e
    BY <1>1, <1>2, <2>2
  <2>. QED  BY <1>2, <2>1, <2>2
<1>4. ASSUME NEW x \in S PROVE gw[x] \in S /\ gk[gw[x]] = x
  <2>1. CASE x # e /\ x # p
    <3>1. fw[x] \in S /\ bk[fw[x]] = x /\ gw[x] = fw[x]
      BY <1>2, <2>1 DEF Mutual
    <3>. QED  BY <1>2, <1>5, <1>6, <2>1, <3>1
  <2>2. CASE x = p /\ x # e
    BY <1>1, <1>2, <2>2
  <2>. QED  BY <1>2, <2>1, <2>2
<1>. QED  BY <1>3, <1>4 DEF Mutual

-----------------------------------------------------------------------------
(* The rings as sequences.                                                 *)

\* The places on the way around h, which begins at h as place 0 and ends there.
PlaceOn(h, w, k) == IF k \in 1..Len(w) THEN w[k] ELSE h

\* From h on, nx leads through w, and pv leads back.
Leads(E, nx, pv, h, w) ==
    /\ w \in Seq(E)
    /\ \A k \in 1..Len(w) : nx[PlaceOn(h, w, k - 1)] = w[k] /\ pv[w[k]] = PlaceOn(h, w, k - 1)

\* And then to h again.
Way(E, nx, pv, h, w) ==
    /\ Leads(E, nx, pv, h, w)
    /\ nx[PlaceOn(h, w, Len(w))] = h /\ pv[h] = PlaceOn(h, w, Len(w))

LEMMA PlaceOnStart == \A h, w : PlaceOn(h, w, 0) = h
  BY DEF PlaceOn

LEMMA PlaceOnIs ==
    ASSUME NEW E, NEW h, NEW w \in Seq(E), NEW k \in 0..Len(w)
    PROVE  /\ Len(w) \in Nat
           /\ IF k = 0 THEN PlaceOn(h, w, k) = h ELSE PlaceOn(h, w, k) = w[k] /\ w[k] \in E
  BY DEF PlaceOn

LEMMA LeadsOnce ==
    ASSUME NEW E, NEW nx, NEW pv, NEW h, h \notin E, NEW w, Leads(E, nx, pv, h, w)
    PROVE  \A j, k \in 1..Len(w) : w[j] = w[k] => j = k
<1> DEFINE T == {j \in Nat : j \in 1..Len(w) /\ \E k \in 1..Len(w) : j # k /\ w[j] = w[k]}
<1>1. SUFFICES ASSUME T # {} PROVE FALSE
  BY DEF Leads
<1>2. PICK j \in T : \A k \in T : j <= k
  BY <1>1, LeastNumber
<1>3. PICK k \in 1..Len(w) : j # k /\ w[j] = w[k]
  BY <1>2
<1>4. j \in 1..Len(w) /\ Len(w) \in Nat /\ w \in Seq(E)
  BY <1>2 DEF Leads
<1>5. j < k
  BY <1>2, <1>3, <1>4
<1>6. PlaceOn(h, w, j - 1) = PlaceOn(h, w, k - 1)
  BY <1>3, <1>4 DEF Leads
<1>7. PlaceOn(h, w, k - 1) = w[k - 1] /\ w[k - 1] \in E
  BY <1>3, <1>4, <1>5, PlaceOnIs
<1>8. j # 1
  BY <1>4, <1>6, <1>7, PlaceOnIs, PlaceOnStart
<1>9. w[j - 1] = w[k - 1] /\ j - 1 # k - 1
  BY <1>3, <1>4, <1>6, <1>7, <1>8, PlaceOnIs
<1>10. j - 1 \in T
  BY <1>3, <1>4, <1>5, <1>8, <1>9
<1>. QED  BY <1>2, <1>4, <1>10

\* What leads from two heads has nothing in common.
LEMMA LeadsApart ==
    ASSUME NEW E, NEW nx, NEW pv, NEW h, h \notin E, NEW g, g \notin E, h # g,
           NEW w, Leads(E, nx, pv, h, w), NEW v, Leads(E, nx, pv, g, v)
    PROVE  \A j \in 1..Len(w), k \in 1..Len(v) : w[j] # v[k]
<1> DEFINE T == {j \in Nat : j \in 1..Len(w) /\ \E k \in 1..Len(v) : w[j] = v[k]}
<1>9. \A j \in 1..Len(w) : j \in Nat
  BY DEF Leads
<1>1. SUFFICES ASSUME T # {} PROVE FALSE
  BY <1>9
<1>2. PICK j \in T : \A k \in T : j <= k
  BY <1>1, LeastNumber
<1>3. PICK k \in 1..Len(v) : w[j] = v[k]
  BY <1>2
<1>4. /\ j \in 1..Len(w) /\ Len(w) \in Nat /\ w \in Seq(E)
      /\ Len(v) \in Nat /\ v \in Seq(E)
  BY <1>2 DEF Leads
<1>5. PlaceOn(h, w, j - 1) = PlaceOn(g, v, k - 1)
  BY <1>3, <1>4 DEF Leads
<1>6. j # 1 /\ k # 1
  BY <1>3, <1>4, <1>5, PlaceOnIs, PlaceOnStart
<1>7. w[j - 1] = v[k - 1]
  BY <1>3, <1>4, <1>5, <1>6, PlaceOnIs
<1>8. j - 1 \in T
  BY <1>3, <1>4, <1>6, <1>7
<1>. QED  BY <1>2, <1>4, <1>8

\* A head has one way.
LEMMA WaysAgree ==
    ASSUME NEW E, NEW nx, NEW pv, NEW h, h \notin E, NEW w, Way(E, nx, pv, h, w), NEW v, Way(E, nx, pv, h, v)
    PROVE  \A k \in 0..Len(w) : k <= Len(v) /\ PlaceOn(h, w, k) = PlaceOn(h, v, k)
<1> DEFINE T == {k \in Nat : k <= Len(w) /\ ~(k <= Len(v) /\ PlaceOn(h, w, k) = PlaceOn(h, v, k))}
<1>4. Len(w) \in Nat /\ w \in Seq(E) /\ Len(v) \in Nat /\ v \in Seq(E)
  BY DEF Way, Leads
<1>1. SUFFICES ASSUME T # {} PROVE FALSE
  BY <1>4
<1>2. PICK k \in T : \A j \in T : k <= j
  BY <1>1, LeastNumber
<1>3. k \in 0..Len(w) /\ ~(k <= Len(v) /\ PlaceOn(h, w, k) = PlaceOn(h, v, k))
  BY <1>2, <1>4
<1>5. k # 0
  BY <1>3, <1>4, PlaceOnIs, PlaceOnStart
<1>6. k - 1 <= Len(v) /\ PlaceOn(h, w, k - 1) = PlaceOn(h, v, k - 1)
  <2>1. k - 1 \in Nat /\ k - 1 <= Len(w) /\ k - 1 \notin T
    BY <1>2, <1>3, <1>4, <1>5
  <2>. QED  BY <2>1
<1>7. nx[PlaceOn(h, v, k - 1)] = w[k] /\ w[k] \in E /\ PlaceOn(h, w, k) = w[k]
  <2>1. nx[PlaceOn(h, w, k - 1)] = w[k]
    BY <1>3, <1>4, <1>5 DEF Way, Leads
  <2>. QED  BY <2>1, <1>3, <1>4, <1>5, <1>6, PlaceOnIs
<1>8. k - 1 # Len(v)
  BY <1>7 DEF Way
<1>9. k \in 1..Len(v)
  BY <1>3, <1>4, <1>5, <1>6, <1>8
<1>10. nx[PlaceOn(h, v, k - 1)] = v[k] /\ PlaceOn(h, v, k) = v[k]
  BY <1>4, <1>9, PlaceOnIs DEF Way, Leads
<1>. QED  BY <1>3, <1>4, <1>7, <1>9, <1>10

LEMMA WayIsUnique ==
    ASSUME NEW E, NEW nx, NEW pv, NEW h, h \notin E, NEW w, Way(E, nx, pv, h, w), NEW v, Way(E, nx, pv, h, v)
    PROVE  w = v
<1>1. Len(w) \in Nat /\ w \in Seq(E) /\ Len(v) \in Nat /\ v \in Seq(E)
  BY DEF Way, Leads
<1>2. \A k \in 0..Len(w) : k <= Len(v) /\ PlaceOn(h, w, k) = PlaceOn(h, v, k)
  BY WaysAgree
<1>3. \A k \in 0..Len(v) : k <= Len(w)
  BY WaysAgree
<1>4. Len(w) = Len(v)
  BY <1>1, <1>2, <1>3
<1>5. ASSUME NEW k \in 1..Len(w) PROVE w[k] = v[k]
  BY <1>1, <1>2, <1>4, <1>5, PlaceOnIs
<1>. QED  BY <1>1, <1>4, <1>5

\* No way is longer than there are entries.
LEMMA LeadsFits ==
    ASSUME NEW E, IsFiniteSet(E), NEW nx, NEW pv, NEW h, h \notin E, NEW w, Leads(E, nx, pv, h, w)
    PROVE  Len(w) \in Nat /\ Cardinality(E) \in Nat /\ Len(w) <= Cardinality(E)
<1> DEFINE n == Cardinality(E)
<1>1. w \in Seq(E) /\ Len(w) \in Nat /\ n \in Nat
  BY FS_CardinalityType DEF Leads
<1>2. SUFFICES ASSUME n < Len(w) PROVE FALSE
  BY <1>1
<1>3. w \in [1..Len(w) -> E]
  BY <1>1
<1>4. IsFiniteSet(1..Len(w)) /\ Cardinality(1..Len(w)) = Len(w)
  <2>1. 1 \in Int /\ Len(w) \in Int /\ (IF 1 > Len(w) THEN 0 ELSE Len(w) - 1 + 1) = Len(w)
    BY <1>1
  <2>. QED  BY <2>1, FS_Interval
<1>5. \E x, y \in 1..Len(w) : x # y /\ w[x] = w[y]
  BY <1>1, <1>2, <1>3, <1>4, FS_PigeonHole
<1>. QED  BY <1>5, LeadsOnce

-----------------------------------------------------------------------------
(* What Walk collects, for any function in the place of next.              *)

LastOf(h, way) == IF way = <<>> THEN h ELSE way[Len(way)]
Longer(nx, h, way) == IF nx[LastOf(h, way)] = h THEN way ELSE Append(way, nx[LastOf(h, way)])
IsWalkUpto(nx, h, f, n) == f = [k \in 0..n |-> IF k = 0 THEN <<>> ELSE Longer(nx, h, f[k - 1])]
WalkBy(E, nx, h) == (CHOOSE f : IsWalkUpto(nx, h, f, Cardinality(E)))[Cardinality(E)]

LEMMA WalkUptoExists == ASSUME NEW nx, NEW h, NEW n \in Nat PROVE \E f : IsWalkUpto(nx, h, f, n)
<1> DEFINE T == {k \in Nat : ~ \E f : IsWalkUpto(nx, h, f, k)}
<1>1. SUFFICES ASSUME T # {} PROVE FALSE
  OBVIOUS
<1>2. PICK k \in T : \A j \in T : k <= j
  BY <1>1, LeastNumber
<1>3. k # 0
  <2>1. IsWalkUpto(nx, h, [j \in 0..0 |-> <<>>], 0)
    BY DEF IsWalkUpto
  <2>. QED  BY <2>1, <1>2
<1>4. k - 1 \in Nat /\ k \in Nat /\ k - 1 \notin T
  BY <1>2, <1>3
<1>5. PICK f : IsWalkUpto(nx, h, f, k - 1)
  BY <1>4
<1> DEFINE g == [j \in 0..k |-> IF j = k THEN Longer(nx, h, f[k - 1]) ELSE f[j]]
<1>6. ASSUME NEW j \in 0..k PROVE g[j] = IF j = 0 THEN <<>> ELSE Longer(nx, h, g[j - 1])
  <2>1. CASE j = k
    <3>1. g[j] = Longer(nx, h, f[k - 1]) /\ k - 1 \in 0..k /\ k - 1 # k
      BY <1>3, <1>4, <2>1
    <3>2. g[k - 1] = f[k - 1]
      BY <3>1
    <3>. QED  BY <1>3, <2>1, <3>1, <3>2
  <2>2. CASE j # k
    <3>1. j \in 0..(k - 1) /\ g[j] = f[j]
      BY <1>4, <2>2
    <3>2. f[j] = IF j = 0 THEN <<>> ELSE Longer(nx, h, f[j - 1])
      BY <1>5, <3>1 DEF IsWalkUpto
    <3>3. j # 0 => g[j - 1] = f[j - 1]
      BY <1>4, <3>1
    <3>. QED  BY <3>1, <3>2, <3>3
  <2>. QED  BY <2>1, <2>2
<1>7. IsWalkUpto(nx, h, g, k)
  BY <1>6, Zenon DEF IsWalkUpto
<1>. QED  BY <1>2, <1>7

\* One more place of the way, unless it is at its end.
LEMMA LongerLeads ==
    ASSUME NEW E, NEW S, E \subseteq S, NEW nx, NEW pv, Mutual(S, nx, pv), NEW h \in S, h \notin E,
           NEW C, Encloses(C, nx, h), C \ {h} \subseteq E,
           NEW w, Leads(E, nx, pv, h, w), \A k \in 1..Len(w) : w[k] \in C
    PROVE  \/ Way(E, nx, pv, h, w) /\ Longer(nx, h, w) = w
           \/ /\ Leads(E, nx, pv, h, Longer(nx, h, w)) /\ Len(Longer(nx, h, w)) = Len(w) + 1
              /\ \A k \in 1..(Len(w) + 1) : Longer(nx, h, w)[k] \in C
<1> DEFINE l == PlaceOn(h, w, Len(w))
<1>1. w \in Seq(E) /\ Len(w) \in Nat
  BY DEF Leads
<1>2. LastOf(h, w) = l
  BY <1>1 DEF LastOf, PlaceOn
<1>3. l \in C /\ l \in S
  <2>1. l \in C
    BY <1>1 DEF PlaceOn, Encloses
  <2>. QED  BY <2>1
<1> HIDE DEF l
<1>4. nx[l] \in C /\ pv[nx[l]] = l
  BY <1>3 DEF Encloses, Mutual
<1>5. CASE nx[l] = h
  BY <1>2, <1>4, <1>5 DEF Way, Longer, l
<1>6. CASE nx[l] # h
  <2> DEFINE x == nx[l]
             v == Append(w, x)
  <2>1. Longer(nx, h, w) = v /\ x \in E /\ x \in C
    BY <1>2, <1>4, <1>6 DEF Longer
  <2>2. v \in Seq(E) /\ Len(v) = Len(w) + 1 /\ v[Len(w) + 1] = x /\ \A k \in 1..Len(w) : v[k] = w[k]
    BY <1>1, <2>1
  <2>3. pv[x] = l
    BY <1>4
  <2> HIDE DEF v
  <2>4. \A k \in 0..Len(w) : PlaceOn(h, v, k) = PlaceOn(h, w, k)
    BY <1>1, <2>2 DEF PlaceOn
  <2>5. ASSUME NEW k \in 1..Len(v) PROVE nx[PlaceOn(h, v, k - 1)] = v[k] /\ pv[v[k]] = PlaceOn(h, v, k - 1)
    <3>1. k - 1 \in 0..Len(w) /\ PlaceOn(h, v, k - 1) = PlaceOn(h, w, k - 1)
      BY <1>1, <2>2, <2>4
    <3>2. CASE k = Len(w) + 1
      <4>1. k - 1 = Len(w)
        BY <1>1, <3>2
      <4>. QED  BY <2>2, <2>3, <3>1, <3>2, <4>1 DEF l
    <3>3. CASE k # Len(w) + 1
      <4>1. k \in 1..Len(w)
        BY <1>1, <2>2, <3>3
      <4>. QED  BY <2>2, <3>1, <4>1 DEF Leads
    <3>. QED  BY <3>2, <3>3
  <2>6. \A k \in 1..(Len(w) + 1) : v[k] \in C
    BY <1>1, <2>1, <2>2
  <2>. QED  BY <2>1, <2>2, <2>5, <2>6 DEF Leads
<1>. QED  BY <1>5, <1>6

\* Walk goes the way to its end.
LEMMA WalkIsWay ==
    ASSUME NEW E, NEW S, E \subseteq S, IsFiniteSet(E), NEW nx, NEW pv, Mutual(S, nx, pv), NEW h \in S, h \notin E, Alone(E, nx, h)
    PROVE  Way(E, nx, pv, h, WalkBy(E, nx, h))
<1> DEFINE n == Cardinality(E)
<1>1. n \in Nat
  BY FS_CardinalityType
<1>2. PICK f : IsWalkUpto(nx, h, f, n) /\ WalkBy(E, nx, h) = f[n]
  <2>1. \E f : IsWalkUpto(nx, h, f, n)
    BY <1>1, WalkUptoExists
  <2>. QED  BY <2>1, Zenon DEF WalkBy
<1> HIDE DEF n
<1>3. PICK C : Encloses(C, nx, h) /\ C \ {h} \subseteq E
  BY DEF Alone
<1>further. ASSUME NEW w, Leads(E, nx, pv, h, w), \A k \in 1..Len(w) : w[k] \in C
       PROVE  \/ Way(E, nx, pv, h, w) /\ Longer(nx, h, w) = w
              \/ /\ Leads(E, nx, pv, h, Longer(nx, h, w)) /\ Len(Longer(nx, h, w)) = Len(w) + 1
                 /\ \A k \in 1..(Len(w) + 1) : Longer(nx, h, w)[k] \in C
  BY <1>3, <1>further, LongerLeads, Zenon
<1> DEFINE Good(k) == /\ Leads(E, nx, pv, h, f[k]) /\ \A j \in 1..Len(f[k]) : f[k][j] \in C
                      /\ Len(f[k]) = k \/ Way(E, nx, pv, h, f[k])
           T == {k \in Nat : k <= n /\ ~Good(k)}
<1>4. Good(0)
  <2>1. f[0] = <<>>
    BY <1>1, <1>2 DEF IsWalkUpto
  <2>. QED  BY <2>1 DEF Leads
<1>5. ASSUME NEW k \in 1..n, Good(k - 1) PROVE Good(k)
  <2>1. f[k] = Longer(nx, h, f[k - 1])
    BY <1>1, <1>2 DEF IsWalkUpto
  <2>2. PICK w : w = f[k - 1] /\ Leads(E, nx, pv, h, w) /\ \A j \in 1..Len(w) : w[j] \in C
    BY <1>5
  <2>3. Len(w) = k - 1 \/ Way(E, nx, pv, h, w)
    BY <1>5, <2>2
  <2>4. \/ Way(E, nx, pv, h, w) /\ f[k] = w
        \/ /\ Leads(E, nx, pv, h, f[k]) /\ Len(f[k]) = Len(w) + 1
           /\ \A j \in 1..(Len(w) + 1) : f[k][j] \in C
    BY <1>further, <2>1, <2>2
  <2>5. CASE Way(E, nx, pv, h, w)
    <3>1. CASE f[k] = w
      BY <2>2, <2>5, <3>1
    <3>2. CASE f[k] # w
      <4>1. Leads(E, nx, pv, h, Longer(nx, h, w)) => Longer(nx, h, w) = w
        BY <1>1, <2>2, <2>5 DEF Way, Longer, LastOf, PlaceOn, Leads
      <4>. QED  BY <2>1, <2>2, <2>4, <3>2, <4>1
    <3>. QED  BY <3>1, <3>2
  <2>6. CASE ~Way(E, nx, pv, h, w)
    BY <1>1, <2>3, <2>4, <2>6
  <2>. QED  BY <2>5, <2>6
<1>6. T = {}
  <2>1. SUFFICES ASSUME T # {} PROVE FALSE
    OBVIOUS
  <2>2. PICK k \in T : \A j \in T : k <= j
    BY <2>1, LeastNumber
  <2>3. k # 0 /\ k \in 1..n
    BY <1>1, <1>4, <2>2
  <2>4. k - 1 \notin T /\ k - 1 \in Nat /\ k - 1 <= n
    BY <1>1, <2>2, <2>3
  <2>5. Good(k - 1)
    BY <2>4
  <2>. QED  BY <1>5, <2>2, <2>3, <2>5
<1>7. Good(n)
  BY <1>1, <1>6
<1>8. CASE Way(E, nx, pv, h, f[n])
  BY <1>2, <1>8
<1>9. CASE Len(f[n]) = n /\ ~Way(E, nx, pv, h, f[n])
  <2>1. PICK w : w = f[n] /\ Leads(E, nx, pv, h, w) /\ \A j \in 1..Len(w) : w[j] \in C
    BY <1>7
  <2>2. Leads(E, nx, pv, h, Longer(nx, h, w)) /\ Len(Longer(nx, h, w)) = n + 1
    BY <1>9, <1>further, <2>1
  <2>3. n + 1 <= n
    BY <2>2, LeadsFits DEF n
  <2>. QED  BY <1>1, <2>3
<1>. QED  BY <1>7, <1>8, <1>9

Dropped(w, j) == [k \in 1..(Len(w) - 1) |-> IF k < j THEN w[k] ELSE w[k + 1]]

-----------------------------------------------------------------------------
(* What the writes of list.c do to a way.                                  *)

Inserted(w, j, e) == [k \in 1..(Len(w) + 1) |-> IF k <= j THEN w[k] ELSE IF k = j + 1 THEN e ELSE w[k - 1]]

LEMMA InsertedIs ==
    ASSUME NEW E, NEW w \in Seq(E), NEW e \in E
    PROVE  /\ Inserted(w, 0, e) = <<e>> \o w
           /\ Inserted(w, Len(w), e) = Append(w, e)
<1>1. Len(w) \in Nat /\ Inserted(w, 0, e) \in Seq(E) /\ Inserted(w, Len(w), e) \in Seq(E)
  BY DEF Inserted
<1>2. Len(Inserted(w, 0, e)) = Len(w) + 1 /\ Len(Inserted(w, Len(w), e)) = Len(w) + 1
  BY <1>1 DEF Inserted
<1>3. <<e>> \o w \in Seq(E) /\ Len(<<e>> \o w) = Len(w) + 1
  BY <1>1
<1>4. \A k \in 1..(Len(w) + 1) : (<<e>> \o w)[k] = Inserted(w, 0, e)[k]
  BY <1>1 DEF Inserted
<1>5. \A k \in 1..(Len(w) + 1) : Append(w, e)[k] = Inserted(w, Len(w), e)[k]
  BY <1>1 DEF Inserted
<1>. QED  BY <1>1, <1>2, <1>3, <1>4, <1>5

\* Both ends of each link of a way, the last one included.
LEMMA WayLinks ==
    ASSUME NEW E, NEW nx, NEW pv, NEW h, NEW w, Way(E, nx, pv, h, w)
    PROVE  \A k \in 0..Len(w) : nx[PlaceOn(h, w, k)] = PlaceOn(h, w, k + 1) /\ pv[PlaceOn(h, w, k + 1)] = PlaceOn(h, w, k)
<1>1. w \in Seq(E) /\ Len(w) \in Nat
  BY DEF Way, Leads
<1>2. ASSUME NEW k \in 0..Len(w), k # Len(w)
      PROVE  nx[PlaceOn(h, w, k)] = PlaceOn(h, w, k + 1) /\ pv[PlaceOn(h, w, k + 1)] = PlaceOn(h, w, k)
  <2>1. k + 1 \in 1..Len(w) /\ PlaceOn(h, w, k + 1) = w[k + 1] /\ (k + 1) - 1 = k
    BY <1>1, <1>2, PlaceOnIs
  <2>. QED  BY <2>1 DEF Way, Leads
<1>3. PlaceOn(h, w, Len(w) + 1) = h
  BY <1>1 DEF PlaceOn
<1>. QED  BY <1>2, <1>3 DEF Way

\* A node that is a ring of its own is on no way.
LEMMA LooseOffWay ==
    ASSUME NEW E, NEW nx, NEW pv, NEW h, h \notin E, NEW w, Way(E, nx, pv, h, w), NEW e \in E, nx[e] = e
    PROVE  \A k \in 1..Len(w) : w[k] # e
<1>1. SUFFICES ASSUME NEW k \in 1..Len(w), w[k] = e PROVE FALSE
  OBVIOUS
<1>2. w \in Seq(E) /\ Len(w) \in Nat
  BY DEF Way, Leads
<1>3. k \in 0..Len(w) /\ PlaceOn(h, w, k) = e
  BY <1>1, <1>2 DEF PlaceOn
<1>4. PlaceOn(h, w, k + 1) = e
  BY <1>2, <1>3, WayLinks
<1>5. k + 1 \in 1..Len(w) /\ w[k + 1] = e
  BY <1>2, <1>4 DEF PlaceOn
<1>. QED  BY <1>1, <1>5, LeadsOnce DEF Way

\* And from those links the way.
LEMMA LinksWay ==
    ASSUME NEW E, NEW nx, NEW pv, NEW h, NEW w \in Seq(E),
           \A k \in 0..Len(w) : nx[PlaceOn(h, w, k)] = PlaceOn(h, w, k + 1) /\ pv[PlaceOn(h, w, k + 1)] = PlaceOn(h, w, k)
    PROVE  Way(E, nx, pv, h, w)
<1>1. Len(w) \in Nat
  OBVIOUS
<1>2. PlaceOn(h, w, Len(w) + 1) = h
  BY <1>1 DEF PlaceOn
<1>3. ASSUME NEW k \in 1..Len(w) PROVE nx[PlaceOn(h, w, k - 1)] = w[k] /\ pv[w[k]] = PlaceOn(h, w, k - 1)
  <2>1. k - 1 \in 0..Len(w) /\ (k - 1) + 1 = k /\ PlaceOn(h, w, k) = w[k]
    BY <1>1, PlaceOnIs
  <2>. QED  BY <2>1
<1>. QED  BY <1>1, <1>2, <1>3 DEF Way, Leads

\* A node put behind a place of the way comes after it.
LEMMA WayGains ==
    ASSUME NEW E, NEW S, E \subseteq S, NEW nx, NEW pv, NEW gw, NEW gk, NEW h \in S, h \notin E, NEW w, Way(E, nx, pv, h, w),
           NEW e \in E, \A k \in 1..Len(w) : w[k] # e,
           NEW j \in 0..Len(w), PutBehind(S, nx, pv, gw, gk, e, PlaceOn(h, w, j))
    PROVE  Way(E, gw, gk, h, Inserted(w, j, e))
<1> DEFINE v == Inserted(w, j, e)
<1>1. w \in Seq(E) /\ Len(w) \in Nat /\ j \in Nat /\ j <= Len(w)
  BY DEF Way, Leads
<1>2. v \in Seq(E) /\ Len(v) = Len(w) + 1
  BY <1>1 DEF Inserted
<1>3. /\ \A k \in 0..j : PlaceOn(h, v, k) = PlaceOn(h, w, k)
      /\ PlaceOn(h, v, j + 1) = e
      /\ \A k \in (j + 2)..(Len(w) + 2) : PlaceOn(h, v, k) = PlaceOn(h, w, k - 1)
  BY <1>1, <1>2 DEF PlaceOn, Inserted
<1> HIDE DEF v
<1>4. \A k \in 0..(Len(w) + 1) : PlaceOn(h, w, k) \in S /\ PlaceOn(h, w, k) # e
  BY <1>1 DEF PlaceOn
<1>5. \A k \in 0..Len(w) : nx[PlaceOn(h, w, k)] = PlaceOn(h, w, k + 1) /\ pv[PlaceOn(h, w, k + 1)] = PlaceOn(h, w, k)
  BY WayLinks
<1>6. /\ gw[e] = PlaceOn(h, w, j + 1) /\ gw[PlaceOn(h, w, j)] = e
      /\ gk[e] = PlaceOn(h, w, j) /\ gk[PlaceOn(h, w, j + 1)] = e
      /\ \A x \in S : x # e /\ x # PlaceOn(h, w, j) => gw[x] = nx[x]
      /\ \A x \in S : x # e /\ x # PlaceOn(h, w, j + 1) => gk[x] = pv[x]
  BY <1>5 DEF PutBehind
\* No place comes twice.
<1>7. \A k \in 0..Len(w) : k # j => PlaceOn(h, w, k) # PlaceOn(h, w, j) /\ PlaceOn(h, w, k + 1) # PlaceOn(h, w, j + 1)
  <2>1. ASSUME NEW k \in 0..Len(w), k # j PROVE PlaceOn(h, w, k) # PlaceOn(h, w, j)
    <3>1. CASE k = 0 \/ j = 0
      BY <1>1, <2>1, <3>1, PlaceOnIs, PlaceOnStart
    <3>2. CASE k # 0 /\ j # 0
      <4>1. k \in 1..Len(w) /\ j \in 1..Len(w) /\ PlaceOn(h, w, k) = w[k] /\ PlaceOn(h, w, j) = w[j]
        BY <1>1, <2>1, <3>2, PlaceOnIs
      <4>. QED  BY <2>1, <4>1, LeadsOnce DEF Way
    <3>. QED  BY <3>1, <3>2
  <2>. QED  BY <1>5, <2>1
<1>8. ASSUME NEW k \in 0..Len(v)
      PROVE  gw[PlaceOn(h, v, k)] = PlaceOn(h, v, k + 1) /\ gk[PlaceOn(h, v, k + 1)] = PlaceOn(h, v, k)
  <2>1. k \in Nat /\ k <= Len(w) + 1
    BY <1>1, <1>2
  <2>2. CASE k < j
    <3>1. k \in 0..Len(w) /\ k + 1 \in 0..(Len(w) + 1) /\ k # j /\ k \in 0..j /\ k + 1 \in 0..j
      BY <1>1, <2>1, <2>2
    <3>. QED  BY <1>3, <1>4, <1>5, <1>6, <1>7, <3>1
  <2>3. CASE k = j
    <3>1. PlaceOn(h, v, k) = PlaceOn(h, w, j) /\ PlaceOn(h, v, k + 1) = e
      BY <1>1, <1>3, <2>3
    <3>. QED  BY <1>6, <3>1
  <2>4. CASE k = j + 1
    <3>1. PlaceOn(h, v, k + 1) = PlaceOn(h, w, j + 1) /\ PlaceOn(h, v, k) = e
      BY <1>1, <1>3, <2>4
    <3>. QED  BY <1>6, <3>1
  <2>5. CASE k > j + 1
    <3>1. PICK m \in 0..Len(w) : m = k - 1 /\ m # j
      BY <1>1, <2>1, <2>5
    <3>2. k = m + 1 /\ k \in (j + 2)..(Len(w) + 2) /\ k + 1 \in (j + 2)..(Len(w) + 2) /\ m + 1 \in 0..(Len(w) + 1)
      BY <1>1, <2>1, <2>5, <3>1
    <3>3. PlaceOn(h, v, k) = PlaceOn(h, w, m) /\ PlaceOn(h, v, k + 1) = PlaceOn(h, w, m + 1)
      BY <1>1, <1>3, <2>1, <3>1, <3>2
    <3>4. m \in 0..(Len(w) + 1)
      BY <1>1, <3>1
    <3>. QED  BY <1>4, <1>5, <1>6, <1>7, <3>1, <3>2, <3>3, <3>4
  <2>. QED  BY <1>1, <2>1, <2>2, <2>3, <2>4, <2>5
<1>. QED  BY <1>2, <1>8, LinksWay DEF v

\* A way stays where its links stay.
LEMMA WayStays ==
    ASSUME NEW E, NEW nx, NEW pv, NEW gw, NEW gk, NEW h, NEW w, Way(E, nx, pv, h, w),
           \A k \in 0..Len(w) : gw[PlaceOn(h, w, k)] = nx[PlaceOn(h, w, k)] /\ gk[PlaceOn(h, w, k)] = pv[PlaceOn(h, w, k)]
    PROVE  Way(E, gw, gk, h, w)
<1>1. w \in Seq(E) /\ Len(w) \in Nat
  BY DEF Way, Leads
<1>2. \A k \in 0..Len(w) : nx[PlaceOn(h, w, k)] = PlaceOn(h, w, k + 1) /\ pv[PlaceOn(h, w, k + 1)] = PlaceOn(h, w, k)
  BY WayLinks
<1>3. ASSUME NEW k \in 0..Len(w) PROVE gk[PlaceOn(h, w, k + 1)] = pv[PlaceOn(h, w, k + 1)]
  <2>1. CASE k = Len(w)
    <3>1. PlaceOn(h, w, k + 1) = PlaceOn(h, w, 0) /\ 0 \in 0..Len(w)
      BY <1>1, <2>1 DEF PlaceOn
    <3>. QED  BY <3>1
  <2>2. CASE k # Len(w)
    <3>1. k + 1 \in 0..Len(w)
      BY <1>1, <2>2
    <3>. QED  BY <3>1
  <2>. QED  BY <2>1, <2>2
<1>. QED  BY <1>1, <1>2, <1>3, LinksWay

\* A node put behind a place of one way leaves the others.
LEMMA WaySpared ==
    ASSUME NEW E, NEW S, E \subseteq S, NEW nx, NEW pv, NEW gw, NEW gk, NEW h \in S, h \notin E, NEW w, Way(E, nx, pv, h, w),
           NEW g \in S, g \notin E, g # h, NEW v, Way(E, nx, pv, g, v),
           NEW e \in E, \A k \in 1..Len(v) : v[k] # e,
           NEW j \in 0..Len(w), PutBehind(S, nx, pv, gw, gk, e, PlaceOn(h, w, j))
    PROVE  Way(E, gw, gk, g, v)
<1>1. w \in Seq(E) /\ Len(w) \in Nat /\ v \in Seq(E) /\ Len(v) \in Nat
  BY DEF Way, Leads
<1>2. \A m \in 0..(Len(w) + 1), k \in 0..Len(v) : PlaceOn(g, v, k) # PlaceOn(h, w, m)
  <2>1. \A m \in 1..Len(w), k \in 1..Len(v) : w[m] # v[k]
    BY LeadsApart DEF Way
  <2>. QED  BY <1>1, <2>1 DEF PlaceOn
<1>3. nx[PlaceOn(h, w, j)] = PlaceOn(h, w, j + 1)
  BY WayLinks
<1>4. \A k \in 0..Len(v) : PlaceOn(g, v, k) \in S /\ PlaceOn(g, v, k) # e
  BY <1>1 DEF PlaceOn
<1>5. j \in 0..(Len(w) + 1) /\ j + 1 \in 0..(Len(w) + 1)
  BY <1>1
<1>6. \A k \in 0..Len(v) : gw[PlaceOn(g, v, k)] = nx[PlaceOn(g, v, k)] /\ gk[PlaceOn(g, v, k)] = pv[PlaceOn(g, v, k)]
  BY <1>2, <1>3, <1>4, <1>5 DEF PutBehind
<1>. QED  BY <1>6, WayStays

\* The way it was on is the shorter by its place.
LEMMA WayLoses ==
    ASSUME NEW E, NEW S, E \subseteq S, NEW nx, NEW pv, NEW gw, NEW gk, NEW h \in S, h \notin E, NEW w, Way(E, nx, pv, h, w),
           NEW j \in 1..Len(w), NEW e, e = w[j], TakenOut(S, nx, pv, gw, gk, e)
    PROVE  Way(E, gw, gk, h, Dropped(w, j))
<1> DEFINE v == Dropped(w, j)
<1>1. w \in Seq(E) /\ Len(w) \in Nat /\ j \in Nat /\ 1 <= j /\ j <= Len(w)
  BY DEF Way, Leads
<1>2. v \in Seq(E) /\ Len(v) = Len(w) - 1
  BY <1>1 DEF Dropped
<1>3. /\ \A k \in 0..(j - 1) : PlaceOn(h, v, k) = PlaceOn(h, w, k)
      /\ \A k \in j..Len(w) : PlaceOn(h, v, k) = PlaceOn(h, w, k + 1)
  BY <1>1, <1>2 DEF PlaceOn, Dropped
<1> HIDE DEF v
<1>4. \A k \in 0..(Len(w) + 1) : PlaceOn(h, w, k) \in S
  BY <1>1 DEF PlaceOn
<1>5. \A k \in 0..Len(w) : nx[PlaceOn(h, w, k)] = PlaceOn(h, w, k + 1) /\ pv[PlaceOn(h, w, k + 1)] = PlaceOn(h, w, k)
  BY WayLinks
<1>6. /\ PlaceOn(h, w, j) = e
      /\ nx[e] = PlaceOn(h, w, j + 1) /\ pv[e] = PlaceOn(h, w, j - 1)
  <2>1. PlaceOn(h, w, j) = e
    BY <1>1 DEF PlaceOn
  <2>2. j \in 0..Len(w) /\ j - 1 \in 0..Len(w) /\ (j - 1) + 1 = j
    BY <1>1
  <2>. QED  BY <1>5, <2>1, <2>2
<1>7. \A k, m \in 0..Len(w) : k # m => PlaceOn(h, w, k) # PlaceOn(h, w, m) /\ PlaceOn(h, w, k + 1) # PlaceOn(h, w, m + 1)
  <2>1. ASSUME NEW k \in 0..Len(w), NEW m \in 0..Len(w), k # m PROVE PlaceOn(h, w, k) # PlaceOn(h, w, m)
    <3>1. CASE k = 0 \/ m = 0
      BY <1>1, <2>1, <3>1, PlaceOnIs, PlaceOnStart
    <3>2. CASE k # 0 /\ m # 0
      <4>1. k \in 1..Len(w) /\ m \in 1..Len(w) /\ PlaceOn(h, w, k) = w[k] /\ PlaceOn(h, w, m) = w[m]
        BY <1>1, <2>1, <3>2, PlaceOnIs
      <4>. QED  BY <2>1, <4>1, LeadsOnce DEF Way
    <3>. QED  BY <3>1, <3>2
  <2>. QED  BY <1>5, <2>1
<1>8. /\ \A k \in 0..Len(w) : k # j /\ k # j - 1 => gw[PlaceOn(h, w, k)] = PlaceOn(h, w, k + 1)
      /\ \A k \in 0..Len(w) : k # j /\ k # j - 1 => gk[PlaceOn(h, w, k + 1)] = PlaceOn(h, w, k)
  <2>1. ASSUME NEW k \in 0..Len(w), k # j, k # j - 1
        PROVE  gw[PlaceOn(h, w, k)] = PlaceOn(h, w, k + 1) /\ gk[PlaceOn(h, w, k + 1)] = PlaceOn(h, w, k)
    <3>1. j \in 0..Len(w) /\ j - 1 \in 0..Len(w) /\ (j - 1) + 1 = j /\ k \in 0..(Len(w) + 1) /\ k + 1 \in 0..(Len(w) + 1)
      BY <1>1
    <3>2. PlaceOn(h, w, k) # e /\ PlaceOn(h, w, k) # pv[e]
      BY <1>6, <1>7, <2>1, <3>1
    <3>3. PlaceOn(h, w, k + 1) # e /\ PlaceOn(h, w, k + 1) # nx[e]
      BY <1>6, <1>7, <2>1, <3>1
    <3>. QED  BY <1>4, <1>5, <3>1, <3>2, <3>3 DEF TakenOut
  <2>. QED  BY <2>1
<1>9. gw[PlaceOn(h, w, j - 1)] = PlaceOn(h, w, j + 1) /\ gk[PlaceOn(h, w, j + 1)] = PlaceOn(h, w, j - 1)
  <2>1. j \in 0..Len(w) /\ j - 1 \in 0..Len(w) /\ (j - 1) + 1 = j /\ j # j - 1
    BY <1>1
  <2>2. PlaceOn(h, w, j - 1) # e /\ PlaceOn(h, w, j + 1) # e
    BY <1>6, <1>7, <2>1
  <2>. QED  BY <1>6, <2>2 DEF TakenOut
<1>10. ASSUME NEW k \in 0..Len(v)
       PROVE  gw[PlaceOn(h, v, k)] = PlaceOn(h, v, k + 1) /\ gk[PlaceOn(h, v, k + 1)] = PlaceOn(h, v, k)
  <2>1. k \in Nat /\ k <= Len(w) - 1
    BY <1>1, <1>2
  <2>2. CASE k < j - 1
    <3>1. k \in 0..Len(w) /\ k # j /\ k # j - 1 /\ k \in 0..(j - 1) /\ k + 1 \in 0..(j - 1)
      BY <1>1, <2>1, <2>2
    <3>. QED  BY <1>3, <1>8, <3>1
  <2>3. CASE k = j - 1
    <3>1. k \in 0..(j - 1) /\ k + 1 = j /\ j \in j..Len(w)
      BY <1>1, <2>1, <2>3
    <3>. QED  BY <1>3, <1>9, <2>3, <3>1
  <2>4. CASE k >= j
    <3>1. /\ k \in j..Len(w) /\ k + 1 \in j..Len(w)
          /\ k + 1 \in 0..Len(w) /\ k + 1 # j /\ k + 1 # j - 1
      BY <1>1, <2>1, <2>4
    <3>2. PlaceOn(h, v, k) = PlaceOn(h, w, k + 1) /\ PlaceOn(h, v, k + 1) = PlaceOn(h, w, (k + 1) + 1)
      BY <1>3, <3>1
    <3>. QED  BY <1>8, <3>1, <3>2
  <2>. QED  BY <1>1, <2>1, <2>2, <2>3, <2>4
<1>. QED  BY <1>2, <1>10, LinksWay DEF v

\* Every other way stays.
LEMMA WayOutlasts ==
    ASSUME NEW E, NEW S, E \subseteq S, NEW nx, NEW pv, Mutual(S, nx, pv), NEW gw, NEW gk, NEW h \in S, h \notin E,
           NEW w, Way(E, nx, pv, h, w), NEW e \in E, \A k \in 1..Len(w) : w[k] # e,
           TakenOut(S, nx, pv, gw, gk, e)
    PROVE  Way(E, gw, gk, h, w)
<1>1. w \in Seq(E) /\ Len(w) \in Nat /\ e \in S
  BY DEF Way, Leads
<1>2. \A k \in Nat : PlaceOn(h, w, k) # e /\ PlaceOn(h, w, k) \in S
  BY <1>1 DEF PlaceOn
<1>3. \A k \in 0..Len(w) : nx[PlaceOn(h, w, k)] = PlaceOn(h, w, k + 1) /\ pv[PlaceOn(h, w, k + 1)] = PlaceOn(h, w, k)
  BY WayLinks
<1>4. nx[pv[e]] = e /\ pv[nx[e]] = e
  BY <1>1 DEF Mutual
<1>5. \A k \in 0..Len(w) : pv[PlaceOn(h, w, k)] # e
  <2>1. ASSUME NEW k \in 0..Len(w) PROVE pv[PlaceOn(h, w, k)] # e
    <3>1. CASE k = 0
      <4>1. PlaceOn(h, w, k) = PlaceOn(h, w, Len(w) + 1) /\ Len(w) \in 0..Len(w)
        BY <1>1, <3>1 DEF PlaceOn
      <4>. QED  BY <1>2, <1>3, <4>1
    <3>2. CASE k # 0
      <4>1. k - 1 \in 0..Len(w) /\ (k - 1) + 1 = k /\ k - 1 \in Nat
        BY <1>1, <3>2
      <4>. QED  BY <1>2, <1>3, <4>1
    <3>. QED  BY <3>1, <3>2
  <2>. QED  BY <2>1
<1>6. \A k \in 0..Len(w) : PlaceOn(h, w, k) # pv[e] /\ PlaceOn(h, w, k) # nx[e]
  <2>1. ASSUME NEW k \in 0..Len(w) PROVE PlaceOn(h, w, k) # pv[e] /\ PlaceOn(h, w, k) # nx[e]
    <3>1. k + 1 \in Nat /\ PlaceOn(h, w, k + 1) # e /\ nx[PlaceOn(h, w, k)] = PlaceOn(h, w, k + 1)
      BY <1>1, <1>2, <1>3
    <3>. QED  BY <1>4, <1>5, <3>1
  <2>. QED  BY <2>1
<1>7. \A k \in 0..Len(w) : gw[PlaceOn(h, w, k)] = nx[PlaceOn(h, w, k)] /\ gk[PlaceOn(h, w, k)] = pv[PlaceOn(h, w, k)]
  BY <1>1, <1>2, <1>6 DEF TakenOut
<1>. QED  BY <1>7, WayStays
=============================================================================
