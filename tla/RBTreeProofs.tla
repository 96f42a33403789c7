---------------------------- MODULE RBTreeProofs ----------------------------
(***************************************************************************)
(* The theorems about lib/rbtree.                                          *)
(*                                                                         *)
(* TInv says that a search tree with spans and black heights stands at     *)
(* every head of a loop.  It is inductive: each action is shown to come to *)
(* moves of RBTreeShapes.  What the properties say with Under, Above and   *)
(* Cardinality follows from it.                                            *)
(***************************************************************************)
EXTENDS RBTreeShapes

-----------------------------------------------------------------------------
(* The moves that add a node and take one away.                            *)

\* What __rb_erase_augmented hands over: a tree in order, or one that the loop
\* has to rebalance from below r.
Outcome(t, T, b, H, r) ==
    IF r = NULL THEN Between(t, T, b, H) ELSE \E s \in Sides : Erasing(t, T, b, H, NULL, r, s)

\* The heights after a node with at most one child is taken out.
SplicedHeights(H, n, c) == [y \in Nodes |-> IF y = c THEN H[n] ELSE H[y]]
\* The colours after that: the child takes the colour of the node.
SplicedColors(t, u, n, c) ==
    \A y \in Nodes : y # n => u.color[y] = IF y = c THEN t.color[n] ELSE t.color[y]

\* Case 1 of __rb_erase_augmented leaves a tree in order, or one that is one
\* black node short at the parent it returns.
LEMMA RemovedOutcome ==
    ASSUME NodesAreKeys, NEW t, NEW T, NEW b, NEW H, Between(t, T, b, H),
           NEW n \in T, NEW z \in Sides, t.child[n][z] = NULL, NEW c, c = t.child[n][Other(z)],
           NEW u \in Trees, Removed(t, u, T, n, c), SplicedColors(t, u, n, c),
           NEW r, r = IF c # NULL \/ Red(t, n) THEN NULL ELSE t.parent[n]
    PROVE  Outcome(u, T \ {n}, SplicedSpans(b, n), SplicedHeights(H, n, c), r)
<1> DEFINE K == SplicedHeights(H, n, c)
           U == T \ {n}
<1>0. /\ Standing(t, T, b, H) /\ H \in Heights /\ Balanced(t, T, H, NULL, "left") /\ RedsApart(t, T, NULL)
      /\ ~RedNode(t, t.root) /\ T \in SUBSET Nodes /\ b \in Spans /\ Shape(t, T, b)
  BY DEF Between, Standing
<1>1. NULL \notin Nodes /\ NULL \notin T /\ T \subseteq Nodes /\ n # NULL /\ n \in Nodes
  BY <1>0, KidsAndRoot
<1>2. Offspring(t, T) /\ Levels(t, T, H, NULL, "left")
  BY <1>0, KidIs, HeightIs
<1>3. PICK o \in Sides : o = Other(z) /\ o # z /\ z = Other(o)
  BY DEF Sides, Other
<1>4. c \in Links /\ (c # NULL => c \in T /\ t.parent[c] = n /\ c # n /\ c # t.root) /\ t.child[n][o] = c
  BY <1>2, <1>3 DEF Offspring
<1>5. HeightOf(H, c) = 0 /\ H[n] = Black(t, n)
  <2>1. H[n] = HeightOf(H, NULL) + Black(t, n) /\ H[n] = HeightOf(H, c) + Black(t, n) /\ HeightOf(H, c) \in Nat
    BY <1>1, <1>2, <1>3, <1>4 DEF Levels
  <2>2. HeightOf(H, NULL) = 0 /\ Black(t, n) \in Nat
    BY DEF HeightOf, Black
  <2>. QED  BY <2>1, <2>2
<1>6. c # NULL => H[c] = 0 /\ Red(t, c) /\ ~Red(t, n) /\ \A w \in Sides : HeightOf(H, t.child[c][w]) = 0
  <2>1. SUFFICES ASSUME c # NULL PROVE H[c] = 0 /\ Red(t, c) /\ ~Red(t, n) /\ \A w \in Sides : HeightOf(H, t.child[c][w]) = 0
    OBVIOUS
  <2>2. H[c] = 0
    BY <1>5, <2>1 DEF HeightOf
  <2>3. \A w \in Sides : H[c] = HeightOf(H, t.child[c][w]) + Black(t, c) /\ HeightOf(H, t.child[c][w]) \in Nat
    BY <1>1, <1>2, <1>4, <2>1 DEF Levels
  <2>4. Red(t, c)
    BY <2>2, <2>3 DEF Black, Sides
  <2>5. ~Red(t, n)
    BY <1>0, <1>3, <1>4, <2>1, <2>4 DEF RedsApart, RedNode
  <2>6. \A w \in Sides : HeightOf(H, t.child[c][w]) = 0
    BY <2>2, <2>3, <2>4 DEF Black
  <2>. QED  BY <2>2, <2>4, <2>5, <2>6
<1>7. \A y \in Nodes : K[y] = IF y = c THEN H[n] ELSE H[y]
  BY DEF SplicedHeights
<1>8. Standing(u, U, SplicedSpans(b, n), K)
  <2>1. \A y \in Nodes : H[y] \in Nat
    BY <1>0 DEF Heights
  <2>2. K \in Heights
    BY <1>1, <2>1 DEF Heights, SplicedHeights
  <2>3. SplicedSpans(b, n) \in Spans /\ Shape(u, U, SplicedSpans(b, n))
    BY <1>0, <1>3, RemovedShape
  <2>. QED  BY <1>0, <2>2, <2>3 DEF Standing
<1> HIDE DEF K, U
<1>u. U = T \ {n}
  BY DEF U
<1>9. \A m \in U, w \in Sides : u.child[m][w] = IF t.child[m][w] = n THEN c ELSE t.child[m][w]
  BY <1>1, <1>u DEF Removed
<1>10. (c # NULL => ~Red(u, c)) /\ \A y \in U : y # c => Red(u, y) = Red(t, y)
  BY <1>1, <1>4, <1>6, <1>u DEF Red, SplicedColors
<1>11. RedsApart(u, U, NULL)
  <2>1. ASSUME NEW m \in U, NEW w \in Sides, Red(u, m), RedNode(u, u.child[m][w]) PROVE FALSE
    <3>1. PICK k : k = t.child[m][w]
      OBVIOUS
    <3>2. CASE k = n
      BY <1>9, <1>10, <2>1, <3>1, <3>2 DEF RedNode
    <3>3. CASE k # n
      <4>1. u.child[m][w] = k /\ k # NULL /\ k # c
        BY <1>9, <1>10, <2>1, <3>1, <3>3 DEF RedNode
      <4>2. k \in U
        BY <1>2, <1>u, <3>1, <3>3, <4>1 DEF Offspring
      <4>3. m # c /\ Red(t, m) /\ Red(t, k)
        BY <1>1, <1>10, <1>u, <2>1, <4>1, <4>2 DEF RedNode
      <4>. QED  BY <1>0, <1>u, <3>1, <4>1, <4>3 DEF RedsApart, RedNode
    <3>. QED  BY <3>2, <3>3
  <2>. QED  BY <2>1 DEF RedsApart
<1>12. ~RedNode(u, u.root)
  <2>1. u.root = IF n = t.root THEN c ELSE t.root
    BY DEF Removed
  <2>2. n # t.root => t.root \in U /\ ~Red(t, t.root) /\ t.root # c
    <3>1. t.root \in T
      BY <1>0, KidsAndRoot
    <3>. QED  BY <1>0, <1>1, <1>4, <1>u, <3>1 DEF RedNode
  <2>. QED  BY <1>10, <2>1, <2>2 DEF RedNode
<1>13. ASSUME NEW en, NEW es,
              \A m \in U, w \in Sides :
                 (en = m /\ es = w) <=> (t.child[m][w] = n /\ c = NULL /\ ~Red(t, n))
       PROVE  Balanced(u, U, K, en, es)
  <2>1. ASSUME NEW m \in U, NEW w \in Sides PROVE BalancedAt(u, K, en, es, m, w)
    <3>0. m \in T /\ m \in Nodes /\ m # n /\ m # NULL
      BY <1>1, <1>u
    <3>1. PICK k : k = t.child[m][w]
      OBVIOUS
    <3>2. HeightOf(H, k) \in Nat /\ H[m] \in Nat /\ H[m] = HeightOf(H, k) + Black(t, m)
      BY <1>2, <3>0, <3>1 DEF Levels
    <3>3. CASE k = n
      <4>1. m # c
        <5>1. ASSUME m = c PROVE FALSE
          <6>1. HeightOf(H, n) = 0
            BY <1>6, <3>0, <3>1, <3>3, <5>1
          <6>. QED  BY <1>1, <1>5, <1>6, <3>0, <5>1, <6>1 DEF HeightOf, Black
        <5>. QED  BY <5>1
      <4>2. K[m] = H[m] /\ Black(u, m) = Black(t, m) /\ u.child[m][w] = c
        BY <1>7, <1>9, <1>10, <3>0, <3>1, <3>3, <4>1 DEF Black
      <4>3. HeightOf(H, k) = Black(t, n)
        BY <1>1, <1>5, <3>3 DEF HeightOf
      <4>4. CASE c = NULL
        <5>1. HeightOf(K, c) = 0
          BY <4>4 DEF HeightOf
        <5>2. Black(t, n) = IF en = m /\ es = w THEN 1 ELSE 0
          BY <1>13, <3>1, <3>3, <4>4 DEF Black
        <5>3. H[m] = 0 + Black(t, m) + (IF en = m /\ es = w THEN 1 ELSE 0)
          BY <3>2, <4>3, <5>2 DEF Black
        <5>. QED  BY <4>2, <5>1, <5>3 DEF BalancedAt
      <4>5. CASE c # NULL
        <5>1. HeightOf(K, c) = Black(t, n)
          BY <1>4, <1>5, <1>7, <4>5 DEF HeightOf, Links
        <5>2. ~(en = m /\ es = w)
          BY <1>13, <4>5
        <5>3. H[m] = HeightOf(K, c) + Black(t, m) + 0
          BY <3>2, <4>3, <5>1 DEF Black
        <5>. QED  BY <4>2, <5>2, <5>3 DEF BalancedAt
      <4>. QED  BY <4>4, <4>5
    <3>4. CASE k # n
      <4>1. u.child[m][w] = k /\ ~(en = m /\ es = w)
        BY <1>9, <1>13, <3>1, <3>4
      <4>2. k # c \/ c = NULL
        BY <1>2, <1>4, <3>0, <3>1 DEF Offspring
      <4>3. k \in Links
        BY <1>2, <3>0, <3>1 DEF Offspring
      <4>4. HeightOf(K, k) = HeightOf(H, k)
        BY <1>7, <4>2, <4>3 DEF HeightOf, Links
      <4>5. CASE m = c
        <5>1. HeightOf(H, k) = 0 /\ K[m] = Black(t, n) /\ ~Red(t, n) /\ ~Red(u, m)
          BY <1>5, <1>6, <1>7, <1>10, <3>0, <3>1, <4>5
        <5>. QED  BY <4>1, <4>4, <5>1 DEF BalancedAt, Black
      <4>6. CASE m # c
        <5>1. K[m] = H[m] /\ Black(u, m) = Black(t, m)
          BY <1>7, <1>10, <3>0, <4>6 DEF Black
        <5>. QED  BY <3>2, <4>1, <4>4, <5>1 DEF BalancedAt, Black
      <4>. QED  BY <4>5, <4>6
    <3>. QED  BY <3>3, <3>4
  <2>. QED  BY <2>1 DEF Balanced
<1>14. CASE r = NULL
  <2>1. ASSUME NEW m \in U, NEW w \in Sides
        PROVE  (NULL = m /\ "left" = w) <=> (t.child[m][w] = n /\ c = NULL /\ ~Red(t, n))
    <3>1. m # NULL /\ m \in T
      BY <1>1, <1>u
    <3>2. t.child[m][w] = n => t.parent[n] = m
      BY <1>1, <1>2, <3>1 DEF Offspring
    <3>. QED  BY <1>14, <3>1, <3>2
  <2>2. Balanced(u, U, K, NULL, "left")
    BY <1>13, <2>1
  <2>. QED  BY <1>8, <1>11, <1>12, <1>14, <2>2 DEF Between, Outcome, K, U
<1>15. CASE r # NULL
  <2>1. c = NULL /\ ~Red(t, n) /\ r = t.parent[n]
    BY <1>15
  <2>2. n # t.root /\ r \in T
    BY <1>0, <1>15, <2>1, KidsAndRoot
  <2>3. PICK w \in Sides : t.child[r][w] = n
    BY <1>0, <2>1, <2>2, KidsAndRoot
  <2>4. r # n /\ t.child[r][Other(w)] # n
    <3>1. t.child[r][w] # NULL
      BY <1>1, <2>3
    <3>. QED  BY <1>2, <2>2, <2>3, <3>1 DEF Offspring
  <2>5. ASSUME NEW m \in U, NEW y \in Sides
        PROVE  (r = m /\ w = y) <=> (t.child[m][y] = n /\ c = NULL /\ ~Red(t, n))
    <3>2. t.child[m][y] = n => t.parent[n] = m
      BY <1>1, <1>2, <1>u DEF Offspring
    <3>3. y = w \/ y = Other(w)
      BY DEF Sides, Other
    <3>. QED  BY <2>1, <2>3, <2>4, <3>2, <3>3
  <2>6. Balanced(u, U, K, r, w)
    BY <1>13, <2>5
  <2>7. u.child[r][w] = NULL /\ r \in U
    BY <1>9, <1>u, <2>1, <2>2, <2>3, <2>4
  <2>8. ~RedNode(u, NULL)
    BY DEF RedNode
  <2>9. Erasing(u, U, SplicedSpans(b, n), K, NULL, r, w)
    BY <1>8, <1>11, <1>12, <2>6, <2>7, <2>8 DEF Erasing
  <2>. QED  BY <1>15, <2>9 DEF Outcome, K, U
<1>. QED  BY <1>14, <1>15

\* The heights after k is written for n.
RelabelledHeights(H, n, k) == [y \in Nodes |-> IF y = k THEN H[n] ELSE H[y]]
\* The colours after that.
RelabelledColors(t, u, n, k) ==
    \A y \in Nodes : y # n => u.color[y] = IF y = k THEN t.color[n] ELSE t.color[y]

\* Writing the next key for a node changes nothing in the colours.
LEMMA RelabelledOutcome ==
    ASSUME NodesAreKeys, NEW t, NEW T, NEW b, NEW H, NEW r, Outcome(t, T, b, H, r),
           NEW n \in T, NEW k \in Nodes, n < k, \A a \in T : a <= n \/ k < a,
           NEW u \in Trees, Relabelled(t, u, T, n, k), RelabelledColors(t, u, n, k)
    PROVE  Outcome(u, (T \ {n}) \cup {k}, RelabelledSpans(b, n, k), RelabelledHeights(H, n, k),
                   IF r = n THEN k ELSE r)
<1> DEFINE K == RelabelledHeights(H, n, k)
           U == (T \ {n}) \cup {k}
<1>n. PICK dn, ds : /\ Balanced(t, T, H, dn, ds)
                    /\ IF r = NULL THEN dn = NULL /\ ds = "left" ELSE dn = r /\ ds \in Sides /\ Erasing(t, T, b, H, NULL, r, ds)
  BY DEF Outcome, Between, Erasing
<1>0. /\ Standing(t, T, b, H) /\ H \in Heights /\ RedsApart(t, T, NULL)
      /\ ~RedNode(t, t.root) /\ T \in SUBSET Nodes /\ b \in Spans /\ Shape(t, T, b)
      /\ r # NULL => r \in T
  BY <1>n DEF Outcome, Between, Erasing, Standing
<1>1. NULL \notin Nodes /\ NULL \notin T /\ T \subseteq Nodes /\ n # NULL /\ n \in Nodes /\ k # NULL /\ k # n /\ k \notin T
  <2>1. NULL \notin Nodes /\ NULL \notin T /\ T \subseteq Nodes
    BY <1>0, KidsAndRoot
  <2>2. n \in Int /\ k \in Int
    BY <2>1 DEF NodesAreKeys
  <2>. QED  BY <2>1, <2>2
<1>2. Offspring(t, T) /\ Levels(t, T, H, dn, ds)
  BY <1>0, <1>n, KidIs, HeightIs
<1>3. \A y \in Nodes : K[y] = IF y = k THEN H[n] ELSE H[y]
  BY DEF RelabelledHeights
<1>4. Standing(u, U, RelabelledSpans(b, n, k), K)
  <2>1. \A y \in Nodes : H[y] \in Nat
    BY <1>0 DEF Heights
  <2>2. K \in Heights
    BY <1>1, <2>1 DEF Heights, RelabelledHeights
  <2>3. RelabelledSpans(b, n, k) \in Spans /\ Shape(u, U, RelabelledSpans(b, n, k))
    BY <1>0, RelabelledShape
  <2>. QED  BY <1>0, <2>2, <2>3 DEF Standing
<1> HIDE DEF K, U
<1>u. U = (T \ {n}) \cup {k}
  BY DEF U
<1>5. \A m \in Nodes, w \in Sides : m # n =>
         u.child[m][w] = IF t.child[IF m = k THEN n ELSE m][w] = n THEN k ELSE t.child[IF m = k THEN n ELSE m][w]
  BY <1>1 DEF Relabelled
<1>6. \A y \in Nodes : y # n => Red(u, y) = Red(t, IF y = k THEN n ELSE y)
  BY <1>1 DEF Red, RelabelledColors
<1>7. \A m \in U : \E l \in T : /\ l = IF m = k THEN n ELSE m
                                /\ m = IF l = n THEN k ELSE l
                                /\ l # k /\ m # n /\ m \in Nodes /\ l \in Nodes
  BY <1>1, <1>u
<1>8. ASSUME NEW m \in U, NEW l \in T, l = IF m = k THEN n ELSE m, NEW w \in Sides, NEW c, c = t.child[l][w]
      PROVE  /\ u.child[m][w] = IF c = n THEN k ELSE c
             /\ HeightOf(K, u.child[m][w]) = HeightOf(H, c)
             /\ RedNode(u, u.child[m][w]) = RedNode(t, c)
             /\ c # NULL => c \in T
             /\ K[m] = H[l] /\ Black(u, m) = Black(t, l) /\ Red(u, m) = Red(t, l)
  <2>1. m \in Nodes /\ m # n
    BY <1>7
  <2>2. u.child[m][w] = IF c = n THEN k ELSE c
    BY <1>5, <1>8, <2>1
  <2>3. c \in Links /\ (c # NULL => c \in T /\ c # k /\ c \in Nodes)
    <3>1. t.child[l][w] \in Links /\ (t.child[l][w] # NULL => t.child[l][w] \in T)
      BY <1>2 DEF Offspring
    <3>. QED  BY <1>1, <1>8, <3>1
  <2>4. HeightOf(K, u.child[m][w]) = HeightOf(H, c)
    BY <1>1, <1>3, <2>2, <2>3 DEF HeightOf
  <2>5. Red(u, m) = Red(t, l) /\ K[m] = H[l]
    BY <1>3, <1>6, <1>8, <2>1
  <2>6. c # NULL => Red(u, u.child[m][w]) = Red(t, c)
    BY <1>1, <1>6, <2>2, <2>3
  <2>7. u.child[m][w] = NULL <=> c = NULL
    BY <1>1, <2>2
  <2>8. RedNode(u, u.child[m][w]) = RedNode(t, c)
    BY <2>6, <2>7 DEF RedNode
  <2>. QED  BY <2>2, <2>3, <2>4, <2>5, <2>8 DEF Black
<1>9. RedsApart(u, U, NULL)
  <2>1. ASSUME NEW m \in U, NEW w \in Sides, Red(u, m), RedNode(u, u.child[m][w]) PROVE FALSE
    <3>1. PICK l \in T : l = IF m = k THEN n ELSE m
      BY <1>7
    <3>2. PICK c : c = t.child[l][w]
      OBVIOUS
    <3>3. Red(t, l) /\ RedNode(t, c)
      BY <1>8, <2>1, <3>1, <3>2
    <3>. QED  BY <1>0, <3>2, <3>3 DEF RedsApart, RedNode
  <2>. QED  BY <2>1 DEF RedsApart
<1>10. ~RedNode(u, u.root)
  <2>1. u.root = (IF t.root = n THEN k ELSE t.root) /\ t.root \in T /\ ~Red(t, t.root)
    <3>1. t.root \in T
      BY <1>0, KidsAndRoot
    <3>. QED  BY <1>0, <1>1, <3>1 DEF Relabelled, RedNode
  <2>. QED  BY <1>1, <1>6, <2>1 DEF RedNode
<1>11. Balanced(u, U, K, IF dn = n THEN k ELSE dn, ds)
  <2>0. PICK en : en = IF dn = n THEN k ELSE dn
    OBVIOUS
  <2>1. ASSUME NEW m \in U, NEW w \in Sides PROVE BalancedAt(u, K, en, ds, m, w)
    <3>1. PICK l \in T : l = (IF m = k THEN n ELSE m) /\ m = (IF l = n THEN k ELSE l) /\ l # k /\ m # n
      BY <1>7
    <3>2. PICK c : c = t.child[l][w]
      OBVIOUS
    <3>3. BalancedAt(t, H, dn, ds, l, w)
      BY <1>n DEF Balanced
    <3>4. dn # k
      BY <1>0, <1>1, <1>n
    <3>5. dn = l <=> en = m
      BY <2>0, <3>1, <3>4
    <3>6. K[m] = H[l] /\ Black(u, m) = Black(t, l) /\ HeightOf(K, u.child[m][w]) = HeightOf(H, c)
      BY <1>8, <3>1, <3>2
    <3>. QED  BY <3>2, <3>3, <3>5, <3>6 DEF BalancedAt
  <2>. QED  BY <2>0, <2>1 DEF Balanced
<1>12. CASE r = NULL
  <2>1. Balanced(u, U, K, NULL, "left")
    BY <1>1, <1>n, <1>11, <1>12
  <2>. QED  BY <1>1, <1>4, <1>9, <1>10, <1>12, <2>1 DEF Between, Outcome, K, U
<1>13. CASE r # NULL
  <2>1. PICK q : q = IF r = n THEN k ELSE r
    OBVIOUS
  <2>2. r \in T /\ q \in U /\ r = (IF q = k THEN n ELSE q) /\ q # NULL /\ t.child[r][ds] = NULL /\ ds \in Sides
    BY <1>0, <1>1, <1>n, <1>u, <1>13, <2>1 DEF Erasing
  <2>3. u.child[q][ds] = NULL
    BY <1>1, <1>8, <2>2
  <2>4. Balanced(u, U, K, q, ds)
    BY <1>n, <1>11, <1>13, <2>1
  <2>5. Erasing(u, U, RelabelledSpans(b, n, k), K, NULL, q, ds)
    BY <1>4, <1>9, <1>10, <2>2, <2>3, <2>4 DEF Erasing, RedNode
  <2>. QED  BY <2>1, <2>2, <2>5 DEF Outcome, K, U
<1>. QED  BY <1>12, <1>13

\* The heights after a red node is linked.
LinkedHeights(H, k) == [y \in Nodes |-> IF y = k THEN 0 ELSE H[y]]
\* The colours after that.
LinkedColors(t, u, k) == \A y \in Nodes : u.color[y] = IF y = k THEN "red" ELSE t.color[y]

\* A node linked at a free place is where the loop of __rb_insert begins.
LEMMA LinkedInserting ==
    ASSUME NodesAreKeys, NEW t, NEW T, NEW b, NEW H, Between(t, T, b, H),
           NEW k \in Nodes \ T, NEW p \in T, NEW s \in Sides, t.child[p][s] = NULL,
           IF s = "left" THEN b[p]["left"] < k /\ k < p ELSE p < k /\ k < b[p]["right"],
           NEW u \in Trees, Linked(t, u, k, p, s), LinkedColors(t, u, k)
    PROVE  Inserting(u, T \cup {k}, LeafSpans(b, k, p, s), LinkedHeights(H, k), k, p)
<1> DEFINE K == LinkedHeights(H, k)
           U == T \cup {k}
<1>0. /\ Standing(t, T, b, H) /\ H \in Heights /\ Balanced(t, T, H, NULL, "left") /\ RedsApart(t, T, NULL)
      /\ ~RedNode(t, t.root) /\ T \in SUBSET Nodes /\ b \in Spans /\ Shape(t, T, b)
  BY DEF Between, Standing
<1>1. NULL \notin Nodes /\ NULL \notin T /\ T \subseteq Nodes /\ k \in Nodes /\ k \notin T /\ k # NULL
  BY <1>0, KidsAndRoot
<1>2. Offspring(t, T) /\ Levels(t, T, H, NULL, "left")
  BY <1>0, KidIs, HeightIs
<1>3. \A y \in Nodes : K[y] = IF y = k THEN 0 ELSE H[y]
  BY DEF LinkedHeights
<1>4. Standing(u, U, LeafSpans(b, k, p, s), K)
  <2>1. \A y \in Nodes : H[y] \in Nat
    BY <1>0 DEF Heights
  <2>2. K \in Heights
    BY <1>1, <2>1 DEF Heights, LinkedHeights
  <2>3. LeafSpans(b, k, p, s) \in Spans /\ Shape(u, U, LeafSpans(b, k, p, s))
    BY <1>0, LinkedShape
  <2>. QED  BY <1>0, <1>1, <2>2, <2>3 DEF Standing
<1> HIDE DEF K, U
<1>u. U = T \cup {k}
  BY DEF U
<1>5. /\ u.root = t.root /\ u.parent[k] = p
      /\ \A w \in Sides : u.child[k][w] = NULL
      /\ \A m \in T, w \in Sides : u.child[m][w] = IF m = p /\ w = s THEN k ELSE t.child[m][w]
  BY <1>1 DEF Linked
<1>6. Red(u, k) /\ \A y \in T : Red(u, y) = Red(t, y)
  BY <1>1 DEF Red, LinkedColors
<1>7. Balanced(u, U, K, NULL, "left")
  <2>1. ASSUME NEW m \in U, NEW w \in Sides PROVE BalancedAt(u, K, NULL, "left", m, w)
    <3>0. m # NULL
      BY <1>1, <1>u
    <3>1. CASE m = k
      <4>1. HeightOf(K, u.child[m][w]) = 0 /\ K[m] = 0 /\ Black(u, m) = 0
        BY <1>1, <1>3, <1>5, <1>6, <3>1 DEF HeightOf, Black
      <4>. QED  BY <3>0, <4>1 DEF BalancedAt
    <3>2. CASE m # k
      <4>1. m \in T /\ m \in Nodes
        BY <1>1, <1>u, <3>2
      <4>2. K[m] = H[m] /\ Black(u, m) = Black(t, m)
        BY <1>3, <1>6, <3>2, <4>1 DEF Black
      <4>3. PICK c : c = t.child[m][w]
        OBVIOUS
      <4>4. c \in Links /\ c # k
        BY <1>1, <1>2, <4>1, <4>3 DEF Offspring
      <4>5. HeightOf(K, c) = HeightOf(H, c)
        BY <1>3, <4>4 DEF HeightOf, Links
      <4>6. HeightOf(K, u.child[m][w]) = HeightOf(H, c)
        <5>1. CASE m = p /\ w = s
          BY <1>1, <1>3, <1>5, <4>3, <5>1 DEF HeightOf
        <5>2. CASE ~(m = p /\ w = s)
          BY <1>5, <4>1, <4>3, <4>5, <5>2
        <5>. QED  BY <5>1, <5>2
      <4>7. BalancedAt(t, H, NULL, "left", m, w)
        BY <1>0, <4>1 DEF Balanced
      <4>. QED  BY <4>2, <4>3, <4>6, <4>7 DEF BalancedAt
    <3>. QED  BY <3>1, <3>2
  <2>. QED  BY <2>1 DEF Balanced
<1>8. RedsApart(u, U, k)
  <2>1. ASSUME NEW m \in U, NEW w \in Sides, Red(u, m), RedNode(u, u.child[m][w]), u.child[m][w] # k PROVE FALSE
    <3>1. m # k /\ m \in T
      BY <1>5, <1>u, <2>1 DEF RedNode
    <3>2. u.child[m][w] = t.child[m][w] /\ t.child[m][w] # NULL
      BY <1>5, <2>1, <3>1 DEF RedNode
    <3>3. t.child[m][w] \in T
      BY <1>2, <3>1, <3>2 DEF Offspring
    <3>. QED  BY <1>0, <1>6, <2>1, <3>1, <3>2, <3>3 DEF RedsApart, RedNode
  <2>. QED  BY <2>1 DEF RedsApart
<1>9. ~RedNode(u, u.root)
  <2>1. t.root \in T
    BY <1>0, KidsAndRoot
  <2>. QED  BY <1>0, <1>5, <1>6, <2>1 DEF RedNode
<1>10. k \in U
  BY <1>u
<1>. QED  BY <1>4, <1>5, <1>6, <1>7, <1>8, <1>9, <1>10 DEF Inserting, K, U

\* A finite set of integers lies between two integers.
LEMMA IntegersBounded ==
    ASSUME NEW S \in SUBSET Int, IsFiniteSet(S)
    PROVE  \E lo, hi \in Int : \A x \in S : lo < x /\ x < hi
<1> DEFINE P(X) == \E lo, hi \in Int : \A x \in X : lo < x /\ x < hi
           N == {n \in Nat : \E X \in SUBSET S : Cardinality(X) = n /\ ~P(X)}
<1>1. SUFFICES ASSUME ~P(S) PROVE FALSE
  OBVIOUS
<1>2. \A X \in SUBSET S : IsFiniteSet(X) /\ Cardinality(X) \in Nat
  BY FS_Subset, FS_CardinalityType
<1>3. PICK n \in N : \A m \in N : n <= m
  <2>1. Cardinality(S) \in N
    BY <1>1, <1>2
  <2>2. N \subseteq Nat
    OBVIOUS
  <2>. QED  BY <2>1, <2>2, LeastNumber
<1>4. PICK X \in SUBSET S : Cardinality(X) = n /\ ~P(X)
  BY <1>3
<1>5. X # {}
  <2>1. P({})
    OBVIOUS
  <2>. QED  BY <1>4, <2>1
<1>6. PICK a \in X : TRUE
  BY <1>5
<1>7. PICK Y \in SUBSET S : Y = X \ {a}
  BY <1>4
<1>8. Cardinality(Y) = n - 1
  BY <1>2, <1>4, <1>6, <1>7, FS_RemoveElement
<1>9. n - 1 \in Nat
  BY <1>2, <1>8
<1>10. P(Y)
  <2>1. SUFFICES ASSUME ~P(Y) PROVE FALSE
    OBVIOUS
  <2>2. n - 1 \in N
    BY <1>8, <1>9, <2>1
  <2>3. n <= n - 1
    BY <1>3, <2>2
  <2>. QED  BY <1>3, <2>3
<1>11. PICK lo \in Int, hi \in Int : \A x \in Y : lo < x /\ x < hi
  BY <1>10
<1>12. a \in Int
  BY <1>4, <1>6
<1>13. PICK low \in Int : low < lo /\ low < a
  <2>1. (IF lo < a THEN lo - 1 ELSE a - 1) \in Int
    BY <1>12
  <2>. QED  BY <1>12, <2>1
<1>14. PICK high \in Int : hi < high /\ a < high
  <2>1. (IF hi < a THEN a + 1 ELSE hi + 1) \in Int
    BY <1>12
  <2>. QED  BY <1>12, <2>1
<1>15. \A x \in X : low < x /\ x < high
  <2>1. SUFFICES ASSUME NEW x \in X PROVE low < x /\ x < high
    OBVIOUS
  <2>2. x \in Int
    BY <1>4
  <2>3. CASE x = a
    BY <1>13, <1>14, <2>3
  <2>4. CASE x # a
    <3>1. lo < x /\ x < hi
      BY <1>7, <1>11, <2>4
    <3>. QED  BY <1>11, <1>13, <1>14, <2>2, <3>1
  <2>. QED  BY <2>3, <2>4
<1>16. P(X)
  BY <1>13, <1>14, <1>15
<1>. QED  BY <1>4, <1>16

\* There are spans that hold every key.
LEMMA WideSpans ==
    ASSUME NodesAreKeys
    PROVE  \E b \in Spans : \A n, x \in Nodes : b[n]["left"] < x /\ x < b[n]["right"]
<1>1. PICK lo \in Int, hi \in Int : \A x \in Nodes : lo < x /\ x < hi
  BY IntegersBounded DEF NodesAreKeys
<1>2. PICK b : b = [n \in Nodes |-> [s \in Sides |-> IF s = "left" THEN lo ELSE hi]]
  OBVIOUS
<1>3. b \in Spans
  BY <1>2 DEF Spans
<1>4. \A n \in Nodes : b[n]["left"] = lo /\ b[n]["right"] = hi
  BY <1>2 DEF Sides
<1>. QED  BY <1>1, <1>3, <1>4

\* A tree without nodes.
EmptyTree(t) == t \in Trees /\ t.root = NULL /\ \A n \in Nodes, s \in Sides : t.child[n][s] = NULL

\* The empty tree is in order.
LEMMA EmptyBetween ==
    ASSUME NodesAreKeys, NEW t, EmptyTree(t) PROVE \E b, H : Between(t, {}, b, H)
<1>1. PICK b \in Spans : TRUE
  BY WideSpans
<1>2. PICK H : H = [n \in Nodes |-> 0]
  OBVIOUS
<1>3. H \in Heights
  BY <1>2 DEF Heights
<1>4. Shape(t, {}, b)
  BY DEF EmptyTree, Shape, Rooted, Around, Parents, Kids, Gaps, Nested, Bounds, Blank
<1>5. Between(t, {}, b, H)
  BY <1>1, <1>3, <1>4 DEF EmptyTree, Between, Standing, Balanced, RedsApart, RedNode
<1>. QED  BY <1>5

\* The first node of a tree is its red root when the loop of __rb_insert begins.
LEMMA RootInserting ==
    ASSUME NodesAreKeys, NEW k \in Nodes,
           NEW u \in Trees, u.root = k, u.parent[k] = NULL, u.color[k] = "red",
           \A n \in Nodes, s \in Sides : u.child[n][s] = NULL
    PROVE  \E b, H : Inserting(u, {k}, b, H, k, NULL)
<1>1. PICK b \in Spans : \A n, x \in Nodes : b[n]["left"] < x /\ x < b[n]["right"]
  BY WideSpans
<1>2. PICK H : H = [n \in Nodes |-> 0]
  OBVIOUS
<1>3. H \in Heights /\ H[k] = 0 /\ HeightOf(H, NULL) = 0 /\ k # NULL /\ k \in Int
  BY <1>2 DEF Heights, HeightOf, NodesAreKeys
<1>4. Shape(u, {k}, b)
  <2>1. Rooted(u, {k}, b) /\ Around({k}, b) /\ Parents(u, {k}) /\ Kids(u, {k}, b) /\ Blank(u, {k})
    BY <1>1, <1>3 DEF Rooted, Around, Parents, Kids, Blank
  <2>2. Nested({k}, b) /\ Bounds(u, {k}, b)
    BY <1>3 DEF Nested, Bounds
  <2>3. Gaps(u, {k}, b)
    BY <1>3 DEF Gaps
  <2>. QED  BY <2>1, <2>2, <2>3 DEF Shape
<1>5. Balanced(u, {k}, H, NULL, "left")
  <2>1. Black(u, k) = 0
    BY DEF Black, Red
  <2>. QED  BY <1>3, <2>1 DEF Balanced, BalancedAt
<1>6. Inserting(u, {k}, b, H, k, NULL)
  BY <1>1, <1>3, <1>4, <1>5 DEF Inserting, Standing, RedsApart, RedNode, Red
<1>. QED  BY <1>6

-----------------------------------------------------------------------------
(* The walks along one side, and the descent to a free place.              *)

\* f answers from every place of D: at a stop the value there, else what the next place answers.
IsWalk(f, D, Stop, val, next) == f = [m \in D |-> IF m \in Stop THEN val[m] ELSE f[next[m]]]
\* Every step goes down in rank.
Ranked(D, Stop, next, r, N) ==
    /\ \A m \in D : r[m] \in Nat /\ r[m] < N
    /\ \A m \in D : m \notin Stop => next[m] \in D /\ r[next[m]] < r[m]

\* f does so at the places of a rank below n.
WalksBelow(f, D, Stop, val, next, r, n) ==
    \A m \in D : r[m] < n => f[m] = IF m \in Stop THEN val[m] ELSE f[next[m]]

\* A walk whose steps go down in rank has an answer everywhere, so the CHOOSE
\* behind Furthest, Climb and Place finds the function they name.
LEMMA WalkExists ==
    ASSUME NEW D, NEW Stop, NEW val, NEW next, NEW r, NEW N \in Nat, Ranked(D, Stop, next, r, N)
    PROVE  \E f : IsWalk(f, D, Stop, val, next)
<1> DEFINE B == {n \in Nat : ~ \E f : WalksBelow(f, D, Stop, val, next, r, n)}
<1>1. B = {}
  <2>1. SUFFICES ASSUME B # {} PROVE FALSE
    OBVIOUS
  <2>2. PICK n \in B : \A i \in B : n <= i
    BY <2>1, LeastNumber
  <2>3. n # 0
    <3>1. WalksBelow(val, D, Stop, val, next, r, 0)
      BY DEF Ranked, WalksBelow
    <3>. QED  BY <2>2, <3>1
  <2>4. n - 1 \in Nat /\ n \in Nat /\ n - 1 \notin B
    BY <2>2, <2>3
  <2>5. PICK f : WalksBelow(f, D, Stop, val, next, r, n - 1)
    BY <2>4
  <2>6. PICK g : g = [m \in D |-> IF r[m] < n - 1 THEN f[m] ELSE IF m \in Stop THEN val[m] ELSE f[next[m]]]
    OBVIOUS
  <2>7. ASSUME NEW m \in D, r[m] < n PROVE g[m] = IF m \in Stop THEN val[m] ELSE g[next[m]]
    <3>1. g[m] = IF m \in Stop THEN val[m] ELSE f[next[m]]
      BY <2>5, <2>6 DEF WalksBelow
    <3>2. CASE m \in Stop
      BY <3>1, <3>2
    <3>3. CASE m \notin Stop
      <4>1. next[m] \in D /\ r[next[m]] < n - 1
        BY <2>4, <2>7, <3>3 DEF Ranked
      <4>2. g[next[m]] = f[next[m]]
        BY <2>6, <4>1
      <4>. QED  BY <3>1, <3>3, <4>2
    <3>. QED  BY <3>2, <3>3
  <2>8. WalksBelow(g, D, Stop, val, next, r, n)
    BY <2>7 DEF WalksBelow
  <2>. QED  BY <2>2, <2>8
<1>2. PICK f : WalksBelow(f, D, Stop, val, next, r, N)
  BY <1>1
<1>3. PICK g : g = [m \in D |-> f[m]]
  OBVIOUS
<1>4. ASSUME NEW m \in D PROVE f[m] = IF m \in Stop THEN val[m] ELSE g[next[m]]
  BY <1>2, <1>3 DEF WalksBelow, Ranked
<1>5. g = [m \in D |-> IF m \in Stop THEN val[m] ELSE g[next[m]]]
  BY <1>3, <1>4, Zenon
<1>. QED  BY <1>5 DEF IsWalk

\* The widths of the spans are bounded.
LEMMA Widths ==
    ASSUME NodesAreKeys, NEW t, NEW T \in SUBSET Nodes, NEW b \in Spans, Shape(t, T, b)
    PROVE  \E w \in Nat : \A n \in T : Width(b, n) \in Nat /\ Width(b, n) < w
<1>1. CASE T = {}
  BY <1>1
<1>2. CASE T # {}
  <2>1. PICK x \in T : \A y \in T : Width(b, y) <= Width(b, x)
    BY <1>2, Widest
  <2>2. \A n \in T : Width(b, n) \in Nat
    <3>1. SpanTypes(T, b)
      BY SpansAreInts
    <3>. QED  BY <3>1 DEF SpanTypes, Width, Shape, Around
  <2>3. Width(b, x) + 1 \in Nat /\ \A n \in T : Width(b, n) < Width(b, x) + 1
    BY <2>1, <2>2
  <2>. QED  BY <2>2, <2>3
<1>. QED  BY <1>1, <1>2

\* Of a set of nodes of the tree one has the narrowest span.
LEMMA Narrowest ==
    ASSUME NodesAreKeys, NEW t, NEW T \in SUBSET Nodes, NEW b \in Spans, Shape(t, T, b),
           NEW X \in SUBSET T, X # {}
    PROVE  \E x \in X : \A y \in X : Width(b, x) <= Width(b, y)
<1> DEFINE D == {Width(b, x) : x \in X}
<1>1. PICK w \in Nat : \A n \in T : Width(b, n) \in Nat /\ Width(b, n) < w
  BY Widths
<1>2. D \subseteq Nat /\ D # {}
  BY <1>1
<1>3. PICK d \in D : \A e \in D : d <= e
  BY <1>2, LeastNumber
<1>. QED  BY <1>3

\* A child has the narrower span.
Narrowing(t, T, b) ==
    \A n \in T, s \in Sides : t.child[n][s] # NULL =>
      /\ t.child[n][s] \in T /\ t.parent[t.child[n][s]] = n
      /\ b[t.child[n][s]][s] = b[n][s] /\ b[t.child[n][s]][Other(s)] = n
      /\ Width(b, t.child[n][s]) < Width(b, n)

\* It is so in a tree of this shape.
LEMMA KidNarrower ==
    ASSUME NodesAreKeys, NEW t, NEW T \in SUBSET Nodes, NEW b \in Spans, Shape(t, T, b)
    PROVE  Narrowing(t, T, b)
<1>0. SUFFICES ASSUME NEW n \in T, NEW s \in Sides, NEW k, k = t.child[n][s], k # NULL
               PROVE  /\ k \in T /\ t.parent[k] = n /\ b[k][s] = b[n][s] /\ b[k][Other(s)] = n
                      /\ Width(b, k) < Width(b, n)
  BY DEF Narrowing
<1>1. k \in T /\ t.parent[k] = n /\ b[k][s] = b[n][s] /\ b[k][Other(s)] = n
  BY <1>0 DEF Shape, Kids
<1>2. SpanTypes(T, b)
  BY SpansAreInts
<1>3. b[n]["left"] < n /\ n < b[n]["right"]
  BY DEF Shape, Around
<1>4. Width(b, k) < Width(b, n)
  BY <1>1, <1>2, <1>3 DEF SpanTypes, Width, Sides, Other
<1>. QED  BY <1>1, <1>4

-----------------------------------------------------------------------------
\* f goes down the s links from each node.
IsDown(f, t, s) == f = [m \in Nodes |-> IF t.child[m][s] = NULL THEN m ELSE f[t.child[m][s]]]
\* The last node on side s.
Ends(t, T, x, s) == x \in T /\ t.child[x][s] = NULL

\* x is below n on side s, has no child there, and its span ends there where that
\* of n does.
FarEnd(t, T, b, n, s, x) == x \in T /\ t.child[x][s] = NULL /\ b[x][s] = b[n][s]

\* Furthest ends at such a node.
LEMMA FurthestIs ==
    ASSUME NodesAreKeys, NEW t, NEW T \in SUBSET Nodes, NEW b \in Spans, Shape(t, T, b),
           NEW n \in T, NEW s \in Sides
    PROVE  FarEnd(t, T, b, n, s, Furthest(t, n, s))
<1>1. PICK w \in Nat : \A m \in T : Width(b, m) \in Nat /\ Width(b, m) < w
  BY Widths
<1> DEFINE Stop == {m \in Nodes : t.child[m][s] = NULL}
           val == [m \in Nodes |-> m]
           next == [m \in Nodes |-> t.child[m][s]]
           r == [m \in Nodes |-> IF m \in T THEN Width(b, m) ELSE 0]
<1>k. Narrowing(t, T, b)
  BY KidNarrower
<1>2. Ranked(Nodes, Stop, next, r, w + 1)
  <2>1. ASSUME NEW m \in Nodes, m \notin Stop PROVE next[m] \in Nodes /\ r[next[m]] < r[m]
    <3>1. m \in T /\ t.child[m][s] # NULL
      BY <2>1 DEF Shape, Blank
    <3>2. next[m] \in T /\ Width(b, next[m]) < Width(b, m)
      BY <1>k, <3>1 DEF Narrowing
    <3>3. next[m] \in Nodes /\ r[next[m]] = Width(b, next[m]) /\ r[m] = Width(b, m)
      BY <3>1, <3>2
    <3>. QED  BY <3>2, <3>3
  <2>. QED  BY <1>1, <2>1 DEF Ranked
<1>3. \E f : IsDown(f, t, s)
  <2>1. w + 1 \in Nat
    BY <1>1
  <2>2. PICK f : IsWalk(f, Nodes, Stop, val, next)
    <3>. HIDE DEF Stop, val, next, r
    <3>. QED  BY <1>2, <2>1, WalkExists
  <2>3. ASSUME NEW m \in Nodes
        PROVE  (IF m \in Stop THEN val[m] ELSE f[next[m]]) = IF t.child[m][s] = NULL THEN m ELSE f[t.child[m][s]]
    OBVIOUS
  <2>4. f = [m \in Nodes |-> IF t.child[m][s] = NULL THEN m ELSE f[t.child[m][s]]]
    BY <2>2, <2>3, Zenon DEF IsWalk
  <2>. QED  BY <2>4 DEF IsDown
<1>4. PICK f : IsDown(f, t, s) /\ Furthest(t, n, s) = f[n]
  <2>1. Furthest(t, n, s) = (CHOOSE f : IsDown(f, t, s))[n]
    BY DEF Furthest, IsDown
  <2>. QED  BY <1>3, <2>1
<1> DEFINE Good(m) == f[m] \in T /\ t.child[f[m]][s] = NULL /\ b[f[m]][s] = b[m][s]
           X == {m \in T : ~Good(m)}
<1>5. X = {}
  <2>1. SUFFICES ASSUME X # {} PROVE FALSE
    OBVIOUS
  <2>2. PICK m \in X : \A y \in X : Width(b, m) <= Width(b, y)
    BY <2>1, Narrowest
  <2>3. f[m] = IF t.child[m][s] = NULL THEN m ELSE f[t.child[m][s]]
    BY <1>4 DEF IsDown
  <2>4. CASE t.child[m][s] = NULL
    BY <2>2, <2>3, <2>4
  <2>5. CASE t.child[m][s] # NULL
    <3>1. PICK k : k = t.child[m][s]
      OBVIOUS
    <3>2. k \in T /\ b[k][s] = b[m][s] /\ Width(b, k) < Width(b, m)
      BY <1>k, <2>2, <2>5, <3>1 DEF Narrowing
    <3>3. k \notin X
      BY <1>1, <2>2, <3>2
    <3>4. Good(k)
      BY <3>2, <3>3
    <3>. QED  BY <2>2, <2>3, <2>5, <3>1, <3>2, <3>4
  <2>. QED  BY <2>4, <2>5
<1>6. Good(n)
  BY <1>5
<1>. QED  BY <1>4, <1>6 DEF FarEnd

\* f goes up as long as it comes from side s.
IsUp(f, t, s) ==
    f = [m \in Nodes |-> LET p == t.parent[m] IN IF p # NULL /\ m = t.child[p][s] THEN f[p] ELSE p]

\* Climb ends at the node that bounds the span of n on side s, NULL if none does.
LEMMA ClimbIs ==
    ASSUME NodesAreKeys, NEW t \in Trees, NEW T \in SUBSET Nodes, NEW b \in Spans, Shape(t, T, b),
           NEW n \in T, NEW s \in Sides
    PROVE  Climb(t, n, s) = IF b[n][s] = b[t.root][s] THEN NULL ELSE b[n][s]
<1>1. PICK w \in Nat : \A m \in T : Width(b, m) \in Nat /\ Width(b, m) < w
  BY Widths
<1>0. NULL \notin Nodes /\ NULL \notin T /\ t.parent \in [Nodes -> Links]
  BY DEF NodesAreKeys, Trees
<1> DEFINE Stop == {m \in Nodes : ~(t.parent[m] # NULL /\ m = t.child[t.parent[m]][s])}
           val == [m \in Nodes |-> t.parent[m]]
           next == [m \in Nodes |-> t.parent[m]]
           r == [m \in Nodes |-> IF m \in T THEN w - Width(b, m) ELSE 0]
<1>k. Narrowing(t, T, b)
  BY KidNarrower
<1>2. Ranked(Nodes, Stop, next, r, w + 1)
  <2>1. ASSUME NEW m \in Nodes, m \notin Stop PROVE next[m] \in Nodes /\ r[next[m]] < r[m]
    <3>1. t.parent[m] # NULL /\ t.child[t.parent[m]][s] = m /\ t.parent[m] \in Nodes
      BY <1>0, <2>1 DEF Links
    <3>2. t.parent[m] \in T
      BY <1>0, <3>1 DEF Shape, Blank
    <3>3. m \in T /\ Width(b, m) < Width(b, t.parent[m])
      BY <1>0, <1>k, <3>1, <3>2 DEF Narrowing
    <3>4. next[m] \in Nodes /\ r[next[m]] = w - Width(b, next[m]) /\ r[m] = w - Width(b, m) /\ next[m] = t.parent[m]
      BY <3>1, <3>2, <3>3
    <3>5. w - Width(b, t.parent[m]) < w - Width(b, m)
      <4>1. PICK x \in Nat : x = Width(b, m)
        BY <1>1, <3>3
      <4>2. PICK y \in Nat : y = Width(b, t.parent[m])
        BY <1>1, <3>2
      <4>3. w - y < w - x
        <5>1. x < y
          BY <3>3, <4>1, <4>2
        <5>. QED  BY <5>1
      <4>. QED  BY <4>1, <4>2, <4>3
    <3>. HIDE DEF r, next
    <3>. QED  BY <3>4, <3>5
  <2>2. ASSUME NEW m \in Nodes PROVE r[m] \in Nat /\ r[m] < w + 1
    BY <1>1
  <2>. QED  BY <2>1, <2>2 DEF Ranked
<1>3. \E f : IsUp(f, t, s)
  <2>1. w + 1 \in Nat
    BY <1>1
  <2>2. PICK f : IsWalk(f, Nodes, Stop, val, next)
    <3>. HIDE DEF Stop, val, next, r
    <3>. QED  BY <1>2, <2>1, WalkExists
  <2>3. ASSUME NEW m \in Nodes
        PROVE  (IF m \in Stop THEN val[m] ELSE f[next[m]])
                 = LET p == t.parent[m] IN IF p # NULL /\ m = t.child[p][s] THEN f[p] ELSE p
    OBVIOUS
  <2>4. f = [m \in Nodes |-> LET p == t.parent[m] IN IF p # NULL /\ m = t.child[p][s] THEN f[p] ELSE p]
    BY <2>2, <2>3, Zenon DEF IsWalk
  <2>. QED  BY <2>4 DEF IsUp
<1>4. PICK f : IsUp(f, t, s) /\ Climb(t, n, s) = f[n]
  <2>1. Climb(t, n, s) = (CHOOSE f : IsUp(f, t, s))[n]
    BY DEF Climb, IsUp
  <2>. QED  BY <1>3, <2>1
<1> DEFINE Good(m) == f[m] = IF b[m][s] = b[t.root][s] THEN NULL ELSE b[m][s]
           X == {m \in T : ~Good(m)}
<1>5. X = {}
  <2>1. SUFFICES ASSUME X # {} PROVE FALSE
    OBVIOUS
  <2>2. PICK m \in X : \A y \in X : Width(b, y) <= Width(b, m)
    BY <2>1, Widest
  <2>3. PICK p \in Links : p = t.parent[m] /\ f[m] = IF p # NULL /\ m = t.child[p][s] THEN f[p] ELSE p
    BY <1>0, <1>4, <2>2 DEF IsUp
  <2>4. p = NULL <=> m = t.root
    BY <1>0, <2>2, <2>3 DEF Shape, Rooted, Parents
  <2>5. CASE p = NULL
    BY <2>2, <2>3, <2>4, <2>5
  <2>6. CASE p # NULL
    <3>1. p \in T /\ \E z \in Sides : t.child[p][z] = m
      BY <2>2, <2>3, <2>4, <2>6 DEF Shape, Parents
    <3>2. PICK z \in Sides : t.child[p][z] = m
      BY <3>1
    <3>3. b[m][z] = b[p][z] /\ b[m][Other(z)] = p /\ Width(b, m) < Width(b, p)
      BY <1>0, <1>k, <2>2, <3>1, <3>2 DEF Narrowing
    <3>4. CASE z = s
      <4>1. f[m] = f[p]
        BY <2>3, <2>6, <3>2, <3>4
      <4>2. p \notin X
        BY <1>1, <2>2, <3>1, <3>3
      <4>3. Good(p)
        BY <3>1, <4>2
      <4>. QED  BY <2>2, <3>3, <3>4, <4>1, <4>3
    <3>5. CASE z # s
      <4>1. s = Other(z) /\ z = Other(s)
        BY <3>5 DEF Sides, Other
      <4>2. b[m][s] = p
        BY <3>3, <4>1
      <4>3. m # t.child[p][s]
        <5>1. SUFFICES ASSUME t.child[p][s] = m PROVE FALSE
          OBVIOUS
        <5>2. b[m][s] = b[p][s] /\ b[m][z] = p
          BY <1>0, <1>k, <2>2, <3>1, <4>1, <5>1 DEF Narrowing
        <5>3. b[m]["left"] < m /\ m < b[m]["right"] /\ m \in Int /\ p \in Int
          BY <2>2, <3>1 DEF Shape, Around, NodesAreKeys
        <5>. QED  BY <3>5, <4>2, <5>2, <5>3 DEF Sides
      <4>4. f[m] = p
        BY <2>3, <4>3
      <4>5. p # b[t.root][s]
        <5>1. p \in Nodes /\ p \in Int
          BY <3>1 DEF NodesAreKeys
        <5>2. b[t.root]["left"] < p /\ p < b[t.root]["right"]
          BY <3>1, <5>1 DEF Shape, Rooted
        <5>. QED  BY <5>1, <5>2 DEF Sides
      <4>. QED  BY <2>2, <4>2, <4>4, <4>5
    <3>. QED  BY <3>4, <3>5
  <2>. QED  BY <2>5, <2>6
<1>. QED  BY <1>4, <1>5

\* f goes down on the side of the key k.
IsPlacing(f, t, k) ==
    f = [m \in Nodes |-> LET c == t.child[m][IF k < m THEN "left" ELSE "right"]
                         IN  IF c = NULL THEN m ELSE f[c]]

\* The descent of an insertion ends at a free place in whose span the key lies.
LEMMA PlaceIs ==
    ASSUME NodesAreKeys, NEW t \in Trees, NEW T \in SUBSET Nodes, NEW b \in Spans, Shape(t, T, b),
           T # {}, NEW k \in Nodes \ T
    PROVE  LET x == Place(t, k)
           IN  /\ x \in T /\ t.child[x][LinkSide(k, x)] = NULL
               /\ IF LinkSide(k, x) = "left" THEN b[x]["left"] < k /\ k < x ELSE x < k /\ k < b[x]["right"]
<1>1. PICK w \in Nat : \A m \in T : Width(b, m) \in Nat /\ Width(b, m) < w
  BY Widths
<1>0. /\ NULL \notin Nodes /\ NULL \notin T /\ T \subseteq Int /\ k \in Int /\ k \notin T
      /\ t.root \in T /\ t.root # NULL /\ Inside(b, t.root, k)
  BY DEF NodesAreKeys, Shape, Rooted, Inside
<1> DEFINE next == [m \in Nodes |-> t.child[m][IF k < m THEN "left" ELSE "right"]]
           Stop == {m \in Nodes : next[m] = NULL}
           val == [m \in Nodes |-> m]
           r == [m \in Nodes |-> IF m \in T THEN Width(b, m) ELSE 0]
<1>k. Narrowing(t, T, b)
  BY KidNarrower
<1>s. \A m \in Nodes : (IF k < m THEN "left" ELSE "right") \in Sides
  BY DEF Sides
<1>2. Ranked(Nodes, Stop, next, r, w + 1)
  <2>1. ASSUME NEW m \in Nodes, m \notin Stop PROVE next[m] \in Nodes /\ r[next[m]] < r[m]
    <3>1. m \in T /\ next[m] # NULL
      BY <1>s, <2>1 DEF Shape, Blank
    <3>2. next[m] \in T /\ Width(b, next[m]) < Width(b, m)
      BY <1>k, <1>s, <3>1 DEF Narrowing
    <3>3. next[m] \in Nodes /\ r[next[m]] = Width(b, next[m]) /\ r[m] = Width(b, m)
      BY <3>1, <3>2
    <3>. QED  BY <3>2, <3>3
  <2>. QED  BY <1>1, <2>1 DEF Ranked
<1>3. \E f : IsPlacing(f, t, k)
  <2>1. w + 1 \in Nat
    BY <1>1
  <2>2. PICK f : IsWalk(f, Nodes, Stop, val, next)
    <3>. HIDE DEF Stop, val, next, r
    <3>. QED  BY <1>2, <2>1, WalkExists
  <2>3. ASSUME NEW m \in Nodes
        PROVE  (IF m \in Stop THEN val[m] ELSE f[next[m]])
                 = LET c == t.child[m][IF k < m THEN "left" ELSE "right"] IN IF c = NULL THEN m ELSE f[c]
    OBVIOUS
  <2>4. f = [m \in Nodes |-> LET c == t.child[m][IF k < m THEN "left" ELSE "right"]
                             IN  IF c = NULL THEN m ELSE f[c]]
    BY <2>2, <2>3, Zenon DEF IsWalk
  <2>. QED  BY <2>4 DEF IsPlacing
<1>4. PICK f : IsPlacing(f, t, k) /\ Place(t, k) = f[t.root]
  <2>1. Place(t, k) = IF t.root = NULL THEN NULL ELSE (CHOOSE f : IsPlacing(f, t, k))[t.root]
    BY DEF Place, IsPlacing
  <2>. QED  BY <1>0, <1>3, <2>1
<1> DEFINE Good(x) == x \in T /\ t.child[x][LinkSide(k, x)] = NULL /\ Inside(b, x, k)
           X == {m \in T : Inside(b, m, k) /\ ~Good(f[m])}
<1>5. X = {}
  <2>1. SUFFICES ASSUME X # {} PROVE FALSE
    OBVIOUS
  <2>2. PICK m \in X : \A y \in X : Width(b, m) <= Width(b, y)
    BY <2>1, Narrowest
  <2>3. PICK s \in Sides : s = IF k < m THEN "left" ELSE "right"
    BY <1>s, <2>2
  <2>4. PICK c : c = t.child[m][s]
    OBVIOUS
  <2>5. f[m] = IF c = NULL THEN m ELSE f[c]
    BY <1>4, <2>2, <2>3, <2>4 DEF IsPlacing
  <2>6. CASE c = NULL
    BY <2>2, <2>3, <2>4, <2>5, <2>6 DEF LinkSide
  <2>7. CASE c # NULL
    <3>1. c \in T /\ b[c][s] = b[m][s] /\ b[c][Other(s)] = m /\ Width(b, c) < Width(b, m)
      BY <1>k, <2>2, <2>4, <2>7 DEF Narrowing
    <3>2. k # m /\ m \in Int
      BY <1>0, <2>2
    <3>3. Inside(b, c, k)
      BY <1>0, <2>2, <2>3, <3>1, <3>2 DEF Inside, Sides, Other
    <3>4. c \notin X
      <4>1. m \in T
        BY <2>2
      <4>2. PICK x \in Nat, y \in Nat : x = Width(b, m) /\ y = Width(b, c) /\ y < x
        BY <1>1, <3>1, <4>1
      <4>. HIDE DEF X
      <4>3. c \in X => x <= y
        BY <2>2, <4>2
      <4>. QED  BY <4>2, <4>3
    <3>5. Good(f[c])
      BY <3>1, <3>3, <3>4
    <3>. QED  BY <2>2, <2>5, <2>7, <3>5
  <2>. QED  BY <2>6, <2>7
<1>6. PICK x : x = Place(t, k)
  OBVIOUS
<1>7. Good(x)
  BY <1>0, <1>4, <1>5, <1>6
<1>8. x \in T /\ x \in Int /\ x # k
  BY <1>0, <1>7
<1>9. IF LinkSide(k, x) = "left" THEN b[x]["left"] < k /\ k < x ELSE x < k /\ k < b[x]["right"]
  BY <1>0, <1>7, <1>8 DEF Inside, LinkSide
<1>. QED  BY <1>6, <1>7, <1>9

-----------------------------------------------------------------------------
(* The rounds of the loop of __rb_insert.                                  *)

\* A rotation as rbtree.c writes it, with an inner node that is not red, is a
\* rotation that swaps colours.
LEMMA PlainRotation ==
    ASSUME NodesAreKeys, NEW t \in Trees, NEW T \in SUBSET Nodes, NEW b \in Spans, Shape(t, T, b),
           NEW down \in T, NEW up \in T, NEW s \in Sides, t.child[down][s] = up,
           NEW tmp, tmp = t.child[up][Other(s)], ~RedNode(t, tmp),
           NEW u, u = rotate_set_parents(SetBlackIfAny(Turn(t, down, up, s), tmp, down), down, up, "red")
    PROVE  u \in Trees /\ Rotated(t, u, down, up, s) /\ SwappedColors(t, u, down, up)
<1>1. /\ NULL \notin Nodes /\ down \in Nodes /\ up \in Nodes /\ down \in Links /\ up # down
      /\ Other(s) \in Sides
  <2>1. Apart(t, T)
    BY KidsApart
  <2>. QED  BY <2>1 DEF NodesAreKeys, Apart, Links, Sides, Other
<1>2. tmp \in Links
  BY <1>1 DEF Trees
<1>3. PICK y : y = Turn(t, down, up, s)
  OBVIOUS
<1>4. y \in Trees /\ y.root = t.root /\ y.parent = t.parent /\ y.color = t.color /\ Turned(t, y, down, up, s)
  BY <1>1, <1>3, TurnFields
<1>5. PICK x : x = SetBlackIfAny(y, tmp, down)
  OBVIOUS
<1>6. Reworded(y, x, tmp, down, "black")
  BY <1>1, <1>2, <1>4, <1>5, SetBlackIfAnyFields
<1>7. x \in Trees /\ x.root = y.root /\ x.child = y.child
  BY <1>6 DEF Reworded
<1>8. Turning(t, x, down, up, s)
  BY <1>1, <1>4, <1>6, <1>7 DEF Turning, Turned, Reworded
<1>9. "red" \in Colors
  BY DEF Colors
<1>10. u = rotate_set_parents(x, down, up, "red")
  BY <1>3, <1>5
<1>11. u \in Trees /\ Rotated(t, u, down, up, s) /\ RotatedColors(x, u, down, up, "red")
  BY <1>7, <1>8, <1>9, <1>10, RotationDone
<1>12. \A n \in Nodes : x.color[n] = t.color[n]
  <2>1. \A n \in Nodes : t.color[n] \in Colors
    BY DEF Trees
  <2>. QED  BY <1>1, <1>4, <1>6, <2>1 DEF Reworded, RedNode, Red, Colors
<1>. QED  BY <1>1, <1>11, <1>12 DEF RotatedColors, SwappedColors

\* Case 3 alone ends the insertion.
LEMMA InsertRotateOuter ==
    ASSUME NodesAreKeys, NEW T, NEW b, NEW H, Inserting(tree, T, b, H, node, parent), RedNode(tree, parent),
           NEW s \in Sides, tree.child[gparent][s] = parent, tree.child[parent][s] = node,
           ~RedNode(tree, tree.child[gparent][Other(s)]),
           NEW u, u = RotateOuter(tree, parent, s)
    PROVE  \E c, K : Between(u, T, c, K)
<1>1. PICK t, n, p, g : t = tree /\ n = node /\ p = parent /\ g = gparent
  OBVIOUS
<1>2. Inserting(t, T, b, H, n, p) /\ RedNode(t, p) /\ g = t.parent[p] /\ t.child[g][s] = p /\ t.child[p][s] = n
      /\ ~RedNode(t, t.child[g][Other(s)])
  BY <1>1 DEF gparent
<1>3. Standing(t, T, b, H)
  BY <1>2 DEF Inserting
<1>4. t \in Trees /\ T \in SUBSET Nodes /\ b \in Spans /\ Shape(t, T, b)
  BY <1>3 DEF Standing
<1>5. Offspring(t, T)
  BY <1>3, KidIs
<1>6. n \in T /\ p \in T /\ g \in T /\ Other(s) \in Sides /\ NULL \notin T
  <2>1. n \in T /\ t.parent[n] = p /\ p # NULL
    BY <1>2 DEF Inserting, RedNode
  <2>2. p \in T /\ g \in T /\ NULL \notin T
    <3>1. p \in T /\ NULL \notin T
      BY <1>3, <2>1, KidsAndRoot
    <3>2. p # t.root
      BY <1>2, <1>3, <2>1, <3>1, KidsAndRoot DEF Inserting
    <3>. QED  BY <1>2, <1>3, <3>1, <3>2, KidsAndRoot
  <2>. QED  BY <2>1, <2>2 DEF Sides, Other
<1>7. PICK tmp : tmp = t.child[p][Other(s)]
  OBVIOUS
<1>8. ~RedNode(t, tmp)
  <2>1. RedsApart(t, T, n) /\ Red(t, p)
    BY <1>2 DEF Inserting, RedNode
  <2>2. tmp # n
    BY ONLY <1>2, <1>5, <1>6, <1>7 DEF Offspring
  <2>. QED  BY ONLY <1>6, <1>7, <2>1, <2>2 DEF RedsApart
<1>9. u = rotate_set_parents(SetBlackIfAny(Turn(t, g, p, s), tmp, g), g, p, "red")
  BY <1>1, <1>7 DEF RotateOuter
<1>10. u \in Trees /\ Rotated(t, u, g, p, s) /\ SwappedColors(t, u, g, p)
  BY <1>2, <1>4, <1>6, <1>7, <1>8, <1>9, PlainRotation
<1>11. Between(u, T, TurnedSpans(b, g, p, s), SwappedHeights(H, g, p))
  BY <1>2, <1>10, InsertOuterDone
<1>. QED  BY <1>11

\* Cases 2 and 3 end the insertion.  The code leaves the parent of node unset
\* after case 2, and the second rotation sets it.
LEMMA InsertRotateInner ==
    ASSUME NodesAreKeys, NEW T, NEW b, NEW H, Inserting(tree, T, b, H, node, parent), RedNode(tree, parent),
           NEW s \in Sides, tree.child[gparent][s] = parent, tree.child[parent][Other(s)] = node,
           ~RedNode(tree, tree.child[gparent][Other(s)]),
           NEW u, u = RotateOuter(RotateInner(tree, s), node, s)
    PROVE  \E c, K : Between(u, T, c, K)
<1>1. PICK t, n, p, g : t = tree /\ n = node /\ p = parent /\ g = gparent
  OBVIOUS
<1>o. PICK o \in Sides : o = Other(s) /\ s = Other(o) /\ o # s
  BY DEF Sides, Other
<1>2. /\ Inserting(t, T, b, H, n, p) /\ RedNode(t, p) /\ g = t.parent[p] /\ t.child[g][s] = p
      /\ t.child[p][o] = n /\ ~RedNode(t, t.child[g][o])
  BY <1>1, <1>o DEF gparent
<1>3. Standing(t, T, b, H)
  BY <1>2 DEF Inserting
<1>4. t \in Trees /\ T \in SUBSET Nodes /\ b \in Spans /\ Shape(t, T, b)
  BY <1>3 DEF Standing
<1>5. Offspring(t, T) /\ Apart(t, T)
  BY <1>3, <1>4, KidIs, KidsApart
<1>6. /\ n \in T /\ p \in T /\ g \in T /\ NULL \notin T /\ NULL \notin Nodes /\ p # t.root /\ n # p /\ n # g /\ p # g
      /\ t.parent[n] = p /\ Red(t, n) /\ Red(t, p) /\ n # t.root
      /\ n \in Nodes /\ p \in Nodes /\ g \in Nodes
  <2>1. n \in T /\ p \in T /\ g \in T /\ NULL \notin T /\ NULL \notin Nodes /\ t.parent[n] = p /\ Red(t, n) /\ Red(t, p)
    BY <1>2, <1>3, KidsAndRoot DEF Inserting, RedNode
  <2>2. p # g /\ p # t.root /\ n # p /\ n # t.root
    BY <1>2, <1>5, <1>o, <2>1 DEF Apart
  <2>3. n # g
    <3>1. b[p][o] = g /\ b[n][o] = b[p][o]
      BY <1>2, <1>4, <1>o, <2>1 DEF Shape, Kids
    <3>2. b[n][o] # n
      <4>1. n \in Int /\ b[n]["left"] < n /\ n < b[n]["right"]
        BY <1>4, <2>1 DEF Shape, Around, NodesAreKeys
      <4>. QED  BY <4>1, <1>o DEF Sides
    <3>. QED  BY <3>1, <3>2
  <2>. QED  BY <1>4, <2>1, <2>2, <2>3
<1>7. PICK tmp, tmp2 : tmp = t.child[n][s] /\ tmp2 = t.child[n][o]
  OBVIOUS
<1>8. ~RedNode(t, tmp) /\ ~RedNode(t, tmp2) /\ tmp \in Links /\ tmp2 \in Links
  <2>1. RedsApart(t, T, n) /\ Red(t, n)
    BY <1>2 DEF Inserting
  <2>2. tmp \in Links /\ tmp2 \in Links /\ tmp # n /\ tmp2 # n
    BY ONLY <1>5, <1>6, <1>7, s \in Sides, o \in Sides DEF Offspring
  <2>. QED  BY ONLY <1>6, <1>7, <2>1, <2>2, s \in Sides, o \in Sides DEF RedsApart
<1>9. PICK y : y = Turn(t, p, n, o)
  OBVIOUS
<1>10. y \in Trees /\ y.root = t.root /\ y.parent = t.parent /\ y.color = t.color /\ Turned(t, y, p, n, o)
  <2>1. t \in Trees /\ p \in Nodes /\ n \in Nodes /\ o \in Sides /\ n # p
    BY <1>4, <1>6
  <2>. QED  BY ONLY <1>9, <2>1, TurnFields
<1>11. PICK x : x = SetBlackIfAny(y, tmp, p)
  OBVIOUS
<1>12. Reworded(y, x, tmp, p, "black")
  BY <1>6, <1>8, <1>10, <1>11, SetBlackIfAnyFields DEF Links
<1>13. x \in Trees
  BY <1>12 DEF Reworded

\* The tree a complete rotation would have left.
<1>14. PICK v : v = rotate_set_parents(x, p, n, "red")
  OBVIOUS
<1>15. v \in Trees /\ Rotated(t, v, p, n, o) /\ SwappedColors(t, v, p, n)
  BY <1>2, <1>4, <1>6, <1>7, <1>8, <1>9, <1>11, <1>14, <1>o, PlainRotation
<1>16. Inserting(v, T, TurnedSpans(b, p, n, o), SwappedHeights(H, p, n), p, n)
  BY <1>2, <1>15, InsertInnerKeeps

\* The one the code leaves.
<1>17. PICK w : w = rb_set_parent_color(x, p, n, "red")
  OBVIOUS
<1>18. Reworded(x, w, p, n, "red")
  BY <1>6, <1>13, <1>17, SetParentColorFields DEF Links, Colors
<1>19. w \in Trees /\ w.root = t.root
  BY <1>10, <1>12, <1>18 DEF Reworded
<1>20. w = RotateInner(tree, s)
  BY <1>1, <1>7, <1>9, <1>11, <1>17, <1>o DEF RotateInner
<1>21. \A m \in Nodes, z \in Sides :
         w.child[m][z] = IF m = p /\ z = o THEN tmp ELSE IF m = n /\ z = s THEN p ELSE t.child[m][z]
  BY <1>7, <1>10, <1>12, <1>18, <1>o DEF Reworded, Turned
<1>22. w.child[n][o] = tmp2
  BY <1>6, <1>7, <1>21, <1>o
<1>23. PICK y2 : y2 = Turn(w, g, n, s)
  OBVIOUS
<1>24. y2 \in Trees /\ y2.root = w.root /\ y2.parent = w.parent /\ y2.color = w.color /\ Turned(w, y2, g, n, s)
  <2>1. g \in Nodes /\ n \in Nodes /\ n # g /\ w \in Trees
    BY <1>6, <1>19
  <2>. QED  BY <2>1, <1>23, TurnFields
<1>25. PICK x2 : x2 = SetBlackIfAny(y2, tmp2, g)
  OBVIOUS
<1>26. Reworded(y2, x2, tmp2, g, "black")
  BY <1>6, <1>8, <1>24, <1>25, SetBlackIfAnyFields DEF Links
<1>27. u = rotate_set_parents(x2, g, n, "red")
  BY <1>1, <1>20, <1>22, <1>23, <1>25, <1>o DEF RotateOuter

\* What is left of the first rotation is done by the second.
<1>28. v.child[g][s] = n /\ v.child[n][o] = tmp2 /\ v.child[g][o] = t.child[g][o] /\ v.child[n][s] = p
  BY <1>2, <1>5, <1>6, <1>7, <1>15, <1>o DEF Rotated, Apart
<1>29. Turning(v, x2, g, n, s)
  <2>1. x2 \in Trees /\ x2.root = v.root
    BY <1>6, <1>15, <1>19, <1>24, <1>26 DEF Reworded, Rotated
  <2>2. \A m \in Nodes, z \in Sides : t.child[m][z] = p => m = g /\ z = s
    <3>1. SUFFICES ASSUME NEW m \in Nodes, NEW z \in Sides, t.child[m][z] = p PROVE m = g /\ z = s
      OBVIOUS
    <3>2. p # NULL
      BY <1>6
    <3>3. m \in T
      BY <1>4, <3>1, <3>2 DEF Shape, Blank
    <3>4. t.child[g][s] = p /\ g \in T
      BY <1>2, <1>6
    <3>. QED  BY <1>5, <3>1, <3>2, <3>3, <3>4 DEF Apart
  <2>3. \A m \in Nodes, z \in Sides :
          v.child[m][z] = IF m = p /\ z = o THEN tmp ELSE IF m = n /\ z = s THEN p
                          ELSE IF t.child[m][z] = p THEN n ELSE t.child[m][z]
    BY <1>7, <1>15, <1>o DEF Rotated
  <2>4. \A m \in Nodes, z \in Sides :
          x2.child[m][z] = IF m = g /\ z = s THEN tmp2 ELSE IF m = n /\ z = o THEN g ELSE w.child[m][z]
    BY <1>22, <1>24, <1>26, <1>o DEF Reworded, Turned
  <2>5. Turned(v, x2, g, n, s)
    BY <1>6, <1>21, <1>28, <2>2, <2>3, <2>4, <1>o DEF Turned
  <2>6. \A m \in Nodes : m # n => x2.parent[m] = IF m = tmp2 THEN g ELSE v.parent[m]
    <3>1. \A m \in Nodes :
            x2.parent[m] = IF m = tmp2 THEN g ELSE IF m = p THEN n ELSE IF m = tmp THEN p ELSE t.parent[m]
      BY <1>10, <1>12, <1>18, <1>24, <1>26 DEF Reworded
    <3>2. \A m \in Nodes : m # n => v.parent[m] = IF m = p THEN n ELSE IF m = tmp THEN p ELSE t.parent[m]
      BY <1>6, <1>7, <1>15, <1>o DEF Rotated
    <3>. QED  BY <3>1, <3>2
  <2>. QED  BY <1>28, <2>1, <2>5, <2>6, <1>o DEF Turning
<1>30. v.parent[n] = g /\ Shape(v, T, TurnedSpans(b, p, n, o)) /\ TurnedSpans(b, p, n, o) \in Spans
  BY <1>2, <1>6, <1>15, <1>16 DEF Inserting, Standing, Rotated
<1>31. u \in Trees /\ Rotated(v, u, g, n, s) /\ RotatedColors(x2, u, g, n, "red")
  <2>1. x2 \in Trees /\ "red" \in Colors
    BY <1>26 DEF Reworded, Colors
  <2>. QED  BY <1>4, <1>6, <1>15, <1>27, <1>28, <1>29, <1>30, <2>1, RotationDone
<1>32. SwappedColors(v, u, g, n)
  <2>1. \A m \in Nodes : t.color[m] \in Colors
    BY <1>4 DEF Trees
  <2>2. \A m \in Nodes : x2.color[m] = IF m = p THEN "red" ELSE t.color[m]
    BY <1>6, <1>7, <1>8, <1>10, <1>12, <1>18, <1>24, <1>26, <2>1, <1>5 DEF Reworded, RedNode, Red, Colors, Apart
  <2>3. \A m \in Nodes : v.color[m] = IF m = p THEN "red" ELSE t.color[m]
    BY <1>6, <1>15 DEF SwappedColors, Red
  <2>. QED  BY <1>6, <1>31, <2>2, <2>3 DEF RotatedColors, SwappedColors
<1>33. RedNode(v, n) /\ ~RedNode(v, v.child[g][o])
  <2>1. t.child[g][o] # n /\ t.child[g][o] # p
    BY <1>2, <1>5, <1>6, <1>o DEF Apart
  <2>2. v.color[n] = t.color[p] /\ \A m \in Nodes : m # n /\ m # p => v.color[m] = t.color[m]
    BY <1>6, <1>15 DEF SwappedColors
  <2>3. PICK k \in Links : k = t.child[g][o] /\ v.child[g][o] = k
    BY <1>5, <1>6, <1>28 DEF Offspring
  <2>4. ~RedNode(t, k)
    BY <1>2, <2>3
  <2>5. k # NULL => v.color[k] = t.color[k]
    BY <2>1, <2>2, <2>3 DEF Links
  <2>6. ~RedNode(v, k)
    BY <2>4, <2>5 DEF RedNode, Red
  <2>. QED  BY <1>6, <2>2, <2>3, <2>6 DEF RedNode, Red
<1>34. \E c, K : Inserting(v, T, c, K, p, n)
  BY <1>16
<1>35. PICK c, K : Inserting(v, T, c, K, p, n)
  BY <1>34
<1>36. g = v.parent[n] /\ ~RedNode(v, v.child[g][Other(s)])
  BY <1>30, <1>33, <1>o
<1>37. Between(u, T, TurnedSpans(c, g, n, s), SwappedHeights(K, g, n))
  BY <1>28, <1>31, <1>32, <1>33, <1>35, <1>36, InsertOuterDone
<1>. QED  BY <1>37

\* Side finds the side on which a child stands.
LEMMA SideIs ==
    ASSUME NodesAreKeys, NEW t, NEW T, NEW b, NEW H, Standing(t, T, b, H), NEW p \in T,
           NEW s \in Sides, NEW n \in T, t.child[p][s] = n
    PROVE  Side(t, p, n) = s
<1>1. Offspring(t, T) /\ n # NULL
  BY KidIs DEF NodesAreKeys, Standing
<1>2. t.child[p][Other(s)] # n
  BY <1>1 DEF Offspring
<1>. QED  BY <1>2 DEF Side, Sides, Other

\* After InsertRotate the tree is in order and no call runs.
LEMMA InsertRotateDone ==
    ASSUME NodesAreKeys, NEW T, NEW b, NEW H, Inserting(tree, T, b, H, node, parent), InsertRotate
    PROVE  \E c, K : Between(tree', T, c, K) /\ op' = "idle" /\ node' = NULL /\ parent' = NULL
<1>1. RedNode(tree, parent) /\ ~RedNode(tree, uncle)
  BY DEF InsertRotate, TwoReds
<1>2. Standing(tree, T, b, H) /\ node \in T /\ tree.parent[node] = parent /\ parent # NULL
      /\ (RedNode(tree, tree.root) => node = tree.root)
  BY <1>1 DEF Inserting, RedNode
<1>3. PICK t, n, p, g : t = tree /\ n = node /\ p = parent /\ g = gparent
  OBVIOUS
<1>4. /\ Standing(t, T, b, H) /\ n \in T /\ t.parent[n] = p /\ p # NULL /\ g = t.parent[p] /\ RedNode(t, p)
      /\ (RedNode(t, t.root) => n = t.root)
  BY <1>1, <1>2, <1>3 DEF gparent
<1>5. p \in T /\ n # t.root /\ p # t.root /\ g \in T
  BY <1>4, KidsAndRoot
<1>6. PICK s \in Sides : t.child[g][s] = p
  BY <1>4, <1>5, KidsAndRoot
<1>7. PICK z \in Sides : t.child[p][z] = n
  BY <1>4, <1>5, KidsAndRoot
<1>8. s = Side(t, g, p)
  BY <1>4, <1>5, <1>6, SideIs
<1>9. s = Side(tree, gparent, parent) /\ tree.child[gparent][s] = parent /\ tree.child[parent][z] = node
  BY <1>3, <1>6, <1>7, <1>8
<1>10. ~RedNode(tree, tree.child[gparent][Other(s)])
  BY <1>1, <1>9 DEF uncle
<1>11. Offspring(t, T)
  BY <1>4, KidIs
<1>12. CASE node = tree.child[parent][Other(s)]
  <2>1. PICK u : u = RotateOuter(RotateInner(tree, s), node, s)
    OBVIOUS
  <2>2. Done(u)
    BY <1>9, <1>12, <2>1 DEF InsertRotate
  <2>3. \E c, K : Between(u, T, c, K)
    BY <1>1, <1>9, <1>10, <1>12, <2>1, InsertRotateInner
  <2>. QED  BY <2>2, <2>3 DEF Done
<1>13. CASE node # tree.child[parent][Other(s)]
  <2>1. PICK u : u = RotateOuter(tree, parent, s)
    OBVIOUS
  <2>2. Done(u)
    BY <1>9, <1>13, <2>1 DEF InsertRotate
  <2>3. z = s
    BY <1>9, <1>13 DEF Sides, Other
  <2>4. \E c, K : Between(u, T, c, K)
    BY <1>1, <1>9, <1>10, <2>1, <2>3, InsertRotateOuter
  <2>. QED  BY <2>2, <2>4 DEF Done
<1>. QED  BY <1>12, <1>13

\* After InsertFlip the loop stands at the grandparent.
LEMMA InsertFlipStep ==
    ASSUME NodesAreKeys, NEW T, NEW b, NEW H, Inserting(tree, T, b, H, node, parent), InsertFlip
    PROVE  \E K : Inserting(tree', T, b, K, node', parent') /\ op' = "insert" /\ tree'.child = tree.child
                  /\ tree'.root = tree.root /\ (\A x \in Nodes : tree'.parent[x] = tree.parent[x])
                  /\ node' = gparent /\ parent' = tree.parent[gparent]
<1>1. RedNode(tree, parent) /\ RedNode(tree, uncle) /\ op = "insert"
  BY DEF InsertFlip, TwoReds
<1>2. Standing(tree, T, b, H) /\ node \in T /\ tree.parent[node] = parent /\ parent # NULL
      /\ (RedNode(tree, tree.root) => node = tree.root)
  BY <1>1 DEF Inserting, RedNode
<1>3. PICK t, n, p, g, un : t = tree /\ n = node /\ p = parent /\ g = gparent /\ un = uncle
  OBVIOUS
<1>4. /\ Standing(t, T, b, H) /\ n \in T /\ t.parent[n] = p /\ p # NULL /\ g = t.parent[p] /\ RedNode(t, p)
      /\ (RedNode(t, t.root) => n = t.root) /\ Inserting(t, T, b, H, n, p) /\ RedNode(t, un)
  BY <1>1, <1>2, <1>3 DEF gparent
<1>5. p \in T /\ n # t.root /\ p # t.root /\ g \in T
  BY <1>4, KidsAndRoot
<1>6. PICK s \in Sides : t.child[g][s] = p
  BY <1>4, <1>5, KidsAndRoot
<1>7. s = Side(t, g, p)
  BY <1>4, <1>5, <1>6, SideIs
<1>8. un = t.child[g][Other(s)]
  BY <1>3, <1>7 DEF uncle
<1>9. Offspring(t, T) /\ Other(s) \in Sides
  BY <1>4, KidIs DEF Sides, Other
<1>10. /\ un \in T /\ un # p /\ t.parent[un] = g /\ un # NULL /\ T \subseteq Nodes /\ t \in Trees
       /\ p # g /\ un # g /\ t.parent[g] \in Links
  <2>1. T \subseteq Nodes /\ t \in Trees /\ g \in Nodes /\ un # NULL
    BY <1>4, <1>5 DEF Standing, RedNode
  <2>2. un \in T /\ t.parent[un] = g /\ un # g
    BY <1>5, <1>8, <1>9, <2>1 DEF Offspring
  <2>3. p # g /\ un # p
    BY <1>4, <1>5, <1>6, <1>8, <1>9 DEF Offspring
  <2>4. t.parent[g] \in Links
    BY <2>1 DEF Trees
  <2>. QED  BY <2>1, <2>2, <2>3, <2>4
<1>11. PICK x : x = rb_set_parent_color(t, un, g, "black")
  OBVIOUS
<1>12. Reworded(t, x, un, g, "black")
  BY <1>5, <1>10, <1>11, SetParentColorFields DEF Links, Colors
<1>13. PICK y : y = rb_set_parent_color(x, p, g, "black")
  OBVIOUS
<1>14. Reworded(x, y, p, g, "black")
  <2>1. x \in Trees /\ p \in Nodes /\ g \in Links /\ "black" \in Colors
    BY <1>5, <1>10, <1>12 DEF Links, Colors, Reworded
  <2>. QED  BY <1>13, <2>1, SetParentColorFields
<1>15. PICK gg : gg = t.parent[g]
  OBVIOUS
<1>16. PICK u : u = rb_set_parent_color(y, g, gg, "red")
  OBVIOUS
<1>17. Reworded(y, u, g, gg, "red")
  <2>1. y \in Trees /\ g \in Nodes /\ gg \in Links /\ "red" \in Colors
    BY <1>5, <1>10, <1>14, <1>15 DEF Colors, Reworded
  <2>. QED  BY <1>16, <2>1, SetParentColorFields
<1>18. u.child = t.child /\ u.root = t.root /\ u \in Trees
  BY <1>12, <1>14, <1>17 DEF Reworded
<1>19. \A m \in Nodes : u.parent[m] = t.parent[m]
  BY <1>4, <1>5, <1>10, <1>12, <1>14, <1>15, <1>17 DEF Reworded
<1>20. SameLinks(t, u)
  BY <1>18, <1>19 DEF SameLinks
<1>21. InsertFlipColors(t, u, p, un, g)
  BY <1>10, <1>12, <1>14, <1>17 DEF Reworded, InsertFlipColors
<1>22. Inserting(u, T, b, InsertFlipHeights(H, p, un), g, t.parent[g])
  BY <1>4, <1>6, <1>8, <1>20, <1>21, InsertFlipKeeps
<1>23. Inserting(u, T, b, InsertFlipHeights(H, p, un), g, gg)
  BY <1>15, <1>22
<1>24. parent' = gg /\ node' = g /\ op' = "insert"
  BY <1>1, <1>3, <1>15 DEF InsertFlip
<1>25. tree' = u
  BY <1>3, <1>11, <1>13, <1>16, <1>24 DEF InsertFlip, Blacken
<1>. QED  BY <1>3, <1>15, <1>18, <1>19, <1>23, <1>24, <1>25

-----------------------------------------------------------------------------
(* The rounds of the loop of ____rb_erase_color.                           *)

\* Side finds the side that is one black node short, also where node is NULL.
LEMMA ErasingSide ==
    ASSUME NodesAreKeys, NEW t, NEW T, NEW b, NEW H, NEW n, NEW p, NEW s, Erasing(t, T, b, H, n, p, s)
    PROVE  Side(t, p, n) = s
<1>1. PICK sib : sib = t.child[p][Other(s)]
  OBVIOUS
<1>2. n # sib /\ s \in Sides /\ t.child[p][s] = n
  BY <1>1, SiblingIs DEF Erasing
<1>. QED  BY <1>1, <1>2 DEF Side, Sides, Other

\* After case 1, or without it, the loop has a black sibling.
LEMMA EraseCase1Step ==
    ASSUME NodesAreKeys, NEW T, NEW b, NEW H, NEW s, Erasing(tree, T, b, H, node, parent, s),
           NEW c, c = EraseCase1
    PROVE  /\ \E d, K : Erasing(c.tree, T, d, K, node, parent, s)
           /\ c.sibling = c.tree.child[parent][Other(s)] /\ ~Red(c.tree, c.sibling)
           /\ c.tree = tree \/ Red(c.tree, parent)
<1>1. PICK t, n, p : t = tree /\ n = node /\ p = parent
  OBVIOUS
<1>2. Erasing(t, T, b, H, n, p, s)
  BY <1>1
<1>3. side = s
  BY <1>1, <1>2, ErasingSide DEF side
<1>0. PICK o : o = Other(s)
  OBVIOUS
<1>4. PICK sib : sib = t.child[p][o]
  OBVIOUS
<1>5. /\ p \in T /\ s \in Sides /\ o \in Sides /\ o # s /\ s = Other(o) /\ n \in Links
      /\ sib \in T /\ sib # p /\ t.parent[sib] = p /\ sib # t.root /\ n # sib
  BY <1>2, <1>4, <1>0, SiblingIs
<1>6. PICK inner : inner = t.child[sib][s]
  OBVIOUS
<1>7. CASE ~Red(t, sib)
  <2>1. c.tree = t /\ c.sibling = sib
    BY <1>1, <1>3, <1>4, <1>7, <1>0 DEF EraseCase1
  <2>. QED  BY <1>1, <1>2, <1>4, <1>7, <1>0, <2>1
<1>8. CASE Red(t, sib)
  <2>1. Standing(t, T, b, H) /\ RedsApart(t, T, NULL)
    BY <1>2 DEF Erasing
  <2>2. t \in Trees /\ T \in SUBSET Nodes /\ b \in Spans /\ Shape(t, T, b)
    BY <2>1 DEF Standing
  <2>3. ~RedNode(t, inner)
    BY <1>5, <1>6, <1>8, <2>1 DEF RedsApart, RedNode, Red
  <2>4. PICK u : u = rotate_set_parents(SetBlackIfAny(Turn(t, p, sib, o), inner, p), p, sib, "red")
    OBVIOUS
  <2>5. u \in Trees /\ Rotated(t, u, p, sib, o) /\ SwappedColors(t, u, p, sib)
    BY <1>4, <1>5, <1>6, <2>2, <2>3, <2>4, PlainRotation
  <2>6. /\ Erasing(u, T, TurnedSpans(b, p, sib, o), SwappedHeights(H, p, sib), n, p, s)
        /\ ~Red(t, p) /\ inner \in T /\ ~Red(t, inner)
        /\ u.child[p][o] = inner /\ ~Red(u, u.child[p][o])
    BY <1>2, <1>4, <1>6, <1>8, <1>0, <2>5, EraseCase1Keeps
  <2>7. inner # NULL /\ p \in Nodes
    BY <1>5, <2>2, <2>6 DEF NodesAreKeys
  <2>8. c.tree = u /\ c.sibling = inner
    BY <1>1, <1>3, <1>4, <1>6, <1>8, <1>0, <2>4, <2>7 DEF EraseCase1, SetBlackIfAny
  <2>9. Red(u, p)
    BY <2>5, <2>7 DEF SwappedColors, Red
  <2>. QED  BY <1>1, <1>0, <2>6, <2>8, <2>9
<1>. QED  BY <1>7, <1>8

\* After EraseFlip the tree is in order, or the loop stands at the parent.
LEMMA EraseFlipStep ==
    ASSUME NodesAreKeys, NEW T, NEW b, NEW H, NEW s, Erasing(tree, T, b, H, node, parent, s), EraseFlip
    PROVE  \/ (\E d, K : Between(tree', T, d, K)) /\ op' = "idle" /\ node' = NULL /\ parent' = NULL
           \/ /\ \E K, z : Erasing(tree', T, b, K, node', parent', z)
              /\ op' = "erase" /\ SameLinks(tree, tree') /\ node' = parent /\ parent' = tree.parent[parent]
<1>1. PICK c : c = EraseCase1
  OBVIOUS
<1>2. PICK t0, t, n, p, sib : t0 = tree /\ t = c.tree /\ n = node /\ p = parent /\ sib = c.sibling
  OBVIOUS
<1>3. /\ \E d, K : Erasing(t, T, d, K, n, p, s)
      /\ sib = t.child[p][Other(s)] /\ ~Red(t, sib) /\ (t = t0 \/ Red(t, p))
  BY <1>1, <1>2, EraseCase1Step
<1>4. PICK u : u = rb_set_parent_color(t, sib, p, "red")
  OBVIOUS
<1>5. /\ BothBlack(t, sib) /\ op = "erase"
      /\ IF GoesOn(u) THEN tree' = u /\ node' = p /\ parent' = u.parent[p] /\ op' = "erase"
         ELSE Done([u EXCEPT !.color[p] = "black"])
  BY <1>1, <1>2, <1>4 DEF EraseFlip, Deficient
<1>6. \A z \in Sides : ~RedNode(t, t.child[sib][z])
  BY <1>5 DEF BothBlack
<1>7. ASSUME NEW d, NEW K, Erasing(t, T, d, K, n, p, s)
      PROVE  \/ (\E e, L : Between(tree', T, e, L)) /\ op' = "idle" /\ node' = NULL /\ parent' = NULL
             \/ /\ \E L, z : Erasing(tree', T, d, L, node', parent', z)
                /\ op' = "erase" /\ tree' = u /\ SameLinks(t, u) /\ node' = p /\ parent' = t.parent[p] /\ ~Red(t, p)
  <2>o. PICK o : o = Other(s)
    OBVIOUS
  <2>1. /\ p \in T /\ s \in Sides /\ o \in Sides /\ sib \in T /\ sib # p /\ t.parent[sib] = p
    BY <1>3, <1>7, <2>o, SiblingIs
  <2>2. Standing(t, T, d, K)
    BY <1>7 DEF Erasing
  <2>3. t \in Trees /\ T \subseteq Nodes /\ NULL \notin Nodes
    BY <2>2 DEF Standing, NodesAreKeys
  <2>4. Reworded(t, u, sib, p, "red")
    <3>1. sib \in Nodes /\ p \in Links /\ "red" \in Colors
      BY <2>1, <2>3 DEF Links, Colors
    <3>. QED  BY <1>4, <2>3, <3>1, SetParentColorFields
  <2>5. SameLinks(t, u) /\ u.color[p] = t.color[p]
    BY <2>1, <2>3, <2>4 DEF Reworded, SameLinks
  <2>6. GoesOn(u) <=> ~Red(t, p) /\ t.parent[p] # NULL
    BY <1>2, <2>1, <2>3, <2>5 DEF GoesOn, SameLinks, Red
  <2>7. CASE GoesOn(u)
    <3>1. t.color[p] = "black"
      BY <2>1, <2>3, <2>6, <2>7 DEF Trees, Colors, Red
    <3>2. EraseFlipColors(t, u, p, sib)
      BY <2>1, <2>4, <3>1 DEF Reworded, EraseFlipColors
    <3>3. \E z \in Sides : Erasing(u, T, d, EraseFlipHeights(K, n, p, sib), p, t.parent[p], z)
      BY <1>3, <1>6, <1>7, <2>5, <2>6, <2>7, <3>2, EraseFlipGoesUp
    <3>4. tree' = u /\ node' = p /\ parent' = t.parent[p] /\ op' = "erase"
      BY <1>5, <2>1, <2>3, <2>5, <2>7 DEF SameLinks
    <3>. QED  BY <2>5, <2>6, <2>7, <3>3, <3>4
  <2>8. CASE ~GoesOn(u)
    <3>1. PICK w : w = [u EXCEPT !.color[p] = "black"]
      OBVIOUS
    <3>2. w \in Trees /\ w.root = u.root /\ w.child = u.child /\ w.parent = u.parent
          /\ \A m \in Nodes : w.color[m] = IF m = p THEN "black" ELSE u.color[m]
      BY <2>1, <2>3, <2>5, <3>1 DEF SameLinks, Trees, Colors
    <3>3. SameLinks(t, w)
      BY <2>5, <3>2 DEF SameLinks
    <3>4. EraseFlipColors(t, w, p, sib)
      BY <2>1, <2>4, <3>2 DEF Reworded, EraseFlipColors
    <3>5. Red(t, p) \/ t.parent[p] = NULL
      BY <2>6, <2>8
    <3>6. Between(w, T, d, EraseFlipHeights(K, n, p, sib))
      BY <1>3, <1>6, <1>7, <3>3, <3>4, <3>5, EraseFlipGoesUp
    <3>. QED  BY <1>5, <2>8, <3>1, <3>6 DEF Done
  <2>. QED  BY <2>7, <2>8
<1>8. CASE t = t0
  BY <1>2, <1>7, <1>8
<1>9. CASE Red(t, p)
  BY <1>3, <1>7, <1>9
<1>. QED  BY <1>3, <1>8, <1>9

\* The child of a child is neither of the two, and has neither as a child.
LEMMA GrandKid ==
    ASSUME NodesAreKeys, NEW t, NEW T, NEW b, NEW H, Standing(t, T, b, H),
           NEW p \in T, NEW q \in T, NEW k \in T, NEW o \in Sides, t.child[p][o] = q,
           NEW z \in Sides, t.child[q][z] = k
    PROVE  k # p /\ k # q /\ \A y \in Sides : t.child[k][y] # p /\ t.child[k][y] # q /\ t.child[k][y] # k
<1>1. T \in SUBSET Nodes /\ b \in Spans /\ Shape(t, T, b)
  BY DEF Standing
<1>2. NULL \notin T
  BY <1>1 DEF NodesAreKeys
<1>3. Narrowing(t, T, b) /\ SpanTypes(T, b)
  BY <1>1, KidNarrower, SpansAreInts
<1>4. PICK x, y, w \in Int : x = Width(b, p) /\ y = Width(b, q) /\ w = Width(b, k)
  BY <1>3 DEF SpanTypes, Width
<1>5. q # NULL /\ k # NULL /\ p # NULL
  BY <1>2
<1>6. Width(b, q) < Width(b, p) /\ Width(b, k) < Width(b, q)
  BY <1>3, <1>5 DEF Narrowing
<1>7. y < x /\ w < y
  BY <1>4, <1>6
<1>8. ASSUME NEW v \in Sides, NEW m \in T, t.child[k][v] = m PROVE Width(b, m) < w
  <2>1. m # NULL
    BY <1>2
  <2>2. Width(b, t.child[k][v]) < Width(b, k)
    BY <1>3, <1>8, <2>1 DEF Narrowing
  <2>. QED  BY <1>4, <1>8, <2>2
<1>9. k # p /\ k # q
  BY <1>4, <1>7
<1>10. ASSUME NEW v \in Sides PROVE t.child[k][v] # p /\ t.child[k][v] # q /\ t.child[k][v] # k
  BY <1>4, <1>7, <1>8
<1>. QED  BY <1>9, <1>10

\* Case 4 ends the erasure.
LEMMA EraseCase4Step ==
    ASSUME NodesAreKeys, NEW t, NEW T, NEW b, NEW H, NEW n, NEW s, Erasing(t, T, b, H, n, parent, s),
           NEW sib, sib = t.child[parent][Other(s)], ~Red(t, sib),
           NEW outer, outer = t.child[sib][Other(s)], RedNode(t, outer),
           NEW u, u = EraseCase4(t, sib, outer, s)
    PROVE  \E d, K : Between(u, T, d, K)
<1>1. PICK p : p = parent
  OBVIOUS
<1>0. PICK o : o = Other(s)
  OBVIOUS
<1>2. Erasing(t, T, b, H, n, p, s) /\ sib = t.child[p][o] /\ outer = t.child[sib][o]
  BY <1>1, <1>0
<1>3. Standing(t, T, b, H)
  BY <1>2 DEF Erasing
<1>4. t \in Trees /\ T \in SUBSET Nodes /\ b \in Spans /\ Shape(t, T, b) /\ NULL \notin Nodes
  BY <1>3 DEF Standing, NodesAreKeys
<1>5. /\ p \in T /\ s \in Sides /\ o \in Sides /\ o # s /\ s = Other(o)
      /\ sib \in T /\ sib # p /\ t.parent[sib] = p
  BY <1>2, <1>0, SiblingIs
<1>6. Offspring(t, T)
  BY <1>3, KidIs
<1>7. outer \in T /\ t.parent[outer] = sib /\ outer # sib /\ outer # p
  <2>1. outer # NULL
    BY DEF RedNode
  <2>2. outer \in T /\ t.parent[outer] = sib
    BY ONLY <1>2, <1>4, <1>5, <1>6, <2>1 DEF Offspring
  <2>3. outer # p /\ outer # sib
    <3>1. p \in T /\ sib \in T /\ outer \in T /\ o \in Sides /\ t.child[p][o] = sib /\ t.child[sib][o] = outer
      BY ONLY <1>2, <1>4, <1>5, <2>2
    <3>. QED  BY ONLY NodesAreKeys, <1>3, <3>1, GrandKid
  <2>. QED  BY <2>2, <2>3
<1>8. PICK tmp : tmp = t.child[sib][s]
  OBVIOUS
<1>9. tmp \in Links /\ tmp # outer
  <2>1. t.child[sib][o] = outer /\ outer # NULL
    BY <1>2, <1>4, <1>7
  <2>2. t.child[sib][Other(o)] # outer
    BY ONLY <1>4, <1>5, <1>6, <2>1 DEF Offspring
  <2>. QED  BY <1>5, <1>6, <1>8, <2>2 DEF Offspring
<1>10. PICK y : y = Turn(t, p, sib, o)
  OBVIOUS
<1>11. y \in Trees /\ y.root = t.root /\ y.parent = t.parent /\ y.color = t.color /\ Turned(t, y, p, sib, o)
  <2>1. p \in Nodes /\ sib \in Nodes
    BY <1>4, <1>5
  <2>2. t \in Trees /\ o \in Sides /\ sib # p
    BY ONLY <1>4, <1>5
  <2>. QED  BY ONLY <1>10, <2>1, <2>2, TurnFields
<1>12. PICK t1 : t1 = rb_set_parent_color(y, outer, sib, "black")
  OBVIOUS
<1>13. Reworded(y, t1, outer, sib, "black")
  <2>1. outer \in Nodes /\ sib \in Links /\ "black" \in Colors
    BY <1>4, <1>5, <1>7 DEF Links, Colors
  <2>. QED  BY <1>11, <1>12, <2>1, SetParentColorFields
<1>14. PICK x : x = IF tmp = NULL THEN t1 ELSE rb_set_parent(t1, tmp, p)
  OBVIOUS
<1>15. Reparented(t1, x, tmp, p)
  <2>1. t1 \in Trees /\ p \in Links
    BY <1>4, <1>5, <1>13 DEF Reworded, Links
  <2>2. CASE tmp = NULL
    BY <1>4, <1>14, <2>1, <2>2 DEF Reparented
  <2>3. CASE tmp # NULL
    BY <1>9, <1>14, <2>1, <2>3, SetParentFields DEF Links
  <2>. QED  BY <2>2, <2>3
<1>16. Turning(t, x, p, sib, o)
  <2>1. x \in Trees /\ x.root = t.root /\ x.child = y.child
    BY <1>11, <1>13, <1>15 DEF Reworded, Reparented
  <2>2. \A m \in Nodes : x.parent[m] = IF m = tmp THEN p ELSE IF m = outer THEN sib ELSE t.parent[m]
    BY <1>11, <1>13, <1>15 DEF Reworded, Reparented
  <2>3. Turned(t, x, p, sib, o)
    BY <1>11, <2>1 DEF Turned
  <2>4. t.parent[outer] = sib /\ tmp = t.child[sib][Other(o)]
    BY <1>5, <1>7, <1>8
  <2>. QED  BY <2>1, <2>2, <2>3, <2>4 DEF Turning
<1>17. u = rotate_set_parents(x, p, sib, "black")
  BY <1>1, <1>8, <1>10, <1>12, <1>14, <1>0 DEF EraseCase4
<1>18. u \in Trees /\ Rotated(t, u, p, sib, o) /\ RotatedColors(x, u, p, sib, "black")
  <2>1. x \in Trees /\ "black" \in Colors
    BY <1>15 DEF Reparented, Colors
  <2>. QED  BY <1>2, <1>4, <1>5, <1>16, <1>17, <2>1, RotationDone
<1>19. \A m \in Nodes : x.color[m] = IF m = outer THEN "black" ELSE t.color[m]
  BY <1>11, <1>13, <1>15 DEF Reworded, Reparented
<1>20. EraseCase4Colors(t, u, p, sib, outer)
  <2>1. \A m \in Nodes : u.color[m] = IF m = p THEN "black" ELSE IF m = sib THEN x.color[p] ELSE x.color[m]
    BY <1>18 DEF RotatedColors
  <2>2. x.color[p] = t.color[p] /\ sib # outer
    BY <1>4, <1>5, <1>7, <1>19
  <2>. QED  BY <1>19, <2>1, <2>2 DEF EraseCase4Colors
<1>21. Between(u, T, TurnedSpans(b, p, sib, o), EraseCase4Heights(H, n, p, sib, outer))
  BY <1>2, <1>18, <1>20, <1>0, EraseCase4Done
<1>. QED  BY <1>21

\* The sibling sib of the place (p, s) is black, and of its children only the inner one is red.
InnerIsRed(t, p, s, sib, k) ==
    /\ sib = t.child[p][Other(s)] /\ ~Red(t, sib)
    /\ k = t.child[sib][s] /\ RedNode(t, k) /\ ~RedNode(t, t.child[sib][Other(s)])

\* Cases 3 and 4 end the erasure.  Case 3 leaves the parent of the inner node
\* unset, and case 4 sets it.
LEMMA EraseCase3Step ==
    ASSUME NodesAreKeys, NEW t, NEW T, NEW b, NEW H, NEW n, NEW s, Erasing(t, T, b, H, n, parent, s),
           NEW sib, NEW k, InnerIsRed(t, parent, s, sib, k),
           NEW u, u = EraseCase4(EraseCase3(t, sib, s), k, sib, s)
    PROVE  \E d, K : Between(u, T, d, K)
<1>1. PICK p : p = parent
  OBVIOUS
<1>0. PICK o : o = Other(s)
  OBVIOUS
<1>2. /\ Erasing(t, T, b, H, n, p, s) /\ sib = t.child[p][o] /\ RedNode(t, k) /\ k = t.child[sib][s]
      /\ ~RedNode(t, t.child[sib][o]) /\ ~Red(t, sib)
  BY <1>1, <1>0 DEF InnerIsRed
<1>3. Standing(t, T, b, H) /\ RedsApart(t, T, NULL)
  BY <1>2 DEF Erasing
<1>4. t \in Trees /\ T \in SUBSET Nodes /\ b \in Spans /\ Shape(t, T, b) /\ NULL \notin Nodes
  BY <1>3 DEF Standing, NodesAreKeys
<1>5. /\ p \in T /\ s \in Sides /\ o \in Sides /\ o # s /\ s = Other(o)
      /\ sib \in T /\ sib # p /\ t.parent[sib] = p /\ sib # t.root
  BY <1>2, <1>0, SiblingIs
<1>6. Offspring(t, T) /\ Apart(t, T)
  BY <1>3, <1>4, KidIs, KidsApart
<1>7. k \in T /\ t.parent[k] = sib /\ k # sib /\ k # p /\ k \in Nodes /\ sib \in Nodes /\ p \in Nodes
  <2>1. k # NULL
    BY <1>2 DEF RedNode
  <2>2. k \in T /\ t.parent[k] = sib
    BY <1>2, <1>5, <1>6, <2>1 DEF Offspring
  <2>3. k # p /\ k # sib
    <3>1. p \in T /\ sib \in T /\ k \in T /\ o \in Sides /\ s \in Sides /\ t.child[p][o] = sib /\ t.child[sib][s] = k
      BY ONLY <1>2, <1>5, <2>2
    <3>. QED  BY ONLY NodesAreKeys, <1>3, <3>1, GrandKid
  <2>. QED  BY <1>4, <1>5, <2>2, <2>3
<1>8. PICK tmp, tmp2 : tmp = t.child[k][o] /\ tmp2 = t.child[k][s]
  OBVIOUS
<1>9. /\ ~RedNode(t, tmp) /\ tmp \in Links /\ tmp2 \in Links /\ tmp # k /\ tmp2 # k /\ tmp2 # sib /\ tmp # sib
      /\ tmp # p /\ tmp2 # p
  <2>1. tmp \in Links /\ tmp2 \in Links
    BY <1>5, <1>6, <1>7, <1>8 DEF Offspring
  <2>2. ~RedNode(t, tmp)
    <3>1. Red(t, k)
      BY <1>2 DEF RedNode
    <3>. QED  BY <1>3, <1>5, <1>7, <1>8, <3>1 DEF RedsApart, RedNode, NodesAreKeys
  <2>3. \A y \in Sides : t.child[k][y] # p /\ t.child[k][y] # sib /\ t.child[k][y] # k
    <3>1. t.child[p][o] = sib /\ t.child[sib][s] = k
      BY <1>2
    <3>. QED  BY <1>3, <1>5, <1>7, <3>1, GrandKid
  <2>. QED  BY <1>5, <1>8, <2>1, <2>2, <2>3
<1>10. PICK y : y = Turn(t, sib, k, s)
  OBVIOUS
<1>11. y \in Trees /\ y.root = t.root /\ y.parent = t.parent /\ y.color = t.color /\ Turned(t, y, sib, k, s)
  <2>1. t \in Trees /\ sib \in Nodes /\ k \in Nodes /\ s \in Sides /\ k # sib
    BY <1>4, <1>5, <1>7
  <2>. QED  BY <1>10, <2>1, TurnFields

\* The tree a complete rotation would have left.
<1>12. PICK v : v = rotate_set_parents(SetBlackIfAny(y, tmp, sib), sib, k, "red")
  OBVIOUS
<1>13. v \in Trees /\ Rotated(t, v, sib, k, s) /\ SwappedColors(t, v, sib, k)
  BY <1>2, <1>4, <1>5, <1>7, <1>8, <1>9, <1>10, <1>12, <1>0, PlainRotation
<1>14. /\ Erasing(v, T, TurnedSpans(b, sib, k, s), SwappedHeights(H, sib, k), n, p, s)
       /\ v.child[p][o] = k /\ ~Red(v, k) /\ v.child[k][o] = sib /\ Red(v, sib)
  <2>1. /\ Erasing(t, T, b, H, n, p, s) /\ o = Other(s) /\ sib = t.child[p][o] /\ ~Red(t, sib)
        /\ k = t.child[sib][s] /\ RedNode(t, k) /\ ~RedNode(t, t.child[sib][o])
        /\ v \in Trees /\ Rotated(t, v, sib, k, s) /\ SwappedColors(t, v, sib, k)
    BY <1>2, <1>13, <1>0
  <2>2. Erasing(v, T, TurnedSpans(b, sib, k, s), SwappedHeights(H, sib, k), n, p, s)
    BY ONLY NodesAreKeys, <2>1, EraseCase3Keeps
  <2>3. v.child[p][o] = k /\ ~Red(v, k)
    BY ONLY NodesAreKeys, <2>1, EraseCase3Keeps
  <2>4. v.child[k][o] = sib /\ Red(v, sib)
    BY <1>5, <1>7, <2>1 DEF Rotated, SwappedColors, Red
  <2>. QED  BY <2>2, <2>3, <2>4

\* The one the code leaves.
<1>15. PICK y1 : y1 = SetChild(y, p, o, k)
  OBVIOUS
<1>16. Rechilded(y, y1, p, o, k) /\ y1.root = t.root
  <2>1. k \in Links
    BY <1>7 DEF Links
  <2>2. y \in Trees /\ y.root = t.root /\ p \in Nodes /\ o \in Sides
    BY <1>5, <1>7, <1>11
  <2>. QED  BY <1>15, <2>1, <2>2, SetChildFields
<1>17. PICK w : w = SetBlackIfAny(y1, tmp, sib)
  OBVIOUS
<1>18. Reworded(y1, w, tmp, sib, "black")
  <2>1. y1 \in Trees /\ sib \in Links
    BY <1>7, <1>16 DEF Rechilded, Links
  <2>. QED  BY <1>4, <1>9, <1>17, <2>1, SetBlackIfAnyFields
<1>19. w = EraseCase3(t, sib, s)
  <2>1. y1 = [y EXCEPT !.child[parent][o] = k]
    BY <1>1, <1>15 DEF SetChild
  <2>. QED  BY <1>2, <1>8, <1>10, <1>17, <1>0, <2>1 DEF EraseCase3
<1>20. w \in Trees /\ w.root = t.root
  BY <1>16, <1>18 DEF Reworded
<1>21. \A m \in Nodes, z \in Sides :
         w.child[m][z] = IF m = p /\ z = o THEN k ELSE IF m = sib /\ z = s THEN tmp
                         ELSE IF m = k /\ z = o THEN sib ELSE t.child[m][z]
  <2>1. \A m \in Nodes, z \in Sides :
          y.child[m][z] = IF m = sib /\ z = s THEN tmp ELSE IF m = k /\ z = o THEN sib ELSE t.child[m][z]
    BY <1>8, <1>11, <1>0 DEF Turned
  <2>2. \A m \in Nodes, z \in Sides : y1.child[m][z] = IF m = p /\ z = o THEN k ELSE y.child[m][z]
    BY <1>16 DEF Rechilded
  <2>3. w.child = y1.child
    BY <1>18 DEF Reworded
  <2>. QED  BY <2>1, <2>2, <2>3
<1>22. w.child[k][s] = tmp2
  BY <1>5, <1>7, <1>8, <1>21
<1>23. \A m \in Nodes, z \in Sides : v.child[m][z] = w.child[m][z]
  <2>1. \A m \in Nodes, z \in Sides : t.child[m][z] = sib => m = p /\ z = o
    <3>1. SUFFICES ASSUME NEW m \in Nodes, NEW z \in Sides, t.child[m][z] = sib PROVE m = p /\ z = o
      OBVIOUS
    <3>2. sib # NULL
      BY <1>4, <1>7
    <3>3. m \in T
      BY <1>4, <3>1, <3>2 DEF Shape, Blank
    <3>4. Apart(t, T) /\ p \in T /\ o \in Sides /\ sib # NULL /\ t.child[p][o] = sib
      BY <1>2, <1>5, <1>6, <3>2
    <3>. QED  BY ONLY <3>1, <3>3, <3>4 DEF Apart
  <2>2. t.child[p][o] = sib
    BY <1>2
  <2>3. \A m \in Nodes, z \in Sides :
          v.child[m][z] = IF m = sib /\ z = s THEN tmp ELSE IF m = k /\ z = o THEN sib
                          ELSE IF t.child[m][z] = sib THEN k ELSE t.child[m][z]
    BY <1>8, <1>13, <1>0 DEF Rotated
  <2>4. sib # k /\ sib # p /\ k # p
    BY <1>5, <1>7
  <2>5. ASSUME NEW m \in Nodes, NEW z \in Sides PROVE v.child[m][z] = w.child[m][z]
    <3>1. w.child[m][z] = IF m = p /\ z = o THEN k ELSE IF m = sib /\ z = s THEN tmp
                          ELSE IF m = k /\ z = o THEN sib ELSE t.child[m][z]
      BY <1>21
    <3>2. v.child[m][z] = IF m = sib /\ z = s THEN tmp ELSE IF m = k /\ z = o THEN sib
                          ELSE IF t.child[m][z] = sib THEN k ELSE t.child[m][z]
      BY <2>3
    <3>3. t.child[m][z] = sib <=> m = p /\ z = o
      BY <2>1, <2>2
    <3>. QED  BY <2>4, <3>1, <3>2, <3>3
  <2>. QED  BY <2>5
<1>24. v.root = w.root /\ v.parent[k] = p
       /\ \A m \in Nodes : m # k => v.parent[m] = IF m = sib THEN k ELSE w.parent[m]
  <2>1. /\ v.root = IF sib = t.root THEN k ELSE t.root
        /\ \A m \in Nodes : v.parent[m] = IF m = sib THEN k ELSE IF m = k THEN t.parent[sib]
                                          ELSE IF m = tmp THEN sib ELSE t.parent[m]
    BY <1>8, <1>13, <1>0 DEF Rotated
  <2>2. \A m \in Nodes : w.parent[m] = IF m = tmp THEN sib ELSE t.parent[m]
    BY <1>11, <1>16, <1>18 DEF Rechilded, Reworded
  <2>3. sib # t.root /\ t.parent[sib] = p /\ sib # k /\ k \in Nodes
    BY <1>5, <1>7
  <2>. QED  BY <1>20, <2>1, <2>2, <2>3
<1>25. PICK y2 : y2 = Turn(w, p, k, o)
  OBVIOUS
<1>26. y2 \in Trees /\ y2.root = w.root /\ y2.parent = w.parent /\ y2.color = w.color /\ Turned(w, y2, p, k, o)
  <2>1. w \in Trees /\ p \in Nodes /\ k \in Nodes /\ o \in Sides /\ k # p
    BY <1>5, <1>7, <1>20
  <2>. QED  BY <1>25, <2>1, TurnFields
<1>27. PICK t1 : t1 = rb_set_parent_color(y2, sib, k, "black")
  OBVIOUS
<1>28. Reworded(y2, t1, sib, k, "black")
  <2>1. k \in Links /\ "black" \in Colors
    BY <1>7 DEF Links, Colors
  <2>. QED  BY <1>7, <1>26, <1>27, <2>1, SetParentColorFields
<1>29. PICK x : x = IF tmp2 = NULL THEN t1 ELSE rb_set_parent(t1, tmp2, p)
  OBVIOUS
<1>30. Reparented(t1, x, tmp2, p)
  <2>1. t1 \in Trees /\ p \in Links
    BY <1>7, <1>28 DEF Reworded, Links
  <2>2. CASE tmp2 = NULL
    BY <1>4, <1>29, <2>1, <2>2 DEF Reparented
  <2>3. CASE tmp2 # NULL
    BY <1>9, <1>29, <2>1, <2>3, SetParentFields DEF Links
  <2>. QED  BY <2>2, <2>3
<1>31. u = rotate_set_parents(x, p, k, "black")
  BY <1>1, <1>19, <1>22, <1>25, <1>27, <1>29, <1>0 DEF EraseCase4
<1>32. Turning(v, x, p, k, o)
  <2>1. x \in Trees /\ x.root = v.root
    BY <1>24, <1>26, <1>28, <1>30 DEF Reworded, Reparented
  <2>2. Turned(v, x, p, k, o)
    <3>1. x.child = y2.child
      BY <1>28, <1>30 DEF Reworded, Reparented
    <3>2. Turned(w, y2, p, k, o) /\ Other(o) = s /\ s \in Sides /\ k \in Nodes
      BY <1>5, <1>7, <1>26
    <3>3. \A m \in Nodes, z \in Sides :
            y2.child[m][z] = IF m = p /\ z = o THEN w.child[k][s]
                             ELSE IF m = k /\ z = s THEN p ELSE w.child[m][z]
      BY <3>2 DEF Turned
    <3>4. \A m \in Nodes, z \in Sides :
            x.child[m][z] = IF m = p /\ z = o THEN v.child[k][s]
                             ELSE IF m = k /\ z = s THEN p ELSE v.child[m][z]
      BY <1>23, <3>1, <3>2, <3>3
    <3>. QED  BY <3>2, <3>4 DEF Turned
  <2>3. \A m \in Nodes : m # k => x.parent[m] = IF m = v.child[k][s] THEN p ELSE v.parent[m]
    <3>1. v.child[k][s] = tmp2
      BY <1>5, <1>7, <1>22, <1>23
    <3>2. \A m \in Nodes : x.parent[m] = IF m = tmp2 THEN p ELSE IF m = sib THEN k ELSE w.parent[m]
      BY <1>26, <1>28, <1>30 DEF Reworded, Reparented
    <3>. QED  BY <1>24, <3>1, <3>2
  <2>. QED  BY <1>5, <2>1, <2>2, <2>3 DEF Turning
<1>33. Shape(v, T, TurnedSpans(b, sib, k, s)) /\ TurnedSpans(b, sib, k, s) \in Spans
  BY <1>14 DEF Erasing, Standing
<1>34. u \in Trees /\ Rotated(v, u, p, k, o) /\ RotatedColors(x, u, p, k, "black")
  <2>1. x \in Trees /\ "black" \in Colors
    BY <1>30 DEF Reparented, Colors
  <2>. QED  BY <1>4, <1>5, <1>7, <1>13, <1>14, <1>31, <1>32, <1>33, <2>1, RotationDone
<1>35. EraseCase4Colors(v, u, p, k, sib)
  <2>1. \A m \in Nodes : t.color[m] \in Colors
    BY <1>4 DEF Trees
  <2>2. \A m \in Nodes : w.color[m] = t.color[m]
    <3>1. \A m \in Nodes : w.color[m] = IF m = tmp THEN "black" ELSE t.color[m]
      BY <1>11, <1>16, <1>18 DEF Reworded, Rechilded
    <3>2. tmp \in Nodes => t.color[tmp] = "black"
      BY <1>4, <1>9, <2>1 DEF RedNode, Red, Colors
    <3>. QED  BY <3>1, <3>2
  <2>3. \A m \in Nodes : x.color[m] = IF m = sib THEN "black" ELSE t.color[m]
    BY <1>26, <1>28, <1>30, <2>2 DEF Reworded, Reparented
  <2>4. \A m \in Nodes : m # sib /\ m # k => v.color[m] = t.color[m]
    BY <1>13 DEF SwappedColors
  <2>5. p # sib /\ p # k /\ p \in Nodes
    BY <1>5, <1>7
  <2>6. \A m \in Nodes : u.color[m] = IF m = p THEN "black" ELSE IF m = k THEN x.color[p] ELSE x.color[m]
    BY <1>34 DEF RotatedColors
  <2>7. x.color[p] = v.color[p]
    BY <2>3, <2>4, <2>5
  <2>8. ASSUME NEW m \in Nodes
        PROVE  u.color[m] = IF m = sib \/ m = p THEN "black" ELSE IF m = k THEN v.color[p] ELSE v.color[m]
    <3>1. u.color[m] = IF m = p THEN "black" ELSE IF m = k THEN x.color[p] ELSE x.color[m]
      BY <2>6
    <3>2. x.color[m] = IF m = sib THEN "black" ELSE t.color[m]
      BY <2>3
    <3>3. m # sib /\ m # k => v.color[m] = t.color[m]
      BY <2>4
    <3>4. sib # k
      BY <1>7
    <3>. QED  BY <2>7, <3>1, <3>2, <3>3, <3>4
  <2>. QED  BY <2>8 DEF EraseCase4Colors
<1>36. RedNode(v, sib)
  BY <1>4, <1>7, <1>14 DEF RedNode
<1>37. PICK d, K : Erasing(v, T, d, K, n, p, s)
  BY <1>14
<1>38. Between(u, T, TurnedSpans(d, p, k, o), EraseCase4Heights(K, n, p, k, sib))
  BY <1>14, <1>34, <1>35, <1>36, <1>37, <1>0, EraseCase4Done
<1>. QED  BY <1>38

\* After EraseRotate the tree is in order and no call runs.
LEMMA EraseRotateDone ==
    ASSUME NodesAreKeys, NEW T, NEW b, NEW H, NEW s, Erasing(tree, T, b, H, node, parent, s), EraseRotate
    PROVE  \E d, K : Between(tree', T, d, K) /\ op' = "idle" /\ node' = NULL /\ parent' = NULL
<1>1. PICK c : c = EraseCase1
  OBVIOUS
<1>2. PICK t, n, p, sib : t = c.tree /\ n = node /\ p = parent /\ sib = c.sibling
  OBVIOUS
<1>3. sib = t.child[p][Other(s)] /\ ~Red(t, sib) /\ \E d, K : Erasing(t, T, d, K, n, p, s)
  BY <1>1, <1>2, EraseCase1Step
<1>4. PICK d, K : Erasing(t, T, d, K, n, p, s)
  BY <1>3
<1>5. side = s
  BY <1>2, ErasingSide DEF side
<1>6. PICK outer, inner : outer = t.child[sib][Other(s)] /\ inner = t.child[sib][s]
  OBVIOUS
<1>7. /\ ~BothBlack(t, sib)
      /\ IF RedNode(t, outer) THEN Done(EraseCase4(t, sib, outer, s))
         ELSE Done(EraseCase4(EraseCase3(t, sib, s), inner, sib, s))
  BY <1>1, <1>2, <1>5, <1>6 DEF EraseRotate
<1>8. CASE RedNode(t, outer)
  <2>1. PICK u : u = EraseCase4(t, sib, outer, s)
    OBVIOUS
  <2>2. Done(u)
    BY <1>7, <1>8, <2>1
  <2>3. Erasing(t, T, d, K, n, parent, s) /\ sib = t.child[parent][Other(s)]
    BY <1>2, <1>3, <1>4
  <2>4. \E e, L : Between(u, T, e, L)
    BY <1>3, <1>6, <1>8, <2>1, <2>3, EraseCase4Step
  <2>. QED  BY <2>2, <2>4 DEF Done
<1>9. CASE ~RedNode(t, outer)
  <2>1. PICK u : u = EraseCase4(EraseCase3(t, sib, s), inner, sib, s)
    OBVIOUS
  <2>2. Done(u)
    BY <1>7, <1>9, <2>1
  <2>3. RedNode(t, inner)
    <3>1. \E z \in Sides : RedNode(t, t.child[sib][z])
      BY <1>7 DEF BothBlack
    <3>2. s \in Sides
      BY <1>4 DEF Erasing
    <3>. QED  BY <1>6, <1>9, <3>1, <3>2 DEF Sides, Other
  <2>4. Erasing(t, T, d, K, n, parent, s)
    BY <1>2, <1>4
  <2>5. InnerIsRed(t, parent, s, sib, inner)
    BY <1>2, <1>3, <1>6, <1>9, <2>3 DEF InnerIsRed
  <2>6. \E e, L : Between(u, T, e, L)
    BY <2>1, <2>4, <2>5, EraseCase3Step
  <2>. QED  BY <2>2, <2>6 DEF Done
<1>. QED  BY <1>8, <1>9

-----------------------------------------------------------------------------
(* The calls: what is done before a loop begins.                           *)

\* The records have the fields Under and Above read.
LEMMA TreesAreTyped == ASSUME NEW t \in Trees PROVE Typed(t)
  BY DEF Trees, Typed, Colors

\* u is t without what n holds.
Emptied(t, u, n) ==
    /\ u \in Trees /\ u.root = t.root
    /\ \A x \in Nodes, z \in Sides : u.child[x][z] = IF x = n THEN NULL ELSE t.child[x][z]
    /\ \A x \in Nodes : x # n => u.parent[x] = t.parent[x] /\ u.color[x] = t.color[x]

\* Forget drops it.
LEMMA ForgetFields ==
    ASSUME NEW t \in Trees, NEW n \in Nodes PROVE Emptied(t, Forget(t, n), n)
<1>1. NoChildren \in [Sides -> Links] /\ \A z \in Sides : NoChildren[z] = NULL
  BY DEF NoChildren, Links
<1>2. "red" \in Colors /\ NULL \in Links
  BY DEF Colors, Links
<1>3. PICK u : u = Forget(t, n)
  OBVIOUS
<1>4. u \in Trees
  BY <1>1, <1>2, <1>3 DEF Forget, Trees
<1>5. u.root = t.root /\ u.child = [t.child EXCEPT ![n] = NoChildren]
      /\ u.parent = [t.parent EXCEPT ![n] = NULL] /\ u.color = [t.color EXCEPT ![n] = "red"]
  BY <1>3 DEF Forget, Trees
<1>6. \A x \in Nodes : /\ u.child[x] = IF x = n THEN NoChildren ELSE t.child[x]
                       /\ x # n => u.parent[x] = t.parent[x] /\ u.color[x] = t.color[x]
  BY <1>5 DEF Trees
<1>. QED  BY <1>1, <1>3, <1>4, <1>5, <1>6 DEF Emptied

\* After Insert(n) the loop of __rb_insert may begin.
LEMMA InsertStep ==
    ASSUME NodesAreKeys, NEW T, NEW b, NEW H, Between(tree, T, b, H), NEW n \in Nodes, Insert(n)
    PROVE  /\ n \notin T
           /\ \E c, K : Inserting(tree', T \cup {n}, c, K, node', parent')
           /\ op' = "insert"
<1>1. PICK t, p : t = tree /\ p = Place(t, n)
  OBVIOUS
<1>2. Standing(t, T, b, H) /\ Between(t, T, b, H)
  BY <1>1 DEF Between
<1>3. t \in Trees /\ T \in SUBSET Nodes /\ b \in Spans /\ Shape(t, T, b) /\ NULL \notin Nodes
  BY <1>2 DEF Standing, NodesAreKeys
<1>4. n \notin T
  <2>1. InTree = T
    BY <1>1, <1>3, TreesAreTyped, UnderRoot DEF InTree
  <2>. QED  BY <2>1 DEF Insert
<1>5. PICK u : u = rb_link_node(t, n, p)
  OBVIOUS
<1>6. tree' = u /\ parent' = p /\ node' = n /\ op' = "insert"
  BY <1>1, <1>5 DEF Insert
<1>7. PICK x : x = [t EXCEPT !.parent[n] = p, !.color[n] = "red", !.child[n] = NoChildren]
  OBVIOUS
<1>8. ASSUME p \in Links
      PROVE  /\ x \in Trees /\ x.root = t.root
             /\ \A m \in Nodes, z \in Sides : x.child[m][z] = IF m = n THEN NULL ELSE t.child[m][z]
             /\ \A m \in Nodes : /\ x.parent[m] = IF m = n THEN p ELSE t.parent[m]
                                 /\ x.color[m] = IF m = n THEN "red" ELSE t.color[m]
  <2>1. NoChildren \in [Sides -> Links] /\ (\A z \in Sides : NoChildren[z] = NULL) /\ "red" \in Colors
    BY DEF NoChildren, Links, Colors
  <2>2. x \in Trees
    BY <1>3, <1>7, <1>8, <2>1 DEF Trees
  <2>3. x.root = t.root /\ x.child = [t.child EXCEPT ![n] = NoChildren]
        /\ x.parent = [t.parent EXCEPT ![n] = p] /\ x.color = [t.color EXCEPT ![n] = "red"]
    BY <1>3, <1>7 DEF Trees
  <2>4. \A m \in Nodes : /\ x.child[m] = IF m = n THEN NoChildren ELSE t.child[m]
                         /\ x.parent[m] = IF m = n THEN p ELSE t.parent[m]
                         /\ x.color[m] = IF m = n THEN "red" ELSE t.color[m]
    BY <1>3, <2>3 DEF Trees
  <2>. QED  BY <2>1, <2>2, <2>3, <2>4
<1>9. CASE T = {}
  <2>1. p = NULL
    BY <1>1, <1>3, <1>9 DEF Shape, Rooted, Place
  <2>2. /\ x \in Trees
        /\ \A m \in Nodes, z \in Sides : x.child[m][z] = IF m = n THEN NULL ELSE t.child[m][z]
        /\ x.parent[n] = NULL /\ x.color[n] = "red"
    BY <1>8, <2>1 DEF Links
  <2>3. u = [x EXCEPT !.root = n]
    BY <1>5, <1>7, <2>1 DEF rb_link_node
  <2>4. u \in Trees /\ u.root = n /\ u.child = x.child /\ u.parent = x.parent /\ u.color = x.color
    BY <2>2, <2>3 DEF Trees, Links
  <2>5. \A m \in Nodes, z \in Sides : t.child[m][z] = NULL
    BY <1>3, <1>9 DEF Shape, Blank
  <2>6. \A m \in Nodes, z \in Sides : u.child[m][z] = NULL
    <3>1. u.child = x.child
      BY <2>4
    <3>2. \A m \in Nodes, z \in Sides : x.child[m][z] = NULL
      BY <2>2, <2>5
    <3>. QED  BY <3>1, <3>2
  <2>7. \E c, K : Inserting(u, {n}, c, K, n, NULL)
    BY <2>2, <2>4, <2>6, RootInserting
  <2>. QED  BY <1>4, <1>6, <1>9, <2>1, <2>7
<1>10. CASE T # {}
  <2>1. PICK s : s = LinkSide(n, p)
    OBVIOUS
  <2>2. s \in Sides
    BY <2>1 DEF LinkSide, Sides
  <2>3. p \in T /\ t.child[p][s] = NULL
        /\ IF s = "left" THEN b[p]["left"] < n /\ n < p ELSE p < n /\ n < b[p]["right"]
    BY <1>1, <1>3, <1>4, <1>10, <2>1, PlaceIs
  <2>4. p \in Links /\ p \in Nodes /\ p # NULL /\ p # n
    BY <1>3, <1>4, <2>3 DEF Links
  <2>5. u = SetChild(x, p, s, n)
    BY <1>5, <1>7, <2>1, <2>4 DEF rb_link_node, SetChild
  <2>6. x \in Trees /\ n \in Links
    BY <1>8, <2>4 DEF Links
  <2>7. Rechilded(x, u, p, s, n) /\ u.root = x.root
    BY <2>2, <2>4, <2>5, <2>6, SetChildFields
  <2>8. u \in Trees /\ Linked(t, u, n, p, s) /\ LinkedColors(t, u, n)
    BY <1>8, <2>4, <2>7 DEF Rechilded, Linked, LinkedColors
  <2>9. Inserting(u, T \cup {n}, LeafSpans(b, n, p, s), LinkedHeights(H, n), n, p)
    BY <1>2, <1>4, <2>2, <2>3, <2>8, LinkedInserting
  <2>. QED  BY <1>4, <1>6, <2>9
<1>. QED  BY <1>9, <1>10

\* x is t with c where n was a child.
Replaced(t, x, n, c) ==
    /\ x \in Trees /\ x.root = (IF n = t.root THEN c ELSE t.root) /\ x.parent = t.parent /\ x.color = t.color
    /\ \A m \in Nodes, z \in Sides : x.child[m][z] = IF t.child[m][z] = n THEN c ELSE t.child[m][z]

\* n is a child of none but its parent, and there on one side.
LEMMA OneParent ==
    ASSUME NodesAreKeys, NEW t, NEW T, NEW b, NEW H, Standing(t, T, b, H), NEW n \in T
    PROVE  /\ t.parent[n] \in Links /\ (t.parent[n] = NULL <=> n = t.root)
           /\ \A m \in Nodes, z \in Sides : t.child[m][z] = n => m = t.parent[n] /\ m # n /\ t.child[m][Other(z)] # n
           /\ t.parent[n] # NULL => t.parent[n] \in T /\ \E z \in Sides : t.child[t.parent[n]][z] = n
<1>1. T \in SUBSET Nodes /\ Shape(t, T, b) /\ NULL \notin T /\ NULL \notin Nodes
  BY DEF Standing, NodesAreKeys
<1>2. (t.parent[n] = NULL <=> n = t.root) /\ (n # t.root => t.parent[n] \in T)
  BY KidsAndRoot
<1>3. n # t.root => \E z \in Sides : t.child[t.parent[n]][z] = n
  BY KidsAndRoot
<1>4. Offspring(t, T)
  BY KidIs
<1>5. ASSUME NEW m \in Nodes, NEW z \in Sides, t.child[m][z] = n
      PROVE  m = t.parent[n] /\ m # n /\ t.child[m][Other(z)] # n
  <2>1. n # NULL
    BY <1>1
  <2>2. m \in T
    BY <1>1, <1>5, <2>1 DEF Shape, Blank
  <2>. QED  BY <1>4, <1>5, <2>1, <2>2 DEF Offspring
<1>. QED  BY <1>1, <1>2, <1>3, <1>5 DEF Links

\* __rb_change_child puts c where n was.
LEMMA ChangeChildReplaces ==
    ASSUME NodesAreKeys, NEW t, NEW T, NEW b, NEW H, Standing(t, T, b, H), NEW n \in T, NEW c \in Links
    PROVE  Replaced(t, change_child(t, n, c, t.parent[n]), n, c)
<1>1. PICK p : p = t.parent[n]
  OBVIOUS
<1>2. /\ p \in Links /\ (p = NULL <=> n = t.root)
      /\ \A m \in Nodes, z \in Sides : t.child[m][z] = n => m = p /\ t.child[m][Other(z)] # n
      /\ p # NULL => \E z \in Sides : t.child[p][z] = n
  BY <1>1, OneParent
<1>3. t \in Trees /\ NULL \notin Nodes
  BY DEF Standing, NodesAreKeys
<1>4. PICK x : x = change_child(t, n, c, p)
  OBVIOUS
<1>5. PICK s : s = IF t.child[p]["left"] = n THEN "left" ELSE "right"
  OBVIOUS
<1>6. Rechilded(t, x, p, s, c) /\ x.root = IF p = NULL THEN c ELSE t.root
  BY <1>2, <1>3, <1>4, <1>5, ChangeChildFields
<1>7. x \in Trees /\ x.parent = t.parent /\ x.color = t.color
  BY <1>6 DEF Rechilded
<1>8. x.root = (IF n = t.root THEN c ELSE t.root)
  BY <1>2, <1>6
<1>9. ASSUME NEW m \in Nodes, NEW z \in Sides
      PROVE  x.child[m][z] = IF t.child[m][z] = n THEN c ELSE t.child[m][z]
  <2>1. x.child[m][z] = IF m = p /\ z = s THEN c ELSE t.child[m][z]
    BY <1>6 DEF Rechilded
  <2>2. t.child[m][z] = n => m = p
    BY <1>2
  <2>3. m = p => (t.child[m][z] = n <=> z = s)
    <3>1. SUFFICES ASSUME m = p PROVE t.child[p][z] = n <=> z = s
      OBVIOUS
    <3>2. PICK y \in Sides : t.child[p][y] = n /\ t.child[p][Other(y)] # n
      BY <1>2, <1>3, <3>1
    <3>. QED  BY <1>5, <3>2 DEF Sides, Other
  <2>. QED  BY <2>1, <2>2, <2>3
<1>. QED  BY <1>1, <1>4, <1>7, <1>8, <1>9 DEF Replaced

\* Case 1 of __rb_erase_augmented takes n out and puts its child in its place.
LEMMA EraseOneChildFields ==
    ASSUME NodesAreKeys, NEW t, NEW T, NEW b, NEW H, Standing(t, T, b, H), NEW n \in T,
           NEW z \in Sides, NEW c, c = t.child[n][z],
           NEW u, u = Forget(EraseOneChild(t, n, c).tree, n)
    PROVE  /\ u \in Trees /\ Removed(t, u, T, n, c) /\ SplicedColors(t, u, n, c)
           /\ EraseOneChild(t, n, c).rebalance = IF c # NULL \/ Red(t, n) THEN NULL ELSE t.parent[n]
<1>1. t \in Trees /\ T \subseteq Nodes /\ NULL \notin Nodes /\ n \in Nodes
  BY DEF Standing, NodesAreKeys
<1>2. Offspring(t, T)
  BY KidIs
<1>3. c \in Links /\ c # n
  BY <1>1, <1>2 DEF Offspring
<1>4. PICK x : x = change_child(t, n, c, t.parent[n])
  OBVIOUS
<1>5. Replaced(t, x, n, c)
  BY <1>3, <1>4, ChangeChildReplaces
<1>6. x \in Trees /\ x.parent = t.parent /\ x.color = t.color
  BY <1>5 DEF Replaced
<1>7. PICK y : y = EraseOneChild(t, n, c).tree
  OBVIOUS
<1>8. y = IF c # NULL THEN CopyParentColor(x, n, c) ELSE x
  BY <1>4, <1>7 DEF EraseOneChild, Result
<1>9. Reworded(x, y, c, x.parent[n], x.color[n])
  <2>1. CASE c # NULL
    <3>1. c \in Nodes
      BY <1>3, <2>1 DEF Links
    <3>. QED  BY <1>1, <1>6, <1>8, <2>1, <3>1, CopyParentColorFields
  <2>2. CASE c = NULL
    BY <1>1, <1>6, <1>8, <2>2 DEF Reworded
  <2>. QED  BY <2>1, <2>2
<1>10. y \in Trees
  BY <1>9 DEF Reworded
<1>11. Emptied(y, u, n)
  BY <1>1, <1>7, <1>10, ForgetFields
<1>12. u \in Trees
  BY <1>11 DEF Emptied
<1>13. Removed(t, u, T, n, c)
  <2>1. u.root = IF n = t.root THEN c ELSE t.root
    BY <1>5, <1>9, <1>11 DEF Replaced, Reworded, Emptied
  <2>2. \A m \in Nodes, s \in Sides :
          u.child[m][s] = IF m = n THEN NULL ELSE IF t.child[m][s] = n THEN c ELSE t.child[m][s]
    BY ONLY <1>5, <1>9, <1>11 DEF Replaced, Reworded, Emptied
  <2>3. \A m \in T : m # n => u.parent[m] = IF m = c THEN t.parent[n] ELSE t.parent[m]
    BY ONLY <1>1, <1>6, <1>9, <1>11 DEF Reworded, Emptied
  <2>. QED  BY <2>1, <2>2, <2>3 DEF Removed
<1>14. SplicedColors(t, u, n, c)
  BY ONLY <1>6, <1>9, <1>11 DEF Reworded, Emptied, SplicedColors
<1>15. EraseOneChild(t, n, c).rebalance = IF c # NULL \/ Red(t, n) THEN NULL ELSE t.parent[n]
  BY DEF EraseOneChild, Result
<1>. QED  BY <1>12, <1>13, <1>14, <1>15

\* k is the successor of n, left and right are the children of n, q the parent and c the child of k.
Successor(t, T, n, left, right, k, q, c) ==
    /\ left = t.child[n]["left"] /\ right = t.child[n]["right"] /\ left \in T /\ right \in T
    /\ left # right /\ left # n /\ right # n
    /\ k \in T /\ k # n /\ k # left /\ k # t.root /\ q = t.parent[k] /\ q \in T /\ q # k
    /\ q = n <=> k = right
    /\ k # right => t.child[q]["left"] = k
    /\ t.child[k]["left"] = NULL /\ c = t.child[k]["right"] /\ c \in Links
    /\ n < k /\ \A a \in T : a <= n \/ k <= a

\* The child that the successor may have is red, since its other child is missing.
SuccessorKid(t, T, n, left, right, k, c) ==
    c # NULL => c \in T /\ t.parent[c] = k /\ Red(t, c) /\ ~Red(t, k) /\ c # n /\ c # k /\ c # left /\ c # right

\* The leftmost node under the right child is the successor.
LEMMA SuccessorIs ==
    ASSUME NodesAreKeys, NEW t, NEW T, NEW b, NEW H, Between(t, T, b, H), NEW n \in T,
           NEW left, left = t.child[n]["left"], left # NULL, NEW right, right = t.child[n]["right"], right # NULL,
           NEW k, k = Furthest(t, right, "left"), NEW q, q = t.parent[k], NEW c, c = t.child[k]["right"]
    PROVE  Successor(t, T, n, left, right, k, q, c) /\ SuccessorKid(t, T, n, left, right, k, c)
<1>1. Standing(t, T, b, H) /\ Balanced(t, T, H, NULL, "left") /\ RedsApart(t, T, NULL)
  BY DEF Between
<1>2. t \in Trees /\ T \in SUBSET Nodes /\ b \in Spans /\ Shape(t, T, b) /\ NULL \notin T /\ T \subseteq Int
  BY <1>1 DEF Standing, NodesAreKeys
<1>3. Offspring(t, T) /\ Narrowing(t, T, b) /\ "left" \in Sides /\ "right" \in Sides
      /\ Other("left") = "right" /\ Other("right") = "left"
  BY <1>1, <1>2, KidIs, KidNarrower DEF Sides, Other
<1>4. left \in T /\ right \in T /\ left # right /\ left # n /\ right # n /\ t.parent[right] = n
  BY <1>3 DEF Offspring
<1>5. b[right]["left"] = n /\ b[left]["right"] = n
  BY <1>3, <1>4 DEF Narrowing
<1>6. k \in T /\ t.child[k]["left"] = NULL /\ b[k]["left"] = n
  BY <1>2, <1>3, <1>4, <1>5, FurthestIs DEF FarEnd
<1>7. b[k]["left"] < k /\ left < b[left]["right"] /\ \A a \in T : a <= b[k]["left"] \/ k <= a
  BY <1>2, <1>4, <1>6 DEF Shape, Around, Gaps
<1>8. n < k /\ left < n /\ \A a \in T : a <= n \/ k <= a
  BY <1>5, <1>6, <1>7
<1>9. n \in Int /\ k \in Int /\ left \in Int
  BY <1>2, <1>4, <1>6
<1>10. k # n /\ k # left
  BY <1>8, <1>9
<1>11. k # t.root
  <2>1. b[t.root]["left"] < n
    BY <1>2, <1>4 DEF Shape, Rooted
  <2>. QED  BY <1>6, <1>9, <2>1
<1>12. q \in T /\ \E z \in Sides : t.child[q][z] = k
  BY <1>1, <1>6, <1>11, KidsAndRoot
<1>13. q # k
  BY <1>2, <1>3, <1>6, <1>12 DEF Offspring
<1>14. t.child[q]["right"] = k => q = n
  <2>1. k # NULL
    BY <1>2, <1>6
  <2>2. t.child[q]["right"] = k => b[k]["left"] = q
    BY ONLY <1>3, <1>12, <2>1 DEF Narrowing
  <2>. QED  BY <1>6, <2>2
<1>15. q = n <=> k = right
  <2>1. q = n => k = left \/ k = right
    BY <1>12 DEF Sides
  <2>. QED  BY <1>4, <1>10, <2>1
<1>16. k # right => t.child[q]["left"] = k
  BY <1>12, <1>14, <1>15 DEF Sides
<1>17. c \in Links
  BY <1>3, <1>6 DEF Offspring
<1>18. Successor(t, T, n, left, right, k, q, c)
  BY <1>4, <1>6, <1>8, <1>10, <1>11, <1>12, <1>13, <1>15, <1>16, <1>17 DEF Successor
<1>19. ASSUME c # NULL
       PROVE  c \in T /\ t.parent[c] = k /\ Red(t, c) /\ ~Red(t, k) /\ c # n /\ c # k /\ c # left /\ c # right
  <2>1. c \in T /\ t.parent[c] = k /\ c # k
    BY <1>3, <1>6, <1>19 DEF Offspring
  <2>2. H[k] = Black(t, k)
    <3>1. Levels(t, T, H, NULL, "left")
      BY <1>1, HeightIs
    <3>2. H[k] = HeightOf(H, t.child[k]["left"]) + Black(t, k)
      BY <1>2, <1>3, <1>6, <3>1 DEF Levels
    <3>3. HeightOf(H, t.child[k]["left"]) = 0 /\ Black(t, k) \in Nat
      BY <1>6 DEF HeightOf, Black
    <3>. QED  BY <3>2, <3>3
  <2>3. H[k] = H[c] + Black(t, k)
    <3>1. Levels(t, T, H, NULL, "left")
      BY <1>1, HeightIs
    <3>2. H[k] = HeightOf(H, t.child[k]["right"]) + Black(t, k)
      BY <1>2, <1>3, <1>6, <3>1 DEF Levels
    <3>. QED  BY <1>19, <3>2 DEF HeightOf
  <2>4. H[c] \in Nat /\ Black(t, k) \in Nat /\ Black(t, c) \in Nat
    BY <1>1, <1>2, <2>1 DEF Standing, Heights, Black
  <2>5. H[c] = 0
    BY <2>2, <2>3, <2>4
  <2>6. Red(t, c)
    <3>1. Levels(t, T, H, NULL, "left")
      BY <1>1, HeightIs
    <3>2. H[c] = HeightOf(H, t.child[c]["left"]) + Black(t, c) /\ HeightOf(H, t.child[c]["left"]) \in Nat
      BY <1>2, <1>3, <2>1, <3>1 DEF Levels
    <3>. QED  BY <2>4, <2>5, <3>2 DEF Black
  <2>7. ~Red(t, k)
    BY <1>1, <1>2, <1>3, <1>6, <1>19, <2>6 DEF RedsApart, RedNode, Red
  <2>8. k < c
    <3>1. b[c]["left"] = k
      BY <1>3, <1>6, <1>19 DEF Narrowing
    <3>2. b[c]["left"] < c
      BY <1>2, <2>1 DEF Shape, Around
    <3>. QED  BY <3>1, <3>2
  <2>9. c # n /\ c # left
    BY <1>2, <1>8, <1>9, <2>1, <2>8
  <2>10. c # right
    BY <1>4, <1>10, <2>1
  <2>. QED  BY <2>1, <2>6, <2>7, <2>9, <2>10
<1>. QED  BY <1>18, <1>19 DEF SuccessorKid

\* u is t with k in the place of n, and c in the place of k.
Exchanged(t, u, n, left, right, k, q, c) ==
    /\ u \in Trees /\ u.root = (IF n = t.root THEN k ELSE t.root)
    /\ \A m \in Nodes, z \in Sides :
         u.child[m][z] = IF m = n THEN NULL ELSE IF t.child[m][z] = n THEN k
                         ELSE IF m = k /\ z = "left" THEN left
                         ELSE IF k # right /\ m = k /\ z = "right" THEN right
                         ELSE IF k # right /\ m = q /\ z = "left" THEN c ELSE t.child[m][z]
    /\ \A m \in Nodes : m # n =>
         /\ u.parent[m] = IF m = k THEN t.parent[n] ELSE IF m = c THEN IF k = right THEN k ELSE q
                          ELSE IF m = left \/ m = right THEN k ELSE t.parent[m]
         /\ u.color[m] = IF m = k THEN t.color[n] ELSE IF m = c THEN "black" ELSE t.color[m]

\* EraseTwoChildren with its local variables as arguments.
SpliceOut(t, right, k, c, p) ==
    IF k = right THEN t
    ELSE rb_set_parent([t EXCEPT !.child[p].left = c, !.child[k].right = right], right, k)
TakeLeft(t, left, k) == rb_set_parent([t EXCEPT !.child[k].left = left], left, k)
Exchange(t, n, left, right, k, c, p) ==
    LET t2 == TakeLeft(SpliceOut(t, right, k, c, p), left, k)
        t3 == SetBlackIfAny(change_child(t2, n, k, t.parent[n]), c, p)
    IN  Result(CopyParentColor(t3, n, k), IF c # NULL \/ Red(t, k) THEN NULL ELSE p)

\* Cases 2 and 3 of __rb_erase_augmented exchange n for its successor.
LEMMA EraseTwoChildrenFields ==
    ASSUME NodesAreKeys, NEW t, NEW T, NEW b, NEW H, Standing(t, T, b, H), NEW n \in T,
           NEW left, NEW right, NEW k, k = Furthest(t, right, "left"), NEW q, NEW c,
           Successor(t, T, n, left, right, k, q, c), SuccessorKid(t, T, n, left, right, k, c),
           NEW u, u = Forget(EraseTwoChildren(t, n).tree, n)
    PROVE  /\ Exchanged(t, u, n, left, right, k, q, c)
           /\ EraseTwoChildren(t, n).rebalance
                = IF c # NULL \/ Red(t, k) THEN NULL ELSE IF k = right THEN k ELSE q
<1>1. t \in Trees /\ T \subseteq Nodes /\ NULL \notin Nodes /\ n \in Nodes
  BY DEF Standing, NodesAreKeys
<1>2. /\ left = t.child[n]["left"] /\ right = t.child[n]["right"] /\ left \in Nodes /\ right \in Nodes
      /\ left # n /\ right # n /\ k \in Nodes /\ k # n /\ k # left /\ q = t.parent[k] /\ q \in Nodes /\ q # k
      /\ (k # right => t.child[q]["left"] = k) /\ t.child[k]["left"] = NULL /\ c = t.child[k]["right"] /\ c \in Links
      /\ left # right
  BY <1>1 DEF Successor
<1>3. c # n /\ c # k /\ c # left /\ c # right
  BY <1>1, <1>2 DEF SuccessorKid
<1>4. PICK p : p = IF k = right THEN k ELSE q
  OBVIOUS
<1>5. p \in Nodes /\ p \in Links /\ "left" \in Sides /\ "right" \in Sides /\ "left" # "right"
      /\ left \in Links /\ right \in Links /\ k \in Links
  BY <1>2, <1>4 DEF Sides, Links
<1>6. PICK pp : pp = t.parent[n]
  OBVIOUS
<1>7. /\ pp \in Links /\ (pp = NULL <=> n = t.root)
      /\ \A m \in Nodes, z \in Sides : t.child[m][z] = n => m = pp /\ m # n /\ t.child[m][Other(z)] # n
      /\ pp # NULL => pp \in T /\ \E z \in Sides : t.child[pp][z] = n
  BY <1>6, OneParent
<1>8. PICK y1 : y1 = SetChild(t, q, "left", c)
  OBVIOUS
<1>9. Rechilded(t, y1, q, "left", c) /\ y1.root = t.root
  <2>1. t \in Trees /\ q \in Nodes /\ "left" \in Sides /\ c \in Links
    BY <1>1, <1>2, <1>5
  <2>. QED  BY <1>8, <2>1, SetChildFields
<1>10. y1 \in Trees
  BY <1>9 DEF Rechilded
<1>11. PICK y2 : y2 = SetChild(y1, k, "right", right)
  OBVIOUS
<1>12. Rechilded(y1, y2, k, "right", right) /\ y2.root = y1.root
  BY <1>2, <1>5, <1>10, <1>11, SetChildFields
<1>13. y2 \in Trees
  BY <1>12 DEF Rechilded
<1>14. PICK y3 : y3 = rb_set_parent(y2, right, k)
  OBVIOUS
<1>15. Reparented(y2, y3, right, k)
  BY <1>2, <1>5, <1>13, <1>14, SetParentFields
<1>16. PICK t1 : t1 = IF k = right THEN t ELSE y3
  OBVIOUS
<1>17. /\ t1 \in Trees /\ t1.root = t.root /\ t1.color = t.color
       /\ \A m \in Nodes, z \in Sides :
            t1.child[m][z] = IF k # right /\ m = k /\ z = "right" THEN right
                             ELSE IF k # right /\ m = q /\ z = "left" THEN c ELSE t.child[m][z]
       /\ \A m \in Nodes : t1.parent[m] = IF k # right /\ m = right THEN k ELSE t.parent[m]
  <2>1. CASE k = right
    BY <1>1, <1>16, <2>1
  <2>2. CASE k # right
    BY <1>9, <1>12, <1>15, <1>16, <2>2 DEF Rechilded, Reparented
  <2>. QED  BY <2>1, <2>2
<1>18. PICK y4 : y4 = SetChild(t1, k, "left", left)
  OBVIOUS
<1>19. Rechilded(t1, y4, k, "left", left) /\ y4.root = t1.root
  BY <1>2, <1>5, <1>17, <1>18, SetChildFields
<1>20. y4 \in Trees
  BY <1>19 DEF Rechilded
<1>21. PICK t2 : t2 = rb_set_parent(y4, left, k)
  OBVIOUS
<1>22. Reparented(y4, t2, left, k)
  BY <1>2, <1>5, <1>20, <1>21, SetParentFields
<1>23. /\ t2 \in Trees /\ t2.root = t.root /\ t2.color = t.color
       /\ \A m \in Nodes, z \in Sides :
            t2.child[m][z] = IF m = k /\ z = "left" THEN left
                             ELSE IF k # right /\ m = k /\ z = "right" THEN right
                             ELSE IF k # right /\ m = q /\ z = "left" THEN c ELSE t.child[m][z]
       /\ \A m \in Nodes : t2.parent[m] = IF m = left THEN k ELSE IF k # right /\ m = right THEN k ELSE t.parent[m]
  <2>1. t2 \in Trees /\ t2.root = t.root /\ t2.color = t.color
    BY <1>17, <1>19, <1>22 DEF Rechilded, Reparented
  <2>2. t2.child = y4.child /\ y4.parent = t1.parent
    BY <1>19, <1>22 DEF Rechilded, Reparented
  <2>3. \A m \in Nodes, z \in Sides : y4.child[m][z] = IF m = k /\ z = "left" THEN left ELSE t1.child[m][z]
    BY <1>19 DEF Rechilded
  <2>4. \A m \in Nodes : t2.parent[m] = IF m = left THEN k ELSE t1.parent[m]
    BY <1>22, <2>2 DEF Reparented
  <2>. QED  BY <1>17, <2>1, <2>2, <2>3, <2>4
<1>24. PICK y5 : y5 = change_child(t2, n, k, pp)
  OBVIOUS
<1>25. PICK s : s = IF t2.child[pp]["left"] = n THEN "left" ELSE "right"
  OBVIOUS
<1>26. Rechilded(t2, y5, pp, s, k) /\ y5.root = IF pp = NULL THEN k ELSE t2.root
  BY <1>1, <1>5, <1>7, <1>23, <1>24, <1>25, ChangeChildFields
<1>27. \A m \in Nodes, z \in Sides : t2.child[m][z] = n <=> t.child[m][z] = n
  BY <1>1, <1>2, <1>3, <1>23
<1>28. ASSUME NEW m \in Nodes, NEW z \in Sides
       PROVE  y5.child[m][z] = IF t.child[m][z] = n THEN k ELSE t2.child[m][z]
  <2>1. y5.child[m][z] = IF m = pp /\ z = s THEN k ELSE t2.child[m][z]
    BY <1>26 DEF Rechilded
  <2>2. t.child[m][z] = n => m = pp
    BY <1>7
  <2>3. m = pp => (t.child[m][z] = n <=> z = s)
    <3>1. SUFFICES ASSUME m = pp PROVE t.child[pp][z] = n <=> z = s
      OBVIOUS
    <3>2. PICK y \in Sides : t.child[pp][y] = n /\ t.child[pp][Other(y)] # n
      BY <1>1, <1>7, <3>1
    <3>3. s = IF t.child[pp]["left"] = n THEN "left" ELSE "right"
      BY <1>5, <1>25, <1>27, <3>1
    <3>. QED  BY <3>2, <3>3 DEF Sides, Other
  <2>. QED  BY <2>1, <2>2, <2>3
<1>29. y5 \in Trees /\ y5.parent = t2.parent /\ y5.color = t2.color
  BY <1>26 DEF Rechilded
<1>30. PICK t3 : t3 = SetBlackIfAny(y5, c, p)
  OBVIOUS
<1>31. Reworded(y5, t3, c, p, "black")
  BY <1>1, <1>2, <1>5, <1>29, <1>30, SetBlackIfAnyFields
<1>32. t3 \in Trees /\ t3.root = y5.root /\ t3.child = y5.child
  BY <1>31 DEF Reworded
<1>33. PICK t4 : t4 = CopyParentColor(t3, n, k)
  OBVIOUS
<1>34. Reworded(t3, t4, k, t3.parent[n], t3.color[n])
  BY <1>1, <1>2, <1>32, <1>33, CopyParentColorFields
<1>35. t4 \in Trees /\ t4.root = t3.root /\ t4.child = t3.child
  BY <1>34 DEF Reworded
<1>36. t4 = EraseTwoChildren(t, n).tree
       /\ EraseTwoChildren(t, n).rebalance = IF c # NULL \/ Red(t, k) THEN NULL ELSE p
  <2>1. SpliceOut(t, right, k, c, p) = t1
    <3>1. y2 = [t EXCEPT !.child[q].left = c, !.child[k].right = right]
      BY <1>8, <1>11 DEF SetChild
    <3>. QED  BY <1>4, <1>14, <1>16, <3>1 DEF SpliceOut
  <2>2. TakeLeft(t1, left, k) = t2
    BY <1>18, <1>21 DEF SetChild, TakeLeft
  <2>3. Exchange(t, n, left, right, k, c, p)
          = Result(CopyParentColor(t3, n, k), IF c # NULL \/ Red(t, k) THEN NULL ELSE p)
    BY <1>6, <1>24, <1>30, <2>1, <2>2 DEF Exchange
  <2>4. t.child[n]["left"] = left /\ t.child[n]["right"] = right /\ t.child[k]["right"] = c /\ t.parent[k] = q
        /\ Furthest(t, right, "left") = k
    BY <1>2
  <2>5. EraseTwoChildren(t, n)
          = Exchange(t, n, t.child[n]["left"], t.child[n]["right"], Furthest(t, t.child[n]["right"], "left"),
                     t.child[Furthest(t, t.child[n]["right"], "left")]["right"],
                     IF Furthest(t, t.child[n]["right"], "left") = t.child[n]["right"]
                     THEN Furthest(t, t.child[n]["right"], "left")
                     ELSE t.parent[Furthest(t, t.child[n]["right"], "left")])
    BY DEF EraseTwoChildren, Exchange, SpliceOut, TakeLeft
  <2>6. EraseTwoChildren(t, n) = Exchange(t, n, left, right, k, c, p)
    BY <1>4, <2>4, <2>5
  <2>. QED  BY <1>33, <2>3, <2>6 DEF Result
<1>37. Emptied(t4, u, n)
  BY <1>1, <1>35, <1>36, ForgetFields
<1>38. u \in Trees /\ u.root = (IF n = t.root THEN k ELSE t.root)
  BY <1>7, <1>23, <1>26, <1>32, <1>35, <1>37 DEF Emptied
<1>39. ASSUME NEW m \in Nodes, NEW z \in Sides
       PROVE  u.child[m][z] = IF m = n THEN NULL ELSE IF t.child[m][z] = n THEN k
                              ELSE IF m = k /\ z = "left" THEN left
                              ELSE IF k # right /\ m = k /\ z = "right" THEN right
                              ELSE IF k # right /\ m = q /\ z = "left" THEN c ELSE t.child[m][z]
  <2>1. u.child[m][z] = IF m = n THEN NULL ELSE y5.child[m][z]
    BY <1>32, <1>35, <1>37 DEF Emptied
  <2>. QED  BY <1>23, <1>28, <2>1
<1>40. t3.parent[n] = t.parent[n] /\ t3.color[n] = t.color[n]
  <2>1. t3.parent[n] = y5.parent[n] /\ t3.color[n] = y5.color[n]
    BY <1>1, <1>3, <1>31 DEF Reworded
  <2>. QED  BY <1>1, <1>2, <1>23, <1>29, <2>1
<1>41. ASSUME NEW m \in Nodes, m # n
       PROVE  /\ u.parent[m] = IF m = k THEN t.parent[n] ELSE IF m = c THEN IF k = right THEN k ELSE q
                               ELSE IF m = left \/ m = right THEN k ELSE t.parent[m]
              /\ u.color[m] = IF m = k THEN t.color[n] ELSE IF m = c THEN "black" ELSE t.color[m]
  <2>1. u.parent[m] = t4.parent[m] /\ u.color[m] = t4.color[m]
    BY <1>37, <1>41 DEF Emptied
  <2>2. /\ t4.parent[m] = IF m = k THEN t.parent[n] ELSE t3.parent[m]
        /\ t4.color[m] = IF m = k THEN t.color[n] ELSE t3.color[m]
    BY <1>34, <1>40 DEF Reworded
  <2>3. t3.parent[m] = (IF m = c THEN p ELSE t2.parent[m]) /\ t3.color[m] = IF m = c THEN "black" ELSE t.color[m]
    BY <1>23, <1>29, <1>31 DEF Reworded
  <2>4. t2.parent[m] = IF m = left THEN k ELSE IF k # right /\ m = right THEN k ELSE t.parent[m]
    BY <1>23
  <2>. QED  BY <1>4, <2>1, <2>2, <2>3, <2>4
<1>42. Exchanged(t, u, n, left, right, k, q, c)
  BY <1>38, <1>39, <1>41 DEF Exchanged
<1>. QED  BY <1>4, <1>36, <1>42

\* Taking n out by way of its successor is taking out the successor k, and then writing k for n.
LEMMA ExchangedRelabels ==
    ASSUME NodesAreKeys, NEW t, NEW T, NEW b, NEW H, Standing(t, T, b, H), NEW n \in T,
           NEW left, NEW right, NEW k, NEW q, NEW c,
           Successor(t, T, n, left, right, k, q, c), SuccessorKid(t, T, n, left, right, k, c),
           NEW u, Exchanged(t, u, n, left, right, k, q, c),
           NEW v, Removed(t, v, T, k, c), SplicedColors(t, v, k, c)
    PROVE  Relabelled(v, u, T \ {k}, n, k) /\ RelabelledColors(v, u, n, k)
<1>1. t \in Trees /\ T \subseteq Nodes /\ NULL \notin Nodes /\ n \in Nodes
  BY DEF Standing, NodesAreKeys
<1>2. /\ left = t.child[n]["left"] /\ right = t.child[n]["right"] /\ left \in T /\ right \in T
      /\ left # n /\ right # n /\ k \in T /\ k # n /\ k # left /\ q = t.parent[k] /\ q \in T /\ q # k /\ k # t.root
      /\ (q = n <=> k = right) /\ (k # right => t.child[q]["left"] = k)
      /\ t.child[k]["left"] = NULL /\ c = t.child[k]["right"] /\ left # right
  BY DEF Successor
<1>3. c # n /\ c # k /\ c # left /\ c # right /\ n # NULL /\ k # NULL
  BY <1>1, <1>2 DEF SuccessorKid
<1>4. Offspring(t, T) /\ "left" \in Sides /\ "right" \in Sides /\ "left" # "right"
  BY KidIs DEF Sides
<1>5. t.parent[left] = n /\ t.parent[right] = n
  BY <1>1, <1>2, <1>4 DEF Offspring
<1>6. \A m \in Nodes, z \in Sides : t.child[m][z] = k => m = q /\ t.child[m][Other(z)] # k
  BY <1>2, OneParent
<1>7. /\ v.root = t.root
      /\ \A m \in Nodes, z \in Sides :
           v.child[m][z] = IF m = k THEN NULL ELSE IF t.child[m][z] = k THEN c ELSE t.child[m][z]
      /\ \A m \in T : m # k => v.parent[m] = IF m = c THEN q ELSE t.parent[m]
      /\ \A m \in Nodes : m # k => v.color[m] = IF m = c THEN t.color[k] ELSE t.color[m]
  BY <1>2 DEF Removed, SplicedColors
<1>8. u.root = IF v.root = n THEN k ELSE v.root
  BY <1>7 DEF Exchanged
<1>9. ASSUME NEW m \in Nodes, NEW z \in Sides
      PROVE  u.child[m][z] = IF m = n THEN NULL
                             ELSE LET d == v.child[IF m = k THEN n ELSE m][z] IN IF d = n THEN k ELSE d
  <2>1. u.child[m][z] = IF m = n THEN NULL ELSE IF t.child[m][z] = n THEN k
                        ELSE IF m = k /\ z = "left" THEN left
                        ELSE IF k # right /\ m = k /\ z = "right" THEN right
                        ELSE IF k # right /\ m = q /\ z = "left" THEN c ELSE t.child[m][z]
    BY DEF Exchanged
  <2>2. CASE m = n
    BY <2>1, <2>2
  <2>3. CASE m = k
    <3>1. v.child[n][z] = IF t.child[n][z] = k THEN c ELSE t.child[n][z]
      BY <1>1, <1>2, <1>7
    <3>2. t.child[k][z] # n
      BY <1>2, <1>3 DEF Sides
    <3>3. CASE z = "left"
      BY <1>2, <2>1, <2>3, <3>1, <3>2, <3>3
    <3>4. CASE z = "right"
      BY <1>2, <1>3, <1>4, <2>1, <2>3, <3>1, <3>2, <3>4
    <3>. QED  BY <3>3, <3>4 DEF Sides
  <2>4. CASE m # n /\ m # k
    <3>1. v.child[m][z] = IF t.child[m][z] = k THEN c ELSE t.child[m][z]
      BY <1>7, <2>4
    <3>2. t.child[m][z] = k <=> k # right /\ m = q /\ z = "left"
      <4>1. t.child[m][z] = k => m = q /\ k # right
        BY <1>2, <1>6, <2>4
      <4>2. k # right => t.child[q]["left"] = k /\ t.child[q]["right"] # k
        BY <1>1, <1>2, <1>4, <1>6 DEF Other
      <4>. QED  BY <4>1, <4>2 DEF Sides
    <3>. QED  BY <1>2, <1>3, <2>1, <2>4, <3>1, <3>2
  <2>. QED  BY <2>2, <2>3, <2>4
<1>10. \A m \in Nodes : m # n =>
         /\ u.parent[m] = IF m = k THEN t.parent[n] ELSE IF m = c THEN IF k = right THEN k ELSE q
                          ELSE IF m = left \/ m = right THEN k ELSE t.parent[m]
         /\ u.color[m] = IF m = k THEN t.color[n] ELSE IF m = c THEN "black" ELSE t.color[m]
  BY DEF Exchanged
<1>11. u.parent[k] = v.parent[n]
  BY <1>1, <1>2, <1>3, <1>7, <1>10
<1>12. ASSUME NEW m \in T, m # k, m # n
       PROVE  u.parent[m] = IF v.parent[m] = n THEN k ELSE v.parent[m]
  <2>1. m \in Nodes
    BY <1>1
  <2>2. u.parent[m] = IF m = c THEN IF k = right THEN k ELSE q
                      ELSE IF m = left \/ m = right THEN k ELSE t.parent[m]
    BY <1>10, <1>12, <2>1
  <2>3. v.parent[m] = IF m = c THEN q ELSE t.parent[m]
    BY <1>7, <1>12
  <2>4. t.parent[m] = n => m = left \/ m = right
    <3>1. SUFFICES ASSUME t.parent[m] = n PROVE m = left \/ m = right
      OBVIOUS
    <3>2. \E z \in Sides : t.child[n][z] = m
      BY <1>3, <3>1, OneParent
    <3>. QED  BY <1>2, <3>2 DEF Sides
  <2>5. CASE m = c
    BY <1>2, <2>2, <2>3, <2>5
  <2>6. CASE m # c
    BY <1>5, <2>2, <2>3, <2>4, <2>6
  <2>. QED  BY <2>5, <2>6
<1>13. Relabelled(v, u, T \ {k}, n, k)
  BY <1>8, <1>9, <1>11, <1>12 DEF Relabelled
<1>14. RelabelledColors(v, u, n, k)
  <2>1. SUFFICES ASSUME NEW m \in Nodes, m # n PROVE u.color[m] = IF m = k THEN v.color[n] ELSE v.color[m]
    BY DEF RelabelledColors
  <2>2. u.color[m] = IF m = k THEN t.color[n] ELSE IF m = c THEN "black" ELSE t.color[m]
    BY <1>10, <2>1
  <2>3. v.color[n] = t.color[n]
    BY <1>1, <1>2, <1>3, <1>7
  <2>4. m # k => v.color[m] = IF m = c THEN t.color[k] ELSE t.color[m]
    BY <1>7
  <2>5. m = c => t.color[k] = "black"
    <3>1. SUFFICES ASSUME m = c PROVE t.color[k] = "black"
      OBVIOUS
    <3>2. ~Red(t, k)
      BY <1>1, <2>1, <3>1 DEF SuccessorKid
    <3>. QED  BY <1>1, <1>2, <3>2 DEF Trees, Colors, Red
  <2>. QED  BY <2>2, <2>3, <2>4, <2>5
<1>. QED  BY <1>13, <1>14

\* What case 1 of __rb_erase_augmented hands to the loop.
LEMMA EraseOneChildOutcome ==
    ASSUME NodesAreKeys, NEW t, NEW T, NEW b, NEW H, Between(t, T, b, H), NEW n \in T,
           NEW z \in Sides, NEW c, c = t.child[n][Other(z)], t.child[n][z] = NULL,
           NEW u, u = Forget(EraseOneChild(t, n, c).tree, n),
           NEW r, r = EraseOneChild(t, n, c).rebalance
    PROVE  \E d, K : Outcome(u, T \ {n}, d, K, r)
<1>1. Standing(t, T, b, H)
  BY DEF Between
<1>2. PICK o \in Sides : o = Other(z)
  BY DEF Sides, Other
<1>3. /\ u \in Trees /\ Removed(t, u, T, n, c) /\ SplicedColors(t, u, n, c)
      /\ r = IF c # NULL \/ Red(t, n) THEN NULL ELSE t.parent[n]
  BY <1>1, <1>2, EraseOneChildFields
<1>4. Outcome(u, T \ {n}, SplicedSpans(b, n), SplicedHeights(H, n, c), r)
  BY <1>3, RemovedOutcome
<1>. QED  BY <1>4

\* What cases 2 and 3 of __rb_erase_augmented hand to the loop.
LEMMA EraseTwoChildrenOutcome ==
    ASSUME NodesAreKeys, NEW t, NEW T, NEW b, NEW H, Between(t, T, b, H), NEW n \in T,
           t.child[n]["left"] # NULL, t.child[n]["right"] # NULL,
           NEW u, u = Forget(EraseTwoChildren(t, n).tree, n),
           NEW r, r = EraseTwoChildren(t, n).rebalance
    PROVE  \E d, K : Outcome(u, T \ {n}, d, K, r)
<1>1. Standing(t, T, b, H)
  BY DEF Between
<1>2. PICK left, right : left = t.child[n]["left"] /\ right = t.child[n]["right"] /\ left # NULL /\ right # NULL
  OBVIOUS
<1>3. PICK k : k = Furthest(t, right, "left")
  OBVIOUS
<1>4. PICK q, c : q = t.parent[k] /\ c = t.child[k]["right"]
  OBVIOUS
<1>5. Successor(t, T, n, left, right, k, q, c) /\ SuccessorKid(t, T, n, left, right, k, c)
  BY <1>2, <1>3, <1>4, SuccessorIs
<1>6. /\ Exchanged(t, u, n, left, right, k, q, c)
      /\ r = IF c # NULL \/ Red(t, k) THEN NULL ELSE IF k = right THEN k ELSE q
  BY <1>1, <1>3, <1>5, EraseTwoChildrenFields
<1>7. /\ k \in T /\ k # n /\ t.child[k]["left"] = NULL /\ (q = n <=> k = right)
      /\ n < k /\ (\A a \in T : a <= n \/ k <= a) /\ T \subseteq Nodes /\ T \subseteq Int /\ NULL \notin T
  BY <1>1, <1>5 DEF Successor, Standing, NodesAreKeys
<1>8. PICK v : v = Forget(EraseOneChild(t, k, c).tree, k)
  OBVIOUS
<1>9. v \in Trees /\ Removed(t, v, T, k, c) /\ SplicedColors(t, v, k, c)
  <2>1. "right" \in Sides
    BY DEF Sides
  <2>. QED  BY <1>1, <1>4, <1>7, <1>8, <2>1, EraseOneChildFields
<1>10. PICK r0 : r0 = IF c # NULL \/ Red(t, k) THEN NULL ELSE q
  OBVIOUS
<1>11. Outcome(v, T \ {k}, SplicedSpans(b, k), SplicedHeights(H, k, c), r0)
  <2>1. "left" \in Sides /\ Other("left") = "right"
    BY DEF Sides, Other
  <2>2. c = t.child[k][Other("left")] /\ r0 = IF c # NULL \/ Red(t, k) THEN NULL ELSE t.parent[k]
    BY <1>4, <1>10, <2>1
  <2>. QED  BY <1>7, <1>9, <2>1, <2>2, RemovedOutcome
<1>12. Relabelled(v, u, T \ {k}, n, k) /\ RelabelledColors(v, u, n, k)
  BY <1>1, <1>5, <1>6, <1>9, ExchangedRelabels
<1>13. PICK S : S = T \ {k}
  OBVIOUS
<1>14. n \in S /\ k \in Nodes /\ (\A a \in S : a <= n \/ k < a) /\ (S \ {n}) \cup {k} = T \ {n} /\ u \in Trees
  <2>1. ASSUME NEW a \in S PROVE a <= n \/ k < a
    <3>1. a \in Int /\ k \in Int /\ n \in Int /\ a # k /\ (a <= n \/ k <= a)
      BY <1>7, <1>13
    <3>. QED  BY <3>1
  <2>2. (S \ {n}) \cup {k} = T \ {n} /\ n \in S /\ k \in Nodes
    BY <1>7, <1>13
  <2>. QED  BY <1>6, <2>1, <2>2 DEF Exchanged
<1>15. \E d, K : Outcome(v, S, d, K, r0)
  BY <1>11, <1>13
<1>16. PICK d, K : Outcome(v, S, d, K, r0)
  BY <1>15
<1>17. Outcome(u, (S \ {n}) \cup {k}, RelabelledSpans(d, n, k), RelabelledHeights(K, n, k),
               IF r0 = n THEN k ELSE r0)
  <2>1. Relabelled(v, u, S, n, k)
    BY <1>12, <1>13
  <2>. QED  BY <1>7, <1>12, <1>14, <1>16, <2>1, RelabelledOutcome
<1>18. r = IF r0 = n THEN k ELSE r0
  BY <1>6, <1>7, <1>10
<1>. QED  BY <1>14, <1>17, <1>18

\* After Erase(n) the tree is in order, or the loop of ____rb_erase_color may begin.
LEMMA EraseStep ==
    ASSUME NodesAreKeys, NEW T, NEW b, NEW H, Between(tree, T, b, H), NEW n \in Nodes, Erase(n)
    PROVE  /\ n \in T /\ node' = NULL
           /\ \/ op' = "idle" /\ parent' = NULL /\ \E c, K : Between(tree', T \ {n}, c, K)
              \/ op' = "erase" /\ parent' # NULL /\ \E c, K, s : Erasing(tree', T \ {n}, c, K, NULL, parent', s)
<1>1. PICK t : t = tree
  OBVIOUS
<1>2. Standing(t, T, b, H) /\ Between(t, T, b, H)
  BY <1>1 DEF Between
<1>3. t \in Trees /\ T \in SUBSET Nodes /\ b \in Spans /\ Shape(t, T, b)
  BY <1>2 DEF Standing
<1>4. n \in T
  <2>1. InTree = T
    BY <1>1, <1>3, TreesAreTyped, UnderRoot DEF InTree
  <2>. QED  BY <2>1 DEF Erase
<1>5. PICK e : e = erase_augmented(t, n)
  OBVIOUS
<1>6. PICK u, r : u = Forget(e.tree, n) /\ r = e.rebalance
  OBVIOUS
<1>7. tree' = u /\ parent' = r /\ op' = (IF r = NULL THEN "idle" ELSE "erase") /\ node' = NULL
  BY <1>1, <1>5, <1>6 DEF Erase
<1>8. "left" \in Sides /\ "right" \in Sides /\ Other("left") = "right" /\ Other("right") = "left"
  BY DEF Sides, Other
<1>9. \E d, K : Outcome(u, T \ {n}, d, K, r)
  <2>1. CASE t.child[n]["left"] = NULL
    <3>1. PICK c : c = t.child[n]["right"]
      OBVIOUS
    <3>2. e = EraseOneChild(t, n, c)
      BY <1>5, <2>1, <3>1 DEF erase_augmented
    <3>3. c = t.child[n][Other("left")]
      BY <1>8, <3>1
    <3>. QED  BY <1>2, <1>4, <1>6, <1>8, <2>1, <3>2, <3>3, EraseOneChildOutcome
  <2>2. CASE t.child[n]["left"] # NULL /\ t.child[n]["right"] = NULL
    <3>1. PICK c : c = t.child[n]["left"]
      OBVIOUS
    <3>2. e = EraseOneChild(t, n, c)
      BY <1>5, <2>2, <3>1 DEF erase_augmented
    <3>3. c = t.child[n][Other("right")]
      BY <1>8, <3>1
    <3>. QED  BY <1>2, <1>4, <1>6, <1>8, <2>2, <3>2, <3>3, EraseOneChildOutcome
  <2>3. CASE t.child[n]["left"] # NULL /\ t.child[n]["right"] # NULL
    <3>1. e = EraseTwoChildren(t, n)
      BY <1>5, <2>3 DEF erase_augmented
    <3>. QED  BY <1>2, <1>4, <1>6, <2>3, <3>1, EraseTwoChildrenOutcome
  <2>. QED  BY <2>1, <2>2, <2>3
<1>10. CASE r = NULL
  <2>1. \E d, K : Between(u, T \ {n}, d, K)
    BY <1>9, <1>10 DEF Outcome
  <2>. QED  BY <1>4, <1>7, <1>10, <2>1
<1>11. CASE r # NULL
  <2>1. \E d, K : \E s \in Sides : Erasing(u, T \ {n}, d, K, NULL, r, s)
    BY <1>9, <1>11 DEF Outcome
  <2>2. \E d, K, s : Erasing(u, T \ {n}, d, K, NULL, r, s)
    BY <2>1
  <2>. QED  BY <1>4, <1>7, <1>11, <2>2
<1>. QED  BY <1>10, <1>11

-----------------------------------------------------------------------------
(* The walks answer by the keys. *)

\* LeastOf is a least element.
LEMMA LeastIs ==
    ASSUME NEW S \in SUBSET Int, NEW x \in S, \A m \in S : x <= m PROVE LeastOf(S) = x
<1>1. PICK y : y = CHOOSE n \in S : \A m \in S : n <= m
  OBVIOUS
<1>2. y \in S /\ \A m \in S : y <= m
  BY <1>1
<1>3. y <= x /\ x <= y /\ x \in Int /\ y \in Int
  BY <1>2
<1>. QED  BY <1>1, <1>3 DEF LeastOf

\* GreatestOf is a greatest element.
LEMMA GreatestIs ==
    ASSUME NEW S \in SUBSET Int, NEW x \in S, \A m \in S : m <= x PROVE GreatestOf(S) = x
<1>1. PICK y : y = CHOOSE n \in S : \A m \in S : n >= m
  OBVIOUS
<1>2. \A m \in S : x >= m
  BY DEF LeastOf
<1>3. y \in S /\ \A m \in S : y >= m
  BY <1>1, <1>2
<1>4. y >= x /\ x >= y /\ x \in Int /\ y \in Int
  BY <1>2, <1>3
<1>. QED  BY <1>1, <1>4 DEF GreatestOf

\* Furthest goes there.
LEMMA FurthestFar ==
    ASSUME NodesAreKeys, NEW t, NEW T, NEW b, NEW H, Standing(t, T, b, H), NEW n \in T, NEW s \in Sides
    PROVE  FarEnd(t, T, b, n, s, Furthest(t, n, s))
<1>1. T \in SUBSET Nodes /\ b \in Spans /\ Shape(t, T, b)
  BY DEF Standing
<1>. QED  BY <1>1, FurthestIs

\* rb_first and rb_last answer with the least and the greatest key.
LEMMA ExtremesInOrder ==
    ASSUME NodesAreKeys, NEW t, NEW T, NEW b, NEW H, Standing(t, T, b, H)
    PROVE  rb_first(t) = LeastOf(T) /\ rb_last(t) = GreatestOf(T)
<1>1. t \in Trees /\ T \in SUBSET Nodes /\ b \in Spans /\ Shape(t, T, b) /\ T \in SUBSET Int /\ NULL \notin T
  BY DEF Standing, NodesAreKeys
<1>2. CASE T = {}
  BY <1>1, <1>2 DEF Shape, Rooted, rb_first, rb_last, Extreme, LeastOf, GreatestOf
<1>3. CASE T # {}
  <2>1. /\ t.root \in T /\ t.root # NULL
        /\ \A x \in T : b[t.root]["left"] < x /\ x < b[t.root]["right"]
    BY <1>1, <1>3 DEF Shape, Rooted
  <2>2. "left" \in Sides /\ "right" \in Sides /\ b[t.root]["left"] \in Int /\ b[t.root]["right"] \in Int
    BY <1>1, <2>1 DEF Sides, Spans
  <2>3. PICK x : x = Furthest(t, t.root, "left")
    OBVIOUS
  <2>4. x \in T /\ t.child[x]["left"] = NULL /\ b[x]["left"] = b[t.root]["left"]
    BY <2>1, <2>2, <2>3, FurthestFar DEF FarEnd
  <2>5. \A a \in T : a <= b[x]["left"] \/ x <= a
    BY <1>1, <2>4 DEF Shape, Gaps
  <2>6. \A a \in T : x <= a
    <3>1. SUFFICES ASSUME NEW a \in T PROVE x <= a
      OBVIOUS
    <3>2. a \in Int /\ x \in Int /\ b[t.root]["left"] < a
      BY <1>1, <2>1, <2>4
    <3>3. a <= b[x]["left"] \/ x <= a
      BY <2>5
    <3>. QED  BY ONLY <2>2, <2>4, <3>2, <3>3
  <2>7. rb_first(t) = LeastOf(T)
    BY <1>1, <2>1, <2>3, <2>4, <2>6, LeastIs DEF rb_first, Extreme
  <2>8. PICK y : y = Furthest(t, t.root, "right")
    OBVIOUS
  <2>9. y \in T /\ t.child[y]["right"] = NULL /\ b[y]["right"] = b[t.root]["right"]
    BY <2>1, <2>2, <2>8, FurthestFar DEF FarEnd
  <2>10. \A a \in T : a <= y \/ b[y]["right"] <= a
    BY <1>1, <2>9 DEF Shape, Gaps
  <2>11. \A a \in T : a <= y
    <3>1. SUFFICES ASSUME NEW a \in T PROVE a <= y
      OBVIOUS
    <3>2. a \in Int /\ a < b[t.root]["right"] /\ b[t.root]["right"] \in Int /\ y \in Int
      BY <1>1, <2>1, <2>2, <2>9
    <3>3. a <= y \/ b[t.root]["right"] <= a
      BY <2>9, <2>10
    <3>. QED  BY <3>2, <3>3
  <2>12. rb_last(t) = GreatestOf(T)
    BY <1>1, <2>1, <2>8, <2>9, <2>11, GreatestIs DEF rb_last, Extreme
  <2>. QED  BY <2>7, <2>12
<1>. QED  BY <1>2, <1>3

\* rb_next answers with the next greater key.
LEMMA NextInOrder ==
    ASSUME NodesAreKeys, NEW t, NEW T, NEW b, NEW H, Standing(t, T, b, H), NEW n \in T
    PROVE  rb_next(t, n) = LeastOf({m \in T : m > n})
<1>1. t \in Trees /\ T \in SUBSET Nodes /\ b \in Spans /\ Shape(t, T, b) /\ T \in SUBSET Int /\ NULL \notin T
  BY DEF Standing, NodesAreKeys
<1>2. "left" \in Sides /\ "right" \in Sides /\ Other("right") = "left" /\ n \in Int
  BY <1>1 DEF Sides, Other
<1>3. PICK S \in SUBSET Int : S = {m \in T : m > n}
  BY <1>1
<1>4. CASE t.child[n]["right"] # NULL
  <2>1. PICK k : k = t.child[n]["right"]
    OBVIOUS
  <2>2. Narrowing(t, T, b)
    BY <1>1, KidNarrower
  <2>3. k \in T /\ b[k]["left"] = n
    BY <1>2, <1>4, <2>1, <2>2 DEF Narrowing
  <2>4. PICK x : x = Furthest(t, k, "left")
    OBVIOUS
  <2>5. x \in T /\ t.child[x]["left"] = NULL /\ b[x]["left"] = n
    BY <1>2, <2>3, <2>4, FurthestFar DEF FarEnd
  <2>6. n < x /\ \A a \in T : a <= n \/ x <= a
    BY <1>1, <2>5 DEF Shape, Gaps, Around
  <2>7. x \in S /\ \A m \in S : x <= m
    BY <1>1, <1>2, <1>3, <2>5, <2>6
  <2>8. rb_next(t, n) = x
    BY <1>2, <1>4, <2>1, <2>4 DEF rb_next, Neighbour
  <2>. QED  BY <1>3, <2>7, <2>8, LeastIs
<1>5. CASE t.child[n]["right"] = NULL
  <2>1. rb_next(t, n) = IF b[n]["right"] = b[t.root]["right"] THEN NULL ELSE b[n]["right"]
    BY <1>1, <1>2, <1>5, ClimbIs DEF rb_next, Neighbour
  <2>2. /\ \A a \in T : a <= n \/ b[n]["right"] <= a
        /\ b[n]["right"] \in T \/ b[n]["right"] = b[t.root]["right"]
        /\ n < b[n]["right"] /\ \A a \in T : a < b[t.root]["right"]
        /\ b[n]["right"] \in Int
    BY <1>1, <1>2, <1>5 DEF Shape, Gaps, Bounds, Around, Rooted, Spans
  <2>3. CASE b[n]["right"] = b[t.root]["right"]
    <3>1. S = {}
      BY <1>1, <1>2, <1>3, <2>2, <2>3
    <3>. QED  BY <1>3, <2>1, <2>3, <3>1 DEF LeastOf
  <2>4. CASE b[n]["right"] # b[t.root]["right"]
    <3>1. PICK x : x = b[n]["right"]
      OBVIOUS
    <3>2. x \in S /\ \A m \in S : x <= m
      BY <1>1, <1>2, <1>3, <2>2, <2>4, <3>1
    <3>. QED  BY <1>3, <2>1, <2>4, <3>1, <3>2, LeastIs
  <2>. QED  BY <2>3, <2>4
<1>. QED  BY <1>4, <1>5

\* rb_prev answers with the next smaller key.
LEMMA PrevInOrder ==
    ASSUME NodesAreKeys, NEW t, NEW T, NEW b, NEW H, Standing(t, T, b, H), NEW n \in T
    PROVE  rb_prev(t, n) = GreatestOf({m \in T : m < n})
<1>1. t \in Trees /\ T \in SUBSET Nodes /\ b \in Spans /\ Shape(t, T, b) /\ T \in SUBSET Int /\ NULL \notin T
  BY DEF Standing, NodesAreKeys
<1>2. "left" \in Sides /\ "right" \in Sides /\ Other("left") = "right" /\ n \in Int
  BY <1>1 DEF Sides, Other
<1>3. PICK S \in SUBSET Int : S = {m \in T : m < n}
  BY <1>1
<1>4. CASE t.child[n]["left"] # NULL
  <2>1. PICK k : k = t.child[n]["left"]
    OBVIOUS
  <2>2. Narrowing(t, T, b)
    BY <1>1, KidNarrower
  <2>3. k \in T /\ b[k]["right"] = n
    BY <1>2, <1>4, <2>1, <2>2 DEF Narrowing
  <2>4. PICK x : x = Furthest(t, k, "right")
    OBVIOUS
  <2>5. x \in T /\ t.child[x]["right"] = NULL /\ b[x]["right"] = n
    BY <1>2, <2>3, <2>4, FurthestFar DEF FarEnd
  <2>6. x < n /\ \A a \in T : a <= x \/ n <= a
    BY <1>1, <2>5 DEF Shape, Gaps, Around
  <2>7. x \in S /\ \A m \in S : m <= x
    BY <1>1, <1>2, <1>3, <2>5, <2>6
  <2>8. rb_prev(t, n) = x
    BY <1>2, <1>4, <2>1, <2>4 DEF rb_prev, Neighbour
  <2>. QED  BY <1>3, <2>7, <2>8, GreatestIs
<1>5. CASE t.child[n]["left"] = NULL
  <2>1. rb_prev(t, n) = IF b[n]["left"] = b[t.root]["left"] THEN NULL ELSE b[n]["left"]
    BY <1>1, <1>2, <1>5, ClimbIs DEF rb_prev, Neighbour
  <2>2. /\ \A a \in T : a <= b[n]["left"] \/ n <= a
        /\ b[n]["left"] \in T \/ b[n]["left"] = b[t.root]["left"]
        /\ b[n]["left"] < n /\ \A a \in T : b[t.root]["left"] < a
        /\ b[n]["left"] \in Int
    BY <1>1, <1>2, <1>5 DEF Shape, Gaps, Bounds, Around, Rooted, Spans
  <2>3. CASE b[n]["left"] = b[t.root]["left"]
    <3>1. S = {}
      BY <1>1, <1>2, <1>3, <2>2, <2>3
    <3>. QED  BY <1>3, <2>1, <2>3, <3>1 DEF GreatestOf
  <2>4. CASE b[n]["left"] # b[t.root]["left"]
    <3>1. PICK x : x = b[n]["left"]
      OBVIOUS
    <3>2. x \in S /\ \A m \in S : m <= x
      BY <1>1, <1>2, <1>3, <2>2, <2>4, <3>1
    <3>. QED  BY <1>3, <2>1, <2>4, <3>1, <3>2, GreatestIs
  <2>. QED  BY <2>3, <2>4
<1>. QED  BY <1>4, <1>5

-----------------------------------------------------------------------------
(* The way from a node up to the root, and the black nodes on it. *)

\* Above a child is the child, and what is above its parent.
LEMMA AboveKid ==
    ASSUME NodesAreKeys, NEW t, NEW T, NEW b, NEW H, Standing(t, T, b, H), NEW q \in T, NEW s \in Sides,
           NEW k, k = t.child[q][s], k # NULL
    PROVE  k \in T /\ Above(t, k) = Above(t, q) \cup {k} /\ k \notin Above(t, q)
<1>1. t \in Trees /\ T \in SUBSET Nodes /\ b \in Spans /\ Shape(t, T, b) /\ NULL \notin T /\ Typed(t)
  BY TreesAreTyped DEF Standing, NodesAreKeys
<1>2. Narrowing(t, T, b) /\ SpanTypes(T, b)
  BY <1>1, KidNarrower, SpansAreInts
<1>3. k \in T /\ t.parent[k] = q /\ b[k][s] = b[q][s] /\ b[k][Other(s)] = q
  BY <1>2 DEF Narrowing
<1>4. Above(t, k) = {a \in T : Inside(b, a, k)}
  <2>1. PICK d \in T : d = k
    BY <1>3
  <2>2. Above(t, d) = {a \in T : Inside(b, a, d)}
    BY <1>1, AboveIsSpans
  <2>. QED  BY <2>1, <2>2
<1>5. Above(t, q) = {a \in T : Inside(b, a, q)}
  BY <1>1, AboveIsSpans
<1>6. k \in Int /\ q \in Int /\ (\A x \in T : b[x]["left"] \in Int /\ b[x]["right"] \in Int)
      /\ b[k]["left"] < k /\ k < b[k]["right"] /\ b[q]["left"] < q /\ q < b[q]["right"]
  BY <1>1, <1>2, <1>3 DEF Shape, Around, SpanTypes
<1>7. k # q
  BY <1>3, <1>6 DEF Sides, Other
<1>8. b[q]["left"] <= b[k]["left"] /\ b[k]["right"] <= b[q]["right"]
  BY <1>3, <1>6 DEF Sides, Other
<1>9. ASSUME NEW a \in T, Inside(b, a, q) PROVE Inside(b, a, k) /\ a # k
  <2>1. Within(b, a, q)
    BY <1>1, <1>9, SpansNest
  <2>2. b[a]["left"] \in Int /\ b[a]["right"] \in Int
    BY <1>6
  <2>3. Inside(b, a, k)
    BY <1>3, <1>6, <1>8, <2>1, <2>2 DEF Within, Inside
  <2>4. ~Inside(b, k, q)
    BY <1>3, <1>6 DEF Inside, Sides, Other
  <2>. QED  BY <1>9, <2>3, <2>4
<1>10. ASSUME NEW a \in T, Inside(b, a, k), a # k PROVE Inside(b, a, q)
  BY <1>1, <1>3, <1>10, ParentInside
<1>11. Inside(b, k, k)
  BY <1>6 DEF Inside
<1>12. Above(t, k) = Above(t, q) \cup {k}
  BY <1>3, <1>4, <1>5, <1>9, <1>10, <1>11
<1>13. k \notin Above(t, q)
  BY <1>5, <1>9
<1>. QED  BY <1>3, <1>12, <1>13

\* Above the root is the root alone.
LEMMA AboveRoot ==
    ASSUME NodesAreKeys, NEW t, NEW T, NEW b, NEW H, Standing(t, T, b, H), T # {}
    PROVE  t.root \in T /\ Above(t, t.root) = {t.root}
<1>1. t \in Trees /\ T \in SUBSET Nodes /\ b \in Spans /\ Shape(t, T, b) /\ Typed(t) /\ t.root \in T
  BY TreesAreTyped DEF Standing, Shape, Rooted
<1>2. PICK r \in T : r = t.root
  BY <1>1
<1>3. Above(t, r) = {a \in T : Inside(b, a, r)}
  BY <1>1, AboveIsSpans
<1>4. Inside(b, r, r)
  BY <1>1, <1>2 DEF Shape, Around, Inside
<1>5. ASSUME NEW a \in T, Inside(b, a, r) PROVE a = r
  BY <1>1, <1>2, <1>5, ParentInside
<1>. QED  BY <1>2, <1>3, <1>4, <1>5

\* BlacksAbove of any tree.
Blacks(t, n) == Cardinality({a \in Above(t, n) : ~Red(t, a)})

\* There are finitely many.
LEMMA BlacksAreFinite ==
    ASSUME NodesAreKeys, NEW t \in Trees, NEW n \in Nodes
    PROVE  IsFiniteSet(Above(t, n)) /\ IsFiniteSet({a \in Above(t, n) : ~Red(t, a)}) /\ Blacks(t, n) \in Nat
<1>1. IsFiniteSet(Nodes) /\ Above(t, n) \subseteq Nodes
  BY TreesAreTyped, AboveIs DEF NodesAreKeys
<1>2. IsFiniteSet(Above(t, n))
  BY <1>1, FS_Subset
<1>3. IsFiniteSet({a \in Above(t, n) : ~Red(t, a)})
  BY <1>2, FS_Subset
<1>4. Blacks(t, n) \in Nat
  BY <1>3, FS_CardinalityType DEF Blacks
<1>. QED  BY <1>2, <1>3, <1>4

\* A black child has one more than its parent.
LEMMA BlacksKid ==
    ASSUME NodesAreKeys, NEW t, NEW T, NEW b, NEW H, Standing(t, T, b, H), NEW q \in T, NEW s \in Sides,
           NEW k, k = t.child[q][s], k # NULL
    PROVE  Blacks(t, k) = Blacks(t, q) + Black(t, k)
<1>1. k \in T /\ Above(t, k) = Above(t, q) \cup {k} /\ k \notin Above(t, q)
  BY AboveKid
<1>2. t \in Trees /\ q \in Nodes
  BY DEF Standing
<1>3. PICK S : S = {a \in Above(t, q) : ~Red(t, a)}
  OBVIOUS
<1>4. IsFiniteSet(S) /\ k \notin S /\ Cardinality(S) \in Nat /\ Blacks(t, q) = Cardinality(S)
  BY <1>1, <1>2, <1>3, BlacksAreFinite DEF Blacks
<1>5. CASE Red(t, k)
  <2>1. {a \in Above(t, k) : ~Red(t, a)} = S
    BY <1>1, <1>3, <1>5
  <2>. QED  BY <1>4, <1>5, <2>1 DEF Blacks, Black
<1>6. CASE ~Red(t, k)
  <2>1. {a \in Above(t, k) : ~Red(t, a)} = S \cup {k}
    BY <1>1, <1>3, <1>6
  <2>2. Cardinality(S \cup {k}) = Cardinality(S) + 1
    BY <1>4, FS_AddElement
  <2>. QED  BY <1>4, <1>6, <2>1, <2>2 DEF Blacks, Black
<1>. QED  BY <1>5, <1>6

\* The root has itself, if it is black.
LEMMA BlacksRoot ==
    ASSUME NodesAreKeys, NEW t, NEW T, NEW b, NEW H, Standing(t, T, b, H), T # {}
    PROVE  Blacks(t, t.root) = Black(t, t.root)
<1>1. PICK r : r = t.root /\ Above(t, r) = {r}
  BY AboveRoot
<1>2. CASE Red(t, r)
  <2>1. {a \in Above(t, r) : ~Red(t, a)} = {}
    BY <1>1, <1>2
  <2>. QED  BY <1>1, <1>2, <2>1, FS_EmptySet DEF Blacks, Black
<1>3. CASE ~Red(t, r)
  <2>1. {a \in Above(t, r) : ~Red(t, a)} = {r}
    BY <1>1, <1>3
  <2>. QED  BY <1>1, <1>3, <2>1, FS_Singleton DEF Blacks, Black
<1>. QED  BY <1>2, <1>3

\* One less where n lies under the kid K that is one black node short.
Lacking(t, n, K) == IF K # NULL /\ K \in Above(t, n) THEN 1 ELSE 0

\* Seen from the root, the black nodes above n and the height of n make up the height of the root.
LEMMA BlacksAddUp ==
    ASSUME NodesAreKeys, NEW t, NEW T, NEW b, NEW H, Standing(t, T, b, H),
           NEW dn, NEW ds, Balanced(t, T, H, dn, ds), dn # NULL => dn \in T /\ ds \in Sides,
           NEW K, K = IF dn = NULL THEN NULL ELSE t.child[dn][ds], NEW n \in T
    PROVE  Blacks(t, n) + H[n] + Lacking(t, n, K) = H[t.root] + Black(t, n)
<1>1. t \in Trees /\ T \in SUBSET Nodes /\ b \in Spans /\ Shape(t, T, b) /\ NULL \notin T /\ H \in [Nodes -> Nat]
  BY DEF Standing, NodesAreKeys, Heights
<1>2. Offspring(t, T) /\ Levels(t, T, H, dn, ds) /\ Apart(t, T)
  BY <1>1, KidIs, HeightIs, KidsApart
<1> DEFINE Good(m) == Blacks(t, m) + H[m] + Lacking(t, m, K) = H[t.root] + Black(t, m)
           X == {m \in T : ~Good(m)}
<1>3. X = {}
  <2>1. SUFFICES ASSUME X # {} PROVE FALSE
    OBVIOUS
  <2>2. PICK m \in X : \A y \in X : Width(b, y) <= Width(b, m)
    BY <1>1, <2>1, Widest
  <2>3. m \in T /\ ~Good(m) /\ T # {}
    BY <2>2
  <2>4. CASE m = t.root
    <3>1. Blacks(t, m) = Black(t, m) /\ Above(t, m) = {m}
      BY <2>3, <2>4, BlacksRoot, AboveRoot
    <3>2. Lacking(t, m, K) = 0
      <4>1. K # m
        BY <1>1, <1>2, <2>3, <2>4 DEF Offspring
      <4>. QED  BY <3>1, <4>1 DEF Lacking
    <3>3. H[m] \in Nat /\ Black(t, m) \in Nat
      BY <1>1, <2>3 DEF Black
    <3>. QED  BY <2>3, <2>4, <3>1, <3>2, <3>3
  <2>5. CASE m # t.root
    <3>1. PICK q \in T : q = t.parent[m] /\ \E s \in Sides : t.child[q][s] = m
      BY <2>3, <2>5, KidsAndRoot
    <3>2. PICK s \in Sides : t.child[q][s] = m
      BY <3>1
    <3>3. m # NULL
      BY <1>1, <2>3
    <3>4. /\ Blacks(t, m) = Blacks(t, q) + Black(t, m)
          /\ Above(t, m) = Above(t, q) \cup {m} /\ m \notin Above(t, q)
      BY <3>2, <3>3, BlacksKid, AboveKid
    <3>5. Good(q)
      <4>1. Narrowing(t, T, b) /\ SpanTypes(T, b)
        BY <1>1, KidNarrower, SpansAreInts
      <4>2. Width(b, m) < Width(b, q)
        BY <3>2, <3>3, <4>1 DEF Narrowing
      <4>3. Width(b, m) \in Int /\ Width(b, q) \in Int
        BY <2>3, <4>1 DEF SpanTypes, Width
      <4>4. ASSUME q \in X PROVE FALSE
        <5>1. Width(b, q) <= Width(b, m)
          BY <2>2, <4>4
        <5>. QED  BY <4>2, <4>3, <5>1
      <4>. QED  BY <4>4
    <3>6. H[q] = H[m] + Black(t, q) + (IF q = dn /\ s = ds THEN 1 ELSE 0)
      BY <1>2, <3>2, <3>3 DEF Levels, HeightOf
    <3>7. m = K <=> q = dn /\ s = ds
      BY <1>1, <1>2, <3>2, <3>3 DEF Apart
    <3>8. Lacking(t, m, K) = Lacking(t, q, K) + (IF q = dn /\ s = ds THEN 1 ELSE 0)
      BY <3>3, <3>4, <3>7 DEF Lacking
    <3>9. /\ H[m] \in Nat /\ H[q] \in Nat /\ H[t.root] \in Nat /\ Black(t, m) \in Nat /\ Black(t, q) \in Nat
          /\ Lacking(t, q, K) \in Nat /\ Lacking(t, m, K) \in Nat /\ Blacks(t, q) \in Nat /\ Blacks(t, m) \in Nat
      <4>1. t.root \in Nodes /\ q \in Nodes /\ m \in Nodes
        BY <1>1, <2>3 DEF Shape, Rooted
      <4>. QED  BY <1>1, <4>1, BlacksAreFinite DEF Black, Lacking
    <3>10. PICK hm, hq, hr, bm, bq, lm, lq, cm, cq, e \in Nat :
             /\ hm = H[m] /\ hq = H[q] /\ hr = H[t.root] /\ bm = Black(t, m) /\ bq = Black(t, q)
             /\ lm = Lacking(t, m, K) /\ lq = Lacking(t, q, K) /\ cm = Blacks(t, m) /\ cq = Blacks(t, q)
             /\ e = IF q = dn /\ s = ds THEN 1 ELSE 0
      BY <3>9
    <3>11. cm = cq + bm /\ cq + hq + lq = hr + bq /\ hq = hm + bq + e /\ lm = lq + e
      BY <3>4, <3>5, <3>6, <3>8, <3>10
    <3>12. cm + hm + lm = hr + bm
      BY <3>11
    <3>. QED  BY <2>3, <3>10, <3>12
  <2>. QED  BY <2>4, <2>5
<1>. QED  BY <1>3

-----------------------------------------------------------------------------
(* The inductive invariant.                                                *)

\* What holds of the tree t and the loop variables o, n and p, at any head of a loop.
At(t, o, n, p, T, b, H) ==
    \/ o = "idle" /\ n = NULL /\ p = NULL /\ Between(t, T, b, H)
    \/ o = "insert" /\ Inserting(t, T, b, H, n, p)
    \/ o = "erase" /\ \E s : Erasing(t, T, b, H, n, p, s)

\* The inductive invariant: the tree is one of some nodes T, with the spans and
\* the heights that go with the call that is running.
TInv == \E T, b, H : At(tree, op, node, parent, T, b, H)

\* In each case it is a tree.
LEMMA AtStanding ==
    ASSUME NEW t, NEW o, NEW n, NEW p, NEW T, NEW b, NEW H, At(t, o, n, p, T, b, H)
    PROVE  Standing(t, T, b, H) /\ (o = "idle" => Between(t, T, b, H)) /\ (o = "insert" => Inserting(t, T, b, H, n, p))
           /\ (o = "erase" => \E s : Erasing(t, T, b, H, n, p, s)) /\ o \in {"idle", "insert", "erase"}
  BY DEF At, Between, Inserting, Erasing

\* q is one or two levels above p.
Higher(t, T, p, q) == p \in T /\ (q = t.parent[p] \/ (t.parent[p] \in T /\ q = t.parent[t.parent[p]]))

\* What a round of a loop that goes on leaves: a tree with the same links.
Round(t, u, T, b, c, p, q) == c = b /\ SameLinks(t, u) /\ Higher(t, T, p, q)

\* What a step leads to, T2 being the nodes it leaves in the tree.
Stepped(T, b, T2, c, K) ==
    /\ At(tree', op', node', parent', T2, c, K)
    /\ IF op = "idle" THEN \E n \in Nodes : {n} = (T \ T2) \cup (T2 \ T) ELSE T2 = T
    /\ op # "idle" /\ op' = op => Round(tree, tree', T, b, c, parent, parent')

\* The empty tree has it.
LEMMA TInit == ASSUME NodesAreKeys, Init PROVE TInv
<1>1. PICK t : t = tree
  OBVIOUS
<1>2. t = [root |-> NULL, child |-> [n \in Nodes |-> NoChildren], parent |-> [n \in Nodes |-> NULL],
           color |-> [n \in Nodes |-> "red"]]
      /\ op = "idle" /\ node = NULL /\ parent = NULL
  BY <1>1 DEF Init
<1>3. EmptyTree(t)
  <2>1. NoChildren \in [Sides -> Links] /\ \A s \in Sides : NoChildren[s] = NULL
    BY DEF NoChildren, Links
  <2>. QED  BY <1>2, <2>1 DEF EmptyTree, Trees, Links, Colors
<1>4. \E b, H : Between(t, {}, b, H)
  BY <1>3, EmptyBetween
<1>. QED  BY <1>1, <1>2, <1>4 DEF TInv, At

\* Every call and every round of a loop keeps it.
LEMMA TStep ==
    ASSUME NodesAreKeys, NEW T, NEW b, NEW H, At(tree, op, node, parent, T, b, H), Next
    PROVE  \E T2, c, K : Stepped(T, b, T2, c, K)
<1>0. /\ Standing(tree, T, b, H) /\ (op = "idle" => Between(tree, T, b, H))
      /\ (op = "insert" => Inserting(tree, T, b, H, node, parent))
      /\ (op = "erase" => \E s : Erasing(tree, T, b, H, node, parent, s))
  BY AtStanding
<1>1. ASSUME NEW n \in Nodes, Insert(n) PROVE \E T2, c, K : Stepped(T, b, T2, c, K)
  <2>1. op = "idle"
    BY <1>1 DEF Insert
  <2>2. n \notin T /\ op' = "insert" /\ \E c, K : Inserting(tree', T \cup {n}, c, K, node', parent')
    BY <1>0, <1>1, <2>1, InsertStep
  <2>3. {n} = (T \ (T \cup {n})) \cup ((T \cup {n}) \ T)
    BY <2>2
  <2>. QED  BY <2>1, <2>2, <2>3 DEF Stepped, At
<1>2. ASSUME NEW n \in Nodes, Erase(n) PROVE \E T2, c, K : Stepped(T, b, T2, c, K)
  <2>1. op = "idle"
    BY <1>2 DEF Erase
  <2>2. /\ n \in T /\ node' = NULL
        /\ \/ op' = "idle" /\ parent' = NULL /\ \E c, K : Between(tree', T \ {n}, c, K)
           \/ op' = "erase" /\ parent' # NULL /\ \E c, K, s : Erasing(tree', T \ {n}, c, K, NULL, parent', s)
    BY <1>0, <1>2, <2>1, EraseStep
  <2>3. {n} = (T \ (T \ {n})) \cup ((T \ {n}) \ T)
    BY <2>2
  <2>4. CASE op' = "idle"
    BY <2>1, <2>2, <2>3, <2>4 DEF Stepped, At
  <2>5. CASE op' = "erase"
    <3>1. \E c, K : \E s : Erasing(tree', T \ {n}, c, K, NULL, parent', s)
      BY <2>2, <2>5
    <3>. QED  BY <2>1, <2>2, <2>3, <2>5, <3>1 DEF Stepped, At
  <2>. QED  BY <2>2, <2>4, <2>5
<1>3. ASSUME InsertAtRoot PROVE \E T2, c, K : Stepped(T, b, T2, c, K)
  <2>1. op = "insert" /\ parent = NULL /\ Done(rb_set_parent_color(tree, node, NULL, "black"))
    BY <1>3 DEF InsertAtRoot
  <2>2. PICK t, n : t = tree /\ n = node /\ Inserting(t, T, b, H, n, NULL)
    BY <1>0, <2>1
  <2>3. PICK u : u = rb_set_parent_color(t, n, NULL, "black")
    OBVIOUS
  <2>4. t \in Trees /\ n \in Nodes /\ t.parent[n] = NULL /\ NULL \in Links /\ "black" \in Colors
    BY <2>2 DEF Inserting, Standing, Links, Colors
  <2>5. Reworded(t, u, n, NULL, "black")
    BY <2>3, <2>4, SetParentColorFields
  <2>6. Blackened(t, u, n)
    BY <2>4, <2>5 DEF Reworded, Blackened, SameLinks
  <2>7. Between(u, T, b, [H EXCEPT ![n] = H[n] + 1])
    BY <2>2, <2>6, InsertAtRootDone
  <2>8. tree' = u /\ op' = "idle" /\ node' = NULL /\ parent' = NULL
    BY <2>1, <2>2, <2>3 DEF Done
  <2>. QED  BY <2>1, <2>7, <2>8 DEF Stepped, At
<1>4. ASSUME InsertBelowBlack PROVE \E T2, c, K : Stepped(T, b, T2, c, K)
  <2>1. op = "insert" /\ parent # NULL /\ ~Red(tree, parent) /\ Done(tree)
    BY <1>4 DEF InsertBelowBlack
  <2>2. Between(tree, T, b, H)
    BY <1>0, <2>1, InsertBelowBlackDone
  <2>. QED  BY <2>1, <2>2 DEF Stepped, At, Done
<1>5. ASSUME InsertFlip PROVE \E T2, c, K : Stepped(T, b, T2, c, K)
  <2>1. op = "insert" /\ Inserting(tree, T, b, H, node, parent) /\ RedNode(tree, parent)
    BY <1>0, <1>5 DEF InsertFlip, TwoReds
  <2>2. PICK K : /\ Inserting(tree', T, b, K, node', parent') /\ op' = "insert"
                 /\ tree'.child = tree.child /\ tree'.root = tree.root
                 /\ (\A x \in Nodes : tree'.parent[x] = tree.parent[x])
                 /\ node' = gparent /\ parent' = tree.parent[gparent]
    BY <1>5, <2>1, InsertFlipStep
  <2>3. tree' \in Trees /\ node' \in T
    BY <2>2 DEF Inserting, Standing
  <2>4. SameLinks(tree, tree')
    BY <2>2, <2>3 DEF SameLinks
  <2>5. parent \in T
    <3>1. node \in T /\ tree.parent[node] = parent /\ parent # NULL
      BY <2>1 DEF Inserting, RedNode
    <3>. QED  BY <1>0, <3>1, KidsAndRoot
  <2>6. Higher(tree, T, parent, parent')
    BY <2>2, <2>3, <2>5 DEF Higher, gparent
  <2>. QED  BY <2>1, <2>2, <2>4, <2>6 DEF Stepped, At, Round
<1>6. ASSUME InsertRotate PROVE \E T2, c, K : Stepped(T, b, T2, c, K)
  <2>1. op = "insert" /\ Inserting(tree, T, b, H, node, parent)
    BY <1>0, <1>6 DEF InsertRotate, TwoReds
  <2>2. \E c, K : Between(tree', T, c, K) /\ op' = "idle" /\ node' = NULL /\ parent' = NULL
    BY <1>6, <2>1, InsertRotateDone
  <2>. QED  BY <2>1, <2>2 DEF Stepped, At
<1>7. ASSUME EraseFlip PROVE \E T2, c, K : Stepped(T, b, T2, c, K)
  <2>1. op = "erase" /\ \E s : Erasing(tree, T, b, H, node, parent, s)
    BY <1>0, <1>7 DEF EraseFlip, Deficient
  <2>2. PICK s : Erasing(tree, T, b, H, node, parent, s)
    BY <2>1
  <2>3. \/ (\E d, K : Between(tree', T, d, K)) /\ op' = "idle" /\ node' = NULL /\ parent' = NULL
        \/ /\ \E K, z : Erasing(tree', T, b, K, node', parent', z)
           /\ op' = "erase" /\ SameLinks(tree, tree') /\ node' = parent /\ parent' = tree.parent[parent]
    BY <1>7, <2>2, EraseFlipStep
  <2>4. CASE op' = "idle"
    BY <2>1, <2>3, <2>4 DEF Stepped, At
  <2>5. CASE op' = "erase"
    <3>1. PICK K : \E z : Erasing(tree', T, b, K, node', parent', z)
      BY <2>3, <2>5
    <3>2. SameLinks(tree, tree') /\ parent' = tree.parent[parent]
      BY <2>3, <2>5
    <3>3. Higher(tree, T, parent, parent')
      <4>1. parent \in T
        BY <2>2 DEF Erasing
      <4>. QED  BY <3>2, <4>1 DEF Higher
    <3>. QED  BY <2>1, <2>5, <3>1, <3>2, <3>3 DEF Stepped, At, Round
  <2>. QED  BY <2>3, <2>4, <2>5
<1>8. ASSUME EraseRotate PROVE \E T2, c, K : Stepped(T, b, T2, c, K)
  <2>1. op = "erase" /\ \E s : Erasing(tree, T, b, H, node, parent, s)
    BY <1>0, <1>8 DEF EraseRotate, Deficient
  <2>2. PICK s : Erasing(tree, T, b, H, node, parent, s)
    BY <2>1
  <2>3. \E d, K : Between(tree', T, d, K) /\ op' = "idle" /\ node' = NULL /\ parent' = NULL
    BY <1>8, <2>2, EraseRotateDone
  <2>. QED  BY <2>1, <2>3 DEF Stepped, At
<1>. QED  BY <1>1, <1>2, <1>3, <1>4, <1>5, <1>6, <1>7, <1>8 DEF Next, Rebalance

\* The inductive step.
LEMMA TInductive == ASSUME NodesAreKeys, TInv, [Next]_vars PROVE TInv'
<1>1. PICK T, b, H : At(tree, op, node, parent, T, b, H)
  BY DEF TInv
<1>2. CASE Next
  <2>1. PICK T2, c, K : Stepped(T, b, T2, c, K)
    BY <1>1, <1>2, TStep
  <2>. QED  BY <2>1 DEF Stepped, TInv
<1>3. CASE UNCHANGED vars
  BY <1>1, <1>3 DEF vars, TInv
<1>. QED  BY <1>2, <1>3

\* At every head of a loop the nodes form a search tree whose black heights are
\* the same on every way down, but for the side where an erasure is short of one.
THEOREM TreeStands == Spec => []TInv
<1>. USE NodesAreKeys
<1>1. Init => TInv
  BY TInit
<1>2. TInv /\ [Next]_vars => TInv'
  BY TInductive
<1>. QED  BY <1>1, <1>2, PTL DEF Spec

-----------------------------------------------------------------------------

\* Under a child are keys on its side of its parent.
LEMMA UnderKid ==
    ASSUME NodesAreKeys, NEW t, NEW T, NEW b, NEW H, Standing(t, T, b, H), NEW n \in T, NEW s \in Sides,
           NEW m \in Under(t, t.child[n][s])
    PROVE  m \in T /\ (s = "left" => m < n) /\ (s = "right" => n < m)
<1>1. t \in Trees /\ T \in SUBSET Nodes /\ b \in Spans /\ Shape(t, T, b) /\ NULL \notin T /\ Typed(t)
  BY TreesAreTyped DEF Standing, NodesAreKeys
<1>2. PICK k : k = t.child[n][s]
  OBVIOUS
<1>3. k # NULL
  BY <1>1, <1>2, UnderNull
<1>4. Narrowing(t, T, b)
  BY <1>1, KidNarrower
<1>5. k \in T /\ b[k][Other(s)] = n
  BY <1>2, <1>3, <1>4 DEF Narrowing
<1>6. Under(t, k) = {x \in T : Inside(b, k, x)}
  BY <1>1, <1>5, UnderIsSpan
<1>7. m \in T /\ b[k]["left"] < m /\ m < b[k]["right"]
  BY <1>2, <1>6 DEF Inside
<1>. QED  BY <1>5, <1>7 DEF Other

\* InTree is T.
LEMMA TreeOf ==
    ASSUME NodesAreKeys, NEW t, NEW T, NEW b, NEW H, Standing(t, T, b, H) PROVE Under(t, t.root) = T
  BY TreesAreTyped, UnderRoot DEF Standing

\* A part of a set of one element has at most one.
LEMMA AtMostOne == ASSUME NEW x, NEW S \in SUBSET {x} PROVE Cardinality(S) <= 1
<1>1. IsFiniteSet({x}) /\ Cardinality({x}) = 1
  BY FS_Singleton
<1>2. Cardinality(S) <= Cardinality({x})
  BY <1>1, FS_Subset
<1>. QED  BY <1>1, <1>2

\* WellLinked follows: links agree in both directions.
LEMMA LinksAgree == ASSUME NodesAreKeys, TInv PROVE WellLinked
<1>1. PICK T, b, H : At(tree, op, node, parent, T, b, H)
  BY DEF TInv
<1>2. Standing(tree, T, b, H)
  BY <1>1, AtStanding
<1>3. PICK t : t = tree
  OBVIOUS
<1>4. Standing(t, T, b, H) /\ InTree = T /\ NULL \notin T
  BY <1>2, <1>3, TreeOf DEF InTree, Standing, NodesAreKeys
<1>5. Offspring(t, T)
  BY <1>4, KidIs
<1>6. t.root # NULL => t.parent[t.root] = NULL
  <2>1. T = {} \/ t.root \in T
    BY <1>4 DEF Standing, Shape, Rooted
  <2>2. T = {} => t.root = NULL
    BY <1>4 DEF Standing, Shape, Rooted
  <2>. QED  BY <1>4, <2>1, <2>2, KidsAndRoot
<1>7. ASSUME NEW n \in T, NEW s \in Sides, t.child[n][s] # NULL
      PROVE  t.parent[t.child[n][s]] = n /\ t.child[n][s] # t.child[n][Other(s)] /\ n \notin Under(t, t.child[n][s])
  <2>1. t.parent[t.child[n][s]] = n /\ t.child[n][s] # t.child[n][Other(s)]
    BY <1>5, <1>7 DEF Offspring
  <2>2. ASSUME n \in Under(t, t.child[n][s]) PROVE FALSE
    <3>1. (s = "left" => n < n) /\ (s = "right" => n < n)
      BY <1>4, <2>2, UnderKid
    <3>2. n \in Int
      BY <1>4 DEF Standing, NodesAreKeys
    <3>. QED  BY <3>1, <3>2 DEF Sides
  <2>. QED  BY <2>1, <2>2
<1>. QED  BY <1>3, <1>4, <1>6, <1>7 DEF WellLinked

\* SearchOrder follows: keys are in order.
LEMMA KeysInOrder == ASSUME NodesAreKeys, TInv PROVE SearchOrder
<1>1. PICK T, b, H : At(tree, op, node, parent, T, b, H)
  BY DEF TInv
<1>2. PICK t : t = tree
  OBVIOUS
<1>3. Standing(t, T, b, H) /\ InTree = T /\ T \subseteq Int
  <2>1. Standing(t, T, b, H)
    BY <1>1, <1>2, AtStanding
  <2>2. InTree = T
    BY <1>2, <2>1, TreeOf DEF InTree
  <2>. QED  BY <2>1, <2>2 DEF Standing, NodesAreKeys
<1>4. "left" \in Sides /\ "right" \in Sides
  BY DEF Sides
<1>5. ASSUME NEW n \in T
      PROVE  /\ \A m \in Under(t, t.child[n]["left"]) : m < n
             /\ \A m \in Under(t, t.child[n]["right"]) : m > n
  <2>1. ASSUME NEW m \in Under(t, t.child[n]["left"]) PROVE m < n
    BY <1>3, <1>4, UnderKid
  <2>2. ASSUME NEW m \in Under(t, t.child[n]["right"]) PROVE m > n
    <3>1. m \in T /\ n < m
      BY <1>3, <1>4, UnderKid
    <3>. QED  BY <1>3, <3>1
  <2>. QED  BY <2>1, <2>2
<1>. QED  BY <1>2, <1>3, <1>5 DEF SearchOrder

\* The leaves of a tree without a deficit have the same black nodes above them.
LEMMA LeavesEven ==
    ASSUME NodesAreKeys, NEW T, NEW b, NEW H, Standing(tree, T, b, H), Balanced(tree, T, H, NULL, "left")
    PROVE  Cardinality({BlacksAbove(l[1]) : l \in Leaves}) <= 1
<1>1. PICK t : t = tree
  OBVIOUS
<1>2. Standing(t, T, b, H) /\ Balanced(t, T, H, NULL, "left") /\ InTree = T /\ NULL \notin T
  BY <1>1, TreeOf DEF InTree, Standing, NodesAreKeys
<1>3. ASSUME NEW n \in T, NEW s \in Sides, t.child[n][s] = NULL PROVE Blacks(t, n) = H[t.root]
  <2>1. Levels(t, T, H, NULL, "left")
    BY <1>2, HeightIs
  <2>2. H[n] = HeightOf(H, t.child[n][s]) + Black(t, n)
    BY <1>2, <2>1 DEF Levels
  <2>3. HeightOf(H, t.child[n][s]) = 0 /\ Black(t, n) \in Nat
    BY <1>3 DEF HeightOf, Black
  <2>4. H[n] = Black(t, n)
    BY <2>2, <2>3
  <2>5. Blacks(t, n) + H[n] + Lacking(t, n, NULL) = H[t.root] + Black(t, n)
    BY <1>2, BlacksAddUp
  <2>6. Lacking(t, n, NULL) = 0
    BY DEF Lacking
  <2>7. Blacks(t, n) \in Nat /\ H[t.root] \in Nat
    BY <1>2, BlacksAreFinite DEF Standing, Shape, Rooted, Heights
  <2>. QED  BY <2>3, <2>4, <2>5, <2>6, <2>7
<1>4. {BlacksAbove(l[1]) : l \in Leaves} \subseteq {H[t.root]}
  <2>1. SUFFICES ASSUME NEW l \in Leaves PROVE BlacksAbove(l[1]) = H[t.root]
    OBVIOUS
  <2>2. l[1] \in T /\ l[2] \in Sides /\ t.child[l[1]][l[2]] = NULL
    BY <1>1, <1>2 DEF Leaves
  <2>. QED  BY <1>1, <1>3, <2>2 DEF BlacksAbove, Blacks
<1>. QED  BY <1>4, AtMostOne

\* With a deficit, the leaves under the place where a loop stands have one less.
LEMMA LeavesUneven ==
    ASSUME NodesAreKeys, NEW T, NEW b, NEW H, NEW s, Erasing(tree, T, b, H, node, parent, s)
    PROVE  Cardinality({BlacksAbove(l[1]) + (IF Through(l) THEN 1 ELSE 0) : l \in Leaves}) <= 1
<1>1. PICK t, K, p : t = tree /\ K = node /\ p = parent
  OBVIOUS
<1>2. /\ Erasing(t, T, b, H, K, p, s) /\ Standing(t, T, b, H) /\ Balanced(t, T, H, p, s)
      /\ p \in T /\ s \in Sides /\ t.child[p][s] = K /\ InTree = T /\ NULL \notin T
  BY <1>1, TreeOf DEF InTree, Standing, NodesAreKeys, Erasing
<1>3. Side(t, p, K) = s
  BY <1>2, ErasingSide
<1>4. ASSUME NEW n \in T, NEW z \in Sides, t.child[n][z] = NULL
      PROVE  Blacks(t, n) + (IF IF K = NULL THEN n = p /\ z = s ELSE K \in Above(t, n) THEN 1 ELSE 0) = H[t.root]
  <2>1. Levels(t, T, H, p, s)
    BY <1>2, HeightIs
  <2>2. HeightOf(H, t.child[n][z]) = 0 /\ Black(t, n) \in Nat
    BY <1>4 DEF HeightOf, Black
  <2>3. H[n] = Black(t, n) + IF n = p /\ z = s THEN 1 ELSE 0
    BY <1>2, <2>1, <2>2 DEF Levels
  <2>4. Blacks(t, n) + H[n] + Lacking(t, n, K) = H[t.root] + Black(t, n)
    <3>1. p # NULL /\ K = IF p = NULL THEN NULL ELSE t.child[p][s]
      BY <1>2
    <3>. QED  BY <1>2, <3>1, BlacksAddUp
  <2>5. Blacks(t, n) \in Nat /\ H[t.root] \in Nat
    BY <1>2, BlacksAreFinite DEF Standing, Shape, Rooted, Heights
  <2>6. CASE K = NULL
    <3>1. Lacking(t, n, K) = 0
      BY <2>6 DEF Lacking
    <3>. QED  BY <2>2, <2>3, <2>4, <2>5, <2>6, <3>1
  <2>7. CASE K # NULL
    <3>1. ~(n = p /\ z = s)
      BY <1>2, <1>4, <2>7
    <3>2. H[n] = Black(t, n)
      BY <2>2, <2>3, <3>1
    <3>3. Lacking(t, n, K) = IF K \in Above(t, n) THEN 1 ELSE 0
      BY <2>7 DEF Lacking
    <3>. QED  BY <2>2, <2>4, <2>5, <2>7, <3>2, <3>3
  <2>. QED  BY <2>6, <2>7
<1>5. {BlacksAbove(l[1]) + (IF Through(l) THEN 1 ELSE 0) : l \in Leaves} \subseteq {H[t.root]}
  <2>1. SUFFICES ASSUME NEW l \in Leaves
                 PROVE  BlacksAbove(l[1]) + (IF Through(l) THEN 1 ELSE 0) = H[t.root]
    OBVIOUS
  <2>2. l[1] \in T /\ l[2] \in Sides /\ t.child[l[1]][l[2]] = NULL /\ l = <<l[1], l[2]>>
    BY <1>1, <1>2 DEF Leaves
  <2>3. Through(l) <=> IF K = NULL THEN l[1] = p /\ l[2] = s ELSE K \in Above(t, l[1])
    BY <1>1, <1>3, <2>2 DEF Through
  <2>4. BlacksAbove(l[1]) = Blacks(t, l[1])
    BY <1>1 DEF BlacksAbove, Blacks
  <2>5. Blacks(t, l[1]) + (IF IF K = NULL THEN l[1] = p /\ l[2] = s ELSE K \in Above(t, l[1]) THEN 1 ELSE 0)
          = H[t.root]
    BY <1>4, <2>2
  <2>. QED  BY <2>3, <2>4, <2>5
<1>. QED  BY <1>5, AtMostOne

\* RedBlack follows.
LEMMA RedsAndBlacks == ASSUME NodesAreKeys, TInv PROVE RedBlack
<1>1. PICK T, b, H : At(tree, op, node, parent, T, b, H)
  BY DEF TInv
<1>. SUFFICES ASSUME op = "idle" PROVE RedBlack
  BY DEF RedBlack
<1>2. PICK t : t = tree
  OBVIOUS
<1>3. Between(t, T, b, H) /\ Standing(t, T, b, H)
  BY <1>1, <1>2, AtStanding
<1>4. InTree = T /\ ~RedNode(t, t.root) /\ RedsApart(t, T, NULL)
  BY <1>2, <1>3, TreeOf DEF InTree, Between
<1>5. ASSUME NEW n \in T, NEW s \in Sides, Red(t, n) PROVE ~RedNode(t, t.child[n][s])
  BY <1>4, <1>5 DEF RedsApart, RedNode
<1>6. Cardinality({BlacksAbove(l[1]) : l \in Leaves}) <= 1
  BY <1>2, <1>3, LeavesEven DEF Between
<1>. QED  BY <1>2, <1>4, <1>5, <1>6 DEF RedBlack

\* InsertLoopInvariant follows.
LEMMA InsertLoopHolds == ASSUME NodesAreKeys, TInv PROVE InsertLoopInvariant
<1>1. PICK T, b, H : At(tree, op, node, parent, T, b, H)
  BY DEF TInv
<1>. SUFFICES ASSUME op = "insert" PROVE InsertLoopInvariant
  BY DEF InsertLoopInvariant
<1>2. PICK t, k, p : t = tree /\ k = node /\ p = parent
  OBVIOUS
<1>3. Inserting(t, T, b, H, k, p) /\ Standing(t, T, b, H)
  BY <1>1, <1>2, AtStanding
<1>4. /\ InTree = T /\ Red(t, k) /\ t.parent[k] = p /\ (RedNode(t, t.root) => k = t.root)
      /\ RedsApart(t, T, k)
  BY <1>2, <1>3, TreeOf DEF InTree, Inserting
<1>5. ASSUME NEW n \in T \ {k}, t.parent[n] # NULL, Red(t, n) PROVE ~Red(t, t.parent[n])
  <2>1. n \in T /\ n # NULL /\ n # k
    BY <1>3 DEF Standing, NodesAreKeys
  <2>2. PICK q \in T : q = t.parent[n] /\ \E z \in Sides : t.child[q][z] = n
    BY <1>3, <1>5, <2>1, OneParent
  <2>. QED  BY <1>4, <1>5, <2>1, <2>2 DEF RedsApart, RedNode
<1>6. Cardinality({BlacksAbove(l[1]) : l \in Leaves}) <= 1
  BY <1>2, <1>3, LeavesEven DEF Inserting
<1>. QED  BY <1>2, <1>4, <1>5, <1>6 DEF InsertLoopInvariant

\* EraseLoopInvariant follows.
LEMMA EraseLoopHolds == ASSUME NodesAreKeys, TInv PROVE EraseLoopInvariant
<1>1. PICK T, b, H : At(tree, op, node, parent, T, b, H)
  BY DEF TInv
<1>. SUFFICES ASSUME op = "erase" PROVE EraseLoopInvariant
  BY DEF EraseLoopInvariant
<1>2. PICK t, k, p : t = tree /\ k = node /\ p = parent
  OBVIOUS
<1>3. PICK s : Erasing(t, T, b, H, k, p, s)
  BY <1>1, <1>2, AtStanding
<1>4. Standing(t, T, b, H) /\ p \in T /\ s \in Sides /\ t.child[p][s] = k /\ ~RedNode(t, k) /\ ~RedNode(t, t.root)
      /\ RedsApart(t, T, NULL)
  BY <1>3 DEF Erasing
<1>5. InTree = T /\ p # NULL
  BY <1>2, <1>4, TreeOf DEF InTree, Standing, NodesAreKeys
<1>6. k # NULL => t.parent[k] = p
  BY <1>4, KidIs DEF Offspring
<1>7. ASSUME NEW n \in T, NEW z \in Sides, Red(t, n) PROVE ~RedNode(t, t.child[n][z])
  BY <1>4, <1>7 DEF RedsApart, RedNode
<1>8. Cardinality({BlacksAbove(l[1]) + (IF Through(l) THEN 1 ELSE 0) : l \in Leaves}) <= 1
  BY <1>2, <1>3, LeavesUneven
<1>. QED  BY <1>2, <1>4, <1>5, <1>6, <1>7, <1>8 DEF EraseLoopInvariant

\* WalksInOrder follows.
LEMMA WalksAnswer == ASSUME NodesAreKeys, TInv PROVE WalksInOrder
<1>1. PICK T, b, H : At(tree, op, node, parent, T, b, H)
  BY DEF TInv
<1>2. PICK t : t = tree
  OBVIOUS
<1>3. Standing(t, T, b, H)
  BY <1>1, <1>2, AtStanding
<1>4. InTree = T
  BY <1>2, <1>3, TreeOf DEF InTree
<1>5. rb_first(t) = LeastOf(T) /\ rb_last(t) = GreatestOf(T)
  BY <1>3, ExtremesInOrder
<1>6. ASSUME NEW n \in T
      PROVE  rb_next(t, n) = LeastOf({m \in T : m > n}) /\ rb_prev(t, n) = GreatestOf({m \in T : m < n})
  BY <1>3, NextInOrder, PrevInOrder
<1>. QED  BY <1>2, <1>4, <1>5, <1>6 DEF WalksInOrder

-----------------------------------------------------------------------------

\* One step of NodesAreKept.
KeepsNodes ==
    LET before == InTree
        after == Under(tree', tree'.root)
    IN  IF op = "idle"
        THEN \E n \in Nodes : {n} = (before \ after) \cup (after \ before)
        ELSE after = before

\* One step of RoundsClimb.
Climbs == op # "idle" /\ op' = op /\ parent' # NULL =>
            Cardinality(Above(tree', parent')) < Cardinality(Above(tree, parent))

\* Every step adds or takes away one node, or none.
LEMMA StepKeeps == ASSUME NodesAreKeys, TInv, Next PROVE KeepsNodes
<1>1. PICK T, b, H : At(tree, op, node, parent, T, b, H)
  BY DEF TInv
<1>2. PICK T2, c, K : Stepped(T, b, T2, c, K)
  BY <1>1, TStep
<1>3. PICK t, u : t = tree /\ u = tree'
  OBVIOUS
<1>4. Standing(t, T, b, H) /\ Standing(u, T2, c, K)
  BY <1>1, <1>2, <1>3, AtStanding DEF Stepped
<1>5. Under(t, t.root) = T /\ Under(u, u.root) = T2
  BY <1>4, TreeOf
<1>6. InTree = T /\ Under(tree', tree'.root) = T2
  BY <1>3, <1>5 DEF InTree
<1>7. IF op = "idle" THEN \E n \in Nodes : {n} = (T \ T2) \cup (T2 \ T) ELSE T2 = T
  BY <1>2 DEF Stepped
<1>. QED  BY <1>6, <1>7 DEF KeepsNodes

\* Fewer nodes are above a parent.
LEMMA OneUp ==
    ASSUME NodesAreKeys, NEW t, NEW T, NEW b, NEW H, Standing(t, T, b, H), NEW p \in T,
           NEW q, q = t.parent[p], q # NULL
    PROVE  /\ q \in T /\ Cardinality(Above(t, q)) < Cardinality(Above(t, p))
           /\ Cardinality(Above(t, q)) \in Nat /\ Cardinality(Above(t, p)) \in Nat
<1>1. q \in T /\ \E z \in Sides : t.child[q][z] = p
  BY OneParent
<1>2. PICK z \in Sides : t.child[q][z] = p
  BY <1>1
<1>3. p # NULL /\ t \in Trees /\ q \in Nodes
  BY <1>1 DEF Standing, NodesAreKeys
<1>4. Above(t, p) = Above(t, q) \cup {p} /\ p \notin Above(t, q)
  BY <1>1, <1>2, <1>3, AboveKid
<1>5. IsFiniteSet(Above(t, q)) /\ Cardinality(Above(t, q)) \in Nat
  BY <1>3, BlacksAreFinite, FS_CardinalityType
<1>6. Cardinality(Above(t, p)) = Cardinality(Above(t, q)) + 1
  BY <1>4, <1>5, FS_AddElement
<1>. QED  BY <1>1, <1>5, <1>6

\* Every round of a loop goes up.
LEMMA StepClimbs == ASSUME NodesAreKeys, TInv, Next PROVE Climbs
<1>1. PICK T, b, H : At(tree, op, node, parent, T, b, H)
  BY DEF TInv
<1>2. PICK T2, c, K : Stepped(T, b, T2, c, K)
  BY <1>1, TStep
<1>. SUFFICES ASSUME op # "idle", op' = op, parent' # NULL
              PROVE  Cardinality(Above(tree', parent')) < Cardinality(Above(tree, parent))
  BY DEF Climbs
<1>3. PICK t, u, p, q : t = tree /\ u = tree' /\ p = parent /\ q = parent'
  OBVIOUS
<1>4. Standing(t, T, b, H) /\ Standing(u, T2, c, K) /\ T2 = T /\ Round(t, u, T, b, c, p, q) /\ q # NULL
  BY <1>1, <1>2, <1>3, AtStanding DEF Stepped
<1>5. c = b /\ p \in T /\ (q = t.parent[p] \/ (t.parent[p] \in T /\ q = t.parent[t.parent[p]]))
  BY <1>4 DEF Round, Higher
<1>6. q \in T /\ Cardinality(Above(t, q)) < Cardinality(Above(t, p))
  <2>1. CASE q = t.parent[p]
    BY <1>4, <1>5, <2>1, OneUp
  <2>2. CASE t.parent[p] \in T /\ q = t.parent[t.parent[p]]
    <3>1. PICK g \in T : g = t.parent[p]
      BY <2>2
    <3>2. g # NULL /\ q = t.parent[g]
      BY <1>4, <2>2, <3>1 DEF Standing, NodesAreKeys
    <3>3. /\ Cardinality(Above(t, g)) < Cardinality(Above(t, p))
          /\ Cardinality(Above(t, g)) \in Nat /\ Cardinality(Above(t, p)) \in Nat
      BY <1>4, <1>5, <3>1, <3>2, OneUp
    <3>4. /\ q \in T /\ Cardinality(Above(t, q)) < Cardinality(Above(t, g))
          /\ Cardinality(Above(t, q)) \in Nat
      BY <1>4, <3>1, <3>2, OneUp
    <3>. QED  BY <3>3, <3>4
  <2>. QED  BY <1>5, <2>1, <2>2
<1>7. Above(u, q) = Above(t, q)
  <2>1. /\ t \in Trees /\ u \in Trees /\ T \in SUBSET Nodes /\ b \in Spans /\ Shape(t, T, b) /\ Shape(u, T, b)
        /\ Typed(t) /\ Typed(u)
    BY <1>4, <1>5, TreesAreTyped DEF Standing
  <2>2. PICK d \in T : d = q
    BY <1>6
  <2>3. Above(t, d) = {a \in T : Inside(b, a, d)}
    BY <2>1, AboveIsSpans
  <2>4. Above(u, d) = {a \in T : Inside(b, a, d)}
    BY <2>1, AboveIsSpans
  <2>. QED  BY <2>2, <2>3, <2>4
<1>. QED  BY <1>3, <1>6, <1>7

-----------------------------------------------------------------------------

\* At every head of a loop of rbtree.c both directions of every link agree, for
\* any set of keys.
THEOREM LinksStayAgreed == Spec => []WellLinked
<1>1. TInv => WellLinked
  BY NodesAreKeys, LinksAgree
<1>. QED  BY <1>1, TreeStands, PTL

\* Rotations, erasures and insertions keep the keys in search order, also at the
\* head of every round of a rebalancing.
THEOREM TreeStaysInOrder == Spec => []SearchOrder
<1>1. TInv => SearchOrder
  BY NodesAreKeys, KeysInOrder
<1>. QED  BY <1>1, TreeStands, PTL

\* Whenever no call runs the root is black, no red node has a red child, and all
\* leaves have as many black nodes above them: properties 2, 4 and 5 of rbtree.c.
THEOREM TreeStaysBalanced == Spec => []RedBlack
<1>1. TInv => RedBlack
  BY NodesAreKeys, RedsAndBlacks
<1>. QED  BY <1>1, TreeStands, PTL

\* What __rb_insert relies on at the head of its loop holds in every round.
THEOREM InsertLoopInvariantHolds == Spec => []InsertLoopInvariant
<1>1. TInv => InsertLoopInvariant
  BY NodesAreKeys, InsertLoopHolds
<1>. QED  BY <1>1, TreeStands, PTL

\* The loop invariants ____rb_erase_color states hold in every round.
THEOREM EraseLoopInvariantHolds == Spec => []EraseLoopInvariant
<1>1. TInv => EraseLoopInvariant
  BY NodesAreKeys, EraseLoopHolds
<1>. QED  BY <1>1, TreeStands, PTL

\* rb_first, rb_last, rb_next and rb_prev answer by the keys, whatever calls have
\* shaped the tree.
THEOREM WalksStayInOrder == Spec => []WalksInOrder
<1>1. TInv => WalksInOrder
  BY NodesAreKeys, WalksAnswer
<1>. QED  BY <1>1, TreeStands, PTL

\* A call adds or takes away its own node, and no rotation loses one.
THEOREM NodesStayKept == Spec => NodesAreKept
<1>1. TInv /\ [Next]_vars => [KeepsNodes]_vars
  BY NodesAreKeys, StepKeeps
<1>2. [KeepsNodes]_vars <=> 
          [LET before == InTree
               after == Under(tree', tree'.root)
           IN  IF op = "idle"
               THEN \E n \in Nodes : {n} = (before \ after) \cup (after \ before)
               ELSE after = before]_vars
  BY DEF KeepsNodes
<1>. QED  BY <1>1, <1>2, TreeStands, PTL DEF Spec, NodesAreKept

\* A loop of rbtree.c that goes round again stands nearer to the root.
THEOREM LoopsClimb == Spec => RoundsClimb
<1>1. TInv /\ [Next]_vars => [Climbs]_vars
  BY NodesAreKeys, StepClimbs
<1>2. [Climbs]_vars <=>
        [op # "idle" /\ op' = op /\ parent' # NULL =>
            Cardinality(Above(tree', parent')) < Cardinality(Above(tree, parent))]_vars
  BY DEF Climbs
<1>. QED  BY <1>1, <1>2, TreeStands, PTL DEF Spec, RoundsClimb

\* Taking a tree down does to it what the calls do, or nothing.
LEMMA DrainStepIsStep == ASSUME NodesAreKeys, TInv, [DrainNext]_drainVars PROVE [Next]_vars
<1>1. InTree \subseteq Nodes
  <2>1. PICK T, b, H : At(tree, op, node, parent, T, b, H)
    BY DEF TInv
  <2>2. Standing(tree, T, b, H)
    BY <2>1, AtStanding
  <2>. QED  BY <2>2, TreeOf DEF InTree, Standing
<1>2. CASE DrainBody
  <2>1. Erase(drain.pos) \/ UNCHANGED vars
    BY <1>2 DEF DrainBody
  <2>2. Erase(drain.pos) => drain.pos \in Nodes
    BY <1>1 DEF Erase
  <2>. QED  BY <2>1, <2>2 DEF Next
<1>3. CASE DrainRound \/ DrainEnd \/ \E body \in Bodies : DrainBegin(body)
  BY <1>3 DEF DrainRound, DrainEnd, DrainBegin
<1>4. CASE Rebalance \/ \E n \in Nodes : Insert(n) \/ Erase(n)
  BY <1>4 DEF Next
<1>5. CASE UNCHANGED drainVars
  BY <1>5 DEF drainVars
<1>. QED  BY <1>2, <1>3, <1>4, <1>5 DEF DrainNext, DrainStep

\* A tree that rbtree_postorder_for_each_entry_safe takes down behaves as one
\* that is only called, so all of the above holds of it too.
THEOREM DrainKeepsTree == DrainSpec => Spec
<1>. USE NodesAreKeys
<1>1. DrainInit => Init
  BY DEF DrainInit
<1>2. Init => TInv
  BY TInit
<1>3. TInv /\ [DrainNext]_drainVars => [Next]_vars
  BY DrainStepIsStep
<1>4. TInv /\ [Next]_vars => TInv'
  BY TInductive
<1>. QED  BY <1>1, <1>2, <1>3, <1>4, PTL DEF Spec, DrainSpec

-----------------------------------------------------------------------------
(* Postorder: the loop that takes a tree down.                             *)

\* x comes before y: it is under y, or to the left of it.
Before(b, x, y) == x # y /\ (Inside(b, y, x) \/ (~Inside(b, x, y) /\ x < y))
\* What comes before n.
Earlier(T, b, n) == {x \in T : Before(b, x, n)}

\* Of two nodes at most one is under the other.
LEMMA OneInside ==
    ASSUME NodesAreKeys, NEW t, NEW T \in SUBSET Nodes, NEW b \in Spans, Shape(t, T, b),
           NEW x \in T, NEW y \in T, x # y, Inside(b, y, x)
    PROVE  ~Inside(b, x, y)
<1>1. SpanTypes(T, b) /\ Around(T, b) /\ Nested(T, b)
  BY SpansAreInts DEF Shape
<1>2. CASE x < y
  <2>1. NestedPair(b, x, y)
    BY <1>1, <1>2 DEF Nested
  <2>. QED  BY <1>1, <1>2, <2>1 DEF NestedPair, SpanTypes, Around, Inside
<1>3. CASE y < x
  <2>1. NestedPair(b, y, x)
    BY <1>1, <1>3 DEF Nested
  <2>. QED  BY <1>1, <1>3, <2>1 DEF NestedPair, SpanTypes, Around, Inside
<1>. QED  BY <1>1, <1>2, <1>3 DEF SpanTypes

\* f goes down on the left, and on the right where there is no left.
IsDeepest(f, t) ==
    f = [m \in Nodes |-> IF t.child[m]["left"] # NULL THEN f[t.child[m]["left"]]
                         ELSE IF t.child[m]["right"] # NULL THEN f[t.child[m]["right"]] ELSE m]

\* d is under r, and nothing under r comes before it.
Deepest(T, b, r, d) == d \in T /\ Inside(b, r, d) /\ \A y \in T : Inside(b, r, y) => ~Before(b, y, d)

\* The nodes under m are under k, or come after what is under k.
LEMMA DeepestKid ==
    ASSUME NodesAreKeys, NEW t, NEW T \in SUBSET Nodes, NEW b \in Spans, Shape(t, T, b),
           NEW m \in T, NEW s \in Sides, s = "left" \/ t.child[m]["left"] = NULL,
           NEW k, k = t.child[m][s], k # NULL, NEW d, Deepest(T, b, k, d)
    PROVE  Deepest(T, b, m, d)
<1>1. SpanTypes(T, b) /\ Around(T, b) /\ Narrowing(t, T, b)
  BY SpansAreInts, KidNarrower DEF Shape
<1>2. k \in T /\ b[k][s] = b[m][s] /\ b[k][Other(s)] = m
  BY <1>1 DEF Narrowing
<1>3. d \in T /\ Inside(b, k, d) /\ \A y \in T : Inside(b, k, y) => ~Before(b, y, d)
  BY DEF Deepest
<1>4. Within(b, k, d)
  BY <1>2, <1>3, SpansNest
<1>5. /\ m \in Int /\ k \in Int /\ d \in Int /\ b[m]["left"] \in Int /\ b[m]["right"] \in Int
      /\ b[k]["left"] \in Int /\ b[k]["right"] \in Int /\ b[d]["left"] \in Int /\ b[d]["right"] \in Int
      /\ b[m]["left"] < m /\ m < b[m]["right"]
  BY <1>1, <1>2, <1>3 DEF SpanTypes, Around
<1>6. Inside(b, m, d)
  BY <1>2, <1>3, <1>5 DEF Inside, Sides, Other
<1>7. ASSUME NEW y \in T, Inside(b, m, y), Before(b, y, d) PROVE FALSE
  <2>1. y \in Int /\ ~Inside(b, k, y)
    BY <1>1, <1>3, <1>7 DEF SpanTypes
  <2>2. y # d /\ (Inside(b, d, y) \/ (~Inside(b, y, d) /\ y < d))
    BY <1>7 DEF Before
  <2>3. CASE s = "left"
    <3>1. b[k]["left"] = b[m]["left"] /\ b[k]["right"] = m
      BY <1>2, <2>3 DEF Other
    <3>2. m <= y
      BY <1>5, <1>7, <2>1, <3>1 DEF Inside
    <3>3. ~Inside(b, d, y) /\ d < m
      BY <1>3, <1>4, <1>5, <2>1, <3>1, <3>2 DEF Inside, Within
    <3>. QED  BY <1>5, <2>1, <2>2, <3>2, <3>3
  <2>4. CASE s = "right"
    <3>1. b[k]["left"] = m /\ b[k]["right"] = b[m]["right"] /\ t.child[m]["left"] = NULL
      BY <1>2, <2>4 DEF Other
    <3>2. y <= b[m]["left"] \/ m <= y
      BY <3>1 DEF Shape, Gaps
    <3>3. y = m
      BY <1>5, <1>7, <2>1, <3>1, <3>2 DEF Inside
    <3>4. ~Inside(b, d, y)
      BY <1>4, <1>5, <3>1, <3>3 DEF Inside, Within
    <3>. QED  BY <1>6, <2>2, <3>3, <3>4
  <2>. QED  BY <2>3, <2>4 DEF Sides
<1>. QED  BY <1>3, <1>6, <1>7 DEF Deepest

\* A node without children is the first of those under it.
LEMMA DeepestLeaf ==
    ASSUME NodesAreKeys, NEW t, NEW T \in SUBSET Nodes, NEW b \in Spans, Shape(t, T, b),
           NEW m \in T, t.child[m]["left"] = NULL, t.child[m]["right"] = NULL
    PROVE  Deepest(T, b, m, m)
<1>1. SpanTypes(T, b) /\ b[m]["left"] < m /\ m < b[m]["right"]
  BY SpansAreInts DEF Shape, Around
<1>2. ASSUME NEW y \in T, Inside(b, m, y) PROVE y = m
  <2>1. (y <= b[m]["left"] \/ m <= y) /\ (y <= m \/ b[m]["right"] <= y)
    BY DEF Shape, Gaps
  <2>. QED  BY <1>1, <1>2, <2>1 DEF SpanTypes, Inside
<1>3. Inside(b, m, m)
  BY <1>1 DEF Inside
<1>. QED  BY <1>2, <1>3 DEF Deepest, Before

\* rb_left_deepest_node finds the first of the nodes under r.
LEMMA LeftDeepestIs ==
    ASSUME NodesAreKeys, NEW t, NEW T \in SUBSET Nodes, NEW b \in Spans, Shape(t, T, b), NEW n \in T
    PROVE  Deepest(T, b, n, rb_left_deepest_node(t, n))
<1>1. PICK w \in Nat : \A m \in T : Width(b, m) \in Nat /\ Width(b, m) < w
  BY Widths
<1>2. "left" \in Sides /\ "right" \in Sides /\ Narrowing(t, T, b)
  BY KidNarrower DEF Sides
<1> DEFINE Down(m) == IF t.child[m]["left"] # NULL THEN t.child[m]["left"] ELSE t.child[m]["right"]
           Stop == {m \in Nodes : Down(m) = NULL}
           val == [m \in Nodes |-> m]
           next == [m \in Nodes |-> Down(m)]
           r == [m \in Nodes |-> IF m \in T THEN Width(b, m) ELSE 0]
<1>3. Ranked(Nodes, Stop, next, r, w + 1)
  <2>1. ASSUME NEW m \in Nodes, m \notin Stop PROVE next[m] \in Nodes /\ r[next[m]] < r[m]
    <3>1. m \in T
      BY <1>2, <2>1 DEF Shape, Blank
    <3>2. PICK s \in Sides : t.child[m][s] # NULL /\ Down(m) = t.child[m][s]
      BY <1>2, <2>1
    <3>3. next[m] \in T /\ Width(b, next[m]) < Width(b, m)
      BY <1>2, <3>1, <3>2 DEF Narrowing
    <3>4. next[m] \in Nodes /\ r[next[m]] = Width(b, next[m]) /\ r[m] = Width(b, m)
      BY <3>1, <3>3
    <3>. QED  BY <3>3, <3>4
  <2>. QED  BY <1>1, <2>1 DEF Ranked
<1>4. \E f : IsDeepest(f, t)
  <2>1. w + 1 \in Nat
    BY <1>1
  <2>2. PICK f : IsWalk(f, Nodes, Stop, val, next)
    <3>. HIDE DEF Stop, val, next, r
    <3>. QED  BY <1>3, <2>1, WalkExists
  <2>3. ASSUME NEW m \in Nodes
        PROVE  (IF m \in Stop THEN val[m] ELSE f[next[m]])
                 = IF t.child[m]["left"] # NULL THEN f[t.child[m]["left"]]
                   ELSE IF t.child[m]["right"] # NULL THEN f[t.child[m]["right"]] ELSE m
    OBVIOUS
  <2>4. f = [m \in Nodes |-> IF t.child[m]["left"] # NULL THEN f[t.child[m]["left"]]
                             ELSE IF t.child[m]["right"] # NULL THEN f[t.child[m]["right"]] ELSE m]
    BY <2>2, <2>3, Zenon DEF IsWalk
  <2>. QED  BY <2>4 DEF IsDeepest
<1>5. PICK f : IsDeepest(f, t) /\ rb_left_deepest_node(t, n) = f[n]
  <2>1. rb_left_deepest_node(t, n) = (CHOOSE f : IsDeepest(f, t))[n]
    BY DEF rb_left_deepest_node, IsDeepest
  <2>. QED  BY <1>4, <2>1
<1> DEFINE X == {m \in T : ~Deepest(T, b, m, f[m])}
<1>6. X = {}
  <2>1. SUFFICES ASSUME X # {} PROVE FALSE
    OBVIOUS
  <2>2. PICK m \in X : \A y \in X : Width(b, m) <= Width(b, y)
    BY <2>1, Narrowest
  <2>3. m \in T /\ f[m] = IF t.child[m]["left"] # NULL THEN f[t.child[m]["left"]]
                          ELSE IF t.child[m]["right"] # NULL THEN f[t.child[m]["right"]] ELSE m
    BY <1>5, <2>2 DEF IsDeepest
  <2>4. CASE t.child[m]["left"] = NULL /\ t.child[m]["right"] = NULL
    <3>1. Deepest(T, b, m, m)
      BY <2>3, <2>4, DeepestLeaf
    <3>. QED  BY <2>2, <2>3, <2>4, <3>1
  <2>5. CASE \E s \in Sides : t.child[m][s] # NULL
    <3>1. PICK s \in Sides : /\ t.child[m][s] # NULL /\ (s = "left" \/ t.child[m]["left"] = NULL)
                             /\ f[m] = f[t.child[m][s]]
      BY <1>2, <2>3, <2>5 DEF Sides
    <3>2. PICK k : k = t.child[m][s]
      OBVIOUS
    <3>3. k \in T /\ Width(b, k) < Width(b, m)
      BY <1>2, <2>3, <3>1, <3>2 DEF Narrowing
    <3>4. k \notin X
      BY <1>1, <2>2, <2>3, <3>3
    <3>5. Deepest(T, b, k, f[k])
      BY <3>3, <3>4
    <3>6. PICK d : d = f[k]
      OBVIOUS
    <3>7. Deepest(T, b, m, d)
      BY <2>3, <3>1, <3>2, <3>5, <3>6, DeepestKid
    <3>. QED  BY <2>2, <3>1, <3>2, <3>6, <3>7
  <2>. QED  BY <1>2, <2>4, <2>5
<1>. QED  BY <1>5, <1>6

\* q comes next after n, NULL if n is the last.
NextIn(t, T, b, n, q) ==
    IF t.parent[n] = NULL THEN q = NULL /\ T = Earlier(T, b, n) \cup {n}
    ELSE q \in T /\ Before(b, n, q) /\ Earlier(T, b, q) = Earlier(T, b, n) \cup {n}

\* Under p, to the left of its right child, is the left child and what is under it.
LEMMA LeftThenRight ==
    ASSUME NodesAreKeys, NEW t, NEW T \in SUBSET Nodes, NEW b \in Spans, Shape(t, T, b), NEW p \in T,
           NEW n, n = t.child[p]["left"], n # NULL, NEW r, r = t.child[p]["right"], r # NULL,
           NEW q, Deepest(T, b, r, q)
    PROVE  q \in T /\ Before(b, n, q) /\ Earlier(T, b, q) = Earlier(T, b, n) \cup {n}
<1>1. SpanTypes(T, b) /\ Around(T, b) /\ Narrowing(t, T, b) /\ Nested(T, b)
  BY SpansAreInts, KidNarrower DEF Shape
<1>2. /\ n \in T /\ b[n]["left"] = b[p]["left"] /\ b[n]["right"] = p /\ t.parent[n] = p
      /\ r \in T /\ b[r]["left"] = p /\ b[r]["right"] = b[p]["right"]
  BY <1>1 DEF Narrowing, Sides, Other
<1>3. q \in T /\ Inside(b, r, q) /\ \A y \in T : Inside(b, r, y) => ~Before(b, y, q)
  BY DEF Deepest
<1>4. Within(b, r, q)
  BY <1>2, <1>3, SpansNest
<1>5. /\ p \in Int /\ n \in Int /\ q \in Int /\ r \in Int /\ b[p]["left"] \in Int /\ b[p]["right"] \in Int
      /\ b[q]["left"] \in Int /\ b[q]["right"] \in Int
      /\ b[p]["left"] < n /\ n < p /\ p < b[p]["right"]
      /\ p < q /\ q < b[p]["right"] /\ p <= b[q]["left"]
  BY <1>1, <1>2, <1>3, <1>4 DEF SpanTypes, Around, Inside, Within
<1>6. Before(b, n, q)
  BY <1>2, <1>5 DEF Before, Inside
<1>7. ASSUME NEW x \in T, Before(b, x, q), x # n PROVE Before(b, x, n)
  <2>1. x \in Int /\ b[x]["left"] \in Int /\ b[x]["right"] \in Int
    BY <1>1 DEF SpanTypes
  <2>2. ~Inside(b, r, x)
    BY <1>3, <1>7
  <2>3. ~Inside(b, q, x)
    <3>1. Inside(b, q, x) => Inside(b, r, x)
      BY <1>2, <1>4, <1>5, <2>1 DEF Inside, Within
    <3>. QED  BY <2>2, <3>1
  <2>4. ~Inside(b, x, q) /\ x < q
    BY <1>7, <2>3 DEF Before
  <2>5. x # p
    BY <1>5, <2>4 DEF Inside
  <2>6. x < p
    BY <1>2, <1>5, <2>1, <2>2, <2>4, <2>5 DEF Inside
  <2>7. CASE Inside(b, n, x)
    BY <1>7, <2>7 DEF Before
  <2>8. CASE ~Inside(b, n, x)
    <3>1. x < n
      BY <1>2, <1>5, <2>1, <2>6, <2>8 DEF Inside
    <3>2. ASSUME Inside(b, x, n) PROVE FALSE
      <4>1. Inside(b, x, p)
        BY <1>2, <1>7, <3>2, ParentInside
      <4>2. Within(b, x, p)
        BY <4>1, SpansNest
      <4>3. Inside(b, x, q)
        BY <1>5, <2>1, <4>2 DEF Inside, Within
      <4>. QED  BY <2>4, <4>3
    <3>. QED  BY <1>7, <3>1, <3>2 DEF Before
  <2>. QED  BY <2>7, <2>8
<1>8. ASSUME NEW x \in T, Before(b, x, n) PROVE Before(b, x, q)
  <2>1. x \in Int /\ b[x]["left"] \in Int /\ b[x]["right"] \in Int /\ b[x]["left"] < x /\ x < b[x]["right"]
    BY <1>1 DEF SpanTypes, Around
  <2>2. CASE Inside(b, n, x)
    <3>1. Within(b, n, x)
      BY <1>2, <2>2, SpansNest
    <3>. QED  BY <1>2, <1>5, <2>1, <2>2, <3>1 DEF Before, Inside, Within
  <2>3. CASE ~Inside(b, n, x)
    <3>1. ~Inside(b, x, n) /\ x < n
      BY <1>8, <2>3 DEF Before
    <3>2. NestedPair(b, x, p)
      <4>1. x < p
        BY <1>5, <2>1, <3>1
      <4>. QED  BY <1>1, <4>1 DEF Nested
    <3>3. ~Inside(b, x, q)
      BY <1>5, <2>1, <3>1, <3>2 DEF NestedPair, Inside
    <3>. QED  BY <1>5, <2>1, <3>1, <3>3 DEF Before
  <2>. QED  BY <2>2, <2>3
<1>. QED  BY <1>2, <1>3, <1>6, <1>7, <1>8 DEF Earlier

\* After the last child of p comes p.
LEMMA KidThenParent ==
    ASSUME NodesAreKeys, NEW t, NEW T \in SUBSET Nodes, NEW b \in Spans, Shape(t, T, b), NEW p \in T,
           NEW s \in Sides, s = "right" \/ t.child[p]["right"] = NULL, NEW n, n = t.child[p][s], n # NULL
    PROVE  Before(b, n, p) /\ Earlier(T, b, p) = Earlier(T, b, n) \cup {n}
<1>1. SpanTypes(T, b) /\ Around(T, b) /\ Narrowing(t, T, b)
  BY SpansAreInts, KidNarrower DEF Shape
<1>2. n \in T /\ b[n][s] = b[p][s] /\ b[n][Other(s)] = p /\ t.parent[n] = p
  BY <1>1 DEF Narrowing
<1>3. /\ p \in Int /\ n \in Int /\ b[p]["left"] \in Int /\ b[p]["right"] \in Int
      /\ b[n]["left"] \in Int /\ b[n]["right"] \in Int
      /\ b[p]["left"] < p /\ p < b[p]["right"] /\ b[n]["left"] < n /\ n < b[n]["right"]
  BY <1>1, <1>2 DEF SpanTypes, Around
<1>4. n # p /\ Inside(b, p, n) /\ b[p]["left"] <= b[n]["left"] /\ b[n]["right"] <= b[p]["right"] /\ ~Inside(b, n, p)
  BY <1>2, <1>3 DEF Inside, Sides, Other
<1>5. Before(b, n, p)
  BY <1>4 DEF Before
<1>6. ASSUME NEW x \in T, Before(b, x, p), x # n PROVE Before(b, x, n)
  <2>1. x \in Int /\ x # p /\ (Inside(b, p, x) \/ (~Inside(b, x, p) /\ x < p))
    BY <1>1, <1>6 DEF SpanTypes, Before
  <2>2. ~Inside(b, x, p)
    BY <2>1, OneInside
  <2>3. ~Inside(b, x, n)
    <3>1. Inside(b, x, n) => Inside(b, x, p)
      BY <1>2, <1>6, ParentInside
    <3>. QED  BY <2>2, <3>1
  <2>4. CASE Inside(b, n, x)
    BY <1>6, <2>4 DEF Before
  <2>5. CASE ~Inside(b, n, x)
    <3>1. CASE s = "left"
      <4>1. x <= p \/ b[p]["right"] <= x
        BY <3>1 DEF Shape, Gaps
      <4>2. b[n]["left"] = b[p]["left"] /\ b[n]["right"] = p
        BY <1>2, <3>1 DEF Other
      <4>3. x < n
        BY <1>3, <2>1, <2>5, <4>1, <4>2 DEF Inside
      <4>. QED  BY <1>6, <2>3, <4>3 DEF Before
    <3>2. CASE s = "right"
      <4>1. b[n]["right"] = b[p]["right"] /\ b[n]["left"] = p
        BY <1>2, <3>2 DEF Other
      <4>2. x < n
        BY <1>3, <2>1, <2>5, <4>1 DEF Inside
      <4>. QED  BY <1>6, <2>3, <4>2 DEF Before
    <3>. QED  BY <3>1, <3>2 DEF Sides
  <2>. QED  BY <2>4, <2>5
<1>7. ASSUME NEW x \in T, Before(b, x, n) PROVE Before(b, x, p)
  <2>1. x \in Int /\ b[x]["left"] \in Int /\ b[x]["right"] \in Int /\ b[x]["left"] < x /\ x < b[x]["right"]
    BY <1>1 DEF SpanTypes, Around
  <2>2. x # n /\ (Inside(b, n, x) \/ (~Inside(b, x, n) /\ x < n))
    BY <1>7 DEF Before
  <2>3. ASSUME Inside(b, x, p) PROVE Inside(b, x, n)
    <3>1. Within(b, x, p)
      BY <2>3, SpansNest
    <3>. QED  BY <1>3, <1>4, <2>1, <3>1 DEF Inside, Within
  <2>4. x # p
    BY <1>4, <1>7, <2>2
  <2>5. CASE Inside(b, p, x)
    BY <2>4, <2>5 DEF Before
  <2>6. CASE ~Inside(b, p, x)
    <3>1. ~Inside(b, n, x)
      BY <1>3, <1>4, <2>1, <2>6 DEF Inside
    <3>2. ~Inside(b, x, p) /\ x < n
      BY <2>2, <2>3, <3>1
    <3>3. x < p
      BY <1>3, <1>4, <2>1, <2>6, <3>2 DEF Inside
    <3>. QED  BY <2>4, <3>2, <3>3 DEF Before
  <2>. QED  BY <2>5, <2>6
<1>. QED  BY <1>2, <1>5, <1>6, <1>7 DEF Earlier

\* rb_next_postorder finds the next node in postorder.
LEMMA NextPostorderIs ==
    ASSUME NodesAreKeys, NEW t, NEW T, NEW b, NEW H, Standing(t, T, b, H), NEW n \in T
    PROVE  NextIn(t, T, b, n, rb_next_postorder(t, n))
<1>1. T \in SUBSET Nodes /\ b \in Spans /\ Shape(t, T, b) /\ NULL \notin T
  BY DEF Standing, NodesAreKeys
<1>2. PICK q, p : q = rb_next_postorder(t, n) /\ p = t.parent[n]
  OBVIOUS
<1>3. q = IF p # NULL /\ n = t.child[p]["left"] /\ t.child[p]["right"] # NULL
          THEN rb_left_deepest_node(t, t.child[p]["right"]) ELSE p
  BY <1>2 DEF rb_next_postorder
<1>4. p = NULL <=> n = t.root
  BY <1>2, KidsAndRoot
<1>5. CASE p = NULL
  <2>1. \A x \in T : Inside(b, n, x)
    BY <1>1, <1>4, <1>5 DEF Shape, Rooted, Inside
  <2>2. T = Earlier(T, b, n) \cup {n}
    BY <2>1 DEF Earlier, Before
  <2>. QED  BY <1>2, <1>3, <1>5, <2>2 DEF NextIn
<1>6. CASE p # NULL
  <2>1. p \in T /\ \E s \in Sides : t.child[p][s] = n
    BY <1>2, <1>6, OneParent
  <2>2. PICK s \in Sides : t.child[p][s] = n
    BY <2>1
  <2>3. n # NULL
    BY <1>1
  <2>4. PICK r : r = t.child[p]["right"]
    OBVIOUS
  <2>5. CASE n = t.child[p]["left"] /\ r # NULL
    <3>1. r \in T
      BY <2>1, <2>4, <2>5, KidIs DEF Offspring, Sides
    <3>2. Deepest(T, b, r, q)
      BY <1>1, <1>3, <1>6, <2>4, <2>5, <3>1, LeftDeepestIs
    <3>3. q \in T /\ Before(b, n, q) /\ Earlier(T, b, q) = Earlier(T, b, n) \cup {n}
      BY <1>1, <2>1, <2>3, <2>4, <2>5, <3>2, LeftThenRight
    <3>. QED  BY <1>2, <1>6, <3>3 DEF NextIn
  <2>6. CASE ~(n = t.child[p]["left"] /\ r # NULL)
    <3>1. q = p
      BY <1>3, <2>4, <2>6
    <3>2. p \in T /\ (s = "right" \/ t.child[p]["right"] = NULL) /\ n = t.child[p][s]
      BY <2>1, <2>2, <2>4, <2>6 DEF Sides
    <3>3. Before(b, n, p) /\ Earlier(T, b, p) = Earlier(T, b, n) \cup {n}
      BY <1>1, <2>3, <3>2, KidThenParent
    <3>. QED  BY <1>2, <1>6, <2>1, <3>1, <3>3 DEF NextIn
  <2>. QED  BY <2>5, <2>6
<1>. QED  BY <1>5, <1>6

\* q is the first node, NULL if there is none.
FirstIn(T, b, q) == IF T = {} THEN q = NULL ELSE q \in T /\ Earlier(T, b, q) = {}

\* rb_first_postorder finds a node that none comes before.
LEMMA FirstPostorderIs ==
    ASSUME NodesAreKeys, NEW t, NEW T, NEW b, NEW H, Standing(t, T, b, H)
    PROVE  FirstIn(T, b, rb_first_postorder(t))
<1>1. T \in SUBSET Nodes /\ b \in Spans /\ Shape(t, T, b) /\ NULL \notin T
  BY DEF Standing, NodesAreKeys
<1>2. CASE T = {}
  BY <1>1, <1>2 DEF Shape, Rooted, rb_first_postorder, FirstIn
<1>3. CASE T # {}
  <2>1. PICK r \in T : r = t.root /\ \A x \in T : Inside(b, r, x)
    BY <1>1, <1>3 DEF Shape, Rooted, Inside
  <2>2. PICK q : q = rb_left_deepest_node(t, r)
    OBVIOUS
  <2>3. Deepest(T, b, r, q)
    BY <1>1, <2>2, LeftDeepestIs
  <2>4. q \in T /\ Earlier(T, b, q) = {}
    BY <2>1, <2>3 DEF Deepest, Earlier
  <2>5. rb_first_postorder(t) = q
    BY <1>1, <2>1, <2>2 DEF rb_first_postorder
  <2>. QED  BY <1>3, <2>4, <2>5 DEF FirstIn
<1>. QED  BY <1>2, <1>3

\* What rb_next_postorder reads of the tree comes after what was met.
LEMMA ReadsAreLater ==
    ASSUME NodesAreKeys, NEW t, NEW T, NEW b, NEW H, Standing(t, T, b, H), NEW n \in T
    PROVE  PostorderReads(t, n) \cap Earlier(T, b, n) = {}
<1>1. T \in SUBSET Nodes /\ b \in Spans /\ Shape(t, T, b) /\ NULL \notin T /\ Typed(t) /\ t \in Trees
  BY TreesAreTyped DEF Standing, NodesAreKeys
<1>2. PICK q, p : q = rb_next_postorder(t, n) /\ p = t.parent[n]
  OBVIOUS
<1>3. ~Before(b, n, n)
  BY DEF Before
<1>4. CASE p = NULL
  <2>1. PostorderReads(t, n) = {n}
    BY <1>2, <1>4 DEF PostorderReads
  <2>. QED  BY <1>3, <2>1 DEF Earlier
<1>5. CASE p # NULL
  <2>1. p \in T /\ \E s \in Sides : t.child[p][s] = n
    BY <1>2, <1>5, OneParent
  <2>2. PICK s \in Sides : t.child[p][s] = n
    BY <2>1
  <2>3. n # NULL /\ Narrowing(t, T, b) /\ SpanTypes(T, b) /\ Around(T, b)
    BY <1>1, KidNarrower, SpansAreInts DEF Shape
  <2>4. b[n][s] = b[p][s] /\ b[n][Other(s)] = p
    BY <2>1, <2>2, <2>3 DEF Narrowing
  <2>5. /\ p \in Int /\ n \in Int /\ b[p]["left"] \in Int /\ b[p]["right"] \in Int
        /\ b[n]["left"] \in Int /\ b[n]["right"] \in Int
        /\ b[p]["left"] < p /\ p < b[p]["right"] /\ b[n]["left"] < n /\ n < b[n]["right"]
    BY <2>1, <2>3 DEF SpanTypes, Around
  <2>6. n # p /\ Inside(b, p, n) /\ ~Inside(b, n, p)
    BY <2>4, <2>5 DEF Inside, Sides, Other
  <2>7. ~Before(b, p, n)
    BY <2>6 DEF Before
  <2>8. ASSUME NEW m \in Under(t, t.child[p]["right"]), q \in Under(t, m) PROVE ~Before(b, m, n)
    <3>1. PICK r : r = t.child[p]["right"]
      OBVIOUS
    <3>2. r # NULL
      BY <1>1, <2>8, <3>1, UnderNull
    <3>3. r \in T /\ b[r]["left"] = p
      BY <2>1, <2>3, <3>1, <3>2 DEF Narrowing, Sides, Other
    <3>4. Under(t, r) = {x \in T : Inside(b, r, x)}
      BY <1>1, <3>3, UnderIsSpan
    <3>5. m \in T /\ Inside(b, r, m)
      BY <2>8, <3>1, <3>4
    <3>6. m \in Int /\ p < m /\ b[m]["left"] \in Int /\ b[m]["right"] \in Int
      BY <2>3, <3>3, <3>5 DEF Inside, SpanTypes
    <3>7. CASE n = t.child[p]["left"]
      <4>1. s = "left"
        <5>1. t.child[p]["left"] # t.child[p]["right"]
          BY <2>1, <2>3, <3>7, KidIs DEF Offspring, Sides, Other
        <5>. QED  BY <2>2, <3>7, <5>1 DEF Sides
      <4>2. b[n]["right"] = p
        BY <2>4, <4>1 DEF Other
      <4>. QED  BY <2>5, <3>6, <4>2 DEF Before, Inside
    <3>8. CASE n # t.child[p]["left"]
      <4>1. q = p
        BY <1>2, <3>8 DEF rb_next_postorder
      <4>2. Within(b, r, m)
        BY <1>1, <3>3, <3>5, SpansNest
      <4>3. ~Inside(b, m, p)
        BY <2>5, <3>3, <3>6, <4>2 DEF Within, Inside
      <4>4. Under(t, m) = {x \in T : Inside(b, m, x)}
        BY <1>1, <3>5, UnderIsSpan
      <4>. QED  BY <2>8, <4>1, <4>3, <4>4
    <3>. QED  BY <3>7, <3>8
  <2>9. PostorderReads(t, n) = {n, p} \cup {m \in Under(t, t.child[p]["right"]) : q \in Under(t, m)}
    BY <1>2, <1>5 DEF PostorderReads
  <2>. QED  BY <1>3, <2>7, <2>8, <2>9 DEF Earlier
<1>. QED  BY <1>4, <1>5

-----------------------------------------------------------------------------
(* The loop that takes a tree down.                                        *)

\* What drain holds while a loop runs.
Loops == [on : {TRUE}, body : Bodies, ran : BOOLEAN, pos : Links, n : Links, began : SUBSET Nodes, met : SUBSET Nodes]

\* Where a loop stands that only releases its nodes: it has met those before pos.
Releasing(d, t, T, b, o) ==
    /\ o = "idle" /\ d.began = T /\ d.n = After(t, d.pos)
    /\ d.pos = NULL => ~d.ran /\ d.met = T
    /\ d.pos # NULL => d.pos \in T /\ d.met = IF d.ran THEN Earlier(T, b, d.pos) \cup {d.pos} ELSE Earlier(T, b, d.pos)

\* The node a loop runs its body for next.
NextMet(d) == IF d.ran THEN d.n ELSE d.pos

\* Where a loop stands that erases them: what it has met is gone, what it holds
\* is not, and of at most three nodes it goes on with the first that is left.
Felling(d, t, T, o) ==
    /\ o # "insert" /\ d.met \subseteq d.began /\ T = d.began \ d.met
    /\ d.ran => d.pos \in d.met /\ d.n \in T \cup {NULL}
    /\ ~d.ran => o = "idle" /\ d.pos \in T \cup {NULL} /\ d.n = After(t, d.pos)
    /\ Cardinality(d.began) <= 3 => NextMet(d) = rb_first_postorder(t)

\* Where a loop stands, if one runs.
Draining(d, t, T, b, o) ==
    \/ d = NoDrain
    \/ d \in Loops /\ d.body = "release" /\ Releasing(d, t, T, b, o)
    \/ d \in Loops /\ d.body = "erase" /\ Felling(d, t, T, o)

\* The invariant of the tree, and with it where the loop stands.
DInv == \E T, b, H : At(tree, op, node, parent, T, b, H) /\ Draining(drain, tree, T, b, op)

\* A loop that is on is one.
LEMMA LoopIsOn ==
    ASSUME NEW d, NEW t, NEW T, NEW b, NEW o, Draining(d, t, T, b, o)
    PROVE  IF d.on THEN d \in Loops /\ d.body \in Bodies ELSE d = NoDrain
<1>1. ~NoDrain.on
  BY DEF NoDrain
<1>2. d \in Loops => d.on /\ d.body \in Bodies
  BY DEF Loops
<1>. QED  BY <1>1, <1>2 DEF Draining

\* What the two assignments of a loop make of it.
LEMMA LoopRuns ==
    ASSUME NEW d \in Loops, NEW u, u = [d EXCEPT !.ran = TRUE, !.met = @ \cup {d.pos}], d.pos \in Nodes
    PROVE  u \in Loops /\ u.body = d.body /\ u.ran /\ u.pos = d.pos /\ u.n = d.n /\ u.began = d.began
           /\ u.met = d.met \cup {d.pos}
  BY DEF Loops

\* What comes after a node of the tree is another one, or NULL.
LEMMA AfterIs ==
    ASSUME NodesAreKeys, NEW t, NEW T, NEW b, NEW H, Standing(t, T, b, H), NEW n \in T
    PROVE  /\ After(t, n) \in (T \cup {NULL}) \ {n} /\ NULL \notin T
           /\ After(t, n) = NULL => T = Earlier(T, b, n) \cup {n}
           /\ After(t, n) # NULL => Earlier(T, b, After(t, n)) = Earlier(T, b, n) \cup {n}
<1>1. NULL \notin T /\ ~Before(b, n, n)
  BY DEF Standing, NodesAreKeys, Before
<1>2. PICK q : q = rb_next_postorder(t, n)
  OBVIOUS
<1>3. After(t, n) = q /\ NextIn(t, T, b, n, q)
  BY <1>1, <1>2, NextPostorderIs DEF After
<1>. QED  BY <1>1, <1>3 DEF NextIn

\* Only one node is the first.
LEMMA OneFirst ==
    ASSUME NodesAreKeys, NEW T \in SUBSET Nodes, NEW b, NEW x, NEW y, FirstIn(T, b, x), FirstIn(T, b, y)
    PROVE  x = y
<1>1. CASE T = {}
  BY <1>1 DEF FirstIn
<1>2. CASE T # {}
  <2>1. x \in T /\ y \in T /\ ~Before(b, x, y) /\ ~Before(b, y, x)
    BY <1>2 DEF FirstIn, Earlier
  <2>2. x \in Int /\ y \in Int
    BY <2>1 DEF NodesAreKeys
  <2>. QED  BY <2>1, <2>2 DEF Before
<1>. QED  BY <1>1, <1>2

\* Trees with the same links begin at the same node.
LEMMA SameFirst ==
    ASSUME NodesAreKeys, NEW t, NEW u, NEW T, NEW b, NEW H, Standing(t, T, b, H), SameLinks(t, u)
    PROVE  rb_first_postorder(u) = rb_first_postorder(t)
<1>1. T \in SUBSET Nodes /\ H \in Heights
  BY DEF Standing
<1>2. Standing(u, T, b, H)
  BY <1>1, SameShape
<1>3. FirstIn(T, b, rb_first_postorder(t)) /\ FirstIn(T, b, rb_first_postorder(u))
  BY <1>2, FirstPostorderIs
<1>. QED  BY <1>1, <1>3, OneFirst

\* The first node is a leaf, and no key of the tree but its own lies in its span.
LEMMA FirstIsLeaf ==
    ASSUME NodesAreKeys, NEW t, NEW T, NEW b, NEW H, Standing(t, T, b, H), NEW q \in T, Earlier(T, b, q) = {}
    PROVE  /\ \A s \in Sides : t.child[q][s] = NULL
           /\ \A a \in T : a # q => a <= b[q]["left"] \/ b[q]["right"] <= a
<1>1. T \in SUBSET Nodes /\ b \in Spans /\ Shape(t, T, b) /\ NULL \notin T
  BY DEF Standing, NodesAreKeys
<1>2. Narrowing(t, T, b) /\ SpanTypes(T, b) /\ Around(T, b)
  BY <1>1, KidNarrower, SpansAreInts DEF Shape
<1>3. ASSUME NEW s \in Sides, t.child[q][s] # NULL PROVE FALSE
  <2>1. PICK k : k = t.child[q][s]
    OBVIOUS
  <2>2. k \in T /\ b[k][s] = b[q][s] /\ b[k][Other(s)] = q
    BY <1>1, <1>3, <2>1 DEF Shape, Kids
  <2>3. /\ q \in Int /\ b[q]["left"] \in Int /\ b[q]["right"] \in Int /\ b[q]["left"] < q /\ q < b[q]["right"]
        /\ k \in Int /\ b[k]["left"] \in Int /\ b[k]["right"] \in Int /\ b[k]["left"] < k /\ k < b[k]["right"]
    BY <1>2, <2>2 DEF SpanTypes, Around
  <2>4. Inside(b, q, k) /\ k # q
    BY <2>2, <2>3 DEF Inside, Sides, Other
  <2>. QED  BY <2>2, <2>4 DEF Earlier, Before
<1>4. ASSUME NEW a \in T, a # q PROVE a <= b[q]["left"] \/ b[q]["right"] <= a
  <2>1. (a <= b[q]["left"] \/ q <= a) /\ (a <= q \/ b[q]["right"] <= a)
    BY <1>1, <1>3 DEF Shape, Gaps, Sides
  <2>. QED  BY <1>2, <1>4, <2>1 DEF SpanTypes
<1>. QED  BY <1>3, <1>4

\* Without it the spans hold of the other keys the ones they held.
LEMMA SplicedInside ==
    ASSUME NodesAreKeys, NEW T \in SUBSET Nodes, NEW b \in Spans, NEW q \in T, SpanTypes(T, b), Around(T, b),
           \A a \in T : a # q => a <= b[q]["left"] \/ b[q]["right"] <= a,
           NEW c, c = SplicedSpans(b, q), NEW y \in T \ {q}, NEW x \in T \ {q}
    PROVE  Inside(c, y, x) <=> Inside(b, y, x)
<1>1. /\ x \in Int /\ q \in Int /\ b[q]["left"] \in Int /\ b[q]["right"] \in Int
      /\ b[q]["left"] < q /\ q < b[q]["right"] /\ b[y]["left"] \in Int /\ b[y]["right"] \in Int
  BY DEF SpanTypes, Around
<1>2. x <= b[q]["left"] \/ b[q]["right"] <= x
  OBVIOUS
<1>3. \A z \in Sides : c[y][z] = IF b[y][z] = q THEN b[q][z] ELSE b[y][z]
  BY DEF SplicedSpans
<1>4. /\ c[y]["left"] = (IF b[y]["left"] = q THEN b[q]["left"] ELSE b[y]["left"])
      /\ c[y]["right"] = (IF b[y]["right"] = q THEN b[q]["right"] ELSE b[y]["right"])
  BY <1>3 DEF Sides
<1>. QED  BY ONLY <1>1, <1>2, <1>4 DEF Inside

\* An erasure of the first node leaves the one that came after it the first,
\* while the loop of ____rb_erase_color has not yet begun.
LEMMA EraseFirst ==
    ASSUME NodesAreKeys, NEW T, NEW b, NEW H, Between(tree, T, b, H), NEW q \in Nodes, Erase(q),
           q = rb_first_postorder(tree)
    PROVE  rb_first_postorder(tree') = After(tree, q)
<1>1. PICK t, u, n : t = tree /\ u = tree' /\ n = After(tree, q)
  OBVIOUS
<1>2. Between(t, T, b, H) /\ Standing(t, T, b, H)
  BY <1>1 DEF Between
<1>3. T \in SUBSET Nodes /\ b \in Spans /\ Shape(t, T, b) /\ NULL \notin Nodes
  BY <1>2 DEF Standing, NodesAreKeys
<1>4. FirstIn(T, b, q) /\ q # NULL
  BY <1>1, <1>2, <1>3, FirstPostorderIs
<1>5. q \in T /\ Earlier(T, b, q) = {}
  BY <1>4 DEF FirstIn
<1>6. /\ \A s \in Sides : t.child[q][s] = NULL
      /\ \A a \in T : a # q => a <= b[q]["left"] \/ b[q]["right"] <= a
  BY <1>2, <1>5, FirstIsLeaf
<1>7. "left" \in Sides /\ "right" \in Sides /\ Other("left") = "right"
  BY DEF Sides, Other
<1>8. t.child[q]["left"] = NULL /\ t.child[q]["right"] = NULL
  BY <1>6, <1>7
<1>9. u = Forget(EraseOneChild(t, q, NULL).tree, q)
  BY <1>1, <1>8 DEF Erase, erase_augmented
<1>10. u \in Trees /\ Removed(t, u, T, q, NULL)
  BY <1>2, <1>5, <1>7, <1>8, <1>9, EraseOneChildFields
<1>11. PICK U, c : U = T \ {q} /\ c = SplicedSpans(b, q)
  OBVIOUS
<1>12. c \in Spans /\ Shape(u, U, c)
  BY <1>3, <1>5, <1>7, <1>8, <1>10, <1>11, RemovedShape
<1>13. Standing(u, U, c, H)
  BY <1>2, <1>10, <1>11, <1>12 DEF Standing
<1>14. FirstIn(U, c, rb_first_postorder(u))
  BY <1>13, FirstPostorderIs
<1>15. FirstIn(U, c, n)
  <2>1. /\ n \in (T \cup {NULL}) \ {q}
        /\ n = NULL => T = Earlier(T, b, q) \cup {q}
        /\ n # NULL => Earlier(T, b, n) = Earlier(T, b, q) \cup {q}
    BY <1>1, <1>2, <1>5, AfterIs
  <2>2. CASE n = NULL
    BY <1>5, <1>11, <2>1, <2>2 DEF FirstIn
  <2>3. CASE n # NULL
    <3>1. n \in U /\ Earlier(T, b, n) = {q}
      BY <1>5, <1>11, <2>1, <2>3
    <3>2. SpanTypes(T, b) /\ Around(T, b)
      BY <1>3, SpansAreInts DEF Shape
    <3>3. ASSUME NEW x \in U PROVE ~Before(c, x, n)
      <4>1. Inside(c, n, x) <=> Inside(b, n, x)
        BY <1>3, <1>5, <1>6, <1>11, <3>1, <3>2, SplicedInside
      <4>2. Inside(c, x, n) <=> Inside(b, x, n)
        BY <1>3, <1>5, <1>6, <1>11, <3>1, <3>2, SplicedInside
      <4>3. ~Before(b, x, n)
        BY <1>11, <3>1 DEF Earlier
      <4>. QED  BY <4>1, <4>2, <4>3 DEF Before
    <3>. QED  BY <3>1, <3>3 DEF FirstIn, Earlier
  <2>. QED  BY <2>2, <2>3
<1>16. U \in SUBSET Nodes
  BY <1>3, <1>11
<1>17. rb_first_postorder(u) = n
  BY <1>14, <1>15, <1>16, OneFirst
<1>. QED  BY <1>1, <1>17

\* Two nodes have a sibling but no nephews.
LEMMA NoNephews ==
    ASSUME NodesAreKeys, NEW t, NEW T, NEW b, NEW H, NEW n, NEW p, NEW s, Erasing(t, T, b, H, n, p, s),
           NEW o, o = Other(s), NEW sib, sib = t.child[p][o], Cardinality(T) <= 2
    PROVE  sib \in T /\ t.parent[sib] = p /\ ~Red(t, sib) /\ \A z \in Sides : t.child[sib][z] = NULL
<1>1. Standing(t, T, b, H) /\ Balanced(t, T, H, p, s)
  BY DEF Erasing
<1>2. T \subseteq Nodes /\ IsFiniteSet(T) /\ NULL \notin T /\ H \in Heights
  BY <1>1, FS_Subset DEF Standing, NodesAreKeys
<1>3. /\ p \in T /\ o \in Sides /\ sib \in T /\ sib # p /\ t.parent[sib] = p
      /\ HeightOf(H, n) \in Nat /\ H[sib] = HeightOf(H, n) + 1
  BY SiblingIs
<1>4. ASSUME NEW z \in Sides, t.child[sib][z] # NULL PROVE FALSE
  <2>1. PICK k : k = t.child[sib][z]
    OBVIOUS
  <2>2. k \in T
    BY <1>1, <1>3, <1>4, <2>1, KidIs DEF Offspring
  <2>3. k # p /\ k # sib
    BY <1>1, <1>3, <2>1, <2>2, GrandKid
  <2>4. {p} \cup {sib} \cup {k} \subseteq T
    BY <1>3, <2>2
  <2>5. IsFiniteSet({p}) /\ Cardinality({p}) = 1
    BY FS_Singleton
  <2>6. IsFiniteSet({p} \cup {sib}) /\ Cardinality({p} \cup {sib}) = 2
    <3>1. sib \notin {p}
      BY <1>3
    <3>2. Cardinality({p} \cup {sib}) = Cardinality({p}) + 1
      BY ONLY <2>5, <3>1, FS_AddElement
    <3>3. IsFiniteSet({p} \cup {sib})
      BY ONLY <2>5, FS_AddElement
    <3>. QED  BY ONLY <2>5, <3>2, <3>3
  <2>7. Cardinality({p} \cup {sib} \cup {k}) = 3
    <3>1. k \notin {p} \cup {sib}
      BY <2>3
    <3>2. Cardinality({p} \cup {sib} \cup {k}) = Cardinality({p} \cup {sib}) + 1
      BY ONLY <2>6, <3>1, FS_AddElement
    <3>. QED  BY ONLY <2>6, <3>2
  <2>8. Cardinality({p} \cup {sib} \cup {k}) <= Cardinality(T)
    BY <1>2, <2>4, FS_Subset
  <2>9. Cardinality(T) \in Nat
    BY <1>2, FS_CardinalityType
  <2>. QED  BY <2>7, <2>8, <2>9
<1>5. ~Red(t, sib)
  <2>1. BalancedAt(t, H, p, s, sib, o) /\ t.child[sib][o] = NULL
    BY <1>1, <1>3, <1>4 DEF Balanced
  <2>2. H[sib] = 0 + Black(t, sib) + 0
    BY <1>3, <2>1 DEF BalancedAt, HeightOf
  <2>. QED  BY <1>3, <2>2 DEF Black
<1>. QED  BY <1>3, <1>4, <1>5

\* So what is left of an erasure that leaves two nodes turns nothing round.
LEMMA NoTurnOfTwo ==
    ASSUME NodesAreKeys, NEW T, NEW b, NEW H, NEW s, Erasing(tree, T, b, H, node, parent, s),
           Cardinality(T) <= 2, EraseFlip \/ EraseRotate
    PROVE  SameLinks(tree, tree')
<1>1. PICK t, p, o : t = tree /\ p = parent /\ o = Other(s)
  OBVIOUS
<1>2. PICK sib : sib = t.child[p][o]
  OBVIOUS
<1>3. Erasing(t, T, b, H, node, p, s) /\ side = s
  BY <1>1, ErasingSide DEF side
<1>4. sib \in T /\ t.parent[sib] = p /\ ~Red(t, sib) /\ \A z \in Sides : t.child[sib][z] = NULL
  BY <1>1, <1>2, <1>3, NoNephews
<1>5. EraseCase1 = [tree |-> t, sibling |-> sib]
  BY <1>1, <1>2, <1>3, <1>4 DEF EraseCase1
<1>6. BothBlack(t, sib)
  BY <1>4 DEF BothBlack, RedNode
<1>7. PICK u : u = rb_set_parent_color(t, sib, p, "red")
  OBVIOUS
<1>8. tree' = u \/ tree' = [u EXCEPT !.color[p] = "black"]
  BY <1>1, <1>5, <1>6, <1>7 DEF EraseFlip, EraseRotate, Done
<1>9. t \in Trees /\ T \subseteq Nodes /\ p \in T /\ NULL \notin Nodes
  BY <1>3 DEF Erasing, Standing, NodesAreKeys
<1>10. Reworded(t, u, sib, p, "red")
  <2>1. sib \in Nodes /\ p \in Links /\ "red" \in Colors
    BY <1>4, <1>9 DEF Links, Colors
  <2>. QED  BY <1>7, <1>9, <2>1, SetParentColorFields
<1>11. SameLinks(t, u)
  BY <1>4, <1>9, <1>10 DEF Reworded, SameLinks
<1>12. CASE tree' = u
  BY <1>1, <1>11, <1>12
<1>13. CASE tree' = [u EXCEPT !.color[p] = "black"]
  <2>1. PICK w : w = [u EXCEPT !.color[p] = "black"]
    OBVIOUS
  <2>2. w \in Trees /\ w.root = u.root /\ w.child = u.child /\ w.parent = u.parent
    BY <1>9, <1>11, <2>1 DEF SameLinks, Trees, Colors
  <2>3. SameLinks(t, w)
    BY <1>11, <2>2 DEF SameLinks
  <2>. QED  BY <1>1, <1>13, <2>1, <2>3
<1>. QED  BY <1>8, <1>12, <1>13

\* A loop begins at the first node.
LEMMA BeginDrains ==
    ASSUME NodesAreKeys, NEW T, NEW b, NEW H, At(tree, op, node, parent, T, b, H),
           NEW body \in Bodies, DrainBegin(body)
    PROVE  At(tree', op', node', parent', T, b, H) /\ Draining(drain', tree', T, b, op')
<1>1. op = "idle" /\ UNCHANGED <<tree, op, node, parent>>
  BY DEF DrainBegin, vars
<1>2. PICK t : t = tree
  OBVIOUS
<1>3. Standing(t, T, b, H) /\ InTree = T /\ T \subseteq Nodes
  BY <1>2, AtStanding, TreeOf DEF InTree, Standing
<1>4. PICK q : q = rb_first_postorder(t)
  OBVIOUS
<1>5. FirstIn(T, b, q) /\ NULL \notin T
  BY <1>3, <1>4, FirstPostorderIs DEF Standing, NodesAreKeys
<1>6. q \in Links /\ (q # NULL => q \in T)
  BY <1>3, <1>5 DEF FirstIn, Links
<1>7. PICK k : k = After(t, q)
  OBVIOUS
<1>8. k \in Links
  <2>1. q # NULL => k \in T \cup {NULL}
    BY <1>3, <1>6, <1>7, AfterIs
  <2>2. q = NULL => k = NULL
    BY <1>7 DEF After
  <2>. QED  BY <1>3, <2>1, <2>2 DEF Links
<1>9. drain' = [on |-> TRUE, body |-> body, ran |-> FALSE, pos |-> q, n |-> k, began |-> T, met |-> {}]
  BY <1>2, <1>3, <1>4, <1>7 DEF DrainBegin
<1>10. PICK d : d = drain'
  OBVIOUS
<1>11. /\ d \in Loops /\ d.body = body /\ ~d.ran /\ d.pos = q /\ d.n = k /\ d.began = T /\ d.met = {}
  BY <1>3, <1>6, <1>8, <1>9, <1>10 DEF Loops
<1>12. body = "release" => Releasing(d, t, T, b, "idle")
  BY <1>5, <1>6, <1>7, <1>11 DEF Releasing, FirstIn
<1>13. body = "erase" => Felling(d, t, T, "idle")
  BY <1>4, <1>6, <1>7, <1>11 DEF Felling, NextMet
<1>. QED  BY <1>1, <1>2, <1>10, <1>11, <1>12, <1>13 DEF Draining, Bodies

\* A body that erases takes pos out of the tree, and not the n that was read before.
LEMMA ErasingBodyDrains ==
    ASSUME NodesAreKeys, NEW T, NEW b, NEW H, At(tree, op, node, parent, T, b, H), Draining(drain, tree, T, b, op),
           DrainBody, drain.body = "erase"
    PROVE  DInv'
<1>1. PICK d, t, pos : d = drain /\ t = tree /\ pos = drain.pos
  OBVIOUS
<1>2. op = "idle" /\ drain.on /\ ~drain.ran /\ pos # NULL /\ Erase(pos)
      /\ drain' = [drain EXCEPT !.ran = TRUE, !.met = @ \cup {drain.pos}]
  BY <1>1 DEF DrainBody
<1>3. d \in Loops /\ Felling(d, t, T, "idle") /\ ~d.ran /\ d.body = "erase" /\ d.pos = pos
  BY <1>1, <1>2, LoopIsOn DEF Draining, NoDrain
<1>4. Between(t, T, b, H) /\ Standing(t, T, b, H) /\ T \subseteq Nodes
  BY <1>1, <1>2, AtStanding DEF Standing
<1>5. pos \in T /\ pos \in Nodes /\ d.n \in (T \cup {NULL}) \ {pos} /\ d.n = After(t, pos)
      /\ d.met \subseteq d.began /\ T = d.began \ d.met
      /\ (Cardinality(d.began) <= 3 => pos = rb_first_postorder(t))
  <2>1. /\ pos \in T /\ d.n = After(t, pos) /\ d.met \subseteq d.began /\ T = d.began \ d.met
        /\ Cardinality(d.began) <= 3 => pos = rb_first_postorder(t)
    BY <1>2, <1>3 DEF Felling, NextMet
  <2>. QED  BY <1>4, <2>1, AfterIs
<1>6. PICK u : u = drain'
  OBVIOUS
<1>7. /\ u \in Loops /\ u.body = "erase" /\ u.ran /\ u.pos = pos /\ u.n = d.n /\ u.began = d.began
      /\ u.met = d.met \cup {pos}
  <2>1. u = [d EXCEPT !.ran = TRUE, !.met = @ \cup {d.pos}]
    BY <1>1, <1>2, <1>6
  <2>2. d \in Loops /\ d.pos \in Nodes
    BY ONLY <1>3, <1>5
  <2>3. /\ u \in Loops /\ u.body = d.body /\ u.ran /\ u.pos = d.pos /\ u.n = d.n /\ u.began = d.began
        /\ u.met = d.met \cup {d.pos}
    BY ONLY <2>1, <2>2, LoopRuns
  <2>. QED  BY ONLY <1>3, <2>3
<1>8. PICK U : U = T \ {pos}
  OBVIOUS
<1>9. \E c, K : At(tree', op', node', parent', U, c, K)
  <2>1. /\ node' = NULL
        /\ \/ op' = "idle" /\ parent' = NULL /\ \E c, K : Between(tree', U, c, K)
           \/ op' = "erase" /\ parent' # NULL /\ \E c, K, s : Erasing(tree', U, c, K, NULL, parent', s)
    BY <1>1, <1>2, <1>4, <1>5, <1>8, EraseStep
  <2>. QED  BY <2>1 DEF At
<1>10. Felling(u, tree', U, op')
  <2>1. op' # "insert"
    BY <1>2 DEF Erase
  <2>2. u.met \subseteq u.began /\ U = u.began \ u.met /\ u.pos \in u.met /\ u.n \in U \cup {NULL}
    BY <1>5, <1>7, <1>8
  <2>3. Cardinality(u.began) <= 3 => u.n = rb_first_postorder(tree')
    <3>1. SUFFICES ASSUME Cardinality(d.began) <= 3 PROVE d.n = rb_first_postorder(tree')
      BY <1>7
    <3>. QED  BY <1>1, <1>2, <1>4, <1>5, <3>1, EraseFirst
  <2>. QED  BY <1>7, <2>1, <2>2, <2>3 DEF Felling, NextMet
<1>11. \A c : Draining(u, tree', U, c, op')
  BY <1>7, <1>10 DEF Draining
<1>. QED  BY <1>6, <1>9, <1>11 DEF DInv

\* One that releases leaves the tree as it is.
LEMMA ReleasingBodyDrains ==
    ASSUME NodesAreKeys, NEW T, NEW b, NEW H, At(tree, op, node, parent, T, b, H), Draining(drain, tree, T, b, op),
           DrainBody, drain.body = "release"
    PROVE  DInv'
<1>1. PICK d, t, pos : d = drain /\ t = tree /\ pos = drain.pos
  OBVIOUS
<1>2. op = "idle" /\ drain.on /\ ~drain.ran /\ pos # NULL /\ UNCHANGED <<tree, op, node, parent>>
      /\ drain' = [drain EXCEPT !.ran = TRUE, !.met = @ \cup {drain.pos}]
  BY <1>1 DEF DrainBody, vars
<1>3. d \in Loops /\ Releasing(d, t, T, b, "idle") /\ ~d.ran /\ d.body = "release" /\ d.pos = pos
  BY <1>1, <1>2, LoopIsOn DEF Draining, NoDrain
<1>4. pos \in T /\ pos \in Nodes /\ d.met = Earlier(T, b, pos) /\ d.began = T /\ d.n = After(t, pos)
  <2>1. T \subseteq Nodes
    BY AtStanding DEF Standing
  <2>. QED  BY <1>2, <1>3, <2>1 DEF Releasing
<1>5. PICK u : u = drain'
  OBVIOUS
<1>6. /\ u \in Loops /\ u.body = "release" /\ u.ran /\ u.pos = pos /\ u.n = d.n /\ u.began = d.began
      /\ u.met = d.met \cup {pos}
  <2>1. u = [d EXCEPT !.ran = TRUE, !.met = @ \cup {d.pos}]
    BY <1>1, <1>2, <1>5
  <2>2. d \in Loops /\ d.pos \in Nodes
    BY ONLY <1>3, <1>4
  <2>3. /\ u \in Loops /\ u.body = d.body /\ u.ran /\ u.pos = d.pos /\ u.n = d.n /\ u.began = d.began
        /\ u.met = d.met \cup {d.pos}
    BY ONLY <2>1, <2>2, LoopRuns
  <2>. QED  BY ONLY <1>3, <2>3
<1>7. Releasing(u, t, T, b, "idle")
  BY <1>2, <1>4, <1>6 DEF Releasing
<1>8. Draining(drain', tree', T, b, op')
  BY <1>1, <1>2, <1>5, <1>6, <1>7 DEF Draining
<1>. QED  BY <1>2, <1>8 DEF DInv

\* The loop goes on to n, and looks for the next one.
LEMMA RoundDrains ==
    ASSUME NodesAreKeys, NEW T, NEW b, NEW H, At(tree, op, node, parent, T, b, H), Draining(drain, tree, T, b, op),
           DrainRound
    PROVE  DInv'
<1>1. PICK d, t, n, k : d = drain /\ t = tree /\ n = drain.n /\ k = After(tree, drain.n)
  OBVIOUS
<1>2. op = "idle" /\ drain.on /\ drain.ran /\ UNCHANGED <<tree, op, node, parent>>
      /\ drain' = [drain EXCEPT !.ran = FALSE, !.pos = drain.n, !.n = k]
  BY <1>1 DEF DrainRound, vars
<1>3. Standing(t, T, b, H) /\ T \subseteq Nodes /\ NULL \notin T
  BY <1>1, AtStanding DEF Standing, NodesAreKeys
<1>4. d \in Loops /\ d.ran /\ d.n = n /\ k = After(t, n)
      /\ ((d.body = "release" /\ Releasing(d, t, T, b, "idle")) \/ (d.body = "erase" /\ Felling(d, t, T, "idle")))
  BY <1>1, <1>2, LoopIsOn DEF Draining, NoDrain
<1>5. n \in T \cup {NULL}
  <2>1. CASE d.body = "release"
    <3>1. d.pos \in T /\ n = After(t, d.pos)
      BY <1>4, <2>1 DEF Releasing
    <3>. QED  BY <1>3, <3>1, AfterIs
  <2>2. CASE d.body = "erase"
    BY <1>4, <2>2 DEF Felling
  <2>. QED  BY <1>4, <2>1, <2>2
<1>6. k \in T \cup {NULL}
  <2>1. n \in T => k \in T \cup {NULL}
    BY <1>3, <1>4, AfterIs
  <2>2. n = NULL => k = NULL
    BY <1>4 DEF After
  <2>. QED  BY <1>5, <2>1, <2>2
<1>7. PICK u : u = drain'
  OBVIOUS
<1>8. u \in Loops /\ u.body = d.body /\ ~u.ran /\ u.pos = n /\ u.n = k /\ u.began = d.began /\ u.met = d.met
  <2>1. u = [d EXCEPT !.ran = FALSE, !.pos = d.n, !.n = k]
    BY <1>1, <1>2, <1>7
  <2>2. d \in Loops /\ k \in Links
    BY <1>3, <1>4, <1>6 DEF Links
  <2>3. u \in Loops /\ u.body = d.body /\ ~u.ran /\ u.pos = d.n /\ u.n = k /\ u.began = d.began /\ u.met = d.met
    BY ONLY <2>1, <2>2 DEF Loops
  <2>. QED  BY ONLY <1>4, <2>3
<1>9. d.body = "erase" => Felling(u, t, T, "idle")
  BY <1>4, <1>5, <1>8 DEF Felling, NextMet
<1>10. d.body = "release" => Releasing(u, t, T, b, "idle")
  <2>1. SUFFICES ASSUME d.body = "release" PROVE Releasing(u, t, T, b, "idle")
    OBVIOUS
  <2>2. d.pos \in T /\ n = After(t, d.pos) /\ d.began = T /\ d.met = Earlier(T, b, d.pos) \cup {d.pos}
    BY <1>4, <2>1 DEF Releasing
  <2>3. /\ n = NULL => T = Earlier(T, b, d.pos) \cup {d.pos}
        /\ n # NULL => Earlier(T, b, n) = Earlier(T, b, d.pos) \cup {d.pos}
    BY <1>3, <2>2, AfterIs
  <2>. QED  BY <1>4, <1>5, <1>8, <2>2, <2>3 DEF Releasing
<1>11. Draining(drain', tree', T, b, op')
  BY <1>1, <1>2, <1>4, <1>7, <1>8, <1>9, <1>10 DEF Draining
<1>. QED  BY <1>2, <1>11 DEF DInv

\* What an erasure still has to do once the loop runs on leaves the loop where it stood.
LEMMA RebalancingFells ==
    ASSUME NodesAreKeys, NEW T, NEW b, NEW H, At(tree, op, node, parent, T, b, H),
           NEW d \in Loops, Felling(d, tree, T, op), op # "idle", Rebalance
    PROVE  Felling(d, tree', T, op')
<1>1. op = "erase" /\ d.ran /\ d.met \subseteq d.began /\ T = d.began \ d.met /\ d.pos \in d.met
  BY AtStanding DEF Felling
<1>2. PICK s : Erasing(tree, T, b, H, node, parent, s)
  BY <1>1, AtStanding
<1>3. EraseFlip \/ EraseRotate
  BY <1>1 DEF Rebalance, InsertAtRoot, InsertBelowBlack, InsertFlip, InsertRotate, TwoReds
<1>4. op' # "insert"
  BY <1>1, <1>3 DEF EraseFlip, EraseRotate, Done
<1>5. ASSUME Cardinality(d.began) <= 3 PROVE rb_first_postorder(tree') = rb_first_postorder(tree)
  <2>1. d.began \subseteq Nodes /\ IsFiniteSet(Nodes)
    BY DEF Loops, NodesAreKeys
  <2>2. IsFiniteSet(d.began)
    BY <2>1, FS_Subset
  <2>3. IsFiniteSet(T) /\ Cardinality(T) <= Cardinality(d.began) /\ Cardinality(T) # Cardinality(d.began)
    BY <1>1, <2>2, FS_Subset
  <2>4. Cardinality(T) <= 2
    BY <1>5, <2>2, <2>3, FS_CardinalityType
  <2>5. SameLinks(tree, tree')
    BY <1>2, <1>3, <2>4, NoTurnOfTwo
  <2>6. Standing(tree, T, b, H)
    BY AtStanding
  <2>. QED  BY <2>5, <2>6, SameFirst
<1>. QED  BY <1>1, <1>4, <1>5 DEF Felling, NextMet

\* Every step keeps the invariant.
LEMMA DInductive == ASSUME NodesAreKeys, DInv, [DrainNext]_drainVars PROVE DInv'
<1>1. PICK T, b, H : At(tree, op, node, parent, T, b, H) /\ Draining(drain, tree, T, b, op)
  BY DEF DInv
<1>2. ASSUME Rebalance, UNCHANGED drain PROVE DInv'
  <2>1. op # "idle" /\ Next
    BY <1>2 DEF Rebalance, Next, InsertAtRoot, InsertBelowBlack, InsertFlip, InsertRotate, TwoReds,
                EraseFlip, EraseRotate, Deficient
  <2>2. PICK c, K : At(tree', op', node', parent', T, c, K)
    BY <1>1, <2>1, TStep DEF Stepped
  <2>3. Draining(drain', tree', T, c, op')
    <3>1. CASE drain = NoDrain
      BY <1>2, <3>1 DEF Draining
    <3>2. CASE drain \in Loops /\ drain.body = "erase" /\ Felling(drain, tree, T, op)
      <4>1. Felling(drain, tree', T, op')
        BY <1>1, <1>2, <2>1, <3>2, RebalancingFells
      <4>. QED  BY <1>2, <3>2, <4>1 DEF Draining
    <3>. QED  BY <1>1, <2>1, <3>1, <3>2 DEF Draining, Releasing
  <2>. QED  BY <2>2, <2>3 DEF DInv
<1>3. ASSUME \E n \in Nodes : Insert(n) \/ Erase(n), ~drain.on, UNCHANGED drain PROVE DInv'
  <2>1. drain' = NoDrain
    BY <1>1, <1>3, LoopIsOn
  <2>2. \E U, c, K : At(tree', op', node', parent', U, c, K)
    BY <1>1, <1>3, TStep DEF Stepped, Next
  <2>. QED  BY <2>1, <2>2 DEF DInv, Draining
<1>4. CASE DrainBody
  <2>1. drain.body \in {"release", "erase"}
    BY <1>1, <1>4, LoopIsOn DEF DrainBody, Bodies
  <2>. QED  BY <1>1, <1>4, <2>1, ErasingBodyDrains, ReleasingBodyDrains
<1>5. CASE DrainRound
  BY <1>1, <1>5, RoundDrains
<1>6. CASE DrainEnd
  <2>1. drain' = NoDrain /\ UNCHANGED <<tree, op, node, parent>>
    BY <1>6 DEF DrainEnd, vars
  <2>. QED  BY <1>1, <2>1 DEF DInv, Draining
<1>7. ASSUME NEW body \in Bodies, DrainBegin(body) PROVE DInv'
  BY <1>1, <1>7, BeginDrains DEF DInv
<1>8. CASE UNCHANGED drainVars
  BY <1>1, <1>8 DEF drainVars, vars, DInv
<1>. QED  BY <1>2, <1>3, <1>4, <1>5, <1>6, <1>7, <1>8 DEF DrainNext, DrainStep

\* The loop reads no node that a body has released, and holds none that is erased.
LEMMA ReadsLive == ASSUME NodesAreKeys, DInv PROVE DrainReadsLive
<1>1. PICK T, b, H : At(tree, op, node, parent, T, b, H) /\ Draining(drain, tree, T, b, op)
  BY DEF DInv
<1>. SUFFICES ASSUME drain.on PROVE DrainReadsLive
  BY DEF DrainReadsLive
<1>2. PICK t, d : t = tree /\ d = drain
  OBVIOUS
<1>3. Standing(t, T, b, H) /\ InTree = T /\ NULL \notin T
  BY <1>1, <1>2, AtStanding, TreeOf DEF InTree, Standing, NodesAreKeys
<1>4. d \in Loops /\ ((d.body = "release" /\ Releasing(d, t, T, b, op)) \/ (d.body = "erase" /\ Felling(d, t, T, op)))
  BY <1>1, <1>2, LoopIsOn DEF Draining, NoDrain
<1>5. CASE d.body = "release"
  <2>1. Releasing(d, t, T, b, op)
    BY <1>4, <1>5
  <2>2. ~d.ran => d.pos \notin d.met
    BY <1>3, <2>1 DEF Releasing, Earlier, Before
  <2>3. ASSUME d.ran, d.n # NULL PROVE PostorderReads(t, d.n) \cap d.met = {}
    <3>1. d.pos \in T /\ d.n = After(t, d.pos) /\ d.met = Earlier(T, b, d.pos) \cup {d.pos}
      BY <2>1, <2>3 DEF Releasing
    <3>2. d.n \in T /\ d.met = Earlier(T, b, d.n)
      BY <1>3, <2>3, <3>1, AfterIs
    <3>. QED  BY <1>3, <3>2, ReadsAreLater
  <2>. QED  BY <1>2, <1>5, <2>2, <2>3 DEF DrainReadsLive
<1>6. CASE d.body = "erase"
  <2>1. d.met \cap T = {} /\ (d.ran => d.n \in T \cup {NULL}) /\ (~d.ran => d.pos \in T \cup {NULL})
    BY <1>4, <1>6 DEF Felling
  <2>2. NULL \notin d.met
    BY <1>4 DEF Loops, NodesAreKeys
  <2>3. (~d.ran => d.pos \notin d.met) /\ (d.ran /\ d.n # NULL => d.n \in T)
    BY ONLY <2>1, <2>2
  <2>. QED  BY <1>2, <1>3, <1>6, <2>3 DEF DrainReadsLive
<1>. QED  BY <1>4, <1>5, <1>6

\* A loop that has ended has met every node, unless it erased more than three.
LEMMA MeetsAll == ASSUME NodesAreKeys, DInv PROVE DrainMeetsAll
<1>1. PICK T, b, H : At(tree, op, node, parent, T, b, H) /\ Draining(drain, tree, T, b, op)
  BY DEF DInv
<1>. SUFFICES ASSUME drain.on, drain.pos = NULL, drain.body = "release" \/ Cardinality(drain.began) <= 3
              PROVE  drain.met = drain.began
  BY DEF DrainMeetsAll
<1>2. PICK t, d : t = tree /\ d = drain
  OBVIOUS
<1>3. Standing(t, T, b, H) /\ NULL \notin Nodes
  BY <1>1, <1>2, AtStanding DEF NodesAreKeys
<1>4. d \in Loops /\ ((d.body = "release" /\ Releasing(d, t, T, b, op)) \/ (d.body = "erase" /\ Felling(d, t, T, op)))
  BY <1>1, <1>2, LoopIsOn DEF Draining, NoDrain
<1>5. CASE d.body = "release"
  BY <1>2, <1>4, <1>5 DEF Releasing
<1>6. CASE d.body = "erase" /\ Felling(d, t, T, op)
  <2>1. d.began \subseteq Nodes /\ d.pos = NULL /\ Cardinality(d.began) <= 3
    BY <1>2, <1>4, <1>6 DEF Loops
  <2>2. d.met \subseteq d.began /\ T = d.began \ d.met /\ (d.ran => d.pos \in d.met)
    BY <1>6 DEF Felling
  <2>3. ~d.ran
    BY <1>3, <2>1, <2>2
  <2>4. rb_first_postorder(t) = NULL
    BY <1>6, <2>1, <2>3 DEF Felling, NextMet
  <2>5. T = {}
    BY <1>3, <2>2, <2>1, <2>4, FirstPostorderIs DEF FirstIn
  <2>. QED  BY <1>2, <2>2, <2>5
<1>. QED  BY <1>4, <1>5, <1>6

\* A loop over the tree stands where its invariant says, in every state.
THEOREM DrainsStand == DrainSpec => []DInv
<1>. USE NodesAreKeys
<1>1. DrainInit => DInv
  <2>1. SUFFICES ASSUME DrainInit PROVE DInv
    OBVIOUS
  <2>2. TInv /\ drain = NoDrain
    BY <2>1, TInit DEF DrainInit
  <2>. QED  BY <2>2 DEF TInv, DInv, Draining
<1>2. DInv /\ [DrainNext]_drainVars => DInv'
  BY DInductive
<1>. QED  BY <1>1, <1>2, PTL DEF DrainSpec

\* rbtree_postorder_for_each_entry_safe never steps on a node whose memory its
\* body has released, nor on one that the body has erased, whatever the tree and
\* however its erasures rebalance it.
THEOREM DrainStaysLive == DrainSpec => []DrainReadsLive
<1>1. DInv => DrainReadsLive
  BY NodesAreKeys, ReadsLive
<1>. QED  BY <1>1, DrainsStand, PTL

\* And it misses none: a loop that releases its nodes has met, when it ends, the
\* whole tree it began with, and so has one that erases a tree of at most three.
THEOREM MeetsEveryNode == DrainSpec => []DrainMeetsAll
<1>1. DInv => DrainMeetsAll
  BY NodesAreKeys, MeetsAll
<1>. QED  BY <1>1, DrainsStand, PTL
=============================================================================
