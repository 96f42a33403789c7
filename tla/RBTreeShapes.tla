---------------------------- MODULE RBTreeShapes ----------------------------
(***************************************************************************)
(* Search trees without recursion, and what the steps of lib/rbtree do to  *)
(* them.                                                                   *)
(*                                                                         *)
(* Every node n of a tree has a span: the two keys between which all keys  *)
(* under n lie.  A tree is told by how the span of a child comes from that *)
(* of its parent, which is a claim about one link at a time, so that a     *)
(* step which changes few links is compared with it link by link.  The     *)
(* black heights are told in the same way.  A rotation, a node linked, a   *)
(* node taken out and a node exchanged for its successor each keep such a  *)
(* tree, with spans and heights that are written down.                     *)
(***************************************************************************)
EXTENDS RBTreeProperties, FiniteSetTheorems, DataTheorems, TLAPS

\* What a link of a node may hold.
Links == Nodes \cup {NULL}
\* A span gives every node the two keys between which the keys under it lie.
Spans == [Nodes -> [Sides -> Int]]

\* The root has no parent, and its span holds every key.
Rooted(t, T, b) ==
    /\ T = {} => t.root = NULL
    /\ T # {} => /\ t.root \in T /\ t.parent[t.root] = NULL
                 /\ \A x \in Nodes : b[t.root]["left"] < x /\ x < b[t.root]["right"]

\* A node lies in its own span.
Around(T, b) == \A n \in T : b[n]["left"] < n /\ n < b[n]["right"]
\* Every node but the root is a child of its parent.
Parents(t, T) ==
    \A n \in T : n # t.root => t.parent[n] \in T /\ \E s \in Sides : t.child[t.parent[n]][s] = n

\* A child names its parent, and its span is that of its parent cut off at its parent.
Kids(t, T, b) ==
    \A n \in T, s \in Sides :
      LET k == t.child[n][s]
      IN  k # NULL => k \in T /\ t.parent[k] = n /\ b[k][s] = b[n][s] /\ b[k][Other(s)] = n

\* Where a node has no child, no key of the tree lies in that part of its span.
Gaps(t, T, b) ==
    \A n \in T, a \in T :
      /\ t.child[n]["left"] = NULL => a <= b[n]["left"] \/ n <= a
      /\ t.child[n]["right"] = NULL => a <= n \/ b[n]["right"] <= a

\* Of two spans one lies in the other, short of the other's node, or they are disjoint.
NestedPair(b, x, y) ==
    \/ b[x]["right"] <= y /\ b[y]["left"] <= b[x]["left"]
    \/ x <= b[y]["left"] /\ b[y]["right"] <= b[x]["right"]
    \/ b[x]["right"] <= b[y]["left"]
Nested(T, b) == \A x, y \in T : x < y => NestedPair(b, x, y)
\* A span ends at a node of the tree, or where the span of the root ends.
Bounds(t, T, b) == \A n \in T, s \in Sides : b[n][s] \in T \/ b[n][s] = b[t.root][s]
\* A node outside the tree has no children.
Blank(t, T) == \A n \in Nodes \ T, s \in Sides : t.child[n][s] = NULL

\* The links of t make a search tree of the nodes T, and b gives their spans.
\* Nothing in it is recursive, so every step of the code can be compared with it.
Shape(t, T, b) ==
    /\ Rooted(t, T, b) /\ Around(T, b) /\ Parents(t, T) /\ Kids(t, T, b)
    /\ Gaps(t, T, b) /\ Nested(T, b) /\ Bounds(t, T, b) /\ Blank(t, T)

\* u is t with up, the child of down on side s, rotated above down.
Rotated(t, u, down, up, s) ==
    LET pp == t.parent[down]
        tmp == t.child[up][Other(s)]
    IN  /\ u.root = IF down = t.root THEN up ELSE t.root
        /\ \A x \in Nodes, z \in Sides :
             u.child[x][z] = IF x = down /\ z = s THEN tmp
                             ELSE IF x = up /\ z = Other(s) THEN down
                             ELSE IF t.child[x][z] = down THEN up ELSE t.child[x][z]
        /\ \A x \in Nodes :
             u.parent[x] = IF x = down THEN up ELSE IF x = up THEN pp
                           ELSE IF x = tmp THEN down ELSE t.parent[x]

\* The spans after that rotation.
TurnedSpans(b, down, up, s) ==
    [x \in Nodes |-> [z \in Sides |->
        IF x = down /\ z = s THEN up
        ELSE IF x = up /\ z = Other(s) THEN b[down][z] ELSE b[x][z]]]

\* A child is no other's child and not the root.
Apart(t, T) ==
    \A n \in T, s \in Sides : t.child[n][s] # NULL =>
       /\ t.child[n][s] \in T /\ t.parent[t.child[n][s]] = n
       /\ t.child[n][s] # n /\ t.child[n][s] # t.root
       /\ \A m \in T, z \in Sides : t.child[m][z] = t.child[n][s] => m = n /\ z = s

\* In a tree of this shape every child is the child of one node on one side.
LEMMA KidsApart ==
    ASSUME NodesAreKeys, NEW t, NEW T \in SUBSET Nodes, NEW b \in Spans, Shape(t, T, b)
    PROVE  Apart(t, T)
<1>0. SUFFICES ASSUME TRUE
      PROVE \A n \in T, s \in Sides : t.child[n][s] # NULL =>
             /\ t.child[n][s] \in T /\ t.parent[t.child[n][s]] = n
             /\ t.child[n][s] # n /\ t.child[n][s] # t.root
             /\ \A m \in T, z \in Sides : t.child[m][z] = t.child[n][s] => m = n /\ z = s
  BY DEF Apart
<1>1. TAKE n \in T, s \in Sides
<1>2. PICK k : k = t.child[n][s]
  OBVIOUS
<1>3. HAVE t.child[n][s] # NULL
<1>4. k \in T /\ t.parent[k] = n /\ b[k][s] = b[n][s] /\ b[k][Other(s)] = n
  BY <1>2, <1>3 DEF Shape, Kids
<1>5. b[k]["left"] < k /\ k < b[k]["right"]
  BY <1>4 DEF Shape, Around
<1>6. n \in Nodes /\ n # NULL /\ T \subseteq Int
  BY DEF NodesAreKeys
<1>7. k # t.root
  BY <1>4, <1>6 DEF Shape, Rooted
<1>8. IF s = "left" THEN k < n ELSE n < k
  BY <1>4, <1>5 DEF Other, Sides
<1>9. ASSUME NEW m \in T, NEW z \in Sides, t.child[m][z] = k PROVE m = n /\ z = s
  <2>1. m = n
    BY <1>4, <1>6, <1>9 DEF Shape, Kids, NodesAreKeys
  <2>2. b[k][z] = b[n][z] /\ b[k][Other(z)] = n
    BY <1>4, <1>6, <1>9, <2>1 DEF Shape, Kids, NodesAreKeys
  <2>3. IF z = "left" THEN k < n ELSE n < k
    BY <1>5, <2>2 DEF Other, Sides
  <2>. QED  BY <1>4, <1>6, <1>8, <2>1, <2>3 DEF Sides
<1>10. k # n
  BY <1>4, <1>6, <1>8
<1>. QED  BY <1>2, <1>4, <1>7, <1>9, <1>10

\* A rotation keeps the shape: the search order survives any rotation the
\* rebalancing of rbtree.c makes.
LEMMA RotatedShape ==
    ASSUME NodesAreKeys, NEW t, NEW u, NEW T \in SUBSET Nodes, NEW b \in Spans, Shape(t, T, b),
           NEW down \in T, NEW up \in T, NEW s \in Sides, t.child[down][s] = up,
           t.child \in [Nodes -> [Sides -> Links]],
           Rotated(t, u, down, up, s)
    PROVE  TurnedSpans(b, down, up, s) \in Spans /\ Shape(u, T, TurnedSpans(b, down, up, s))
<1> DEFINE d == TurnedSpans(b, down, up, s)
<1>0. T \subseteq Int /\ T \subseteq Nodes /\ NULL \notin T /\ NULL \notin Nodes /\ b \in [Nodes -> [Sides -> Int]]
  BY DEF NodesAreKeys, Spans
<1>1. d \in Spans
  BY <1>0 DEF Spans, TurnedSpans
<1>2. \A x \in T, z \in Sides :
         d[x][z] = IF x = down /\ z = s THEN up
                   ELSE IF x = up /\ z = Other(s) THEN b[down][z] ELSE b[x][z]
  BY <1>0 DEF TurnedSpans
<1>k. Apart(t, T)
  BY KidsApart
<1>3. /\ up # down /\ up # t.root /\ t.parent[up] = down
      /\ \A m \in T, z \in Sides : t.child[m][z] = up => m = down /\ z = s
      /\ b[up][s] = b[down][s] /\ b[up][Other(s)] = down
  BY <1>0, <1>k DEF Shape, Kids, Apart
<1>4. PICK o \in Sides : o = Other(s) /\ o # s
  BY DEF Other, Sides
<1>5. PICK tmp : tmp = t.child[up][o]
  OBVIOUS
<1>7. /\ b[down]["left"] < down /\ down < b[down]["right"]
      /\ b[up]["left"] < up /\ up < b[up]["right"]
  BY DEF Shape, Around
<1>6. tmp # NULL => /\ tmp \in T /\ t.parent[tmp] = up /\ tmp # up /\ tmp # down /\ tmp # t.root
                    /\ \A m \in T, z \in Sides : t.child[m][z] = tmp => m = up /\ z = o
  <2>1. t.child[up][o] # NULL => t.child[up][o] # down
    <3>1. SUFFICES ASSUME t.child[up][o] = down PROVE FALSE
      BY <1>0
    <3>2. b[down][o] = b[up][o] /\ b[down][Other(o)] = up
      BY <1>0, <3>1 DEF Shape, Kids
    <3>. QED  BY <1>0, <1>3, <1>4, <1>7, <3>2 DEF Sides, Other
  <2>2. tmp # NULL => /\ tmp \in T /\ t.parent[tmp] = up /\ tmp # up /\ tmp # t.root
                    /\ \A m \in T, z \in Sides : t.child[m][z] = tmp => m = up /\ z = o
    BY <1>5, <1>k DEF Apart
  <2>. QED  BY <1>5, <2>1, <2>2
<1>8. /\ u.root = IF down = t.root THEN up ELSE t.root
      /\ \A x \in T, z \in Sides :
           u.child[x][z] = IF x = down /\ z = s THEN tmp
                           ELSE IF x = up /\ z = o THEN down
                           ELSE IF t.child[x][z] = down THEN up ELSE t.child[x][z]
      /\ \A x \in T :
           u.parent[x] = IF x = down THEN up ELSE IF x = up THEN t.parent[down]
                         ELSE IF x = tmp THEN down ELSE t.parent[x]
  BY <1>4, <1>5 DEF Rotated
<1>9. \A x \in T, z \in Sides :
         d[x][z] = IF x = down /\ z = s THEN up
                   ELSE IF x = up /\ z = o THEN b[down][z] ELSE b[x][z]
  BY <1>2, <1>4
<1> HIDE DEF d
<1>10. Rooted(u, T, d)
  <2>1. CASE down = t.root
    <3>1. \A z \in Sides : d[up][z] = b[down][z]
      BY <1>3, <1>4, <1>9 DEF Sides
    <3>2. u.root = up /\ u.parent[up] = NULL
      BY <1>0, <1>3, <1>8, <2>1 DEF Shape, Rooted
    <3>. QED  BY <1>0, <2>1, <3>1, <3>2 DEF Shape, Rooted, Sides
  <2>2. CASE down # t.root
    <3>1. \A z \in Sides : d[t.root][z] = b[t.root][z]
      BY <1>3, <1>9, <2>2 DEF Shape, Rooted
    <3>2. u.root = t.root /\ u.parent[t.root] = NULL
      BY <1>0, <1>3, <1>6, <1>8, <2>2 DEF Shape, Rooted
    <3>. QED  BY <1>0, <2>2, <3>1, <3>2 DEF Shape, Rooted, Sides
  <2>. QED  BY <2>1, <2>2
<1>11. Around(T, d)
  BY <1>0, <1>3, <1>4, <1>7, <1>9 DEF Shape, Around, Sides, Other
<1>12. Parents(u, T)
  <2>1. SUFFICES ASSUME NEW n \in T, n # u.root
                 PROVE  u.parent[n] \in T /\ \E z \in Sides : u.child[u.parent[n]][z] = n
    BY DEF Parents
  <2>2. n # t.root => t.parent[n] \in T /\ \E z \in Sides : t.child[t.parent[n]][z] = n
    BY DEF Shape, Parents
  <2>3. CASE n = down
    <3>1. u.parent[n] = up /\ u.child[up][o] = n
      BY <1>3, <1>4, <1>8, <2>3
    <3>. QED  BY <1>4, <3>1
  <2>4. CASE n = tmp
    <3>1. u.parent[n] = down /\ u.child[down][s] = n
      BY <1>0, <1>6, <1>8, <2>4
    <3>. QED  BY <3>1
  <2>5. CASE n = up
    <3>1. down # t.root
      BY <1>8, <2>1, <2>5
    <3>2. PICK z \in Sides : t.parent[down] \in T /\ t.child[t.parent[down]][z] = down
      BY <3>1 DEF Shape, Parents
    <3>3. t.parent[down] # up
      <4>1. SUFFICES ASSUME t.child[up][z] = down PROVE FALSE
        BY <3>2
      <4>2. b[down][z] = b[up][z] /\ b[down][Other(z)] = up
        BY <1>0, <4>1 DEF Shape, Kids
      <4>3. z = s
        BY <1>0, <1>4, <1>5, <1>6, <4>1 DEF Sides, Other
      <4>. QED  BY <1>0, <1>3, <1>4, <1>7, <4>2, <4>3 DEF Sides, Other
    <3>4. t.parent[down] # down
      BY <1>0, <1>k, <3>2 DEF Apart
    <3>5. u.parent[n] = t.parent[down] /\ u.child[t.parent[down]][z] = n
      BY <1>8, <2>5, <1>3, <3>2, <3>3, <3>4
    <3>. QED  BY <3>2, <3>5
  <2>6. CASE n # down /\ n # tmp /\ n # up
    <3>1. n # t.root
      BY <1>8, <2>1, <2>6
    <3>2. PICK z \in Sides : t.parent[n] \in T /\ t.child[t.parent[n]][z] = n
      BY <3>1, <2>2
    <3>3. ~(t.parent[n] = down /\ z = s) /\ ~(t.parent[n] = up /\ z = o)
      BY <1>5, <2>6, <3>2
    <3>4. u.child[t.parent[n]][z] = n
      BY <1>8, <2>6, <3>2, <3>3
    <3>5. u.parent[n] = t.parent[n]
      BY <1>8, <2>6
    <3>. QED  BY <3>2, <3>4, <3>5
  <2>. QED  BY <2>3, <2>4, <2>5, <2>6
<1>13. Kids(u, T, d)
  <2>1. SUFFICES ASSUME NEW n \in T, NEW z \in Sides, NEW k, k = u.child[n][z], k # NULL
                 PROVE  k \in T /\ u.parent[k] = n /\ d[k][z] = d[n][z] /\ d[k][Other(z)] = n
    BY DEF Kids
  <2>2. CASE n = down /\ z = s
    BY <1>0, <1>3, <1>4, <1>5, <1>6, <1>8, <1>9, <2>1, <2>2 DEF Shape, Kids, Sides, Other
  <2>3. CASE n = up /\ z = o
    BY <1>0, <1>3, <1>4, <1>5, <1>6, <1>8, <1>9, <2>1, <2>3 DEF Shape, Kids, Sides, Other
  <2>4. CASE t.child[n][z] = down
    BY <1>0, <1>3, <1>4, <1>5, <1>6, <1>8, <1>9, <2>1, <2>4 DEF Shape, Kids, Sides, Other
  <2>5. CASE ~(n = down /\ z = s) /\ ~(n = up /\ z = o) /\ t.child[n][z] # down
    <3>1. k = t.child[n][z] /\ k \in T /\ t.parent[k] = n /\ b[k][z] = b[n][z] /\ b[k][Other(z)] = n
      BY <1>8, <2>1, <2>5 DEF Shape, Kids
    <3>2. k # down /\ k # up /\ k # tmp
      BY <1>3, <1>6, <2>5, <2>1, <3>1
    <3>. QED  BY <1>0, <1>3, <1>4, <1>8, <1>9, <2>1, <2>5, <3>1, <3>2 DEF Sides, Other
  <2>. QED  BY <2>2, <2>3, <2>4, <2>5
<1>14. Gaps(u, T, d)
  <2>1. SUFFICES ASSUME NEW n \in T, NEW a \in T
                 PROVE  /\ u.child[n]["left"] = NULL => a <= d[n]["left"] \/ n <= a
                        /\ u.child[n]["right"] = NULL => a <= n \/ d[n]["right"] <= a
    BY DEF Gaps
  <2>2. /\ t.child[n]["left"] = NULL => a <= b[n]["left"] \/ n <= a
        /\ t.child[n]["right"] = NULL => a <= n \/ b[n]["right"] <= a
        /\ t.child[up]["left"] = NULL => a <= b[up]["left"] \/ up <= a
        /\ t.child[up]["right"] = NULL => a <= up \/ b[up]["right"] <= a
    BY DEF Shape, Gaps
  <2>3. CASE s = "left"
    BY <1>0, <1>3, <1>4, <1>5, <1>7, <1>8, <1>9, <2>2, <2>3 DEF Sides
  <2>4. CASE s = "right"
    BY <1>0, <1>3, <1>4, <1>5, <1>7, <1>8, <1>9, <2>2, <2>4 DEF Sides
  <2>. QED  BY <2>3, <2>4 DEF Sides
<1>15. Nested(T, d)
  <2>1. CASE s = "left"
    BY <1>0, <1>3, <1>4, <1>7, <1>9, <2>1 DEF Shape, Nested, NestedPair, Sides, Other, Around
  <2>2. CASE s = "right"
    BY <1>0, <1>3, <1>4, <1>7, <1>9, <2>2 DEF Shape, Nested, NestedPair, Sides, Other, Around
  <2>. QED  BY <2>1, <2>2 DEF Sides
<1>16. Bounds(u, T, d)
  <2>1. \A z \in Sides : d[u.root][z] = b[t.root][z]
    BY <1>0, <1>3, <1>4, <1>8, <1>9 DEF Shape, Rooted, Sides
  <2>. QED  BY <1>9, <2>1 DEF Shape, Bounds
<1>17. Blank(u, T)
  BY <1>0 DEF Shape, Blank, Rotated
<1>18. Shape(u, T, d)
  BY <1>10, <1>11, <1>12, <1>13, <1>14, <1>15, <1>16, <1>17 DEF Shape
<1>. QED  BY <1>1, <1>18 DEF d

\* u is t with k, a node without children, below p on side s.
Linked(t, u, k, p, s) ==
    /\ u.root = t.root
    /\ \A x \in Nodes, z \in Sides :
         u.child[x][z] = IF x = p /\ z = s THEN k ELSE IF x = k THEN NULL ELSE t.child[x][z]
    /\ \A x \in Nodes : u.parent[x] = IF x = k THEN p ELSE t.parent[x]

\* The spans after that.
LeafSpans(b, k, p, s) ==
    [x \in Nodes |-> [z \in Sides |->
        IF x = k THEN IF z = s THEN b[p][z] ELSE p ELSE b[x][z]]]

\* A node linked at a free place, in the part of the span that belongs to it,
\* keeps the shape: rb_link_node after a descent.
LEMMA LinkedShape ==
    ASSUME NodesAreKeys, NEW t, NEW u, NEW T \in SUBSET Nodes, NEW b \in Spans, Shape(t, T, b),
           NEW k \in Nodes \ T, NEW p \in T, NEW s \in Sides, t.child[p][s] = NULL,
           IF s = "left" THEN b[p]["left"] < k /\ k < p ELSE p < k /\ k < b[p]["right"],
           Linked(t, u, k, p, s)
    PROVE  LeafSpans(b, k, p, s) \in Spans /\ Shape(u, T \cup {k}, LeafSpans(b, k, p, s))
<1> DEFINE d == LeafSpans(b, k, p, s)
           U == T \cup {k}
<1>1. T \subseteq Int /\ T \subseteq Nodes /\ NULL \notin T /\ NULL \notin Nodes /\ k \in Int
      /\ b \in [Nodes -> [Sides -> Int]] /\ k \notin T /\ p # k
  BY DEF NodesAreKeys, Spans
<1>2. d \in Spans
  BY <1>1 DEF Spans, LeafSpans
<1>3. PICK o \in Sides : o = Other(s) /\ o # s
  BY DEF Other, Sides
<1>4. /\ \A x \in T, z \in Sides : d[x][z] = b[x][z]
      /\ d[k][s] = b[p][s] /\ d[k][o] = p
  BY <1>1, <1>3 DEF LeafSpans
<1>5. /\ u.root = t.root
      /\ \A x \in T, z \in Sides : u.child[x][z] = IF x = p /\ z = s THEN k ELSE t.child[x][z]
      /\ \A z \in Sides : u.child[k][z] = NULL
      /\ \A x \in T : u.parent[x] = t.parent[x]
      /\ u.parent[k] = p
  BY <1>1 DEF Linked
<1>6. \A a \in T : IF s = "left" THEN a <= b[p]["left"] \/ p <= a ELSE a <= p \/ b[p]["right"] <= a
  BY DEF Shape, Gaps, Sides
<1>7. /\ b[p]["left"] < p /\ p < b[p]["right"]
      /\ t.root \in T /\ t.parent[t.root] = NULL
      /\ \A x \in Nodes : b[t.root]["left"] < x /\ x < b[t.root]["right"]
  BY <1>1 DEF Shape, Around, Rooted
<1> HIDE DEF d, U
<1>10. Rooted(u, U, d)
  <2>1. u.root \in U /\ u.root \in T /\ u.parent[u.root] = NULL
    BY <1>5, <1>7 DEF U
  <2>2. \A x \in Nodes : d[u.root]["left"] < x /\ x < d[u.root]["right"]
    <3>1. d[u.root]["left"] = b[t.root]["left"] /\ d[u.root]["right"] = b[t.root]["right"]
      BY <1>4, <1>5, <1>7 DEF Sides
    <3>. QED  BY <1>7, <3>1
  <2>. QED  BY <2>1, <2>2 DEF Rooted
<1>11. Around(U, d)
  BY <1>1, <1>3, <1>4, <1>7 DEF Shape, Around, Sides, U
<1>12. Parents(u, U)
  <2>1. SUFFICES ASSUME NEW n \in U, n # u.root
                 PROVE  u.parent[n] \in U /\ \E z \in Sides : u.child[u.parent[n]][z] = n
    BY DEF Parents
  <2>2. CASE n = k
    <3>1. u.parent[n] = p /\ u.child[p][s] = n
      BY <1>5, <2>2
    <3>. QED  BY <3>1 DEF U
  <2>3. CASE n \in T
    <3>1. PICK z \in Sides : t.parent[n] \in T /\ t.child[t.parent[n]][z] = n
      BY <1>5, <2>1, <2>3 DEF Shape, Parents
    <3>2. ~(t.parent[n] = p /\ z = s)
      BY <1>1, <2>3, <3>1
    <3>3. u.parent[n] = t.parent[n] /\ u.child[t.parent[n]][z] = n
      BY <1>5, <2>3, <3>1, <3>2
    <3>. QED  BY <3>1, <3>3 DEF U
  <2>. QED  BY <2>2, <2>3 DEF U
<1>13. Kids(u, U, d)
  <2>1. SUFFICES ASSUME NEW n \in U, NEW z \in Sides, NEW m, m = u.child[n][z], m # NULL
                 PROVE  m \in U /\ u.parent[m] = n /\ d[m][z] = d[n][z] /\ d[m][Other(z)] = n
    BY DEF Kids
  <2>2. n # k /\ n \in T
    BY <1>5, <2>1 DEF U
  <2>3. CASE n = p /\ z = s
    BY <1>1, <1>3, <1>4, <1>5, <2>1, <2>3 DEF U
  <2>4. CASE ~(n = p /\ z = s)
    <3>1. m = t.child[n][z] /\ m \in T /\ t.parent[m] = n /\ b[m][z] = b[n][z] /\ b[m][Other(z)] = n
      BY <1>5, <2>1, <2>2, <2>4 DEF Shape, Kids
    <3>. QED  BY <1>1, <1>4, <1>5, <2>2, <3>1 DEF U, Sides, Other
  <2>. QED  BY <2>3, <2>4
<1>14. Nested(U, d)
  <2>1. SUFFICES ASSUME NEW x \in U, NEW y \in U, x < y
        PROVE  NestedPair(d, x, y)
    BY DEF Nested
  <2>2. CASE x \in T /\ y \in T
    BY <1>1, <1>4, <2>1, <2>2 DEF Shape, Nested, NestedPair, Sides
  <2>3. CASE x \in T /\ y = k
    <3>1. CASE s = "left"
      BY <1>1, <1>3, <1>4, <1>6, <1>7, <2>1, <2>3, <3>1 DEF Shape, Nested, NestedPair, Sides, Around
    <3>2. CASE s = "right"
      BY <1>1, <1>3, <1>4, <1>6, <1>7, <2>1, <2>3, <3>2 DEF Shape, Nested, NestedPair, Sides, Around
    <3>. QED  BY <3>1, <3>2 DEF Sides
  <2>4. CASE x = k /\ y \in T
    <3>1. CASE s = "left"
      BY <1>1, <1>3, <1>4, <1>6, <1>7, <2>1, <2>4, <3>1 DEF Shape, Nested, NestedPair, Sides, Around
    <3>2. CASE s = "right"
      BY <1>1, <1>3, <1>4, <1>6, <1>7, <2>1, <2>4, <3>2 DEF Shape, Nested, NestedPair, Sides, Around
    <3>. QED  BY <3>1, <3>2 DEF Sides
  <2>. QED  BY <1>1, <2>1, <2>2, <2>3, <2>4 DEF U
<1>15. Gaps(u, U, d)
  <2>1. SUFFICES ASSUME NEW n \in U, NEW a \in U
                 PROVE  /\ u.child[n]["left"] = NULL => a <= d[n]["left"] \/ n <= a
                        /\ u.child[n]["right"] = NULL => a <= n \/ d[n]["right"] <= a
    BY DEF Gaps
  <2>2. CASE n \in T /\ a \in T
    BY <1>1, <1>4, <1>5, <2>2 DEF Shape, Gaps, Sides
  <2>3. CASE n = k /\ a = k
    BY <1>1, <2>3
  <2>4. CASE n = k /\ a \in T
    BY <1>1, <1>3, <1>4, <1>6, <1>7, <2>4 DEF Sides
  <2>5. CASE n \in T /\ a = k
    <3>1. /\ t.child[n]["left"] = NULL => p <= b[n]["left"] \/ n <= p
          /\ t.child[n]["right"] = NULL => p <= n \/ b[n]["right"] <= p
      BY <2>5 DEF Shape, Gaps
    <3>2. /\ u.child[n]["left"] = NULL => t.child[n]["left"] = NULL /\ ~(n = p /\ s = "left")
          /\ u.child[n]["right"] = NULL => t.child[n]["right"] = NULL /\ ~(n = p /\ s = "right")
      BY <1>1, <1>5, <2>5 DEF Sides
    <3>3. /\ d[n]["left"] = b[n]["left"] /\ d[n]["right"] = b[n]["right"]
          /\ b[n]["left"] < n /\ n < b[n]["right"]
      BY <1>4, <2>5 DEF Shape, Around, Sides
    <3>6. (k < n => NestedPair(d, k, n)) /\ (n < k => NestedPair(d, n, k))
      BY <1>14, <2>5 DEF Nested, U
    <3>7. (p < n => NestedPair(b, p, n)) /\ (n < p => NestedPair(b, n, p))
      BY <2>5, Zenon DEF Shape, Nested
    <3>8. /\ b[n]["left"] \in Int /\ b[n]["right"] \in Int /\ b[p]["left"] \in Int /\ b[p]["right"] \in Int
          /\ n \in Int /\ p \in Int /\ k \in Int
      BY <1>1, <2>5 DEF Sides
    <3>4. CASE s = "left"
      <4>1. d[k]["left"] = b[p]["left"] /\ d[k]["right"] = p
        BY <1>3, <1>4, <3>4 DEF Sides
      <4>. QED  BY <1>7, <2>5, <3>1, <3>2, <3>3, <3>4, <3>6, <3>7, <3>8, <4>1 DEF NestedPair
    <3>5. CASE s = "right"
      <4>1. d[k]["right"] = b[p]["right"] /\ d[k]["left"] = p
        BY <1>3, <1>4, <3>5 DEF Sides
      <4>. QED  BY <1>7, <2>5, <3>1, <3>2, <3>3, <3>5, <3>6, <3>7, <3>8, <4>1 DEF NestedPair
    <3>. QED  BY <3>4, <3>5 DEF Sides
  <2>. QED  BY <2>2, <2>3, <2>4, <2>5 DEF U
<1>16. Bounds(u, U, d)
  <2>0. u.root = t.root /\ \A z \in Sides : d[t.root][z] = b[t.root][z]
    BY <1>4, <1>5, <1>7
  <2>1. SUFFICES ASSUME NEW n \in U, NEW z \in Sides PROVE d[n][z] \in U \/ d[n][z] = b[t.root][z]
    BY <2>0 DEF Bounds
  <2>2. CASE n \in T
    BY <1>4, <2>2 DEF Shape, Bounds, U
  <2>3. CASE n = k
    <3>1. b[p][z] \in T \/ b[p][z] = b[t.root][z]
      BY DEF Shape, Bounds
    <3>2. d[k][z] = b[p][z] \/ d[k][z] = p
      BY <1>3, <1>4 DEF Sides
    <3>. QED  BY <2>3, <3>1, <3>2 DEF U
  <2>. QED  BY <2>2, <2>3 DEF U
<1>17. Blank(u, U)
  <2>1. SUFFICES ASSUME NEW n \in Nodes, n \notin U, NEW z \in Sides PROVE u.child[n][z] = NULL
    BY DEF Blank
  <2>2. n \notin T /\ n # k /\ n # p
    BY <2>1 DEF U
  <2>. QED  BY <2>2 DEF Shape, Blank, Linked
<1>18. Shape(u, U, d)
  BY <1>10, <1>11, <1>12, <1>13, <1>14, <1>15, <1>16, <1>17 DEF Shape
<1>. QED  BY <1>2, <1>18 DEF d, U

\* u is t without n, whose only child, or none, is c and stands in its place.
Removed(t, u, T, n, c) ==
    /\ u.root = IF n = t.root THEN c ELSE t.root
    /\ \A x \in Nodes, z \in Sides :
         u.child[x][z] = IF x = n THEN NULL ELSE IF t.child[x][z] = n THEN c ELSE t.child[x][z]
    /\ \A x \in T : x # n => u.parent[x] = IF x = c THEN t.parent[n] ELSE t.parent[x]

\* The spans after that.
SplicedSpans(b, n) ==
    [x \in Nodes |-> [z \in Sides |-> IF b[x][z] = n THEN b[n][z] ELSE b[x][z]]]

\* A node with at most one child can be replaced by this child: case 1 of
\* __rb_erase_augmented keeps the shape.
LEMMA RemovedShape ==
    ASSUME NodesAreKeys, NEW t, NEW u, NEW T \in SUBSET Nodes, NEW b \in Spans, Shape(t, T, b),
           NEW n \in T, NEW z \in Sides, t.child[n][z] = NULL,
           NEW c, c = t.child[n][Other(z)], Removed(t, u, T, n, c)
    PROVE  SplicedSpans(b, n) \in Spans /\ Shape(u, T \ {n}, SplicedSpans(b, n))
<1> DEFINE d == SplicedSpans(b, n)
           U == T \ {n}
<1>1. T \subseteq Int /\ T \subseteq Nodes /\ NULL \notin T /\ NULL \notin Nodes
      /\ b \in [Nodes -> [Sides -> Int]] /\ n \in Int /\ n \in Nodes
  BY DEF NodesAreKeys, Spans
<1>2. d \in Spans
  BY <1>1 DEF Spans, SplicedSpans
<1>3. PICK o \in Sides : o = Other(z) /\ o # z
  BY DEF Other, Sides
<1>4. \A x \in U, w \in Sides : d[x][w] = IF b[x][w] = n THEN b[n][w] ELSE b[x][w]
  BY <1>1 DEF SplicedSpans
<1>5. /\ u.root = IF n = t.root THEN c ELSE t.root
      /\ \A x \in U, w \in Sides :
           u.child[x][w] = IF t.child[x][w] = n THEN c ELSE t.child[x][w]
      /\ \A x \in U : u.parent[x] = IF x = c THEN t.parent[n] ELSE t.parent[x]
  BY <1>1 DEF Removed
<1>6. Apart(t, T)
  BY KidsApart
<1>7. /\ \A x \in T : b[x]["left"] < x /\ x < b[x]["right"]
      /\ \A x \in T, w \in Sides : b[x][w] \in Int
      /\ t.root \in T /\ t.parent[t.root] = NULL
      /\ \A x \in Nodes : b[t.root]["left"] < x /\ x < b[t.root]["right"]
  BY <1>1 DEF Shape, Around, Rooted
<1>8. c # NULL => /\ c \in T /\ c # n /\ t.parent[c] = n /\ c # t.root
                  /\ b[c][o] = b[n][o] /\ b[c][z] = n
                  /\ \A m \in T, w \in Sides : t.child[m][w] = c => m = n /\ w = o
  BY <1>1, <1>3, <1>6 DEF Shape, Kids, Apart, Other, Sides
<1>9. \A a \in T : IF z = "left" THEN a <= b[n]["left"] \/ n <= a ELSE a <= n \/ b[n]["right"] <= a
  BY DEF Shape, Gaps, Sides
<1>10. c = NULL =>
         \A a \in T : IF z = "left" THEN a <= n \/ b[n]["right"] <= a ELSE a <= b[n]["left"] \/ n <= a
  BY <1>3 DEF Shape, Gaps, Sides, Other
<1>11. \A x \in T : /\ n < x => NestedPair(b, n, x)
                    /\ x < n => NestedPair(b, x, n)
  BY DEF Shape, Nested
<1>12. \A x \in U : b[x][Other(z)] # n
  <2>1. SUFFICES ASSUME NEW x \in T, x # n, b[x][o] = n PROVE FALSE
    BY <1>3
  <2>2. (n < x => NestedPair(b, n, x)) /\ (x < n => NestedPair(b, x, n))
    BY <1>11
  <2>3. CASE z = "left"
    BY <1>1, <1>3, <1>7, <1>9, <2>1, <2>2, <2>3 DEF NestedPair, Sides, Other
  <2>4. CASE z = "right"
    BY <1>1, <1>3, <1>7, <1>9, <2>1, <2>2, <2>4 DEF NestedPair, Sides, Other
  <2>. QED  BY <2>3, <2>4 DEF Sides
<1> HIDE DEF d, U
<1>18. c # NULL => c \in U /\ \A w \in Sides : d[c][w] = b[n][w]
  <2>1. SUFFICES ASSUME c # NULL PROVE c \in U /\ d[c][o] = b[n][o] /\ d[c][z] = b[n][z]
    BY <1>3 DEF Sides
  <2>2. c \in U
    BY <1>8, <2>1 DEF U
  <2>3. b[n][o] # n
    BY <1>1, <1>7 DEF Sides
  <2>. QED  BY <1>4, <1>8, <2>1, <2>2, <2>3
<1>19. t.root # n => t.root \in U /\ t.root # c /\ \A w \in Sides : d[t.root][w] = b[t.root][w]
  <2>1. SUFFICES ASSUME t.root # n PROVE t.root \in U /\ t.root # c /\ \A w \in Sides : d[t.root][w] = b[t.root][w]
    OBVIOUS
  <2>2. t.root \in U /\ t.root # c
    BY <1>1, <1>7, <1>8, <2>1 DEF U
  <2>3. \A w \in Sides : b[t.root][w] # n
    BY <1>1, <1>7 DEF Sides
  <2>. QED  BY <1>4, <2>2, <2>3
<1>20. U # {} => /\ u.root \in U /\ u.parent[u.root] = NULL
                 /\ \A w \in Sides : d[u.root][w] = b[t.root][w]
  <2>1. CASE n = t.root
    <3>1. SUFFICES ASSUME U # {} PROVE c # NULL
      BY <1>5, <1>7, <1>18, <2>1
    <3>2. PICK a \in T : a # n
      BY <3>1 DEF U
    <3>. QED  BY <1>1, <1>7, <1>9, <1>10, <2>1, <3>2 DEF Sides
  <2>2. CASE n # t.root
    BY <1>5, <1>7, <1>19, <2>2
  <2>. QED  BY <2>1, <2>2
<1>16. Rooted(u, U, d)
  <2>1. ASSUME U = {} PROVE u.root = NULL
    BY <1>5, <1>7, <1>8, <2>1 DEF U
  <2>2. ASSUME U # {} PROVE d[u.root]["left"] = b[t.root]["left"] /\ d[u.root]["right"] = b[t.root]["right"]
    BY <1>20, <2>2 DEF Sides
  <2>. QED  BY <1>7, <1>20, <2>1, <2>2 DEF Rooted
<1>21. Around(U, d)
  BY <1>1, <1>4, <1>7 DEF Around, Sides, U
<1>22. Parents(u, U)
  <2>1. SUFFICES ASSUME NEW m \in U, m # u.root
                 PROVE  u.parent[m] \in U /\ \E w \in Sides : u.child[u.parent[m]][w] = m
    BY DEF Parents
  <2>2. CASE m = c
    <3>1. n # t.root
      BY <1>5, <2>1, <2>2
    <3>2. PICK w \in Sides : t.parent[n] \in T /\ t.child[t.parent[n]][w] = n
      BY <3>1 DEF Shape, Parents
    <3>3. t.parent[n] # n
      BY <1>1, <1>6, <3>2 DEF Apart
    <3>4. t.parent[n] \in U /\ u.parent[m] = t.parent[n] /\ u.child[t.parent[n]][w] = m
      BY <1>5, <2>2, <3>2, <3>3 DEF U
    <3>. QED  BY <3>4
  <2>3. CASE m # c
    <3>1. m \in T /\ m # t.root
      BY <1>5, <2>1, <1>19 DEF U
    <3>2. PICK w \in Sides : t.parent[m] \in T /\ t.child[t.parent[m]][w] = m
      BY <3>1 DEF Shape, Parents
    <3>3. t.parent[m] # n
      BY <1>1, <1>3, <2>3, <3>1, <3>2 DEF Sides
    <3>4. t.parent[m] \in U /\ u.parent[m] = t.parent[m] /\ u.child[t.parent[m]][w] = m
      BY <1>5, <2>1, <2>3, <3>1, <3>2, <3>3 DEF U
    <3>. QED  BY <3>4
  <2>. QED  BY <2>2, <2>3
<1>23. Kids(u, U, d)
  <2>1. SUFFICES ASSUME NEW m \in U, NEW w \in Sides, NEW k, k = u.child[m][w], k # NULL
                 PROVE  k \in U /\ u.parent[k] = m /\ d[k][w] = d[m][w] /\ d[k][Other(w)] = m
    BY DEF Kids
  <2>2. m \in T /\ m # n /\ Other(w) \in Sides
    BY DEF U, Other, Sides
  <2>3. CASE t.child[m][w] = n
    <3>1. k = c /\ t.parent[n] = m /\ b[n][w] = b[m][w] /\ b[n][Other(w)] = m
      BY <1>1, <1>5, <2>1, <2>2, <2>3 DEF Shape, Kids
    <3>2. b[m][w] # n
      BY <1>1, <1>7, <3>1 DEF Sides
    <3>3. k \in U /\ u.parent[k] = m
      BY <1>5, <1>18, <2>1, <3>1
    <3>4. d[k][w] = d[m][w]
      BY <1>4, <1>18, <2>1, <3>1, <3>2
    <3>5. d[k][Other(w)] = m
      BY <1>18, <2>1, <2>2, <3>1
    <3>. QED  BY <3>3, <3>4, <3>5
  <2>4. CASE t.child[m][w] # n
    <3>1. k = t.child[m][w] /\ k \in T /\ t.parent[k] = m /\ b[k][w] = b[m][w] /\ b[k][Other(w)] = m
      BY <1>5, <2>1, <2>2, <2>4 DEF Shape, Kids
    <3>2. k # c /\ k # n
      BY <1>1, <1>8, <2>1, <2>2, <2>4, <3>1
    <3>3. k \in U /\ u.parent[k] = m
      BY <1>5, <3>1, <3>2 DEF U
    <3>4. d[k][w] = d[m][w]
      BY <1>4, <2>1, <3>1, <3>3
    <3>5. d[k][Other(w)] = m
      BY <1>4, <2>2, <3>1, <3>3
    <3>. QED  BY <3>3, <3>4, <3>5
  <2>. QED  BY <2>3, <2>4
<1>24. Nested(U, d)
  <2>1. SUFFICES ASSUME NEW x \in U, NEW y \in U, x < y PROVE NestedPair(d, x, y)
    BY DEF Nested
  <2>2. x \in T /\ y \in T /\ x # n /\ y # n /\ b[x][Other(z)] # n /\ b[y][Other(z)] # n
    BY <1>12 DEF U
  <2>3. /\ NestedPair(b, x, y)
        /\ (n < x => NestedPair(b, n, x)) /\ (x < n => NestedPair(b, x, n))
        /\ (n < y => NestedPair(b, n, y)) /\ (y < n => NestedPair(b, y, n))
    BY <1>11, <2>1, <2>2, Zenon DEF Shape, Nested
  <2>4. CASE z = "left"
    BY <1>1, <1>4, <1>7, <1>9, <2>1, <2>2, <2>3, <2>4 DEF NestedPair, Sides, Other
  <2>5. CASE z = "right"
    BY <1>1, <1>4, <1>7, <1>9, <2>1, <2>2, <2>3, <2>5 DEF NestedPair, Sides, Other
  <2>. QED  BY <2>4, <2>5 DEF Sides
<1>25. Gaps(u, U, d)
  <2>1. SUFFICES ASSUME NEW m \in U, NEW a \in U
                 PROVE  /\ u.child[m]["left"] = NULL => a <= d[m]["left"] \/ m <= a
                        /\ u.child[m]["right"] = NULL => a <= m \/ d[m]["right"] <= a
    BY DEF Gaps
  <2>2. m \in T /\ a \in T /\ m # n /\ a # n /\ b[m][Other(z)] # n
    BY <1>12 DEF U
  <2>3. /\ t.child[m]["left"] = NULL => a <= b[m]["left"] \/ m <= a
        /\ t.child[m]["right"] = NULL => a <= m \/ b[m]["right"] <= a
    BY <2>2 DEF Shape, Gaps
  <2>4. /\ t.child[m]["left"] = n => b[n]["left"] = b[m]["left"] /\ b[n]["right"] = m
        /\ t.child[m]["right"] = n => b[n]["right"] = b[m]["right"] /\ b[n]["left"] = m
    <3>1. n # NULL /\ m \in T /\ Kids(t, T, b)
      BY <1>1, <2>2 DEF Shape
    <3>. QED  BY ONLY <3>1 DEF Kids, Sides, Other
  <2>5. \A w \in Sides : u.child[m][w] = NULL => t.child[m][w] = NULL \/ (t.child[m][w] = n /\ c = NULL)
    BY <1>5
  <2>6. CASE z = "left"
    BY <1>1, <1>4, <1>7, <1>9, <1>10, <2>2, <2>3, <2>4, <2>5, <2>6 DEF Sides, Other
  <2>7. CASE z = "right"
    BY <1>1, <1>4, <1>7, <1>9, <1>10, <2>2, <2>3, <2>4, <2>5, <2>7 DEF Sides, Other
  <2>. QED  BY <2>6, <2>7 DEF Sides
<1>26. Bounds(u, U, d)
  <2>1. SUFFICES ASSUME NEW m \in U, NEW w \in Sides PROVE d[m][w] \in U \/ d[m][w] = b[t.root][w]
    BY <1>20 DEF Bounds
  <2>2. b[n][w] # n
    BY <1>1, <1>7 DEF Sides
  <2>. QED  BY <1>4, <2>2 DEF Shape, Bounds, U
<1>27. Blank(u, U)
  BY <1>1 DEF Shape, Blank, Removed, U
<1>28. Shape(u, U, d)
  BY <1>16, <1>21, <1>22, <1>23, <1>24, <1>25, <1>26, <1>27 DEF Shape
<1>. QED  BY <1>2, <1>28 DEF d, U

\* u is t with k written wherever n was.
Relabelled(t, u, T, n, k) ==
    /\ u.root = IF t.root = n THEN k ELSE t.root
    /\ \A x \in Nodes, z \in Sides :
         u.child[x][z] = IF x = n THEN NULL
                         ELSE LET c == t.child[IF x = k THEN n ELSE x][z] IN IF c = n THEN k ELSE c
    /\ u.parent[k] = t.parent[n]
    /\ \A x \in T : x # n => u.parent[x] = IF t.parent[x] = n THEN k ELSE t.parent[x]

\* The spans after that.
RelabelledSpans(b, n, k) ==
    [x \in Nodes |-> [z \in Sides |->
        LET v == b[IF x = k THEN n ELSE x][z] IN IF v = n THEN k ELSE v]]

\* Writing the next greater key in the place of a node keeps the shape: what
\* cases 2 and 3 of __rb_erase_augmented come to.
LEMMA RelabelledShape ==
    ASSUME NodesAreKeys, NEW t, NEW u, NEW T \in SUBSET Nodes, NEW b \in Spans, Shape(t, T, b),
           NEW n \in T, NEW k \in Nodes, n < k, \A a \in T : a <= n \/ k < a,
           Relabelled(t, u, T, n, k)
    PROVE  RelabelledSpans(b, n, k) \in Spans /\ Shape(u, (T \ {n}) \cup {k}, RelabelledSpans(b, n, k))
<1> DEFINE d == RelabelledSpans(b, n, k)
           U == (T \ {n}) \cup {k}
           New(v) == IF v = n THEN k ELSE v
           Old(x) == IF x = k THEN n ELSE x
<1>1. T \subseteq Int /\ T \subseteq Nodes /\ NULL \notin T /\ NULL \notin Nodes
      /\ b \in [Nodes -> [Sides -> Int]] /\ n \in Int /\ n \in Nodes /\ k \in Int /\ k # NULL /\ n # NULL
  BY DEF NodesAreKeys, Spans
<1>2. k \notin T /\ k # n
  BY <1>1
<1>3. d \in Spans
  BY <1>1 DEF Spans, RelabelledSpans
<1>4. \A x \in U, w \in Sides : d[x][w] = New(b[Old(x)][w])
  BY <1>1 DEF RelabelledSpans
<1>5. /\ u.root = New(t.root)
      /\ \A x \in U, w \in Sides : u.child[x][w] = New(t.child[Old(x)][w])
      /\ u.parent[k] = t.parent[n]
      /\ \A x \in U : x # k => u.parent[x] = New(t.parent[x])
  BY <1>1, <1>2 DEF Relabelled
<1>6. Apart(t, T)
  BY KidsApart
<1>7. /\ \A x \in T : b[x]["left"] < x /\ x < b[x]["right"]
      /\ \A x \in T, w \in Sides : b[x][w] \in Int
      /\ t.root \in T /\ t.parent[t.root] = NULL
      /\ \A x \in Nodes : b[t.root]["left"] < x /\ x < b[t.root]["right"]
  BY <1>1 DEF Shape, Around, Rooted
<1>8. \A x \in U : Old(x) \in T /\ New(Old(x)) = x
  BY <1>2
<1>9. \A x \in T : New(x) \in U /\ Old(New(x)) = x
  BY <1>2
<1>10. ASSUME NEW x \in T PROVE New(x) \in Int /\ (x <= n \/ k < x) /\ x \in Int
  BY <1>1
<1>11. ASSUME NEW x \in T, NEW w \in Sides
       PROVE  b[x][w] <= n \/ k < b[x][w]
  <2>1. b[x][w] \in T \/ b[x][w] = b[t.root][w]
    BY DEF Shape, Bounds
  <2>2. b[t.root]["left"] < n /\ k < b[t.root]["right"]
    BY <1>1, <1>7
  <2>. QED  BY <1>1, <1>10, <2>1, <2>2 DEF Sides
<1> HIDE DEF d, U
<1>12. \A x \in T, w \in Sides : d[New(x)][w] = New(b[x][w])
  BY <1>4, <1>9
<1>13. u.root \in U /\ u.parent[u.root] = NULL /\ \A w \in Sides : d[u.root][w] = b[t.root][w]
  <2>1. u.root = New(t.root) /\ u.root \in U
    BY <1>5, <1>7, <1>9
  <2>2. \A w \in Sides : b[t.root][w] # n
    BY <1>1, <1>7 DEF Sides
  <2>3. u.parent[u.root] = NULL
    BY <1>1, <1>2, <1>5, <1>7, <2>1
  <2>4. \A w \in Sides : d[u.root][w] = b[t.root][w]
    <3>1. \A w \in Sides : d[New(t.root)][w] = New(b[t.root][w])
      BY <1>7, <1>12
    <3>2. \A w \in Sides : New(b[t.root][w]) = b[t.root][w]
      BY <2>2
    <3>. HIDE DEF New
    <3>. QED  BY <2>1, <3>1, <3>2
  <2>. QED  BY <2>1, <2>3, <2>4
<1>14. ASSUME NEW v \in Int, NEW w \in Int, v <= n \/ k < v, w <= n \/ k < w, v <= w
       PROVE  New(v) <= New(w)
  BY <1>1, <1>14
<1>20. Rooted(u, U, d)
  <2>1. d[u.root]["left"] = b[t.root]["left"] /\ d[u.root]["right"] = b[t.root]["right"]
    BY <1>13 DEF Sides
  <2>. QED  BY <1>7, <1>13, <2>1 DEF Rooted, U
<1>21. Around(U, d)
  <2>1. SUFFICES ASSUME NEW x \in U PROVE d[x]["left"] < x /\ x < d[x]["right"]
    BY DEF Around
  <2>2. PICK y \in T : y = Old(x) /\ x = New(y)
    BY <1>8
  <2>3. d[x]["left"] = New(b[y]["left"]) /\ d[x]["right"] = New(b[y]["right"])
    BY <1>12, <2>2 DEF Sides
  <2>4. /\ b[y]["left"] <= n \/ k < b[y]["left"]
        /\ b[y]["right"] <= n \/ k < b[y]["right"]
        /\ b[y]["left"] \in Int /\ b[y]["right"] \in Int /\ y \in Int
        /\ y <= n \/ k < y
        /\ b[y]["left"] < y /\ y < b[y]["right"]
    BY <1>7, <1>10, <1>11 DEF Sides
  <2>. QED  BY <1>1, <2>2, <2>3, <2>4
<1>22. Parents(u, U)
  <2>1. SUFFICES ASSUME NEW x \in U, x # u.root
                 PROVE  u.parent[x] \in U /\ \E w \in Sides : u.child[u.parent[x]][w] = x
    BY DEF Parents
  <2>2. PICK y \in T : y = Old(x) /\ x = New(y)
    BY <1>8
  <2>3. y # t.root
    BY <1>5, <2>1, <2>2
  <2>4. PICK w \in Sides : t.parent[y] \in T /\ t.child[t.parent[y]][w] = y
    BY <2>3 DEF Shape, Parents
  <2>5. u.parent[x] = New(t.parent[y])
    <3>1. t.parent[y] # y
      BY <1>1, <1>6, <2>4 DEF Apart
    <3>. QED  BY <1>2, <1>5, <2>2, <3>1
  <2>6. u.parent[x] \in U /\ Old(u.parent[x]) = t.parent[y]
    BY <1>9, <2>4, <2>5
  <2>7. u.child[u.parent[x]][w] = x
    <3>1. u.child[u.parent[x]][w] = New(t.child[t.parent[y]][w])
      <4>. HIDE DEF New
      <4>. QED  BY <1>5, <2>6
    <3>. QED  BY <2>2, <2>4, <3>1
  <2>. QED  BY <2>6, <2>7
<1>23. Kids(u, U, d)
  <2>1. SUFFICES ASSUME NEW x \in U, NEW w \in Sides, u.child[x][w] # NULL
                 PROVE  /\ u.child[x][w] \in U /\ u.parent[u.child[x][w]] = x
                        /\ d[u.child[x][w]][w] = d[x][w] /\ d[u.child[x][w]][Other(w)] = x
    BY DEF Kids
  <2>2. PICK y \in T : y = Old(x) /\ x = New(y)
    BY <1>8
  <2>3. PICK m : m = t.child[y][w] /\ m # NULL /\ u.child[x][w] = New(m)
    BY <1>1, <1>5, <2>1, <2>2
  <2>4. m \in T /\ t.parent[m] = y /\ b[m][w] = b[y][w] /\ b[m][Other(w)] = y /\ Other(w) \in Sides
    BY <1>1, <2>3 DEF Shape, Kids, Sides, Other
  <2>5. New(m) \in U /\ u.parent[New(m)] = New(y)
    <3>1. m # y
      BY <1>1, <1>6, <2>3, <2>4 DEF Apart
    <3>. QED  BY <1>2, <1>5, <1>9, <2>4, <3>1
  <2>6. d[New(m)][w] = New(b[y][w]) /\ d[New(m)][Other(w)] = New(y) /\ d[New(y)][w] = New(b[y][w])
    BY <1>12, <2>4
  <2>. QED  BY <2>2, <2>3, <2>5, <2>6
<1>24. Nested(U, d)
  <2>1. SUFFICES ASSUME NEW x \in U, NEW y \in U, x < y PROVE NestedPair(d, x, y)
    BY DEF Nested
  <2>2. PICK v \in T, w \in T : v = Old(x) /\ x = New(v) /\ w = Old(y) /\ y = New(w)
    BY <1>8
  <2>3. /\ d[x]["left"] = New(b[v]["left"]) /\ d[x]["right"] = New(b[v]["right"])
        /\ d[y]["left"] = New(b[w]["left"]) /\ d[y]["right"] = New(b[w]["right"])
    BY <1>12, <2>2 DEF Sides
  <2>4. /\ b[v]["left"] <= n \/ k < b[v]["left"]
        /\ b[v]["right"] <= n \/ k < b[v]["right"]
        /\ b[w]["left"] <= n \/ k < b[w]["left"]
        /\ b[w]["right"] <= n \/ k < b[w]["right"]
        /\ b[v]["left"] \in Int /\ b[v]["right"] \in Int /\ v \in Int
        /\ b[w]["left"] \in Int /\ b[w]["right"] \in Int /\ w \in Int
        /\ v <= n \/ k < v
        /\ w <= n \/ k < w
    BY <1>7, <1>10, <1>11 DEF Sides
  <2>5. v < w
    BY <1>1, <2>1, <2>2, <2>4
  <2>6. NestedPair(b, v, w)
    BY <2>5 DEF Shape, Nested
  <2>7. /\ b[v]["right"] <= w => New(b[v]["right"]) <= New(w)
        /\ b[w]["left"] <= b[v]["left"] => New(b[w]["left"]) <= New(b[v]["left"])
        /\ v <= b[w]["left"] => New(v) <= New(b[w]["left"])
        /\ b[w]["right"] <= b[v]["right"] => New(b[w]["right"]) <= New(b[v]["right"])
        /\ b[v]["right"] <= b[w]["left"] => New(b[v]["right"]) <= New(b[w]["left"])
    <3>. HIDE DEF New
    <3>. QED  BY <1>14, <2>4
  <2>. HIDE DEF New
  <2>. QED  BY <2>2, <2>3, <2>6, <2>7 DEF NestedPair
<1>25. Gaps(u, U, d)
  <2>1. SUFFICES ASSUME NEW x \in U, NEW a \in U
                 PROVE  /\ u.child[x]["left"] = NULL => a <= d[x]["left"] \/ x <= a
                        /\ u.child[x]["right"] = NULL => a <= x \/ d[x]["right"] <= a
    BY DEF Gaps
  <2>2. PICK v \in T, w \in T : v = Old(x) /\ x = New(v) /\ w = Old(a) /\ a = New(w)
    BY <1>8
  <2>3. /\ d[x]["left"] = New(b[v]["left"]) /\ d[x]["right"] = New(b[v]["right"])
        /\ u.child[x]["left"] = New(t.child[v]["left"]) /\ u.child[x]["right"] = New(t.child[v]["right"])
    BY <1>5, <1>12, <2>2 DEF Sides
  <2>4. /\ b[v]["left"] <= n \/ k < b[v]["left"]
        /\ b[v]["right"] <= n \/ k < b[v]["right"]
        /\ b[v]["left"] \in Int /\ b[v]["right"] \in Int /\ v \in Int /\ w \in Int
        /\ v <= n \/ k < v
        /\ w <= n \/ k < w
    BY <1>7, <1>10, <1>11 DEF Sides
  <2>5. /\ t.child[v]["left"] = NULL => w <= b[v]["left"] \/ v <= w
        /\ t.child[v]["right"] = NULL => w <= v \/ b[v]["right"] <= w
    BY DEF Shape, Gaps
  <2>6. /\ w <= b[v]["left"] => New(w) <= New(b[v]["left"])
        /\ v <= w => New(v) <= New(w)
        /\ w <= v => New(w) <= New(v)
        /\ b[v]["right"] <= w => New(b[v]["right"]) <= New(w)
    <3>. HIDE DEF New
    <3>. QED  BY <1>14, <2>4
  <2>7. \A c : New(c) = NULL => c = NULL
    BY <1>1
  <2>. HIDE DEF New
  <2>. QED  BY <2>2, <2>3, <2>5, <2>6, <2>7
<1>26. Bounds(u, U, d)
  <2>1. SUFFICES ASSUME NEW x \in U, NEW w \in Sides PROVE d[x][w] \in U \/ d[x][w] = b[t.root][w]
    BY <1>13 DEF Bounds
  <2>2. b[Old(x)][w] \in T \/ b[Old(x)][w] = b[t.root][w]
    BY <1>8 DEF Shape, Bounds
  <2>3. b[t.root][w] # n
    BY <1>1, <1>7 DEF Sides
  <2>. QED  BY <1>4, <1>9, <2>2, <2>3
<1>27. Blank(u, U)
  <2>1. SUFFICES ASSUME NEW x \in Nodes, x \notin U, NEW w \in Sides PROVE u.child[x][w] = NULL
    BY DEF Blank
  <2>2. x = n \/ (x \notin T /\ x # k)
    BY <2>1 DEF U
  <2>. QED  BY <1>1, <2>2 DEF Shape, Blank, Relabelled
<1>28. Shape(u, U, d)
  BY <1>20, <1>21, <1>22, <1>23, <1>24, <1>25, <1>26, <1>27 DEF Shape
<1>. QED  BY <1>3, <1>28 DEF d, U

-----------------------------------------------------------------------------
(* What Under and Above collect.                                           *)

\* The fields of a tree, without their being a record.
Typed(t) ==
    /\ t.root \in Links
    /\ t.child \in [Nodes -> [Sides -> Links]]
    /\ t.parent \in [Nodes -> Links]
    /\ t.color \in [Nodes -> {"red", "black"}]

\* One round of Under.
WithKids(t, above) == above \cup ({t.child[m][s] : m \in above, s \in Sides} \ {NULL})
\* f holds what the rounds of Under have collected.
IsUnder(t, n, f, k) == f = [j \in 0..k |-> IF j = 0 THEN {n} \ {NULL} ELSE WithKids(t, f[j - 1])]
\* C holds the children of its nodes.
KidsIn(t, C) == \A m \in C, s \in Sides : t.child[m][s] # NULL => t.child[m][s] \in C

\* Under(t, n) is the least set that holds n and the children of its nodes.
LEMMA UnderIs ==
    ASSUME NodesAreKeys, NEW t, Typed(t), NEW n \in Links
    PROVE  /\ Under(t, n) \in SUBSET Nodes /\ (n # NULL => n \in Under(t, n))
           /\ KidsIn(t, Under(t, n))
           /\ \A C \in SUBSET Nodes : (n # NULL => n \in C) /\ KidsIn(t, C) => Under(t, n) \subseteq C
<1>1. PICK N \in Nat : N = Cardinality(Nodes)
  BY FS_CardinalityType DEF NodesAreKeys
<1>2. PICK A \in SUBSET Nodes : A = {n} \ {NULL}
  BY DEF Links
<1>3. PICK G : G = [m \in SUBSET Nodes |-> WithKids(t, m)]
  OBVIOUS
<1>4. ASSUME NEW m \in SUBSET Nodes
      PROVE  G[m] = WithKids(t, m) /\ WithKids(t, m) \in SUBSET Nodes /\ m \subseteq WithKids(t, m)
  <2>1. \A x \in m, s \in Sides : t.child[x][s] \in Links
    <3>1. t.child \in [Nodes -> [Sides -> Links]]
      BY DEF Typed
    <3>. QED  BY ONLY <3>1, m \in SUBSET Nodes
  <2>2. G[m] = WithKids(t, m)
    BY <1>3
  <2>3. WithKids(t, m) \in SUBSET Nodes
    <3>1. SUFFICES ASSUME NEW y \in WithKids(t, m) PROVE y \in Nodes
      OBVIOUS
    <3>2. CASE y \in m
      BY <3>2
    <3>3. CASE y \notin m
      <4>1. y # NULL /\ \E x \in m, s \in Sides : y = t.child[x][s]
        BY <3>1, <3>3 DEF WithKids
      <4>. QED  BY <2>1, <4>1 DEF Links
    <3>. QED  BY <3>2, <3>3
  <2>4. m \subseteq WithKids(t, m)
    BY DEF WithKids
  <2>. QED  BY <2>2, <2>3, <2>4
<1>5. Grows(G, Nodes)
  <2>1. \A m \in SUBSET Nodes : WithKids(t, m) \in SUBSET Nodes
    BY <1>4
  <2>2. \A m \in SUBSET Nodes : m \subseteq G[m]
    BY <1>3 DEF WithKids
  <2>. QED  BY <1>3, <2>1, <2>2 DEF Grows
<1>6. ASSUME NEW f, IsUnder(t, n, f, N) PROVE Iterates(G, A, Nodes, f, N)
  <2>1. f[0] = A
    BY <1>2, <1>6 DEF IsUnder
  <2>2. ASSUME NEW k \in 1..N, f[k - 1] \in SUBSET Nodes PROVE f[k] = G[f[k - 1]]
    <3>1. k \in 0..N /\ k # 0
      OBVIOUS
    <3>2. f[k] = WithKids(t, f[k - 1])
      BY <1>6, <3>1 DEF IsUnder
    <3>. QED  BY <1>4, <2>2, <3>2
  <2>. QED  BY <2>1, <2>2 DEF Iterates
<1>7. ASSUME NEW f, IsRounds(G, A, f, N) PROVE IsUnder(t, n, [j \in 0..N |-> f[j]], N)
  <2>1. ASSUME NEW j \in 0..N
        PROVE f[j] = IF j = 0 THEN {n} \ {NULL} ELSE WithKids(t, f[j - 1])
    <3>1. f[j] = IF j = 0 THEN A ELSE G[f[j - 1]]
      BY <1>7 DEF IsRounds
    <3>2. j # 0 => f[j - 1] \in SUBSET Nodes
      BY <1>7, <1>5 DEF IsRounds, Grows
    <3>. QED  BY <1>2, <1>4, <3>1, <3>2
  <2>2. PICK g : g = [j \in 0..N |-> f[j]]
    OBVIOUS
  <2>3. ASSUME NEW j \in 0..N PROVE f[j] = IF j = 0 THEN {n} \ {NULL} ELSE WithKids(t, g[j - 1])
    <3>1. j # 0 => j - 1 \in 0..N
      OBVIOUS
    <3>. QED  BY <2>1, <2>2, <3>1
  <2>4. g = [j \in 0..N |-> IF j = 0 THEN {n} \ {NULL} ELSE WithKids(t, g[j - 1])]
    BY <2>2, <2>3, Zenon
  <2>. QED  BY <2>2, <2>4 DEF IsUnder
<1>8. PICK f : IsUnder(t, n, f, N) /\ Under(t, n) = f[N]
  <2>1. \E f : IsUnder(t, n, f, N)
    BY <1>5, <1>7, RoundsExist
  <2>2. Under(t, n) = (CHOOSE f : IsUnder(t, n, f, Cardinality(Nodes)))[Cardinality(Nodes)]
    BY DEF Under, IsUnder, WithKids
  <2>. QED  BY <1>1, <2>1, <2>2, Zenon
<1>9. PICK U : U = Under(t, n)
  OBVIOUS
<1>10. LeastClosed(G, A, Nodes, U)
  <2>1. Iterates(G, A, Nodes, f, N) /\ IsFiniteSet(Nodes) /\ U = f[N]
    BY <1>6, <1>8, <1>9 DEF NodesAreKeys
  <2>. HIDE <1>6, <1>7
  <2>. QED  BY <1>1, <1>5, <2>1, Closure
<1>11. KidsIn(t, U)
  <2>1. WithKids(t, U) = U
    BY <1>4, <1>10 DEF LeastClosed
  <2>. QED  BY <2>1 DEF KidsIn, WithKids
<1>12. ASSUME NEW C \in SUBSET Nodes, n # NULL => n \in C, KidsIn(t, C) PROVE U \subseteq C
  <2>1. A \subseteq C
    BY <1>2, <1>12
  <2>2. ASSUME NEW m \in SUBSET Nodes, m \subseteq C PROVE G[m] \subseteq C
    <3>1. G[m] = WithKids(t, m)
      BY <1>4
    <3>2. \A y \in WithKids(t, m) : y \in C
      BY ONLY <1>12, <2>2 DEF WithKids, KidsIn
    <3>. QED  BY ONLY <3>1, <3>2
  <2>. QED  BY <1>10, <2>1, <2>2 DEF Closed, LeastClosed
<1>. QED  BY <1>2, <1>9, <1>10, <1>11, <1>12 DEF LeastClosed

\* One round of Above.
WithParents(t, below) == below \cup ({t.parent[m] : m \in below} \ {NULL})
\* f holds what the rounds of Above have collected.
IsAbove(t, n, f, k) == f = [j \in 0..k |-> IF j = 0 THEN {n} ELSE WithParents(t, f[j - 1])]
\* C holds the parents of its nodes.
ParentsIn(t, C) == \A m \in C : t.parent[m] # NULL => t.parent[m] \in C

\* Above(t, n) is the least set that holds n and the parents of its nodes.
LEMMA AboveIs ==
    ASSUME NodesAreKeys, NEW t, Typed(t), NEW n \in Nodes
    PROVE  /\ Above(t, n) \in SUBSET Nodes /\ n \in Above(t, n)
           /\ ParentsIn(t, Above(t, n))
           /\ \A C \in SUBSET Nodes : n \in C /\ ParentsIn(t, C) => Above(t, n) \subseteq C
<1>1. PICK N \in Nat : N = Cardinality(Nodes)
  BY FS_CardinalityType DEF NodesAreKeys
<1>2. PICK A \in SUBSET Nodes : A = {n}
  OBVIOUS
<1>3. PICK G : G = [m \in SUBSET Nodes |-> WithParents(t, m)]
  OBVIOUS
<1>4. ASSUME NEW m \in SUBSET Nodes
      PROVE  G[m] = WithParents(t, m) /\ WithParents(t, m) \in SUBSET Nodes /\ m \subseteq WithParents(t, m)
  <2>1. \A x \in m : t.parent[x] \in Links
    <3>1. t.parent \in [Nodes -> Links]
      BY DEF Typed
    <3>. QED  BY ONLY <3>1, m \in SUBSET Nodes
  <2>2. G[m] = WithParents(t, m)
    BY <1>3
  <2>3. WithParents(t, m) \in SUBSET Nodes
    <3>1. SUFFICES ASSUME NEW y \in WithParents(t, m) PROVE y \in Nodes
      OBVIOUS
    <3>2. CASE y \in m
      BY <3>2
    <3>3. CASE y \notin m
      <4>1. y # NULL /\ \E x \in m : y = t.parent[x]
        BY <3>1, <3>3 DEF WithParents
      <4>. QED  BY <2>1, <4>1 DEF Links
    <3>. QED  BY <3>2, <3>3
  <2>4. m \subseteq WithParents(t, m)
    BY DEF WithParents
  <2>. QED  BY <2>2, <2>3, <2>4
<1>5. Grows(G, Nodes)
  <2>1. \A m \in SUBSET Nodes : WithParents(t, m) \in SUBSET Nodes
    BY <1>4
  <2>2. \A m \in SUBSET Nodes : m \subseteq G[m]
    BY <1>3 DEF WithParents
  <2>. QED  BY <1>3, <2>1, <2>2 DEF Grows
<1>6. ASSUME NEW f, IsAbove(t, n, f, N) PROVE Iterates(G, A, Nodes, f, N)
  <2>1. f[0] = A
    BY <1>2, <1>6 DEF IsAbove
  <2>2. ASSUME NEW k \in 1..N, f[k - 1] \in SUBSET Nodes PROVE f[k] = G[f[k - 1]]
    <3>1. k \in 0..N /\ k # 0
      OBVIOUS
    <3>2. f[k] = WithParents(t, f[k - 1])
      BY <1>6, <3>1 DEF IsAbove
    <3>. QED  BY <1>4, <2>2, <3>2
  <2>. QED  BY <2>1, <2>2 DEF Iterates
<1>7. ASSUME NEW f, IsRounds(G, A, f, N) PROVE IsAbove(t, n, [j \in 0..N |-> f[j]], N)
  <2>1. ASSUME NEW j \in 0..N
        PROVE f[j] = IF j = 0 THEN {n} ELSE WithParents(t, f[j - 1])
    <3>1. f[j] = IF j = 0 THEN A ELSE G[f[j - 1]]
      BY <1>7 DEF IsRounds
    <3>2. j # 0 => f[j - 1] \in SUBSET Nodes
      BY <1>7, <1>5 DEF IsRounds, Grows
    <3>. QED  BY <1>2, <1>4, <3>1, <3>2
  <2>2. PICK g : g = [j \in 0..N |-> f[j]]
    OBVIOUS
  <2>3. ASSUME NEW j \in 0..N PROVE f[j] = IF j = 0 THEN {n} ELSE WithParents(t, g[j - 1])
    <3>1. j # 0 => j - 1 \in 0..N
      OBVIOUS
    <3>. QED  BY <2>1, <2>2, <3>1
  <2>4. g = [j \in 0..N |-> IF j = 0 THEN {n} ELSE WithParents(t, g[j - 1])]
    BY <2>2, <2>3, Zenon
  <2>. QED  BY <2>2, <2>4 DEF IsAbove
<1>8. PICK f : IsAbove(t, n, f, N) /\ Above(t, n) = f[N]
  <2>1. \E f : IsAbove(t, n, f, N)
    BY <1>5, <1>7, RoundsExist
  <2>2. Above(t, n) = (CHOOSE f : IsAbove(t, n, f, Cardinality(Nodes)))[Cardinality(Nodes)]
    BY DEF Above, IsAbove, WithParents
  <2>. QED  BY <1>1, <2>1, <2>2, Zenon
<1>9. PICK U : U = Above(t, n)
  OBVIOUS
<1>10. LeastClosed(G, A, Nodes, U)
  <2>1. Iterates(G, A, Nodes, f, N) /\ IsFiniteSet(Nodes) /\ U = f[N]
    BY <1>6, <1>8, <1>9 DEF NodesAreKeys
  <2>. HIDE <1>6, <1>7
  <2>. QED  BY <1>1, <1>5, <2>1, Closure
<1>11. ParentsIn(t, U)
  <2>1. WithParents(t, U) = U
    BY <1>4, <1>10 DEF LeastClosed
  <2>. QED  BY <2>1 DEF ParentsIn, WithParents
<1>12. ASSUME NEW C \in SUBSET Nodes, n \in C, ParentsIn(t, C) PROVE U \subseteq C
  <2>1. A \subseteq C
    BY <1>2, <1>12
  <2>2. ASSUME NEW m \in SUBSET Nodes, m \subseteq C PROVE G[m] \subseteq C
    <3>1. G[m] = WithParents(t, m)
      BY <1>4
    <3>2. \A y \in WithParents(t, m) : y \in C
      BY ONLY <1>12, <2>2 DEF WithParents, ParentsIn
    <3>. QED  BY ONLY <3>1, <3>2
  <2>. QED  BY <1>10, <2>1, <2>2 DEF Closed, LeastClosed
<1>. QED  BY <1>2, <1>9, <1>10, <1>11, <1>12 DEF LeastClosed

-----------------------------------------------------------------------------
(* Under a node is what lies in its span.                                  *)

\* The key x lies in the span of n.
Inside(b, n, x) == b[n]["left"] < x /\ x < b[n]["right"]
\* The span of x lies in the span of n.
Within(b, n, x) == b[n]["left"] <= b[x]["left"] /\ b[x]["right"] <= b[n]["right"]
\* How many keys a span may hold; it falls on every way down.
Width(b, n) == b[n]["right"] - b[n]["left"]

SpanTypes(T, b) == \A n \in T : n \in Int /\ b[n]["left"] \in Int /\ b[n]["right"] \in Int

\* The keys and the ends of the spans are integers.
LEMMA SpansAreInts ==
    ASSUME NodesAreKeys, NEW T \in SUBSET Nodes, NEW b \in Spans PROVE SpanTypes(T, b)
  BY DEF NodesAreKeys, Spans, SpanTypes, Sides

\* Whoever lies in the span of n has its span there.
LEMMA SpansNest ==
    ASSUME NodesAreKeys, NEW t, NEW T \in SUBSET Nodes, NEW b \in Spans, Shape(t, T, b),
           NEW n \in T, NEW x \in T, Inside(b, n, x)
    PROVE  Within(b, n, x)
<1>1. (n < x => NestedPair(b, n, x)) /\ (x < n => NestedPair(b, x, n))
  BY DEF Shape, Nested
<1>2. Inside(b, x, x) /\ Inside(b, n, n)
  BY DEF Shape, Around, Inside
<1>3. SpanTypes(T, b)
  BY SpansAreInts
<1>. QED  BY <1>1, <1>2, <1>3 DEF Inside, Within, NestedPair, SpanTypes

\* Whoever lies in the span of another node is a child of a node that does.
LEMMA ParentInside ==
    ASSUME NodesAreKeys, NEW t, NEW T \in SUBSET Nodes, NEW b \in Spans, Shape(t, T, b),
           NEW n \in T, NEW x \in T, Inside(b, n, x), x # n
    PROVE  /\ x # t.root /\ t.parent[x] \in T /\ Inside(b, n, t.parent[x])
           /\ Width(b, x) < Width(b, t.parent[x])
           /\ \E s \in Sides : t.child[t.parent[x]][s] = x
<1>1. (n < x => NestedPair(b, n, x)) /\ (x < n => NestedPair(b, x, n))
  BY DEF Shape, Nested
<1>2. SpanTypes(T, b)
  BY SpansAreInts
<1>3. Inside(b, x, x) /\ Inside(b, n, n)
  BY DEF Shape, Around, Inside
<1>4. x # t.root
  <2>1. SUFFICES ASSUME x = t.root PROVE FALSE
    OBVIOUS
  <2>2. Inside(b, x, n)
    BY <2>1 DEF Shape, Rooted, Inside
  <2>. QED  BY <1>1, <1>2, <1>3, <2>2 DEF Inside, NestedPair, SpanTypes
<1>5. PICK q \in T, s \in Sides : q = t.parent[x] /\ t.child[q][s] = x
  BY <1>4 DEF Shape, Parents
<1>6. b[x][s] = b[q][s] /\ b[x][Other(s)] = q
  BY <1>5 DEF Shape, Kids, NodesAreKeys
<1>7. Inside(b, q, q)
  BY DEF Shape, Around, Inside
<1>8. Width(b, x) < Width(b, q)
  BY <1>2, <1>3, <1>6, <1>7 DEF Width, Inside, SpanTypes, Sides, Other
<1>9. (n < q => NestedPair(b, n, q)) /\ (q < n => NestedPair(b, q, n))
  BY DEF Shape, Nested
<1>10. Inside(b, n, q)
  <2>1. CASE s = "left"
    BY <1>1, <1>2, <1>3, <1>6, <1>7, <1>9, <2>1 DEF Inside, NestedPair, SpanTypes, Other
  <2>2. CASE s = "right"
    BY <1>1, <1>2, <1>3, <1>6, <1>7, <1>9, <2>2 DEF Inside, NestedPair, SpanTypes, Other
  <2>. QED  BY <2>1, <2>2 DEF Sides
<1>. QED  BY <1>4, <1>5, <1>8, <1>10

\* Of a set of nodes of the tree one has the widest span.
LEMMA Widest ==
    ASSUME NodesAreKeys, NEW t, NEW T \in SUBSET Nodes, NEW b \in Spans, Shape(t, T, b),
           NEW X \in SUBSET T, X # {}
    PROVE  \E x \in X : \A y \in X : Width(b, y) <= Width(b, x)
<1>1. SpanTypes(T, b)
  BY SpansAreInts
<1>2. t.root \in T
  BY DEF Shape, Rooted
<1>9. \A x \in T : Width(b, x) \in Int
  BY <1>1 DEF Width, SpanTypes
<1>3. PICK w \in Int : w = Width(b, t.root)
  BY <1>2, <1>9
<1>4. \A x \in X : Width(b, x) \in Int /\ Width(b, x) <= w
  <2>1. SUFFICES ASSUME NEW x \in X PROVE Width(b, x) \in Int /\ Width(b, x) <= w
    OBVIOUS
  <2>2. Inside(b, t.root, x)
    BY DEF Shape, Rooted, Inside
  <2>3. Within(b, t.root, x)
    BY <1>2, <2>2, SpansNest
  <2>4. PICK r \in T : r = t.root
    BY <1>2
  <2>. QED  BY <1>1, <1>3, <1>9, <2>3, <2>4 DEF Within, Width, SpanTypes
<1> DEFINE D == {w - Width(b, x) : x \in X}
<1>5. D \subseteq Nat /\ D # {}
  <2>1. \A x \in X : w - Width(b, x) \in Nat
    BY <1>4
  <2>. QED  BY <2>1
<1>6. PICK d \in D : \A e \in D : d <= e
  BY <1>5, LeastNumber
<1>7. PICK x \in X : d = w - Width(b, x)
  BY <1>6
<1>8. ASSUME NEW y \in X PROVE Width(b, y) <= Width(b, x)
  <2>1. d <= w - Width(b, y)
    BY <1>6
  <2>. QED  BY <1>4, <1>7, <2>1
<1>. QED  BY <1>8

\* Under a node are the nodes of the tree in its span, no matter how the links run.
LEMMA UnderIsSpan ==
    ASSUME NodesAreKeys, NEW t, Typed(t), NEW T \in SUBSET Nodes, NEW b \in Spans, Shape(t, T, b),
           NEW n \in T
    PROVE  Under(t, n) = {x \in T : Inside(b, n, x)}
<1> DEFINE U == Under(t, n)
           C == {x \in T : Inside(b, n, x)}
<1>1. n \in Links /\ n # NULL
  BY DEF Links, NodesAreKeys
<1>2. /\ U \in SUBSET Nodes /\ n \in U /\ KidsIn(t, U)
      /\ \A D \in SUBSET Nodes : n \in D /\ KidsIn(t, D) => U \subseteq D
  BY <1>1, UnderIs
<1>3. Inside(b, n, n)
  BY DEF Shape, Around, Inside
<1>4. KidsIn(t, C)
  <2>1. SUFFICES ASSUME NEW m \in T, Inside(b, n, m), NEW s \in Sides, NEW k, k = t.child[m][s], k # NULL
                 PROVE  k \in T /\ Inside(b, n, k)
    BY DEF KidsIn
  <2>2. Within(b, n, m)
    BY <2>1, SpansNest
  <2>3. k \in T /\ b[k][s] = b[m][s] /\ b[k][Other(s)] = m
    BY <2>1 DEF Shape, Kids
  <2>4. Inside(b, k, k) /\ Inside(b, m, m)
    BY <2>3 DEF Shape, Around, Inside
  <2>5. SpanTypes(T, b)
    BY SpansAreInts
  <2>. QED  BY <2>2, <2>3, <2>4, <2>5 DEF Within, Inside, SpanTypes, Sides, Other
<1>5. U \subseteq C
  <2>1. C \in SUBSET Nodes /\ n \in C
    BY <1>3
  <2>. QED  BY <1>2, <1>4, <2>1
<1>6. C \subseteq U
  <2>1. SUFFICES ASSUME C \ U # {} PROVE FALSE
    OBVIOUS
  <2>2. PICK X \in SUBSET T : X = C \ U
    OBVIOUS
  <2>3. PICK x \in X : \A y \in X : Width(b, y) <= Width(b, x)
    BY <2>1, <2>2, Widest
  <2>4. x \in T /\ Inside(b, n, x) /\ x \notin U /\ x # n
    BY <1>2, <2>2, <2>3
  <2>5. PICK q \in T, s \in Sides :
          Inside(b, n, q) /\ Width(b, x) < Width(b, q) /\ t.child[q][s] = x
    <3>1. t.parent[x] \in T /\ Inside(b, n, t.parent[x]) /\ Width(b, x) < Width(b, t.parent[x])
          /\ \E s \in Sides : t.child[t.parent[x]][s] = x
      BY <2>4, ParentInside
    <3>. QED  BY <3>1, Zenon
  <2>6. q \in U
    <3>1. SUFFICES ASSUME q \in X PROVE FALSE
      BY <2>2, <2>5
    <3>2. Width(b, q) <= Width(b, x)
      BY <2>3, <3>1
    <3>3. Width(b, q) \in Int /\ Width(b, x) \in Int
      <4>1. SpanTypes(T, b)
        BY SpansAreInts
      <4>. QED  BY <2>4, <4>1 DEF SpanTypes, Width
    <3>. QED  BY <2>5, <3>2, <3>3
  <2>7. x # NULL
    BY <2>4 DEF NodesAreKeys
  <2>. QED  BY <1>2, <2>4, <2>5, <2>6, <2>7 DEF KidsIn
<1>. QED  BY <1>5, <1>6

\* Under NULL is nothing.
LEMMA UnderNull ==
    ASSUME NodesAreKeys, NEW t, Typed(t) PROVE Under(t, NULL) = {}
<1>1. NULL \in Links /\ KidsIn(t, {})
  BY DEF Links, KidsIn
<1>2. Under(t, NULL) \subseteq {}
  BY <1>1, UnderIs
<1>. QED  BY <1>2

\* Under the root are all nodes of the tree: InTree is T.
LEMMA UnderRoot ==
    ASSUME NodesAreKeys, NEW t, Typed(t), NEW T \in SUBSET Nodes, NEW b \in Spans, Shape(t, T, b)
    PROVE  Under(t, t.root) = T
<1>1. CASE T = {}
  BY <1>1, UnderNull DEF Shape, Rooted
<1>2. CASE T # {}
  <2>1. t.root \in T /\ \A x \in T : Inside(b, t.root, x)
    BY <1>2 DEF Shape, Rooted, Inside
  <2>2. PICK r \in T : r = t.root
    BY <2>1
  <2>3. Under(t, r) = {x \in T : Inside(b, r, x)}
    BY UnderIsSpan
  <2>. QED  BY <2>1, <2>2, <2>3
<1>. QED  BY <1>1, <1>2

\* Above a node are the nodes in whose span it lies.
LEMMA AboveIsSpans ==
    ASSUME NodesAreKeys, NEW t, Typed(t), NEW T \in SUBSET Nodes, NEW b \in Spans, Shape(t, T, b),
           NEW n \in T
    PROVE  Above(t, n) = {a \in T : Inside(b, a, n)}
<1> DEFINE U == Above(t, n)
           C == {a \in T : Inside(b, a, n)}
<1>1. /\ U \in SUBSET Nodes /\ n \in U /\ ParentsIn(t, U)
      /\ \A D \in SUBSET Nodes : n \in D /\ ParentsIn(t, D) => U \subseteq D
  BY AboveIs
<1>2. Inside(b, n, n)
  BY DEF Shape, Around, Inside
<1>3. ParentsIn(t, C)
  <2>1. SUFFICES ASSUME NEW m \in T, Inside(b, m, n), t.parent[m] # NULL
                 PROVE  t.parent[m] \in T /\ Inside(b, t.parent[m], n)
    BY DEF ParentsIn
  <2>2. m # t.root
    BY <2>1 DEF Shape, Rooted
  <2>3. PICK q \in T, s \in Sides : q = t.parent[m] /\ t.child[q][s] = m
    BY <2>2 DEF Shape, Parents
  <2>4. b[m][s] = b[q][s] /\ b[m][Other(s)] = q
    BY <2>3 DEF Shape, Kids, NodesAreKeys
  <2>5. Inside(b, m, m) /\ Inside(b, q, q)
    BY DEF Shape, Around, Inside
  <2>6. SpanTypes(T, b)
    BY SpansAreInts
  <2>. QED  BY <2>1, <2>3, <2>4, <2>5, <2>6 DEF Inside, SpanTypes, Sides, Other
<1>4. U \subseteq C
  <2>1. C \in SUBSET Nodes /\ n \in C
    BY <1>2
  <2>. QED  BY <1>1, <1>3, <2>1
<1>5. C \subseteq U
  <2>1. SUFFICES ASSUME NEW a \in T, Inside(b, a, n) PROVE a \in U
    OBVIOUS
  <2>2. PICK X \in SUBSET T : X = {y \in U : Inside(b, a, y)}
    BY <1>4
  <2>3. PICK x \in X : \A y \in X : Width(b, y) <= Width(b, x)
    <3>1. n \in X
      BY <1>1, <2>1, <2>2
    <3>. QED  BY <3>1, Widest
  <2>4. x \in T /\ Inside(b, a, x) /\ x \in U
    BY <2>2, <2>3
  <2>5. SUFFICES ASSUME x # a PROVE FALSE
    BY <2>4
  <2>6. PICK q \in T : q = t.parent[x] /\ Inside(b, a, q) /\ Width(b, x) < Width(b, q)
    <3>1. t.parent[x] \in T /\ Inside(b, a, t.parent[x]) /\ Width(b, x) < Width(b, t.parent[x])
      BY <2>4, <2>5, ParentInside
    <3>. QED  BY <3>1, Zenon
  <2>7. q \in X
    BY <1>1, <2>2, <2>4, <2>6 DEF ParentsIn, NodesAreKeys
  <2>8. Width(b, q) <= Width(b, x)
    BY <2>3, <2>7
  <2>9. Width(b, q) \in Int /\ Width(b, x) \in Int
    <3>1. SpanTypes(T, b)
      BY SpansAreInts
    <3>. QED  BY <2>4, <3>1 DEF SpanTypes, Width
  <2>. QED  BY <2>6, <2>8, <2>9
<1>. QED  BY <1>4, <1>5

-----------------------------------------------------------------------------
(* What the writes of rbtree.c do to the fields.                           *)

Colors == {"red", "black"}
\* The records that the calls work on.
Trees == [root : Links, child : [Nodes -> [Sides -> Links]], parent : [Nodes -> Links],
          color : [Nodes -> Colors]]

\* u is t with the word of n, if it is a node, holding p and c.
Reworded(t, u, n, p, c) ==
    /\ u \in Trees /\ u.root = t.root /\ u.child = t.child
    /\ \A x \in Nodes : /\ u.parent[x] = IF x = n THEN p ELSE t.parent[x]
                        /\ u.color[x] = IF x = n THEN c ELSE t.color[x]

\* u is t with p the parent of n, if it is a node.
Reparented(t, u, n, p) ==
    /\ u \in Trees /\ u.root = t.root /\ u.child = t.child /\ u.color = t.color
    /\ \A x \in Nodes : u.parent[x] = IF x = n THEN p ELSE t.parent[x]

\* u is t with k the child of n, if it is a node, on side s.
Rechilded(t, u, n, s, k) ==
    /\ u \in Trees /\ u.parent = t.parent /\ u.color = t.color
    /\ \A x \in Nodes, z \in Sides : u.child[x][z] = IF x = n /\ z = s THEN k ELSE t.child[x][z]

\* What rb_set_parent_color writes.
LEMMA SetParentColorFields ==
    ASSUME NEW t \in Trees, NEW n \in Nodes, NEW p \in Links, NEW c \in Colors
    PROVE  Reworded(t, rb_set_parent_color(t, n, p, c), n, p, c)
  BY DEF Trees, rb_set_parent_color, Reworded

\* What rb_set_parent writes.
LEMMA SetParentFields ==
    ASSUME NEW t \in Trees, NEW n \in Nodes, NEW p \in Links
    PROVE  Reparented(t, rb_set_parent(t, n, p), n, p)
  BY DEF Trees, rb_set_parent, Reparented

\* What is written when a child that may be missing is made black.
LEMMA SetBlackIfAnyFields ==
    ASSUME NULL \notin Nodes, NEW t \in Trees, NEW n \in Links, NEW p \in Links
    PROVE  Reworded(t, SetBlackIfAny(t, n, p), n, p, "black")
<1>1. CASE n = NULL
  BY <1>1 DEF SetBlackIfAny, Reworded
<1>2. CASE n # NULL
  <2>1. n \in Nodes /\ "black" \in Colors /\ SetBlackIfAny(t, n, p) = rb_set_parent_color(t, n, p, "black")
    BY <1>2 DEF Links, Colors, SetBlackIfAny
  <2>. QED  BY <2>1, SetParentColorFields
<1>. QED  BY <1>1, <1>2

\* What copying the word of one node to another writes.
LEMMA CopyParentColorFields ==
    ASSUME NEW t \in Trees, NEW old \in Nodes, NEW new \in Nodes
    PROVE  Reworded(t, CopyParentColor(t, old, new), new, t.parent[old], t.color[old])
  BY DEF Trees, CopyParentColor, Reworded

\* One write of rb_left or rb_right.
SetChild(t, x, z, k) == [t EXCEPT !.child[x][z] = k]

\* What it changes.
LEMMA SetChildFields ==
    ASSUME NEW t \in Trees, NEW n \in Nodes, NEW s \in Sides, NEW k \in Links
    PROVE  Rechilded(t, SetChild(t, n, s, k), n, s, k) /\ SetChild(t, n, s, k).root = t.root
  BY DEF Trees, SetChild, Rechilded

\* What __rb_change_child writes: one link of the parent, or the root.
LEMMA ChangeChildFields ==
    ASSUME NULL \notin Nodes, NEW t \in Trees, NEW old, NEW new \in Links, NEW p \in Links
    PROVE  /\ Rechilded(t, change_child(t, old, new, p), p, IF t.child[p]["left"] = old THEN "left" ELSE "right", new)
           /\ change_child(t, old, new, p).root = IF p = NULL THEN new ELSE t.root
<1>1. CASE p = NULL
  BY <1>1 DEF change_child, Trees, Rechilded
<1>2. CASE p # NULL
  <2>1. p \in Nodes
    BY <1>2 DEF Links
  <2>2. PICK s \in Sides : s = IF t.child[p]["left"] = old THEN "left" ELSE "right"
    BY DEF Sides
  <2>3. change_child(t, old, new, p) = SetChild(t, p, s, new)
    BY <1>2, <2>2 DEF change_child, SetChild
  <2>. QED  BY <1>2, <2>1, <2>2, <2>3, SetChildFields
<1>. QED  BY <1>1, <1>2

\* The child pointers of x are those of t with up turned above down.
Turned(t, x, down, up, s) ==
    \A y \in Nodes, z \in Sides :
       x.child[y][z] = IF y = down /\ z = s THEN t.child[up][Other(s)]
                       ELSE IF y = up /\ z = Other(s) THEN down ELSE t.child[y][z]

\* What the two writes of Turn leave of the child pointers.
LEMMA TurnFields ==
    ASSUME NEW t \in Trees, NEW down \in Nodes, NEW up \in Nodes, NEW s \in Sides, up # down,
           NEW u, u = Turn(t, down, up, s)
    PROVE  u \in Trees /\ u.root = t.root /\ u.parent = t.parent /\ u.color = t.color /\ Turned(t, u, down, up, s)
<1>1. t.child[up][Other(s)] \in Links /\ Other(s) \in Sides /\ down \in Links
  BY DEF Trees, Other, Sides, Links
<1>2. PICK v : v = SetChild(t, down, s, t.child[up][Other(s)])
  OBVIOUS
<1>3. Rechilded(t, v, down, s, t.child[up][Other(s)]) /\ v.root = t.root
  BY <1>1, <1>2, SetChildFields
<1>4. u = SetChild(v, up, Other(s), down)
  BY <1>2 DEF Turn, SetChild
<1>5. v \in Trees
  BY <1>3 DEF Rechilded
<1>6. Rechilded(v, u, up, Other(s), down) /\ u.root = v.root
  BY <1>1, <1>4, <1>5, SetChildFields
<1>. QED  BY <1>1, <1>3, <1>6 DEF Rechilded, Turned

\* x is t turned, its inner node below down, and up on the way above.
Turning(t, x, down, up, s) ==
    /\ x \in Trees /\ x.root = t.root /\ Turned(t, x, down, up, s)
    /\ \A y \in Nodes : y # up => x.parent[y] = IF y = t.child[up][Other(s)] THEN down ELSE t.parent[y]

\* up takes over the colour of down, and down takes c.
RotatedColors(x, u, down, up, c) ==
    \A y \in Nodes : u.color[y] = IF y = down THEN c ELSE IF y = up THEN x.color[down] ELSE x.color[y]

\* Turn, the write for the inner node and __rb_rotate_set_parents together are a
\* rotation: the three steps that rbtree.c spells out at each of its rotations.
LEMMA RotationDone ==
    ASSUME NodesAreKeys, NEW t \in Trees, NEW T \in SUBSET Nodes, NEW b \in Spans, Shape(t, T, b),
           NEW down \in T, NEW up \in T, NEW s \in Sides, t.child[down][s] = up,
           NEW x \in Trees, Turning(t, x, down, up, s), NEW c \in Colors,
           NEW u, u = rotate_set_parents(x, down, up, c)
    PROVE  u \in Trees /\ Rotated(t, u, down, up, s) /\ RotatedColors(x, u, down, up, c)
<1>0. NULL \notin Nodes /\ down \in Nodes /\ up \in Nodes /\ NULL \notin T
  BY DEF NodesAreKeys
<1>1. Apart(t, T)
  BY KidsApart
<1>2. /\ up # down /\ up # t.root /\ t.parent[up] = down
      /\ \A m \in T, z \in Sides : t.child[m][z] = up => m = down /\ z = s
  BY <1>0, <1>1 DEF Apart
<1>3. PICK tmp : tmp = t.child[up][Other(s)]
  OBVIOUS
<1>4. tmp # down /\ tmp # up
  <2>1. Other(s) \in Sides
    BY DEF Sides, Other
  <2>2. tmp # NULL => t.parent[tmp] = up /\ tmp # up
    BY <1>0, <1>1, <1>3, <2>1 DEF Apart
  <2>4. tmp = down => FALSE
    <3>1. SUFFICES ASSUME t.child[up][Other(s)] = down PROVE FALSE
      BY <1>3
    <3>2. b[down][Other(s)] = b[up][Other(s)] /\ b[down][Other(Other(s))] = up
      BY <1>0, <2>1, <3>1 DEF Shape, Kids
    <3>3. b[up][s] = b[down][s] /\ b[up][Other(s)] = down
      BY <1>0 DEF Shape, Kids
    <3>4. down \in Int /\ up \in Int /\ b[down]["left"] < down /\ down < b[down]["right"]
      BY DEF Shape, Around, NodesAreKeys
    <3>. QED  BY <3>2, <3>3, <3>4 DEF Sides, Other
  <2>. QED  BY <1>0, <2>2, <2>4
<1>5. PICK p : p = t.parent[down]
  OBVIOUS
<1>6. p \in Links /\ x.parent[down] = p
  BY <1>0, <1>2, <1>3, <1>4, <1>5 DEF Turning, Trees
<1>7. PICK v : v = CopyParentColor(x, down, up)
  OBVIOUS
<1>8. Reworded(x, v, up, p, x.color[down]) /\ v \in Trees
  <2>1. Reworded(x, v, up, p, x.color[down])
    BY <1>0, <1>6, <1>7, CopyParentColorFields
  <2>. QED  BY <2>1 DEF Reworded
<1>9. PICK w : w = rb_set_parent_color(v, down, up, c)
  OBVIOUS
<1>10. Reworded(v, w, down, up, c) /\ w \in Trees
  <2>1. up \in Links
    BY <1>0 DEF Links
  <2>2. Reworded(v, w, down, up, c)
    BY <1>0, <1>8, <1>9, <2>1, SetParentColorFields
  <2>. QED  BY <2>2 DEF Reworded
<1>11. PICK sd : sd = IF w.child[p]["left"] = down THEN "left" ELSE "right"
  OBVIOUS
<1>12. Rechilded(w, u, p, sd, up) /\ u.root = IF p = NULL THEN up ELSE w.root
  <2>1. u = change_child(w, down, up, p)
    BY <1>6, <1>7, <1>9 DEF rotate_set_parents
  <2>2. up \in Links
    BY <1>0 DEF Links
  <2>3. NULL \notin Nodes /\ w \in Trees /\ p \in Links
    BY <1>0, <1>6, <1>10
  <2>4. /\ Rechilded(w, change_child(w, down, up, p), p, IF w.child[p]["left"] = down THEN "left" ELSE "right", up)
        /\ change_child(w, down, up, p).root = IF p = NULL THEN up ELSE w.root
    BY ONLY <2>2, <2>3, ChangeChildFields
  <2>. QED  BY ONLY <1>11, <2>1, <2>4
<1>13. u \in Trees
  BY <1>12 DEF Rechilded
<1>14. w.root = t.root /\ w.child = x.child
  BY <1>8, <1>10 DEF Reworded, Turning
<1>15. u.root = IF down = t.root THEN up ELSE t.root
  <2>1. p = NULL <=> down = t.root
    BY <1>0, <1>5 DEF Shape, Rooted, Parents
  <2>. QED  BY <1>12, <1>14, <2>1
<1>16. RotatedColors(x, u, down, up, c)
  BY <1>0, <1>2, <1>8, <1>10, <1>12 DEF Reworded, Rechilded, RotatedColors
<1>17. \A y \in Nodes : u.parent[y] = IF y = down THEN up ELSE IF y = up THEN p ELSE IF y = tmp THEN down ELSE t.parent[y]
  <2>1. SUFFICES ASSUME NEW y \in Nodes
        PROVE u.parent[y] = IF y = down THEN up ELSE IF y = up THEN p ELSE IF y = tmp THEN down ELSE t.parent[y]
    OBVIOUS
  <2>2. u.parent[y] = w.parent[y]
    BY ONLY <1>12, <2>1 DEF Rechilded
  <2>3. w.parent[y] = IF y = down THEN up ELSE v.parent[y]
    BY ONLY <1>10, <2>1 DEF Reworded
  <2>4. v.parent[y] = IF y = up THEN p ELSE x.parent[y]
    BY ONLY <1>8, <2>1 DEF Reworded
  <2>5. y # up => x.parent[y] = IF y = tmp THEN down ELSE t.parent[y]
    BY ONLY <1>3, <2>1, Turning(t, x, down, up, s) DEF Turning
  <2>. QED  BY ONLY <2>2, <2>3, <2>4, <2>5
<1>18. \A y \in Nodes, z \in Sides :
          u.child[y][z] = IF y = down /\ z = s THEN tmp
                          ELSE IF y = up /\ z = Other(s) THEN down
                          ELSE IF t.child[y][z] = down THEN up ELSE t.child[y][z]
  <2>1. ASSUME NEW y \in Nodes, NEW z \in Sides
        PROVE  u.child[y][z] = IF y = p /\ z = sd THEN up
                               ELSE IF y = down /\ z = s THEN tmp
                               ELSE IF y = up /\ z = Other(s) THEN down ELSE t.child[y][z]
    BY <1>3, <1>12, <1>14 DEF Rechilded, Turned, Turning
  <2>2. CASE p = NULL
    <3>1. down = t.root
      BY <1>0, <1>5, <2>2 DEF Shape, Parents
    <3>2. \A y \in Nodes, z \in Sides : t.child[y][z] # down
      BY <1>0, <1>1, <3>1 DEF Apart, Shape, Blank
    <3>3. p \notin Nodes
      BY <1>0, <2>2
    <3>. QED  BY ONLY <2>1, <3>2, <3>3
  <2>3. CASE p # NULL
    <3>1. p \in T /\ down # t.root
      BY <1>0, <1>5, <2>3 DEF Shape, Rooted, Parents
    <3>2. PICK q \in Sides : t.child[p][q] = down
      BY <1>5, <3>1 DEF Shape, Parents
    <3>3. p # down /\ p # up
      <4>1. p # down
        BY <1>0, <1>1, <3>1, <3>2 DEF Apart
      <4>2. ASSUME p = up PROVE FALSE
        <5>1. t.child[up][q] = down
          BY <3>2, <4>2
        <5>2. q = s
          BY <1>3, <1>4, <5>1 DEF Sides, Other
        <5>3. b[down][s] = b[up][s] /\ b[down][Other(s)] = up
          BY <1>0, <5>1, <5>2 DEF Shape, Kids
        <5>4. b[up][s] = b[down][s] /\ b[up][Other(s)] = down
          BY <1>0 DEF Shape, Kids
        <5>5. down \in Int /\ up \in Int /\ b[down]["left"] < down /\ down < b[down]["right"] /\ b[up]["left"] < up /\ up < b[up]["right"]
          BY DEF Shape, Around, NodesAreKeys
        <5>. QED  BY <5>3, <5>4, <5>5 DEF Sides, Other
      <4>. QED  BY <4>1, <4>2
    <3>4. \A y \in Nodes, z \in Sides : t.child[y][z] = down => y = p /\ z = q
      BY <1>0, <1>1, <3>1, <3>2 DEF Apart, Shape, Blank
    <3>5. \A z \in Sides : x.child[p][z] = t.child[p][z]
      BY <3>1, <3>3 DEF Turning, Turned
    <3>6. sd = q
      BY <1>11, <1>14, <3>1, <3>2, <3>4, <3>5 DEF Sides
    <3>7. ASSUME NEW y \in Nodes, NEW z \in Sides
          PROVE  u.child[y][z] = IF y = down /\ z = s THEN tmp
                                 ELSE IF y = up /\ z = Other(s) THEN down
                                 ELSE IF t.child[y][z] = down THEN up ELSE t.child[y][z]
      <4>1. y = p /\ z = q => t.child[y][z] = down /\ y # down /\ y # up
        BY ONLY <3>2, <3>3
      <4>. QED  BY ONLY <2>1, <3>4, <3>6, <3>7, <4>1
    <3>. QED  BY ONLY <3>7
  <2>. QED  BY <2>2, <2>3
<1>. QED  BY <1>3, <1>5, <1>13, <1>15, <1>16, <1>17, <1>18 DEF Rotated

-----------------------------------------------------------------------------
(* Black heights, and the moves of the two rebalancing loops.              *)

\* A black height for every node.
Heights == [Nodes -> Nat]
\* NULL has none.
HeightOf(H, k) == IF k = NULL THEN 0 ELSE H[k]
\* What n adds to it.
Black(t, n) == IF Red(t, n) THEN 0 ELSE 1

\* H counts the black nodes on every way down; side ds of dn lacks one.
BalancedAt(t, H, dn, ds, n, s) ==
    H[n] = HeightOf(H, t.child[n][s]) + Black(t, n) + (IF n = dn /\ s = ds THEN 1 ELSE 0)

\* Every way down from n to a free place meets H[n] black nodes.
Balanced(t, T, H, dn, ds) == \A n \in T, s \in Sides : BalancedAt(t, H, dn, ds, n, s)

\* No red node but x has a red parent.
RedsApart(t, T, x) ==
    \A n \in T, s \in Sides : Red(t, n) /\ RedNode(t, t.child[n][s]) => t.child[n][s] = x

\* t is a tree of the nodes T, b and H are its spans and heights.
Standing(t, T, b, H) == t \in Trees /\ T \in SUBSET Nodes /\ b \in Spans /\ H \in Heights /\ Shape(t, T, b)

\* The tree between two calls.
Between(t, T, b, H) ==
    /\ Standing(t, T, b, H) /\ Balanced(t, T, H, NULL, "left") /\ RedsApart(t, T, NULL)
    /\ ~RedNode(t, t.root)

\* The tree at the head of the loop of __rb_insert: n is red, below p, and may
\* be a red child of a red parent or a red root.
Inserting(t, T, b, H, n, p) ==
    /\ Standing(t, T, b, H) /\ Balanced(t, T, H, NULL, "left") /\ RedsApart(t, T, n)
    /\ n \in T /\ Red(t, n) /\ t.parent[n] = p
    /\ RedNode(t, t.root) => n = t.root

\* The tree at the head of the loop of ____rb_erase_color: side s of p, where n
\* stands, is one black node short.
Erasing(t, T, b, H, n, p, s) ==
    /\ Standing(t, T, b, H) /\ Balanced(t, T, H, p, s) /\ RedsApart(t, T, NULL)
    /\ ~RedNode(t, t.root)
    /\ p \in T /\ s \in Sides /\ t.child[p][s] = n /\ ~RedNode(t, n)

\* The links a rotation does not turn go to up where they went to down.
TurnedRest(t, u, T, down, up, tmp) ==
    \A m \in T, z \in Sides : m # down /\ m # up =>
       /\ u.child[m][z] = IF t.child[m][z] = down THEN up ELSE t.child[m][z]
       /\ t.child[m][z] # up /\ (tmp # NULL => t.child[m][z] # tmp)

\* The links of a tree after a rotation, told apart.
TurnedKids(t, u, T, down, up, s) ==
    LET o == Other(s)
        tmp == t.child[up][o]
    IN  /\ down # up /\ up # t.root /\ tmp # down /\ tmp # up /\ tmp # t.root
        /\ u.root = IF down = t.root THEN up ELSE t.root
        /\ u.child[down][s] = tmp /\ u.child[down][o] = t.child[down][o]
        /\ u.child[up][o] = down /\ u.child[up][s] = t.child[up][s]
        /\ t.child[down][o] # up /\ t.child[down][o] # down /\ t.child[up][s] # down /\ t.child[up][s] # up
        /\ tmp # NULL => tmp \in T /\ t.child[down][o] # tmp /\ t.child[up][s] # tmp
        /\ TurnedRest(t, u, T, down, up, tmp)

\* A rotation has just these links.
LEMMA RotatedKids ==
    ASSUME NodesAreKeys, NEW t, NEW u, NEW T \in SUBSET Nodes, NEW b \in Spans, Shape(t, T, b),
           NEW down \in T, NEW up \in T, NEW s \in Sides, t.child[down][s] = up,
           Rotated(t, u, down, up, s)
    PROVE  TurnedKids(t, u, T, down, up, s)
<1>0. NULL \notin Nodes /\ NULL \notin T /\ T \subseteq Int
  BY DEF NodesAreKeys
<1>1. Apart(t, T)
  BY KidsApart
<1>2. PICK o \in Sides : o = Other(s) /\ o # s /\ s = Other(o)
  BY DEF Sides, Other
<1>3. PICK tmp : tmp = t.child[up][o]
  OBVIOUS
<1>4. /\ down # up /\ up # t.root /\ t.child[down][o] # up /\ t.child[down][o] # down /\ t.child[up][s] # up /\ tmp # up
      /\ \A m \in T, z \in Sides : t.child[m][z] = up => m = down
  <2>1. down # up /\ up # t.root /\ \A m \in T, z \in Sides : t.child[m][z] = up => m = down /\ z = s
    BY <1>0, <1>1 DEF Apart
  <2>2. \A m \in T, z \in Sides : t.child[m][z] # m
    BY <1>0, <1>1 DEF Apart
  <2>. QED  BY <1>2, <1>3, <2>1, <2>2
<1>5. \A z \in Sides : t.child[up][z] # down
  <2>1. SUFFICES ASSUME NEW z \in Sides, t.child[up][z] = down PROVE FALSE
    OBVIOUS
  <2>2. b[down][z] = b[up][z] /\ b[down][Other(z)] = up
    BY <1>0, <2>1 DEF Shape, Kids
  <2>3. b[up][s] = b[down][s] /\ b[up][Other(s)] = down
    BY <1>0 DEF Shape, Kids
  <2>4. down \in Int /\ up \in Int /\ b[down]["left"] < down /\ down < b[down]["right"] /\ b[up]["left"] < up /\ up < b[up]["right"]
    BY DEF Shape, Around, NodesAreKeys
  <2>. QED  BY <2>2, <2>3, <2>4 DEF Sides, Other
<1>6. tmp # NULL => tmp \in T /\ tmp # t.root /\ t.child[down][o] # tmp /\ t.child[up][s] # tmp
                    /\ \A m \in T, z \in Sides : m # up => t.child[m][z] # tmp
  <2>1. tmp # NULL => tmp \in T /\ tmp # t.root /\ \A m \in T, z \in Sides : t.child[m][z] = tmp => m = up /\ z = o
    BY <1>1, <1>3 DEF Apart
  <2>. QED  BY <1>2, <1>4, <2>1
<1>7. t.root # NULL
  BY <1>0 DEF Shape, Rooted
<1>8. u.child[down][s] = tmp /\ u.child[down][o] = t.child[down][o]
      /\ u.child[up][o] = down /\ u.child[up][s] = t.child[up][s]
      /\ u.root = IF down = t.root THEN up ELSE t.root
  BY <1>2, <1>3, <1>4, <1>5 DEF Rotated
<1>9. TurnedRest(t, u, T, down, up, tmp)
  BY <1>0, <1>3, <1>4, <1>6 DEF Rotated, TurnedRest
<1>10. tmp # down /\ tmp # t.root
  BY <1>3, <1>5, <1>6, <1>7
<1>. QED  BY <1>2, <1>3, <1>4, <1>5, <1>6, <1>8, <1>9, <1>10 DEF TurnedKids

\* Heights are natural numbers.
LEMMA HeightsAre ==
    ASSUME NodesAreKeys, NEW H \in Heights, NEW k \in Links PROVE HeightOf(H, k) \in Nat
  BY DEF Heights, HeightOf, Links

\* up, a red node, takes over the colour of down, which becomes red.
SwappedColors(t, u, down, up) ==
    \A y \in Nodes : u.color[y] = IF y = down THEN "red" ELSE IF y = up THEN t.color[down] ELSE t.color[y]

\* The heights after a rotation that swaps the colours.
SwappedHeights(H, down, up) == [H EXCEPT ![up] = H[down], ![down] = H[up]]

\* A rotation that swaps the colours of a red node and its parent keeps the
\* black heights, and moves a pair of red nodes down a level if there was one.
LEMMA SwapRotation ==
    ASSUME NodesAreKeys, NEW t, NEW T, NEW b, NEW H, Standing(t, T, b, H),
           NEW dn, NEW ds, Balanced(t, T, H, dn, ds), NEW x, RedsApart(t, T, x), ~RedNode(t, t.root),
           NEW down \in T, NEW up \in T, NEW s \in Sides, t.child[down][s] = up,
           Red(t, up), dn # up, ~(dn = down /\ ds = s),
           ~RedNode(t, t.child[up][Other(s)]), ~RedNode(t, t.child[down][Other(s)]),
           IF Red(t, down) THEN x = up ELSE x \in {NULL, t.child[up][s]},
           NEW u \in Trees, Rotated(t, u, down, up, s), SwappedColors(t, u, down, up)
    PROVE  /\ Standing(u, T, TurnedSpans(b, down, up, s), SwappedHeights(H, down, up))
           /\ Balanced(u, T, SwappedHeights(H, down, up), dn, ds)
           /\ RedsApart(u, T, IF Red(t, down) THEN down ELSE NULL) /\ ~RedNode(u, u.root)
<1> DEFINE d == TurnedSpans(b, down, up, s)
           K == SwappedHeights(H, down, up)
<1>0. /\ t \in Trees /\ T \in SUBSET Nodes /\ b \in Spans /\ H \in Heights /\ Shape(t, T, b)
      /\ Balanced(t, T, H, dn, ds) /\ RedsApart(t, T, x)
  BY DEF Standing
<1>1. NULL \notin Nodes /\ NULL \notin T /\ t.child \in [Nodes -> [Sides -> Links]] /\ T \subseteq Nodes
  BY <1>0 DEF NodesAreKeys, Trees
<1>2. d \in Spans /\ Shape(u, T, d)
  BY <1>0, <1>1, RotatedShape
<1>3. TurnedKids(t, u, T, down, up, s)
  BY <1>0, RotatedKids
<1>4. K \in Heights /\ down # up /\ K[up] = H[down] /\ K[down] = H[up] /\ \A y \in Nodes : y # up /\ y # down => K[y] = H[y]
  BY <1>0, <1>1, <1>3 DEF Heights, TurnedKids, SwappedHeights
<1>5. PICK o \in Sides : o = Other(s) /\ o # s
  BY DEF Sides, Other
<1>6. PICK tmp \in Links : tmp = t.child[up][o]
  BY <1>0, <1>1, <1>5
<1>7. PICK oc \in Links : oc = t.child[down][o]
  BY <1>0, <1>1, <1>5
<1>8. PICK k \in Links : k = t.child[up][s]
  BY <1>0, <1>1
<1>9. ~RedNode(t, tmp) /\ ~RedNode(t, oc)
  BY <1>5, <1>6, <1>7
<1>10. PICK r : r = Red(t, down)
  OBVIOUS
<1>11. IF r THEN x = up ELSE x \in {NULL, k}
  BY <1>8, <1>10
<1> HIDE DEF K, d
<1>12. /\ \A y \in Nodes : y # down /\ y # up => Red(u, y) = Red(t, y)
       /\ Red(u, down) /\ Red(u, up) = Red(t, down)
  BY <1>0, <1>3, <1>1 DEF Red, SwappedColors, TurnedKids
<1>13. /\ u.child[down][s] = tmp /\ u.child[down][o] = oc /\ u.child[up][o] = down /\ u.child[up][s] = k
       /\ tmp # down /\ tmp # up /\ oc # down /\ oc # up /\ k # down /\ k # up
       /\ \A m \in T, z \in Sides : m # down /\ m # up =>
            /\ u.child[m][z] = IF t.child[m][z] = down THEN up ELSE t.child[m][z]
            /\ t.child[m][z] # up
  BY <1>3, <1>5, <1>6, <1>7, <1>8 DEF TurnedKids, TurnedRest
<1>14. \A z \in Sides : z = s \/ z = o
  BY <1>5 DEF Sides
<1>15. Balanced(u, T, K, dn, ds)
  <2>0. PICK lack \in Nat : lack = IF dn = down /\ ds = o THEN 1 ELSE 0
    OBVIOUS
  <2>1. PICK h \in Nat : h = H[up]
    BY <1>0, <1>1 DEF Heights
  <2>2. /\ H[down] = h + Black(t, down) /\ H[down] = HeightOf(H, oc) + Black(t, down) + lack
        /\ h = HeightOf(H, tmp) /\ h = HeightOf(H, k)
        /\ HeightOf(H, oc) \in Nat /\ Black(t, down) \in Nat
    <3>1. /\ BalancedAt(t, H, dn, ds, down, s) /\ BalancedAt(t, H, dn, ds, down, o)
          /\ BalancedAt(t, H, dn, ds, up, s) /\ BalancedAt(t, H, dn, ds, up, o)
      BY <1>0, <1>5 DEF Balanced
    <3>2. HeightOf(H, up) = h /\ HeightOf(H, oc) \in Nat /\ HeightOf(H, tmp) \in Nat /\ HeightOf(H, k) \in Nat
      <4>1. HeightOf(H, up) = h
        BY <1>1, <2>1 DEF HeightOf
      <4>. QED  BY <4>1, <1>0, HeightsAre
    <3>3. Black(t, up) = 0 /\ Black(t, down) \in Nat
      BY DEF Black
    <3>. QED  BY <1>5, <1>6, <1>7, <1>8, <2>0, <2>1, <3>1, <3>2, <3>3 DEF BalancedAt
  <2>3. \A y \in Links : y # up /\ y # down => HeightOf(K, y) = HeightOf(H, y)
    BY <1>4 DEF HeightOf, Links
  <2>4. HeightOf(K, down) = h /\ HeightOf(K, up) = H[down] /\ HeightOf(H, down) = H[down] /\ HeightOf(H, up) = h
    BY <1>1, <1>4, <2>1 DEF HeightOf
  <2>5. ASSUME NEW m \in T, NEW z \in Sides PROVE BalancedAt(u, K, dn, ds, m, z)
    <3>1. CASE m = down
      <4>1. HeightOf(K, u.child[down][z]) + (IF dn = down /\ ds = z THEN 1 ELSE 0) = h
        <5>1. CASE z = s
          <6>1. HeightOf(K, u.child[down][z]) = h
            BY <1>13, <2>2, <2>3, <5>1
          <6>2. ~(dn = down /\ ds = z)
            BY <5>1
          <6>. QED  BY <6>1, <6>2
        <5>2. CASE z = o
          <6>1. HeightOf(H, oc) + lack = h
            BY <2>2
          <6>. QED  BY <1>13, <2>0, <2>3, <5>2, <6>1
        <5>. QED  BY <1>14, <5>1, <5>2
      <4>2. Black(u, down) = 0 /\ K[down] = h
        BY <1>4, <1>12, <2>1 DEF Black
      <4>3. HeightOf(K, u.child[down][z]) \in Nat
        BY <1>13, <1>14, <2>2, <2>3
      <4>. QED  BY <3>1, <4>1, <4>2, <4>3 DEF BalancedAt
    <3>2. CASE m = up
      <4>1. HeightOf(K, u.child[up][z]) = h
        BY <1>13, <1>14, <2>2, <2>3, <2>4
      <4>2. Black(u, up) = Black(t, down) /\ K[up] = H[down]
        BY <1>4, <1>12 DEF Black
      <4>. QED  BY <2>2, <3>2, <4>1, <4>2 DEF BalancedAt
    <3>3. CASE m # down /\ m # up
      <4>1. HeightOf(K, u.child[m][z]) = HeightOf(H, t.child[m][z])
        <5>1. t.child[m][z] \in Links
          BY <1>1
        <5>. QED  BY <1>13, <2>3, <2>4, <3>3, <5>1
      <4>2. K[m] = H[m] /\ Black(u, m) = Black(t, m)
        BY <1>1, <1>4, <1>12, <3>3 DEF Black
      <4>3. BalancedAt(t, H, dn, ds, m, z)
        BY <1>0 DEF Balanced
      <4>. QED  BY <4>1, <4>2, <4>3 DEF BalancedAt
    <3>. QED  BY <3>1, <3>2, <3>3
  <2>. QED  BY <2>5 DEF Balanced
<1>16. RedsApart(u, T, IF Red(t, down) THEN down ELSE NULL)
  <2>0. PICK y : y = IF Red(t, down) THEN down ELSE NULL
    OBVIOUS
  <2>1. ASSUME NEW m \in T, NEW z \in Sides, Red(u, m), RedNode(u, u.child[m][z]) PROVE u.child[m][z] = y
    <3>1. CASE m = down
      <4>1. ~RedNode(u, oc) /\ ~RedNode(u, tmp)
        BY <1>9, <1>12, <1>13 DEF RedNode, Links
      <4>. QED  BY <1>13, <1>14, <2>1, <3>1, <4>1
    <3>2. CASE m = up
      <4>1. Red(t, down) /\ y = down
        BY <1>12, <2>0, <2>1, <3>2
      <4>2. ~RedNode(t, k)
        BY <1>0, <1>8, <1>11, <1>13, <1>10, <4>1 DEF RedsApart
      <4>3. ~RedNode(u, k)
        BY <1>12, <1>13, <4>2 DEF RedNode, Links
      <4>. QED  BY <1>13, <1>14, <2>1, <3>2, <4>1, <4>3
    <3>3. CASE m # down /\ m # up
      <4>0. Red(t, m) /\ t.child[m][z] \in Links
        BY <1>1, <1>12, <2>1, <3>3
      <4>1. CASE t.child[m][z] = down
        <5>1. Red(t, down) /\ x = up
          <6>1. RedNode(u, up)
            BY <1>13, <2>1, <3>3, <4>1
          <6>. QED  BY <1>10, <1>11, <1>12, <6>1 DEF RedNode
        <5>2. RedNode(t, t.child[m][z])
          BY <1>1, <4>1, <5>1 DEF RedNode
        <5>3. down = up
          BY <1>0, <4>0, <4>1, <5>1, <5>2 DEF RedsApart
        <5>. QED  BY <1>4, <5>3
      <4>2. CASE t.child[m][z] # down
        <5>1. u.child[m][z] = t.child[m][z] /\ t.child[m][z] # up
          BY <1>13, <3>3, <4>2
        <5>2. RedNode(t, t.child[m][z])
          BY <1>12, <2>1, <4>0, <4>2, <5>1 DEF RedNode, Links
        <5>3. t.child[m][z] = x /\ x # NULL
          BY <1>0, <4>0, <5>2 DEF RedsApart, RedNode
        <5>4. x = k
          BY <1>11, <5>1, <5>3
        <5>5. t.parent[k] = m /\ t.parent[k] = up
          BY <1>0, <1>8, <5>3, <5>4 DEF Shape, Kids
        <5>. QED  BY <3>3, <5>5
      <4>. QED  BY <4>1, <4>2
    <3>. QED  BY <3>1, <3>2, <3>3
  <2>. QED  BY <2>0, <2>1 DEF RedsApart
<1>17. ~RedNode(u, u.root)
  <2>1. u.root = (IF down = t.root THEN up ELSE t.root) /\ t.root # up
    BY <1>3 DEF TurnedKids
  <2>2. t.root \in T /\ ~Red(t, t.root)
    BY <1>0, <1>1 DEF Shape, Rooted, RedNode
  <2>. QED  BY <1>1, <1>12, <2>1, <2>2 DEF RedNode
<1>. QED  BY <1>0, <1>2, <1>4, <1>15, <1>16, <1>17 DEF Standing, d, K

\* Facts about links that most proofs need: what parents and children are.
LEMMA KidsAndRoot ==
    ASSUME NodesAreKeys, NEW t, NEW T, NEW b, NEW H, Standing(t, T, b, H)
    PROVE  /\ T \subseteq Nodes /\ NULL \notin T /\ NULL \notin Nodes
           /\ \A n \in T : (t.parent[n] = NULL <=> n = t.root) /\ (n # t.root => t.parent[n] \in T)
           /\ \A n \in T : n # t.root => \E s \in Sides : t.child[t.parent[n]][s] = n
           /\ \A n \in T, s \in Sides :
                /\ t.child[n][s] \in Links
                /\ t.child[n][s] # NULL =>
                     /\ t.child[n][s] \in T /\ t.parent[t.child[n][s]] = n
                     /\ t.child[n][s] # n /\ t.child[n][s] # t.root
                     /\ t.child[n][s] # t.child[n][Other(s)]
           /\ T # {} => t.root \in T
<1>1. t \in Trees /\ T \in SUBSET Nodes /\ b \in Spans /\ Shape(t, T, b)
  BY DEF Standing
<1>2. NULL \notin T /\ NULL \notin Nodes /\ T \subseteq Nodes
  BY <1>1 DEF NodesAreKeys
<1>3. Apart(t, T)
  BY <1>1, KidsApart
<1>4. ASSUME NEW n \in T
      PROVE  /\ (t.parent[n] = NULL <=> n = t.root) /\ (n # t.root => t.parent[n] \in T)
             /\ n # t.root => \E s \in Sides : t.child[t.parent[n]][s] = n
  BY <1>1, <1>2 DEF Shape, Rooted, Parents
<1>5. ASSUME NEW n \in T, NEW s \in Sides
      PROVE  /\ t.child[n][s] \in Links
             /\ t.child[n][s] # NULL =>
                     /\ t.child[n][s] \in T /\ t.parent[t.child[n][s]] = n
                     /\ t.child[n][s] # n /\ t.child[n][s] # t.root
                     /\ t.child[n][s] # t.child[n][Other(s)]
  <2>1. PICK o \in Sides : o = Other(s) /\ o # s
    BY DEF Sides, Other
  <2>2. t.child[n][s] \in Links
    BY <1>1, <1>2 DEF Trees
  <2>. QED  BY <1>3, <2>1, <2>2 DEF Apart
<1>. QED  BY <1>1, <1>2, <1>4, <1>5 DEF Shape, Rooted

\* What a child is.
Offspring(t, T) ==
    \A n \in T, s \in Sides :
      /\ t.child[n][s] \in Links
      /\ t.child[n][s] # NULL =>
           /\ t.child[n][s] \in T /\ t.parent[t.child[n][s]] = n
           /\ t.child[n][s] # n /\ t.child[n][s] # t.root
           /\ t.child[n][s] # t.child[n][Other(s)]

\* It is so in a standing tree.
LEMMA KidIs ==
    ASSUME NodesAreKeys, NEW t, NEW T, NEW b, NEW H, Standing(t, T, b, H) PROVE Offspring(t, T)
  BY KidsAndRoot DEF Offspring

\* The heights in numbers, as the arithmetic of the proofs needs them.
Levels(t, T, H, dn, ds) ==
    \A n \in T, s \in Sides :
      /\ HeightOf(H, t.child[n][s]) \in Nat /\ H[n] \in Nat
      /\ n = dn /\ s = ds => H[n] = HeightOf(H, t.child[n][s]) + Black(t, n) + 1
      /\ ~(n = dn /\ s = ds) => H[n] = HeightOf(H, t.child[n][s]) + Black(t, n)

\* They are so in a balanced tree.
LEMMA HeightIs ==
    ASSUME NodesAreKeys, NEW t, NEW T, NEW b, NEW H, Standing(t, T, b, H),
           NEW dn, NEW ds, Balanced(t, T, H, dn, ds)
    PROVE  Levels(t, T, H, dn, ds)
<1>0. SUFFICES ASSUME NEW n \in T, NEW s \in Sides, NEW k, k = t.child[n][s]
      PROVE  /\ HeightOf(H, k) \in Nat /\ H[n] \in Nat
             /\ n = dn /\ s = ds => H[n] = HeightOf(H, k) + Black(t, n) + 1
             /\ ~(n = dn /\ s = ds) => H[n] = HeightOf(H, k) + Black(t, n)
  BY DEF Levels
<1>1. Offspring(t, T)
  BY KidIs
<1>2. H \in Heights /\ n \in Nodes
  BY DEF Standing
<1>3. k \in Links
  BY <1>0, <1>1 DEF Offspring
<1>4. HeightOf(H, k) \in Nat /\ H[n] \in Nat /\ Black(t, n) \in Nat
  BY <1>2, <1>3, HeightsAre DEF Heights, Black
<1>5. BalancedAt(t, H, dn, ds, n, s)
  BY DEF Balanced
<1>. QED  BY <1>0, <1>4, <1>5 DEF BalancedAt

\* u differs from t in colours only.
SameLinks(t, u) == u \in Trees /\ u.root = t.root /\ u.child = t.child /\ \A n \in Nodes : u.parent[n] = t.parent[n]

\* A change of colours keeps the shape.
LEMMA SameShape ==
    ASSUME NEW t, NEW T, NEW b, NEW H, Standing(t, T, b, H), NEW u, SameLinks(t, u), NEW K \in Heights
    PROVE  Standing(u, T, b, K)
<1>1. /\ u \in Trees /\ T \in SUBSET Nodes /\ b \in Spans /\ Shape(t, T, b)
      /\ u.root = t.root /\ u.child = t.child /\ \A n \in T : u.parent[n] = t.parent[n]
  BY DEF Standing, SameLinks
<1>2. T # {} => t.root \in T
  BY <1>1 DEF Shape, Rooted
<1>3. Rooted(u, T, b) /\ Parents(u, T) /\ Kids(u, T, b)
  <2>1. Rooted(u, T, b) /\ Parents(u, T)
    BY <1>1, <1>2 DEF Shape, Rooted, Parents
  <2>2. Kids(u, T, b)
    BY <1>1 DEF Shape, Kids
  <2>. QED  BY <2>1, <2>2
<1>4. Gaps(u, T, b) /\ Bounds(u, T, b) /\ Blank(u, T)
  BY <1>1 DEF Shape, Gaps, Bounds, Blank
<1>. QED  BY <1>1, <1>3, <1>4 DEF Standing, Shape

\* The colours after case 1 of __rb_insert.
InsertFlipColors(t, u, p, un, g) ==
    \A y \in Nodes : u.color[y] = IF y = g THEN "red" ELSE IF y = p \/ y = un THEN "black" ELSE t.color[y]

\* The heights after it.
InsertFlipHeights(H, p, un) == [n \in Nodes |-> IF n = p \/ n = un THEN H[n] + 1 ELSE H[n]]

\* Case 1 of __rb_insert: the loop goes on at the grandparent g.
LEMMA InsertFlipKeeps ==
    ASSUME NodesAreKeys, NEW t, NEW T, NEW b, NEW H, NEW n, NEW p, Inserting(t, T, b, H, n, p),
           RedNode(t, p), NEW g, g = t.parent[p], NEW s \in Sides, t.child[g][s] = p,
           NEW un, un = t.child[g][Other(s)], RedNode(t, un),
           NEW u, SameLinks(t, u), InsertFlipColors(t, u, p, un, g)
    PROVE  g \in T /\ Inserting(u, T, b, InsertFlipHeights(H, p, un), g, t.parent[g])
<1> DEFINE K == InsertFlipHeights(H, p, un)
<1>0. /\ Standing(t, T, b, H) /\ H \in Heights
      /\ Balanced(t, T, H, NULL, "left") /\ RedsApart(t, T, n)
      /\ n \in T /\ Red(t, n) /\ t.parent[n] = p /\ (RedNode(t, t.root) => n = t.root)
  BY DEF Inserting, Standing
<1>1. NULL \notin Nodes /\ NULL \notin T /\ T \subseteq Nodes
  BY <1>0, KidsAndRoot
<1>2. PICK o \in Sides : o = Other(s) /\ o # s
  BY DEF Sides, Other
<1>3. p # NULL /\ n # t.root /\ p \in T /\ p # t.root /\ g \in T /\ g # NULL /\ ~RedNode(t, t.root)
  <2>1. p # NULL /\ n # t.root /\ p \in T /\ ~RedNode(t, t.root)
    BY <1>0, <1>1, KidsAndRoot DEF RedNode
  <2>2. p # t.root
    BY <2>1
  <2>. QED  BY <1>0, <1>1, <2>1, <2>2, KidsAndRoot
<1>4. /\ un \in T /\ un # NULL /\ p # un /\ p # g /\ un # g /\ t.parent[un] = g /\ un # t.root /\ n # p
      /\ t.child[g][s] = p /\ t.child[g][o] = un
  <2>1. un \in T /\ un # NULL /\ un # g /\ t.parent[un] = g /\ un # t.root
    BY <1>0, <1>2, <1>3, KidsAndRoot DEF RedNode
  <2>2. p # g /\ p # un
    BY <1>0, <1>2, <1>3, KidsAndRoot
  <2>3. n # p
    BY <1>0, <1>3, KidsAndRoot
  <2>. QED  BY <1>2, <2>1, <2>2, <2>3
<1>5. ~Red(t, g) /\ Red(t, p) /\ Red(t, un)
  BY <1>0, <1>3, <1>4 DEF RedsApart, RedNode
<1>6. K \in Heights /\ K[p] = H[p] + 1 /\ K[un] = H[un] + 1 /\ \A y \in Nodes : y # p /\ y # un => K[y] = H[y]
  <2>1. \A y \in Nodes : H[y] \in Nat
    BY <1>0 DEF Heights
  <2>2. K \in Heights
    BY <2>1 DEF Heights, InsertFlipHeights
  <2>3. \A y \in Nodes : K[y] = IF y = p \/ y = un THEN H[y] + 1 ELSE H[y]
    BY DEF InsertFlipHeights
  <2>. QED  BY <1>1, <1>3, <1>4, <2>2, <2>3
<1> HIDE DEF K
<1>7. Red(u, g) /\ ~Red(u, p) /\ ~Red(u, un) /\ \A y \in Nodes : y \notin {g, p, un} => Red(u, y) = Red(t, y)
  BY <1>1, <1>3, <1>4 DEF Red, InsertFlipColors
<1>8. Standing(u, T, b, K)
  BY <1>0, <1>6, SameShape
<1>9. Balanced(u, T, K, NULL, "left")
  <2>1. PICK h \in Nat : h = H[p]
    BY <1>0, <1>1, <1>3 DEF Heights
  <2>2. H[g] = h + 1 /\ H[un] = h /\ K[g] = h + 1 /\ K[p] = h + 1 /\ K[un] = h + 1
    <3>1. BalancedAt(t, H, NULL, "left", g, s) /\ BalancedAt(t, H, NULL, "left", g, o)
      BY <1>0, <1>3, <1>2 DEF Balanced
    <3>2. H[un] \in Nat
      BY <1>0, <1>1, <1>4 DEF Heights
    <3>3. HeightOf(H, p) = h /\ HeightOf(H, un) = H[un] /\ Black(t, g) = 1
      BY <1>3, <1>4, <1>5, <2>1 DEF Black, HeightOf
    <3>4. H[g] = h + 1 /\ H[g] = H[un] + 1
      <4>1. t.child[g][s] = p /\ t.child[g][o] = un /\ g # NULL
        BY <1>0, <1>1, <1>3, <1>4
      <4>. QED  BY ONLY <2>1, <3>1, <3>2, <3>3, <4>1 DEF BalancedAt
    <3>5. H[un] = h
      BY ONLY <2>1, <3>2, <3>4
    <3>6. K[g] = H[g]
      BY <1>1, <1>3, <1>4, <1>6
    <3>. QED  BY <1>6, <2>1, <3>4, <3>5, <3>6
  <2>3. ASSUME NEW m \in T, NEW z \in Sides PROVE BalancedAt(u, K, NULL, "left", m, z)
    <3>1. u.child = t.child /\ BalancedAt(t, H, NULL, "left", m, z)
      BY <1>0 DEF SameLinks, Balanced
    <3>2. PICK k \in Links : k = t.child[m][z]
      BY <1>0, KidsAndRoot
    <3>3. k # NULL => k \in T /\ t.parent[k] = m /\ k # m
      BY <1>0, <3>2, KidsAndRoot
    <3>4. HeightOf(H, k) \in Nat
      BY <1>0, HeightsAre
    <3>5. CASE m = g
      <4>1. k = p \/ k = un
        BY <1>2, <1>4, <3>2, <3>5 DEF Sides
      <4>2. HeightOf(K, k) = h + 1 /\ k = u.child[m][z]
        BY ONLY <1>3, <1>4, <2>2, <3>1, <3>2, <4>1 DEF HeightOf
      <4>3. Black(u, m) = 0 /\ K[m] = h + 1 /\ m # NULL
        BY ONLY <1>1, <1>3, <1>7, <2>2, <3>5 DEF Black
      <4>. QED  BY ONLY <2>1, <4>2, <4>3 DEF BalancedAt
    <3>6. CASE m # g
      <4>1. k # p /\ k # un
        BY <1>3, <1>4, <3>3, <3>6
      <4>2. HeightOf(K, k) = HeightOf(H, k)
        BY <1>6, <4>1 DEF HeightOf, Links
      <4>3. CASE m = p \/ m = un
        <5>1. Black(t, m) = 0 /\ Black(u, m) = 1 /\ m # NULL /\ H[m] = h /\ K[m] = h + 1
          BY <1>3, <1>4, <1>5, <1>7, <2>1, <2>2, <4>3 DEF Black
        <5>. QED  BY <3>1, <3>2, <3>4, <4>2, <5>1 DEF BalancedAt
      <4>4. CASE m # p /\ m # un
        <5>1. K[m] = H[m] /\ Black(u, m) = Black(t, m)
          BY <1>1, <1>6, <1>7, <3>6, <4>4 DEF Black
        <5>. QED  BY <3>1, <3>2, <4>2, <5>1 DEF BalancedAt
      <4>. QED  BY <4>3, <4>4
    <3>. QED  BY <3>5, <3>6
  <2>. QED  BY <2>3 DEF Balanced
<1>10. RedsApart(u, T, g)
  <2>1. ASSUME NEW m \in T, NEW z \in Sides, NEW k, k = u.child[m][z], Red(u, m), RedNode(u, k), k # g PROVE FALSE
    <3>1. k = t.child[m][z] /\ k # NULL
      BY <2>1 DEF SameLinks, RedNode
    <3>2. k \in T /\ t.parent[k] = m
      BY <1>0, <3>1, KidsAndRoot
    <3>3. k # p /\ k # un
      BY <1>7, <2>1 DEF RedNode
    <3>4. m # g
      BY <1>2, <1>4, <3>1, <3>3 DEF Sides
    <3>5. m # p /\ m # un
      BY <1>7, <2>1
    <3>6. Red(t, m) /\ RedNode(t, k)
      BY <1>1, <1>7, <2>1, <3>1, <3>2, <3>3, <3>4, <3>5 DEF RedNode
    <3>7. k = n
      BY <1>0, <3>1, <3>6 DEF RedsApart
    <3>. QED  BY <1>0, <3>2, <3>5, <3>7
  <2>. QED  BY <2>1 DEF RedsApart
<1>11. RedNode(u, u.root) => g = u.root
  <2>1. u.root = t.root /\ t.root \in T /\ ~Red(t, t.root)
    BY <1>0, <1>3, KidsAndRoot DEF SameLinks, RedNode
  <2>. QED  BY <1>1, <1>3, <1>4, <1>7, <2>1 DEF RedNode
<1>12. u.parent[g] = t.parent[g]
  BY <1>1, <1>3 DEF SameLinks
<1>. QED  BY <1>3, <1>7, <1>8, <1>9, <1>10, <1>11, <1>12 DEF Inserting, K

\* u is t with n black.
Blackened(t, u, n) == SameLinks(t, u) /\ \A y \in Nodes : u.color[y] = IF y = n THEN "black" ELSE t.color[y]

\* A red root becomes black and the insertion is over.
LEMMA InsertAtRootDone ==
    ASSUME NodesAreKeys, NEW t, NEW T, NEW b, NEW H, NEW n, Inserting(t, T, b, H, n, NULL),
           NEW u, Blackened(t, u, n)
    PROVE  Between(u, T, b, [H EXCEPT ![n] = H[n] + 1])
<1> DEFINE K == [H EXCEPT ![n] = H[n] + 1]
<1>0. /\ Standing(t, T, b, H) /\ H \in Heights /\ SameLinks(t, u)
      /\ Balanced(t, T, H, NULL, "left") /\ RedsApart(t, T, n)
      /\ n \in T /\ Red(t, n) /\ t.parent[n] = NULL
  BY DEF Inserting, Standing, Blackened
<1>1. NULL \notin Nodes /\ NULL \notin T /\ T \subseteq Nodes /\ n = t.root
  BY <1>0, KidsAndRoot
<1>2. K \in Heights /\ K[n] = H[n] + 1 /\ \A y \in Nodes : y # n => K[y] = H[y]
  <2>1. H \in [Nodes -> Nat] /\ n \in Nodes
    BY <1>0, <1>1 DEF Heights
  <2>2. H[n] \in Nat
    BY <2>1
  <2>3. H[n] + 1 \in Nat
    BY <2>2
  <2>. QED  BY <2>1, <2>3 DEF Heights
<1> HIDE DEF K
<1>3. ~Red(u, n) /\ \A y \in Nodes : y # n => Red(u, y) = Red(t, y)
  BY <1>0, <1>1 DEF Red, Blackened
<1>4. Standing(u, T, b, K)
  BY <1>0, <1>2, SameShape
<1>5. Balanced(u, T, K, NULL, "left")
  <2>1. ASSUME NEW m \in T, NEW z \in Sides PROVE BalancedAt(u, K, NULL, "left", m, z)
    <3>1. u.child = t.child /\ BalancedAt(t, H, NULL, "left", m, z)
      BY <1>0 DEF SameLinks, Balanced
    <3>2. PICK k \in Links : k = t.child[m][z]
      BY <1>0, KidsAndRoot
    <3>3. k # n
      BY <1>0, <1>1, <3>2, KidsAndRoot
    <3>4. HeightOf(H, k) \in Nat /\ HeightOf(K, k) = HeightOf(H, k)
      BY <1>0, <1>2, <3>3, HeightsAre DEF HeightOf, Links
    <3>5. \/ K[m] = H[m] /\ Black(u, m) = Black(t, m)
          \/ K[m] = H[m] + 1 /\ Black(u, m) = 1 /\ Black(t, m) = 0
      BY <1>0, <1>1, <1>2, <1>3 DEF Black
    <3>. QED  BY <1>1, <3>1, <3>2, <3>4, <3>5 DEF BalancedAt
  <2>. QED  BY <2>1 DEF Balanced
<1>6. RedsApart(u, T, NULL)
  <2>1. ASSUME NEW m \in T, NEW z \in Sides, NEW k, k = u.child[m][z], Red(u, m), RedNode(u, k) PROVE FALSE
    <3>1. k = t.child[m][z] /\ k # NULL /\ m # n
      BY <1>3, <2>1 DEF SameLinks, RedNode, Blackened
    <3>2. k \in T /\ k # n
      BY <1>0, <1>1, <3>1, KidsAndRoot
    <3>. QED  BY <1>0, <1>1, <1>3, <2>1, <3>1, <3>2 DEF RedsApart, RedNode
  <2>. QED  BY <2>1 DEF RedsApart
<1>7. ~RedNode(u, u.root)
  BY <1>0, <1>1, <1>3 DEF SameLinks, RedNode
<1>. QED  BY <1>4, <1>5, <1>6, <1>7 DEF Between, K

\* Below a black parent nothing is left to do.
LEMMA InsertBelowBlackDone ==
    ASSUME NodesAreKeys, NEW t, NEW T, NEW b, NEW H, NEW n, NEW p, Inserting(t, T, b, H, n, p),
           p # NULL, ~Red(t, p)
    PROVE  Between(t, T, b, H)
<1>0. /\ Standing(t, T, b, H) /\ Balanced(t, T, H, NULL, "left") /\ RedsApart(t, T, n)
      /\ n \in T /\ Red(t, n) /\ t.parent[n] = p /\ (RedNode(t, t.root) => n = t.root)
  BY DEF Inserting
<1>1. n # t.root
  BY <1>0, KidsAndRoot
<1>2. RedsApart(t, T, NULL)
  <2>1. ASSUME NEW m \in T, NEW z \in Sides, Red(t, m), RedNode(t, t.child[m][z]) PROVE FALSE
    <3>1. t.child[m][z] = n
      BY <1>0, <2>1 DEF RedsApart
    <3>2. t.parent[n] = m
      BY <1>0, <2>1, <3>1, KidsAndRoot DEF RedNode
    <3>. QED  BY <1>0, <2>1, <3>2
  <2>. QED  BY <2>1 DEF RedsApart
<1>. QED  BY <1>0, <1>1, <1>2 DEF Between

\* Case 3 of __rb_insert: one rotation ends the insertion.
LEMMA InsertOuterDone ==
    ASSUME NodesAreKeys, NEW t, NEW T, NEW b, NEW H, NEW n, NEW p, Inserting(t, T, b, H, n, p),
           RedNode(t, p), NEW g, g = t.parent[p], NEW s \in Sides, t.child[g][s] = p, t.child[p][s] = n,
           ~RedNode(t, t.child[g][Other(s)]),
           NEW u \in Trees, Rotated(t, u, g, p, s), SwappedColors(t, u, g, p)
    PROVE  Between(u, T, TurnedSpans(b, g, p, s), SwappedHeights(H, g, p))
<1>0. /\ Standing(t, T, b, H) /\ Balanced(t, T, H, NULL, "left") /\ RedsApart(t, T, n)
      /\ n \in T /\ Red(t, n) /\ t.parent[n] = p /\ (RedNode(t, t.root) => n = t.root)
  BY DEF Inserting
<1>1. NULL \notin T
  BY <1>0, KidsAndRoot
<1>2. p # NULL /\ p \in T /\ ~RedNode(t, t.root) /\ g \in T /\ Red(t, p)
  <2>1. p # NULL /\ p \in T /\ ~RedNode(t, t.root)
    BY <1>0, <1>1, KidsAndRoot DEF RedNode
  <2>2. p # t.root
    BY <2>1
  <2>. QED  BY <1>0, <1>1, <2>1, <2>2, KidsAndRoot DEF RedNode
<1>3. n # p /\ ~Red(t, g)
  <2>1. n # p
    BY <1>0, <1>2, KidsAndRoot
  <2>. QED  BY <1>0, <1>2, <2>1 DEF RedsApart, RedNode
<1>4. ~RedNode(t, t.child[p][Other(s)])
  <2>1. PICK o \in Sides : o = Other(s)
    BY DEF Sides, Other
  <2>2. n # NULL /\ t.child[p][o] # n
    BY <1>0, <1>1, <1>2, <2>1, KidsAndRoot
  <2>. QED  BY <1>0, <1>2, <2>1, <2>2 DEF RedsApart
<1>5. NULL # p /\ ~(NULL = g /\ "left" = s)
  BY <1>1, <1>2
<1>6. IF Red(t, g) THEN n = p ELSE n \in {NULL, t.child[p][s]}
  BY <1>3
<1>. QED  BY <1>0, <1>2, <1>3, <1>4, <1>5, <1>6, SwapRotation DEF Between

\* Case 2 of __rb_insert: a rotation makes the inner child an outer one.
LEMMA InsertInnerKeeps ==
    ASSUME NodesAreKeys, NEW t, NEW T, NEW b, NEW H, NEW n, NEW p, Inserting(t, T, b, H, n, p),
           RedNode(t, p), NEW s \in Sides, t.child[p][s] = n,
           NEW u \in Trees, Rotated(t, u, p, n, s), SwappedColors(t, u, p, n)
    PROVE  Inserting(u, T, TurnedSpans(b, p, n, s), SwappedHeights(H, p, n), p, n)
<1>0. /\ Standing(t, T, b, H) /\ Balanced(t, T, H, NULL, "left") /\ RedsApart(t, T, n)
      /\ n \in T /\ Red(t, n) /\ t.parent[n] = p /\ (RedNode(t, t.root) => n = t.root)
  BY DEF Inserting
<1>1. NULL \notin T
  BY <1>0, KidsAndRoot
<1>2. p # NULL /\ p \in T /\ ~RedNode(t, t.root) /\ Red(t, p)
  BY <1>0, <1>1, KidsAndRoot DEF RedNode
<1>3. ~RedNode(t, t.child[n][Other(s)]) /\ ~RedNode(t, t.child[p][Other(s)])
  <2>1. PICK o \in Sides : o = Other(s) /\ s = Other(o)
    BY DEF Sides, Other
  <2>2. n # NULL /\ t.child[n][o] # n /\ t.child[p][o] # n
    BY <1>0, <1>1, <1>2, <2>1, KidsAndRoot
  <2>. QED  BY <1>0, <1>2, <2>1, <2>2 DEF RedsApart
<1>4. NULL # n /\ ~(NULL = p /\ "left" = s)
  BY <1>0, <1>1, <1>2
<1>5. IF Red(t, p) THEN n = n ELSE n \in {NULL, t.child[n][s]}
  BY <1>2
<1>6. /\ Standing(u, T, TurnedSpans(b, p, n, s), SwappedHeights(H, p, n))
      /\ Balanced(u, T, SwappedHeights(H, p, n), NULL, "left")
      /\ RedsApart(u, T, p) /\ ~RedNode(u, u.root)
  BY <1>0, <1>2, <1>3, <1>4, <1>5, SwapRotation
<1>7. Red(u, p) /\ u.parent[p] = n
  BY <1>0, <1>2 DEF Red, SwappedColors, Rotated, Standing
<1>. QED  BY <1>2, <1>6, <1>7 DEF Inserting

\* The colours after case 2 of ____rb_erase_color.
EraseFlipColors(t, u, p, sib) ==
    \A y \in Nodes : u.color[y] = IF y = sib THEN "red" ELSE IF y = p THEN "black" ELSE t.color[y]

\* The heights after it.
EraseFlipHeights(H, n, p, sib) ==
    [y \in Nodes |-> IF y = sib THEN H[sib] - 1 ELSE IF y = p THEN HeightOf(H, n) + 1 ELSE H[y]]

\* The sibling of the place that is one black node short exists: the loop may
\* dereference it.
LEMMA SiblingIs ==
    ASSUME NodesAreKeys, NEW t, NEW T, NEW b, NEW H, NEW n, NEW p, NEW s, Erasing(t, T, b, H, n, p, s),
           NEW o, o = Other(s), NEW sib, sib = t.child[p][o]
    PROVE  /\ p \in T /\ s \in Sides /\ o \in Sides /\ o # s /\ s = Other(o) /\ n \in Links
           /\ sib \in T /\ sib # p /\ t.parent[sib] = p /\ sib # t.root /\ n # sib
           /\ HeightOf(H, n) \in Nat /\ H[sib] = HeightOf(H, n) + 1 /\ H[p] = HeightOf(H, n) + Black(t, p) + 1
<1>0. /\ Standing(t, T, b, H) /\ Balanced(t, T, H, p, s) /\ H \in Heights
      /\ p \in T /\ s \in Sides /\ t.child[p][s] = n
  BY DEF Erasing, Standing
<1>1. o \in Sides /\ o # s /\ s = Other(o)
  BY <1>0 DEF Sides, Other
<1>2. n \in Links /\ sib \in Links
  BY <1>0, <1>1, KidsAndRoot
<1>3. BalancedAt(t, H, p, s, p, s) /\ BalancedAt(t, H, p, s, p, o)
  BY <1>0, <1>1 DEF Balanced
<1>4. HeightOf(H, n) \in Nat /\ HeightOf(H, sib) \in Nat /\ Black(t, p) \in Nat
  BY <1>0, <1>2, HeightsAre DEF Black
<1>5. H[p] = HeightOf(H, n) + Black(t, p) + 1 /\ H[p] = HeightOf(H, sib) + Black(t, p)
  BY <1>0, <1>1, <1>3, <1>4 DEF BalancedAt
<1>6. HeightOf(H, sib) = HeightOf(H, n) + 1
  BY <1>4, <1>5
<1>7. sib # NULL /\ H[sib] = HeightOf(H, n) + 1
  BY <1>4, <1>6 DEF HeightOf
<1>8. sib \in T /\ sib # p /\ t.parent[sib] = p /\ sib # t.root /\ n # sib
  BY <1>0, <1>1, <1>7, KidsAndRoot
<1>. QED  BY <1>0, <1>1, <1>2, <1>4, <1>5, <1>7, <1>8

\* Case 2 of ____rb_erase_color: the deficit is made up, or moves up to the parent.
LEMMA EraseFlipGoesUp ==
    ASSUME NodesAreKeys, NEW t, NEW T, NEW b, NEW H, NEW n, NEW p, NEW s, Erasing(t, T, b, H, n, p, s),
           NEW sib, sib = t.child[p][Other(s)], ~Red(t, sib), \A z \in Sides : ~RedNode(t, t.child[sib][z]),
           NEW u, SameLinks(t, u), EraseFlipColors(t, u, p, sib)
    PROVE  IF Red(t, p) \/ t.parent[p] = NULL
           THEN Between(u, T, b, EraseFlipHeights(H, n, p, sib))
           ELSE \E z \in Sides : Erasing(u, T, b, EraseFlipHeights(H, n, p, sib), p, t.parent[p], z)
<1> DEFINE K == EraseFlipHeights(H, n, p, sib)
<1>0. /\ Standing(t, T, b, H) /\ H \in Heights
      /\ Balanced(t, T, H, p, s) /\ RedsApart(t, T, NULL)
      /\ ~RedNode(t, t.root) /\ t.child[p][s] = n /\ ~RedNode(t, n)
  BY DEF Erasing, Standing
<1>1. NULL \notin Nodes /\ NULL \notin T /\ T \subseteq Nodes
  BY <1>0, KidsAndRoot
<1>2. PICK o : o = Other(s)
  OBVIOUS
<1>3. /\ p \in T /\ s \in Sides /\ o \in Sides /\ o # s /\ n \in Links /\ sib \in T /\ sib # p /\ t.parent[sib] = p
      /\ sib # t.root /\ n # sib /\ t.child[p][o] = sib
  BY <1>2, SiblingIs
<1>4. PICK h \in Nat : h = HeightOf(H, n)
  BY SiblingIs, <1>2
<1>5. H[sib] = h + 1 /\ H[p] = h + Black(t, p) + 1
  BY <1>2, <1>4, SiblingIs
<1>14. \A z \in Sides : t.child[sib][z] # p
  <2>1. SUFFICES ASSUME NEW z \in Sides, t.child[sib][z] = p PROVE FALSE
    OBVIOUS
  <2>2. H[sib] = HeightOf(H, p) + Black(t, sib) + 0
    <3>1. BalancedAt(t, H, p, s, sib, z)
      BY <1>0, <1>3 DEF Balanced
    <3>. QED  BY <1>3, <2>1, <3>1 DEF BalancedAt
  <2>. QED  BY <1>1, <1>3, <1>4, <1>5, <2>2 DEF HeightOf, Black
<1>6. K \in Heights /\ K[sib] = h /\ K[p] = h + 1 /\ \A y \in Nodes : y # p /\ y # sib => K[y] = H[y]
  <2>1. \A y \in Nodes : H[y] \in Nat
    BY <1>0 DEF Heights
  <2>2. H[sib] - 1 = h
    BY <1>4, <1>5
  <2>3. K \in Heights
    BY <1>4, <2>1, <2>2 DEF Heights, EraseFlipHeights
  <2>4. \A y \in Nodes : K[y] = IF y = sib THEN h ELSE IF y = p THEN h + 1 ELSE H[y]
    BY <1>4, <2>2 DEF EraseFlipHeights
  <2>. QED  BY <1>1, <1>3, <2>3, <2>4
<1> HIDE DEF K
<1>7. Red(u, sib) /\ ~Red(u, p) /\ \A y \in Nodes : y # p /\ y # sib => Red(u, y) = Red(t, y)
  BY <1>1, <1>3 DEF Red, EraseFlipColors
<1>8. Standing(u, T, b, K)
  BY <1>0, <1>6, SameShape
<1>9. RedsApart(u, T, NULL)
  <2>1. ASSUME NEW m \in T, NEW z \in Sides, NEW k, k = u.child[m][z], Red(u, m), RedNode(u, k) PROVE FALSE
    <3>1. k = t.child[m][z] /\ k # NULL
      BY <2>1 DEF SameLinks, RedNode
    <3>2. k \in T /\ t.parent[k] = m
      BY <1>0, <3>1, KidsAndRoot
    <3>3. k # p /\ m # p
      BY <1>7, <2>1 DEF RedNode
    <3>4. k # sib
      BY <1>3, <3>2, <3>3
    <3>5. m # sib
      BY <1>1, <1>7, <2>1, <3>1, <3>2, <3>3, <3>4 DEF RedNode
    <3>. QED  BY <1>0, <1>1, <1>7, <2>1, <3>1, <3>2, <3>3, <3>4, <3>5 DEF RedsApart, RedNode
  <2>. QED  BY <2>1 DEF RedsApart
<1>10. ~RedNode(u, u.root)
  <2>1. u.root = t.root /\ t.root \in T
    BY <1>0, <1>3, KidsAndRoot DEF SameLinks
  <2>. QED  BY <1>0, <1>1, <1>3, <1>7, <2>1 DEF RedNode
<1>11. ASSUME NEW en, NEW es, en # p, en # sib, 
              \A m \in T, z \in Sides : (en = m /\ es = z) <=> (t.child[m][z] = p /\ ~Red(t, p))
       PROVE  Balanced(u, T, K, en, es)
  <2>3. ASSUME NEW m \in T, NEW z \in Sides PROVE BalancedAt(u, K, en, es, m, z)
    <3>1. u.child = t.child /\ BalancedAt(t, H, p, s, m, z)
      BY <1>0 DEF SameLinks, Balanced
    <3>2. PICK k \in Links : k = t.child[m][z]
      BY <1>0, KidsAndRoot
    <3>3. k # NULL => k \in T /\ t.parent[k] = m /\ k # m
      BY <1>0, <3>2, KidsAndRoot
    <3>4. HeightOf(H, k) \in Nat
      BY <1>0, HeightsAre
    <3>5. CASE m = p
      <4>1. HeightOf(K, k) = h
        <5>1. CASE z = s
          <6>1. k = n /\ k # p
            BY <1>0, <1>1, <1>3, <3>2, <3>3, <3>5, <5>1
          <6>. QED  BY <1>3, <1>4, <1>6, <6>1 DEF HeightOf, Links
        <5>2. CASE z = o
          <6>1. k = sib
            BY <1>3, <3>2, <3>5, <5>2
          <6>. QED  BY <1>1, <1>3, <1>6, <6>1 DEF HeightOf
        <5>3. z = s \/ z = o
          BY <1>3 DEF Sides
        <5>. QED  BY <5>1, <5>2, <5>3
      <4>2. Black(u, p) = 1 /\ K[p] = h + 1
        BY <1>6, <1>7 DEF Black
      <4>. QED  BY <1>11, <3>1, <3>2, <3>5, <4>1, <4>2 DEF BalancedAt
    <3>6. CASE m = sib
      <4>1. k # p /\ k # sib
        BY <1>1, <1>3, <1>14, <3>2, <3>3, <3>6
      <4>2. HeightOf(K, k) = HeightOf(H, k)
        BY <1>6, <4>1 DEF HeightOf, Links
      <4>3. Black(u, sib) = 0 /\ Black(t, sib) = 1
        BY <1>7 DEF Black
      <4>4. HeightOf(H, k) = h
        BY <1>3, <1>4, <1>5, <3>1, <3>2, <3>4, <3>6, <4>3 DEF BalancedAt
      <4>. QED  BY <1>6, <1>11, <3>1, <3>2, <3>6, <4>2, <4>3, <4>4 DEF BalancedAt
    <3>7. CASE m # p /\ m # sib
      <4>1. k # sib
        BY <1>1, <1>3, <3>3, <3>7
      <4>2. K[m] = H[m] /\ Black(u, m) = Black(t, m)
        BY <1>1, <1>6, <1>7, <3>7 DEF Black
      <4>3. H[m] = HeightOf(H, k) + Black(t, m)
        BY <3>1, <3>2, <3>4, <3>7 DEF BalancedAt, Black
      <4>4. CASE k = p
        <5>1. HeightOf(H, k) = h + Black(t, p) + 1 /\ HeightOf(K, k) = h + 1
          BY <1>1, <1>3, <1>5, <1>6, <4>4 DEF HeightOf
        <5>2. (en = m /\ es = z) <=> ~Red(t, p)
          BY <1>11, <3>2, <4>4
        <5>3. Black(t, p) = IF en = m /\ es = z THEN 1 ELSE 0
          BY <5>2 DEF Black
        <5>. QED  BY <1>4, <3>1, <3>2, <4>2, <4>3, <5>1, <5>3 DEF BalancedAt, Black
      <4>5. CASE k # p
        <5>1. HeightOf(K, k) = HeightOf(H, k)
          BY <1>6, <4>1, <4>5 DEF HeightOf, Links
        <5>2. ~(en = m /\ es = z)
          BY <1>11, <3>2, <4>5
        <5>. QED  BY <3>1, <3>2, <3>4, <4>2, <4>3, <5>1, <5>2 DEF BalancedAt, Black
      <4>. QED  BY <4>4, <4>5
    <3>. QED  BY <3>5, <3>6, <3>7
  <2>. QED  BY <2>3 DEF Balanced
<1>12. CASE Red(t, p) \/ t.parent[p] = NULL
  <2>1. ASSUME NEW m \in T, NEW z \in Sides
        PROVE  (NULL = m /\ "left" = z) <=> (t.child[m][z] = p /\ ~Red(t, p))
    <3>1. t.child[m][z] = p => t.parent[p] = m
      BY <1>0, <1>1, <1>3, KidsAndRoot
    <3>. QED  BY <1>1, <1>12, <3>1
  <2>2. NULL # p /\ NULL # sib
    BY <1>1, <1>3
  <2>3. Balanced(u, T, K, NULL, "left")
    BY <1>11, <2>1, <2>2
  <2>. QED  BY <1>8, <1>9, <1>10, <1>12, <2>3 DEF Between, K
<1>13. CASE ~Red(t, p) /\ t.parent[p] # NULL
  <2>1. PICK q \in T : q = t.parent[p]
    BY <1>0, <1>1, <1>3, <1>13, KidsAndRoot
  <2>2. PICK z \in Sides : t.child[q][z] = p
    BY <1>0, <1>3, <1>13, <2>1, KidsAndRoot
  <2>3. q # sib /\ q # p
    BY <1>0, <1>1, <1>3, <1>14, <2>2, KidsAndRoot
  <2>4. ASSUME NEW m \in T, NEW w \in Sides
        PROVE  (q = m /\ z = w) <=> (t.child[m][w] = p /\ ~Red(t, p))
    <3>1. t.child[m][w] = p => t.parent[p] = m
      BY <1>0, <1>1, <1>3, KidsAndRoot
    <3>2. t.child[q][w] = p => w = z
      <4>1. t.child[q][z] # t.child[q][Other(z)]
        BY <1>0, <1>1, <1>3, <2>2, KidsAndRoot
      <4>. QED  BY <2>2, <4>1 DEF Sides, Other
    <3>. QED  BY <1>13, <2>1, <2>2, <3>1, <3>2
  <2>5. Balanced(u, T, K, q, z)
    BY <1>11, <2>1, <2>3, <2>4
  <2>6. u.child[q][z] = p /\ ~RedNode(u, p)
    BY <1>7, <2>2 DEF SameLinks, RedNode
  <2>7. Erasing(u, T, b, K, p, t.parent[p], z)
    BY <1>8, <1>9, <1>10, <2>1, <2>5, <2>6 DEF Erasing
  <2>. QED  BY <1>13, <2>7 DEF K
<1>. QED  BY <1>12, <1>13

\* Case 1 of ____rb_erase_color: the new sibling exists and is black.
LEMMA EraseCase1Keeps ==
    ASSUME NodesAreKeys, NEW t, NEW T, NEW b, NEW H, NEW n, NEW p, NEW s, Erasing(t, T, b, H, n, p, s),
           NEW o, o = Other(s), NEW sib, sib = t.child[p][o], Red(t, sib),
           NEW u \in Trees, Rotated(t, u, p, sib, o), SwappedColors(t, u, p, sib)
    PROVE  /\ Erasing(u, T, TurnedSpans(b, p, sib, o), SwappedHeights(H, p, sib), n, p, s)
           /\ ~Red(t, p) /\ t.child[sib][s] \in T /\ ~Red(t, t.child[sib][s])
           /\ u.child[p][o] = t.child[sib][s] /\ ~Red(u, u.child[p][o])
<1>0. /\ Standing(t, T, b, H) /\ H \in Heights /\ Balanced(t, T, H, p, s) /\ RedsApart(t, T, NULL)
      /\ ~RedNode(t, t.root) /\ t.child[p][s] = n /\ ~RedNode(t, n)
  BY DEF Erasing, Standing
<1>k. Offspring(t, T) /\ Levels(t, T, H, p, s)
  BY <1>0, KidIs, HeightIs
<1>1. NULL \notin Nodes /\ NULL \notin T /\ T \subseteq Nodes
  BY <1>0, KidsAndRoot
<1>2. /\ p \in T /\ s \in Sides /\ o \in Sides /\ o # s /\ n \in Links /\ sib \in T /\ sib # p /\ t.parent[sib] = p
      /\ sib # t.root /\ n # sib /\ s = Other(o) /\ t.child[p][o] = sib
  BY SiblingIs
<1>3. ~Red(t, p)
  BY <1>0, <1>1, <1>2 DEF RedsApart, RedNode
<1>4. PICK k : k = t.child[sib][s]
  OBVIOUS
<1>5. ~RedNode(t, k)
  BY <1>0, <1>2, <1>4 DEF RedsApart, RedNode
<1>6. /\ Standing(u, T, TurnedSpans(b, p, sib, o), SwappedHeights(H, p, sib))
      /\ Balanced(u, T, SwappedHeights(H, p, sib), p, s)
      /\ RedsApart(u, T, NULL) /\ ~RedNode(u, u.root)
  <2>1. ~RedNode(t, t.child[sib][Other(o)]) /\ ~RedNode(t, t.child[p][Other(o)])
    BY <1>0, <1>2, <1>4, <1>5
  <2>2. p # sib /\ ~(p = p /\ s = o)
    BY <1>2
  <2>3. IF Red(t, p) THEN NULL = sib ELSE NULL \in {NULL, t.child[sib][o]}
    BY <1>3
  <2>. QED  BY <1>0, <1>2, <1>3, <2>1, <2>2, <2>3, SwapRotation
<1>7. TurnedKids(t, u, T, p, sib, o)
  BY <1>0, <1>2, RotatedKids DEF Standing
<1>8. u.child[p][s] = n /\ u.child[p][o] = k /\ n # p /\ k # p /\ k # sib
  BY <1>0, <1>2, <1>4, <1>7 DEF TurnedKids
<1>9. ~RedNode(u, n)
  BY <1>0, <1>1, <1>2, <1>8 DEF RedNode, Red, SwappedColors, Links
<1>10. k \in T
  <2>1. H[sib] = HeightOf(H, k) + Black(t, sib) /\ HeightOf(H, k) \in Nat
    BY <1>k, <1>2, <1>4 DEF Levels
  <2>2. H[sib] = HeightOf(H, k)
    BY <2>1 DEF Black
  <2>3. k # NULL
    BY <2>2, SiblingIs DEF HeightOf
  <2>. QED  BY <1>0, <1>2, <1>4, <2>3, KidsAndRoot
<1>11. ~Red(t, k) /\ ~Red(u, k)
  BY <1>1, <1>5, <1>8, <1>10 DEF RedNode, Red, SwappedColors
<1>12. Erasing(u, T, TurnedSpans(b, p, sib, o), SwappedHeights(H, p, sib), n, p, s)
  BY <1>2, <1>6, <1>8, <1>9 DEF Erasing
<1>. QED  BY <1>3, <1>4, <1>8, <1>10, <1>11, <1>12

\* Case 3 of ____rb_erase_color: the red child of the sibling becomes the outer one.
LEMMA EraseCase3Keeps ==
    ASSUME NodesAreKeys, NEW t, NEW T, NEW b, NEW H, NEW n, NEW p, NEW s, Erasing(t, T, b, H, n, p, s),
           NEW o, o = Other(s), NEW sib, sib = t.child[p][o], ~Red(t, sib),
           NEW k, k = t.child[sib][s], RedNode(t, k), ~RedNode(t, t.child[sib][o]),
           NEW u \in Trees, Rotated(t, u, sib, k, s), SwappedColors(t, u, sib, k)
    PROVE  /\ k \in T /\ Erasing(u, T, TurnedSpans(b, sib, k, s), SwappedHeights(H, sib, k), n, p, s)
           /\ u.child[p][o] = k /\ ~Red(u, k) /\ u.child[k][o] = sib /\ Red(u, sib)
<1>0. /\ Standing(t, T, b, H) /\ H \in Heights /\ Balanced(t, T, H, p, s) /\ RedsApart(t, T, NULL)
      /\ ~RedNode(t, t.root) /\ t.child[p][s] = n /\ ~RedNode(t, n)
  BY DEF Erasing, Standing
<1>k. Offspring(t, T) /\ Levels(t, T, H, p, s)
  BY <1>0, KidIs, HeightIs
<1>1. NULL \notin Nodes /\ NULL \notin T /\ T \subseteq Nodes
  BY <1>0, KidsAndRoot
<1>2. /\ p \in T /\ s \in Sides /\ o \in Sides /\ o # s /\ n \in Links /\ sib \in T /\ sib # p /\ t.parent[sib] = p
      /\ sib # t.root /\ n # sib /\ s = Other(o) /\ t.child[p][o] = sib
  BY SiblingIs
<1>3. k \in T /\ k # NULL /\ Red(t, k) /\ t.parent[k] = sib /\ k # sib
  <2>1. k # NULL /\ Red(t, k)
    BY DEF RedNode
  <2>. QED  BY <1>k, <1>2, <2>1 DEF Offspring
<1>4. k # p
  <2>1. HeightOf(H, k) \in Nat /\ H[sib] = HeightOf(H, k) + Black(t, sib)
    BY <1>k, <1>2 DEF Levels
  <2>2. HeightOf(H, k) = H[k] /\ Black(t, sib) = 1
    BY <1>3 DEF HeightOf, Black
  <2>3. H[p] = HeightOf(H, n) + Black(t, p) + 1 /\ H[sib] = HeightOf(H, n) + 1 /\ HeightOf(H, n) \in Nat
        /\ Black(t, p) \in Nat
    BY SiblingIs DEF Black
  <2>. QED  BY ONLY <2>1, <2>2, <2>3
<1>5. n # k
  BY <1>0, <1>2, <1>3, KidsAndRoot
<1>6. ~RedNode(t, t.child[k][o])
  BY <1>0, <1>2, <1>3 DEF RedsApart, RedNode
<1>7. /\ Standing(u, T, TurnedSpans(b, sib, k, s), SwappedHeights(H, sib, k))
      /\ Balanced(u, T, SwappedHeights(H, sib, k), p, s)
      /\ RedsApart(u, T, NULL) /\ ~RedNode(u, u.root)
  <2>1. ~RedNode(t, t.child[k][Other(s)]) /\ ~RedNode(t, t.child[sib][Other(s)])
    BY <1>6
  <2>2. p # k /\ ~(p = sib /\ s = s)
    BY <1>2, <1>4
  <2>3. IF Red(t, sib) THEN NULL = k ELSE NULL \in {NULL, t.child[k][s]}
    OBVIOUS
  <2>4. /\ Standing(t, T, b, H) /\ Balanced(t, T, H, p, s) /\ RedsApart(t, T, NULL) /\ ~RedNode(t, t.root)
        /\ sib \in T /\ k \in T /\ s \in Sides /\ t.child[sib][s] = k /\ Red(t, k)
    BY <1>0, <1>2, <1>3
  <2>5. /\ Standing(u, T, TurnedSpans(b, sib, k, s), SwappedHeights(H, sib, k))
        /\ Balanced(u, T, SwappedHeights(H, sib, k), p, s)
        /\ RedsApart(u, T, IF Red(t, sib) THEN sib ELSE NULL) /\ ~RedNode(u, u.root)
    <3>1. PICK x : x = NULL
      OBVIOUS
    <3>2. PICK d \in T : d = sib
      BY <2>4
    <3>3. PICK up \in T : up = k
      BY <2>4
    <3>4. /\ RedsApart(t, T, x) /\ (IF Red(t, d) THEN x = up ELSE x \in {NULL, t.child[up][s]})
          /\ t.child[d][s] = up /\ Red(t, up) /\ p # up /\ ~(p = d /\ s = s)
          /\ ~RedNode(t, t.child[up][Other(s)]) /\ ~RedNode(t, t.child[d][Other(s)])
          /\ Rotated(t, u, d, up, s) /\ SwappedColors(t, u, d, up)
      BY <2>1, <2>2, <2>4, <3>1, <3>2, <3>3
    <3>5. /\ Standing(u, T, TurnedSpans(b, d, up, s), SwappedHeights(H, d, up))
          /\ Balanced(u, T, SwappedHeights(H, d, up), p, s)
          /\ RedsApart(u, T, IF Red(t, d) THEN d ELSE NULL) /\ ~RedNode(u, u.root)
      BY ONLY NodesAreKeys, u \in Trees, <2>4, <3>2, <3>3, <3>4, SwapRotation
    <3>. QED  BY <3>2, <3>3, <3>5
  <2>. QED  BY <2>5
<1>8. TurnedKids(t, u, T, sib, k, s)
  BY <1>0, <1>2, <1>3, RotatedKids DEF Standing
<1>9. u.child[p][s] = n /\ u.child[p][o] = k /\ u.child[k][o] = sib
  BY <1>0, <1>2, <1>4, <1>8 DEF TurnedKids, TurnedRest
<1>10. ~RedNode(u, n) /\ Red(u, sib) /\ ~Red(u, k)
  BY <1>0, <1>1, <1>2, <1>3, <1>5 DEF RedNode, Red, SwappedColors, Links
<1>11. Erasing(u, T, TurnedSpans(b, sib, k, s), SwappedHeights(H, sib, k), n, p, s)
  BY <1>2, <1>7, <1>9, <1>10 DEF Erasing
<1>. QED  BY <1>3, <1>9, <1>10, <1>11

\* The colours after case 4 of ____rb_erase_color.
EraseCase4Colors(t, u, p, sib, outer) ==
    \A y \in Nodes : u.color[y] = IF y = outer \/ y = p THEN "black" ELSE IF y = sib THEN t.color[p] ELSE t.color[y]

\* The heights after it.
EraseCase4Heights(H, n, p, sib, outer) ==
    [y \in Nodes |-> IF y = sib THEN H[p] ELSE IF y = p \/ y = outer THEN HeightOf(H, n) + 1 ELSE H[y]]

\* Case 4 of ____rb_erase_color: one rotation makes up for the deficit.
LEMMA EraseCase4Done ==
    ASSUME NodesAreKeys, NEW t, NEW T, NEW b, NEW H, NEW n, NEW p, NEW s, Erasing(t, T, b, H, n, p, s),
           NEW o, o = Other(s), NEW sib, sib = t.child[p][o], ~Red(t, sib),
           NEW outer, outer = t.child[sib][o], RedNode(t, outer),
           NEW u \in Trees, Rotated(t, u, p, sib, o), EraseCase4Colors(t, u, p, sib, outer)
    PROVE  Between(u, T, TurnedSpans(b, p, sib, o), EraseCase4Heights(H, n, p, sib, outer))
<1> DEFINE K == EraseCase4Heights(H, n, p, sib, outer)
<1>0. /\ Standing(t, T, b, H) /\ H \in Heights /\ Balanced(t, T, H, p, s) /\ RedsApart(t, T, NULL)
      /\ ~RedNode(t, t.root) /\ t.child[p][s] = n /\ ~RedNode(t, n)
  BY DEF Erasing, Standing
<1>k. Offspring(t, T) /\ Levels(t, T, H, p, s)
  BY <1>0, KidIs, HeightIs
<1>1. NULL \notin Nodes /\ NULL \notin T /\ T \subseteq Nodes
  BY <1>0, KidsAndRoot
<1>2. /\ p \in T /\ s \in Sides /\ o \in Sides /\ o # s /\ n \in Links /\ sib \in T /\ sib # p /\ t.parent[sib] = p
      /\ sib # t.root /\ n # sib /\ s = Other(o) /\ t.child[p][o] = sib
  BY SiblingIs
<1>3. PICK h \in Nat : h = HeightOf(H, n) /\ H[sib] = h + 1 /\ H[p] = h + Black(t, p) + 1
  BY SiblingIs
<1>4. outer \in T /\ outer # NULL /\ Red(t, outer) /\ t.parent[outer] = sib /\ outer # sib /\ outer # t.root
  <2>1. outer # NULL /\ Red(t, outer)
    BY DEF RedNode
  <2>. QED  BY <1>k, <1>2, <2>1 DEF Offspring
<1>5. PICK tmp \in Links : tmp = t.child[sib][s]
  BY <1>k, <1>2 DEF Offspring
<1>6. HeightOf(H, outer) = h /\ HeightOf(H, tmp) = h
  <2>1. H[sib] = HeightOf(H, outer) + Black(t, sib) /\ HeightOf(H, outer) \in Nat
    BY <1>k, <1>2 DEF Levels
  <2>2. H[sib] = HeightOf(H, tmp) + Black(t, sib) /\ HeightOf(H, tmp) \in Nat
    BY <1>k, <1>2, <1>5 DEF Levels
  <2>3. Black(t, sib) = 1
    BY DEF Black
  <2>. QED  BY ONLY <1>3, <2>1, <2>2, <2>3
<1>7. outer # p
  <2>1. outer = p => H[p] = h
    BY ONLY <1>4, <1>6 DEF HeightOf
  <2>2. Black(t, p) \in Nat
    BY DEF Black
  <2>. QED  BY ONLY <1>3, <2>1, <2>2
<1>8. Standing(u, T, TurnedSpans(b, p, sib, o), K)
  <2>1. \A y \in Nodes : H[y] \in Nat
    BY <1>0 DEF Heights
  <2>2. K \in Heights
    BY <1>1, <1>2, <1>3, <2>1 DEF EraseCase4Heights, Heights
  <2>3. t.child \in [Nodes -> [Sides -> Links]]
    BY <1>0 DEF Standing, Trees
  <2>. QED  BY <1>0, <1>2, <2>2, <2>3, RotatedShape DEF Standing
<1>9. TurnedKids(t, u, T, p, sib, o)
  BY <1>0, <1>2, RotatedKids DEF Standing
<1>10. /\ u.child[p][s] = n /\ u.child[p][o] = tmp /\ u.child[sib][s] = p /\ u.child[sib][o] = outer
       /\ n # p /\ n # sib /\ tmp # p /\ tmp # sib
       /\ \A m \in T, z \in Sides : m # p /\ m # sib =>
            /\ u.child[m][z] = IF t.child[m][z] = p THEN sib ELSE t.child[m][z]
            /\ t.child[m][z] # sib
  BY <1>0, <1>2, <1>5, <1>9 DEF TurnedKids, TurnedRest
<1>11. /\ K[sib] = h + Black(t, p) + 1 /\ K[p] = h + 1 /\ K[outer] = h + 1
       /\ \A y \in Nodes : y # p /\ y # sib /\ y # outer => K[y] = H[y]
  BY <1>1, <1>2, <1>3, <1>4, <1>7 DEF EraseCase4Heights
<1> HIDE DEF K
<1>12. /\ ~Red(u, p) /\ ~Red(u, outer) /\ Red(u, sib) = Red(t, p)
       /\ \A y \in Nodes : y # p /\ y # sib /\ y # outer => Red(u, y) = Red(t, y)
  BY <1>1, <1>2, <1>4, <1>7 DEF Red, EraseCase4Colors
<1>13. n # outer /\ tmp # outer
  <2>1. n # outer
    BY <1>0, <1>1, <1>2, <1>4, KidsAndRoot
  <2>2. tmp # outer
    <3>1. outer # t.child[sib][Other(o)]
      BY <1>k, <1>2, <1>4 DEF Offspring
    <3>. QED  BY <1>2, <1>5, <3>1
  <2>. QED  BY <2>1, <2>2
<1>14. \A z \in Sides : z = s \/ z = o
  BY <1>2 DEF Sides
<1>15. \A y \in Links : y # p /\ y # sib /\ y # outer => HeightOf(K, y) = HeightOf(H, y)
  BY <1>11 DEF HeightOf, Links
<1>16. ASSUME NEW m \in T, NEW z \in Sides, NEW k \in Links, k = t.child[m][z], m # p, m # sib
       PROVE  k # outer /\ k # sib
  <2>1. k # NULL => t.parent[k] = m
    BY <1>0, <1>16, KidsAndRoot
  <2>. QED  BY ONLY <1>1, <1>2, <1>4, <1>16, <2>1
<1>17. Balanced(u, T, K, NULL, "left")
  <2>1. ASSUME NEW m \in T, NEW z \in Sides PROVE BalancedAt(u, K, NULL, "left", m, z)
    <3>0. BalancedAt(t, H, p, s, m, z) /\ m # NULL
      BY <1>0, <1>1 DEF Balanced
    <3>1. CASE m = p
      <4>1. HeightOf(K, u.child[p][z]) = h
        BY <1>2, <1>3, <1>5, <1>6, <1>10, <1>13, <1>14, <1>15
      <4>2. Black(u, p) = 1
        BY <1>12 DEF Black
      <4>. QED  BY ONLY <1>3, <1>11, <3>0, <3>1, <4>1, <4>2 DEF BalancedAt
    <3>2. CASE m = sib
      <4>1. HeightOf(K, p) = h + 1 /\ HeightOf(K, outer) = h + 1
        BY ONLY <1>1, <1>2, <1>4, <1>11 DEF HeightOf
      <4>3. HeightOf(K, u.child[sib][z]) = h + 1
        BY ONLY <1>10, <1>14, <2>1, <4>1
      <4>2. Black(u, sib) = Black(t, p) /\ Black(t, p) \in Nat
        BY <1>12 DEF Black
      <4>. QED  BY ONLY <1>3, <1>11, <3>0, <3>2, <4>2, <4>3 DEF BalancedAt
    <3>3. CASE m # p /\ m # sib
      <4>1. PICK k \in Links : k = t.child[m][z]
        BY <1>0, KidsAndRoot
      <4>2. k # outer /\ k # sib
        BY <1>16, <3>3, <4>1
      <4>3. HeightOf(H, k) \in Nat
        BY <1>0, HeightsAre
      <4>4. HeightOf(K, u.child[m][z]) = HeightOf(H, k)
        <5>1. CASE k = p
          <6>1. u.child[m][z] = sib
            BY <1>10, <3>3, <4>1, <5>1
          <6>2. HeightOf(K, sib) = K[sib] /\ HeightOf(H, p) = H[p]
            BY <1>1, <1>2 DEF HeightOf
          <6>. QED  BY <1>3, <1>11, <5>1, <6>1, <6>2
        <5>2. CASE k # p
          BY <1>10, <1>15, <3>3, <4>1, <4>2, <5>2
        <5>. QED  BY <5>1, <5>2
      <4>5. H[m] = HeightOf(H, k) + Black(t, m)
        BY <3>0, <3>3, <4>1, <4>3 DEF BalancedAt, Black
      <4>6. CASE m = outer
        <5>1. Black(u, m) = 1 /\ Black(t, m) = 0 /\ H[m] = h
          BY <1>4, <1>6, <1>12, <4>6 DEF Black, HeightOf
        <5>2. HeightOf(K, u.child[m][z]) = h
          BY <4>3, <4>4, <4>5, <5>1
        <5>3. K[m] = h + 1
          BY <1>11, <4>6
        <5>. QED  BY <1>3, <3>0, <5>1, <5>2, <5>3 DEF BalancedAt
      <4>7. CASE m # outer
        <5>1. K[m] = H[m] /\ Black(u, m) = Black(t, m)
          BY <1>1, <1>11, <1>12, <3>3, <4>7 DEF Black
        <5>. QED  BY <3>0, <4>3, <4>4, <4>5, <5>1 DEF BalancedAt, Black
      <4>. QED  BY <4>6, <4>7
    <3>. QED  BY <3>1, <3>2, <3>3
  <2>. QED  BY <2>1 DEF Balanced
<1>18. RedsApart(u, T, NULL)
  <2>1. ASSUME NEW m \in T, NEW z \in Sides, Red(u, m), RedNode(u, u.child[m][z]) PROVE FALSE
    <3>1. CASE m = sib
      BY <1>10, <1>12, <1>14, <2>1, <3>1 DEF RedNode
    <3>2. m # p /\ m # outer
      BY <1>12, <2>1
    <3>3. CASE m # sib
      <4>1. PICK k \in Links : k = t.child[m][z]
        BY <1>0, KidsAndRoot
      <4>2. k # outer /\ k # sib
        BY <1>16, <3>2, <3>3, <4>1
      <4>3. Red(t, m)
        BY <1>1, <1>12, <2>1, <3>2, <3>3
      <4>4. RedNode(t, k)
        <5>1. CASE k = p
          BY <1>1, <1>2, <1>10, <1>12, <2>1, <3>2, <3>3, <4>1, <5>1 DEF RedNode
        <5>2. CASE k # p
          BY <1>10, <1>12, <2>1, <3>2, <3>3, <4>1, <4>2, <5>2 DEF RedNode, Links
        <5>. QED  BY <5>1, <5>2
      <4>. QED  BY <1>0, <4>1, <4>3, <4>4 DEF RedsApart, RedNode
    <3>. QED  BY <3>1, <3>3
  <2>. QED  BY <2>1 DEF RedsApart
<1>19. ~RedNode(u, u.root)
  <2>0. t.root \in T
    BY <1>0, <1>2, KidsAndRoot
  <2>1. u.root = (IF p = t.root THEN sib ELSE t.root) /\ ~Red(t, t.root)
    BY <1>0, <1>1, <1>9, <2>0 DEF TurnedKids, RedNode
  <2>. QED  BY <1>1, <1>2, <1>4, <1>12, <2>0, <2>1 DEF RedNode
<1>. QED  BY <1>8, <1>17, <1>18, <1>19 DEF Between, K
=============================================================================
