-------------------------- MODULE RBTreeProperties --------------------------
(***************************************************************************)
(* What makes the red-black tree of lib/rbtree correct, between the calls  *)
(* and at the head of each round of the two rebalancing loops.             *)
(***************************************************************************)
EXTENDS RBDrain

\* n and the nodes on the way from it to the root of t.
Above(t, n) ==
    LET Way[k \in 0..Cardinality(Nodes)] ==
            IF k = 0 THEN {n}
            ELSE LET below == Way[k - 1] IN below \cup ({t.parent[m] : m \in below} \ {NULL})
    IN  Way[Cardinality(Nodes)]
BlacksAbove(n) == Cardinality({a \in Above(tree, n) : ~Red(tree, a)})

\* A leaf is a free place: the NULL child of node l[1] on side l[2].
Leaves == {l \in InTree \X Sides : tree.child[l[1]][l[2]] = NULL}

\* The leaf lies under the place (parent, node) where a loop stands.
Through(l) ==
    IF node = NULL THEN l = <<parent, Side(tree, parent, NULL)>> ELSE node \in Above(tree, l[1])

\* Both directions of every link agree at any head of a loop: a child names its
\* parent, the root names none, no node is under itself.  The writes to
\* rb_left, rb_right and __rb_parent_color are spread over ten branches.
WellLinked ==
    /\ tree.root # NULL => tree.parent[tree.root] = NULL
    /\ \A n \in InTree, s \in Sides :
         LET c == tree.child[n][s]
         IN  c # NULL => /\ tree.parent[c] = n /\ c # tree.child[n][Other(s)]
                         /\ n \notin Under(tree, c)

\* The tree stays a search tree, also in the middle of a rebalancing.
SearchOrder ==
    \A n \in InTree :
      /\ \A m \in Under(tree, tree.child[n].left) : m < n
      /\ \A m \in Under(tree, tree.child[n].right) : m > n

\* Properties 2, 4 and 5 at the head of rbtree.c, whenever no call runs: the
\* root is black, no red node has a red child, all leaves have as many black
\* nodes above them.
RedBlack ==
    op = "idle" =>
      /\ ~RedNode(tree, tree.root)
      /\ \A n \in InTree, s \in Sides : Red(tree, n) => ~RedNode(tree, tree.child[n][s])
      /\ Cardinality({BlacksAbove(l[1]) : l \in Leaves}) <= 1

\* What __rb_insert relies on at the head of its loop: node is red, parent is
\* its parent, and nothing but a red parent of node, or a red root that is
\* node, violates the red-black properties.
InsertLoopInvariant ==
    op = "insert" =>
      /\ Red(tree, node) /\ tree.parent[node] = parent
      /\ RedNode(tree, tree.root) => node = tree.root
      /\ \A n \in InTree \ {node} :
           tree.parent[n] # NULL /\ Red(tree, n) => ~Red(tree, tree.parent[n])
      /\ Cardinality({BlacksAbove(l[1]) : l \in Leaves}) <= 1

\* The three loop invariants ____rb_erase_color states: node is black or NULL,
\* parent is not NULL, and the leaves under node have one black node less above
\* them than the others have.
EraseLoopInvariant ==
    op = "erase" =>
      /\ parent # NULL /\ ~RedNode(tree, node)
      /\ node # NULL => tree.parent[node] = parent
      /\ ~RedNode(tree, tree.root)
      /\ \A n \in InTree, s \in Sides : Red(tree, n) => ~RedNode(tree, tree.child[n][s])
      /\ Cardinality({BlacksAbove(l[1]) + (IF Through(l) THEN 1 ELSE 0) : l \in Leaves}) <= 1

-----------------------------------------------------------------------------
(* The walks, which are used between calls.                                *)

\* The least and the greatest of a set of keys, NULL of none.
LeastOf(S) == IF S = {} THEN NULL ELSE CHOOSE n \in S : \A m \in S : n <= m
GreatestOf(S) == IF S = {} THEN NULL ELSE CHOOSE n \in S : \A m \in S : n >= m

\* rb_first, rb_last, rb_next and rb_prev answer by the keys, whatever shape the
\* calls so far have given the tree.
WalksInOrder ==
    op = "idle" =>
      LET nodes == InTree
      IN  /\ rb_first(tree) = LeastOf(nodes) /\ rb_last(tree) = GreatestOf(nodes)
          /\ \A n \in nodes :
               /\ rb_next(tree, n) = LeastOf({m \in nodes : m > n})
               /\ rb_prev(tree, n) = GreatestOf({m \in nodes : m < n})

-----------------------------------------------------------------------------
\* A call adds or takes away its own node and no other, and rebalancing moves
\* nodes about without losing one.
NodesAreKept ==
    [][LET before == InTree
           after == Under(tree', tree'.root)
       IN  IF op = "idle"
           THEN \E n \in Nodes : {n} = (before \ after) \cup (after \ before)
           ELSE after = before]_vars

\* A loop that goes round again stands nearer to the root than before, so it
\* ends, in a number of rounds the height of the tree bounds.
RoundsClimb ==
    [][op # "idle" /\ op' = op /\ parent' # NULL =>
         Cardinality(Above(tree', parent')) < Cardinality(Above(tree, parent))]_vars

-----------------------------------------------------------------------------
(* The loop that takes a tree down.                                        *)

\* The nodes whose links rb_next_postorder follows or compares from n.
PostorderReads(t, n) ==
    LET p == t.parent[n]
    IN  IF p = NULL THEN {n}
        ELSE {n, p} \cup {m \in Under(t, t.child[p].right) : rb_next_postorder(t, n) \in Under(t, m)}

\* "Allowing the backing memory of @pos to be invalidated" (rbtree.h:59): the
\* loop goes on to a node it has not met, and reads no node that a body has
\* released; of a tree whose nodes are erased it holds only nodes still in it.
DrainReadsLive ==
    drain.on =>
      /\ ~drain.ran => drain.pos \notin drain.met
      /\ drain.ran /\ drain.n # NULL =>
           IF drain.body = "release"
           THEN PostorderReads(tree, drain.n) \cap drain.met = {}
           ELSE drain.n \in InTree

\* When the loop ends it has met every node.  A body that erases pos may make
\* it "miss some nodes" (rbtree.h:72), but none of a tree of at most three,
\* which is why the test, which erases three, finds the tree empty.
DrainMeetsAll ==
    drain.on /\ drain.pos = NULL /\ (drain.body = "release" \/ Cardinality(drain.began) <= 3)
        => drain.met = drain.began
=============================================================================
