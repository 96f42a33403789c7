------------------------------- MODULE RBTree -------------------------------
(***************************************************************************)
(* The red-black tree of lib/rbtree: rb_link_node with rb_insert_color,    *)
(* rb_erase and the walks over the tree.  A step is one iteration of a     *)
(* rebalancing loop, so that the loop invariants the code states can be    *)
(* checked where it states them.                                           *)
(*                                                                         *)
(* The code writes every case twice, for a left and for a right child; the *)
(* model writes it once, for a side s and the other side.  The word        *)
(* __rb_parent_color is the pair of tree.parent and tree.color.            *)
(*                                                                         *)
(* Name_Fault is Name with a plausible mistake; see Workqueue.             *)
(***************************************************************************)
EXTENDS Integers, FiniteSets

CONSTANTS
    Nodes,      \* the struct rb_node objects; each is its own key
    NULL

ASSUME NodesAreKeys == Nodes \subseteq Int /\ IsFiniteSet(Nodes) /\ NULL \notin Nodes

VARIABLES
    tree,           \* [root, child, parent, color]
    op,             \* the running call: "idle", "insert" or "erase"
    node, parent    \* its local variables at the head of the loop

vars == <<tree, op, node, parent>>

Sides == {"left", "right"}
Other(s) == IF s = "left" THEN "right" ELSE "left"
NoChildren == [s \in Sides |-> NULL]

Red(t, n) == t.color[n] = "red"
RedNode(t, n) == n # NULL /\ Red(t, n)

\* On which side of p the loops take n to be: "left" unless it is the right one.
Side(t, p, n) == IF n # t.child[p].right THEN "left" ELSE "right"

-----------------------------------------------------------------------------
(* The helpers on pointers and colours.                                    *)

rb_set_parent_Skipped(t, n, p) == t
rb_set_parent(t, n, p) == [t EXCEPT !.parent[n] = p]
rb_set_parent_color(t, n, p, c) == [t EXCEPT !.parent[n] = p, !.color[n] = c]
SetBlackIfAny(t, n, p) == IF n = NULL THEN t ELSE rb_set_parent_color(t, n, p, "black")

CopyParentColor_ParentOnly(t, old, new) == [t EXCEPT !.parent[new] = t.parent[old]]
\* new takes over the word __rb_parent_color of old.
CopyParentColor(t, old, new) ==
    [t EXCEPT !.parent[new] = t.parent[old], !.color[new] = t.color[old]]

change_child(t, old, new, p) ==
    IF p = NULL
    THEN [t EXCEPT !.root = new]
    ELSE [t EXCEPT !.child[p][IF t.child[p].left = old THEN "left" ELSE "right"] = new]

rotate_set_parents(t, old, new, c) ==
    change_child(rb_set_parent_color(CopyParentColor(t, old, new), old, new, c),
                 old, new, t.parent[old])

\* The child pointers of a rotation: up, below down on side s, goes above it.
Turn_LosesInner(t, down, up, s) ==
    [t EXCEPT !.child[down][s] = NULL, !.child[up][Other(s)] = down]
Turn(t, down, up, s) ==
    [t EXCEPT !.child[down][s] = t.child[up][Other(s)], !.child[up][Other(s)] = down]

\* n and the nodes under it; NULL has none.
Under(t, n) ==
    LET Upper[k \in 0..Cardinality(Nodes)] ==
            IF k = 0 THEN {n} \ {NULL}
            ELSE LET above == Upper[k - 1]
                 IN  above \cup ({t.child[m][s] : m \in above, s \in Sides} \ {NULL})
    IN  Upper[Cardinality(Nodes)]
InTree == Under(tree, tree.root)

-----------------------------------------------------------------------------
(* The walks.                                                              *)

\* Down from n on side s as far as there are children.
Furthest(t, n, s) ==
    LET Down[m \in Nodes] == IF t.child[m][s] = NULL THEN m ELSE Down[t.child[m][s]]
    IN  Down[n]

Extreme(t, s) == IF t.root = NULL THEN NULL ELSE Furthest(t, t.root, s)
rb_first(t) == Extreme(t, "left")
rb_last(t) == Extreme(t, "right")

\* Up the tree while n is a child on side s.
Climb_Once(t, n, s) == t.parent[n]
Climb(t, n, s) ==
    LET Up[m \in Nodes] ==
            LET p == t.parent[m] IN IF p # NULL /\ m = t.child[p][s] THEN Up[p] ELSE p
    IN  Up[n]

Neighbour(t, n, s) ==
    IF t.child[n][s] # NULL THEN Furthest(t, t.child[n][s], Other(s)) ELSE Climb(t, n, s)
rb_next(t, n) == Neighbour(t, n, "right")
rb_prev(t, n) == Neighbour(t, n, "left")

rb_left_deepest_node(t, n) ==
    LET Down[m \in Nodes] ==
            IF t.child[m].left # NULL THEN Down[t.child[m].left]
            ELSE IF t.child[m].right # NULL THEN Down[t.child[m].right]
            ELSE m
    IN  Down[n]

rb_first_postorder(t) == IF t.root = NULL THEN NULL ELSE rb_left_deepest_node(t, t.root)

rb_next_postorder_Sibling(t, n) ==
    LET p == t.parent[n]
    IN  IF p # NULL /\ n = t.child[p].left /\ t.child[p].right # NULL THEN t.child[p].right ELSE p
rb_next_postorder_AnySide(t, n) ==
    LET p == t.parent[n]
    IN  IF p # NULL /\ t.child[p].right # NULL THEN rb_left_deepest_node(t, t.child[p].right) ELSE p
rb_next_postorder(t, n) ==
    LET p == t.parent[n]
    IN  IF p # NULL /\ n = t.child[p].left /\ t.child[p].right # NULL
        THEN rb_left_deepest_node(t, t.child[p].right)
        ELSE p

-----------------------------------------------------------------------------
(* Insertion: the caller's descent, rb_link_node and __rb_insert.          *)

\* The caller of rb_link_node goes down from the root to a free place for k.
Place(t, k) ==
    LET Down[m \in Nodes] ==
            LET c == t.child[m][IF k < m THEN "left" ELSE "right"]
            IN  IF c = NULL THEN m ELSE Down[c]
    IN  IF t.root = NULL THEN NULL ELSE Down[t.root]

LinkSide_Swapped(n, p) == IF n < p THEN "right" ELSE "left"
LinkSide(n, p) == IF n < p THEN "left" ELSE "right"

rb_link_node(t, n, p) ==
    LET linked == [t EXCEPT !.parent[n] = p, !.color[n] = "red", !.child[n] = NoChildren]
    IN  IF p = NULL THEN [linked EXCEPT !.root = n]
        ELSE [linked EXCEPT !.child[p][LinkSide(n, p)] = n]

Init ==
    /\ tree = [root   |-> NULL,
               child  |-> [n \in Nodes |-> NoChildren],
               parent |-> [n \in Nodes |-> NULL],
               color  |-> [n \in Nodes |-> "red"]]
    /\ op = "idle" /\ node = NULL /\ parent = NULL

Insert(n) ==
    /\ op = "idle" /\ n \notin InTree
    /\ LET p == Place(tree, n)
       IN  tree' = rb_link_node(tree, n, p) /\ parent' = p
    /\ node' = n /\ op' = "insert"

Done(t) == tree' = t /\ op' = "idle" /\ node' = NULL /\ parent' = NULL

InsertAtRoot ==
    /\ op = "insert" /\ parent = NULL
    /\ Done(rb_set_parent_color(tree, node, NULL, "black"))

InsertBelowBlack ==
    /\ op = "insert" /\ parent # NULL /\ ~Red(tree, parent)
    /\ Done(tree)

gparent == tree.parent[parent]
uncle == tree.child[gparent][Other(Side(tree, gparent, parent))]
TwoReds == op = "insert" /\ RedNode(tree, parent)

Blacken_UncleOnly(t) == rb_set_parent_color(t, uncle, gparent, "black")
Blacken(t) == rb_set_parent_color(rb_set_parent_color(t, uncle, gparent, "black"), parent, gparent, "black")

\* Case 1: both become black, the grandparent red, and the loop goes on there.
InsertFlip ==
    /\ TwoReds /\ RedNode(tree, uncle)
    /\ node' = gparent
    /\ parent' = tree.parent[gparent]
    /\ tree' = rb_set_parent_color(Blacken(tree), gparent, parent', "red")
    /\ UNCHANGED op

\* Case 2, where node is the inner child: rotate it above its parent.
RotateInner(t, s) ==
    LET tmp == t.child[node][s]
    IN  rb_set_parent_color(SetBlackIfAny(Turn(t, parent, node, Other(s)), tmp, parent),
                            parent, node, "red")

\* Case 3: rotate p above the grandparent.
RotateOuter(t, p, s) ==
    LET tmp == t.child[p][Other(s)]
    IN  rotate_set_parents(SetBlackIfAny(Turn(t, gparent, p, s), tmp, gparent), gparent, p, "red")

InsertRotate ==
    /\ TwoReds /\ ~RedNode(tree, uncle)
    /\ LET s == Side(tree, gparent, parent)
       IN  IF node = tree.child[parent][Other(s)]
           THEN Done(RotateOuter(RotateInner(tree, s), node, s))
           ELSE Done(RotateOuter(tree, parent, s))

-----------------------------------------------------------------------------
(* Erasure: __rb_erase_augmented and ____rb_erase_color.                   *)

Result(t, p) == [tree |-> t, rebalance |-> p]

\* Case 1: n has at most one child c, which takes its place and its colour.
EraseOneChild(t, n, c) ==
    LET t1 == change_child(t, n, c, t.parent[n])
    IN  IF c # NULL THEN Result(CopyParentColor(t1, n, c), NULL)
        ELSE Result(t1, IF Red(t, n) THEN NULL ELSE t.parent[n])

\* Cases 2 and 3: the successor of n takes its place and its colour, and the
\* child the successor had takes the place of the successor.
EraseTwoChildren(t, n) ==
    LET left == t.child[n].left
        right == t.child[n].right
        successor == Furthest(t, right, "left")
        child2 == t.child[successor].right
        p == IF successor = right THEN successor ELSE t.parent[successor]
        t1 == IF successor = right THEN t
              ELSE rb_set_parent([t EXCEPT !.child[p].left = child2,
                                           !.child[successor].right = right], right, successor)
        t2 == rb_set_parent([t1 EXCEPT !.child[successor].left = left], left, successor)
        t3 == SetBlackIfAny(change_child(t2, n, successor, t.parent[n]), child2, p)
    IN  Result(CopyParentColor(t3, n, successor),
               IF child2 # NULL \/ Red(t, successor) THEN NULL ELSE p)

erase_augmented(t, n) ==
    IF t.child[n].left = NULL THEN EraseOneChild(t, n, t.child[n].right)
    ELSE IF t.child[n].right = NULL THEN EraseOneChild(t, n, t.child[n].left)
    ELSE EraseTwoChildren(t, n)

\* What an erased node still holds is of no use to anyone, and is dropped.
Forget(t, n) == [t EXCEPT !.child[n] = NoChildren, !.parent[n] = NULL, !.color[n] = "red"]

Erase(n) ==
    /\ op = "idle" /\ n \in InTree
    /\ LET r == erase_augmented(tree, n)
       IN  /\ tree' = Forget(r.tree, n)
           /\ parent' = r.rebalance
           /\ op' = IF r.rebalance = NULL THEN "idle" ELSE "erase"
    /\ node' = NULL

\* A loop that came to a NULL parent would crash: it takes no step.
Deficient == op = "erase" /\ parent # NULL
side == Side(tree, parent, node)

\* Case 1: a red sibling is rotated above the parent; its inner child, which
\* must exist, is the new sibling.
EraseCase1 ==
    LET sibling == tree.child[parent][Other(side)]
        inner == tree.child[sibling][side]
    IN  IF Red(tree, sibling)
        THEN [tree |-> rotate_set_parents(
                         rb_set_parent_color(Turn(tree, parent, sibling, Other(side)), inner, parent, "black"),
                         parent, sibling, "red"),
              sibling |-> inner]
        ELSE [tree |-> tree, sibling |-> sibling]

BothBlack(t, sibling) == \A s \in Sides : ~RedNode(t, t.child[sibling][s])

\* Case 2: the sibling becomes red; a red parent becomes black and all is done,
\* a black one is where the loop goes on, up to the root.
GoesOn_PastRoot(t) == ~Red(t, parent)
GoesOn_AnyColor(t) == t.parent[parent] # NULL
GoesOn(t) == ~Red(t, parent) /\ t.parent[parent] # NULL

EraseFlip ==
    /\ Deficient
    /\ LET c == EraseCase1
           t == rb_set_parent_color(c.tree, c.sibling, parent, "red")
       IN  /\ BothBlack(c.tree, c.sibling)
           /\ IF GoesOn(t)
              THEN tree' = t /\ node' = parent /\ parent' = t.parent[parent] /\ UNCHANGED op
              ELSE Done([t EXCEPT !.color[parent] = "black"])

\* Case 3: the red inner child of the sibling is rotated above it.  The sibling
\* keeps its parent and colour, case 4 sets them.
EraseCase3(t, sibling, s) ==
    LET inner == t.child[sibling][s]
        tmp == t.child[inner][Other(s)]
    IN  SetBlackIfAny([Turn(t, sibling, inner, s) EXCEPT !.child[parent][Other(s)] = inner], tmp, sibling)

\* Case 4: the sibling is rotated above the parent, takes its colour, and has
\* two black children.
EraseCase4(t, sibling, outer, s) ==
    LET tmp == t.child[sibling][s]
        t1 == rb_set_parent_color(Turn(t, parent, sibling, Other(s)), outer, sibling, "black")
        t2 == IF tmp = NULL THEN t1 ELSE rb_set_parent(t1, tmp, parent)
    IN  rotate_set_parents(t2, parent, sibling, "black")

EraseRotate ==
    /\ Deficient
    /\ LET c == EraseCase1
           outer == c.tree.child[c.sibling][Other(side)]
           inner == c.tree.child[c.sibling][side]
       IN  /\ ~BothBlack(c.tree, c.sibling)
           /\ IF RedNode(c.tree, outer)
              THEN Done(EraseCase4(c.tree, c.sibling, outer, side))
              ELSE Done(EraseCase4(EraseCase3(c.tree, c.sibling, side), inner, c.sibling, side))

-----------------------------------------------------------------------------
Rebalance ==
    \/ InsertAtRoot \/ InsertBelowBlack \/ InsertFlip \/ InsertRotate
    \/ EraseFlip \/ EraseRotate

Next == Rebalance \/ \E n \in Nodes : Insert(n) \/ Erase(n)

Spec == Init /\ [][Next]_vars
=============================================================================
