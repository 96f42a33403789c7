------------------------------ MODULE MCRBTree ------------------------------
(***************************************************************************)
(* Callers that keep the number of trees small enough for TLC.             *)
(***************************************************************************)
EXTENDS RBTreeProperties

CONSTANTS
    Few,        \* nodes inserted and erased in any order, 1..k
    Erasable,   \* nodes erased from the higher trees
    Drained     \* nodes of the trees that a postorder loop takes down

\* Any calls on the few nodes.
AnyOrder == InTree \subseteq Few /\ \E n \in Few : Insert(n) \/ Erase(n)

\* Ascending insertion builds the higher trees with few nodes; then some are
\* erased.
Ascending == \E n \in Nodes : InTree = 1..(n - 1) /\ Insert(n)
EraseSome == \E n \in Erasable : Erase(n)

\* A loop takes down a tree of the drained nodes.
Drain == InTree \subseteq Drained /\ \E body \in Bodies : DrainBegin(body)

\* Between two calls, and after the last, the caller may stop.
Rest == op = "idle" /\ UNCHANGED drainVars

MCNext ==
    \/ Rebalance /\ UNCHANGED drain
    \/ ~drain.on /\ (AnyOrder \/ Ascending \/ EraseSome) /\ UNCHANGED drain
    \/ Drain \/ DrainStep \/ Rest

MCSpec == DrainInit /\ [][MCNext]_drainVars
=============================================================================
