------------------------------- MODULE RBDrain -------------------------------
(***************************************************************************)
(* A tree of lib/rbtree taken down by rbtree_postorder_for_each_entry_safe *)
(* (rbtree.h).  The body of the loop releases the memory of pos and leaves *)
(* the tree alone, which the macro is made for, or erases pos, as the test *)
(* of the library does and the comment of the macro forbids.               *)
(*                                                                         *)
(* Name_Fault is Name with a plausible mistake; see Workqueue.             *)
(***************************************************************************)
EXTENDS RBTree

VARIABLE drain      \* NoDrain, or where the running loop is

drainVars == <<vars, drain>>

Bodies == {"release", "erase"}
NoDrain == [on |-> FALSE]

DrainInit == Init /\ drain = NoDrain

\* rb_entry_safe: past the last node there is none.
After(t, n) == IF n = NULL THEN NULL ELSE rb_next_postorder(t, n)

DrainBegin(body) ==
    /\ op = "idle" /\ ~drain.on
    /\ LET first == rb_first_postorder(tree)
       IN  drain' = [on |-> TRUE, body |-> body, ran |-> FALSE, pos |-> first,
                     n |-> After(tree, first), began |-> InTree, met |-> {}]
    /\ UNCHANGED vars

\* The body runs for pos; an erasure may go on with rounds of its own.
DrainBody ==
    /\ op = "idle" /\ drain.on /\ ~drain.ran /\ drain.pos # NULL
    /\ drain' = [drain EXCEPT !.ran = TRUE, !.met = @ \cup {drain.pos}]
    /\ IF drain.body = "erase" THEN Erase(drain.pos) ELSE UNCHANGED vars

\* pos = n, and the next n is read before the body runs again.
DrainRound ==
    /\ op = "idle" /\ drain.on /\ drain.ran
    /\ drain' = [drain EXCEPT !.ran = FALSE, !.pos = drain.n, !.n = After(tree, drain.n)]
    /\ UNCHANGED vars

\* A tree whose nodes are released is not used again, one whose nodes were
\* erased may be.
DrainEnd ==
    /\ drain.on /\ drain.pos = NULL /\ drain.body = "erase"
    /\ drain' = NoDrain
    /\ UNCHANGED vars

DrainStep == DrainBody \/ DrainRound \/ DrainEnd

DrainNext ==
    \/ Rebalance /\ UNCHANGED drain
    \/ (\E n \in Nodes : Insert(n) \/ Erase(n)) /\ ~drain.on /\ UNCHANGED drain
    \/ DrainStep \/ \E body \in Bodies : DrainBegin(body)

DrainSpec == DrainInit /\ [][DrainNext]_drainVars
=============================================================================
