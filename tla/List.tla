-------------------------------- MODULE List --------------------------------
(***************************************************************************)
(* The doubly linked rings of lib/list, with one loop of the family        *)
(* list_for_each running over one of them.  The library is not thread      *)
(* safe: its callers lock (the workqueue) or have one thread, so a         *)
(* function of list.c is one step, and so is a round of the loop with what *)
(* its body does to the list.                                              *)
(*                                                                         *)
(* Name_Fault is Name with a plausible mistake; see Workqueue.             *)
(***************************************************************************)
EXTENDS Integers, Sequences, FiniteSets

CONSTANTS
    Heads,          \* struct list_head objects that are heads of lists
    Entries,        \* those that are members of the callers' structures
    MaxAdds         \* bound: entries the body of one loop adds

ASSUME ListAssumption == Heads \cap Entries = {} /\ MaxAdds \in Nat
ASSUME FiniteAssumption == IsFiniteSet(Entries)

Nodes == Heads \cup Entries
Directions == {"next", "prev"}
Idle == [on |-> FALSE]

VARIABLES
    next, prev,     \* struct list_head
    loop,           \* Idle, or where the running loop is
    met, stayed     \* entries the loop has met, and those it began with and
                    \* nobody has taken out since

links == <<next, prev>>
vars == <<links, loop, met, stayed>>

Init ==
    /\ next = [x \in Nodes |-> x] /\ prev = [x \in Nodes |-> x]
    /\ loop = Idle /\ met = {} /\ stayed = {}

-----------------------------------------------------------------------------
(* list.c *)

list_empty(x) == next[x] = x
list_is_first(x, h) == prev[x] = h
list_is_last(x, h) == next[x] = h

\* __list_add
link_between(new, before, after) ==
    /\ next' = [next EXCEPT ![new] = after, ![before] = new]
    /\ prev' = [prev EXCEPT ![after] = new, ![new] = before]

list_add_AtTail(new, h) == link_between(new, prev[h], h)
list_add_AfterFirst(new, h) == link_between(new, next[h], next[next[h]])
list_add(new, h) == link_between(new, h, next[h])

list_add_tail(new, h) == link_between(new, prev[h], h)

\* The entry is a ring of its own again, so taking it out twice does no harm.
Unlinked_NoInit(link, e) == link
Unlinked(link, e) == [link EXCEPT ![e] = e]
list_del_init(e) ==
    /\ next' = Unlinked([next EXCEPT ![prev[e]] = next[e]], e)
    /\ prev' = Unlinked([prev EXCEPT ![next[e]] = prev[e]], e)

-----------------------------------------------------------------------------
(* What callers do: an entry is added only when it is in no list.          *)

Adds(e) == list_empty(e) /\ \E h \in Heads : list_add(e, h) \/ list_add_tail(e, h)

Call ==
    /\ ~loop.on
    /\ \E e \in Entries : Adds(e) \/ list_del_init(e)
    /\ UNCHANGED <<loop, met, stayed>>

-----------------------------------------------------------------------------
(* list.h: list_for_each_entry_safe and its kin, and, where safe is FALSE, *)
(* list_for_each_entry and its kin.                                        *)

Follow(direction, x) == IF direction = "next" THEN next[x] ELSE prev[x]

\* The entries on the way from x to h.
Members(h) ==
    LET Upto[k \in 0..Cardinality(Entries)] ==
            IF k = 0 THEN {} ELSE LET m == Upto[k - 1] IN m \cup ({next[x] : x \in m \cup {h}} \ {h})
    IN  Upto[Cardinality(Entries)]

LoopBegin(h, direction, safe) ==
    /\ ~loop.on
    /\ LET first == Follow(direction, h)
       IN  loop' = [on |-> TRUE, head |-> h, direction |-> direction, safe |-> safe,
                    pos |-> first, n |-> Follow(direction, first), adds |-> 0]
    /\ met' = {} /\ stayed' = Members(h)
    /\ UNCHANGED links

\* The body lets the list alone, takes out pos (of a safe loop), or adds k entries.
Body(k) ==
    \/ k = 0 /\ UNCHANGED <<links, stayed>>
    \/ k = 0 /\ loop.safe /\ list_del_init(loop.pos) /\ stayed' = stayed \ {loop.pos}
    \/ k = 1 /\ (\E e \in Entries \ {loop.pos} : Adds(e)) /\ UNCHANGED stayed

FollowAfter_Forward(direction, x) == next'[x]
FollowAfter(direction, x) == IF direction = "next" THEN next'[x] ELSE prev'[x]

\* pos = n, where n was read before the body ran.
Advanced_Unsafe == FollowAfter(loop.direction, loop.pos)
Advanced_Skips == FollowAfter(loop.direction, loop.n)
Advanced == IF loop.safe THEN loop.n ELSE FollowAfter(loop.direction, loop.pos)

LoopRound ==
    /\ loop.on /\ loop.pos # loop.head
    /\ \E k \in {0, 1} :
         /\ loop.adds + k <= MaxAdds
         /\ Body(k)
         /\ loop' = [loop EXCEPT !.pos = Advanced, !.n = FollowAfter(loop.direction, Advanced),
                                 !.adds = @ + k]
    /\ met' = met \cup {loop.pos}

LoopEnd ==
    /\ loop.on /\ loop.pos = loop.head
    /\ loop' = Idle /\ met' = {} /\ stayed' = {}
    /\ UNCHANGED links

-----------------------------------------------------------------------------
Next ==
    \/ Call \/ LoopRound \/ LoopEnd
    \/ \E h \in Heads, direction \in Directions, safe \in BOOLEAN : LoopBegin(h, direction, safe)

\* A loop that runs goes on.
SafeSpec == Init /\ [][Next]_vars
Spec == SafeSpec /\ WF_vars(LoopRound \/ LoopEnd)
=============================================================================
