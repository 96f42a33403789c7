--------------------------- MODULE ListProperties ---------------------------
(***************************************************************************)
(* What makes lib/list correct.                                            *)
(***************************************************************************)
EXTENDS List

Loops == {Idle} \cup [on : {TRUE}, head : Heads, direction : Directions, safe : BOOLEAN,
                      pos : Nodes, n : Nodes, adds : 0..MaxAdds]

\* The type of every variable.
TypeOK ==
    /\ next \in [Nodes -> Nodes] /\ prev \in [Nodes -> Nodes]
    /\ loop \in Loops
    /\ met \subseteq Entries /\ stayed \subseteq Entries

\* Every node lies between its two neighbours: what "prev->next = new" and
\* "next->prev = new" write at four places stays consistent, also around an
\* entry that is in no list.
Rings == \A x \in Nodes : next[prev[x]] = x /\ prev[next[x]] = x

\* The entries of h in the order of the loops.
Walk(h) ==
    LET Upto[k \in 0..Cardinality(Entries)] ==
            IF k = 0 THEN <<>>
            ELSE LET way == Upto[k - 1]
                     last == IF way = <<>> THEN h ELSE way[Len(way)]
                 IN  IF next[last] = h THEN way ELSE Append(way, next[last])
    IN  Upto[Cardinality(Entries)]

\* A loop ends only when it has met every entry that was in the list all along,
\* whatever its body took out or added.
MeetsWhatStayed == loop.on /\ loop.pos = loop.head => stayed \subseteq met

\* It meets no such entry twice.
MeetsOnce == loop.on /\ loop.pos # loop.head /\ loop.pos \in stayed => loop.pos \notin met

\* The place the loop goes to next is still in its list, so that the body may
\* release the entry it took out.
LoopStaysInList ==
    loop.on => {loop.pos, loop.n} \subseteq Members(loop.head) \cup {loop.head}

\* A loop ends, whatever its body takes out, unless it adds entries for ever.
LoopEnds == loop.on ~> ~loop.on

\* "Insert a new entry after the specified head. This is good for implementing
\* stacks", "before the specified head. This is useful for implementing queues"
\* (list.c:30, :43): the entry becomes the first or the last of the walk,
\* and list_is_first or list_is_last says so.
AddsAtItsEnd ==
    [][\A e \in Entries, h \in Heads :
         list_empty(e) =>
           /\ list_add(e, h) => Walk(h)' = <<e>> \o Walk(h) /\ list_is_first(e, h)'
           /\ list_add_tail(e, h) => Walk(h)' = Append(Walk(h), e) /\ list_is_last(e, h)']_vars

-----------------------------------------------------------------------------
\* The rings implement the sequences of ListOrder, which the workqueue and the
\* callbacks take them for.
Order == INSTANCE ListOrder WITH order <- [h \in Heads |-> Walk(h)]
ImplementsOrder == Order!Spec
=============================================================================
