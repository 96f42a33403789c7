------------------------- MODULE TwoQueuesProperties -------------------------
(***************************************************************************)
(* What makes a work that moves between workqueues safe.                   *)
(***************************************************************************)
EXTENDS TwoQueues

Lists == INSTANCE ListProperties WITH
    Heads <- Queues, Entries <- Works, MaxAdds <- 0,
    loop <- [on |-> FALSE], met <- {}, stayed <- {}

InHands(w) == {k \in Workers : work[k] = w}

\* The rings stay rings, and a work is in the list of one queue or in the hands
\* of one worker of one queue, though no lock is common to the two queues.
OnePlace ==
    /\ Lists!Rings
    /\ \A w \in Works :
         Cardinality({q \in Queues : w \in Ring!Members(q)}) + Cardinality(InHands(w)) <= 1

-----------------------------------------------------------------------------
\* Each queue for itself is a pool: a work another queue has in its list or runs
\* neither enters it nor leaves it.
Pool(q) == INSTANCE WorkPool WITH
    queue <- Lists!Walk(q),
    running <- {w \in Works : \E k \in InHands(w) : Home[k] = q},
    phase <- phase[q]

ImplementsPools ==
    /\ \A q \in Queues : Pool(q)!Init
    /\ [][\A q \in Queues : Pool(q)!Next \/ UNCHANGED Pool(q)!vars]_vars
=============================================================================
