------------------------------ MODULE WorkPool ------------------------------
(***************************************************************************)
(* What lib/workqueue promises to its callers, without threads, locks,     *)
(* counters or condition variables.  A work is submitted to a FIFO queue,  *)
(* taken from its head, run once and finished; while the pool is closing   *)
(* nothing new is accepted, and the pool is down only after everything     *)
(* that was accepted has been run.                                         *)
(*                                                                         *)
(* Workqueue.tla is shown to implement this module.                        *)
(***************************************************************************)
EXTENDS Sequences

CONSTANT Works            \* the struct work_struct objects of the callers

VARIABLES
    queue,                \* works accepted and not yet started, oldest first
    running,              \* works whose function has started and not finished
    phase                 \* "off" -> "open" -> "closing" -> "down"

vars == <<queue, running, phase>>

Queued == {queue[i] : i \in DOMAIN queue}

TypeOK ==
    /\ queue \in Seq(Works)
    /\ running \subseteq Works
    /\ phase \in {"off", "open", "closing", "down"}

Init ==
    /\ queue = <<>>
    /\ running = {}
    /\ phase = "off"

Open ==
    /\ phase = "off"
    /\ phase' = "open"
    /\ UNCHANGED <<queue, running>>

\* A work can be accepted again only after its previous run has finished.
Submit(w) ==
    /\ phase = "open"
    /\ w \notin Queued \cup running
    /\ queue' = Append(queue, w)
    /\ UNCHANGED <<running, phase>>

Begin ==
    /\ queue # <<>>
    /\ running' = running \cup {Head(queue)}
    /\ queue' = Tail(queue)
    /\ UNCHANGED phase

Finish(w) ==
    /\ w \in running
    /\ running' = running \ {w}
    /\ UNCHANGED <<queue, phase>>

Close ==
    /\ phase = "open"
    /\ phase' = "closing"
    /\ UNCHANGED <<queue, running>>

GoDown ==
    /\ phase = "closing"
    /\ queue = <<>>
    /\ running = {}
    /\ phase' = "down"
    /\ UNCHANGED <<queue, running>>

Next ==
    \/ Open \/ Close \/ GoDown \/ Begin
    \/ \E w \in Works : Submit(w) \/ Finish(w)

Fairness ==
    /\ WF_vars(Begin)
    /\ WF_vars(GoDown)
    /\ \A w \in Works : WF_vars(Finish(w))

SafeSpec == Init /\ [][Next]_vars
Spec == SafeSpec /\ Fairness
=============================================================================
