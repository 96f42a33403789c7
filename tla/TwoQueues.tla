------------------------------ MODULE TwoQueues ------------------------------
(***************************************************************************)
(* Works that are queued on more than one workqueue: queue_work of         *)
(* lib/workqueue in the steps that a thread without its lock can tell      *)
(* apart, on the rings of lib/list that are the work lists.  A work is     *)
(* guarded by the lock of the workqueue it is queued on, so by a different *)
(* one from time to time, and its work->wq is cleared with no lock at all. *)
(* list_add_tail and list_del_init are one step each: their writes go to   *)
(* one ring and to a work that is in no other, under the lock of the ring, *)
(* and nobody reads links without it.                                      *)
(*                                                                         *)
(* The callers keep to the rule of README.md that they handle races: no    *)
(* two of them are inside queue_work for the same work.  Sleeping,         *)
(* signalling and the size of the pool are those of Workqueue, and left    *)
(* out: a worker takes a work when it finds one.                           *)
(*                                                                         *)
(* Name_Fault is Name with a plausible mistake; see Workqueue.             *)
(***************************************************************************)
EXTENDS Integers, FiniteSets

CONSTANTS
    Queues, Works,
    Callers,        \* threads that call queue_work
    Workers,        \* worker threads of all queues
    Home,           \* Home[k]: the queue whose worker k is
    NULL,           \* no queue, no work, no thread
    MaxCalls        \* bound: calls of queue_work

ASSUME TwoQueuesAssumption ==
    /\ Queues \cap Works = {} /\ Callers \cap Workers = {}
    /\ IsFiniteSet(Works)
    /\ Home \in [Workers -> Queues]
    /\ NULL \notin Queues \cup Works \cup Callers \cup Workers
    /\ MaxCalls \in Nat

VARIABLES
    next, prev,     \* the list_heads of wq->work_list and work->entry
    wq,             \* work->wq
    phase,          \* of each queue: "off", "open" (alive is set), "closing"
    lock,           \* the thread that holds wq->lock
    pc,             \* where each thread is
    queue, work,    \* what a call or a worker is about
    calls           \* how much of MaxCalls is used

links == <<next, prev>>
args == <<queue, work>>
vars == <<links, wq, phase, lock, pc, args, calls>>

Ring == INSTANCE List WITH
    Heads <- Queues, Entries <- Works, MaxAdds <- 0,
    loop <- [on |-> FALSE], met <- {}, stayed <- {}

Init ==
    /\ next = [x \in Queues \cup Works |-> x] /\ prev = [x \in Queues \cup Works |-> x]
    /\ wq = [w \in Works |-> NULL]
    /\ phase = [q \in Queues |-> "off"]
    /\ lock = [q \in Queues |-> NULL]
    /\ pc = [t \in Callers \cup Workers |-> "out"]
    /\ queue = [c \in Callers |-> NULL]
    /\ work = [t \in Callers \cup Workers |-> NULL]
    /\ calls = 0

Goto(t, from, to) == pc[t] = from /\ pc' = [pc EXCEPT ![t] = to]

-----------------------------------------------------------------------------
(* queue_work                                                              *)

\* No other caller is inside queue_work for this work.
Serial(c, w) == \A d \in Callers \ {c} : work[d] # w

Enter(c, q, w) ==
    /\ phase[q] # "off" /\ Serial(c, w)
    /\ calls < MaxCalls /\ calls' = calls + 1
    /\ Goto(c, "out", "test")
    /\ lock[q] = NULL /\ lock' = [lock EXCEPT ![q] = c]
    /\ queue' = [queue EXCEPT ![c] = q] /\ work' = [work EXCEPT ![c] = w]
    /\ UNCHANGED <<links, wq, phase>>

Accepted_Unchecked(q, w) == phase[q] = "open"
Accepted(q, w) == wq[w] = NULL /\ phase[q] = "open"

Test(c) ==
    /\ Goto(c, "test", IF Accepted(queue[c], work[c]) THEN "link" ELSE "unlock")
    /\ UNCHANGED <<links, wq, phase, lock, args, calls>>

Link(c) ==
    /\ Goto(c, "link", "set")
    /\ Ring!list_add_tail(work[c], queue[c])
    /\ UNCHANGED <<wq, phase, lock, args, calls>>

SetWq(c) ==
    /\ Goto(c, "set", "unlock")
    /\ wq' = [wq EXCEPT ![work[c]] = queue[c]]
    /\ UNCHANGED <<links, phase, lock, args, calls>>

Unlock(c) ==
    /\ Goto(c, "unlock", "out")
    /\ lock' = [lock EXCEPT ![queue[c]] = NULL]
    /\ queue' = [queue EXCEPT ![c] = NULL] /\ work' = [work EXCEPT ![c] = NULL]
    /\ UNCHANGED <<links, wq, phase, calls>>

QueueWork(c) == Test(c) \/ Link(c) \/ SetWq(c) \/ Unlock(c)

-----------------------------------------------------------------------------
(* process_one_work                                                        *)

KeepsWq_Clears(w) == wq' = [wq EXCEPT ![w] = NULL]
KeepsWq(w) == UNCHANGED wq

\* With the lock held: the first entry is deleted, then the lock is given back.
Take(k) ==
    LET q == Home[k]
        first == next[q]
    IN  /\ Goto(k, "out", "func")
        /\ lock[q] = NULL /\ ~Ring!list_empty(q)
        /\ Ring!list_del_init(first)
        /\ work' = [work EXCEPT ![k] = first]
        /\ KeepsWq(first)
        /\ UNCHANGED <<phase, lock, queue, calls>>

\* The function has returned; work->wq is cleared without the lock.
Finish(k) ==
    /\ Goto(k, "func", "out")
    /\ wq' = [wq EXCEPT ![work[k]] = NULL]
    /\ work' = [work EXCEPT ![k] = NULL]
    /\ UNCHANGED <<links, phase, lock, queue, calls>>

-----------------------------------------------------------------------------
(* init_workqueue, and destroy_workqueue as far as alive.                  *)

ToPhase(q, from, to) ==
    /\ phase[q] = from /\ phase' = [phase EXCEPT ![q] = to]
    /\ UNCHANGED <<links, wq, lock, pc, args, calls>>

init_workqueue(q) == ToPhase(q, "off", "open")
destroy_workqueue(q) == lock[q] = NULL /\ ToPhase(q, "open", "closing")

-----------------------------------------------------------------------------
\* Nothing is left to do.
Rest == calls = MaxCalls /\ (\A t \in Callers \cup Workers : pc[t] = "out") /\ UNCHANGED vars

Next ==
    \/ \E c \in Callers : QueueWork(c) \/ \E q \in Queues, w \in Works : Enter(c, q, w)
    \/ \E k \in Workers : Take(k) \/ Finish(k)
    \/ \E q \in Queues : init_workqueue(q) \/ destroy_workqueue(q)
    \/ Rest

Spec == Init /\ [][Next]_vars
=============================================================================
