------------------------- MODULE WorkqueueProperties -------------------------
(***************************************************************************)
(* What makes lib/workqueue correct: invariants, step properties, liveness *)
(* and the implementation of WorkPool.                                     *)
(***************************************************************************)
EXTENDS Workqueue

-----------------------------------------------------------------------------
(* Invariants.                                                             *)

\* The type of every variable.
TypeOK ==
    /\ alive \in BOOLEAN
    /\ nr_worker \in Nat /\ ref_count \in Nat /\ nr_idle_worker \in Nat
    /\ work_list \in Seq(Works)
    /\ lock \in Clients \cup Threads \cup {Free}
    /\ live \subseteq {"lock", "cond"}
    /\ on_wq \in [Works -> BOOLEAN]
    /\ pc \in [Threads -> Locations]
    /\ curr \in [Threads -> Works \cup {NoWork}]
    /\ flushing \in [Clients \cup Threads -> Works \cup {NoWork}]
    /\ linking \in Works \cup {NoWork}
    /\ owner \in OwnerLocations
    /\ created \in 0..NProcs
    /\ calls \in 0..MaxCalls /\ spurious \in 0..MaxSpurious

\* The three counters are exact at every step, for a reader that holds the lock
\* and for the owner that polls without it: nr_worker counts the workers that
\* started and did not decide to leave, ref_count those "plus # of workers to
\* be created" (workqueue.h:26), nr_idle_worker the sleepers, signalled ones
\* included, which is why destroy_workqueue finds it 0 (workqueue.c:210).
CountersExact ==
    /\ nr_worker = Cardinality(At(Counted))
    /\ ref_count = Cardinality(At(Referenced))
    /\ nr_idle_worker = Cardinality(At(Idle))

\* No more than nr_max_worker threads of the pool exist at a time, the one that
\* has left ref_count and still holds the lock included.
ThreadsBounded == Cardinality(At(Living)) <= nr_max_worker

\* Releasing surplus idle workers (workqueue.c:81) never takes the pool below
\* the workers init_workqueue created, so a live workqueue is never without one.
Staff == Counted \cup {"start"}
PoolFloor == owner = "ready" => Cardinality(At(Staff)) >= NProcs

\* init_workqueue increments ref_count without the lock while earlier workers
\* run; none of them changes it meanwhile, so no increment is lost.
InitOwnsRefCount == owner = "init" => ref_count = created

\* Critical sections exclude each other: those of worker_thread, and the one of
\* queue_work, which a work function may be inside of.
LockHeld ==
    /\ \A t \in Threads : pc[t] \in Holding <=> lock = t /\ linking = NoWork
    /\ linking = NoWork => lock \notin Clients
    /\ linking # NoWork => lock \in Clients \cup At({"func"})

\* The works in the list whose work->wq is set: all of them, but for the one
\* that a queue_work which has not returned is just linking.
Waiting == Listed \ {linking}

\* work->wq is set exactly while the work is in the list, once, or in the hands
\* of one worker: no work is lost, queued twice or run by two workers at once.
WorkOnce ==
    /\ \A i, j \in DOMAIN work_list : work_list[i] = work_list[j] => i = j
    /\ \A t, u \in Threads : curr[t] # NoWork /\ curr[t] = curr[u] => t = u
    /\ Listed \cap Processed = {}
    /\ \A w \in Works : on_wq[w] <=> w \in Waiting \cup Processed

\* Once queue_work has returned, and while its work waits in the list, some
\* worker is awake and will look at the list again: the signal of queue_work, skipped when nr_idle_worker is 0 and lost
\* when all idle workers are signalled already, is never the missing one.
Awake == {"start", "wake_up", "loop", "func", "relock", "woken"}
NoLostWakeup == Waiting # {} => At(Awake) # {}

\* The mutex is not destroyed while a worker may still lock or unlock it:
\* "Make sure the last worker thread exited" (workqueue.c:136).  Where
\* destroy_workqueue destroys it, it destroys the condition too (:213).
LockOutlivesWorkers == At(Living) # {} => "lock" \in live

\* The condition is not destroyed while a worker may still wait on it, or be
\* signalled through it: "Make sure there is no worker threads alive"
\* (workqueue.c:132).
CondOutlivesWorkers == At(Living) # {} => "cond" \in live

\* "Destroy the workqueue after all works done and wokers exited"
\* (workqueue.c:198), with nr_idle_worker 0 at the WARN_ON.
DestroyedMeansDone ==
    owner = "destroyed" =>
        /\ \A w \in Works : ~on_wq[w]
        /\ work_list = <<>>
        /\ At(Living) = {}
        /\ nr_idle_worker = 0

-----------------------------------------------------------------------------
(* The inductive invariant behind the invariants above.                    *)

\* A worker has a work in its hands exactly while it runs the function.
CurrMatches == \A t \in Threads : pc[t] = "func" <=> curr[t] # NoWork

\* What the owner's location says of alive and of the two objects.
OwnerMatches ==
    /\ owner \in {"init", "ready"} \cup UndoLocations => alive
    /\ owner \in CloseLocations \cup {"start", "destroyed"} => ~alive
    /\ owner \notin {"start", "failed", "destroyed"} => "lock" \in live
    /\ owner \in {"init", "ready"} \cup CloseLocations => "cond" \in live
    /\ owner \in UndoLocations => InitMayFail
    /\ owner = "start" => created = 0

\* Before the workqueue is ready no work exists; once destroy_workqueue has
\* seen the list empty it stays so.  A work that is just being linked is in the
\* list, and the workqueue is alive.
ListMatches ==
    /\ linking # NoWork => owner = "ready" /\ linking \in Listed
    /\ owner \in {"start", "init", "failed"} \cup UndoLocations =>
           work_list = <<>> /\ At({"func", "relock"}) = {}
    /\ owner \in (CloseLocations \ {"close_poll"}) \cup {"destroyed"} => work_list = <<>>

\* No worker leaves before init_workqueue is done; none is referenced once the
\* owner has seen ref_count 0; none lives once it has passed through the lock.
WorkersMatch ==
    /\ owner \in {"start", "init"} \cup UndoLocations => At({"exit_ref", "exit_unlock"}) = {}
    /\ owner \in {"undo_lock", "close_lock"} => At(Referenced) = {}
    /\ owner \in {"start", "undo_free", "close_free", "failed", "destroyed"} => At(Living) = {}

\* While nobody leaves, no more than NProcs workers were ever created.
UndoBounded == owner \in UndoLocations => ref_count <= NProcs

IInv ==
    /\ TypeOK /\ CountersExact /\ LockHeld /\ CurrMatches /\ WorkOnce
    /\ OwnerMatches /\ ListMatches /\ WorkersMatch
    /\ InitOwnsRefCount /\ UndoBounded
    /\ ThreadsBounded /\ PoolFloor /\ NoLostWakeup

-----------------------------------------------------------------------------
(* Step properties.                                                        *)

\* "Wait until the given work is finished." (workqueue.c:123): when flush_work
\* returns, no worker runs the work and no call of queue_work that has returned
\* left it in the list.  Only a call of another thread that is still between
\* list_add_tail and work->wq = wq (workqueue.c:112) may have put it there:
\* flush_work then returns as if it came before that call.
FlushMeansFinished ==
    [][\A c \in Clients \cup Threads :
         flushing[c] # NoWork /\ flushing'[c] = NoWork
             => /\ flushing[c] \notin Processed'
                /\ flushing[c] \in Listed' => linking' = flushing[c]]_vars

-----------------------------------------------------------------------------
(* Liveness.                                                               *)

\* Every work that was queued is run and its work->wq cleared.
QueuedWorkIsDone == \A w \in Works : on_wq[w] ~> ~on_wq[w]

\* "Wait until the given work is finished." (workqueue.c:123): flush_work
\* returns.
FlushReturns == \A c \in Clients \cup Threads : flushing[c] # NoWork ~> flushing[c] = NoWork

\* destroy_workqueue returns.
DestroyReturns == owner = "close_poll" ~> owner = "destroyed"

\* init_workqueue returns, with 0 or with -1.
InitReturns == owner = "init" ~> owner \notin {"init"} \cup UndoLocations

\* "Create more workers when there are too many works" (workqueue.c:22): works
\* that wait while nobody is idle and the pool may still grow do not wait for ever.
TooManyWorks == work_list # <<>> /\ nr_idle_worker = 0 /\ ref_count < nr_max_worker
PoolGrows == TooManyWorks ~> ~TooManyWorks

-----------------------------------------------------------------------------
(* The workqueue implements the abstract pool.                             *)

Phase ==
    CASE owner = "ready" -> "open"
      [] owner \in CloseLocations -> "closing"
      [] owner = "destroyed" -> "down"
      [] OTHER -> "off"

Pool == INSTANCE WorkPool WITH
    queue <- work_list, running <- Processed, phase <- Phase

\* Every step is a step of the pool or none: works are run in the order in
\* which they were queued, once each, none is accepted after destroy_workqueue
\* began, and the pool goes down when all of them are finished.
ImplementsPoolSafely == Pool!SafeSpec

\* ... and nothing the pool promises to do is left undone.
ImplementsPool == Pool!Spec
=============================================================================
