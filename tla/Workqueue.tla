----------------------------- MODULE Workqueue ------------------------------
(***************************************************************************)
(* The thread pool of lib/workqueue (workqueue.c, workqueue.h): worker     *)
(* threads that sleep on a condition variable and drain a list of works,   *)
(* callers of queue_work and flush_work, work functions that make the same *)
(* calls, and the owner thread of init_workqueue and destroy_workqueue.    *)
(*                                                                         *)
(* A step is one critical section of wq->lock, cut where another thread    *)
(* can observe its middle without the lock: the owner polls nr_worker,     *)
(* ref_count and work_list, and flush_work polls work->wq, unlocked, so    *)
(* queue_work is cut between list_add_tail and work->wq = wq.              *)
(*                                                                         *)
(* A definition named after another one with a suffix (Name_Fault) is the  *)
(* same code with a plausible mistake in it.  No other definition uses it; *)
(* it shows which property notices that mistake.                           *)
(***************************************************************************)
EXTENDS Integers, Sequences, FiniteSets

CONSTANTS
    Works,          \* the struct work_struct objects
    Clients,        \* threads that call queue_work and flush_work
    Threads,        \* threads the process can still start, each used once:
                    \* workers are never joined or detached, so never reused
    Free, NoWork,   \* "no thread" and "no work"
    NProcs,         \* get_nprocs()
    MULTIPLE_CPUS,  \* nr_max_worker per processor
    FuncFlushes,    \* <<w, v>>: the function of w may call flush_work(v)
    FlushReloads,   \* flush_work reads work->wq again in every iteration (gcc
                    \* without optimisation, as when no build type is given);
                    \* gcc -O3 (RELEASE) reads it once and then loops forever
    InitMayFail,    \* pthread_create may fail inside init_workqueue
    MaxCalls,       \* bound: calls of queue_work
    MaxSpurious     \* bound: wakeups of pthread_cond_wait without a signal

ASSUME ConstantsAssumption ==
    /\ NoWork \notin Works
    /\ Free \notin Clients \cup Threads
    /\ Clients \cap Threads = {}
    /\ IsFiniteSet(Threads)
    /\ NProcs \in Nat \ {0}
    /\ MULTIPLE_CPUS \in Nat \ {0}
    /\ FuncFlushes \subseteq Works \X Works
    /\ {FlushReloads, InitMayFail} \subseteq BOOLEAN
    /\ MaxCalls \in Nat
    /\ MaxSpurious \in Nat

VARIABLES
    alive, nr_worker, ref_count, nr_idle_worker, work_list,  \* struct workqueue
    lock,           \* the thread that holds wq->lock, or Free
    live,           \* which of {"lock", "cond"} are initialised
    on_wq,          \* on_wq[w]: work->wq is not NULL
    pc,             \* where each worker thread is
    curr,           \* the work a worker is processing
    flushing,       \* the work a thread is waiting for in flush_work
    linking,        \* the work the holder of the lock, in queue_work, has put
                    \* into the list without having set work->wq, or NoWork
    owner,          \* where the thread of init and destroy is
    created,        \* i of the loop at workqueue.c:175
    calls, spurious \* how much of MaxCalls and MaxSpurious is used

counters == <<nr_worker, ref_count, nr_idle_worker>>
works == <<work_list, on_wq, curr, flushing, linking>>
lifecycle == <<alive, live, owner, created>>
bounds == <<calls, spurious>>
vars == <<counters, works, lifecycle, bounds, lock, pc>>

nr_max_worker == NProcs * MULTIPLE_CPUS
nr_max_idle_worker_OneLess == NProcs - 1
nr_max_idle_worker == NProcs

\* Worker locations.  "start": created, not yet in worker_thread's lock;
\* "wake_up", "loop": the label and the while test; "func": in work->func;
\* "relock": work->wq cleared, about to lock; "wait": in pthread_cond_wait;
\* "woken": signalled, about to lock; "exit_ref", "exit_unlock": counted out
\* of nr_worker, then out of ref_count, the lock still held.
Holding == {"wake_up", "loop", "exit_ref", "exit_unlock"}
Idle == {"wake_up", "wait", "woken"}
Counted == Idle \cup {"loop", "func", "relock"}
Referenced == Counted \cup {"start", "exit_ref"}
Living == Referenced \cup {"exit_unlock"}
Locations == Living \cup {"unborn", "exited"}

At(L) == {t \in Threads : pc[t] \in L}
Listed == {work_list[i] : i \in DOMAIN work_list}
Processed == {curr[t] : t \in Threads} \ {NoWork}

UndoLocations == {"undo_poll", "undo_cond", "undo_wait", "undo_lock", "undo_free"}
CloseLocations == {"close_poll", "close_nr", "close_wait", "close_lock", "close_free"}
OwnerLocations == {"start", "init", "ready", "failed", "destroyed"}
                  \cup UndoLocations \cup CloseLocations

Init ==
    /\ alive = FALSE /\ work_list = <<>> /\ lock = Free /\ live = {}
    /\ nr_worker = 0 /\ ref_count = 0 /\ nr_idle_worker = 0
    /\ on_wq = [w \in Works |-> FALSE]
    /\ pc = [t \in Threads |-> "unborn"]
    /\ curr = [t \in Threads |-> NoWork]
    /\ flushing = [c \in Clients \cup Threads |-> NoWork]
    /\ linking = NoWork
    /\ owner = "start" /\ created = 0
    /\ calls = 0 /\ spurious = 0

-----------------------------------------------------------------------------
(* Worker threads.                                                         *)

Goto(t, from, to) == pc[t] = from /\ pc' = [pc EXCEPT ![t] = to]
Acquire(t) == lock = Free /\ lock' = t
Release == lock' = Free

CountIdle_Missing == UNCHANGED nr_idle_worker
CountIdle == nr_idle_worker' = nr_idle_worker + 1

\* pthread_cond_signal: one of the waiting threads, if there is any, goes on.
Signal ==
    \/ At({"wait"}) = {} /\ UNCHANGED pc
    \/ \E t \in Threads : Goto(t, "wait", "woken")

Start(t) ==
    /\ Goto(t, "start", "wake_up") /\ Acquire(t)
    /\ CountIdle /\ nr_worker' = nr_worker + 1
    /\ UNCHANGED <<ref_count, works>>

WakeUp(t) ==
    /\ Goto(t, "wake_up", "loop")
    /\ nr_idle_worker' = nr_idle_worker - 1
    /\ UNCHANGED <<nr_worker, ref_count, works, lock>>

KeepsOnWq_ClearsEarly(w) == on_wq' = [on_wq EXCEPT ![w] = FALSE]
KeepsOnWq(w) == UNCHANGED on_wq

\* list_del_init of the first entry, then unlock and call work->func.
TakeWork(t) ==
    /\ Goto(t, "loop", "func") /\ Release
    /\ work_list # <<>>
    /\ work_list' = Tail(work_list)
    /\ curr' = [curr EXCEPT ![t] = Head(work_list)]
    /\ KeepsOnWq(Head(work_list))
    /\ UNCHANGED <<counters, flushing, linking>>

\* work->func returns and work->wq is cleared, without the lock.
FuncReturn(t) ==
    /\ Goto(t, "func", "relock")
    /\ flushing[t] = NoWork /\ lock # t
    /\ on_wq' = [on_wq EXCEPT ![curr[t]] = FALSE]
    /\ curr' = [curr EXCEPT ![t] = NoWork]
    /\ UNCHANGED <<counters, work_list, flushing, linking, lock>>

BelowMax_Unbounded == TRUE
BelowMax == ref_count < nr_max_worker
MaySpawn == alive /\ work_list # <<>> /\ nr_idle_worker = 0 /\ BelowMax

\* Lock again and, when nobody is idle, start one more worker.  Where the
\* code tries, pthread_create may still fail and ref_count stays as it was.
Relock(t) ==
    /\ Acquire(t)
    /\ \/ Goto(t, "relock", "loop") /\ UNCHANGED ref_count
       \/ /\ pc[t] = "relock" /\ MaySpawn
          /\ ref_count' = ref_count + 1
          /\ \E u \in At({"unborn"}) : pc' = [pc EXCEPT ![t] = "loop", ![u] = "start"]
    /\ UNCHANGED <<nr_worker, nr_idle_worker, works>>

SeesNoWork == work_list = <<>>
Surplus == nr_idle_worker + 1 > nr_max_idle_worker

\* The workqueue is dead, or there would be one idle worker too many (then
\* nr_idle_worker goes up and down again).
Leave(t) ==
    /\ Goto(t, "loop", "exit_ref")
    /\ SeesNoWork /\ (~alive \/ Surplus)
    /\ nr_worker' = nr_worker - 1
    /\ UNCHANGED <<ref_count, nr_idle_worker, works, lock>>

DropRef(t) ==
    /\ Goto(t, "exit_ref", "exit_unlock")
    /\ ref_count' = ref_count - 1
    /\ UNCHANGED <<nr_worker, nr_idle_worker, works, lock>>

Exit(t) == Goto(t, "exit_unlock", "exited") /\ Release /\ UNCHANGED <<counters, works>>

\* pthread_cond_wait releases the lock and starts waiting in one step.
Sleep(t) ==
    /\ Goto(t, "loop", "wait") /\ Release
    /\ SeesNoWork /\ alive /\ ~Surplus
    /\ CountIdle
    /\ UNCHANGED <<nr_worker, ref_count, works>>

\* pthread_cond_wait takes the lock again before it returns.
Resume(t) == Goto(t, "woken", "wake_up") /\ Acquire(t) /\ UNCHANGED <<counters, works>>

WorkerStep(t) ==
    /\ \/ Start(t) \/ WakeUp(t) \/ TakeWork(t) \/ FuncReturn(t) \/ Relock(t)
       \/ Leave(t) \/ DropRef(t) \/ Exit(t) \/ Sleep(t) \/ Resume(t)
    /\ UNCHANGED <<lifecycle, bounds>>

SpuriousWakeup(t) ==
    /\ Goto(t, "wait", "woken")
    /\ spurious < MaxSpurious /\ spurious' = spurious + 1
    /\ UNCHANGED <<counters, works, lifecycle, calls, lock>>

-----------------------------------------------------------------------------
(* queue_work and flush_work, called by clients and by work functions.     *)

\* A worker calls from work->func, a client between init and destroy; neither
\* while it is inside another call.
MayCall(c) ==
    /\ flushing[c] = NoWork /\ lock # c
    /\ IF c \in Clients THEN owner = "ready" ELSE pc[c] = "func"

Accepts_Twice(w) == alive
Accepts_Dead(w) == ~on_wq[w]
Accepts(w) == ~on_wq[w] /\ alive

NeedsSignal_OffByOne == nr_idle_worker > 1
NeedsSignal == nr_idle_worker > 0

list_add_tail_Front(w) == work_list' = <<w>> \o work_list
list_add_tail(w) == work_list' = Append(work_list, w)

\* Up to list_add_tail; a call that is refused gives the lock back at once.
queue_work(c, w) ==
    /\ MayCall(c) /\ lock = Free
    /\ calls < MaxCalls /\ calls' = calls + 1
    /\ IF Accepts(w)
       THEN list_add_tail(w) /\ linking' = w /\ lock' = c
       ELSE UNCHANGED <<work_list, linking, lock>>
    /\ UNCHANGED <<counters, on_wq, curr, flushing, lifecycle, spurious, pc>>

\* The rest of queue_work: work->wq = wq, the signal and the unlock.
SetWq(c) ==
    /\ lock = c /\ linking # NoWork
    /\ on_wq' = [on_wq EXCEPT ![linking] = TRUE]
    /\ linking' = NoWork
    /\ IF NeedsSignal THEN Signal ELSE UNCHANGED pc
    /\ Release
    /\ UNCHANGED <<counters, work_list, curr, flushing, lifecycle, bounds>>

\* A call for a work that is on no workqueue returns at once.
flush_work(c, w) ==
    /\ MayCall(c)
    /\ on_wq[w]
    /\ c \in Threads => <<curr[c], w>> \in FuncFlushes
    /\ flushing' = [flushing EXCEPT ![c] = w]
    /\ UNCHANGED <<counters, work_list, on_wq, curr, linking, lifecycle, bounds, lock, pc>>

FlushReturn(c) ==
    /\ flushing[c] # NoWork
    /\ FlushReloads /\ ~on_wq[flushing[c]]
    /\ flushing' = [flushing EXCEPT ![c] = NoWork]
    /\ UNCHANGED <<counters, work_list, on_wq, curr, linking, lifecycle, bounds, lock, pc>>

-----------------------------------------------------------------------------
(* init_workqueue and destroy_workqueue, run by one owner thread.          *)

OwnerGoto(from, to) == owner = from /\ owner' = to /\ UNCHANGED pc

\* The name is too long, or alive is set already and then the mutex or the
\* condition cannot be initialised.
RefuseInit ==
    /\ OwnerGoto("start", "failed")
    /\ alive' \in BOOLEAN
    /\ UNCHANGED <<live, ref_count, created>>

SetUp ==
    /\ OwnerGoto("start", "init")
    /\ alive' = TRUE /\ live' = {"lock", "cond"}
    /\ UNCHANGED <<ref_count, created>>

\* ref_count++ without the lock, while earlier workers already run.
CreateWorker ==
    /\ owner = "init" /\ created < NProcs
    /\ \E u \in Threads : Goto(u, "unborn", "start")
    /\ ref_count' = ref_count + 1 /\ created' = created + 1
    /\ UNCHANGED <<alive, live, owner>>

CreateFails ==
    /\ InitMayFail /\ created < NProcs
    /\ OwnerGoto("init", "undo_poll")
    /\ UNCHANGED <<alive, live, ref_count, created>>

InitDone ==
    /\ created = NProcs
    /\ OwnerGoto("init", "ready")
    /\ UNCHANGED <<alive, live, ref_count, created>>

PollSignal_Missing == UNCHANGED pc
PollSignal == Signal

\* A round of a loop: signal and go to again, or find the loop finished.
Poll(from, busy, again, next) ==
    /\ IF busy THEN owner = from /\ owner' = again /\ PollSignal ELSE OwnerGoto(from, next)
    /\ UNCHANGED <<alive, live, ref_count, created>>

\* The error path of init_workqueue: alive is still set, and the condition is
\* destroyed before the workers are waited for.
UndoPoll == Poll("undo_poll", nr_worker # 0, "undo_poll", "undo_cond")
UndoCond ==
    /\ OwnerGoto("undo_cond", "undo_wait")
    /\ live' = live \ {"cond"}
    /\ UNCHANGED <<alive, ref_count, created>>

\* Lock-free reads of ref_count, then the lock is taken and given back once.
Referring_Ignored == FALSE
Referring == ref_count # 0
WaitWorkerExit ==
    \/ Poll("undo_wait", Referring, "undo_wait", "undo_lock")
    \/ Poll("close_wait", Referring, "close_wait", "close_lock")

LockPasses_Skipped == TRUE
LockPasses == lock = Free
LastLock ==
    /\ LockPasses
    /\ OwnerGoto("undo_lock", "undo_free") \/ OwnerGoto("close_lock", "close_free")
    /\ UNCHANGED <<alive, live, ref_count, created>>

\* The owner calls destroy_workqueue when no client is inside a call.
CloseStart ==
    /\ OwnerGoto("ready", "close_poll")
    /\ lock = Free /\ \A c \in Clients : flushing[c] = NoWork
    /\ alive' = FALSE
    /\ UNCHANGED <<live, ref_count, created>>

\* while (!list_empty || nr_worker): two reads.
ClosePoll ==
    \/ Poll("close_poll", work_list # <<>>, "close_poll", "close_nr")
    \/ Poll("close_nr", nr_worker # 0, "close_poll", "close_wait")

FreeSync ==
    /\ OwnerGoto("undo_free", "failed") \/ OwnerGoto("close_free", "destroyed")
    /\ live' = {}
    /\ UNCHANGED <<alive, ref_count, created>>

ownerFrame == <<nr_worker, nr_idle_worker, works, bounds, lock>>

OwnerStep ==
    /\ \/ SetUp \/ CreateWorker \/ InitDone \/ UndoPoll \/ UndoCond
       \/ WaitWorkerExit \/ LastLock \/ ClosePoll \/ FreeSync
    /\ UNCHANGED ownerFrame

\* What the owner may begin, or meet, and need not.
OwnerChoice == (RefuseInit \/ CreateFails \/ CloseStart) /\ UNCHANGED ownerFrame

\* Nothing is left to do.
Stopped == owner \in {"failed", "destroyed"} /\ At(Living) = {} /\ UNCHANGED vars

-----------------------------------------------------------------------------
FinishCall(c) == SetWq(c) \/ FlushReturn(c)
Call(c) == FinishCall(c) \/ \E w \in Works : queue_work(c, w) \/ flush_work(c, w)

Next ==
    \/ \E t \in Threads : WorkerStep(t) \/ SpuriousWakeup(t)
    \/ \E c \in Clients \cup Threads : Call(c)
    \/ OwnerStep \/ OwnerChoice \/ Stopped

\* Every runnable thread runs: the kernel schedules it, a mutex that stays
\* free is acquired, work functions return, and the callers and the owner
\* finish what they began.  Calls, spurious wakeups and failures are never forced.
Fairness ==
    /\ \A t \in Threads : WF_vars(WorkerStep(t))
    /\ \A c \in Clients \cup Threads : WF_vars(FinishCall(c))
    /\ WF_vars(OwnerStep)

SafeSpec == Init /\ [][Next]_vars
Spec == SafeSpec /\ Fairness
=============================================================================
