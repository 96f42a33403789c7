--------------------------- MODULE WorkqueueProofs ---------------------------
(***************************************************************************)
(* The inductive invariant IInv of the workqueue holds in every reachable  *)
(* state, for any number of threads, processors, works and clients, and    *)
(* with it the invariants and the step property that the runs check.  At   *)
(* the end every behaviour of the workqueue is shown to be one of the      *)
(* abstract pool WorkPool.                                                 *)
(***************************************************************************)
EXTENDS WorkqueueProperties, FiniteSetTheorems, SequenceTheorems, TLAPS

-----------------------------------------------------------------------------
(* Counting the threads at a set of locations.                             *)

\* How many threads f places in L; Count(pc, L) is Cardinality(At(L)).
Count(f, L) == Cardinality({u \in Threads : f[u] \in L})

\* What one thread adds to Count(f, L) from its location.
In(l, L) == IF l \in L THEN 1 ELSE 0

\* The pool may grow at least to the workers init_workqueue creates.
LEMMA MaxCoversFloor == nr_max_worker \in Nat /\ NProcs \in Nat /\ 1 <= NProcs /\ NProcs <= nr_max_worker
<1>1. \A n, m \in Nat \ {0} : n * m \in Nat /\ n <= n * m
  OBVIOUS
<1>. QED BY <1>1, ConstantsAssumption DEF nr_max_worker

\* The threads at any locations are a finite set.
LEMMA CountType ==
  ASSUME NEW f, NEW L
  PROVE  /\ IsFiniteSet({u \in Threads : f[u] \in L})
         /\ Count(f, L) \in Nat
<1>. {u \in Threads : f[u] \in L} \in SUBSET Threads
  OBVIOUS
<1>. QED BY ConstantsAssumption, FS_Subset, FS_CardinalityType DEF Count

\* Nobody is counted exactly when nobody is there.
LEMMA CountZero ==
  ASSUME NEW f, NEW L
  PROVE  Count(f, L) = 0 <=> \A u \in Threads : f[u] \notin L
<1>. QED BY CountType, FS_EmptySet DEF Count

\* Moving one thread changes the count by what it adds there less what it
\* added before.
LEMMA CountMove ==
  ASSUME NEW f \in [Threads -> Locations], NEW g \in [Threads -> Locations],
         NEW t \in Threads, NEW l \in Locations, NEW L,
         g[t] = l, \A v \in Threads \ {t} : g[v] = f[v]
  PROVE  Count(g, L) = Count(f, L) + In(l, L) - In(f[t], L)
<1>. DEFINE F == {u \in Threads : f[u] \in L}
            G == {u \in Threads : g[u] \in L}
<1>1. IsFiniteSet(F) /\ Cardinality(F) \in Nat
  BY CountType DEF Count
<1>2. t \in F <=> f[t] \in L
  OBVIOUS
<1>3. Count(f, L) = Cardinality(F) /\ Count(g, L) = Cardinality(G)
  BY DEF Count
<1>4. G = IF l \in L THEN F \cup {t} ELSE F \ {t}
  OBVIOUS
<1>. HIDE DEF F, G
<1>5. CASE l \in L
  <2>1. Cardinality(G) = IF t \in F THEN Cardinality(F) ELSE Cardinality(F) + 1
    BY <1>1, <1>4, <1>5, FS_AddElement
  <2>. QED BY <1>1, <1>2, <1>3, <1>5, <2>1 DEF In
<1>6. CASE l \notin L
  <2>1. Cardinality(G) = IF t \in F THEN Cardinality(F) - 1 ELSE Cardinality(F)
    BY <1>1, <1>4, <1>6, FS_RemoveElement
  <2>. QED BY <1>1, <1>2, <1>3, <1>6, <2>1 DEF In
<1>. QED BY <1>5, <1>6

\* Moving two threads adds up the two changes.
LEMMA CountMoveTwo ==
  ASSUME NEW f \in [Threads -> Locations], NEW g \in [Threads -> Locations],
         NEW t \in Threads, NEW u \in Threads, t # u,
         NEW k \in Locations, NEW l \in Locations, NEW L,
         g[t] = k, g[u] = l, \A v \in Threads \ {t, u} : g[v] = f[v]
  PROVE  Count(g, L) = Count(f, L) + In(k, L) - In(f[t], L) + In(l, L) - In(f[u], L)
<1>. DEFINE h == [f EXCEPT ![t] = k]
<1>1. /\ h \in [Threads -> Locations]
      /\ h[t] = k /\ \A v \in Threads \ {t} : h[v] = f[v]
      /\ g[u] = l /\ \A v \in Threads \ {u} : g[v] = h[v]
      /\ h[u] = f[u]
  OBVIOUS
<1>. HIDE DEF h
<1>2. Count(h, L) = Count(f, L) + In(k, L) - In(f[t], L)
  BY <1>1, CountMove
<1>3. Count(g, L) = Count(h, L) + In(l, L) - In(h[u], L)
  BY <1>1, CountMove
<1>4. /\ Count(f, L) \in Nat /\ Count(h, L) \in Nat /\ Count(g, L) \in Nat
      /\ In(k, L) \in Nat /\ In(l, L) \in Nat /\ In(f[t], L) \in Nat /\ In(f[u], L) \in Nat
  BY CountType DEF In
<1>. QED BY <1>1, <1>2, <1>3, <1>4

\* Fewer locations, fewer threads.
LEMMA CountMonotone ==
  ASSUME NEW f, NEW K, NEW L, K \subseteq L
  PROVE  Count(f, K) <= Count(f, L)
<1>. DEFINE A == {u \in Threads : f[u] \in K}
            B == {u \in Threads : f[u] \in L}
<1>1. A \in SUBSET B /\ IsFiniteSet(B)
  BY CountType
<1>2. Cardinality(A) <= Cardinality(B)
  <2>. HIDE DEF A, B
  <2>. QED BY <1>1, FS_Subset
<1>. QED BY <1>2 DEF Count

\* With no thread in L \ K the counts of K and L agree.
LEMMA CountSame ==
  ASSUME NEW f, NEW K, NEW L, \A u \in Threads : f[u] \in K <=> f[u] \in L
  PROVE  Count(f, K) = Count(f, L)
<1>. {u \in Threads : f[u] \in K} = {u \in Threads : f[u] \in L}
  OBVIOUS
<1>. QED BY DEF Count

\* One more thread in L than in K.
LEMMA CountStrict ==
  ASSUME NEW f, NEW K, NEW L, K \subseteq L, NEW t \in Threads, f[t] \in L, f[t] \notin K
  PROVE  Count(f, K) + 1 <= Count(f, L)
<1>. DEFINE A == {u \in Threads : f[u] \in K}
            B == {u \in Threads : f[u] \in L}
<1>1. A \cup {t} \in SUBSET B /\ IsFiniteSet(A) /\ IsFiniteSet(B) /\ t \notin A /\ Cardinality(A) \in Nat
  BY CountType, FS_CardinalityType
<1>2. Cardinality(A) + 1 <= Cardinality(B)
  <2>. HIDE DEF A, B
  <2>1. Cardinality(A \cup {t}) = Cardinality(A) + 1
    BY <1>1, FS_AddElement
  <2>2. Cardinality(A \cup {t}) <= Cardinality(B)
    BY <1>1, FS_Subset
  <2>. QED BY <2>1, <2>2
<1>. QED BY <1>2 DEF Count

\* Where nobody enters L, its count does not grow.
LEMMA CountShrinks ==
  ASSUME NEW f, NEW g, NEW L, \A u \in Threads : g[u] \in L => f[u] \in L
  PROVE  Count(g, L) <= Count(f, L)
<1>. DEFINE A == {u \in Threads : g[u] \in L}
            B == {u \in Threads : f[u] \in L}
<1>1. A \in SUBSET B /\ IsFiniteSet(B)
  BY CountType
<1>2. Cardinality(A) <= Cardinality(B)
  <2>. HIDE DEF A, B
  <2>. QED BY <1>1, FS_Subset
<1>. QED BY <1>2 DEF Count

\* Where only u may enter L, its count grows at most by one.
LEMMA CountGrows ==
  ASSUME NEW f, NEW g, NEW L, NEW u \in Threads,
         \A v \in Threads \ {u} : g[v] \in L => f[v] \in L
  PROVE  Count(g, L) <= Count(f, L) + 1
<1>. DEFINE A == {v \in Threads : f[v] \in L}
            B == {v \in Threads : g[v] \in L}
<1>1. B \in SUBSET (A \cup {u}) /\ IsFiniteSet(A) /\ IsFiniteSet(B)
  BY CountType
<1>2. Cardinality(A) \in Nat /\ Cardinality(B) \in Nat
  BY CountType DEF Count
<1>. HIDE DEF A, B
<1>3. /\ IsFiniteSet(A \cup {u})
      /\ Cardinality(A \cup {u}) = IF u \in A THEN Cardinality(A) ELSE Cardinality(A) + 1
  BY <1>1, FS_AddElement
<1>4. Cardinality(B) <= Cardinality(A \cup {u})
  BY <1>1, <1>3, FS_Subset
<1>5. Cardinality(B) <= Cardinality(A) + 1
  BY <1>2, <1>3, <1>4
<1>. QED BY <1>5 DEF Count, A, B

-----------------------------------------------------------------------------
(* Every conjunct of IInv is preserved by every step.                      *)

\* Critical sections exclude each other, and stay so: a thread enters Holding,
\* and a caller begins to link a work, only when it acquires the free lock; they
\* end only with a release.
LEMMA LockStep ==
  ASSUME TypeOK, LockHeld, [Next]_vars
  PROVE  LockHeld'
<1>. USE ConstantsAssumption
       DEF TypeOK, LockHeld, At, works, Holding, Locations, Living, Referenced, Counted, Idle
<1>1. ASSUME NEW t \in Threads, WorkerStep(t)
      PROVE  LockHeld'
  <2>1. CASE Start(t) \/ Resume(t)
    BY <2>1 DEF Start, Resume, Goto, Acquire
  <2>2. CASE WakeUp(t) \/ FuncReturn(t) \/ Leave(t) \/ DropRef(t)
    BY <2>2 DEF WakeUp, FuncReturn, Leave, DropRef, Goto
  <2>3. CASE TakeWork(t) \/ Exit(t) \/ Sleep(t)
    BY <2>3 DEF TakeWork, Exit, Sleep, Goto, Release
  <2>4. CASE Relock(t)
    BY <2>4 DEF Relock, Goto, Acquire
  <2>. QED BY <1>1, <2>1, <2>2, <2>3, <2>4 DEF WorkerStep
<1>2. ASSUME NEW t \in Threads, SpuriousWakeup(t)
      PROVE  LockHeld'
  BY <1>2 DEF SpuriousWakeup, Goto
<1>3. ASSUME NEW c \in Clients \cup Threads, Call(c)
      PROVE  LockHeld'
  <2>1. ASSUME NEW w \in Works, queue_work(c, w)
        PROVE  LockHeld'
    <3>1. linking = NoWork /\ lock = Free /\ UNCHANGED pc
      BY <2>1 DEF queue_work
    <3>2. \A t \in Threads : pc[t] \notin Holding
      BY <3>1
    <3>3. c \in Clients \/ c \in At({"func"})
      BY <2>1 DEF queue_work, MayCall
    <3>4. CASE Accepts(w)
      <4>1. lock' = c /\ linking' = w
        BY <2>1, <3>4 DEF queue_work
      <4>. QED BY <3>1, <3>2, <3>3, <4>1
    <3>5. CASE ~Accepts(w)
      BY <2>1, <3>5 DEF queue_work
    <3>. QED BY <3>4, <3>5
  <2>2. CASE SetWq(c)
    <3>1. /\ linking # NoWork /\ linking' = NoWork /\ lock' = Free
          /\ Signal \/ UNCHANGED pc
      BY <2>2 DEF SetWq, Release
    <3>2. \A t \in Threads : pc[t] \notin Holding /\ pc'[t] \notin Holding
      BY <3>1 DEF Signal, Goto
    <3>. QED BY <3>1, <3>2
  <2>3. ASSUME NEW w \in Works, flush_work(c, w)
        PROVE  LockHeld'
    BY <2>3 DEF flush_work
  <2>4. CASE FlushReturn(c)
    BY <2>4 DEF FlushReturn
  <2>. QED BY <1>3, <2>1, <2>2, <2>3, <2>4 DEF Call, FinishCall
<1>4. CASE OwnerStep
  <2>1. CASE CreateWorker
    BY <1>4, <2>1 DEF OwnerStep, ownerFrame, CreateWorker, Goto
  <2>2. CASE UndoPoll \/ WaitWorkerExit \/ ClosePoll
    BY <1>4, <2>2 DEF OwnerStep, ownerFrame, UndoPoll, WaitWorkerExit, ClosePoll, Poll,
                      PollSignal, Signal, OwnerGoto, Goto
  <2>3. CASE SetUp \/ InitDone \/ UndoCond \/ LastLock \/ FreeSync
    BY <1>4, <2>3 DEF OwnerStep, ownerFrame, SetUp, InitDone, UndoCond, LastLock, FreeSync, OwnerGoto
  <2>. QED BY <1>4, <2>1, <2>2, <2>3 DEF OwnerStep
<1>5. CASE OwnerChoice
  BY <1>5 DEF OwnerChoice, ownerFrame, RefuseInit, CreateFails, CloseStart, OwnerGoto
<1>6. CASE Stopped \/ UNCHANGED vars
  BY <1>6 DEF Stopped, vars
<1>. QED BY <1>1, <1>2, <1>3, <1>4, <1>5, <1>6 DEF Next

\* What a thread adds to the counters at every location.
LEMMA InTable ==
  /\ \A l \in {"wake_up", "wait", "woken"} :
         In(l, Counted) = 1 /\ In(l, Referenced) = 1 /\ In(l, Idle) = 1
  /\ \A l \in {"loop", "func", "relock"} :
         In(l, Counted) = 1 /\ In(l, Referenced) = 1 /\ In(l, Idle) = 0
  /\ \A l \in {"start", "exit_ref"} :
         In(l, Counted) = 0 /\ In(l, Referenced) = 1 /\ In(l, Idle) = 0
  /\ \A l \in {"unborn", "exit_unlock", "exited"} :
         In(l, Counted) = 0 /\ In(l, Referenced) = 0 /\ In(l, Idle) = 0
BY DEF In, Referenced, Counted, Idle

\* Where a step moves one thread, the counters stay exact if they move with it.
LEMMA CountersMove ==
  ASSUME TypeOK, CountersExact,
         NEW t \in Threads, NEW from \in Locations, NEW to \in Locations, Goto(t, from, to),
         nr_worker' = nr_worker + In(to, Counted) - In(from, Counted),
         ref_count' = ref_count + In(to, Referenced) - In(from, Referenced),
         nr_idle_worker' = nr_idle_worker + In(to, Idle) - In(from, Idle)
  PROVE  CountersExact'
<1>1. ASSUME NEW L
      PROVE  Cardinality({u \in Threads : pc'[u] \in L})
             = Cardinality({u \in Threads : pc[u] \in L}) + In(to, L) - In(from, L)
  <2>. pc \in [Threads -> Locations] /\ pc[t] = from /\ pc' = [pc EXCEPT ![t] = to]
    BY DEF TypeOK, Goto
  <2>. QED BY CountMove DEF Count
<1>. QED BY <1>1 DEF CountersExact, At

\* Threads that stay where they are leave the counters exact.
LEMMA CountersStay ==
  ASSUME CountersExact, UNCHANGED <<counters, pc>>
  PROVE  CountersExact'
BY DEF CountersExact, counters, At

\* The counters stay exact: wherever a thread crosses the border of Counted,
\* Referenced or Idle, the code adjusts the counter in the same step.
LEMMA CountersStep ==
  ASSUME TypeOK, CountersExact, [Next]_vars
  PROVE  CountersExact'
<1>. Locations = {"unborn", "start", "wake_up", "loop", "func", "relock", "wait", "woken",
                  "exit_ref", "exit_unlock", "exited"}
  BY DEF Locations, Living, Referenced, Counted, Idle
<1>. nr_worker \in Nat /\ ref_count \in Nat /\ nr_idle_worker \in Nat /\ pc \in [Threads -> Locations]
  BY DEF TypeOK
<1>1. ASSUME NEW t \in Threads, WorkerStep(t)
      PROVE  CountersExact'
  <2>1. CASE Start(t)
    BY <2>1, CountersMove, InTable DEF Start, CountIdle
  <2>2. CASE WakeUp(t)
    BY <2>2, CountersMove, InTable DEF WakeUp
  <2>3. CASE TakeWork(t) \/ FuncReturn(t) \/ Resume(t)
    BY <2>3, CountersMove, InTable DEF TakeWork, FuncReturn, Resume, counters
  <2>4. CASE Relock(t)
    <3>1. CASE Goto(t, "relock", "loop") /\ UNCHANGED ref_count
      BY <2>4, <3>1, CountersMove, InTable DEF Relock
    <3>2. CASE ~(Goto(t, "relock", "loop") /\ UNCHANGED ref_count)
      <4>1. PICK u \in Threads : pc[u] = "unborn" /\ pc' = [pc EXCEPT ![t] = "loop", ![u] = "start"]
        BY <2>4, <3>2 DEF Relock, At
      <4>2. pc[t] = "relock" /\ ref_count' = ref_count + 1 /\ UNCHANGED <<nr_worker, nr_idle_worker>>
        BY <2>4, <3>2 DEF Relock
      <4>. /\ pc' \in [Threads -> Locations] /\ t # u /\ pc[t] = "relock" /\ pc[u] = "unborn"
           /\ pc'[t] = "loop" /\ pc'[u] = "start" /\ \A v \in Threads \ {t, u} : pc'[v] = pc[v]
        BY <4>1, <4>2
      <4>3. ASSUME NEW L
            PROVE  Count(pc', L) = Count(pc, L) + In("loop", L) - In("relock", L)
                                                + In("start", L) - In("unborn", L)
        BY CountMoveTwo
      <4>4. \A L : Count(pc, L) \in Nat
        BY CountType
      <4>5. /\ Count(pc', Counted) = Count(pc, Counted)
            /\ Count(pc', Referenced) = Count(pc, Referenced) + 1
            /\ Count(pc', Idle) = Count(pc, Idle)
        BY <4>3, <4>4, InTable
      <4>. QED BY <4>2, <4>5 DEF CountersExact, At, Count
    <3>. QED BY <3>1, <3>2
  <2>5. CASE Leave(t)
    BY <2>5, CountersMove, InTable DEF Leave
  <2>6. CASE DropRef(t)
    BY <2>6, CountersMove, InTable DEF DropRef
  <2>7. CASE Exit(t)
    BY <2>7, CountersMove, InTable DEF Exit, counters
  <2>8. CASE Sleep(t)
    BY <2>8, CountersMove, InTable DEF Sleep, CountIdle
  <2>. QED BY <1>1, <2>1, <2>2, <2>3, <2>4, <2>5, <2>6, <2>7, <2>8 DEF WorkerStep
<1>2. ASSUME NEW t \in Threads, SpuriousWakeup(t)
      PROVE  CountersExact'
  BY <1>2, CountersMove, InTable DEF SpuriousWakeup, counters
<1>3. ASSUME Signal, UNCHANGED counters
      PROVE  CountersExact'
  BY <1>3, CountersMove, CountersStay, InTable DEF Signal, counters
<1>4. ASSUME NEW c \in Clients \cup Threads, Call(c)
      PROVE  CountersExact'
  BY <1>3, <1>4, CountersStay DEF Call, FinishCall, queue_work, SetWq, flush_work, FlushReturn, counters
<1>5. CASE OwnerStep
  <2>1. CASE CreateWorker
    BY <1>5, <2>1, CountersMove, InTable DEF OwnerStep, ownerFrame, CreateWorker
  <2>2. CASE UndoPoll \/ WaitWorkerExit \/ ClosePoll
    BY <1>3, <1>5, <2>2, CountersStay
       DEF OwnerStep, ownerFrame, UndoPoll, WaitWorkerExit, ClosePoll, Poll, PollSignal, OwnerGoto, counters
  <2>3. CASE SetUp \/ InitDone \/ UndoCond \/ LastLock \/ FreeSync
    BY <1>5, <2>3, CountersStay
       DEF OwnerStep, ownerFrame, SetUp, InitDone, UndoCond, LastLock, FreeSync, OwnerGoto, counters
  <2>. QED BY <1>5, <2>1, <2>2, <2>3 DEF OwnerStep
<1>6. CASE OwnerChoice
  BY <1>6, CountersStay DEF OwnerChoice, ownerFrame, RefuseInit, CreateFails, CloseStart, OwnerGoto, counters
<1>7. CASE Stopped \/ UNCHANGED vars
  BY <1>7, CountersStay DEF Stopped, vars
<1>. QED BY <1>1, <1>2, <1>4, <1>5, <1>6, <1>7 DEF Next

\* A step keeps every variable in its type; that no counter becomes negative is
\* the exactness of the counters after the step.
LEMMA TypeStep ==
  ASSUME TypeOK, CountersExact', [Next]_vars
  PROVE  TypeOK'
<1>1. nr_worker' \in Nat /\ ref_count' \in Nat /\ nr_idle_worker' \in Nat
  BY CountType DEF CountersExact, At, Count
<1>. USE <1>1, ConstantsAssumption DEF TypeOK, Locations, Living, Referenced, Counted, Idle
<1>2. ASSUME NEW t \in Threads, WorkerStep(t)
      PROVE  TypeOK'
  <2>. USE <1>2 DEF WorkerStep, lifecycle, bounds, works, counters, Goto, Acquire, Release
  <2>1. CASE Start(t) \/ WakeUp(t) \/ Leave(t)
    BY <2>1 DEF Start, WakeUp, Leave
  <2>2. CASE TakeWork(t)
    <3>1. Head(work_list) \in Works /\ Tail(work_list) \in Seq(Works)
      BY <2>2, HeadTailProperties DEF TakeWork
    <3>. QED BY <2>2, <3>1 DEF TakeWork, KeepsOnWq
  <2>3. CASE FuncReturn(t) \/ Relock(t)
    BY <2>3 DEF FuncReturn, Relock, At
  <2>4. CASE DropRef(t) \/ Exit(t) \/ Sleep(t) \/ Resume(t)
    BY <2>4 DEF DropRef, Exit, Sleep, Resume
  <2>. QED BY <2>1, <2>2, <2>3, <2>4
<1>3. ASSUME NEW t \in Threads, SpuriousWakeup(t)
      PROVE  TypeOK'
  BY <1>3 DEF SpuriousWakeup, Goto, counters, works, lifecycle
<1>4. ASSUME NEW c \in Clients \cup Threads, Call(c)
      PROVE  TypeOK'
  <2>1. ASSUME NEW w \in Works, queue_work(c, w)
        PROVE  TypeOK'
    <3>1. Append(work_list, w) \in Seq(Works)
      BY AppendProperties
    <3>2. calls' \in 0..MaxCalls
      BY <2>1 DEF queue_work
    <3>. QED BY <2>1, <3>1, <3>2 DEF queue_work, list_add_tail, counters, lifecycle
  <2>2. ASSUME NEW w \in Works, flush_work(c, w)
        PROVE  TypeOK'
    BY <2>2 DEF flush_work, counters, lifecycle, bounds
  <2>3. CASE FlushReturn(c)
    BY <2>3 DEF FlushReturn, counters, lifecycle, bounds
  <2>4. CASE SetWq(c)
    <3>1. pc' \in [Threads -> Locations]
      BY <2>4 DEF SetWq, Signal, Goto
    <3>. QED BY <2>4, <3>1 DEF SetWq, Release, counters, lifecycle, bounds
  <2>. QED BY <1>4, <2>1, <2>2, <2>3, <2>4 DEF Call, FinishCall
<1>5. CASE OwnerStep \/ OwnerChoice
  <2>. USE <1>5 DEF OwnerLocations, UndoLocations, CloseLocations, ownerFrame, works, bounds
  <2>1. pc' \in [Threads -> Locations]
    BY DEF OwnerStep, OwnerChoice, SetUp, CreateWorker, InitDone, UndoPoll, UndoCond, WaitWorkerExit,
           LastLock, ClosePoll, FreeSync, RefuseInit, CreateFails, CloseStart, Poll, PollSignal,
           Signal, Goto, OwnerGoto
  <2>2. alive' \in BOOLEAN /\ owner' \in OwnerLocations
    BY DEF OwnerStep, OwnerChoice, SetUp, CreateWorker, InitDone, UndoPoll, UndoCond, WaitWorkerExit,
           LastLock, ClosePoll, FreeSync, RefuseInit, CreateFails, CloseStart, Poll, OwnerGoto
  <2>3. live' \subseteq {"lock", "cond"}
    BY DEF OwnerStep, OwnerChoice, SetUp, CreateWorker, InitDone, UndoPoll, UndoCond, WaitWorkerExit,
           LastLock, ClosePoll, FreeSync, RefuseInit, CreateFails, CloseStart, Poll
  <2>4. created' \in 0..NProcs
    BY DEF OwnerStep, OwnerChoice, SetUp, CreateWorker, InitDone, UndoPoll, UndoCond, WaitWorkerExit,
           LastLock, ClosePoll, FreeSync, RefuseInit, CreateFails, CloseStart, Poll
  <2>. QED BY <2>1, <2>2, <2>3, <2>4 DEF OwnerStep, OwnerChoice
<1>6. CASE Stopped \/ UNCHANGED vars
  BY <1>6 DEF Stopped, vars, counters, works, lifecycle, bounds
<1>. QED BY <1>2, <1>3, <1>4, <1>5, <1>6 DEF Next

\* The entries of a sequence, and that none of them is repeated.
Entries(s) == {s[i] : i \in DOMAIN s}
Distinct(s) == \A i, j \in DOMAIN s : s[i] = s[j] => i = j

\* Taking the first of distinct entries removes it.
LEMMA TakeFirst ==
  ASSUME NEW s \in Seq(Works), s # <<>>, Distinct(s)
  PROVE  /\ Head(s) \in Works /\ Tail(s) \in Seq(Works)
         /\ Head(s) \in Entries(s)
         /\ Entries(Tail(s)) = Entries(s) \ {Head(s)}
         /\ Distinct(Tail(s))
<1>1. /\ Head(s) \in Works /\ Tail(s) \in Seq(Works)
      /\ Len(s) \in Nat /\ Len(Tail(s)) = Len(s) - 1 /\ Len(s) >= 1
      /\ DOMAIN s = 1..Len(s) /\ DOMAIN Tail(s) = 1..(Len(s) - 1)
      /\ Head(s) = s[1] /\ \A i \in 1..(Len(s) - 1) : Tail(s)[i] = s[i + 1]
  BY HeadTailProperties, LenProperties, EmptySeq
<1>2. Distinct(Tail(s))
  BY <1>1 DEF Distinct
<1>3. Entries(Tail(s)) \subseteq Entries(s) \ {Head(s)}
  BY <1>1 DEF Entries, Distinct
<1>4. ASSUME NEW i \in DOMAIN s, s[i] # Head(s)
      PROVE  s[i] \in Entries(Tail(s))
  <2>1. i - 1 \in 1..(Len(s) - 1) /\ s[i] = Tail(s)[i - 1]
    BY <1>1, <1>4
  <2>. QED BY <1>1, <2>1 DEF Entries
<1>5. Head(s) \in Entries(s)
  BY <1>1 DEF Entries
<1>6. Entries(s) \ {Head(s)} \subseteq Entries(Tail(s))
  BY <1>4 DEF Entries
<1>. QED BY <1>1, <1>2, <1>3, <1>5, <1>6

\* Appending something new adds it.
LEMMA PutLast ==
  ASSUME NEW s \in Seq(Works), NEW w \in Works, Distinct(s), w \notin Entries(s)
  PROVE  /\ Entries(Append(s, w)) = Entries(s) \cup {w}
         /\ Distinct(Append(s, w))
<1>. DEFINE a == Append(s, w)
<1>1. /\ Len(s) \in Nat /\ DOMAIN s = 1..Len(s) /\ DOMAIN a = 1..(Len(s) + 1)
      /\ a[Len(s) + 1] = w /\ \A i \in 1..Len(s) : a[i] = s[i]
  BY AppendProperties, LenProperties
<1>. HIDE DEF a
<1>2. \A i \in DOMAIN a : i \in DOMAIN s \/ i = Len(s) + 1
  BY <1>1
<1>3. Len(s) + 1 \in DOMAIN a /\ DOMAIN s \subseteq DOMAIN a
  BY <1>1
<1>4. Entries(a) = Entries(s) \cup {w}
  BY <1>1, <1>2, <1>3 DEF Entries
<1>5. Distinct(a)
  BY <1>1, <1>2, <1>3 DEF Distinct, Entries
<1>. QED BY <1>4, <1>5 DEF a

\* While the lock is free, or held by a worker thread that runs no function, no
\* work is being linked: all works in the list have work->wq set.
LEMMA NothingLinked ==
  ASSUME TypeOK, LockHeld, lock = Free \/ \E t \in Threads : lock = t /\ pc[t] # "func"
  PROVE  linking = NoWork /\ Waiting = Listed
<1>1. linking = NoWork
  BY ConstantsAssumption DEF LockHeld, At
<1>2. NoWork \notin Listed
  BY ElementOfSeq, LenProperties, ConstantsAssumption DEF TypeOK, Listed
<1>. QED BY <1>1, <1>2 DEF Waiting

\* A step that leaves the works alone and moves no worker into or out of its
\* function leaves every work in its one place.
LEMMA WorksStay ==
  ASSUME CurrMatches, WorkOnce, UNCHANGED <<work_list, on_wq, curr, linking>>,
         \A t \in Threads : pc'[t] = "func" <=> pc[t] = "func"
  PROVE  CurrMatches' /\ WorkOnce'
BY DEF CurrMatches, WorkOnce, Waiting, Listed, Processed

\* A work enters the list when it is nowhere, gets its work->wq there, leaves
\* it for the hands of one worker, and leaves those in the step that clears
\* work->wq.
LEMMA WorksStep ==
  ASSUME TypeOK, LockHeld, CurrMatches, WorkOnce, ListMatches, [Next]_vars
  PROVE  CurrMatches' /\ WorkOnce'
<1>. /\ pc \in [Threads -> Locations] /\ curr \in [Threads -> Works \cup {NoWork}]
     /\ work_list \in Seq(Works) /\ on_wq \in [Works -> BOOLEAN] /\ NoWork \notin Works
  BY ConstantsAssumption DEF TypeOK
<1>0. /\ Distinct(work_list)
      /\ \A t, u \in Threads : curr[t] # NoWork /\ curr[t] = curr[u] => t = u
      /\ Entries(work_list) \cap Processed = {}
      /\ \A w \in Works : on_wq[w] <=> w \in (Entries(work_list) \ {linking}) \cup Processed
      /\ linking # NoWork => linking \in Entries(work_list)
      /\ linking \in Works \cup {NoWork}
  BY DEF WorkOnce, ListMatches, Distinct, Entries, Waiting, Listed, TypeOK
<1>1. ASSUME NEW t \in Threads, WorkerStep(t)
      PROVE  CurrMatches' /\ WorkOnce'
  <2>1. CASE TakeWork(t)
    <3>. DEFINE h == Head(work_list)
    <3>1. /\ work_list # <<>> /\ work_list' = Tail(work_list)
          /\ curr' = [curr EXCEPT ![t] = h] /\ on_wq' = on_wq
          /\ pc[t] = "loop" /\ pc' = [pc EXCEPT ![t] = "func"] /\ linking' = linking
      BY <2>1 DEF TakeWork, Goto, KeepsOnWq
    <3>8. linking = NoWork
      <4>1. lock = t /\ pc[t] # "func"
        BY <3>1 DEF LockHeld, Holding
      <4>. QED BY <4>1, NothingLinked
    <3>2. /\ h \in Works /\ h \in Entries(work_list) /\ Distinct(work_list')
          /\ Entries(work_list') = Entries(work_list) \ {h}
      BY <1>0, <3>1, TakeFirst
    <3>. HIDE DEF h
    <3>3. curr[t] = NoWork
      BY <3>1 DEF CurrMatches
    <3>4. Processed' = Processed \cup {h}
      BY <3>1, <3>2, <3>3 DEF Processed
    <3>5. CurrMatches'
      BY <3>1, <3>2 DEF CurrMatches
    <3>6. \A u, v \in Threads : curr'[u] # NoWork /\ curr'[u] = curr'[v] => u = v
      BY <1>0, <3>1, <3>2 DEF Processed
    <3>7. /\ Entries(work_list') \cap Processed' = {}
          /\ \A w \in Works : on_wq'[w] <=> w \in (Entries(work_list') \ {linking'}) \cup Processed'
      BY <1>0, <3>1, <3>2, <3>4, <3>8
    <3>. QED BY <3>2, <3>5, <3>6, <3>7 DEF WorkOnce, Distinct, Entries, Waiting, Listed
  <2>2. CASE FuncReturn(t)
    <3>. DEFINE h == curr[t]
    <3>1. /\ work_list' = work_list /\ curr' = [curr EXCEPT ![t] = NoWork]
          /\ on_wq' = [on_wq EXCEPT ![h] = FALSE]
          /\ pc[t] = "func" /\ pc' = [pc EXCEPT ![t] = "relock"] /\ linking' = linking
      BY <2>2 DEF FuncReturn, Goto
    <3>2. h \in Works /\ h \in Processed /\ h \notin Entries(work_list)
      BY <1>0, <3>1 DEF CurrMatches, Processed
    <3>3. \A u \in Threads \ {t} : curr[u] # h
      BY <1>0, <3>2
    <3>4. Processed' = Processed \ {h}
      BY <3>1, <3>2, <3>3 DEF Processed
    <3>5. CurrMatches'
      BY <3>1 DEF CurrMatches
    <3>6. \A u, v \in Threads : curr'[u] # NoWork /\ curr'[u] = curr'[v] => u = v
      <4>1. \A u \in Threads : curr'[u] = IF u = t THEN NoWork ELSE curr[u]
        BY <3>1
      <4>. QED BY <1>0, <4>1
    <3>7. /\ Entries(work_list') \cap Processed' = {}
          /\ \A w \in Works : on_wq'[w] <=> w \in (Entries(work_list') \ {linking'}) \cup Processed'
      BY <1>0, <3>1, <3>2, <3>4
    <3>. QED BY <1>0, <3>1, <3>5, <3>6, <3>7 DEF WorkOnce, Distinct, Entries, Waiting, Listed
  <2>3. CASE Start(t) \/ WakeUp(t) \/ Leave(t) \/ DropRef(t) \/ Exit(t) \/ Sleep(t) \/ Resume(t)
    BY <2>3, WorksStay DEF Start, WakeUp, Leave, DropRef, Exit, Sleep, Resume, Goto, works
  <2>4. CASE Relock(t)
    BY <2>4, WorksStay DEF Relock, Goto, At, works
  <2>. QED BY <1>1, <2>1, <2>2, <2>3, <2>4 DEF WorkerStep
<1>2. ASSUME NEW t \in Threads, SpuriousWakeup(t)
      PROVE  CurrMatches' /\ WorkOnce'
  BY <1>2, WorksStay DEF SpuriousWakeup, Goto, works
<1>3. Signal => \A t \in Threads : pc'[t] = "func" <=> pc[t] = "func"
  BY DEF Signal, Goto
<1>4. ASSUME NEW c \in Clients \cup Threads, Call(c)
      PROVE  CurrMatches' /\ WorkOnce'
  <2>1. ASSUME NEW w \in Works, queue_work(c, w), Accepts(w)
        PROVE  CurrMatches' /\ WorkOnce'
    <3>1. /\ ~on_wq[w] /\ work_list' = Append(work_list, w) /\ linking' = w
          /\ UNCHANGED <<on_wq, curr, pc>> /\ lock = Free
      BY <2>1 DEF queue_work, Accepts, list_add_tail
    <3>2. w \notin Entries(work_list) /\ w \notin Processed /\ linking = NoWork
      BY <1>0, <3>1, NothingLinked
    <3>3. Entries(work_list') = Entries(work_list) \cup {w} /\ Distinct(work_list')
      BY <1>0, <3>1, <3>2, PutLast
    <3>4. CurrMatches' /\ Processed' = Processed
      BY <3>1 DEF CurrMatches, Processed
    <3>5. /\ Entries(work_list') \cap Processed' = {}
          /\ \A v \in Works : on_wq'[v] <=> v \in (Entries(work_list') \ {linking'}) \cup Processed'
      BY <1>0, <3>1, <3>2, <3>3, <3>4
    <3>. QED BY <1>0, <3>1, <3>3, <3>4, <3>5 DEF WorkOnce, Distinct, Entries, Waiting, Listed
  <2>2. ASSUME NEW w \in Works, queue_work(c, w), ~Accepts(w)
        PROVE  CurrMatches' /\ WorkOnce'
    BY <2>2, WorksStay DEF queue_work
  <2>3. ASSUME NEW w \in Works, flush_work(c, w)
        PROVE  CurrMatches' /\ WorkOnce'
    BY <2>3, WorksStay DEF flush_work
  <2>4. CASE FlushReturn(c)
    BY <2>4, WorksStay DEF FlushReturn
  <2>5. CASE SetWq(c)
    <3>1. /\ linking \in Works /\ linking' = NoWork /\ on_wq' = [on_wq EXCEPT ![linking] = TRUE]
          /\ UNCHANGED <<work_list, curr>>
          /\ \A t \in Threads : pc'[t] = "func" <=> pc[t] = "func"
      BY <1>0, <1>3, <2>5 DEF SetWq
    <3>2. CurrMatches' /\ Processed' = Processed
      BY <3>1 DEF CurrMatches, Processed
    <3>3. \A v \in Works : on_wq'[v] <=> v = linking \/ on_wq[v]
      BY <3>1
    <3>4. \A v \in Works : on_wq'[v] <=> v \in (Entries(work_list') \ {linking'}) \cup Processed'
      BY <1>0, <3>1, <3>2, <3>3
    <3>. QED BY <1>0, <3>1, <3>2, <3>4 DEF WorkOnce, Distinct, Entries, Waiting, Listed
  <2>. QED BY <1>4, <2>1, <2>2, <2>3, <2>4, <2>5 DEF Call, FinishCall
<1>5. CASE OwnerStep \/ OwnerChoice
  <2>1. UNCHANGED <<work_list, on_wq, curr, linking>>
    BY <1>5 DEF OwnerStep, OwnerChoice, ownerFrame, works
  <2>2. \A t \in Threads : pc'[t] = "func" <=> pc[t] = "func"
    BY <1>3, <1>5 DEF OwnerStep, OwnerChoice, SetUp, CreateWorker, InitDone, UndoPoll, UndoCond,
         WaitWorkerExit, LastLock, ClosePoll, FreeSync, RefuseInit, CreateFails, CloseStart, Poll,
         PollSignal, Goto, OwnerGoto
  <2>. QED BY <2>1, <2>2, WorksStay
<1>6. CASE Stopped \/ UNCHANGED vars
  BY <1>6, WorksStay DEF Stopped, vars, works
<1>. QED BY <1>1, <1>2, <1>4, <1>5, <1>6 DEF Next

\* Threads other than the owner leave alive, live, created and the owner's
\* location alone.
LEMMA OthersKeepLifecycle ==
  ASSUME [Next]_vars, ~OwnerStep, ~OwnerChoice
  PROVE  UNCHANGED lifecycle
BY DEF Next, WorkerStep, SpuriousWakeup, Call, FinishCall, queue_work, SetWq, flush_work, FlushReturn,
       Stopped, vars, lifecycle

\* The owner sets and clears alive and the two objects where it should.
LEMMA OwnerMatchesStep ==
  ASSUME TypeOK, OwnerMatches, [Next]_vars
  PROVE  OwnerMatches'
<1>. USE DEF OwnerMatches, UndoLocations, CloseLocations
<1>1. CASE OwnerStep
  <2>1. CASE SetUp \/ CreateWorker \/ InitDone \/ UndoCond
    BY <2>1 DEF SetUp, CreateWorker, InitDone, UndoCond, OwnerGoto
  <2>2. CASE UndoPoll \/ WaitWorkerExit \/ ClosePoll
    BY <2>2 DEF UndoPoll, WaitWorkerExit, ClosePoll, Poll, OwnerGoto
  <2>3. CASE LastLock \/ FreeSync
    BY <2>3 DEF LastLock, FreeSync, OwnerGoto
  <2>. QED BY <1>1, <2>1, <2>2, <2>3 DEF OwnerStep
<1>2. CASE OwnerChoice
  BY <1>2 DEF OwnerChoice, RefuseInit, CreateFails, CloseStart, OwnerGoto
<1>3. CASE UNCHANGED lifecycle
  BY <1>3 DEF lifecycle
<1>. QED BY <1>1, <1>2, <1>3, OthersKeepLifecycle

\* No work exists before the workqueue is ready, none is accepted once
\* destroy_workqueue has found the list empty, and none is taken or left behind
\* by destroy_workqueue while it is being linked.
LEMMA ListStep ==
  ASSUME TypeOK, LockHeld, OwnerMatches, ListMatches, [Next]_vars
  PROVE  ListMatches'
<1>. USE DEF ListMatches, UndoLocations, CloseLocations, At
<1>. pc \in [Threads -> Locations] /\ Clients \cap Threads = {} /\ owner \in OwnerLocations
  BY ConstantsAssumption DEF TypeOK
<1>0. Signal => \A u \in Threads : pc'[u] \in {"func", "relock"} => pc[u] \in {"func", "relock"}
  BY DEF Signal, Goto
<1>1. ASSUME NEW t \in Threads, WorkerStep(t)
      PROVE  ListMatches'
  <2>1. UNCHANGED owner
    BY <1>1 DEF WorkerStep, lifecycle
  <2>2. CASE TakeWork(t)
    <3>1. work_list # <<>> /\ pc[t] = "loop" /\ UNCHANGED linking
      BY <2>2 DEF TakeWork, Goto
    <3>2. lock = t /\ pc[t] # "func"
      BY <3>1 DEF LockHeld, Holding
    <3>3. linking = NoWork
      BY <3>2, NothingLinked
    <3>. QED BY <2>1, <3>1, <3>3
  <2>3. CASE FuncReturn(t)
    BY <2>1, <2>3 DEF FuncReturn, Goto, Listed
  <2>4. CASE Relock(t)
    <3>1. pc[t] = "relock" /\ UNCHANGED <<work_list, linking>>
      BY <2>4 DEF Relock, Goto, works
    <3>. QED BY <2>1, <3>1 DEF Listed
  <2>5. CASE Start(t) \/ WakeUp(t) \/ Leave(t) \/ DropRef(t) \/ Exit(t) \/ Sleep(t) \/ Resume(t)
    BY <2>1, <2>5 DEF Start, WakeUp, Leave, DropRef, Exit, Sleep, Resume, Goto, works, Listed
  <2>. QED BY <1>1, <2>2, <2>3, <2>4, <2>5 DEF WorkerStep
<1>2. ASSUME NEW t \in Threads, SpuriousWakeup(t)
      PROVE  ListMatches'
  BY <1>2 DEF SpuriousWakeup, Goto, works, lifecycle, Listed
<1>3. ASSUME NEW c \in Clients \cup Threads, Call(c)
      PROVE  ListMatches'
  <2>1. ASSUME NEW w \in Works, queue_work(c, w), Accepts(w)
        PROVE  ListMatches'
    <3>1. owner = "ready" \/ (c \in Threads /\ pc[c] = "func")
      BY <2>1 DEF queue_work, MayCall
    <3>2. alive /\ UNCHANGED owner /\ work_list' = Append(work_list, w) /\ linking' = w
      BY <2>1 DEF queue_work, Accepts, list_add_tail, lifecycle
    <3>3. owner = "ready"
      BY <3>1, <3>2 DEF OwnerMatches, OwnerLocations
    <3>4. w \in Listed'
      <4>1. Len(work_list) + 1 \in DOMAIN work_list' /\ work_list'[Len(work_list) + 1] = w
        BY <3>2, AppendProperties, LenProperties DEF TypeOK
      <4>. QED BY <4>1 DEF Listed
    <3>. QED BY <3>2, <3>3, <3>4
  <2>2. ASSUME NEW w \in Works, queue_work(c, w), ~Accepts(w)
        PROVE  ListMatches'
    BY <2>2 DEF queue_work, lifecycle, Listed
  <2>3. ASSUME NEW w \in Works, flush_work(c, w)
        PROVE  ListMatches'
    BY <2>3 DEF flush_work, lifecycle, Listed
  <2>4. CASE FlushReturn(c)
    BY <2>4 DEF FlushReturn, lifecycle, Listed
  <2>5. CASE SetWq(c)
    <3>1. linking' = NoWork /\ UNCHANGED <<work_list, owner>>
      BY <2>5 DEF SetWq, lifecycle
    <3>2. \A u \in Threads : pc'[u] \in {"func", "relock"} => pc[u] \in {"func", "relock"}
      BY <1>0, <2>5 DEF SetWq
    <3>. QED BY <3>1, <3>2
  <2>. QED BY <1>3, <2>1, <2>2, <2>3, <2>4, <2>5 DEF Call, FinishCall
<1>4. CASE OwnerStep
  <2>. UNCHANGED <<work_list, linking, Listed>>
    BY <1>4 DEF OwnerStep, ownerFrame, works, Listed
  <2>1. CASE SetUp \/ CreateWorker \/ InitDone \/ UndoCond
    BY <2>1 DEF SetUp, CreateWorker, InitDone, UndoCond, OwnerGoto, Goto
  <2>2. CASE UndoPoll \/ WaitWorkerExit \/ ClosePoll
    BY <1>0, <2>2 DEF UndoPoll, WaitWorkerExit, ClosePoll, Poll, PollSignal, OwnerGoto
  <2>3. CASE LastLock \/ FreeSync
    BY <2>3 DEF LastLock, FreeSync, OwnerGoto
  <2>. QED BY <1>4, <2>1, <2>2, <2>3 DEF OwnerStep
<1>5. CASE OwnerChoice
  <2>1. UNCHANGED <<work_list, linking, Listed, pc>>
    BY <1>5 DEF OwnerChoice, ownerFrame, works, Listed, RefuseInit, CreateFails, CloseStart, OwnerGoto
  <2>2. CASE RefuseInit \/ CreateFails
    BY <2>1, <2>2 DEF RefuseInit, CreateFails, OwnerGoto
  <2>3. CASE CloseStart
    <3>1. linking = NoWork
      BY <2>3, NothingLinked DEF CloseStart
    <3>. QED BY <2>1, <2>3, <3>1 DEF CloseStart, OwnerGoto
  <2>. QED BY <1>5, <2>2, <2>3 DEF OwnerChoice
<1>6. CASE Stopped \/ UNCHANGED vars
  BY <1>6 DEF Stopped, vars, works, lifecycle, Listed
<1>. QED BY <1>1, <1>2, <1>3, <1>4, <1>5, <1>6 DEF Next

\* While every worker that ever started is still there and there are no more
\* than NProcs of them, none of them is surplus: the one that would leave is
\* not idle itself.
LEMMA NobodyLeaves ==
  ASSUME TypeOK, CountersExact, alive, ref_count <= NProcs, NEW t \in Threads
  PROVE  ~Leave(t)
<1>. SUFFICES ASSUME Leave(t)
              PROVE  FALSE
  OBVIOUS
<1>1. pc[t] = "loop" /\ nr_idle_worker + 1 > NProcs
  BY DEF Leave, Goto, Surplus, nr_max_idle_worker
<1>2. Idle \subseteq Referenced /\ "loop" \in Referenced /\ "loop" \notin Idle
  BY DEF Referenced, Counted, Idle
<1>3. Count(pc, Idle) + 1 <= Count(pc, Referenced)
  BY <1>1, <1>2, CountStrict
<1>4. nr_idle_worker = Count(pc, Idle) /\ ref_count = Count(pc, Referenced)
  BY DEF CountersExact, At, Count
<1>. QED BY <1>1, <1>3, <1>4, ConstantsAssumption DEF TypeOK

\* ref_count is 0 exactly when no thread is referenced.
LEMMA RefCountZero ==
  ASSUME CountersExact
  PROVE  ref_count = 0 <=> \A u \in Threads : pc[u] \notin Referenced
BY CountZero DEF CountersExact, At, Count

\* The workers are where the owner's location says, and init_workqueue is the
\* only one that changes ref_count until it is done.
LEMMA WorkersStep ==
  ASSUME TypeOK, CountersExact, LockHeld, OwnerMatches, ListMatches, WorkersMatch,
         InitOwnsRefCount, UndoBounded, [Next]_vars
  PROVE  WorkersMatch' /\ InitOwnsRefCount' /\ UndoBounded'
<1>. USE DEF WorkersMatch, InitOwnsRefCount, UndoBounded, UndoLocations, CloseLocations,
             At, Living, Referenced, Counted, Idle
<1>. /\ pc \in [Threads -> Locations] /\ ref_count \in Nat /\ created \in 0..NProcs
     /\ NProcs \in Nat /\ owner \in OwnerLocations
  BY ConstantsAssumption DEF TypeOK
<1>0. Signal => \A u \in Threads :
                  pc'[u] = pc[u] \/ (pc[u] = "wait" /\ pc'[u] = "woken")
  BY DEF Signal, Goto
<1>1. ASSUME NEW t \in Threads, WorkerStep(t)
      PROVE  WorkersMatch' /\ InitOwnsRefCount' /\ UndoBounded'
  <2>1. UNCHANGED owner /\ UNCHANGED created
    BY <1>1 DEF WorkerStep, lifecycle
  <2>2. CASE Start(t) \/ WakeUp(t) \/ TakeWork(t) \/ FuncReturn(t) \/ Sleep(t) \/ Resume(t)
    BY <2>1, <2>2 DEF Start, WakeUp, TakeWork, FuncReturn, Sleep, Resume, Goto, counters
  <2>3. CASE Relock(t)
    <3>1. pc[t] = "relock"
      BY <2>3 DEF Relock, Goto
    <3>2. owner \in {"ready", "close_poll", "close_nr", "close_wait"}
      BY <3>1 DEF ListMatches, OwnerLocations
    <3>. QED BY <2>1, <3>2
  <2>4. CASE Leave(t)
    <3>1. pc[t] = "loop" /\ pc' = [pc EXCEPT ![t] = "exit_ref"] /\ UNCHANGED ref_count
      BY <2>4 DEF Leave, Goto
    <3>2. owner # "init" /\ owner \notin UndoLocations
      BY <2>4, NobodyLeaves DEF OwnerMatches
    <3>. QED BY <2>1, <3>1, <3>2
  <2>5. CASE DropRef(t) \/ Exit(t)
    BY <2>1, <2>5 DEF DropRef, Exit, Goto, counters
  <2>. QED BY <1>1, <2>2, <2>3, <2>4, <2>5 DEF WorkerStep
<1>2. ASSUME NEW t \in Threads, SpuriousWakeup(t)
      PROVE  WorkersMatch' /\ InitOwnsRefCount' /\ UndoBounded'
  BY <1>2 DEF SpuriousWakeup, Goto, lifecycle, counters
<1>3. ASSUME NEW c \in Clients \cup Threads, Call(c)
      PROVE  WorkersMatch' /\ InitOwnsRefCount' /\ UndoBounded'
  BY <1>0, <1>3 DEF Call, FinishCall, queue_work, SetWq, flush_work, FlushReturn, lifecycle, counters
<1>4. CASE OwnerStep
  <2>1. CASE SetUp
    BY <2>1, RefCountZero DEF SetUp, OwnerGoto, OwnerMatches
  <2>2. CASE CreateWorker
    BY <2>2 DEF CreateWorker, Goto
  <2>3. CASE InitDone \/ UndoCond
    BY <2>3 DEF InitDone, UndoCond, OwnerGoto
  <2>4. CASE UndoPoll \/ ClosePoll
    BY <1>0, <2>4 DEF UndoPoll, ClosePoll, Poll, PollSignal, OwnerGoto
  <2>5. CASE WaitWorkerExit
    BY <1>0, <2>5, RefCountZero DEF WaitWorkerExit, Poll, PollSignal, OwnerGoto, Referring
  <2>6. CASE LastLock
    <3>1. \A u \in Threads : pc[u] # "exit_unlock"
      BY <2>6, ConstantsAssumption DEF LastLock, LockPasses, LockHeld, Holding
    <3>. QED BY <2>6, <3>1 DEF LastLock, OwnerGoto
  <2>7. CASE FreeSync
    BY <2>7 DEF FreeSync, OwnerGoto
  <2>. QED BY <1>4, <2>1, <2>2, <2>3, <2>4, <2>5, <2>6, <2>7 DEF OwnerStep
<1>5. CASE OwnerChoice
  BY <1>5 DEF OwnerChoice, RefuseInit, CreateFails, CloseStart, OwnerGoto
<1>6. CASE Stopped \/ UNCHANGED vars
  BY <1>6 DEF Stopped, vars, lifecycle, counters
<1>. QED BY <1>1, <1>2, <1>3, <1>4, <1>5, <1>6 DEF Next

\* The pool stays within nr_max_worker: whoever starts a worker holds the lock,
\* or is init_workqueue, so no thread that left ref_count still exists.
LEMMA BoundStep ==
  ASSUME TypeOK, CountersExact, LockHeld, WorkersMatch, InitOwnsRefCount, ThreadsBounded, [Next]_vars
  PROVE  ThreadsBounded'
<1>. /\ pc \in [Threads -> Locations] /\ ref_count \in Nat /\ created \in 0..NProcs
     /\ NProcs \in Nat /\ nr_max_worker \in Nat /\ NProcs <= nr_max_worker
  BY MaxCoversFloor DEF TypeOK
<1>a. Count(pc, Living) <= nr_max_worker
  BY DEF ThreadsBounded, At, Count
<1>g. ASSUME Count(pc', Living) <= nr_max_worker
      PROVE  ThreadsBounded'
  BY <1>g DEF ThreadsBounded, At, Count, nr_max_worker
<1>b. Count(pc, Living) \in Nat /\ Count(pc', Living) \in Nat
  BY CountType
<1>c. ASSUME \A u \in Threads : pc'[u] \in Living => pc[u] \in Living
      PROVE  ThreadsBounded'
  <2>1. Count(pc', Living) <= Count(pc, Living)
    BY <1>c, CountShrinks
  <2>2. Count(pc', Living) <= nr_max_worker
    BY <1>a, <1>b, <2>1
  <2>. QED BY <1>g, <2>2
<1>d. ASSUME \A u \in Threads : pc[u] # "exit_unlock"
      PROVE  Count(pc, Living) = ref_count
  <2>1. \A u \in Threads : pc[u] \in Living <=> pc[u] \in Referenced
    BY <1>d DEF Living
  <2>2. Count(pc, Living) = Count(pc, Referenced)
    BY <2>1, CountSame
  <2>. QED BY <2>2 DEF CountersExact, At, Count
<1>e. ASSUME NEW u \in Threads, \A v \in Threads \ {u} : pc'[v] \in Living => pc[v] \in Living,
             Count(pc, Living) < nr_max_worker
      PROVE  ThreadsBounded'
  <2>1. Count(pc', Living) <= Count(pc, Living) + 1
    BY <1>e, CountGrows
  <2>2. Count(pc', Living) <= nr_max_worker
    BY <1>b, <1>e, <2>1
  <2>. QED BY <1>g, <2>2
<1>. USE DEF Living, Referenced, Counted, Idle
<1>f. Signal \/ UNCHANGED pc => \A u \in Threads : pc'[u] \in Living => pc[u] \in Living
  BY DEF Signal, Goto
<1>1. ASSUME NEW t \in Threads, WorkerStep(t)
      PROVE  ThreadsBounded'
  <2>1. CASE Start(t) \/ WakeUp(t) \/ TakeWork(t) \/ FuncReturn(t) \/ Leave(t)
    BY <1>c, <2>1 DEF Start, WakeUp, TakeWork, FuncReturn, Leave, Goto
  <2>2. CASE DropRef(t) \/ Exit(t) \/ Sleep(t) \/ Resume(t)
    BY <1>c, <2>2 DEF DropRef, Exit, Sleep, Resume, Goto
  <2>3. CASE Relock(t)
    <3>1. CASE Goto(t, "relock", "loop")
      BY <1>c, <3>1 DEF Goto
    <3>2. CASE ~Goto(t, "relock", "loop")
      <4>1. PICK u \in Threads : pc[u] = "unborn" /\ pc' = [pc EXCEPT ![t] = "loop", ![u] = "start"]
        BY <2>3, <3>2 DEF Relock, At
      <4>2. pc[t] = "relock" /\ ref_count < nr_max_worker
        BY <2>3, <3>2 DEF Relock, MaySpawn, BelowMax
      <4>3. \A v \in Threads : pc[v] # "exit_unlock"
        BY <2>3, ConstantsAssumption DEF Relock, Acquire, LockHeld, Holding
      <4>4. \A v \in Threads \ {u} : pc'[v] \in Living => pc[v] \in Living
        BY <4>1, <4>2
      <4>5. Count(pc, Living) = ref_count
        BY <1>d, <4>3
      <4>. QED BY <1>e, <4>2, <4>4, <4>5
    <3>. QED BY <3>1, <3>2
  <2>. QED BY <1>1, <2>1, <2>2, <2>3 DEF WorkerStep
<1>2. ASSUME NEW t \in Threads, SpuriousWakeup(t)
      PROVE  ThreadsBounded'
  BY <1>2, <1>c DEF SpuriousWakeup, Goto
<1>3. ASSUME NEW c \in Clients \cup Threads, Call(c)
      PROVE  ThreadsBounded'
  BY <1>3, <1>c, <1>f DEF Call, FinishCall, queue_work, SetWq, flush_work, FlushReturn
<1>4. CASE OwnerStep
  <2>1. CASE CreateWorker
    <3>1. PICK u \in Threads : Goto(u, "unborn", "start")
      BY <2>1 DEF CreateWorker
    <3>2. owner = "init" /\ created < NProcs
      BY <2>1 DEF CreateWorker
    <3>3. \A v \in Threads : pc[v] # "exit_unlock"
      BY <3>2 DEF WorkersMatch, At
    <3>4. Count(pc, Living) = created
      BY <1>d, <3>2, <3>3 DEF InitOwnsRefCount
    <3>5. Count(pc, Living) < nr_max_worker
      BY <3>2, <3>4
    <3>6. \A v \in Threads \ {u} : pc'[v] \in Living => pc[v] \in Living
      BY <3>1 DEF Goto
    <3>. QED BY <1>e, <3>5, <3>6
  <2>2. CASE UndoPoll \/ WaitWorkerExit \/ ClosePoll
    BY <1>c, <1>f, <2>2 DEF UndoPoll, WaitWorkerExit, ClosePoll, Poll, PollSignal, OwnerGoto
  <2>3. CASE SetUp \/ InitDone \/ UndoCond \/ LastLock \/ FreeSync
    BY <1>c, <1>f, <2>3 DEF SetUp, InitDone, UndoCond, LastLock, FreeSync, OwnerGoto
  <2>. QED BY <1>4, <2>1, <2>2, <2>3 DEF OwnerStep
<1>5. CASE OwnerChoice
  BY <1>5, <1>c, <1>f DEF OwnerChoice, RefuseInit, CreateFails, CloseStart, OwnerGoto
<1>6. CASE Stopped \/ UNCHANGED vars
  BY <1>6, <1>c, <1>f DEF Stopped, vars
<1>. QED BY <1>1, <1>2, <1>3, <1>4, <1>5, <1>6 DEF Next

\* A worker leaves a live workqueue only where as many as NProcs others are
\* idle; init_workqueue hands over NProcs workers.
LEMMA FloorStep ==
  ASSUME TypeOK, CountersExact, OwnerMatches, WorkersMatch, InitOwnsRefCount, PoolFloor, [Next]_vars
  PROVE  PoolFloor'
<1>. /\ pc \in [Threads -> Locations] /\ NProcs \in Nat
  BY ConstantsAssumption DEF TypeOK
<1>a. ASSUME owner = "ready"
      PROVE  Count(pc, Staff) >= NProcs
  BY <1>a DEF PoolFloor, At, Count
<1>b. Count(pc, Staff) \in Nat /\ Count(pc', Staff) \in Nat
  BY CountType
<1>c. ASSUME owner' = "ready" => Count(pc', Staff) >= NProcs
      PROVE  PoolFloor'
  BY <1>c DEF PoolFloor, At, Count
<1>d. ASSUME owner' = "ready" => owner = "ready",
             \A u \in Threads : pc[u] \in Staff => pc'[u] \in Staff
      PROVE  PoolFloor'
  <2>1. Count(pc, Staff) <= Count(pc', Staff)
    BY <1>d, CountShrinks
  <2>2. owner' = "ready" => Count(pc', Staff) >= NProcs
    BY <1>a, <1>b, <1>d, <2>1
  <2>. QED BY <1>c, <2>2
<1>e. Idle \subseteq Staff
  BY DEF Staff, Counted
<1>f. nr_idle_worker = Count(pc, Idle) /\ ref_count = Count(pc, Referenced)
  BY DEF CountersExact, At, Count
<1>. USE DEF Staff, Counted, Idle
<1>g. Signal \/ UNCHANGED pc => \A u \in Threads : pc[u] \in Staff => pc'[u] \in Staff
  BY DEF Signal, Goto
<1>1. ASSUME NEW t \in Threads, WorkerStep(t)
      PROVE  PoolFloor'
  <2>1. UNCHANGED owner
    BY <1>1 DEF WorkerStep, lifecycle
  <2>2. CASE Start(t) \/ WakeUp(t) \/ TakeWork(t) \/ FuncReturn(t)
    BY <1>d, <2>1, <2>2 DEF Start, WakeUp, TakeWork, FuncReturn, Goto
  <2>3. CASE DropRef(t) \/ Exit(t) \/ Sleep(t) \/ Resume(t)
    BY <1>d, <2>1, <2>3 DEF DropRef, Exit, Sleep, Resume, Goto
  <2>4. CASE Relock(t)
    BY <1>d, <2>1, <2>4 DEF Relock, Goto, At
  <2>5. CASE Leave(t)
    <3>1. pc[t] = "loop" /\ pc' = [pc EXCEPT ![t] = "exit_ref"]
      BY <2>5 DEF Leave, Goto
    <3>2. owner = "ready" => nr_idle_worker + 1 > NProcs
      BY <2>5 DEF Leave, Surplus, nr_max_idle_worker, OwnerMatches
    <3>3. Count(pc', Idle) = Count(pc, Idle)
      <4>1. \A u \in Threads : pc'[u] \in Idle <=> pc[u] \in Idle
        BY <3>1
      <4>. HIDE DEF Idle
      <4>2. Count(pc, Idle) <= Count(pc', Idle) /\ Count(pc', Idle) <= Count(pc, Idle)
        BY <4>1, CountShrinks
      <4>3. Count(pc, Idle) \in Nat /\ Count(pc', Idle) \in Nat
        BY CountType
      <4>. QED BY <4>2, <4>3
    <3>. HIDE DEF Staff, Idle
    <3>4. Count(pc', Idle) <= Count(pc', Staff)
      BY <1>e, CountMonotone
    <3>5. Count(pc, Idle) \in Nat
      BY CountType
    <3>6. owner' = "ready" => Count(pc', Staff) >= NProcs
      BY <1>b, <1>f, <2>1, <3>2, <3>3, <3>4, <3>5
    <3>. QED BY <1>c, <3>6
  <2>. QED BY <1>1, <2>2, <2>3, <2>4, <2>5 DEF WorkerStep
<1>2. ASSUME NEW t \in Threads, SpuriousWakeup(t)
      PROVE  PoolFloor'
  BY <1>d, <1>2 DEF SpuriousWakeup, Goto, lifecycle
<1>3. ASSUME NEW c \in Clients \cup Threads, Call(c)
      PROVE  PoolFloor'
  BY <1>d, <1>g, <1>3 DEF Call, FinishCall, queue_work, SetWq, flush_work, FlushReturn, lifecycle
<1>4. CASE OwnerStep
  <2>1. CASE InitDone
    <3>1. owner = "init" /\ ref_count = NProcs /\ UNCHANGED pc
      BY <2>1 DEF InitDone, OwnerGoto, InitOwnsRefCount
    <3>2. \A u \in Threads : pc[u] \in Staff <=> pc[u] \in Referenced
      BY <3>1 DEF WorkersMatch, At, Referenced
    <3>. HIDE DEF Staff
    <3>3. Count(pc, Staff) = Count(pc, Referenced)
      BY <3>2, CountSame
    <3>4. Count(pc', Staff) >= NProcs
      <4>1. Count(pc', Staff) = NProcs
        BY <1>f, <3>1, <3>3
      <4>. QED BY <4>1
    <3>. QED BY <1>c, <3>4
  <2>2. CASE UndoPoll \/ WaitWorkerExit \/ ClosePoll
    BY <1>d, <1>g, <2>2 DEF UndoPoll, WaitWorkerExit, ClosePoll, Poll, PollSignal, OwnerGoto
  <2>3. CASE SetUp \/ CreateWorker \/ UndoCond \/ LastLock \/ FreeSync
    BY <1>d, <2>3 DEF SetUp, CreateWorker, UndoCond, LastLock, FreeSync, OwnerGoto, Goto
  <2>. QED BY <1>4, <2>1, <2>2, <2>3 DEF OwnerStep
<1>5. CASE OwnerChoice
  BY <1>d, <1>5 DEF OwnerChoice, RefuseInit, CreateFails, CloseStart, OwnerGoto
<1>6. CASE Stopped \/ UNCHANGED vars
  BY <1>d, <1>6 DEF Stopped, vars, lifecycle
<1>. QED BY <1>1, <1>2, <1>3, <1>4, <1>5, <1>6 DEF Next

\* Whoever queues a work either is awake itself, or finds a worker awake, or
\* wakes one up before the call ends; and a worker goes to sleep or leaves only
\* with the list empty.
LEMMA WakeupStep ==
  ASSUME TypeOK, CountersExact, LockHeld, ListMatches, PoolFloor, NoLostWakeup, [Next]_vars
  PROVE  NoLostWakeup'
<1>. pc \in [Threads -> Locations] /\ work_list \in Seq(Works) /\ NProcs \in Nat /\ 1 <= NProcs
  BY ConstantsAssumption DEF TypeOK
<1>a. nr_idle_worker = Count(pc, Idle)
  BY DEF CountersExact, At, Count
<1>b. ASSUME owner = "ready"
      PROVE  \E u \in Threads : pc[u] \in Staff
  <2>1. Count(pc, Staff) >= NProcs
    BY <1>b DEF PoolFloor, At, Count
  <2>2. Count(pc, Staff) \in Nat
    BY CountType
  <2>3. Count(pc, Staff) # 0
    BY <2>1, <2>2
  <2>. QED BY <2>3, CountZero
<1>c. ASSUME nr_idle_worker = 0, NEW u \in Threads, pc[u] \in Staff
      PROVE  pc[u] \in Awake
  <2>1. pc[u] \notin Idle
    BY <1>a, <1>c, CountZero
  <2>. QED BY <1>c, <2>1 DEF Staff, Counted, Idle, Awake
<1>e. UNCHANGED <<work_list, linking>> => UNCHANGED Waiting
  BY DEF Waiting, Listed
<1>. USE DEF NoLostWakeup, At
<1>d. Signal \/ UNCHANGED pc => \A u \in Threads : pc[u] \in Awake => pc'[u] \in Awake
  BY DEF Signal, Goto, Awake
<1>1. ASSUME NEW t \in Threads, WorkerStep(t)
      PROVE  NoLostWakeup'
  <2>. USE DEF Awake
  <2>1. CASE TakeWork(t)
    BY <2>1 DEF TakeWork, Goto
  <2>2. CASE Start(t) \/ WakeUp(t) \/ FuncReturn(t) \/ Resume(t)
    BY <1>e, <2>2 DEF Start, WakeUp, FuncReturn, Resume, Goto, works
  <2>3. CASE Relock(t)
    BY <1>e, <2>3 DEF Relock, Goto, works
  <2>4. CASE Leave(t) \/ Sleep(t)
    <3>1. work_list' = <<>>
      BY <2>4 DEF Leave, Sleep, SeesNoWork, works
    <3>2. DOMAIN work_list' = {}
      BY <3>1, EmptySeq, LenProperties
    <3>. QED BY <3>2 DEF Waiting, Listed
  <2>5. CASE DropRef(t) \/ Exit(t)
    BY <1>e, <2>5 DEF DropRef, Exit, Goto, works
  <2>. QED BY <1>1, <2>1, <2>2, <2>3, <2>4, <2>5 DEF WorkerStep
<1>2. ASSUME NEW t \in Threads, SpuriousWakeup(t)
      PROVE  NoLostWakeup'
  BY <1>e, <1>2 DEF SpuriousWakeup, Goto, works, Awake
<1>3. ASSUME NEW c \in Clients \cup Threads, Call(c)
      PROVE  NoLostWakeup'
  <2>1. CASE SetWq(c)
    <3>1. /\ owner = "ready"
          /\ IF NeedsSignal THEN Signal ELSE UNCHANGED pc
      BY <2>1 DEF SetWq, ListMatches, LockHeld
    <3>2. CASE \E u \in Threads : pc[u] \in Awake
      BY <1>d, <3>1, <3>2
    <3>3. CASE ~ \E u \in Threads : pc[u] \in Awake
      <4>1. PICK u \in Threads : pc[u] \in Staff
        BY <1>b, <3>1
      <4>2. nr_idle_worker \in Nat /\ nr_idle_worker # 0
        BY <1>c, <3>3, <4>1 DEF TypeOK
      <4>3. pc[u] = "wait" /\ Signal
        BY <3>1, <3>3, <4>1, <4>2 DEF Staff, Counted, Idle, Awake, NeedsSignal
      <4>4. \E v \in Threads : Goto(v, "wait", "woken")
        BY <4>3 DEF Signal
      <4>. QED BY <4>4 DEF Goto, Awake
    <3>. QED BY <3>2, <3>3
  <2>2. ASSUME NEW w \in Works, queue_work(c, w), Accepts(w)
        PROVE  NoLostWakeup'
    <3>1. /\ work_list' = Append(work_list, w) /\ linking' = w /\ UNCHANGED pc
          /\ Waiting = Listed
      BY <2>2, NothingLinked DEF queue_work, list_add_tail
    <3>2. Waiting' \subseteq Waiting
      <4>1. \A i \in DOMAIN work_list' : work_list'[i] = w \/ (i \in DOMAIN work_list /\ work_list'[i] = work_list[i])
        BY <3>1, AppendProperties, LenProperties
      <4>. QED BY <3>1, <4>1 DEF Waiting, Listed
    <3>. QED BY <3>1, <3>2
  <2>3. ASSUME NEW w \in Works, queue_work(c, w), ~Accepts(w)
        PROVE  NoLostWakeup'
    BY <1>e, <2>3 DEF queue_work
  <2>4. ASSUME NEW w \in Works, flush_work(c, w)
        PROVE  NoLostWakeup'
    BY <1>e, <2>4 DEF flush_work
  <2>5. CASE FlushReturn(c)
    BY <1>e, <2>5 DEF FlushReturn
  <2>. QED BY <1>3, <2>1, <2>2, <2>3, <2>4, <2>5 DEF Call, FinishCall
<1>4. CASE OwnerStep \/ OwnerChoice
  <2>1. UNCHANGED Waiting
    BY <1>4, <1>e DEF OwnerStep, OwnerChoice, ownerFrame, works
  <2>2. \A u \in Threads : pc[u] \in Awake => pc'[u] \in Awake
    <3>1. CASE CreateWorker
      BY <3>1 DEF CreateWorker, Goto, Awake
    <3>2. CASE ~CreateWorker
      BY <1>4, <1>d, <3>2 DEF OwnerStep, OwnerChoice, SetUp, InitDone, UndoPoll, UndoCond, WaitWorkerExit,
         LastLock, ClosePoll, FreeSync, RefuseInit, CreateFails, CloseStart, Poll, PollSignal, OwnerGoto
    <3>. QED BY <3>1, <3>2
  <2>. QED BY <2>1, <2>2
<1>5. CASE Stopped \/ UNCHANGED vars
  BY <1>e, <1>5 DEF Stopped, vars, works
<1>. QED BY <1>1, <1>2, <1>3, <1>4, <1>5 DEF Next

-----------------------------------------------------------------------------
(* The inductive invariant and what follows from it.                       *)

LEMMA InitIInv == Init => IInv
<1>. SUFFICES ASSUME Init
              PROVE  IInv
  OBVIOUS
<1>. USE ConstantsAssumption DEF Init
<1>1. TypeOK
  <2>1. <<>> \in Seq(Works)
    BY EmptySeq
  <2>2. 0 \in 0..NProcs /\ 0 \in 0..MaxCalls /\ 0 \in 0..MaxSpurious
    OBVIOUS
  <2>. QED BY <2>1, <2>2 DEF TypeOK, Locations, OwnerLocations
<1>2. \A L : "unborn" \notin L => Count(pc, L) = 0
  BY CountZero
<1>3. CountersExact
  BY <1>2 DEF CountersExact, At, Count, Referenced, Counted, Idle
<1>4. LockHeld /\ CurrMatches
  BY DEF LockHeld, Holding, CurrMatches
<1>5. WorkOnce
  <2>1. DOMAIN work_list = {}
    BY EmptySeq, LenProperties
  <2>2. Listed = {} /\ Processed = {}
    BY <2>1 DEF Listed, Processed
  <2>. QED BY <2>1, <2>2 DEF WorkOnce, Waiting
<1>6. OwnerMatches /\ ListMatches /\ WorkersMatch
  BY DEF OwnerMatches, ListMatches, WorkersMatch, UndoLocations, CloseLocations, At,
         Living, Referenced, Counted, Idle
<1>7. InitOwnsRefCount /\ UndoBounded /\ PoolFloor /\ NoLostWakeup
  <2>1. DOMAIN work_list = {}
    BY EmptySeq, LenProperties
  <2>. QED BY <2>1 DEF InitOwnsRefCount, UndoBounded, UndoLocations, PoolFloor, NoLostWakeup, Waiting, Listed
<1>8. ThreadsBounded
  <2>1. "unborn" \notin Living
    BY DEF Living, Referenced, Counted, Idle
  <2>2. Cardinality(At(Living)) = 0
    BY <1>2, <2>1 DEF At, Count
  <2>. QED BY <2>2, MaxCoversFloor DEF ThreadsBounded
<1>. QED BY <1>1, <1>3, <1>4, <1>5, <1>6, <1>7, <1>8 DEF IInv

LEMMA NextIInv == IInv /\ [Next]_vars => IInv'
BY LockStep, CountersStep, TypeStep, WorksStep, OwnerMatchesStep, ListStep, WorkersStep,
   BoundStep, FloorStep, WakeupStep DEF IInv

\* IInv, the conjunction of the invariants and of what the owner's location
\* says of the workers, holds in every reachable state.
THEOREM Inductive == SafeSpec => []IInv
BY InitIInv, NextIInv, PTL DEF SafeSpec

\* Every variable keeps its type; in particular no counter goes below 0.
THEOREM TypeCorrect == SafeSpec => []TypeOK
BY Inductive, PTL DEF IInv

\* nr_worker, ref_count and nr_idle_worker are exact at every step.
THEOREM CountersAreExact == SafeSpec => []CountersExact
BY Inductive, PTL DEF IInv

\* The pool stays within nr_max_worker threads.
THEOREM PoolStaysInBounds == SafeSpec => []ThreadsBounded
BY Inductive, PTL DEF IInv

\* A live pool keeps the workers init_workqueue created.
THEOREM PoolKeepsItsFloor == SafeSpec => []PoolFloor
BY Inductive, PTL DEF IInv

\* The unlocked increments of ref_count in init_workqueue are not disturbed.
THEOREM InitIsUndisturbed == SafeSpec => []InitOwnsRefCount
BY Inductive, PTL DEF IInv

\* Critical sections of wq->lock exclude each other, queue_work's included.
THEOREM MutualExclusion == SafeSpec => []LockHeld
BY Inductive, PTL DEF IInv

\* A work is in the list once, or in the hands of one worker, exactly while
\* work->wq is set; only the work that a queue_work is just linking is in the
\* list without it.
THEOREM WorksAreKept == SafeSpec => []WorkOnce
BY Inductive, PTL DEF IInv

\* With works in the list whose queue_work has returned a worker is awake.
THEOREM WakeupsSuffice == SafeSpec => []NoLostWakeup
BY Inductive, PTL DEF IInv

\* The mutex is destroyed after the last worker has left it.
THEOREM LockOutlives == SafeSpec => []LockOutlivesWorkers
<1>1. IInv => LockOutlivesWorkers
  <2>. SUFFICES ASSUME IInv, At(Living) # {}
                PROVE  "lock" \in live
    BY DEF LockOutlivesWorkers
  <2>1. owner \notin {"start", "failed", "destroyed"}
    BY DEF IInv, WorkersMatch
  <2>. QED BY <2>1 DEF IInv, OwnerMatches
<1>. QED BY <1>1, Inductive, PTL

\* When destroy_workqueue returns, every work is done and every worker gone.
THEOREM DestroyIsComplete == SafeSpec => []DestroyedMeansDone
<1>1. IInv => DestroyedMeansDone
  <2>. SUFFICES ASSUME IInv, owner = "destroyed"
                PROVE  /\ \A w \in Works : ~on_wq[w]
                       /\ work_list = <<>> /\ At(Living) = {} /\ nr_idle_worker = 0
    BY DEF DestroyedMeansDone
  <2>1. work_list = <<>> /\ At(Living) = {}
    BY DEF IInv, ListMatches, WorkersMatch
  <2>2. Processed = {}
    BY <2>1 DEF IInv, CurrMatches, Processed, At, Living, Referenced, Counted
  <2>3. Listed = {}
    <3>1. DOMAIN work_list = {}
      BY <2>1, EmptySeq, LenProperties
    <3>. QED BY <3>1 DEF Listed
  <2>4. nr_idle_worker = 0
    <3>1. \A u \in Threads : pc[u] \notin Idle
      BY <2>1 DEF At, Living, Referenced, Counted
    <3>. QED BY <3>1, CountZero DEF IInv, CountersExact, At, Count
  <2>. QED BY <2>1, <2>2, <2>3, <2>4 DEF IInv, WorkOnce, Waiting
<1>. QED BY <1>1, Inductive, PTL

\* When flush_work returns, no worker runs the work, and if it is in the list a
\* queue_work that has not returned is just linking it.
THEOREM FlushIsSound == SafeSpec => FlushMeansFinished
<1>1. IInv /\ IInv' /\ [Next]_vars
        => [\A c \in Clients \cup Threads :
              flushing[c] # NoWork /\ flushing'[c] = NoWork
                => /\ flushing[c] \notin Processed'
                   /\ flushing[c] \in Listed' => linking' = flushing[c]]_vars
  <2>. SUFFICES ASSUME IInv, IInv', Next, NEW c \in Clients \cup Threads,
                       flushing[c] # NoWork, flushing'[c] = NoWork
                PROVE  /\ flushing[c] \notin Processed'
                       /\ flushing[c] \in Listed' => linking' = flushing[c]
    BY DEF vars
  <2>0. flushing \in [Clients \cup Threads -> Works \cup {NoWork}] /\ NoWork \notin Works
    BY ConstantsAssumption DEF IInv, TypeOK
  <2>1. FlushReturn(c)
    <3>1. ASSUME NEW t \in Threads, WorkerStep(t) \/ SpuriousWakeup(t)
          PROVE  FALSE
      BY <3>1 DEF WorkerStep, SpuriousWakeup, works, Start, WakeUp, TakeWork, FuncReturn, Relock,
                  Leave, DropRef, Exit, Sleep, Resume
    <3>2. ASSUME OwnerStep \/ OwnerChoice \/ Stopped
          PROVE  FALSE
      BY <3>2 DEF OwnerStep, OwnerChoice, Stopped, ownerFrame, vars, works
    <3>3. PICK d \in Clients \cup Threads : Call(d)
      BY <3>1, <3>2 DEF Next
    <3>4. ASSUME NEW w \in Works, queue_work(d, w)
          PROVE  FALSE
      BY <3>4 DEF queue_work
    <3>5. ASSUME NEW w \in Works, flush_work(d, w)
          PROVE  FALSE
      BY <2>0, <3>5 DEF flush_work
    <3>6. ~SetWq(d)
      BY DEF SetWq
    <3>7. FlushReturn(d)
      BY <3>3, <3>4, <3>5, <3>6 DEF Call, FinishCall
    <3>. QED BY <2>0, <3>7 DEF FlushReturn
  <2>2. flushing[c] \in Works /\ ~on_wq'[flushing[c]]
    BY <2>0, <2>1 DEF FlushReturn
  <2>. QED BY <2>2 DEF IInv, WorkOnce, Waiting
<1>. QED BY <1>1, Inductive, PTL DEF SafeSpec, FlushMeansFinished

-----------------------------------------------------------------------------
(* The workqueue implements the pool of WorkPool.                          *)

\* Nothing is in anyone's hands where no worker runs a function.
LEMMA NobodyRuns ==
  ASSUME CurrMatches, At({"func"}) = {}
  PROVE  Processed = {}
BY DEF CurrMatches, Processed, At

\* Taking a work puts it, and nothing else, into the hands of a worker.
LEMMA TakeWorkBegins ==
  ASSUME IInv, NEW t \in Threads, TakeWork(t)
  PROVE  Processed' = Processed \cup {Head(work_list)}
<1>1. /\ curr \in [Threads -> Works \cup {NoWork}] /\ NoWork \notin Works
      /\ curr[t] = NoWork /\ work_list \in Seq(Works) /\ work_list # <<>>
      /\ curr' = [curr EXCEPT ![t] = Head(work_list)]
  BY ConstantsAssumption DEF IInv, TypeOK, CurrMatches, TakeWork, Goto
<1>2. Head(work_list) \in Works
  BY <1>1, HeadTailProperties
<1>. QED BY <1>1, <1>2 DEF Processed

\* Returning from the function takes it out of the hands of the only worker
\* that has it.
LEMMA FuncReturnFinishes ==
  ASSUME IInv, NEW t \in Threads, FuncReturn(t)
  PROVE  /\ curr[t] \in Works /\ curr[t] \in Processed
         /\ Processed' = Processed \ {curr[t]}
<1>1. /\ curr \in [Threads -> Works \cup {NoWork}] /\ NoWork \notin Works
      /\ curr[t] # NoWork /\ curr' = [curr EXCEPT ![t] = NoWork]
  BY ConstantsAssumption DEF IInv, TypeOK, CurrMatches, FuncReturn, Goto
<1>2. \A u \in Threads \ {t} : curr[u] # curr[t]
  BY <1>1 DEF IInv, WorkOnce
<1>. QED BY <1>1, <1>2 DEF Processed

\* A work is accepted only while the workqueue is ready, also from a function.
LEMMA AcceptedOnlyWhenReady ==
  ASSUME IInv, NEW c \in Clients \cup Threads, MayCall(c), alive
  PROVE  owner = "ready"
<1>1. CASE c \in Clients
  BY <1>1 DEF MayCall
<1>2. CASE c \notin Clients
  <2>1. c \in Threads /\ pc[c] = "func"
    BY <1>2 DEF MayCall
  <2>. QED BY <2>1 DEF IInv, TypeOK, OwnerMatches, ListMatches, At, OwnerLocations, UndoLocations, CloseLocations
<1>. QED BY <1>1, <1>2

\* Each step is a step of the pool, or leaves what the pool sees unchanged.
LEMMA StepRefines ==
  ASSUME IInv, [Next]_vars
  PROVE  [Pool!Next]_(Pool!vars)
<1>0. ASSUME UNCHANGED <<work_list, curr, owner>>
      PROVE  UNCHANGED Pool!vars
  BY <1>0 DEF Pool!vars, Processed, Phase
<1>1. ASSUME NEW t \in Threads, WorkerStep(t)
      PROVE  Pool!Next \/ UNCHANGED Pool!vars
  <2>1. UNCHANGED owner
    BY <1>1 DEF WorkerStep, lifecycle
  <2>2. CASE TakeWork(t)
    <3>1. Processed' = Processed \cup {Head(work_list)}
      BY <2>2, TakeWorkBegins
    <3>2. work_list # <<>> /\ work_list' = Tail(work_list) /\ UNCHANGED Phase
      BY <2>1, <2>2 DEF TakeWork, Phase
    <3>. QED BY <3>1, <3>2 DEF Pool!Next, Pool!Begin
  <2>3. CASE FuncReturn(t)
    <3>1. curr[t] \in Works /\ curr[t] \in Processed /\ Processed' = Processed \ {curr[t]}
      BY <2>3, FuncReturnFinishes
    <3>2. UNCHANGED <<work_list, Phase>>
      BY <2>1, <2>3 DEF FuncReturn, Phase
    <3>. QED BY <3>1, <3>2 DEF Pool!Next, Pool!Finish
  <2>4. CASE \/ Start(t) \/ WakeUp(t) \/ Relock(t) \/ Leave(t)
             \/ DropRef(t) \/ Exit(t) \/ Sleep(t) \/ Resume(t)
    BY <1>0, <2>1, <2>4 DEF Start, WakeUp, Relock, Leave, DropRef, Exit, Sleep, Resume, works
  <2>. QED BY <1>1, <2>2, <2>3, <2>4 DEF WorkerStep
<1>2. ASSUME NEW t \in Threads, SpuriousWakeup(t)
      PROVE  UNCHANGED Pool!vars
  BY <1>0, <1>2 DEF SpuriousWakeup, works, lifecycle
<1>3. ASSUME NEW c \in Clients \cup Threads, Call(c)
      PROVE  Pool!Next \/ UNCHANGED Pool!vars
  <2>1. ASSUME NEW w \in Works, queue_work(c, w), Accepts(w)
        PROVE  Pool!Next
    <3>1. /\ ~on_wq[w] /\ alive /\ MayCall(c) /\ lock = Free
          /\ work_list' = Append(work_list, w) /\ UNCHANGED <<curr, owner>>
      BY <2>1 DEF queue_work, Accepts, list_add_tail, lifecycle
    <3>2. Phase = "open"
      <4>1. owner = "ready"
        BY <3>1, AcceptedOnlyWhenReady
      <4>. QED BY <4>1 DEF Phase, CloseLocations
    <3>3. w \notin Pool!Queued \cup Processed
      <4>1. Waiting = Listed
        BY <3>1, NothingLinked DEF IInv
      <4>. QED BY <3>1, <4>1 DEF IInv, WorkOnce, Listed, Pool!Queued
    <3>4. UNCHANGED <<Processed, Phase>>
      BY <3>1 DEF Processed, Phase
    <3>. QED BY <3>1, <3>2, <3>3, <3>4 DEF Pool!Next, Pool!Submit
  <2>2. ASSUME NEW w \in Works, queue_work(c, w), ~Accepts(w)
        PROVE  UNCHANGED Pool!vars
    BY <1>0, <2>2 DEF queue_work, lifecycle
  <2>3. ASSUME NEW w \in Works, flush_work(c, w)
        PROVE  UNCHANGED Pool!vars
    BY <1>0, <2>3 DEF flush_work, lifecycle
  <2>4. CASE FlushReturn(c)
    BY <1>0, <2>4 DEF FlushReturn, lifecycle
  <2>5. CASE SetWq(c)
    BY <1>0, <2>5 DEF SetWq, lifecycle
  <2>. QED BY <1>3, <2>1, <2>2, <2>3, <2>4, <2>5 DEF Call, FinishCall
<1>4. CASE OwnerStep \/ OwnerChoice
  <2>0. UNCHANGED <<work_list, Processed>>
    BY <1>4 DEF OwnerStep, OwnerChoice, ownerFrame, works, Processed
  <2>a. UNCHANGED Phase => UNCHANGED Pool!vars
    BY <2>0 DEF Pool!vars
  <2>1. CASE InitDone
    <3>1. Phase = "off" /\ Phase' = "open"
      BY <2>1 DEF InitDone, OwnerGoto, Phase, CloseLocations
    <3>. QED BY <2>0, <3>1 DEF Pool!Next, Pool!Open
  <2>2. CASE CloseStart
    <3>1. Phase = "open" /\ Phase' = "closing"
      BY <2>2 DEF CloseStart, OwnerGoto, Phase, CloseLocations
    <3>. QED BY <2>0, <3>1 DEF Pool!Next, Pool!Close
  <2>3. CASE FreeSync
    <3>1. CASE owner = "undo_free"
      <4>1. UNCHANGED Phase
        BY <2>3, <3>1 DEF FreeSync, OwnerGoto, Phase, CloseLocations
      <4>. QED BY <2>a, <4>1
    <3>2. CASE owner = "close_free"
      <4>1. Phase = "closing" /\ Phase' = "down"
        BY <2>3, <3>2 DEF FreeSync, OwnerGoto, Phase, CloseLocations
      <4>2. work_list = <<>> /\ At({"func"}) = {}
        BY <3>2 DEF IInv, ListMatches, WorkersMatch, CloseLocations, At, Living, Referenced, Counted
      <4>3. Processed = {}
        BY <4>2, NobodyRuns DEF IInv
      <4>. QED BY <2>0, <4>1, <4>2, <4>3 DEF Pool!Next, Pool!GoDown
    <3>. QED BY <2>3, <3>1, <3>2 DEF FreeSync, OwnerGoto
  <2>4. CASE SetUp \/ CreateWorker \/ UndoPoll \/ UndoCond \/ WaitWorkerExit \/ LastLock \/ ClosePoll
    <3>1. UNCHANGED Phase
      BY <2>4 DEF SetUp, CreateWorker, UndoPoll, UndoCond, WaitWorkerExit, LastLock, ClosePoll, Poll,
                  OwnerGoto, Phase, CloseLocations
    <3>. QED BY <2>a, <3>1
  <2>5. CASE RefuseInit \/ CreateFails
    <3>1. UNCHANGED Phase
      BY <2>5 DEF RefuseInit, CreateFails, OwnerGoto, Phase, CloseLocations
    <3>. QED BY <2>a, <3>1
  <2>. QED BY <1>4, <2>1, <2>2, <2>3, <2>4, <2>5 DEF OwnerStep, OwnerChoice
<1>5. CASE Stopped \/ UNCHANGED vars
  BY <1>0, <1>5 DEF Stopped, vars, works, lifecycle
<1>. QED BY <1>1, <1>2, <1>3, <1>4, <1>5 DEF Next

\* The workqueue implements the abstract pool: works run once each in the order
\* in which they were queued, none is accepted after destroy_workqueue began,
\* and it returns only when all of them are finished.
THEOREM Refinement == SafeSpec => ImplementsPoolSafely
<1>1. Init => Pool!Init
  <2>. SUFFICES ASSUME Init
                PROVE  Pool!Init
    OBVIOUS
  <2>1. work_list = <<>> /\ Phase = "off"
    BY DEF Init, Phase, CloseLocations
  <2>2. Processed = {}
    BY DEF Init, Processed
  <2>. QED BY <2>1, <2>2 DEF Pool!Init
<1>2. IInv /\ [Next]_vars => [Pool!Next]_(Pool!vars)
  BY StepRefines
<1>. QED BY <1>1, <1>2, Inductive, PTL DEF SafeSpec, ImplementsPoolSafely, Pool!SafeSpec
=============================================================================
