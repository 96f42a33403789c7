--------------------------- MODULE TwoQueuesProofs ---------------------------
(***************************************************************************)
(* A work is in one place and each queue for itself is a pool, proved for  *)
(* every number of workqueues, works, callers and workers.                 *)
(*                                                                         *)
(* Nothing in the program says in which ring a node is.  The proof gives   *)
(* each node an owner: the queue in whose ring it is, or itself when it is *)
(* a ring of its own.  The owner of a work changes under the lock of the   *)
(* queue that gets or loses it, and work->wq tells the other queues.       *)
(***************************************************************************)
EXTENDS TwoQueuesProperties, DataTheorems, FiniteSetTheorems, TLAPS

All == Queues \cup Works

LinksTyped == next \in [All -> All] /\ prev \in [All -> All]
Rings == LinksTyped /\ \A x \in All : next[prev[x]] = x /\ prev[next[x]] = x

\* Who owns a node.
OwnedBy(own) ==
    /\ own \in [All -> All]
    /\ \A q \in Queues : own[q] = q
    /\ \A x \in All : own[next[x]] = own[x]
    /\ \A w \in Works : own[w] \in Queues \/ (own[w] = w /\ next[w] = w)

-----------------------------------------------------------------------------
(* The rings.                                                              *)

LEMMA RingsAreMutual == Rings <=> LinksTyped /\ Mutual(All, next, prev)
  BY DEF Rings, LinksTyped, Mutual

LEMMA DelTakesOut ==
    ASSUME Rings, NEW w \in Works, Ring!list_del_init(w)
    PROVE  LinksTyped' /\ TakenOut(All, next, prev, next', prev', w)
<1>1. /\ w \in All /\ prev[w] \in All /\ next[w] \in All /\ next[prev[w]] = w /\ prev[next[w]] = w
      /\ next \in [All -> All] /\ prev \in [All -> All]
  BY DEF Rings, LinksTyped, All
<1>2. /\ next' = [[next EXCEPT ![prev[w]] = next[w]] EXCEPT ![w] = w]
      /\ prev' = [[prev EXCEPT ![next[w]] = prev[w]] EXCEPT ![w] = w]
  BY DEF Ring!list_del_init, Ring!Unlinked
<1>3. LinksTyped'
  BY <1>1, <1>2 DEF LinksTyped
<1>. QED  BY <1>1, <1>2, <1>3 DEF TakenOut

LEMMA DelKeepsRings ==
    ASSUME Rings, NEW w \in Works, Ring!list_del_init(w) PROVE Rings'
<1>1. Mutual(All, next, prev) /\ w \in All
  BY RingsAreMutual DEF All
<1>2. LinksTyped' /\ TakenOut(All, next, prev, next', prev', w)
  BY DelTakesOut
<1>3. Mutual(All, next', prev')
  BY <1>1, <1>2, TakeKeepsMutual
<1>. QED  BY <1>2, <1>3 DEF Rings, LinksTyped, Mutual

LEMMA AddPutsBehind ==
    ASSUME TwoQueuesAssumption, Rings, NEW w \in Works, NEW q \in Queues, next[w] = w, Ring!list_add_tail(w, q)
    PROVE  LinksTyped' /\ PutBehind(All, next, prev, next', prev', w, prev[q])
<1>1. /\ w \in All /\ q \in All /\ q # w /\ prev[q] \in All /\ prev[q] # w /\ next[prev[q]] = q
      /\ next \in [All -> All] /\ prev \in [All -> All]
  BY DEF TwoQueuesAssumption, Rings, LinksTyped, All
<1>2. /\ next' = [next EXCEPT ![w] = q, ![prev[q]] = w]
      /\ prev' = [prev EXCEPT ![q] = w, ![w] = prev[q]]
  BY DEF Ring!list_add_tail, Ring!link_between
<1>3. LinksTyped'
  BY <1>1, <1>2 DEF LinksTyped
<1>. QED  BY <1>1, <1>2, <1>3 DEF PutBehind

LEMMA AddKeepsRings ==
    ASSUME TwoQueuesAssumption, Rings, NEW w \in Works, NEW q \in Queues, next[w] = w, Ring!list_add_tail(w, q)
    PROVE  Rings'
<1>1. Mutual(All, next, prev) /\ w \in All /\ prev[q] \in All
  BY RingsAreMutual DEF All, LinksTyped
<1>2. LinksTyped' /\ PutBehind(All, next, prev, next', prev', w, prev[q])
  BY AddPutsBehind
<1>3. Mutual(All, next', prev')
  BY <1>1, <1>2, PutKeepsMutual
<1>. QED  BY <1>2, <1>3 DEF Rings, LinksTyped, Mutual

\* The first node behind a queue is its own.
LEMMA FirstIsOwned ==
    ASSUME TwoQueuesAssumption, Rings, NEW own, OwnedBy(own), NEW q \in Queues, next[q] # q
    PROVE  next[q] \in Works /\ own[next[q]] = q
<1>1. q \in All /\ next[q] \in All /\ own[next[q]] = q
  BY DEF Rings, LinksTyped, OwnedBy, All
<1>. QED  BY <1>1 DEF OwnedBy, All

\* A work that is added gets its queue for owner.
LEMMA AddOwned ==
    ASSUME TwoQueuesAssumption, Rings, NEW own, OwnedBy(own), NEW w \in Works, NEW q \in Queues,
           next[w] = w, Ring!list_add_tail(w, q)
    PROVE  OwnedBy([own EXCEPT ![w] = q])'
<1> DEFINE new == [own EXCEPT ![w] = q]
           p == prev[q]
<1>1. /\ w \in All /\ q \in All /\ p \in All /\ w # q /\ p # w /\ next[p] = q /\ prev[w] = w
      /\ own \in [All -> All] /\ next \in [All -> All]
  BY DEF TwoQueuesAssumption, Rings, LinksTyped, OwnedBy, All
<1>2. next' = [next EXCEPT ![w] = q, ![p] = w]
  BY DEF Ring!list_add_tail, Ring!link_between
<1> HIDE DEF p
<1>3. next'[w] = q /\ next'[p] = w /\ \A x \in All : x # w /\ x # p => next'[x] = next[x]
  BY <1>1, <1>2
<1>4. new \in [All -> All] /\ new[w] = q /\ \A x \in All : x # w => new[x] = own[x]
  BY <1>1
<1> HIDE DEF new
<1>5. \A v \in Queues : new[v] = v
  BY <1>4 DEF TwoQueuesAssumption, OwnedBy, All
<1>6. ASSUME NEW x \in All PROVE new[next'[x]] = new[x]
  <2>1. CASE x = w
    BY <1>3, <1>4, <1>5, <2>1
  <2>2. CASE x = p
    BY <1>1, <1>3, <1>4, <2>2 DEF OwnedBy
  <2>3. CASE x # w /\ x # p
    <3>1. next'[x] = next[x] /\ next[x] \in All
      BY <1>1, <1>3, <2>3
    <3>2. next[x] # w
      BY <1>1, <2>3 DEF Rings
    <3>. QED  BY <1>4, <2>3, <3>1, <3>2 DEF OwnedBy
  <2>. QED  BY <2>1, <2>2, <2>3
<1>7. ASSUME NEW v \in Works PROVE new[v] \in Queues \/ (new[v] = v /\ next'[v] = v)
  <2>1. CASE v = w
    BY <1>4, <2>1
  <2>2. CASE v = p /\ v # w
    BY <1>1, <1>4, <2>2 DEF OwnedBy
  <2>3. CASE v # p /\ v # w
    BY <1>3, <1>4, <2>3 DEF OwnedBy, All
  <2>. QED  BY <2>1, <2>2, <2>3
<1>. QED  BY <1>4, <1>5, <1>6, <1>7 DEF OwnedBy, new

\* One that is taken out owns itself.
LEMMA DelOwned ==
    ASSUME TwoQueuesAssumption, Rings, NEW own, OwnedBy(own), NEW w \in Works, Ring!list_del_init(w)
    PROVE  OwnedBy([own EXCEPT ![w] = w])'
<1> DEFINE new == [own EXCEPT ![w] = w]
           p == prev[w]
           n == next[w]
<1>1. /\ w \in All /\ p \in All /\ n \in All /\ next[p] = w /\ prev[n] = w
      /\ own \in [All -> All] /\ next \in [All -> All]
  BY DEF Rings, LinksTyped, OwnedBy, All
<1>2. next' = [[next EXCEPT ![p] = n] EXCEPT ![w] = w]
  BY DEF Ring!list_del_init, Ring!Unlinked
<1>3. (p = w) <=> (n = w)
  BY <1>1
<1>9. own[n] = own[w] /\ own[p] = own[w]
  BY <1>1 DEF OwnedBy
<1>10. \A x \in All : next[x] = w => x = p
  BY DEF Rings
<1> HIDE DEF p, n
<1>4. next'[w] = w /\ (p # w => next'[p] = n) /\ \A x \in All : x # w /\ x # p => next'[x] = next[x]
  BY <1>1, <1>2
<1>5. new \in [All -> All] /\ new[w] = w /\ \A x \in All : x # w => new[x] = own[x]
  BY <1>1
<1> HIDE DEF new
<1>6. \A v \in Queues : new[v] = v
  BY <1>5 DEF TwoQueuesAssumption, OwnedBy, All
<1>7. ASSUME NEW x \in All PROVE new[next'[x]] = new[x]
  <2>1. CASE x = w
    BY <1>4, <2>1
  <2>2. CASE x = p /\ x # w
    BY <1>1, <1>3, <1>4, <1>5, <1>9, <2>2
  <2>3. CASE x # w /\ x # p
    <3>1. next'[x] = next[x] /\ next[x] \in All /\ next[x] # w
      BY <1>1, <1>4, <1>10, <2>3
    <3>. QED  BY <1>5, <2>3, <3>1 DEF OwnedBy
  <2>. QED  BY <2>1, <2>2, <2>3
<1>8. ASSUME NEW v \in Works PROVE new[v] \in Queues \/ (new[v] = v /\ next'[v] = v)
  <2>1. CASE v = w
    BY <1>4, <1>5, <2>1
  <2>2. CASE v = p /\ v # w
    BY <1>1, <1>5, <2>2 DEF OwnedBy
  <2>3. CASE v # p /\ v # w
    BY <1>4, <1>5, <2>3 DEF OwnedBy, All
  <2>. QED  BY <2>1, <2>2, <2>3
<1>. QED  BY <1>5, <1>6, <1>7, <1>8 DEF OwnedBy, new

-----------------------------------------------------------------------------
(* The inductive invariant.                                                *)

Threads == Callers \cup Workers

Typed ==
    /\ wq \in [Works -> Queues \cup {NULL}]
    /\ lock \in [Queues -> Callers \cup {NULL}]
    /\ pc \in [Threads -> {"out", "test", "link", "set", "unlock", "func"}]
    /\ queue \in [Callers -> Queues \cup {NULL}]
    /\ work \in [Threads -> Works \cup {NULL}]

\* A caller holds the lock of the queue it is at, no other is there with the same
\* work, and one that is about to link its work has found work->wq clear.
CallersMatch ==
    /\ \A c \in Callers :
         /\ pc[c] = "out" <=> work[c] = NULL
         /\ pc[c] # "out" => queue[c] \in Queues /\ lock[queue[c]] = c
         /\ pc[c] = "link" => wq[work[c]] = NULL
    /\ \A c, d \in Callers : c # d /\ work[c] = work[d] => work[c] = NULL

\* A work is run by one worker, with work->wq set, and is in no list then.
WorkersMatch(own) ==
    /\ \A k \in Workers :
         /\ pc[k] = "func" <=> work[k] # NULL
         /\ work[k] # NULL => wq[work[k]] # NULL /\ own[work[k]] = work[k]
    /\ \A j, k \in Workers : j # k /\ work[j] = work[k] => work[k] = NULL

\* A work in a list has its work->wq set, or its caller is about to set it and
\* still holds the lock of the list.
LinkedIsSet(own) ==
    \A w \in Works :
      own[w] \in Queues =>
        wq[w] # NULL \/ \E c \in Callers : pc[c] = "set" /\ work[c] = w /\ queue[c] = own[w]

PlacesOwned(own) == OwnedBy(own) /\ WorkersMatch(own) /\ LinkedIsSet(own)

PInv == Rings /\ Typed /\ CallersMatch /\ \E own : PlacesOwned(own)

LEMMA InitPInv == ASSUME TwoQueuesAssumption, Init PROVE PInv
<1>1. Rings /\ Typed /\ CallersMatch
  BY DEF TwoQueuesAssumption, Init, Rings, LinksTyped, All, Typed, Threads, CallersMatch
<1>2. PlacesOwned([x \in All |-> x])
  BY DEF TwoQueuesAssumption, Init, PlacesOwned, OwnedBy, WorkersMatch, LinkedIsSet, All, Threads
<1>. QED  BY <1>1, <1>2 DEF PInv

\* The rings and their owners do not change with the rest.
LEMMA LinksStay ==
    ASSUME Rings, UNCHANGED links
    PROVE  Rings' /\ \A own : OwnedBy(own) => OwnedBy(own)'
  BY DEF links, Rings, LinksTyped, OwnedBy

LEMMA EnterStep ==
    ASSUME TwoQueuesAssumption, PInv, NEW c \in Callers, NEW q \in Queues, NEW w \in Works, Enter(c, q, w)
    PROVE  PInv'
<1>1. PICK own : PlacesOwned(own)
  BY DEF PInv
<1>2. Rings' /\ OwnedBy(own)'
  BY <1>1, LinksStay DEF PInv, PlacesOwned, Enter
<1>3. /\ pc[c] = "out" /\ pc' = [pc EXCEPT ![c] = "test"] /\ lock[q] = NULL /\ lock' = [lock EXCEPT ![q] = c]
      /\ queue' = [queue EXCEPT ![c] = q] /\ work' = [work EXCEPT ![c] = w] /\ wq' = wq
      /\ \A d \in Callers \ {c} : work[d] # w
  BY DEF Enter, Goto, Serial
<1>4. /\ Callers \cap Workers = {} /\ NULL \notin Works /\ NULL \notin Callers
  BY DEF TwoQueuesAssumption
<1>5. Typed'
  BY <1>3 DEF PInv, Typed, Threads
<1>6. CallersMatch'
  BY <1>3, <1>4 DEF PInv, Typed, Threads, CallersMatch
<1>7. WorkersMatch(own)' /\ LinkedIsSet(own)'
  BY <1>1, <1>3, <1>4 DEF PInv, PlacesOwned, Typed, Threads, WorkersMatch, LinkedIsSet
<1>. QED  BY <1>2, <1>5, <1>6, <1>7 DEF PInv, PlacesOwned

LEMMA TestStep ==
    ASSUME TwoQueuesAssumption, PInv, NEW c \in Callers, Test(c) PROVE PInv'
<1>1. PICK own : PlacesOwned(own)
  BY DEF PInv
<1>2. Rings' /\ OwnedBy(own)'
  BY <1>1, LinksStay DEF PInv, PlacesOwned, Test
<1>3. /\ pc[c] = "test" /\ pc' = [pc EXCEPT ![c] = IF Accepted(queue[c], work[c]) THEN "link" ELSE "unlock"]
      /\ UNCHANGED <<wq, lock, queue, work>>
  BY DEF Test, Goto, args
<1>4. pc' = [pc EXCEPT ![c] = pc'[c]] /\ pc'[c] \in {"link", "unlock"} /\ (pc'[c] = "link" => wq[work[c]] = NULL)
  BY <1>3 DEF PInv, Typed, Threads, Accepted
<1>5. Callers \cap Workers = {}
  BY DEF TwoQueuesAssumption
<1>6. Typed'
  BY <1>3, <1>4 DEF PInv, Typed, Threads
<1>7. CallersMatch'
  BY <1>3, <1>4 DEF PInv, Typed, Threads, CallersMatch
<1>8. WorkersMatch(own)' /\ LinkedIsSet(own)'
  BY <1>1, <1>3, <1>4, <1>5 DEF PInv, PlacesOwned, Typed, Threads, WorkersMatch, LinkedIsSet
<1>. QED  BY <1>2, <1>6, <1>7, <1>8 DEF PInv, PlacesOwned

\* A work that is about to be linked is in no list and in nobody's hands.
LEMMA LinkStep ==
    ASSUME TwoQueuesAssumption, PInv, NEW c \in Callers, Link(c) PROVE PInv'
<1>w. work[c] \in Works /\ queue[c] \in Queues
  BY DEF Link, Goto, PInv, Typed, Threads, CallersMatch
<1>1. PICK own : PlacesOwned(own)
  BY DEF PInv
<1>0. PICK w \in Works, q \in Queues : w = work[c] /\ q = queue[c]
  BY <1>w
<1> DEFINE new == [own EXCEPT ![w] = q]
<1>2. /\ pc[c] = "link" /\ pc' = [pc EXCEPT ![c] = "set"] /\ Ring!list_add_tail(w, q)
      /\ UNCHANGED <<wq, lock, queue, work>>
  BY <1>0 DEF Link, Goto, args
<1>3. wq[w] = NULL
  BY <1>0, <1>2 DEF PInv, CallersMatch
<1>4. own[w] \notin Queues
  BY <1>0, <1>1, <1>2, <1>3 DEF PInv, PlacesOwned, LinkedIsSet, CallersMatch, TwoQueuesAssumption
<1>5. next[w] = w /\ own[w] = w /\ own \in [All -> All]
  BY <1>1, <1>3, <1>4 DEF PlacesOwned, OwnedBy
<1>6. Rings' /\ OwnedBy(new)'
  BY <1>1, <1>2, <1>3, <1>5, AddKeepsRings, AddOwned DEF PInv, PlacesOwned
<1>7. Callers \cap Workers = {}
  BY DEF TwoQueuesAssumption
<1>8. Typed'
  BY <1>2 DEF PInv, Typed, Threads
<1>9. CallersMatch'
  BY <1>2 DEF PInv, Typed, Threads, CallersMatch
<1>10. new[w] = q /\ \A v \in Works : v # w => new[v] = own[v]
  BY <1>3, <1>5 DEF All
<1> HIDE DEF new
<1>11. WorkersMatch(new)'
  <2>1. \A k \in Workers : pc'[k] = pc[k] /\ work'[k] = work[k] /\ work[k] # w
    BY <1>1, <1>2, <1>3, <1>7 DEF PInv, PlacesOwned, Typed, Threads, WorkersMatch
  <2>2. \A k \in Workers : work[k] # NULL => work[k] \in Works
    BY DEF PInv, Typed, Threads
  <2>. QED  BY <1>1, <1>2, <1>10, <2>1, <2>2 DEF PlacesOwned, WorkersMatch
<1>12. LinkedIsSet(new)'
  <2>1. ASSUME NEW v \in Works, new[v] \in Queues
        PROVE  wq'[v] # NULL \/ \E d \in Callers : pc'[d] = "set" /\ work'[d] = v /\ queue'[d] = new[v]
    <3>1. CASE v = w
      <4>1. pc'[c] = "set" /\ work'[c] = v /\ queue'[c] = new[v]
        BY <1>0, <1>2, <1>10, <3>1 DEF PInv, Typed, Threads
      <4>. QED  BY <4>1
    <3>2. CASE v # w
      BY <1>1, <1>2, <1>10, <2>1, <3>2 DEF PInv, PlacesOwned, Typed, Threads, LinkedIsSet
    <3>. QED  BY <3>1, <3>2
  <2>. QED  BY <2>1 DEF LinkedIsSet
<1>. QED  BY <1>6, <1>8, <1>9, <1>11, <1>12 DEF PInv, PlacesOwned

LEMMA SetWqStep ==
    ASSUME TwoQueuesAssumption, PInv, NEW c \in Callers, SetWq(c) PROVE PInv'
<1>1. PICK own : PlacesOwned(own)
  BY DEF PInv
<1>2. Rings' /\ OwnedBy(own)'
  BY <1>1, LinksStay DEF PInv, PlacesOwned, SetWq
<1>3. /\ pc[c] = "set" /\ pc' = [pc EXCEPT ![c] = "unlock"] /\ wq' = [wq EXCEPT ![work[c]] = queue[c]]
      /\ UNCHANGED <<lock, queue, work>>
  BY DEF SetWq, Goto, args
<1>4. work[c] \in Works /\ queue[c] \in Queues /\ queue[c] # NULL
  BY <1>3 DEF PInv, Typed, Threads, CallersMatch, TwoQueuesAssumption
<1>5. Callers \cap Workers = {}
  BY DEF TwoQueuesAssumption
<1>6. Typed'
  BY <1>3, <1>4 DEF PInv, Typed, Threads
<1>7. CallersMatch'
  <2>1. \A d \in Callers : pc'[d] = "link" => d # c /\ pc[d] = "link" /\ work[d] # work[c] /\ work[d] \in Works
    BY <1>3, <1>4 DEF PInv, Typed, Threads, CallersMatch, TwoQueuesAssumption
  <2>. QED  BY <1>3, <1>4, <2>1 DEF PInv, Typed, Threads, CallersMatch
<1>8. \A v \in Works : wq[v] # NULL => wq'[v] # NULL
  BY <1>3, <1>4 DEF PInv, Typed
<1>9. WorkersMatch(own)'
  <2>1. \A k \in Workers : pc'[k] = pc[k] /\ work'[k] = work[k] /\ work[k] \in Works \cup {NULL}
    BY <1>3, <1>5 DEF PInv, Typed, Threads
  <2>. QED  BY <1>1, <1>8, <2>1 DEF PlacesOwned, WorkersMatch
<1>10. LinkedIsSet(own)'
  <2>1. wq'[work[c]] # NULL
    BY <1>3, <1>4 DEF PInv, Typed
  <2>2. \A d \in Callers : pc[d] = "set" /\ work[d] # work[c] => pc'[d] = "set"
    BY <1>3 DEF PInv, Typed, Threads
  <2>. QED  BY <1>1, <1>3, <1>8, <2>1, <2>2 DEF PlacesOwned, LinkedIsSet
<1>. QED  BY <1>2, <1>6, <1>7, <1>9, <1>10 DEF PInv, PlacesOwned

LEMMA UnlockStep ==
    ASSUME TwoQueuesAssumption, PInv, NEW c \in Callers, Unlock(c) PROVE PInv'
<1>1. PICK own : PlacesOwned(own)
  BY DEF PInv
<1>2. Rings' /\ OwnedBy(own)'
  BY <1>1, LinksStay DEF PInv, PlacesOwned, Unlock
<1>3. /\ pc[c] = "unlock" /\ pc' = [pc EXCEPT ![c] = "out"] /\ lock' = [lock EXCEPT ![queue[c]] = NULL]
      /\ queue' = [queue EXCEPT ![c] = NULL] /\ work' = [work EXCEPT ![c] = NULL] /\ wq' = wq
  BY DEF Unlock, Goto
<1>4. queue[c] \in Queues /\ lock[queue[c]] = c
  BY <1>3 DEF PInv, CallersMatch
<1>5. Callers \cap Workers = {}
  BY DEF TwoQueuesAssumption
<1>6. Typed'
  BY <1>3 DEF PInv, Typed, Threads
<1>7. CallersMatch'
  <2>1. \A d \in Callers : d # c => pc'[d] = pc[d] /\ work'[d] = work[d] /\ queue'[d] = queue[d]
    BY <1>3 DEF PInv, Typed, Threads
  <2>2. pc'[c] = "out" /\ work'[c] = NULL
    BY <1>3 DEF PInv, Typed, Threads
  <2>3. \A d \in Callers : d # c /\ pc[d] # "out" => queue[d] # queue[c] /\ lock'[queue[d]] = lock[queue[d]]
    BY <1>3, <1>4 DEF PInv, Typed, CallersMatch
  <2>. QED  BY <1>3, <2>1, <2>2, <2>3 DEF PInv, CallersMatch
<1>8. WorkersMatch(own)'
  <2>1. \A k \in Workers : pc'[k] = pc[k] /\ work'[k] = work[k]
    BY <1>3, <1>5 DEF PInv, Typed, Threads
  <2>. QED  BY <1>1, <1>3, <2>1 DEF PlacesOwned, WorkersMatch
<1>9. LinkedIsSet(own)'
  <2>1. \A d \in Callers : pc[d] = "set" => pc'[d] = "set" /\ work'[d] = work[d] /\ queue'[d] = queue[d]
    BY <1>3 DEF PInv, Typed, Threads
  <2>. QED  BY <1>1, <1>3, <2>1 DEF PlacesOwned, LinkedIsSet
<1>. QED  BY <1>2, <1>6, <1>7, <1>8, <1>9 DEF PInv, PlacesOwned

\* The first work of a list has work->wq set when the lock is free, so no caller
\* links it anew, and its owner is not a worker, so no other worker runs it.
LEMMA TakeStep ==
    ASSUME TwoQueuesAssumption, PInv, NEW k \in Workers, Take(k) PROVE PInv'
<1>1. PICK own : PlacesOwned(own)
  BY DEF PInv
<1>2. Home[k] \in Queues /\ next[Home[k]] # Home[k]
  BY DEF Take, TwoQueuesAssumption, Ring!list_empty
<1>3. next[Home[k]] \in Works /\ own[next[Home[k]]] = Home[k]
  BY <1>1, <1>2, FirstIsOwned DEF PInv, PlacesOwned
<1>4. PICK q \in Queues, w \in Works : q = Home[k] /\ w = next[Home[k]]
  BY <1>2, <1>3
<1> DEFINE new == [own EXCEPT ![w] = w]
<1>5. /\ pc[k] = "out" /\ pc' = [pc EXCEPT ![k] = "func"] /\ lock[q] = NULL /\ Ring!list_del_init(w)
      /\ work' = [work EXCEPT ![k] = w] /\ UNCHANGED <<wq, lock, queue>>
  BY <1>4 DEF Take, Goto, KeepsWq
<1>6. own[w] = q /\ own \in [All -> All]
  BY <1>1, <1>3, <1>4 DEF PlacesOwned, OwnedBy
<1>7. Rings' /\ OwnedBy(new)'
  BY <1>1, <1>5, DelKeepsRings, DelOwned DEF PInv, PlacesOwned
<1>8. Callers \cap Workers = {} /\ Queues \cap Works = {} /\ NULL \notin Callers /\ NULL \notin Works
  BY DEF TwoQueuesAssumption
<1>9. Typed'
  BY <1>5 DEF PInv, Typed, Threads
<1>10. \A c \in Callers : pc'[c] = pc[c] /\ work'[c] = work[c]
  BY <1>5, <1>8 DEF PInv, Typed, Threads
<1>11. CallersMatch'
  BY <1>5, <1>10 DEF PInv, CallersMatch
<1>12. new[w] = w /\ \A v \in Works : v # w => new[v] = own[v]
  BY <1>6 DEF All
<1>13. wq[w] # NULL
  BY <1>1, <1>5, <1>6, <1>8 DEF PInv, PlacesOwned, LinkedIsSet, CallersMatch
<1>14. \A j \in Workers : work[j] # w
  BY <1>1, <1>6, <1>8 DEF PInv, PlacesOwned, WorkersMatch
<1> HIDE DEF new
<1>15. WorkersMatch(new)'
  <2>1. work'[k] = w /\ pc'[k] = "func"
    BY <1>5 DEF PInv, Typed, Threads
  <2>2. \A j \in Workers : j # k => pc'[j] = pc[j] /\ work'[j] = work[j] /\ work[j] \in Works \cup {NULL}
    BY <1>5 DEF PInv, Typed, Threads
  <2>. QED  BY <1>1, <1>5, <1>8, <1>12, <1>13, <1>14, <2>1, <2>2 DEF PlacesOwned, WorkersMatch
<1>16. LinkedIsSet(new)'
  BY <1>1, <1>5, <1>8, <1>10, <1>12 DEF PlacesOwned, LinkedIsSet
<1>. QED  BY <1>7, <1>9, <1>11, <1>15, <1>16 DEF PInv, PlacesOwned

\* work->wq is cleared without a lock, and of a work that is in no list.
LEMMA FinishStep ==
    ASSUME TwoQueuesAssumption, PInv, NEW k \in Workers, Finish(k) PROVE PInv'
<1>1. PICK own : PlacesOwned(own)
  BY DEF PInv
<1>2. Rings' /\ OwnedBy(own)'
  BY <1>1, LinksStay DEF PInv, PlacesOwned, Finish
<1>3. /\ pc[k] = "func" /\ pc' = [pc EXCEPT ![k] = "out"] /\ wq' = [wq EXCEPT ![work[k]] = NULL]
      /\ work' = [work EXCEPT ![k] = NULL] /\ UNCHANGED <<lock, queue>>
  BY DEF Finish, Goto
<1>4. /\ Callers \cap Workers = {} /\ Queues \cap Works = {} /\ NULL \notin Works
  BY DEF TwoQueuesAssumption
<1>5. work[k] \in Works /\ own[work[k]] = work[k]
  BY <1>1, <1>3 DEF PInv, Typed, Threads, PlacesOwned, WorkersMatch
<1>6. Typed'
  BY <1>3 DEF PInv, Typed, Threads
<1>7. \A c \in Callers : pc'[c] = pc[c] /\ work'[c] = work[c]
  BY <1>3, <1>4 DEF PInv, Typed, Threads
<1>8. CallersMatch'
  <2>1. \A v : wq[v] = NULL /\ v \in Works => wq'[v] = NULL
    BY <1>3 DEF PInv, Typed
  <2>2. \A c \in Callers : pc[c] = "link" => work[c] \in Works
    BY DEF PInv, Typed, Threads, CallersMatch
  <2>. QED  BY <1>3, <1>7, <2>1, <2>2 DEF PInv, CallersMatch
<1>9. \A v \in Works : v # work[k] => wq'[v] = wq[v]
  BY <1>3 DEF PInv, Typed
<1>10. WorkersMatch(own)'
  <2>1. work'[k] = NULL /\ pc'[k] = "out"
    BY <1>3 DEF PInv, Typed, Threads
  <2>2. \A j \in Workers : j # k => pc'[j] = pc[j] /\ work'[j] = work[j]
    BY <1>3 DEF PInv, Typed, Threads
  <2>3. \A j \in Workers : j # k /\ work[j] # NULL => work[j] \in Works /\ work[j] # work[k]
    BY <1>1 DEF PInv, Typed, Threads, PlacesOwned, WorkersMatch
  <2>. QED  BY <1>1, <1>9, <2>1, <2>2, <2>3 DEF PlacesOwned, WorkersMatch
<1>11. LinkedIsSet(own)'
  BY <1>1, <1>3, <1>4, <1>5, <1>7, <1>9 DEF PlacesOwned, LinkedIsSet
<1>. QED  BY <1>2, <1>6, <1>8, <1>10, <1>11 DEF PInv, PlacesOwned

\* The phases of the queues have no part in it.
LEMMA OthersStay ==
    ASSUME PInv, UNCHANGED <<links, wq, lock, pc, args>> PROVE PInv'
<1>1. PICK own : PlacesOwned(own)
  BY DEF PInv
<1>2. Rings' /\ OwnedBy(own)'
  BY <1>1, LinksStay DEF PInv, PlacesOwned
<1>3. UNCHANGED <<wq, lock, pc, queue, work>>
  BY DEF args
<1>4. Typed' /\ CallersMatch'
  BY <1>3 DEF PInv, Typed, CallersMatch
<1>5. WorkersMatch(own)' /\ LinkedIsSet(own)'
  BY <1>1, <1>3 DEF PlacesOwned, WorkersMatch, LinkedIsSet
<1>. QED  BY <1>2, <1>4, <1>5 DEF PInv, PlacesOwned

LEMMA NextPInv == ASSUME TwoQueuesAssumption, PInv, [Next]_vars PROVE PInv'
<1>1. CASE \E c \in Callers : QueueWork(c)
  BY <1>1, TestStep, LinkStep, SetWqStep, UnlockStep DEF QueueWork
<1>2. CASE \E c \in Callers, q \in Queues, w \in Works : Enter(c, q, w)
  BY <1>2, EnterStep
<1>3. CASE \E k \in Workers : Take(k) \/ Finish(k)
  BY <1>3, TakeStep, FinishStep
<1>4. CASE \E q \in Queues : init_workqueue(q) \/ destroy_workqueue(q)
  BY <1>4, OthersStay DEF init_workqueue, destroy_workqueue, ToPhase
<1>5. CASE UNCHANGED vars
  BY <1>5, OthersStay DEF vars
<1>. QED  BY <1>1, <1>2, <1>3, <1>4, <1>5 DEF Next, Rest

-----------------------------------------------------------------------------
(* The members of a list are owned by its queue.                           *)

LEMMA MembersOwned ==
    ASSUME TwoQueuesAssumption, NEW own, OwnedBy(own), Rings, NEW q \in Queues
    PROVE  \A x \in Ring!Members(q) : x \in All /\ own[x] = q
<1> DEFINE C == {x \in All : own[x] = q}
<1>1. IsFiniteSet(Works) /\ Encloses(C, next, q)
  BY DEF TwoQueuesAssumption, Encloses, Rings, LinksTyped, OwnedBy, All
<1>2. MembersBy(Works, next, q) \subseteq C
  BY <1>1, AroundInside, Zenon
<1>3. Ring!Members(q) = MembersBy(Works, next, q)
  <2>1. Ring!Cardinality(Works) = Cardinality(Works)
    BY Zenon DEF Ring!Cardinality, Cardinality
  <2>. QED  BY <2>1, Zenon DEF Ring!Members, MembersBy, IsUpto, Reach
<1>. QED  BY <1>2, <1>3

-----------------------------------------------------------------------------
LEMMA AtMostOne ==
    ASSUME NEW S, \A x, y \in S : x = y PROVE Cardinality(S) = IF S = {} THEN 0 ELSE 1
<1>1. S = {} \/ \E x : S = {x}
  OBVIOUS
<1>. QED  BY <1>1, FS_EmptySet, FS_Singleton

LEMMA OwnerMeansOnePlace == ASSUME TwoQueuesAssumption, PInv PROVE OnePlace
<1>1. PICK own : PlacesOwned(own)
  BY DEF PInv
<1>2. Lists!Rings
  BY DEF PInv, Rings, Lists!Rings, Lists!Nodes, All
<1>3. ASSUME NEW w \in Works
      PROVE  Cardinality({q \in Queues : w \in Ring!Members(q)}) + Cardinality(InHands(w)) <= 1
  <2> DEFINE L == {q \in Queues : w \in Ring!Members(q)}
  <2>1. \A q \in L : own[w] = q
    BY <1>1, MembersOwned DEF PInv, PlacesOwned
  <2>2. \A k \in InHands(w) : own[w] = w
    BY <1>1 DEF InHands, PlacesOwned, WorkersMatch, TwoQueuesAssumption
  <2>3. \A j, k \in InHands(w) : j = k
    BY <1>1 DEF InHands, PlacesOwned, WorkersMatch, TwoQueuesAssumption
  <2>4. L = {} \/ InHands(w) = {}
    BY <2>1, <2>2 DEF TwoQueuesAssumption
  <2>5. \A q, r \in L : q = r
    BY <2>1
  <2> HIDE DEF L
  <2>6. Cardinality(L) = (IF L = {} THEN 0 ELSE 1) /\ Cardinality(InHands(w)) = (IF InHands(w) = {} THEN 0 ELSE 1)
    BY <2>3, <2>5, AtMostOne
  <2>7. Cardinality(L) + Cardinality(InHands(w)) <= 1
    BY <2>4, <2>6
  <2>. QED  BY <2>7 DEF L
<1>. QED  BY <1>2, <1>3 DEF OnePlace

\* However many workqueues a work is queued on in turn, it is in one list or in
\* the hands of one worker, and the lists stay rings: queue_work and
\* process_one_work, with work->wq cleared outside the lock.
THEOREM WorkIsInOnePlace == Spec => []OnePlace
<1>1. Init => PInv
  BY TwoQueuesAssumption, InitPInv
<1>2. PInv /\ [Next]_vars => PInv'
  BY TwoQueuesAssumption, NextPInv
<1>3. PInv => OnePlace
  BY TwoQueuesAssumption, OwnerMeansOnePlace
<1>. QED  BY <1>1, <1>2, <1>3, PTL DEF Spec

-----------------------------------------------------------------------------
(* Each queue for itself is a pool.                                        *)

\* Round a ring in which one owner is left by no edge there is one queue.
LEMMA LinesAreWays ==
    ASSUME TwoQueuesAssumption, NEW nx, NEW pv, Mutual(All, nx, pv),
           NEW own, \A q \in Queues : own[q] = q, \A x \in All : own[nx[x]] = own[x],
           NEW q \in Queues
    PROVE  Way(Works, nx, pv, q, WalkBy(Works, nx, q))
<1> DEFINE C == {x \in All : own[x] = q}
<1>1. Encloses(C, nx, q) /\ C \ {q} \subseteq Works
  BY DEF Encloses, Mutual, All
<1>2. Alone(Works, nx, q)
  BY <1>1 DEF Alone
<1>3. Works \subseteq All /\ q \in All /\ q \notin Works /\ IsFiniteSet(Works)
  BY DEF TwoQueuesAssumption, All
<1>. QED  BY <1>2, <1>3, WalkIsWay, Zenon

LEMMA LineIs == \A q : Lists!Walk(q) = WalkBy(Works, next, q)
<1>1. Lists!Cardinality(Works) = Cardinality(Works)
  BY Zenon DEF Lists!Cardinality, Cardinality
<1>. QED  BY <1>1, Zenon DEF Lists!Walk, WalkBy, IsWalkUpto, Longer, LastOf

LEMMA NextLineIs == \A q : Lists!Walk(q)' = WalkBy(Works, next', q)
<1>1. Lists!Cardinality(Works) = Cardinality(Works)
  BY Zenon DEF Lists!Cardinality, Cardinality
<1>. QED  BY <1>1, Zenon DEF Lists!Walk, WalkBy, IsWalkUpto, Longer, LastOf

LEMMA LineIsWay ==
    ASSUME TwoQueuesAssumption, PInv, NEW q \in Queues
    PROVE  Way(Works, next, prev, q, Lists!Walk(q))
<1>1. PICK own : OwnedBy(own)
  BY DEF PInv, PlacesOwned
<1>2. Mutual(All, next, prev)
  BY RingsAreMutual DEF PInv
<1>3. Way(Works, next, prev, q, WalkBy(Works, next, q))
  BY <1>1, <1>2, LinesAreWays DEF OwnedBy
<1>. QED  BY <1>3, LineIs

\* What is a way after the step is the line after the step.
LEMMA LineBecomes ==
    ASSUME TwoQueuesAssumption, PInv', NEW q \in Queues, NEW w, Way(Works, next', prev', q, w)
    PROVE  Lists!Walk(q)' = w
<1>1. PICK own : OwnedBy(own)'
  BY DEF PInv, PlacesOwned
<1>2. Mutual(All, next', prev')
  BY DEF PInv, Rings, LinksTyped, Mutual
<1>3. Way(Works, next', prev', q, WalkBy(Works, next', q))
  BY <1>1, <1>2, LinesAreWays DEF OwnedBy
<1>4. q \notin Works
  BY DEF TwoQueuesAssumption
<1>. QED  BY <1>3, <1>4, WayIsUnique, NextLineIs

LEMMA LinesStay == ASSUME next' = next PROVE \A q \in Queues : Lists!Walk(q)' = Lists!Walk(q)
  BY LineIs, NextLineIs

\* A queue closes with its lock free, so it is open while a caller that has
\* found it open holds the lock.
OpenToLink ==
    /\ DOMAIN phase = Queues
    /\ \A c \in Callers : pc[c] = "link" => phase[queue[c]] = "open"

PoolInv == PInv /\ OpenToLink

Running(q) == {w \in Works : \E k \in InHands(w) : Home[k] = q}

LEMMA InitPoolInv == ASSUME TwoQueuesAssumption, Init PROVE PoolInv
  BY InitPInv DEF Init, PoolInv, OpenToLink

LEMMA NextOpenToLink ==
    ASSUME TwoQueuesAssumption, PoolInv, [Next]_vars PROVE OpenToLink'
<1>1. /\ \A d \in Callers : pc[d] = "link" => queue[d] \in Queues /\ lock[queue[d]] = d /\ phase[queue[d]] = "open"
      /\ DOMAIN pc = Threads /\ DOMAIN queue = Callers /\ DOMAIN phase = Queues
  BY DEF PoolInv, PInv, CallersMatch, Typed, OpenToLink
<1>2. Callers \cap Workers = {} /\ NULL \notin Callers
  BY DEF TwoQueuesAssumption
<1>3. ASSUME NEW c \in Callers, QueueWork(c) \/ \E q \in Queues, w \in Works : Enter(c, q, w) PROVE OpenToLink'
  <2>1. phase' = phase /\ DOMAIN phase' = Queues
    BY <1>1, <1>3 DEF QueueWork, Test, Link, SetWq, Unlock, Enter
  <2>2. \A d \in Callers : d # c => pc'[d] = pc[d] /\ queue'[d] = queue[d]
    BY <1>1, <1>3 DEF QueueWork, Test, Link, SetWq, Unlock, Enter, Goto, args, Threads
  <2>3. pc'[c] = "link" => Test(c) /\ phase[queue[c]] = "open" /\ queue'[c] = queue[c]
    BY <1>1, <1>3 DEF QueueWork, Test, Link, SetWq, Unlock, Enter, Goto, args, Accepted, Threads
  <2>. QED  BY <1>1, <2>1, <2>2, <2>3 DEF OpenToLink
<1>4. ASSUME NEW k \in Workers, Take(k) \/ Finish(k) PROVE OpenToLink'
  <2>1. phase' = phase /\ queue' = queue /\ \A d \in Callers : pc'[d] = pc[d]
    BY <1>1, <1>2, <1>4 DEF Take, Finish, Goto, Threads
  <2>. QED  BY <1>1, <2>1 DEF OpenToLink
<1>5. ASSUME NEW q \in Queues, init_workqueue(q) \/ destroy_workqueue(q) PROVE OpenToLink'
  <2>1. /\ pc' = pc /\ queue' = queue /\ phase' = [phase EXCEPT ![q] = phase'[q]]
        /\ phase[q] = "off" \/ lock[q] = NULL
    BY <1>1, <1>5 DEF init_workqueue, destroy_workqueue, ToPhase, args
  <2>2. \A d \in Callers : pc[d] = "link" => queue[d] # q
    BY <1>1, <1>2, <2>1
  <2>. QED  BY <1>1, <2>1, <2>2 DEF OpenToLink
<1>6. ASSUME UNCHANGED vars PROVE OpenToLink'
  BY <1>1, <1>6 DEF OpenToLink, vars, args
<1>. QED  BY <1>3, <1>4, <1>5, <1>6 DEF Next, Rest

PoolStep(q) == Pool(q)!Next \/ UNCHANGED Pool(q)!vars

LEMMA PoolRests ==
    ASSUME next' = next, \A k \in Workers : work'[k] = work[k], NEW q \in Queues, phase'[q] = phase[q]
    PROVE  PoolStep(q)
<1>1. Lists!Walk(q)' = Lists!Walk(q)
  BY LinesStay
<1>2. Running(q)' = Running(q)
  BY DEF Running, InHands
<1>. QED  BY <1>1, <1>2 DEF PoolStep, Pool!vars, Running

\* Link is Submit at one queue: the work is on no line and in nobody's hands.
LEMMA LinkIsSubmit ==
    ASSUME TwoQueuesAssumption, PoolInv, PInv', NEW c \in Callers, Link(c), NEW r \in Queues
    PROVE  PoolStep(r)
<1>1. PICK own : PlacesOwned(own)
  BY DEF PoolInv, PInv
<1>2. PICK q \in Queues, w \in Works : q = queue[c] /\ w = work[c]
  BY DEF Link, Goto, PoolInv, PInv, Typed, Threads, CallersMatch
<1>3. /\ pc[c] = "link" /\ Ring!list_add_tail(w, q) /\ wq[w] = NULL /\ phase[q] = "open"
      /\ phase' = phase /\ work' = work
  BY <1>2 DEF Link, Goto, args, PoolInv, PInv, CallersMatch, OpenToLink
<1>4. own[w] = w /\ next[w] = w /\ w \notin Queues
  <2>1. own[w] \notin Queues
    BY <1>1, <1>2, <1>3 DEF PoolInv, PInv, PlacesOwned, LinkedIsSet, CallersMatch, TwoQueuesAssumption
  <2>. QED  BY <1>1, <2>1 DEF PlacesOwned, OwnedBy, TwoQueuesAssumption
<1>5. \A k \in Workers : work[k] # w
  BY <1>1, <1>3 DEF PlacesOwned, WorkersMatch, TwoQueuesAssumption
<1>6. PutBehind(All, next, prev, next', prev', w, prev[q]) /\ Works \subseteq All
  BY <1>3, <1>4, AddPutsBehind DEF PoolInv, PInv, All
<1>7. \A s \in Queues : s \in All /\ s \notin Works
  BY DEF TwoQueuesAssumption, All
<1>8. PICK v : v = Lists!Walk(q) /\ Way(Works, next, prev, q, v)
  BY LineIsWay DEF PoolInv
<1>9. v \in Seq(Works) /\ Len(v) \in Nat /\ prev[q] = PlaceOn(q, v, Len(v)) /\ \A k \in 1..Len(v) : v[k] # w
  <2>1. v \in Seq(Works) /\ Len(v) \in Nat /\ prev[q] = PlaceOn(q, v, Len(v))
    BY <1>8 DEF Way, Leads
  <2>2. q \notin Works /\ Way(Works, next, prev, q, v) /\ next[w] = w
    BY <1>4, <1>7, <1>8
  <2>3. \A k \in 1..Len(v) : v[k] # w
    BY ONLY <2>2, w \in Works, LooseOffWay, Zenon
  <2>. QED  BY <2>1, <2>3
<1>10. CASE r = q
  <2>1. Way(Works, next', prev', q, Inserted(v, Len(v), w))
    BY <1>6, <1>7, <1>8, <1>9, WayGains
  <2>2. Lists!Walk(q)' = Append(v, w)
    BY <1>9, <2>1, InsertedIs, LineBecomes
  <2>3. Running(q)' = Running(q) /\ w \notin Running(q)
    BY <1>3, <1>5 DEF Running, InHands
  <2>4. Pool(q)!Submit(w)
    BY <1>3, <1>8, <1>9, <2>2, <2>3 DEF Pool!Submit, Pool!Queued, Running
  <2>. QED  BY <1>10, <2>4 DEF PoolStep, Pool!Next
<1>11. CASE r # q
  <2>1. PICK u : u = Lists!Walk(r) /\ Way(Works, next, prev, r, u)
    BY LineIsWay DEF PoolInv
  <2>2. r \notin Works /\ Way(Works, next, prev, r, u) /\ next[w] = w
    BY <1>4, <1>7, <2>1
  <2>3. \A k \in 1..Len(u) : u[k] # w
    BY ONLY <2>2, w \in Works, LooseOffWay, Zenon
  <2>4. Len(v) \in 0..Len(v)
    BY <1>9
  <2>5. Way(Works, next', prev', r, u)
    BY <1>6, <1>7, <1>8, <1>9, <1>11, <2>1, <2>3, <2>4, WaySpared
  <2>6. Lists!Walk(r)' = u
    BY <2>5, LineBecomes
  <2>7. Running(r)' = Running(r)
    BY <1>3 DEF Running, InHands
  <2>. QED  BY <1>3, <2>1, <2>6, <2>7 DEF PoolStep, Pool!vars, Running
<1>. QED  BY <1>10, <1>11

\* Take is Begin at the worker's own queue.
LEMMA TakeIsBegin ==
    ASSUME TwoQueuesAssumption, PoolInv, PInv', NEW k \in Workers, Take(k), NEW r \in Queues
    PROVE  PoolStep(r)
<1>1. PICK own : PlacesOwned(own)
  BY DEF PoolInv, PInv
<1>2. Home[k] \in Queues /\ next[Home[k]] # Home[k]
  BY DEF Take, TwoQueuesAssumption, Ring!list_empty
<1>3. PICK q \in Queues : q = Home[k]
  BY <1>2
<1>4. PICK w \in Works : w = next[q]
  BY <1>1, <1>2, <1>3, FirstIsOwned DEF PoolInv, PInv, PlacesOwned
<1>5. /\ Ring!list_del_init(w) /\ phase' = phase /\ work' = [work EXCEPT ![k] = w] /\ pc[k] = "out"
      /\ work[k] = NULL /\ DOMAIN work = Threads
  BY <1>1, <1>3, <1>4 DEF Take, Goto, PoolInv, PInv, PlacesOwned, WorkersMatch, Typed
<1>6. TakenOut(All, next, prev, next', prev', w) /\ Works \subseteq All /\ Mutual(All, next, prev)
  BY <1>5, DelTakesOut, RingsAreMutual DEF PoolInv, PInv, All
<1>7. \A s \in Queues : s \in All /\ s \notin Works
  BY DEF TwoQueuesAssumption, All
<1>8. PICK v : v = Lists!Walk(q) /\ Way(Works, next, prev, q, v)
  BY LineIsWay DEF PoolInv
<1>9. v \in Seq(Works) /\ Len(v) \in Nat /\ Len(v) >= 1 /\ v[1] = w
  <2>1. v \in Seq(Works) /\ Len(v) \in Nat
    BY <1>8 DEF Way, Leads
  <2>2. 0 \in 0..Len(v) /\ PlaceOn(q, v, 0) = q
    BY <2>1, PlaceOnStart
  <2>3. PlaceOn(q, v, 0 + 1) = w
    BY <1>4, <1>8, <2>2, WayLinks
  <2>. QED  BY <1>2, <1>3, <1>4, <2>1, <2>3 DEF PlaceOn
<1>10. /\ InHands(w)' = InHands(w) \cup {k}
       /\ \A u \in Works : u # w => InHands(u)' = InHands(u)
  BY <1>5 DEF InHands, Threads, TwoQueuesAssumption
<1>11. CASE r = q
  <2>1. Way(Works, next', prev', q, Dropped(v, 1))
    BY <1>6, <1>7, <1>8, <1>9, WayLoses
  <2>2. Dropped(v, 1) = Tail(v) /\ Head(v) = w /\ v # <<>>
    <3>1. /\ Dropped(v, 1) \in Seq(Works) /\ Len(Dropped(v, 1)) = Len(v) - 1
          /\ \A m \in 1..(Len(v) - 1) : Dropped(v, 1)[m] = v[m + 1]
      BY <1>9 DEF Dropped
    <3>2. /\ Tail(v) \in Seq(Works) /\ Len(Tail(v)) = Len(v) - 1
          /\ \A m \in 1..(Len(v) - 1) : Tail(v)[m] = v[m + 1]
      BY <1>9
    <3>3. Dropped(v, 1) = Tail(v)
      BY <1>9, <3>1, <3>2
    <3>. QED  BY <1>9, <3>3
  <2>3. Lists!Walk(q)' = Tail(v)
    BY <2>1, <2>2, LineBecomes
  <2>4. Running(q)' = Running(q) \cup {w}
    BY <1>3, <1>10 DEF Running
  <2>5. Pool(q)!Begin
    BY <1>5, <1>8, <2>2, <2>3, <2>4 DEF Pool!Begin, Running
  <2>. QED  BY <1>11, <2>5 DEF PoolStep, Pool!Next
<1>12. CASE r # q
  <2>1. PICK u : u = Lists!Walk(r) /\ Way(Works, next, prev, r, u)
    BY LineIsWay DEF PoolInv
  <2>2. \A m \in 1..Len(u) : u[m] # w
    BY <1>7, <1>8, <1>9, <1>12, <2>1, LeadsApart DEF Way
  <2>3. Way(Works, next', prev', r, u)
    BY <1>6, <1>7, <2>1, <2>2, WayOutlasts
  <2>4. Lists!Walk(r)' = u
    BY <2>3, LineBecomes
  <2>5. Running(r)' = Running(r)
    BY <1>3, <1>10, <1>12 DEF Running
  <2>. QED  BY <1>5, <2>1, <2>4, <2>5 DEF PoolStep, Pool!vars, Running
<1>. QED  BY <1>11, <1>12

\* Finish is Finish at the worker's own queue: nobody else has the work in hands.
LEMMA FinishIsFinish ==
    ASSUME TwoQueuesAssumption, PoolInv, NEW k \in Workers, Finish(k), NEW r \in Queues
    PROVE  PoolStep(r)
<1>1. PICK own : PlacesOwned(own)
  BY DEF PoolInv, PInv
<1>2. PICK w \in Works : w = work[k]
  BY <1>1 DEF Finish, Goto, PoolInv, PInv, PlacesOwned, WorkersMatch, Typed, Threads
<1>3. next' = next /\ phase' = phase /\ work' = [work EXCEPT ![k] = NULL] /\ DOMAIN work = Threads /\ NULL \notin Works
  BY DEF Finish, links, PoolInv, PInv, Typed, TwoQueuesAssumption
<1>4. InHands(w) = {k} /\ InHands(w)' = {} /\ \A u \in Works : u # w => InHands(u)' = InHands(u)
  BY <1>1, <1>2, <1>3 DEF InHands, Threads, PlacesOwned, WorkersMatch
<1>5. Lists!Walk(r)' = Lists!Walk(r)
  BY <1>3, LinesStay
<1>6. CASE r = Home[k]
  <2>1. Running(r)' = Running(r) \ {w} /\ w \in Running(r)
    BY <1>4, <1>6 DEF Running
  <2>2. Pool(r)!Finish(w)
    BY <1>3, <1>5, <2>1 DEF Pool!Finish, Running
  <2>. QED  BY <2>2 DEF PoolStep, Pool!Next
<1>7. CASE r # Home[k]
  <2>1. Running(r)' = Running(r)
    BY <1>4, <1>7 DEF Running
  <2>. QED  BY <1>3, <1>5, <2>1 DEF PoolStep, Pool!vars, Running
<1>. QED  BY <1>6, <1>7

LEMMA PhasesArePools ==
    ASSUME PoolInv, NEW q \in Queues, init_workqueue(q) \/ destroy_workqueue(q), NEW r \in Queues
    PROVE  PoolStep(r)
<1>1. next' = next /\ work' = work /\ DOMAIN phase = Queues
  BY DEF init_workqueue, destroy_workqueue, ToPhase, links, args, PoolInv, OpenToLink
<1>2. Lists!Walk(r)' = Lists!Walk(r) /\ Running(r)' = Running(r)
  BY <1>1, LinesStay DEF Running, InHands
<1>3. CASE r = q
  <2>1. \/ phase[r] = "off" /\ phase'[r] = "open"
        \/ phase[r] = "open" /\ phase'[r] = "closing"
    BY <1>1, <1>3 DEF init_workqueue, destroy_workqueue, ToPhase
  <2>2. Pool(r)!Open \/ Pool(r)!Close
    BY <1>2, <2>1 DEF Pool!Open, Pool!Close, Running
  <2>. QED  BY <2>2 DEF PoolStep, Pool!Next
<1>4. CASE r # q
  <2>1. phase'[r] = phase[r]
    BY <1>1, <1>4 DEF init_workqueue, destroy_workqueue, ToPhase
  <2>. QED  BY <1>2, <2>1 DEF PoolStep, Pool!vars, Running
<1>. QED  BY <1>3, <1>4

LEMMA StepIsPoolStep ==
    ASSUME TwoQueuesAssumption, PoolInv, PInv', [Next]_vars, NEW q \in Queues PROVE PoolStep(q)
<1>1. Callers \cap Workers = {} /\ DOMAIN work = Threads
  BY DEF TwoQueuesAssumption, PoolInv, PInv, Typed
<1>2. ASSUME NEW c \in Callers,
             Test(c) \/ SetWq(c) \/ Unlock(c) \/ \E r \in Queues, w \in Works : Enter(c, r, w)
      PROVE  PoolStep(q)
  <2>1. next' = next /\ phase' = phase
    BY <1>2 DEF Test, SetWq, Unlock, Enter, links
  <2>2. \A k \in Workers : work'[k] = work[k]
    BY <1>1, <1>2 DEF Test, SetWq, Unlock, Enter, args, Threads
  <2>. QED  BY <2>1, <2>2, PoolRests
<1>3. ASSUME UNCHANGED vars PROVE PoolStep(q)
  BY <1>3, PoolRests DEF vars, links, args
<1>. QED  BY <1>2, <1>3, LinkIsSubmit, TakeIsBegin, FinishIsFinish, PhasesArePools DEF Next, Rest, QueueWork

LEMMA PoolsBegin == ASSUME TwoQueuesAssumption, Init PROVE \A q \in Queues : Pool(q)!Init
<1>1. PInv
  BY InitPInv
<1>2. SUFFICES ASSUME NEW q \in Queues PROVE Pool(q)!Init
  OBVIOUS
<1>3. Lists!Walk(q) = <<>>
  <2>1. PICK w : w = Lists!Walk(q) /\ Way(Works, next, prev, q, w)
    BY <1>1, LineIsWay
  <2>2. next[q] = q /\ q \notin Works
    BY DEF Init, TwoQueuesAssumption
  <2>3. w \in Seq(Works) /\ Len(w) \in Nat
    BY <2>1 DEF Way, Leads
  <2>4. PlaceOn(q, w, 0 + 1) = q
    <3>1. 0 \in 0..Len(w) /\ PlaceOn(q, w, 0) = q
      BY <2>3, PlaceOnStart
    <3>. QED  BY <2>1, <2>2, <3>1, WayLinks
  <2>5. Len(w) = 0
    BY <2>2, <2>3, <2>4 DEF PlaceOn
  <2>. QED  BY <2>1, <2>3, <2>5
<1>4. Running(q) = {}
  BY DEF Init, Running, InHands, TwoQueuesAssumption
<1>. QED  BY <1>3, <1>4 DEF Pool!Init, Running, Init

\* However works move between workqueues, each queue by itself accepts, starts in
\* order and finishes them as WorkPool says: a work of another queue neither
\* enters it nor leaves it, though no lock is common to the two.
THEOREM EachQueueIsAPool == Spec => ImplementsPools
<1>1. Init => PoolInv /\ \A q \in Queues : Pool(q)!Init
  BY TwoQueuesAssumption, InitPoolInv, PoolsBegin
<1>2. PoolInv /\ [Next]_vars => PoolInv'
  BY TwoQueuesAssumption, NextPInv, NextOpenToLink DEF PoolInv
<1>3. PoolInv /\ PoolInv' /\ [Next]_vars
        => [\A q \in Queues : Pool(q)!Next \/ UNCHANGED Pool(q)!vars]_vars
  BY TwoQueuesAssumption, StepIsPoolStep DEF PoolInv, PoolStep
<1>. QED  BY <1>1, <1>2, <1>3, PTL DEF Spec, ImplementsPools
=============================================================================
