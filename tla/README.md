# Formal models of common_project_template

TLA+ models of the C libraries of this repository, the TLC runs that check them
on small instances, and proofs for the TLA+ proof system. `PROJECT.json` lists
the runs, the source lines each definition stands for, the hazards and the
theorems.

    tlc -workers 2 -config pool_safety.cfg MCWorkqueue     # a run
    tlapm WorkqueueProofs.tla                              # a proof

## The system

| component | state | operations | talks to |
|---|---|---|---|
| `lib/workqueue` | per workqueue: alive, three counters, the work list, a mutex, a condition; per work: `work->wq` | init_workqueue, destroy_workqueue, queue_work, flush_work; worker_thread | lib/list, pthreads, the callers' work functions, which call back in |
| `lib/rbtree` | root, nodes with children and the word parent + colour | rb_link_node, rb_insert_color, rb_erase, six walks | the caller, who descends and compares keys |
| `lib/list` | rings of next and prev | add at either end, delete, three tests, loops of `list.h` | used by workqueue and callback |
| `lib/min_heap` | array, nr, size | heapify_all, pop, pop_push, push | callbacks less and swp |
| `lib/bitmap` | an array of words | alloc, free, set, clear, test, search | the arithmetic macros of `common.h` |
| `lib/callback` | a static table, one list per type | init_node_cbs, node_online, node_offline | lib/list |
| `src/main.c`, `include/common.h` | two globals | option parsing; macros | none |

Only the workqueue runs concurrently, and it is the hard part: threads meet in
a mutex and a condition variable, the owner polls fields without the lock,
workers come and go, `pthread_create` fails, and work functions call back into
the queue. The others are sequential; their hard part is that a loop is correct
only if each of its rounds re-establishes an invariant (the two rebalancing
loops, the sifts), or that data is read before a callback changes it (the safe
list loops). Nothing is persisted, so there is no crash recovery.

What makes each part correct:

- workqueue: no work is lost, doubled or run by two workers; no wakeup is lost;
  counters are exact also for a reader without the lock; the pool stays between
  its floor and its ceiling; `destroy_workqueue` returns, after all works and
  all workers, and frees the mutex and the condition after their last user;
  `flush_work` returns, not before the work is finished.
- rbtree: links agree, keys stay in order, the five red-black properties hold
  between calls and the stated loop invariants hold in them; the walks meet
  every node once and in order; the postorder loop goes on although its body
  releases pos.
- list: rings stay rings; a safe loop meets each entry that stays, once, and
  ends; an addition lands at its end.
- min_heap: the element at place 0 is minimal; no element is lost or doubled.
- bitmap: searches find the first bit of a set at or after the start, for
  lengths and starts that are not multiples of the word; callback: every
  registered function is called once per event, in the order of the table.

## The modules

| module | what |
|---|---|
| `WorkPool` | what a pool of workers promises: a FIFO queue, each accepted work run once, closing |
| `Workqueue` | `workqueue.c`, one action per critical section or piece of one |
| `WorkqueueProperties` | its invariants, step properties, liveness, `IInv`, the mapping to WorkPool |
| `MCWorkqueue` | symmetry and the constants of its runs |
| `WorkqueueProofs` | theorems, and the refinement of WorkPool |
| `TwoQueues`, `TwoQueuesProperties`, `TwoQueuesProofs`, `MCTwoQueues` | works that go to more than one workqueue: `queue_work` in the steps that other lock holders see, on the rings of `List`; theorems, each queue as a WorkPool |
| `RBTree`, `RBTreeProperties`, `MCRBTree` | `rbtree.c`, one action per round of a rebalancing loop; properties; a bounded caller |
| `RBDrain` | the postorder loop of `rbtree.h` over an `RBTree`, with bodies that release or erase |
| `RBTreeShapes` | lemmas: the shape of a tree by its spans, and what each write and each move of the loops does to it |
| `RBTreeProofs` | the steps of both loops, the walks, the theorems about `RBTree` and `RBDrain` |
| `MinQueue` | what a heap promises: a bag from which a minimal element is taken |
| `MinHeap`, `MinHeapProperties`, `MCMinHeap` | `min_heap.c`, one action per round of a sift |
| `MinHeapProofs` | theorems, and the refinement of MinQueue |
| `ListOrder` | what a list promises: a sequence per head |
| `List`, `ListProperties`, `ListProofs` | `list.c` and the loops of `list.h`; theorems, the refinement of ListOrder, and those about `Callback` |
| `Callback` | `callback.c`, a client of `List`, with its property |
| `BitSet` | what a bitmap promises: a set of numbers |
| `Bitmap`, `BitmapProperties`, `BitmapProofs` | `bitmap.c`, one action per call or round of a search; theorems |
| `DataTheorems` | lemmas on data that several proofs share: a nonempty set of numbers has a least element; a set that grows in rounds; rings, and the sequences they link |

`TwoQueues` and `Callback` compose `List` with its clients; `RBDrain` composes the
tree, its walk and the callers' loop; `WorkPool`, `MinQueue`, `ListOrder` and
`BitSet` are implemented by the modules after them.

A definition named `X_Fault` beside `X` is the same code with a plausible
mistake in it. No specification uses it. Put in the place of `X` it makes the
property named with it in `PROJECT.json` fail, which shows that the property
depends on that line of the code.

### Workqueue

`pc[t]` is where a worker is. Each location is a stretch of code between two
points at which others can see a difference:

| location | code |
|---|---|
| start | created, before the lock at workqueue.c:55 |
| wake_up, loop | the label at :60, the test at :62, lock held |
| func | in `work->func` at :30, lock free |
| relock | `work->wq` cleared at :31, before the lock at :32 |
| wait, woken | in `pthread_cond_wait` at :88; signalled, and competing for the lock |
| exit_ref, exit_unlock | nr_worker, then ref_count decremented (:74 to :76, :83 to :85), lock still held |

A critical section is one step as far as only lock holders see it. It is cut
where someone without the lock sees its middle: `destroy_workqueue` and
`wait_worker_exit` poll between `nr_worker--`, `ref_count--` and the unlock, and
`flush_work` reads `work->wq` between the two writes of `queue_work`. So `queue_work` is two
steps, `queue_work` up to list_add_tail (:112) and `SetWq` from `work->wq = wq` (:113)
to the unlock; between them the caller holds `lock` and `linking` is its work. Nothing else
that `queue_work` does is seen without the lock before it ends. The owner thread's `owner` runs
through init_workqueue (`init`, and on its error path `undo_*`), `ready`, and
destroy_workqueue (`close_*`), with one step per polled read. `flush_work`
enters when it reads `work->wq` set, and returns when it reads it clear; a call
that reads it clear at once changes nothing.

What `flush_work` promises is therefore said with care (`FlushMeansFinished`). A work whose
`queue_work` has returned is finished when flush_work returns. A work that
another thread is just linking may be in the list already with `work->wq`
still NULL, and flush_work may return then: it counts as having come before that call. The
other properties speak of `Waiting`, the works of the list with `work->wq` set, in the
same way: until `queue_work` has given its signal, a work may be in the list
with every worker asleep.

`pthread_cond_signal` wakes one waiting thread, or none if nobody waits;
`pthread_cond_wait` gives up the lock and waits in one step, may wake without a
signal, and has to take the lock again. Memory is sequentially consistent: what a
weak memory does to the unlocked reads is not modelled, except that the run
`release_flush` has the compiler read `work->wq` once.

Threads are used once each, because a worker is never joined or detached. A
creation that finds no unborn thread left fails, and any other may fail too
(inside `init_workqueue` when `InitMayFail`).

Left out: names, messages, a workqueue initialised again after its
destruction, work functions that release their work.

### Two workqueues

`README.md` of the repository leaves races on a structure to its users (note 2).
`TwoQueues` takes users that keep to it (`Serial`: no two callers are inside `queue_work`
for one work) and asks whether that is enough. The lock of one workqueue keeps nobody out who
holds the other, so `queue_work` is cut between the test of `work->wq`, list_add_tail, the
write of `work->wq` and the unlock. The four writes of list_add_tail stay one step, and so do those
of list_del_init: they go to the ring of the queue, whose lock is held, and to a work
that is in no other ring (the rings are disjoint, which is `OnePlace`), and links are
never read without the lock. A worker takes a work with the lock of its own queue and clears
`work->wq` with none. The pool around it (sleepers, signals, size, flush_work) is
that of `Workqueue` and left out.

### Red-black tree

`tree` holds root, children, parents and colours; `parent` and `node` are the
locals of the loops. Each case is written once for a side and its mirror image,
where the code writes it twice. Cases 2 and 3 of an insertion and cases 3 and 4
of an erasure fall through in the code and are one step; so is case 1 of an
erasure with the case that follows it. A NULL dereference of the code would be
an evaluation error of the model. An erased node keeps stale links in the code,
which `rb_link_node` overwrites; the model drops them (`Forget`), so that trees
which differ in them only are one state. The descent to the free place is the
caller's: the model takes it from the test of the library.

`RBDrain` adds the loop `rbtree_postorder_for_each_entry_safe`: `pos`, the `n` read
before the body runs, and as history the nodes met and those the loop began with. A
body that releases leaves the links as they are; a property says that no
later round reads a node that is gone (`PostorderReads` is what `rb_next_postorder`
reads). A body that erases, which rbtree.h:70 forbids and the test
does (test_rbtree.c:79), rebalances between two rounds.

### Min-heap

`data` and `nr` are the struct, `pos` the place of the loop, `low` the index of
the outer loop of `min_heapify_all`. A call is its first writes, then one
step a round. The caller may fill an empty heap and heapify it; heapifying a heap
that is in order already changes nothing and is left out. Pops are called on
a heap that has an element: `min_heap_pop_push` has no test, and on an empty heap
it loses the element it is given (min_heap.c:75). `less` is a set of pairs.

### List

One loop runs at a time, in either direction, over one of the lists, safe or
not, and its body leaves the list alone, takes out its own entry (in a safe
loop only), or adds a free entry anywhere. `met` and `stayed` are history: what
the loop has met, and what was in the list from its start on.

### Callback

Heads are the elements of `node_cbs`, entries the elements of `head_cb`. The table is
any assignment of types to four callbacks, types out of range included,
because users of the template write their own. `init_node_cbs` may run
again, over entries that still hold the links of the first time. Calls of node_online
before it would follow zero pointers and are not made.

### Bitmap

A word is the set of its bits that are 1: `&` is an intersection, `~` a complement in
`Bits`, a shift a translation. Lengths and numbers are unsigned longs: sums are
taken modulo `ULongs`, which is small in the run so that the longest bitmap ends
just below the wrap. `call` holds the arguments of the running call and `ret`
what it is about to return, so that an answer is checked against its own question.
Callers pass numbers below the length and a size up to it.

## The runs

Passing runs:

| run | instance | shows |
|---|---|---|
| pool_safety | 4 threads, 3 works, 2 clients, 1 processor, 5 calls, 1 spurious wakeup | the safety properties, from init to the end of destroy; refinement of WorkPool |
| two_cpus | 2 processors, 4 threads, 2 works, failing creation, a function that flushes another work | init runs beside its workers; `IInv` (with `LockHeld` and `InitOwnsRefCount`), also on the error path; every queued work is run, flush_work and destroy_workqueue return; refinement of WorkPool with its fairness |
| two_queues | 2 queues with 2 workers and 1, 2 works, 2 callers, 5 calls | a work is in one place, the rings stay rings; each queue implements WorkPool |
| rbtree | 8 keys, every order of calls; 14 keys inserted in ascending order, 9 of them erased; loops over trees of up to 8 | links, order, colours, both loop invariants, walks; what a postorder loop meets and reads |
| heap | 4 elements, two of them equal, 5 places | order, minimum, elements kept, refinement of MinQueue |
| list_loops | 2 heads, 4 entries, bodies that add up to 2 | rings, what loops meet, that they end, refinement of ListOrder |
| callbacks | 2 types, 4 callbacks, every table, any number of registrations | each event calls the callbacks of its type, once, in order |
| bitmap | words of 4 bits, lengths 3, 5, 8 and 12 of unsigned longs below 16, 10 of the 12 bits written | the invariant of the search, refinement of BitSet |

Why the bounds are enough. A wakeup is lost, a counter goes wrong or a pool
shrinks too far with two or three workers around one lock; four threads let a
worker be created, leave as surplus and be replaced while another is inside a
function, and three works let one be queued behind two that run. Five calls
queue each work and two of them again. Proofs carry the safety properties to every
size. Eight keys are the fewest for which every case of insertion and a first
round of every case of erasure happens in all orders; the second round of the
erase loop, with a red sibling at the upper level, needs higher trees,
which ascending insertion builds (`MCSpec`). Five places are a heap with
an incomplete last parent on the second level, and a sift of two rounds. Four entries
give a loop a first, a last and two inner entries. Two entries
added by a body are one that the loop meets and one that it has passed; without
a bound (`MaxAdds`) a body could keep a loop going by adding for ever. Two workqueues and two works let a work go to
the other queue while it is tested, linked, run or finished in the first. Four
callbacks give one list of three and one of one, and three give two lists with
an entry that belongs to none. Bitmaps of three words have a first, an inner and a last
word; a length is shorter than a word, a multiple of it, or neither.

The erasing loop is exact at three: from a tree of at most three nodes it takes all,
which the test's three elements rely on, and from one of four it may leave some
(`DrainMeetsAll` with 4 in it fails), as rbtree.h:72 warns.

Deadlock is checked in all passing runs, with the state where the system has
nothing left to do as a step of its own (`Stopped`, `Rest`).
Symmetry is used in pool_safety, whose properties treat threads, works and
clients alike and include no liveness.

Runs that find a disagreement between the code and what is said of it:

| run | property | what happens |
|---|---|---|
| undo_hangs | InitReturns | the error path of init_workqueue polls nr_worker with alive still set: workers go back to sleep and it never ends (workqueue.c:187) |
| undo_cond | CondOutlivesWorkers | the same path destroys the condition before a created worker has counted itself (:189) |
| release_flush | FlushReturns | optimised, the loop `while (work->wq);` reads once (:127). `README.md:45` of the repository calls RELEASE the default; `CMakeLists.txt` sets no build type, so this is the build with `CMAKE_BUILD_TYPE=RELEASE` (gcc -O3) given |
| blocked_pool | PoolGrows | no worker is created while all are inside functions, though the pool may grow (:38) |

Two more disagreements have no run: destroy_workqueue polls nr_worker and
ref_count without the lock that "protects" them (workqueue.h:37), a data race in
C11 that the model takes for sequentially consistent reads; and min_heap.h:19 asks for a
partial order, with which an element that is not minimal may come to the root: the
proofs assume a strict weak order.

## Fairness

`Workqueue!Fairness` is weak fairness of every worker's steps, of the end of
every queue_work and flush_work that has begun, and of the owner's steps. The kernel schedules every runnable
thread; weak fairness of a step that waits for the mutex says that a thread
gets a mutex that stays free, and no more, so threads may overtake each other
at the lock as often as they can. Nothing forces a call, a spurious wakeup, a failure, or
the choice to create a worker: `Relock` may skip the creation, as it does when
`pthread_create` fails. Calls of queue_work are finitely many (`MaxCalls`), and the liveness of two_cpus
is claimed for that: a work that is queued again and again could be set each time
flush_work looks, and the poll would miss the moments between, for ever. That a work function returns is assumed, unless it waits in
flush_work. `List!Spec` has weak fairness of the running loop: a thread that is
in a loop goes on. The heap and the tree have no fairness and no liveness;
instead `RoundsClimb`, which is proved, bounds both loops of the tree by its height.

## The proofs

**Workqueue** (`WorkqueueProofs`). `IInv` is inductive: `Init => IInv` and
`IInv /\ [Next]_vars => IInv'`, one step per action. The properties alone are
not inductive. `CountersExact` ties each counter to the set of locations it
stands for, so that a test of a counter says something about threads.
`NoLostWakeup` needs it: `queue_work` skips the signal when nr_idle_worker is 0,
and then, since the pool never shrinks below its floor (`PoolFloor`), some
worker is neither waiting nor leaving. `PoolFloor` needs that a surplus worker leaves
only when more than NProcs others are idle; `ThreadsBounded` needs that the thread which left
ref_count still holds the lock (`LockHeld`), so that nobody is created beside
it. `OwnerMatches`, `ListMatches` and `WorkersMatch` say what the owner knows
from where it stands, which gives the order of destruction:
nr_worker and then ref_count are 0, and once the owner has had the lock nobody
lives. `LockHeld` and `ListMatches` say of `linking` that the work is in the list, the workqueue
ready and the lock with its caller, so that no worker takes the work and destroy_workqueue does
not begin before `work->wq` is set (`NothingLinked`); with that, `work->wq` is set for
exactly the works in `Waiting` and in workers' hands (`WorkOnce`), which is
what `FlushMeansFinished` follows from. The proofs assume `ConstantsAssumption` only. There is no
theorem that the condition outlives the workers: destroy_workqueue destroys it together with the mutex, for
which `LockOutlives` holds, and on the error path of init_workqueue it is false (`undo_cond`).

**Refinement of WorkPool** (`WorkqueueProofs`, second half). Each step of the workqueue maps to a
step of WorkPool or to none (`SetWq` to none, a work being submitted when it is linked), with
`queue <- work_list`, `running <-` the works
in workers' hands and the phase read off the owner's location. `IInv` supplies
that an accepted work is in neither, and that the pool is empty when it goes down.

**Two workqueues** (`TwoQueuesProofs`). Nothing in the program says in which ring a node
is, and a ring is reached by an unbounded walk. `PInv` says that an owner of each node
exists: neighbours have the same owner, a queue owns itself, and a work is owned
by a queue or is a ring of its own (`OwnedBy`). A work owned by a queue has `work->wq` set, or a
caller is about to set it under the lock of that queue (`LinkedIsSet`), so neither another
caller links it nor, since a worker's work owns itself and has `work->wq` set, does anyone
else take it (`WorkersMatch`). Linking and taking change the owner of one work. What `Members` collects has one owner (`MembersOwned`), hence `OnePlace`.

That each queue for itself is a WorkPool needs `OpenToLink` besides: destroy_workqueue
clears alive under the lock, so a caller that found the queue open still does when it links.
Owners also keep the heads apart, so what `Walk` collects is the one way round its ring (`LinesAreWays`), and
`Link` makes it longer at its end (`LinkIsSubmit`), `Take` shorter at its front
(`TakeIsBegin`), and neither touches the way of another queue (`EachQueueIsAPool`).

**Heap** (`MinHeapProofs`). `HInv` says that the order may fail only at the
place where the loop stands, and that the children of that place are in
order with its parent (`OrderedOver`), without which a swap breaks
what was in order. That the root of an ordered heap is minimal is an induction along the
path to the root; it is stated as the absence of a least counterexample.
The theorems assume `StrictWeakOrder`; a partial order is not enough.
Every step maps to one of MinQueue (`Refinement`). A swap leaves every count
as it was, by a bijection between the places of an element before and after
(`SwapKeepsCounts`). pop and pop_push are seen as a swap of the first place with the last and
a change of the last (`CountsByPrefix`); that what they take is minimal is
`RootIsMinimal`. The counts of all elements add up to nr (`SlotsArePlaces`, again by
the absence of a least counterexample), which is what bounds the queue.

**Red-black tree** (`RBTreeShapes`, `RBTreeProofs`). What is under a node, above it, or
black on the way to it is recursive in the code's own terms, and the provers cannot
unfold that. So a tree is described by two ghosts that no step stores and every step
has: a span for each node, the two keys between which everything under it lies, and a
black height for each node. `Shape` says of a set T of nodes and spans b that the root's span
holds every key, a child takes over the half of its parent's span on its side
(`Kids`), and a missing child means that no node of T lies there (`Gaps`); any two
spans are nested or apart (`Nested`), and a pointer back is one forth. That is local: a write
disturbs it at a few nodes. `Balanced` says the same of the black heights, with at most one place
that lacks one, and `RedsApart` of the colours, with at most one red node under a red
one. `TInv` says that T, b and black heights exist with which the tree is `Between` calls,
`Inserting` at node or `Erasing` at parent. It is inductive (`TStep`): a rotation
gives the lower node the span of the upper one (`RotatedShape`), a flip leaves the spans
alone, and each case of each loop moves the one exception up or ends it
(`InsertFlipKeeps` to `EraseCase4Done`).

The properties follow. `Under(t, n)` is the part of T in n's span (`UnderIsSpan`),
and `Above(t, n)` the nodes in whose span n lies (`AboveIsSpans`), which gives `WellLinked` and
`SearchOrder`; the black nodes above a leaf add up to the root's black height (`BlacksAddUp`), which
gives `RedBlack` and both loop invariants. The walks end, because spans shrink on the way
down and grow on the way up, and stop at the neighbour in order because its span
ends where the gap does (`FurthestIs`, `NextInOrder`). Every behaviour of `RBDrain` is one of the tree
(`DrainKeepsTree`). Postorder is an order on spans too (`Before`): rb_next_postorder goes to the
least node that comes later (`NextPostorderIs`), what a releasing loop has met is what comes
earlier (`Releasing`), and what it goes on to read does not (`ReadsAreLater`). A loop that erases
has read an n other than pos, and an erasure takes pos only (`Felling`). Of at most
three nodes it goes on with the first that is left: the first node is a leaf, without it
the one that came after it is the first (`EraseFirst`), and an erasure that leaves two
nodes has a sibling without children, so it changes colours only (`NoTurnOfTwo`). The proofs assume `NodesAreKeys`: finitely
many nodes, which are integers, and NULL is none of them. The order on
integers stands for the caller's total order on keys.

**List** (`DataTheorems`, `ListProofs`). Insertion between two neighbours and deletion keep
`next` and `prev` inverse to each other (`PutKeepsMutual`, `TakeKeepsMutual`), under every
caller and loop body. For the
loops, what is around a head is the least set that holds it and what next
leads to (`AroundInside`, `AroundHolds`; that `Members` computes it in as many rounds as there
are entries is a count, `UptoGrows`), no head leads to another (`HeadsApart`), a deletion takes
one entry from it and an addition none (`DelAround`, `LinkAround`). So pos and n
stay in the list. `OrderInv` adds what the loop has before it, a segment from pos to the
head (`Segment`): what stayed is in it or was met, and not both. Each round shortens it
by pos, an entry that the body adds may lengthen it (`RoundLeaves`), and at the head nothing
is left of it (`SegmentEnds`). The lemmas are about any two functions, so that they hold
of both directions and of the links after a step.

The sequence of a ring is what leads from its head to its head again (`Way`). A head has one
way (`WayIsUnique`), it is no longer than there are entries (`LeadsFits`, since none comes twice),
and `Walk` is it (`WalkIsWay`). A node put behind a place of a way comes there (`WayGains`), a
node taken out leaves it (`WayLoses`), and no other way changes (`WaySpared`,
`WayOutlasts`). So every step of the rings is one of ListOrder (`Refinement`).

**Callbacks** (`ListProofs`). `CallbackInv` says that what is registered so far is, for
each type, the table up to the counter of init_node_cbs in order (`Made`, on the ways of the rings), that
a second init_node_cbs starts from empty rings whatever the entries still hold, and that a
call has got as far on the way of its type as it has called (`Standing`). That the
table is in the order of its numbers is `CallbackAssumption`.

**Bitmap** (`BitmapProofs`). `BInv` adds the types to `SearchInvariant`. A search
passes a word only if its `tmp` is empty, and `tmp` holds exactly the bits of that
word that are looked for (`InTmp`), so nothing between offset and start was passed
wrongly; since start is below the length, and the length at least a word below
`ULongs`, adding a word does not wrap (`WordsHold`). With that `__ffs` gives the
first number (`FindsFirstBit`: each halving keeps the lowest bit in the lower half,
`HalveStep`) and the bitmap implements BitSet (`Refinement`). That a write touches one
number is that two numbers with the same word and bit are equal (`SameBit`). The provers
cannot reason about `\div` and `%` by a variable, so each arithmetic lemma is
split over the widths `BitmapAssumption` allows.

Only model-checked: liveness, which is out of the prover's reach (of the pool, and that loops
over a list end).

## Not modelled

- `src/main.c`: one loop over getopt_long that sets two globals and prints. It uses no
  library and keeps no state that a later step could find wrong.
- The rest of `common.h`: logging, ASSERT, container_of.
- The augmented callbacks of the tree, which are empty functions.
- Memory: a failing calloc, works released by their functions, weak memory.
- Bitmap lengths within a word of the end of unsigned long, where BITS_TO_LONGS wraps and
  bitmap_alloc succeeds with no room.

Each hazard of these parts is in `PROJECT.json` with a note.

## Plan

All parts are modelled, and every safety property of a passing run has a theorem. What
is left of the code is listed above; a change of it should start at the action that
models it, with the invariant its theorem names.
