----------------------------- MODULE ListProofs -----------------------------
(***************************************************************************)
(* The rings of lib/list stay rings, a loop stays in its list and meets    *)
(* what stays there, and the rings implement the sequences of ListOrder:   *)
(* proved for every set of heads and entries, every loop and every body.   *)
(* Then the callbacks of lib/callback, whose lists are such sequences.     *)
(***************************************************************************)
EXTENDS ListProperties, Callback, DataTheorems, FiniteSetTheorems, TLAPS

LinksTyped == next \in [Nodes -> Nodes] /\ prev \in [Nodes -> Nodes]

\* The places a loop stands at are nodes.
LoopTyped ==
    loop.on => /\ loop.pos \in Nodes /\ loop.n \in Nodes /\ loop.head \in Heads
               /\ loop.direction \in Directions

RInv == LinksTyped /\ Rings

LEMMA RingsAreMutual == RInv <=> LinksTyped /\ Mutual(Nodes, next, prev)
  BY DEF RInv, LinksTyped, Rings, Mutual

LEMMA LinkPuts ==
    ASSUME RInv, NEW e \in Nodes, NEW before \in Nodes, NEW after \in Nodes,
           next[e] = e, before # e, next[before] = after, link_between(e, before, after)
    PROVE  LinksTyped' /\ PutBehind(Nodes, next, prev, next', prev', e, before)
<1>1. prev[after] = before /\ after # e /\ next \in [Nodes -> Nodes] /\ prev \in [Nodes -> Nodes]
  BY DEF RInv, LinksTyped, Rings
<1>2. /\ next'[e] = after /\ next'[before] = e
      /\ prev'[after] = e /\ prev'[e] = before
      /\ \A x \in Nodes : x # e /\ x # before => next'[x] = next[x]
      /\ \A x \in Nodes : x # e /\ x # after => prev'[x] = prev[x]
  BY <1>1 DEF link_between
<1>3. LinksTyped'
  BY <1>1 DEF link_between, LinksTyped
<1>. QED  BY <1>1, <1>2, <1>3 DEF PutBehind

LEMMA DelTakesOut ==
    ASSUME RInv, NEW e \in Nodes, list_del_init(e)
    PROVE  LinksTyped' /\ TakenOut(Nodes, next, prev, next', prev', e)
<1>1. /\ prev[e] \in Nodes /\ next[e] \in Nodes /\ next[prev[e]] = e /\ prev[next[e]] = e
      /\ next \in [Nodes -> Nodes] /\ prev \in [Nodes -> Nodes]
  BY DEF RInv, LinksTyped, Rings
<1>2. /\ next' = [[next EXCEPT ![prev[e]] = next[e]] EXCEPT ![e] = e]
      /\ prev' = [[prev EXCEPT ![next[e]] = prev[e]] EXCEPT ![e] = e]
  BY DEF list_del_init, Unlinked
<1>3. LinksTyped'
  BY <1>1, <1>2 DEF LinksTyped
<1>. QED  BY <1>1, <1>2, <1>3 DEF TakenOut

\* An entry that is a ring of its own goes between two neighbours in a ring.
LEMMA LinkKeepsRings ==
    ASSUME RInv, NEW new \in Nodes, NEW before \in Nodes, NEW after \in Nodes,
           next[new] = new, before # new, next[before] = after,
           link_between(new, before, after)
    PROVE  RInv'
<1>1. Mutual(Nodes, next, prev)
  BY RingsAreMutual
<1>2. LinksTyped' /\ PutBehind(Nodes, next, prev, next', prev', new, before)
  BY LinkPuts
<1>3. Mutual(Nodes, next', prev')
  BY <1>1, <1>2, PutKeepsMutual
<1>. QED  BY <1>2, <1>3 DEF RInv, LinksTyped, Rings, Mutual

\* An entry that is in no list is added at either end of one.
LEMMA AddsKeepsRings ==
    ASSUME ListAssumption, RInv, NEW e \in Entries, Adds(e)
    PROVE  RInv'
<1>1. PICK h \in Heads : list_add(e, h) \/ list_add_tail(e, h)
  BY DEF Adds
<1>2. /\ e \in Nodes /\ h \in Nodes /\ h # e /\ next[e] = e
      /\ next[h] \in Nodes /\ prev[h] \in Nodes /\ next[prev[h]] = h
  BY DEF ListAssumption, Nodes, Adds, list_empty, RInv, LinksTyped, Rings
<1>3. CASE list_add(e, h)
  BY <1>2, <1>3, LinkKeepsRings DEF list_add
<1>4. CASE list_add_tail(e, h)
  <2>1. prev[h] # e
    BY <1>2
  <2>. QED  BY <1>2, <1>4, <2>1, LinkKeepsRings DEF list_add_tail
<1>. QED  BY <1>1, <1>3, <1>4

\* Taking a node out joins its neighbours and leaves a ring of one, also when
\* it was one before.
LEMMA DelKeepsRings ==
    ASSUME RInv, NEW e \in Nodes, list_del_init(e)
    PROVE  RInv'
<1>1. Mutual(Nodes, next, prev)
  BY RingsAreMutual
<1>2. LinksTyped' /\ TakenOut(Nodes, next, prev, next', prev', e)
  BY DelTakesOut
<1>3. Mutual(Nodes, next', prev')
  BY <1>1, <1>2, TakeKeepsMutual
<1>. QED  BY <1>2, <1>3 DEF RInv, LinksTyped, Rings, Mutual

-----------------------------------------------------------------------------
RingsInv == RInv /\ LoopTyped

LEMMA InitRings == Init => RingsInv
  BY DEF Init, RingsInv, RInv, LinksTyped, Rings, LoopTyped, Idle

\* Whatever the body does, the rings stay rings.
LEMMA BodyKeepsRings ==
    ASSUME ListAssumption, RInv, loop.pos \in Nodes, NEW k \in {0, 1}, Body(k)
    PROVE  RInv'
<1>1. CASE UNCHANGED <<links, stayed>>
  BY <1>1 DEF links, RInv, LinksTyped, Rings
<1>2. CASE list_del_init(loop.pos)
  BY <1>2, DelKeepsRings
<1>3. CASE \E e \in Entries \ {loop.pos} : Adds(e)
  BY <1>3, AddsKeepsRings
<1>. QED  BY <1>1, <1>2, <1>3 DEF Body

LEMMA NextKeepsRings ==
    ASSUME ListAssumption, RingsInv, [Next]_vars
    PROVE  RingsInv'
<1>. USE DEF RingsInv
<1>1. CASE Call
  <2>1. RInv'
    <3>1. PICK e \in Entries : Adds(e) \/ list_del_init(e)
      BY <1>1 DEF Call
    <3>2. e \in Nodes
      BY DEF Nodes
    <3>. QED  BY <3>1, <3>2, AddsKeepsRings, DelKeepsRings
  <2>2. LoopTyped'
    BY <1>1 DEF Call, LoopTyped
  <2>. QED  BY <2>1, <2>2
<1>2. ASSUME NEW h \in Heads, NEW direction \in Directions, NEW safe \in BOOLEAN,
             LoopBegin(h, direction, safe)
      PROVE  RingsInv'
  <2>1. RInv'
    BY <1>2 DEF LoopBegin, links, RInv, LinksTyped, Rings
  <2>2. \A x \in Nodes : Follow(direction, x) \in Nodes
    BY DEF Follow, RInv, LinksTyped
  <2>3. h \in Nodes
    BY DEF Nodes
  <2>4. LoopTyped'
    BY <1>2, <2>2, <2>3 DEF LoopBegin, LoopTyped
  <2>. QED  BY <2>1, <2>4
<1>3. CASE LoopRound
  <2>1. loop.on /\ loop.pos \in Nodes /\ loop.n \in Nodes
    BY <1>3 DEF LoopRound, LoopTyped
  <2>5. PICK k \in {0, 1} :
          /\ Body(k)
          /\ loop' = [loop EXCEPT !.pos = Advanced, !.n = FollowAfter(loop.direction, Advanced),
                                  !.adds = @ + k]
    BY <1>3 DEF LoopRound
  <2>2. RInv'
    BY <2>1, <2>5, BodyKeepsRings
  <2>3. \A x \in Nodes : FollowAfter(loop.direction, x) \in Nodes
    BY <2>2 DEF FollowAfter, RInv, LinksTyped
  <2>4. Advanced \in Nodes /\ FollowAfter(loop.direction, Advanced) \in Nodes
    BY <2>1, <2>3 DEF Advanced
  <2>6. LoopTyped'
    BY <2>1, <2>4, <2>5 DEF LoopTyped
  <2>. QED  BY <2>2, <2>6
<1>4. CASE LoopEnd
  BY <1>4 DEF LoopEnd, links, RInv, LinksTyped, Rings, LoopTyped, Idle
<1>5. CASE UNCHANGED vars
  BY <1>5 DEF vars, links, RInv, LinksTyped, Rings, LoopTyped
<1>. QED  BY <1>1, <1>2, <1>3, <1>4, <1>5 DEF Next

\* In every list and around every entry in none, next and prev agree, after
\* every call and every round of a loop whose body takes out or adds entries.
THEOREM RingsKept == SafeSpec => []Rings
<1>1. Init => RingsInv
  BY InitRings
<1>2. RingsInv /\ [Next]_vars => RingsInv'
  BY ListAssumption, NextKeepsRings
<1>3. RingsInv => Rings
  BY DEF RingsInv, RInv
<1>. QED  BY <1>1, <1>2, <1>3, PTL DEF SafeSpec

-----------------------------------------------------------------------------
(* What Members collects, for any function in the place of next, so that   *)
(* the lemmas speak of next' as well.                                      *)

LEMMA MembersIs == \A h : Members(h) = MembersBy(Entries, next, h)
  BY Zenon DEF Members, MembersBy, IsUpto, Reach

LEMMA NextMembersIs == \A h : Members(h)' = MembersBy(Entries, next', h)
  BY Zenon DEF Members, MembersBy, IsUpto, Reach

-----------------------------------------------------------------------------
(* The lists stay apart: no head leads to another.                         *)

HeadsApart(nx) == \A h \in Heads : Alone(Entries, nx, h)

LEMMA HeadsAre ==
    ASSUME ListAssumption
    PROVE  Entries \subseteq Nodes /\ \A h \in Heads : h \in Nodes /\ h \notin Entries
  BY DEF ListAssumption, Nodes

LEMMA RingsOfHeads ==
    ASSUME FiniteAssumption, NEW nx, HeadsApart(nx), NEW h \in Heads
    PROVE  Encloses(RingOf(Entries, nx, h), nx, h) /\ MembersBy(Entries, nx, h) \subseteq Entries
<1>1. IsFiniteSet(Entries) /\ Alone(Entries, nx, h)
  BY DEF FiniteAssumption, HeadsApart
<1>. QED  BY <1>1, AroundAHead, Zenon

LEMMA RingsBothWays ==
    ASSUME FiniteAssumption, NEW nx, NEW pv, HeadsApart(nx), NEW h \in Heads,
           \A x \in Nodes : pv[x] \in Nodes /\ nx[pv[x]] = x /\ pv[nx[x]] = x
    PROVE  \A x \in RingOf(Entries, nx, h) :
               x \in Nodes /\ nx[x] \in RingOf(Entries, nx, h) /\ pv[x] \in RingOf(Entries, nx, h)
<1>1. IsFiniteSet(Entries) /\ Alone(Entries, nx, h) /\ Entries \subseteq Nodes /\ h \in Nodes
  BY DEF FiniteAssumption, HeadsApart, Nodes
<1>2. Undoes(Nodes, nx, pv)
  BY DEF Undoes
<1>. QED  BY <1>1, <1>2, AroundBothWays, Zenon

LEMMA HeadsWalk ==
    ASSUME ListAssumption, FiniteAssumption, NEW nx, NEW pv, Mutual(Nodes, nx, pv), HeadsApart(nx), NEW h \in Heads
    PROVE  Way(Entries, nx, pv, h, WalkBy(Entries, nx, h))
<1>1. IsFiniteSet(Entries) /\ Alone(Entries, nx, h) /\ Entries \subseteq Nodes /\ h \in Nodes /\ h \notin Entries
  BY HeadsAre DEF FiniteAssumption, HeadsApart
<1>. QED  BY <1>1, WalkIsWay, Zenon

\* A deletion shortens what is around a head by the entry, and by no more.
LEMMA DelAround ==
    ASSUME ListAssumption, FiniteAssumption, RInv, HeadsApart(next), NEW e \in Entries, list_del_init(e)
    PROVE  /\ HeadsApart(next')
           /\ \A h \in Heads : RingOf(Entries, next, h) \ {e} \subseteq RingOf(Entries, next', h)
<1> DEFINE p == prev[e]
           n == next[e]
<1>1. /\ e \in Nodes /\ p \in Nodes /\ next[p] = e /\ next \in [Nodes -> Nodes]
      /\ \A x \in Nodes : next[x] = e => x = p
  BY DEF Nodes, RInv, LinksTyped, Rings
<1>2. next' = [[next EXCEPT ![p] = n] EXCEPT ![e] = e]
  BY DEF list_del_init, Unlinked
<1>3. n = e => p = e
  BY <1>1
<1>4. n = next[e]
  OBVIOUS
<1> HIDE DEF p, n
<1>5. /\ next'[e] = e /\ (p # e => next'[p] = n)
      /\ \A x \in Nodes : x # e /\ x # p => next'[x] = next[x]
  BY <1>1, <1>2
<1>6. ASSUME NEW h \in Heads, NEW C, Encloses(C, next, h), C \ {h} \subseteq Entries
      PROVE  Encloses(C \ {e}, next', h) /\ (C \ {e}) \ {h} \subseteq Entries
  <2>1. h \in C \ {e}
    BY <1>6 DEF Encloses, ListAssumption
  <2>2. ASSUME NEW x \in C \ {e} PROVE next'[x] \in C \ {e}
    <3>1. x \in Nodes /\ x \in C /\ x # e /\ next[x] \in C
      BY <1>6, <2>2 DEF Nodes, Encloses
    <3>2. CASE x = p
      BY <1>1, <1>3, <1>4, <1>5, <1>6, <3>1, <3>2 DEF Encloses
    <3>3. CASE x # p
      BY <1>1, <1>5, <3>1, <3>3
    <3>. QED  BY <3>2, <3>3
  <2>. QED  BY <1>6, <2>1, <2>2 DEF Encloses
<1>7. HeadsApart(next')
  <2>1. ASSUME NEW h \in Heads PROVE \E C : Encloses(C, next', h) /\ C \ {h} \subseteq Entries
    <3>1. PICK C : Encloses(C, next, h) /\ C \ {h} \subseteq Entries
      BY DEF HeadsApart, Alone
    <3>. QED  BY <1>6, <3>1
  <2>. QED  BY <2>1 DEF HeadsApart, Alone
<1>8. ASSUME NEW h \in Heads PROVE RingOf(Entries, next, h) \ {e} \subseteq RingOf(Entries, next', h)
  <2> DEFINE A == RingOf(Entries, next, h)
             B == RingOf(Entries, next', h)
  <2>1. Encloses(A, next, h) /\ A \ {h} \subseteq Entries
    BY RingsOfHeads DEF RingOf
  <2>2. Encloses(B, next', h)
    BY <1>7, RingsOfHeads
  <2>3. B \subseteq A \ {e}
    <3>1. Encloses(A \ {e}, next', h)
      BY <1>6, <2>1
    <3>. QED  BY <3>1, AroundInside
  <2>4. \A C : Encloses(C, next, h) => A \subseteq C
    BY AroundInside
  <2> HIDE DEF A, B
  <2>5. \A x \in B : x \in Nodes /\ x # e
    BY <2>1, <2>3 DEF Nodes
  <2>6. CASE e \notin A
    <3>1. \A x \in B : next[x] # e
      BY <2>1, <2>3, <2>6 DEF Encloses
    <3>2. \A x \in B : x # p
      BY <1>1, <3>1
    <3>3. Encloses(B, next, h)
      BY <1>5, <2>2, <2>5, <3>2 DEF Encloses
    <3>. QED  BY <2>4, <3>3 DEF A, B
  <2>7. CASE e \in A /\ p \notin B
    <3>1. Encloses(B, next, h)
      BY <1>5, <2>2, <2>5, <2>7 DEF Encloses
    <3>. QED  BY <2>4, <3>1 DEF A, B
  <2>8. CASE p \in B
    <3>1. p # e /\ n \in B
      BY <1>5, <2>2, <2>5, <2>8 DEF Encloses
    <3>2. Encloses(B \cup {e}, next, h)
      BY <1>1, <1>4, <1>5, <2>2, <2>5, <3>1 DEF Encloses
    <3>. QED  BY <2>4, <3>2 DEF A, B
  <2>. QED  BY <2>6, <2>7, <2>8
<1>. QED  BY <1>7, <1>8

\* An addition takes nothing from what is around a head, and brings no other head.
LEMMA LinkAround ==
    ASSUME ListAssumption, FiniteAssumption, RInv, HeadsApart(next),
           NEW e \in Entries, NEW before \in Nodes, NEW after \in Nodes,
           next[e] = e, before # e, next[before] = after, link_between(e, before, after)
    PROVE  /\ HeadsApart(next')
           /\ \A h \in Heads : RingOf(Entries, next, h) \subseteq RingOf(Entries, next', h)
<1>1. /\ e \in Nodes /\ after # e /\ next \in [Nodes -> Nodes]
      /\ \A x \in Nodes : next[x] = e => x = e
      /\ \A x \in Nodes : next[x] = after => x = before
  BY DEF Nodes, RInv, LinksTyped, Rings
<1>2. next' = [next EXCEPT ![e] = after, ![before] = e]
  BY DEF link_between
<1>3. /\ next'[e] = after /\ next'[before] = e
      /\ \A x \in Nodes : x # e /\ x # before => next'[x] = next[x]
  BY <1>1, <1>2
<1>4. ASSUME NEW h \in Heads PROVE \E C : Encloses(C, next', h) /\ C \ {h} \subseteq Entries
  <2>1. PICK C : Encloses(C, next, h) /\ C \ {h} \subseteq Entries
    BY DEF HeadsApart, Alone
  <2>2. \A x \in C : x \in Nodes /\ (x # e => next[x] # e) /\ next[x] \in C
    BY <1>1, <2>1 DEF Nodes, Encloses
  <2>3. h \in C /\ h # e
    BY <2>1 DEF Encloses, ListAssumption
  <2>4. CASE before \in C
    <3>1. after \in C
      BY <2>2, <2>4
    <3>2. Encloses(C \cup {e}, next', h)
      BY <1>3, <2>2, <2>3, <3>1 DEF Encloses
    <3>. QED  BY <2>1, <3>2
  <2>5. CASE before \notin C
    <3>1. Encloses(C \ {e}, next', h)
      BY <1>3, <2>2, <2>3, <2>5 DEF Encloses
    <3>. QED  BY <2>1, <3>1
  <2>. QED  BY <2>4, <2>5
<1>5. HeadsApart(next')
  BY <1>4 DEF HeadsApart, Alone
<1>6. ASSUME NEW h \in Heads PROVE RingOf(Entries, next, h) \subseteq RingOf(Entries, next', h)
  <2> DEFINE B == RingOf(Entries, next', h)
  <2>1. Encloses(B, next', h) /\ B \ {h} \subseteq Entries
    BY <1>5, RingsOfHeads DEF RingOf
  <2> HIDE DEF B
  <2>2. \A x \in B : x \in Nodes /\ next'[x] \in B
    BY <2>1 DEF Nodes, Encloses
  <2>3. ASSUME NEW x \in B \ {e} PROVE next[x] \in B \ {e}
    <3>1. x \in Nodes /\ next[x] # e /\ next'[x] \in B
      BY <1>1, <2>2
    <3>2. CASE x = before
      BY <1>1, <1>3, <2>2, <3>1, <3>2
    <3>3. CASE x # before
      BY <1>3, <3>1, <3>3
    <3>. QED  BY <3>2, <3>3
  <2>4. Encloses(B \ {e}, next, h)
    BY <2>1, <2>3 DEF Encloses, ListAssumption
  <2>. QED  BY <2>4, AroundInside DEF B
<1>. QED  BY <1>5, <1>6

-----------------------------------------------------------------------------
(* The loops.                                                              *)

\* The loop stands in its list, and n is what comes after pos.
LoopInside ==
    loop.on => /\ loop.pos \in RingOf(Entries, next, loop.head)
               /\ loop.n = Follow(loop.direction, loop.pos)

LoopInv == RingsInv /\ HeadsApart(next) /\ LoopInside

LEMMA InitLoopInv == ASSUME ListAssumption, Init PROVE LoopInv
<1>1. ASSUME NEW h \in Heads PROVE \E C : Encloses(C, next, h) /\ C \ {h} \subseteq Entries
  <2>1. Encloses({h}, next, h)
    BY DEF Init, Encloses, Nodes
  <2>. QED  BY <2>1
<1>. QED  BY <1>1, InitRings DEF Init, LoopInv, HeadsApart, Alone, LoopInside, Idle

LEMMA AddsApart ==
    ASSUME ListAssumption, FiniteAssumption, RInv, HeadsApart(next), NEW e \in Entries, Adds(e)
    PROVE  HeadsApart(next') /\ \A h \in Heads : RingOf(Entries, next, h) \subseteq RingOf(Entries, next', h)
<1>1. PICK h \in Heads : list_add(e, h) \/ list_add_tail(e, h)
  BY DEF Adds
<1>2. /\ h \in Nodes /\ h # e /\ next[e] = e
      /\ next[h] \in Nodes /\ prev[h] \in Nodes /\ next[prev[h]] = h
  BY DEF ListAssumption, Nodes, Adds, list_empty, RInv, LinksTyped, Rings
<1>3. CASE list_add(e, h)
  BY <1>2, <1>3, LinkAround DEF list_add
<1>4. CASE list_add_tail(e, h)
  <2>1. prev[h] # e
    BY <1>2
  <2>. QED  BY <1>2, <1>4, <2>1, LinkAround DEF list_add_tail
<1>. QED  BY <1>1, <1>3, <1>4

LEMMA CallStep == ASSUME ListAssumption, FiniteAssumption, LoopInv, Call PROVE HeadsApart(next') /\ LoopInside'
<1>1. PICK e \in Entries : Adds(e) \/ list_del_init(e)
  BY DEF Call
<1>2. HeadsApart(next')
  BY <1>1, AddsApart, DelAround DEF LoopInv, RingsInv
<1>. QED  BY <1>2 DEF Call, LoopInside

LEMMA LoopBeginStep ==
    ASSUME FiniteAssumption, LoopInv, NEW h \in Heads, NEW direction \in Directions, NEW safe \in BOOLEAN,
           LoopBegin(h, direction, safe)
    PROVE  HeadsApart(next') /\ LoopInside'
<1>1. \A x \in Nodes : prev[x] \in Nodes /\ next[prev[x]] = x /\ prev[next[x]] = x
  BY DEF LoopInv, RingsInv, RInv, LinksTyped, Rings
<1>2. Follow(direction, h) \in RingOf(Entries, next, h)
  <2>1. h \in RingOf(Entries, next, h)
    BY DEF RingOf
  <2>2. next[h] \in RingOf(Entries, next, h) /\ prev[h] \in RingOf(Entries, next, h)
    BY <1>1, <2>1, RingsBothWays DEF LoopInv
  <2>. QED  BY <2>2 DEF Follow
<1>3. next' = next /\ prev' = prev
  BY DEF LoopBegin, links
<1>4. /\ loop'.pos = Follow(direction, h) /\ loop'.head = h /\ loop'.direction = direction
      /\ loop'.n = Follow(direction, Follow(direction, h))
  BY DEF LoopBegin
<1>. QED  BY <1>2, <1>3, <1>4 DEF LoopInv, LoopInside, Follow

\* n is still in the list when pos has been taken out, because it is not pos.
LEMMA LoopRoundStep ==
    ASSUME ListAssumption, FiniteAssumption, LoopInv, RInv', LoopRound
    PROVE  HeadsApart(next') /\ LoopInside'
<1>1. loop.on /\ loop.pos # loop.head /\ loop.head \in Heads /\ loop.pos \in Nodes /\ loop.direction \in Directions
  BY DEF LoopRound, LoopInv, RingsInv, LoopTyped
<1>2. PICK k \in {0, 1} :
        /\ Body(k)
        /\ loop' = [loop EXCEPT !.pos = Advanced, !.n = FollowAfter(loop.direction, Advanced), !.adds = @ + k]
  BY DEF LoopRound
<1>3. loop'.pos = Advanced /\ loop'.n = FollowAfter(loop.direction, Advanced)
      /\ loop'.head = loop.head /\ loop'.direction = loop.direction
  BY <1>2 DEF LoopRound
<1> DEFINE A == RingOf(Entries, next, loop.head)
<1>4. \A x \in Nodes : prev[x] \in Nodes /\ next[prev[x]] = x /\ prev[next[x]] = x
  BY DEF LoopInv, RingsInv, RInv, LinksTyped, Rings
<1>5. \A x \in Nodes : prev'[x] \in Nodes /\ next'[prev'[x]] = x /\ prev'[next'[x]] = x
  BY DEF RInv, LinksTyped, Rings
<1>6. \A x \in A : x \in Nodes /\ next[x] \in A /\ prev[x] \in A
  BY <1>1, <1>4, RingsBothWays DEF LoopInv
<1>7. loop.pos \in A /\ loop.n \in A /\ loop.n = Follow(loop.direction, loop.pos)
  BY <1>1, <1>6 DEF LoopInv, LoopInside, Follow
\* What is needed of the body.
<1>8. SUFFICES HeadsApart(next') /\ Advanced \in RingOf(Entries, next', loop.head)
  BY <1>3, <1>8 DEF LoopInside, Follow, FollowAfter
<1>9. ASSUME HeadsApart(next'), loop.pos \in RingOf(Entries, next', loop.head), loop.n \in RingOf(Entries, next', loop.head)
      PROVE  Advanced \in RingOf(Entries, next', loop.head)
  <2>1. next'[loop.pos] \in RingOf(Entries, next', loop.head) /\ prev'[loop.pos] \in RingOf(Entries, next', loop.head)
    BY <1>1, <1>5, <1>9, RingsBothWays
  <2>. QED  BY <1>9, <2>1 DEF Advanced, FollowAfter
<1>10. CASE UNCHANGED links
  BY <1>7, <1>9, <1>10 DEF links, LoopInv
<1>11. CASE \E e \in Entries \ {loop.pos} : Adds(e)
  BY <1>1, <1>7, <1>9, <1>11, AddsApart DEF LoopInv, RingsInv
<1>12. CASE loop.safe /\ list_del_init(loop.pos)
  <2>1. loop.pos \in Entries
    BY <1>1, <1>7, RingsOfHeads DEF RingOf, LoopInv
  <2>2. HeadsApart(next') /\ A \ {loop.pos} \subseteq RingOf(Entries, next', loop.head)
    BY <1>1, <1>12, <2>1, DelAround DEF LoopInv, RingsInv
  <2>3. loop.n # loop.pos
    <3>1. SUFFICES ASSUME loop.n = loop.pos PROVE FALSE
      OBVIOUS
    <3>2. next[loop.pos] = loop.pos
      BY <1>1, <1>4, <1>7, <3>1 DEF Follow
    <3>3. \A x \in A \ {loop.pos} : next[x] \in A \ {loop.pos}
      BY <1>1, <1>4, <1>6, <3>2
    <3>4. Encloses(A \ {loop.pos}, next, loop.head)
      BY <1>1, <3>3 DEF Encloses, RingOf
    <3>5. A \subseteq A \ {loop.pos}
      BY <3>4, AroundInside
    <3>. QED  BY <1>7, <3>5
  <2>. QED  BY <1>7, <1>12, <2>2, <2>3 DEF Advanced
<1>. QED  BY <1>2, <1>10, <1>11, <1>12 DEF Body

LEMMA NextLoopInv == ASSUME ListAssumption, FiniteAssumption, LoopInv, [Next]_vars PROVE LoopInv'
<1>1. RingsInv'
  BY NextKeepsRings DEF LoopInv
<1>2. CASE Call
  BY <1>1, <1>2, CallStep DEF LoopInv
<1>3. CASE LoopRound
  BY <1>1, <1>3, LoopRoundStep DEF LoopInv, RingsInv
<1>4. CASE LoopEnd
  BY <1>1, <1>4 DEF LoopEnd, links, LoopInv, LoopInside, Idle
<1>5. CASE \E h \in Heads, direction \in Directions, safe \in BOOLEAN : LoopBegin(h, direction, safe)
  BY <1>1, <1>5, LoopBeginStep DEF LoopInv
<1>6. CASE UNCHANGED vars
  BY <1>1, <1>6 DEF vars, links, LoopInv, LoopInside, Follow
<1>. QED  BY <1>2, <1>3, <1>4, <1>5, <1>6 DEF Next

LEMMA InsideMeansMembers == ASSUME FiniteAssumption, LoopInv PROVE LoopStaysInList
<1>1. \A x \in Nodes : prev[x] \in Nodes /\ next[prev[x]] = x /\ prev[next[x]] = x
  BY DEF LoopInv, RingsInv, RInv, LinksTyped, Rings
<1>2. ASSUME loop.on PROVE {loop.pos, loop.n} \subseteq RingOf(Entries, next, loop.head)
  <2>1. loop.head \in Heads /\ loop.pos \in RingOf(Entries, next, loop.head)
    BY <1>2 DEF LoopInv, RingsInv, LoopTyped, LoopInside
  <2>2. next[loop.pos] \in RingOf(Entries, next, loop.head) /\ prev[loop.pos] \in RingOf(Entries, next, loop.head)
    BY <1>1, <2>1, RingsBothWays DEF LoopInv
  <2>. QED  BY <1>2, <2>1, <2>2 DEF LoopInv, LoopInside, Follow
<1>3. \A h : RingOf(Entries, next, h) = Members(h) \cup {h}
  BY MembersIs DEF RingOf
<1>. QED  BY <1>2, <1>3 DEF LoopStaysInList

\* Where a loop stands and where it goes next are in its list, whatever its body
\* takes out or adds, in either direction and around any number of lists.
THEOREM LoopsStay == SafeSpec => []LoopStaysInList
<1>1. Init => LoopInv
  BY ListAssumption, InitLoopInv
<1>2. LoopInv /\ [Next]_vars => LoopInv'
  BY ListAssumption, FiniteAssumption, NextLoopInv
<1>3. LoopInv => LoopStaysInList
  BY FiniteAssumption, InsideMeansMembers
<1>. QED  BY <1>1, <1>2, <1>3, PTL DEF SafeSpec

-----------------------------------------------------------------------------
(* What loops meet.                                                        *)

\* D is what lies from p to h on the way fw, whose way back is bk.
Segment(fw, bk, D, p, h) ==
    /\ D \subseteq Nodes /\ p \in D /\ h \in D
    /\ \A x \in D \ {h} : fw[x] \in D \ {p}
    /\ \A x \in D \ {p} : bk[x] \in D \ {h}

LEMMA SegmentAdvances ==
    ASSUME NEW fw, NEW bk, Mutual(Nodes, fw, bk), NEW D, NEW p, NEW h, Segment(fw, bk, D, p, h), p # h
    PROVE  Segment(fw, bk, D \ {p}, fw[p], h)
<1>1. p \in Nodes /\ fw[p] \in D \ {p} /\ bk[fw[p]] = p
  BY DEF Segment, Mutual
<1>2. \A x \in D \ {p} : x \in Nodes /\ bk[x] \in D \ {h} /\ (bk[x] = p => x = fw[p])
  BY DEF Segment, Mutual
<1>3. \A x \in (D \ {p}) \ {h} : x \in Nodes /\ fw[x] \in D \ {p} /\ (fw[x] = fw[p] => x = p)
  BY <1>1 DEF Segment, Mutual
<1>. QED  BY <1>1, <1>2, <1>3 DEF Segment

\* A node that goes between b and a is in the segment if b is, and b is not its end.
LEMMA SegmentInserts ==
    ASSUME NEW fw, NEW bk, Mutual(Nodes, fw, bk), NEW D, NEW p, NEW h, Segment(fw, bk, D, p, h),
           NEW gw, NEW gk, NEW e \in Nodes \ D, NEW b \in Nodes, fw[b] # e, b # e,
           gw[e] = fw[b], gw[b] = e, gk[e] = b, gk[fw[b]] = e,
           \A x \in Nodes : x # e /\ x # b => gw[x] = fw[x],
           \A x \in Nodes : x # e /\ x # fw[b] => gk[x] = bk[x]
    PROVE  Segment(gw, gk, IF b \in D \ {h} THEN D \cup {e} ELSE D, p, h)
<1>1. fw[b] \in Nodes /\ bk[fw[b]] = b
  BY DEF Mutual
<1>2. \A x \in D : x \in Nodes /\ x # e
  BY DEF Segment
<1>3. CASE b \in D \ {h}
  <2>1. \A x \in (D \cup {e}) \ {h} : gw[x] \in (D \cup {e}) \ {p}
    BY <1>1, <1>2, <1>3 DEF Segment
  <2>2. \A x \in (D \cup {e}) \ {p} : gk[x] \in (D \cup {e}) \ {h}
    BY <1>1, <1>2, <1>3 DEF Segment
  <2>. QED  BY <1>3, <2>1, <2>2 DEF Segment
<1>4. CASE b \notin D \ {h}
  <2>1. \A x \in D \ {h} : gw[x] \in D \ {p}
    BY <1>2, <1>4 DEF Segment
  <2>2. \A x \in D \ {p} : x # fw[b]
    BY <1>1, <1>4 DEF Segment
  <2>3. \A x \in D \ {p} : gk[x] \in D \ {h}
    BY <1>2, <2>2 DEF Segment
  <2>. QED  BY <1>4, <2>1, <2>3 DEF Segment
<1>. QED  BY <1>3, <1>4

\* Taking a node out that is not in it leaves it.
LEMMA SegmentStays ==
    ASSUME NEW fw, NEW bk, Mutual(Nodes, fw, bk), NEW D, NEW p, NEW h, Segment(fw, bk, D, p, h),
           NEW gw, NEW gk, NEW e \in Nodes \ D,
           \A x \in Nodes : x # e /\ x # bk[e] => gw[x] = fw[x],
           \A x \in Nodes : x # e /\ x # fw[e] => gk[x] = bk[x]
    PROVE  Segment(gw, gk, D, p, h)
<1>1. \A x \in D \ {h} : x \in Nodes /\ x # e /\ x # bk[e]
  BY DEF Segment, Mutual
<1>2. \A x \in D \ {p} : x \in Nodes /\ x # e /\ x # fw[e]
  BY DEF Segment, Mutual
<1>. QED  BY <1>1, <1>2 DEF Segment

\* At its end nothing is left of it.
LEMMA SegmentEnds ==
    ASSUME FiniteAssumption, NEW nx, NEW pv, Mutual(Nodes, nx, pv), NEW h \in Heads, NEW D,
           Segment(nx, pv, D, h, h) \/ Segment(pv, nx, D, h, h),
           HeadsApart(nx), D \subseteq RingOf(Entries, nx, h)
    PROVE  D = {h}
<1> DEFINE A == RingOf(Entries, nx, h)
           C == A \ (D \ {h})
<1>1. \A x \in D \ {h} : nx[x] \in D \ {h} /\ pv[x] \in D \ {h}
  BY DEF Segment
<1>2. Encloses(A, nx, h) /\ A \subseteq Nodes
  BY RingsOfHeads DEF RingOf, Nodes
<1>3. \A y \in A : nx[y] \in D \ {h} => y \in D \ {h}
  BY <1>1, <1>2 DEF Mutual
<1>4. Encloses(C, nx, h)
  BY <1>2, <1>3 DEF Encloses
<1>5. A \subseteq C
  BY <1>4, AroundInside
<1>6. h \in D
  BY DEF Segment
<1>. QED  BY <1>5, <1>6

\* The links that a loop follows, and those that lead back.
Ahead(d) == IF d = "next" THEN next ELSE prev
Behind(d) == IF d = "next" THEN prev ELSE next

\* D is what the loop still has before it: what stayed is there or was met, not both.
BeforeLoop(D) ==
    /\ Segment(Ahead(loop.direction), Behind(loop.direction), D, loop.pos, loop.head)
    /\ D \subseteq RingOf(Entries, next, loop.head)
    /\ stayed \cap met \cap D = {}
    /\ stayed \subseteq met \cup D

OrderInside ==
    loop.on => /\ stayed \subseteq RingOf(Entries, next, loop.head) \ {loop.head}
               /\ \E D : BeforeLoop(D)

OrderInv == LoopInv /\ OrderInside

LEMMA WaysAreMutual ==
    ASSUME RInv, NEW d \in Directions
    PROVE  Mutual(Nodes, Ahead(d), Behind(d)) /\ \A x : Follow(d, x) = Ahead(d)[x]
  BY DEF RInv, LinksTyped, Rings, Mutual, Ahead, Behind, Follow

\* An entry that is a ring of its own is in no list.
LEMMA LooseIsOutside ==
    ASSUME FiniteAssumption, RInv, HeadsApart(next), NEW h \in Heads, NEW e \in Nodes, e # h, next[e] = e
    PROVE  e \notin RingOf(Entries, next, h)
<1> DEFINE A == RingOf(Entries, next, h)
<1>1. Encloses(A, next, h) /\ A \subseteq Nodes
  BY RingsOfHeads DEF RingOf, Nodes
<1>2. \A x \in Nodes : next[x] = e => x = e
  BY DEF RInv, Rings
<1>3. Encloses(A \ {e}, next, h)
  BY <1>1, <1>2 DEF Encloses
<1>4. A \subseteq A \ {e}
  BY <1>3, AroundInside
<1>. QED  BY <1>4

LEMMA LinkPutsBehind ==
    ASSUME RInv, NEW e \in Nodes, NEW before \in Nodes, NEW after \in Nodes,
           next[e] = e, before # e, next[before] = after, link_between(e, before, after),
           NEW d \in Directions
    PROVE  \E b \in Nodes : PutBehind(Nodes, Ahead(d), Behind(d), Ahead(d)', Behind(d)', e, b)
<1>1. prev[after] = before /\ after # e /\ next \in [Nodes -> Nodes] /\ prev \in [Nodes -> Nodes]
  BY DEF RInv, LinksTyped, Rings
<1>2. PutBehind(Nodes, next, prev, next', prev', e, before)
  BY LinkPuts
<1>3. CASE d = "next"
  BY <1>2, <1>3 DEF Ahead, Behind
<1>4. CASE d = "prev"
  <2>1. PutBehind(Nodes, prev, next, prev', next', e, after)
    BY <1>1, <1>2 DEF PutBehind
  <2>. QED  BY <1>4, <2>1 DEF Ahead, Behind
<1>. QED  BY <1>3, <1>4 DEF Directions

LEMMA AddsPutsBehind ==
    ASSUME ListAssumption, RInv, NEW e \in Entries, Adds(e), NEW d \in Directions
    PROVE  \E b \in Nodes : PutBehind(Nodes, Ahead(d), Behind(d), Ahead(d)', Behind(d)', e, b)
<1>1. PICK h \in Heads : list_add(e, h) \/ list_add_tail(e, h)
  BY DEF Adds
<1>2. /\ e \in Nodes /\ h \in Nodes /\ h # e /\ next[e] = e
      /\ next[h] \in Nodes /\ prev[h] \in Nodes /\ next[prev[h]] = h
  BY DEF ListAssumption, Nodes, Adds, list_empty, RInv, LinksTyped, Rings
<1>3. CASE list_add(e, h)
  BY <1>2, <1>3, LinkPutsBehind DEF list_add
<1>4. CASE list_add_tail(e, h)
  <2>1. prev[h] # e
    BY <1>2
  <2>. QED  BY <1>2, <1>4, <2>1, LinkPutsBehind DEF list_add_tail
<1>. QED  BY <1>1, <1>3, <1>4

LEMMA OrderBeginStep ==
    ASSUME ListAssumption, FiniteAssumption, OrderInv, NEW h \in Heads, NEW direction \in Directions, NEW safe \in BOOLEAN,
           LoopBegin(h, direction, safe)
    PROVE  OrderInside'
<1> DEFINE A == RingOf(Entries, next, h)
<1>1. /\ loop'.pos = Follow(direction, h) /\ loop'.head = h /\ loop'.direction = direction
      /\ met' = {} /\ stayed' = Members(h) /\ next' = next /\ prev' = prev
  BY DEF LoopBegin, links
<1>2. \A x \in Nodes : prev[x] \in Nodes /\ next[prev[x]] = x /\ prev[next[x]] = x
  BY DEF OrderInv, LoopInv, RingsInv, RInv, LinksTyped, Rings
<1>3. \A x \in A : x \in Nodes /\ next[x] \in A /\ prev[x] \in A
  BY <1>2, RingsBothWays DEF OrderInv, LoopInv
<1>4. h \in A
  BY DEF RingOf
<1>5. Segment(Ahead(direction), Behind(direction), A, Ahead(direction)[h], h)
  BY <1>2, <1>3, <1>4 DEF Segment, Ahead, Behind
<1>6. Members(h) \subseteq A \ {h}
  <2>1. Encloses(A, next, h)
    BY RingsOfHeads DEF OrderInv, LoopInv
  <2>. QED  BY <2>1, AroundInside, MembersIs
<1>7. \E D : BeforeLoop(D)'
  <2>1. Segment(Ahead(direction), Behind(direction), A, Follow(direction, h), h)
    BY <1>5 DEF Ahead, Follow
  <2>. QED  BY <1>1, <1>6, <2>1 DEF BeforeLoop, Ahead, Behind
<1>. QED  BY <1>1, <1>6, <1>7 DEF OrderInside

\* What the loop has before it after a round: all it had but pos, and the entry
\* that the body added, if it was added there.
LEMMA RoundLeaves ==
    ASSUME ListAssumption, FiniteAssumption, OrderInv, RInv', HeadsApart(next'), LoopRound,
           NEW d \in Directions, d = loop.direction, NEW p, p = loop.pos, NEW h \in Heads, h = loop.head,
           NEW D, BeforeLoop(D)
    PROVE  \E E : /\ Segment(Ahead(d)', Behind(d)', E, Advanced, h)
                  /\ E \subseteq RingOf(Entries, next', h)
                  /\ D \ {p} \subseteq E /\ p \notin E
                  /\ E \cap stayed \subseteq D
                  /\ stayed' \subseteq stayed /\ stayed \subseteq stayed' \cup {p}
                  /\ stayed' \subseteq RingOf(Entries, next', h)
<1>1. loop.on /\ p # h /\ p \in Nodes
  BY DEF LoopRound, OrderInv, LoopInv, RingsInv, LoopTyped
<1>2. PICK fw, bk, gw, gk : fw = Ahead(d) /\ bk = Behind(d) /\ gw = Ahead(d)' /\ gk = Behind(d)'
  OBVIOUS
<1>3. Mutual(Nodes, fw, bk) /\ Mutual(Nodes, gw, gk)
  BY <1>2, WaysAreMutual DEF OrderInv, LoopInv, RingsInv, RInv, LinksTyped, Rings, Mutual, Ahead, Behind
<1>4. Segment(fw, bk, D, p, h) /\ D \subseteq RingOf(Entries, next, h) /\ stayed \subseteq RingOf(Entries, next, h) \ {h}
  BY <1>1, <1>2 DEF BeforeLoop, OrderInv, OrderInside
<1>5. Segment(fw, bk, D \ {p}, fw[p], h)
  BY <1>1, <1>3, <1>4, SegmentAdvances
<1>6. Advanced = IF loop.safe THEN fw[p] ELSE gw[p]
  BY <1>1, <1>2 DEF Advanced, FollowAfter, Follow, Ahead, Behind, OrderInv, LoopInv, LoopInside
<1>7. PICK k \in {0, 1} : Body(k)
  BY DEF LoopRound
<1>8. p \in D
  BY <1>4 DEF Segment
<1>9. CASE UNCHANGED links /\ UNCHANGED stayed
  <2>1. gw = fw /\ gk = bk /\ next' = next
    BY <1>2, <1>9 DEF links, Ahead, Behind
  <2>2. Advanced = fw[p]
    BY <1>6, <2>1
  <2>. QED  BY <1>2, <1>4, <1>5, <1>9, <2>1, <2>2
<1>10. CASE loop.safe /\ list_del_init(p) /\ stayed' = stayed \ {p}
  <2>1. p \in Entries
    BY <1>1, <1>4, <1>8, RingsOfHeads DEF RingOf, OrderInv, LoopInv
  <2>2. RingOf(Entries, next, h) \ {p} \subseteq RingOf(Entries, next', h)
    BY <1>10, <2>1, DelAround DEF OrderInv, LoopInv, RingsInv
  <2>3. /\ \A x \in Nodes : x # p /\ x # prev[p] => next'[x] = next[x]
        /\ \A x \in Nodes : x # p /\ x # next[p] => prev'[x] = prev[x]
    BY <1>10 DEF list_del_init, Unlinked, OrderInv, LoopInv, RingsInv, RInv, LinksTyped
  <2>4. /\ \A x \in Nodes : x # p /\ x # bk[p] => gw[x] = fw[x]
        /\ \A x \in Nodes : x # p /\ x # fw[p] => gk[x] = bk[x]
    BY <1>2, <2>3 DEF Ahead, Behind
  <2>5. Segment(gw, gk, D \ {p}, fw[p], h)
    BY <1>1, <1>3, <1>5, <2>4, SegmentStays
  <2>. QED  BY <1>2, <1>4, <1>6, <1>10, <2>2, <2>5
<1>11. CASE (\E e \in Entries \ {p} : Adds(e)) /\ UNCHANGED stayed
  <2>1. PICK e \in Entries \ {p} : Adds(e)
    BY <1>11
  <2>2. e \in Nodes /\ e # h /\ e \notin RingOf(Entries, next, h)
    BY <2>1, LooseIsOutside DEF Adds, list_empty, Nodes, ListAssumption, OrderInv, LoopInv, RingsInv
  <2>3. RingOf(Entries, next, h) \subseteq RingOf(Entries, next', h)
    BY <2>1, AddsApart DEF OrderInv, LoopInv, RingsInv
  <2>4. PICK b \in Nodes : PutBehind(Nodes, fw, bk, gw, gk, e, b)
    BY <1>2, <2>1, AddsPutsBehind DEF OrderInv, LoopInv, RingsInv
  <2>5. \A x \in RingOf(Entries, next', h) : gw[x] \in RingOf(Entries, next', h)
    <3>1. \A x \in Nodes : prev'[x] \in Nodes /\ next'[prev'[x]] = x /\ prev'[next'[x]] = x
      BY DEF RInv, LinksTyped, Rings
    <3>2. \A x \in RingOf(Entries, next', h) : next'[x] \in RingOf(Entries, next', h) /\ prev'[x] \in RingOf(Entries, next', h)
      BY <3>1, RingsBothWays
    <3>. QED  BY <1>2, <3>2 DEF Ahead
  <2>6. gw[b] = e
    BY <2>4 DEF PutBehind
  <2>7. CASE loop.safe
    <3> DEFINE E == IF b \in (D \ {p}) \ {h} THEN (D \ {p}) \cup {e} ELSE D \ {p}
    <3>1. e \in Nodes \ (D \ {p})
      BY <1>4, <2>2
    <3>2. Segment(gw, gk, E, fw[p], h)
      BY <1>3, <1>5, <2>4, <3>1, SegmentInserts DEF PutBehind
    <3>3. E \subseteq RingOf(Entries, next', h)
      BY <1>4, <2>3, <2>5, <2>6
    <3>. QED  BY <1>2, <1>4, <1>6, <1>11, <2>1, <2>2, <2>3, <2>7, <3>2, <3>3
  <2>8. CASE ~loop.safe
    <3> DEFINE E == IF b \in D \ {h} THEN D \cup {e} ELSE D
    <3>1. e \in Nodes \ D
      BY <1>4, <2>2
    <3>2. Segment(gw, gk, E, p, h)
      BY <1>3, <1>4, <2>4, <3>1, SegmentInserts DEF PutBehind
    <3>3. E \subseteq RingOf(Entries, next', h)
      BY <1>4, <2>3, <2>5, <2>6
    <3>4. D \subseteq E /\ E \subseteq D \cup {e}
      OBVIOUS
    <3> HIDE DEF E
    <3>5. Segment(gw, gk, E \ {p}, gw[p], h)
      BY <1>1, <1>3, <3>2, SegmentAdvances
    <3>. QED  BY <1>2, <1>4, <1>6, <1>11, <2>1, <2>2, <2>3, <2>8, <3>3, <3>4, <3>5
  <2>. QED  BY <2>7, <2>8
<1>. QED  BY <1>7, <1>9, <1>10, <1>11, Zenon DEF Body

LEMMA OrderRoundStep ==
    ASSUME ListAssumption, FiniteAssumption, OrderInv, RInv', HeadsApart(next'), LoopRound
    PROVE  OrderInside'
<1>1. loop.on /\ loop.head \in Heads /\ loop.pos \in Nodes /\ loop.direction \in Directions
  BY DEF LoopRound, OrderInv, LoopInv, RingsInv, LoopTyped
<1>2. PICK d \in Directions, p \in Nodes, h \in Heads : d = loop.direction /\ p = loop.pos /\ h = loop.head
  BY <1>1
<1>3. PICK D : BeforeLoop(D)
  BY <1>1 DEF OrderInv, OrderInside
<1>4. PICK E : /\ Segment(Ahead(d)', Behind(d)', E, Advanced, h)
               /\ E \subseteq RingOf(Entries, next', h)
               /\ D \ {p} \subseteq E /\ p \notin E
               /\ E \cap stayed \subseteq D
               /\ stayed' \subseteq stayed /\ stayed \subseteq stayed' \cup {p}
               /\ stayed' \subseteq RingOf(Entries, next', h)
  BY <1>2, <1>3, RoundLeaves
<1>5. /\ loop'.pos = Advanced /\ loop'.head = h /\ loop'.direction = d /\ met' = met \cup {p}
  <2>1. PICK k \in {0, 1} :
          loop' = [loop EXCEPT !.pos = Advanced, !.n = FollowAfter(loop.direction, Advanced), !.adds = @ + k]
    BY DEF LoopRound
  <2>. QED  BY <1>2, <2>1 DEF LoopRound, OrderInv, LoopInv, RingsInv, LoopTyped
<1>6. stayed \cap met \cap D = {} /\ stayed \subseteq met \cup D
  BY <1>3 DEF BeforeLoop
<1>7. BeforeLoop(E)'
  <2>1. stayed' \cap met' \cap E = {} /\ stayed' \subseteq met' \cup E
    BY <1>4, <1>5, <1>6
  <2>2. Segment(Ahead(d)', Behind(d)', E, loop'.pos, loop'.head)
    BY <1>4, <1>5
  <2>. QED  BY <1>4, <1>5, <2>1, <2>2 DEF BeforeLoop, Ahead, Behind
<1>8. stayed' \subseteq RingOf(Entries, next', h) \ {h}
  BY <1>1, <1>2, <1>4 DEF OrderInv, OrderInside
<1>. QED  BY <1>5, <1>7, <1>8 DEF OrderInside

LEMMA NextOrderInv == ASSUME ListAssumption, FiniteAssumption, OrderInv, [Next]_vars PROVE OrderInv'
<1>1. LoopInv' /\ RInv' /\ HeadsApart(next')
  <2>1. LoopInv'
    BY NextLoopInv DEF OrderInv
  <2>. QED  BY <2>1 DEF LoopInv, RingsInv
<1>2. CASE Call
  BY <1>1, <1>2 DEF Call, OrderInv, OrderInside
<1>3. CASE LoopRound
  BY <1>1, <1>3, OrderRoundStep DEF OrderInv
<1>4. CASE LoopEnd
  BY <1>1, <1>4 DEF LoopEnd, OrderInv, OrderInside, Idle
<1>5. CASE \E h \in Heads, direction \in Directions, safe \in BOOLEAN : LoopBegin(h, direction, safe)
  BY <1>1, <1>5, OrderBeginStep DEF OrderInv
<1>6. CASE UNCHANGED vars
  BY <1>1, <1>6 DEF vars, links, OrderInv, OrderInside, BeforeLoop, Ahead, Behind
<1>. QED  BY <1>2, <1>3, <1>4, <1>5, <1>6 DEF Next

LEMMA OrderMeansMeeting == ASSUME FiniteAssumption, OrderInv PROVE MeetsWhatStayed /\ MeetsOnce
<1>1. SUFFICES ASSUME loop.on PROVE MeetsWhatStayed /\ MeetsOnce
  BY DEF MeetsWhatStayed, MeetsOnce
<1>2. PICK D : BeforeLoop(D)
  BY <1>1 DEF OrderInv, OrderInside
<1>3. loop.head \in Heads /\ loop.direction \in Directions /\ loop.pos \in D /\ loop.head \notin stayed
  BY <1>1, <1>2 DEF OrderInv, OrderInside, LoopInv, RingsInv, LoopTyped, BeforeLoop, Segment
<1>4. MeetsOnce
  BY <1>2, <1>3 DEF MeetsOnce, BeforeLoop
<1>5. ASSUME loop.pos = loop.head PROVE stayed \subseteq met
  <2>1. Mutual(Nodes, next, prev)
    BY DEF OrderInv, LoopInv, RingsInv, RInv, LinksTyped, Rings, Mutual
  <2>2. Segment(next, prev, D, loop.head, loop.head) \/ Segment(prev, next, D, loop.head, loop.head)
    BY <1>2, <1>3, <1>5 DEF BeforeLoop, Ahead, Behind
  <2>3. D = {loop.head}
    BY <1>2, <1>3, <2>1, <2>2, SegmentEnds DEF BeforeLoop, OrderInv, LoopInv
  <2>. QED  BY <1>2, <1>3, <2>3 DEF BeforeLoop
<1>. QED  BY <1>4, <1>5 DEF MeetsWhatStayed

LEMMA OrderInvariant == SafeSpec => []OrderInv
<1>1. Init => OrderInv
  BY ListAssumption, InitLoopInv DEF Init, OrderInv, OrderInside, Idle
<1>2. OrderInv /\ [Next]_vars => OrderInv'
  BY ListAssumption, FiniteAssumption, NextOrderInv
<1>. QED  BY <1>1, <1>2, PTL DEF SafeSpec

\* A loop that is done has met every entry that was in its list all along: the
\* macros of list.h over the links that list.c writes while the loop runs.
THEOREM LoopsMissNothing == SafeSpec => []MeetsWhatStayed
<1>1. OrderInv => MeetsWhatStayed
  BY FiniteAssumption, OrderMeansMeeting
<1>. QED  BY <1>1, OrderInvariant, PTL

\* And it has met none of them twice.
THEOREM LoopsRepeatNothing == SafeSpec => []MeetsOnce
<1>1. OrderInv => MeetsOnce
  BY FiniteAssumption, OrderMeansMeeting
<1>. QED  BY <1>1, OrderInvariant, PTL

-----------------------------------------------------------------------------
(* The rings as sequences.                                                 *)

-----------------------------------------------------------------------------
(* What Walk collects, for any function in the place of next.              *)

LEMMA WalkIs == \A h : Walk(h) = WalkBy(Entries, next, h)
  BY Zenon DEF Walk, WalkBy, IsWalkUpto, Longer, LastOf

LEMMA NextWalkIs == \A h : Walk(h)' = WalkBy(Entries, next', h)
  BY Zenon DEF Walk, WalkBy, IsWalkUpto, Longer, LastOf

-----------------------------------------------------------------------------
(* What the writes of list.c do to a way.                                  *)

-----------------------------------------------------------------------------
(* The steps of the rings are steps of the sequences.                      *)

Sequenced == LoopInv /\ Mutual(Nodes, next, prev)

LEMMA InvIsSequenced == ASSUME LoopInv PROVE Sequenced
  BY DEF Sequenced, LoopInv, RingsInv, RInv, LinksTyped, Rings, Mutual

LEMMA SequencedWays ==
    ASSUME ListAssumption, FiniteAssumption, Sequenced, NEW h \in Heads
    PROVE  Way(Entries, next, prev, h, WalkBy(Entries, next, h))
  BY HeadsWalk DEF Sequenced, LoopInv

LEMMA NextWays ==
    ASSUME ListAssumption, FiniteAssumption, Sequenced', NEW h \in Heads
    PROVE  \A w : Way(Entries, next', prev', h, w) => WalkBy(Entries, next', h) = w
<1>1. Mutual(Nodes, next', prev') /\ HeadsApart(next')
  BY DEF Sequenced, LoopInv, Mutual, Nodes
<1>2. Way(Entries, next', prev', h, WalkBy(Entries, next', h))
  BY <1>1, HeadsWalk
<1>. QED  BY <1>2, HeadsAre, WayIsUnique

\* An entry that is a ring of its own is on no way.
LEMMA LooseIsNowhere ==
    ASSUME ListAssumption, FiniteAssumption, Sequenced, NEW e \in Entries, list_empty(e), NEW h \in Heads
    PROVE  \A k \in 1..Len(WalkBy(Entries, next, h)) : WalkBy(Entries, next, h)[k] # e
<1>1. PICK w : w = WalkBy(Entries, next, h) /\ Way(Entries, next, prev, h, w)
  BY SequencedWays
<1>. QED  BY <1>1, HeadsAre, LooseOffWay DEF list_empty

\* What an addition behind a place of h does to the walks.
LEMMA PutWalks ==
    ASSUME ListAssumption, FiniteAssumption, Sequenced, Sequenced', NEW e \in Entries, list_empty(e),
           NEW h \in Heads, NEW j \in 0..Len(WalkBy(Entries, next, h)),
           PutBehind(Nodes, next, prev, next', prev', e, PlaceOn(h, WalkBy(Entries, next, h), j))
    PROVE  /\ WalkBy(Entries, next', h) = Inserted(WalkBy(Entries, next, h), j, e)
           /\ \A g \in Heads : g # h => WalkBy(Entries, next', g) = WalkBy(Entries, next, g)
<1>1. PICK w : w = WalkBy(Entries, next, h) /\ Way(Entries, next, prev, h, w)
  BY SequencedWays
<1>2. \A k \in 1..Len(w) : w[k] # e
  BY <1>1, LooseIsNowhere
<1>3. Way(Entries, next', prev', h, Inserted(w, j, e))
  BY <1>1, <1>2, WayGains, HeadsAre
<1>4. ASSUME NEW g \in Heads, g # h PROVE WalkBy(Entries, next', g) = WalkBy(Entries, next, g)
  <2>1. PICK v : v = WalkBy(Entries, next, g) /\ Way(Entries, next, prev, g, v)
    BY SequencedWays
  <2>2. \A k \in 1..Len(v) : v[k] # e
    BY <2>1, LooseIsNowhere
  <2>3. Way(Entries, next', prev', g, v)
    BY <1>1, <1>4, <2>1, <2>2, WaySpared, HeadsAre
  <2>. QED  BY <2>1, <2>3, NextWays
<1>. QED  BY <1>1, <1>3, <1>4, NextWays

\* An entry comes first with list_add and last with list_add_tail.
LEMMA AddWalks ==
    ASSUME ListAssumption, FiniteAssumption, Sequenced, Sequenced', NEW e \in Entries, list_empty(e), NEW h \in Heads
    PROVE  /\ list_add(e, h) => /\ WalkBy(Entries, next', h) = <<e>> \o WalkBy(Entries, next, h)
                                /\ \A g \in Heads : g # h => WalkBy(Entries, next', g) = WalkBy(Entries, next, g)
           /\ list_add_tail(e, h) => /\ WalkBy(Entries, next', h) = Append(WalkBy(Entries, next, h), e)
                                     /\ \A g \in Heads : g # h => WalkBy(Entries, next', g) = WalkBy(Entries, next, g)
<1>1. PICK w : w = WalkBy(Entries, next, h) /\ Way(Entries, next, prev, h, w)
  BY SequencedWays
<1>2. w \in Seq(Entries) /\ Len(w) \in Nat
  BY <1>1 DEF Way, Leads
<1>3. /\ e \in Nodes /\ h \in Nodes /\ h # e /\ next[e] = e /\ next[h] \in Nodes /\ prev[h] \in Nodes
      /\ next[prev[h]] = h
  BY DEF ListAssumption, Nodes, list_empty, Sequenced, Mutual
<1>4. /\ 0 \in 0..Len(w) /\ PlaceOn(h, w, 0) = h
      /\ Len(w) \in 0..Len(w) /\ PlaceOn(h, w, Len(w)) = prev[h]
  BY <1>1, <1>2 DEF PlaceOn, Way
<1>5. prev[h] # e
  BY <1>3
<1>6. Inserted(w, 0, e) = <<e>> \o w /\ Inserted(w, Len(w), e) = Append(w, e)
  BY <1>2, InsertedIs
<1>7. ASSUME list_add(e, h)
      PROVE  /\ WalkBy(Entries, next', h) = <<e>> \o w
             /\ \A g \in Heads : g # h => WalkBy(Entries, next', g) = WalkBy(Entries, next, g)
  <2>1. PutBehind(Nodes, next, prev, next', prev', e, PlaceOn(h, w, 0))
    BY <1>3, <1>4, <1>7, LinkPuts DEF Sequenced, LoopInv, RingsInv, list_add
  <2>. QED  BY <1>1, <1>4, <1>6, <2>1, PutWalks
<1>8. ASSUME list_add_tail(e, h)
      PROVE  /\ WalkBy(Entries, next', h) = Append(w, e)
             /\ \A g \in Heads : g # h => WalkBy(Entries, next', g) = WalkBy(Entries, next, g)
  <2>1. PutBehind(Nodes, next, prev, next', prev', e, PlaceOn(h, w, Len(w)))
    BY <1>3, <1>4, <1>5, <1>8, LinkPuts DEF Sequenced, LoopInv, RingsInv, list_add_tail
  <2>. QED  BY <1>1, <1>4, <1>6, <2>1, PutWalks
<1>. QED  BY <1>1, <1>7, <1>8

\* list_del_init takes an entry out of the one walk that it is on.
LEMMA DelWalks ==
    ASSUME ListAssumption, FiniteAssumption, Sequenced, Sequenced', NEW e \in Entries, list_del_init(e), NEW h \in Heads
    PROVE  LET w == WalkBy(Entries, next, h)
           IN  /\ (\A k \in 1..Len(w) : w[k] # e) => WalkBy(Entries, next', h) = w
               /\ \A k \in 1..Len(w) : w[k] = e => WalkBy(Entries, next', h) = Order!Without(w, k)
<1>1. PICK w : w = WalkBy(Entries, next, h) /\ Way(Entries, next, prev, h, w)
  BY SequencedWays
<1>2. TakenOut(Nodes, next, prev, next', prev', e)
  BY DelTakesOut DEF Nodes, Sequenced, LoopInv, RingsInv
<1>3. ASSUME \A k \in 1..Len(w) : w[k] # e PROVE WalkBy(Entries, next', h) = w
  <2>1. Way(Entries, next', prev', h, w)
    BY <1>1, <1>2, <1>3, WayOutlasts, HeadsAre DEF Sequenced
  <2>. QED  BY <2>1, NextWays
<1>4. ASSUME NEW k \in 1..Len(w), w[k] = e PROVE WalkBy(Entries, next', h) = Order!Without(w, k)
  <2>1. Way(Entries, next', prev', h, Order!Without(w, k))
    BY <1>1, <1>2, <1>4, WayLoses, HeadsAre DEF Dropped, Order!Without
  <2>. QED  BY <2>1, NextWays
<1>. QED  BY <1>1, <1>3, <1>4

Walks == [h \in Heads |-> WalkBy(Entries, next, h)]
NextWalks == [h \in Heads |-> WalkBy(Entries, next', h)]

LEMMA WalksAre ==
    /\ [h \in Heads |-> Walk(h)] = Walks
    /\ [h \in Heads |-> Walk(h)]' = NextWalks
<1>1. \A h \in Heads : Walk(h) = WalkBy(Entries, next, h)
  BY WalkIs
<1>2. \A h \in Heads : Walk(h)' = WalkBy(Entries, next', h)
  BY NextWalkIs
<1>. QED  BY <1>1, <1>2 DEF Walks, NextWalks

\* ListOrder, with walks for its sequences.
OrderNexts(old, new) ==
    \E e \in Entries :
      \/ /\ \A h \in Heads : e \notin {old[h][k] : k \in DOMAIN old[h]}
         /\ new = old
      \/ \E h \in Heads : \E k \in DOMAIN old[h] :
           old[h][k] = e /\ new = [old EXCEPT ![h] = Order!Without(@, k)]
      \/ \E h \in Heads :
           /\ \A g \in Heads : e \notin {old[g][k] : k \in DOMAIN old[g]}
           /\ new = [old EXCEPT ![h] = <<e>> \o @] \/ new = [old EXCEPT ![h] = Append(@, e)]

LEMMA OrderNextIs == OrderNexts(Walks, NextWalks) => Order!Next
<1>1. [h \in Heads |-> Walk(h)] = Walks /\ [h \in Heads |-> Walk(h)]' = NextWalks
  BY WalksAre
<1>2. SUFFICES ASSUME OrderNexts([h \in Heads |-> Walk(h)], [h \in Heads |-> Walk(h)]') PROVE Order!Next
  BY <1>1
<1>. QED  BY <1>2, Zenon DEF OrderNexts, Order!Next, Order!Remove, Order!AddFirst, Order!AddLast,
              Order!Elsewhere, Order!In

LEMMA AddOrders ==
    ASSUME ListAssumption, FiniteAssumption, Sequenced, Sequenced', NEW e \in Entries, Adds(e)
    PROVE  OrderNexts(Walks, NextWalks)
<1>1. PICK h \in Heads : list_add(e, h) \/ list_add_tail(e, h)
  BY DEF Adds
<1>2. list_empty(e)
  BY DEF Adds
<1>3. \A g \in Heads : e \notin {Walks[g][k] : k \in DOMAIN Walks[g]}
  <2>1. ASSUME NEW g \in Heads PROVE e \notin {Walks[g][k] : k \in DOMAIN Walks[g]}
    <3>1. WalkBy(Entries, next, g) \in Seq(Entries)
      BY SequencedWays DEF Way, Leads
    <3>2. Walks[g] = WalkBy(Entries, next, g) /\ DOMAIN WalkBy(Entries, next, g) = 1..Len(WalkBy(Entries, next, g))
      BY <3>1 DEF Walks
    <3>. QED  BY <1>2, <3>2, LooseIsNowhere
  <2>. QED  BY <2>1
<1>4. CASE list_add(e, h)
  <2>1. NextWalks = [Walks EXCEPT ![h] = <<e>> \o @]
    BY <1>2, <1>4, AddWalks DEF Walks, NextWalks
  <2>. QED  BY <1>3, <2>1 DEF OrderNexts
<1>5. CASE list_add_tail(e, h)
  <2>1. NextWalks = [Walks EXCEPT ![h] = Append(@, e)]
    BY <1>2, <1>5, AddWalks DEF Walks, NextWalks
  <2>. QED  BY <1>3, <2>1 DEF OrderNexts
<1>. QED  BY <1>1, <1>4, <1>5

LEMMA DelOrders ==
    ASSUME ListAssumption, FiniteAssumption, Sequenced, Sequenced', NEW e \in Entries, list_del_init(e)
    PROVE  OrderNexts(Walks, NextWalks)
<1>1. \A h \in Heads : /\ Walks[h] = WalkBy(Entries, next, h) /\ NextWalks[h] = WalkBy(Entries, next', h)
                       /\ Way(Entries, next, prev, h, Walks[h])
                       /\ DOMAIN Walks[h] = 1..Len(Walks[h])
  <2>1. ASSUME NEW h \in Heads PROVE Way(Entries, next, prev, h, WalkBy(Entries, next, h))
    BY SequencedWays
  <2>. QED  BY <2>1 DEF Walks, NextWalks, Way, Leads
<1>2. \A h \in Heads : /\ (\A k \in DOMAIN Walks[h] : Walks[h][k] # e) => NextWalks[h] = Walks[h]
                       /\ \A k \in DOMAIN Walks[h] : Walks[h][k] = e => NextWalks[h] = Order!Without(Walks[h], k)
  BY <1>1, DelWalks
<1>3. CASE \A h \in Heads : \A k \in DOMAIN Walks[h] : Walks[h][k] # e
  <2>1. NextWalks = Walks
    BY <1>2, <1>3 DEF Walks, NextWalks
  <2>. QED  BY <1>3, <2>1 DEF OrderNexts
<1>4. CASE \E h \in Heads : \E k \in DOMAIN Walks[h] : Walks[h][k] = e
  <2>1. PICK h \in Heads : \E k \in DOMAIN Walks[h] : Walks[h][k] = e
    BY <1>4
  <2>2. PICK k \in DOMAIN Walks[h] : Walks[h][k] = e
    BY <2>1
  <2>3. \A g \in Heads : g # h => \A m \in DOMAIN Walks[g] : Walks[g][m] # e
    <3>1. \A g \in Heads : g # h => \A m \in 1..Len(Walks[g]) : Walks[h][k] # Walks[g][m]
      BY <1>1, LeadsApart DEF Way
    <3>. QED  BY <1>1, <2>2, <3>1
  <2>4. NextWalks = [Walks EXCEPT ![h] = Order!Without(@, k)]
    <3>1. NextWalks[h] = Order!Without(Walks[h], k)
      BY <1>2, <2>2
    <3>2. \A g \in Heads : g # h => NextWalks[g] = Walks[g]
      BY <1>2, <2>3
    <3>3. DOMAIN Walks = Heads /\ DOMAIN NextWalks = Heads /\ NextWalks = [g \in Heads |-> NextWalks[g]]
      BY DEF Walks, NextWalks
    <3>4. Walks = [g \in Heads |-> Walks[g]]
      BY DEF Walks
    <3> HIDE DEF Walks, NextWalks
    <3>. QED  BY <3>1, <3>2, <3>3, <3>4
  <2>. QED  BY <2>2, <2>4 DEF OrderNexts
<1>. QED  BY <1>3, <1>4

LEMMA InitOrders == ASSUME ListAssumption, FiniteAssumption, Init PROVE Order!Init
<1>1. Sequenced
  BY InitLoopInv, InvIsSequenced
<1>2. ASSUME NEW h \in Heads PROVE WalkBy(Entries, next, h) = <<>>
  <2>1. h \in Nodes /\ next[h] = h /\ prev[h] = h
    BY DEF Init, Nodes
  <2>2. Way(Entries, next, prev, h, <<>>)
    BY <2>1 DEF Way, Leads, PlaceOn
  <2>. QED  BY <1>1, <2>2, SequencedWays, WayIsUnique
<1>3. \A h \in Heads : Walk(h) = <<>>
  BY <1>2, WalkIs
<1>. QED  BY <1>3 DEF Order!Init

LEMMA StepOrders ==
    ASSUME ListAssumption, FiniteAssumption, LoopInv, LoopInv', [Next]_vars
    PROVE  [Order!Next]_[h \in Heads |-> Walk(h)]
<1>1. Sequenced /\ Sequenced'
  <2>1. Sequenced'
    BY DEF Sequenced, LoopInv, RingsInv, RInv, LinksTyped, Rings, Mutual
  <2>. QED  BY <2>1, InvIsSequenced
<1>2. CASE OrderNexts(Walks, NextWalks)
  BY <1>2, OrderNextIs
<1>3. CASE UNCHANGED links
  <2>1. NextWalks = Walks
    BY <1>3 DEF links, Walks, NextWalks
  <2>. QED  BY <2>1, WalksAre
<1>4. CASE Call
  <2>1. PICK e \in Entries : Adds(e) \/ list_del_init(e)
    BY <1>4 DEF Call
  <2>. QED  BY <1>1, <1>2, <2>1, AddOrders, DelOrders
<1>5. CASE LoopRound
  <2>1. PICK k \in {0, 1} : Body(k)
    BY <1>5 DEF LoopRound
  <2>2. loop.pos \in Entries
    <3>1. loop.head \in Heads /\ loop.pos \in RingOf(Entries, next, loop.head) /\ loop.pos # loop.head
      BY <1>5 DEF LoopRound, LoopInv, RingsInv, LoopTyped, LoopInside
    <3>. QED  BY <3>1, RingsOfHeads DEF RingOf, LoopInv
  <2>3. UNCHANGED links \/ list_del_init(loop.pos) \/ \E e \in Entries : Adds(e)
    BY <2>1 DEF Body, links
  <2>. QED  BY <1>1, <1>2, <1>3, <2>2, <2>3, AddOrders, DelOrders
<1>6. CASE LoopEnd
  BY <1>3, <1>6 DEF LoopEnd
<1>7. CASE \E h \in Heads, direction \in Directions, safe \in BOOLEAN : LoopBegin(h, direction, safe)
  BY <1>3, <1>7 DEF LoopBegin
<1>8. CASE UNCHANGED vars
  BY <1>3, <1>8 DEF vars
<1>. QED  BY <1>4, <1>5, <1>6, <1>7, <1>8 DEF Next

LEMMA LoopInvariant == SafeSpec => []LoopInv
<1>1. Init => LoopInv
  BY ListAssumption, InitLoopInv
<1>2. LoopInv /\ [Next]_vars => LoopInv'
  BY ListAssumption, FiniteAssumption, NextLoopInv
<1>. QED  BY <1>1, <1>2, PTL DEF SafeSpec

\* The rings of list.c are sequences to their callers: list_add puts an entry
\* first, list_add_tail last, list_del_init takes one out from anywhere, and no
\* step does anything else, also in the middle of a loop.
THEOREM Refinement == SafeSpec => ImplementsOrder
<1>1. Init => Order!Init
  BY ListAssumption, FiniteAssumption, InitOrders
<1>2. LoopInv /\ LoopInv' /\ [Next]_vars => [Order!Next]_[h \in Heads |-> Walk(h)]
  BY ListAssumption, FiniteAssumption, StepOrders
<1>. QED  BY <1>1, <1>2, LoopInvariant, PTL DEF SafeSpec, ImplementsOrder, Order!Spec

\* The comments of list_add and list_add_tail hold: what they put in comes first
\* or last in the walk, and list_is_first or list_is_last says so.
THEOREM AdditionsComeAtTheirEnd == SafeSpec => AddsAtItsEnd
<1>1. ASSUME LoopInv, LoopInv', NEW e \in Entries, NEW h \in Heads, list_empty(e)
      PROVE  /\ list_add(e, h) => Walk(h)' = <<e>> \o Walk(h) /\ list_is_first(e, h)'
             /\ list_add_tail(e, h) => Walk(h)' = Append(Walk(h), e) /\ list_is_last(e, h)'
  <2>1. Sequenced /\ Sequenced'
    <3>1. Sequenced'
      BY <1>1 DEF Sequenced, LoopInv, RingsInv, RInv, LinksTyped, Rings, Mutual
    <3>. QED  BY <1>1, <3>1, InvIsSequenced
  <2>2. Walk(h) = WalkBy(Entries, next, h) /\ Walk(h)' = WalkBy(Entries, next', h)
    BY WalkIs, NextWalkIs
  <2>3. /\ e \in Nodes /\ h \in Nodes /\ e # h
        /\ next \in [Nodes -> Nodes] /\ prev \in [Nodes -> Nodes]
    BY <1>1, ListAssumption DEF ListAssumption, Nodes, LoopInv, RingsInv, RInv, LinksTyped
  <2>4. ASSUME list_add(e, h) PROVE list_is_first(e, h)'
    BY <2>3, <2>4 DEF list_add, link_between, list_is_first
  <2>5. ASSUME list_add_tail(e, h) PROVE list_is_last(e, h)'
    BY <2>3, <2>5 DEF list_add_tail, link_between, list_is_last
  <2>. QED  BY <1>1, <2>1, <2>2, <2>4, <2>5, AddWalks, ListAssumption, FiniteAssumption
<1>2. LoopInv /\ LoopInv' /\ [Next]_vars
        => [\A e \in Entries, h \in Heads :
              list_empty(e) =>
                /\ list_add(e, h) => Walk(h)' = <<e>> \o Walk(h) /\ list_is_first(e, h)'
                /\ list_add_tail(e, h) => Walk(h)' = Append(Walk(h), e) /\ list_is_last(e, h)']_vars
  BY <1>1
<1>. QED  BY <1>2, LoopInvariant, PTL DEF SafeSpec, AddsAtItsEnd

-----------------------------------------------------------------------------
(* The callbacks, in lists that init_node_cbs has made.                    *)

\* w holds the elements of the table cb with this type below the m-th, in order.
Lists(cb, w, type, m) ==
    /\ \A e \in Entries : cb[e] = type /\ e < m <=> \E k \in 1..Len(w) : w[k] = e
    /\ \A j, k \in 1..Len(w) : j < k => w[j] < w[k]

Made(nx, pv, cb, m) == \A type \in Heads : \E w : Way(Entries, nx, pv, type, w) /\ Lists(cb, w, type, m)

\* The loop stands behind what it has called.
Standing ==
    \E w : /\ Way(Entries, next, prev, loop.head, w) /\ Lists(head_cb, w, loop.head, Cardinality(Entries) + 1)
           /\ \E k \in 1..(Len(w) + 1) :
                /\ called \in Seq(Entries) /\ Len(called) = k - 1
                /\ \A m \in 1..(k - 1) : called[m] = w[m]
                /\ loop.pos = PlaceOn(loop.head, w, k)

CallbackInv ==
    /\ head_cb \in [Entries -> Heads \cup {NoType}]
    /\ next = [x \in Nodes |-> next[x]]
    /\ prev = [x \in Nodes |-> prev[x]]
    /\ at = "table" => ~loop.on /\ i \in 1..(Cardinality(Entries) + 1) /\ Made(next, prev, head_cb, i)
    /\ at = "ready" => Made(next, prev, head_cb, Cardinality(Entries) + 1)
    /\ loop.on => /\ at = "ready" /\ loop.head \in Heads
                  /\ loop.direction = "next" /\ ~loop.safe
                  /\ Standing

LEMMA EntriesAreNumbered ==
    /\ Cardinality(Entries) \in Nat /\ Entries = 1..Cardinality(Entries)
    /\ \A e \in Entries : e \in Int
<1>1. Cardinality(Entries) \in Nat
  BY FS_CardinalityType, CallbackAssumption DEF CallbackAssumption
<1>. QED  BY <1>1, CallbackAssumption DEF CallbackAssumption

LEMMA InitCallbacks == CallbackInit => CallbackInv
  BY DEF CallbackInit, CallbackInv, Idle

\* The heads are rings of their own again, whatever the links were.
LEMMA EmptiedStep == ASSUME CallbackInv, init_node_cbs PROVE CallbackInv'
<1>1. /\ next' = [x \in Nodes |-> IF x \in Heads THEN x ELSE next[x]]
      /\ prev' = [x \in Nodes |-> IF x \in Heads THEN x ELSE prev[x]]
      /\ at' = "table" /\ i' = 1 /\ head_cb' = head_cb /\ ~loop'.on
  BY DEF init_node_cbs, Emptied
<1>2. ASSUME NEW type \in Heads PROVE Way(Entries, next', prev', type, <<>>) /\ Lists(head_cb', <<>>, type, 1)
  <2>1. next'[type] = type /\ prev'[type] = type
    BY <1>1 DEF Nodes
  <2>2. Way(Entries, next', prev', type, <<>>)
    BY <2>1 DEF Way, Leads, PlaceOn
  <2>3. \A e \in Entries : ~(e < 1)
    BY EntriesAreNumbered
  <2>. QED  BY <2>2, <2>3 DEF Lists
<1>3. Made(next', prev', head_cb', 1)
  BY <1>2 DEF Made
<1>4. 1 \in 1..(Cardinality(Entries) + 1)
  BY EntriesAreNumbered
<1>. QED  BY <1>1, <1>3, <1>4 DEF CallbackInv

\* The next element of the table comes last in the list of its type.
LEMMA RegisterStep == ASSUME CallbackInv, Register PROVE CallbackInv'
<1>1. /\ at = "table" /\ i \in Entries /\ i' = i + 1 /\ ~loop.on
      /\ head_cb' = head_cb /\ at' = at /\ loop' = loop
      /\ head_cb \in [Entries -> Heads \cup {NoType}] /\ Made(next, prev, head_cb, i)
  BY DEF Register, CallbackInv
<1>2. i \in Int /\ i \in 1..Cardinality(Entries) /\ i + 1 \in 1..(Cardinality(Entries) + 1)
  BY <1>1, EntriesAreNumbered
\* A type whose list is left alone.
<1>3. ASSUME NEW type \in Heads, head_cb[i] # type, NEW w, Lists(head_cb, w, type, i)
      PROVE  Lists(head_cb', w, type, i + 1)
  <2>1. \A e \in Entries : head_cb[e] = type => (e < i <=> e < i + 1)
    BY <1>2, <1>3, EntriesAreNumbered
  <2>. QED  BY <1>1, <1>3, <2>1 DEF Lists
<1>4. CASE head_cb[i] \notin Heads
  <2>1. next' = next /\ prev' = prev
    BY <1>4 DEF Register, links
  <2>2. Made(next', prev', head_cb', i + 1)
    <3>1. ASSUME NEW type \in Heads PROVE \E w : Way(Entries, next, prev, type, w) /\ Lists(head_cb', w, type, i + 1)
      BY <1>1, <1>3, <1>4, <3>1 DEF Made
    <3>. QED  BY <1>1, <2>1, <3>1 DEF Made
  <2>. QED  BY <1>1, <1>2, <2>1, <2>2 DEF CallbackInv
<1>5. CASE head_cb[i] \in Heads
  <2>1. PICK h \in Heads : h = head_cb[i]
    BY <1>5
  <2>2. list_add_tail(i, h)
    BY <1>5, <2>1 DEF Register
  <2>3. PICK w : Way(Entries, next, prev, h, w) /\ Lists(head_cb, w, h, i)
    BY <1>1 DEF Made
  <2>4. w \in Seq(Entries) /\ Len(w) \in Nat /\ Len(w) \in 0..Len(w)
    BY <2>3 DEF Way, Leads
  <2>5. /\ i \in Nodes /\ h \in Nodes /\ h # i
        /\ prev[h] = PlaceOn(h, w, Len(w)) /\ prev[h] \in Nodes /\ next[prev[h]] = h
    BY <1>1, <2>3, <2>4, ListAssumption DEF Nodes, Way, PlaceOn, ListAssumption
  <2>6. \A type \in Heads : \A v : Lists(head_cb, v, type, i) => \A k \in 1..Len(v) : v[k] # i
    BY <1>1, <1>2 DEF Lists
  <2>7. prev[h] # i
    BY <2>3, <2>4, <2>5, <2>6 DEF PlaceOn
  <2>8. /\ next' = [next EXCEPT ![i] = h, ![prev[h]] = i]
        /\ prev' = [prev EXCEPT ![h] = i, ![i] = prev[h]]
    BY <2>2 DEF list_add_tail, link_between
  <2>9. PutBehind(Nodes, next, prev, next', prev', i, PlaceOn(h, w, Len(w)))
    BY <2>5, <2>7, <2>8 DEF CallbackInv, PutBehind
  <2>10. Way(Entries, next', prev', h, Append(w, i)) /\ Lists(head_cb', Append(w, i), h, i + 1)
    <3>1. Way(Entries, next', prev', h, Append(w, i))
      <4>1. Inserted(w, Len(w), i) = Append(w, i)
        BY <1>1, <2>4, InsertedIs
      <4>2. \A k \in 1..Len(w) : w[k] # i
        BY <2>3, <2>6
      <4>3. Way(Entries, next', prev', h, Inserted(w, Len(w), i))
        BY <1>1, <2>3, <2>4, <2>9, <4>2, WayGains, HeadsAre, ListAssumption
      <4>. QED  BY <4>1, <4>3
    <3>2. /\ Len(Append(w, i)) = Len(w) + 1 /\ Append(w, i)[Len(w) + 1] = i
          /\ \A k \in 1..Len(w) : Append(w, i)[k] = w[k]
      BY <1>1, <2>4
    <3>3. \A k \in 1..Len(w) : w[k] \in Int /\ w[k] < i
      BY <2>3, <2>4, EntriesAreNumbered DEF Lists
    <3>4. \A e \in Entries : head_cb[e] = h /\ e < i + 1 <=> \E k \in 1..(Len(w) + 1) : Append(w, i)[k] = e
      <4>1. ASSUME NEW e \in Entries
            PROVE  head_cb[e] = h /\ e < i + 1 <=> e = i \/ \E k \in 1..Len(w) : w[k] = e
        <5>1. e \in Int /\ (e < i + 1 <=> e = i \/ e < i)
          BY <1>2, EntriesAreNumbered
        <5>. QED  BY <2>1, <2>3, <5>1 DEF Lists
      <4>2. ASSUME NEW e \in Entries
            PROVE  (\E k \in 1..(Len(w) + 1) : Append(w, i)[k] = e) <=> e = i \/ \E k \in 1..Len(w) : w[k] = e
        BY <2>4, <3>2
      <4>. QED  BY <4>1, <4>2
    <3>5. \A j, k \in 1..(Len(w) + 1) : j < k => Append(w, i)[j] < Append(w, i)[k]
      <4>1. ASSUME NEW j \in 1..(Len(w) + 1), NEW k \in 1..(Len(w) + 1), j < k
            PROVE  Append(w, i)[j] < Append(w, i)[k]
        <5>1. j \in 1..Len(w) /\ Append(w, i)[j] = w[j]
          BY <2>4, <3>2, <4>1
        <5>2. CASE k = Len(w) + 1
          BY <3>2, <3>3, <5>1, <5>2
        <5>3. CASE k # Len(w) + 1
          <6>1. k \in 1..Len(w) /\ Append(w, i)[k] = w[k]
            BY <2>4, <3>2, <5>3
          <6>. QED  BY <2>3, <4>1, <5>1, <6>1 DEF Lists
        <5>. QED  BY <5>2, <5>3
      <4>. QED  BY <4>1
    <3>. QED  BY <1>1, <3>1, <3>2, <3>4, <3>5 DEF Lists
  <2>11. ASSUME NEW g \in Heads, g # h PROVE \E v : Way(Entries, next', prev', g, v) /\ Lists(head_cb', v, g, i + 1)
    <3>1. PICK v : Way(Entries, next, prev, g, v) /\ Lists(head_cb, v, g, i)
      BY <1>1 DEF Made
    <3>2. Way(Entries, next', prev', g, v)
      BY <1>1, <2>3, <2>4, <2>6, <2>9, <2>11, <3>1, WaySpared, HeadsAre, ListAssumption
    <3>. QED  BY <1>3, <2>1, <2>11, <3>1, <3>2
  <2>12. Made(next', prev', head_cb', i + 1)
    BY <2>10, <2>11 DEF Made
  <2>13. /\ next' = [x \in Nodes |-> next'[x]]
         /\ prev' = [x \in Nodes |-> prev'[x]]
    BY <2>8 DEF CallbackInv
  <2>. QED  BY <1>1, <1>2, <2>12, <2>13 DEF CallbackInv
<1>. QED  BY <1>4, <1>5

LEMMA RegisteredStep == ASSUME CallbackInv, Registered PROVE CallbackInv'
<1>1. /\ at = "table" /\ i = Cardinality(Entries) + 1 /\ at' = "ready" /\ Made(next, prev, head_cb, i) /\ ~loop.on
  BY EntriesAreNumbered DEF Registered, CallbackInv
<1>2. UNCHANGED <<next, prev, loop, head_cb, called>>
  BY DEF Registered, vars, links
<1>3. Made(next', prev', head_cb', Cardinality(Entries) + 1)
  BY <1>1, <1>2 DEF Made, Lists
<1>. QED  BY <1>1, <1>2, <1>3 DEF CallbackInv

LEMMA CallBeginStep == ASSUME CallbackInv, NEW type \in Heads, call_func(type) PROVE CallbackInv'
<1>1. /\ at = "ready" /\ called' = <<>> /\ UNCHANGED <<next, prev, head_cb, at, i>>
      /\ loop'.head = type /\ loop'.direction = "next" /\ ~loop'.safe
      /\ loop'.pos = next[type]
  BY DEF call_func, LoopBegin, links, Follow
<1>2. PICK w : Way(Entries, next, prev, type, w) /\ Lists(head_cb, w, type, Cardinality(Entries) + 1)
  BY <1>1 DEF CallbackInv, Made
<1>3. w \in Seq(Entries) /\ Len(w) \in Nat
  BY <1>2 DEF Way, Leads
<1>4. next[type] = PlaceOn(type, w, 1)
  <2>1. 0 \in 0..Len(w) /\ PlaceOn(type, w, 0) = type
    BY <1>3 DEF PlaceOn
  <2>. QED  BY <1>2, <2>1, WayLinks
<1>5. Standing'
  <2>1. Lists(head_cb', w, type, Cardinality(Entries) + 1)
    BY <1>1, <1>2 DEF Lists
  <2>2. /\ 1 \in 1..(Len(w) + 1)
        /\ called' \in Seq(Entries) /\ Len(called') = 1 - 1
        /\ \A m \in 1..(1 - 1) : called'[m] = w[m]
    BY <1>1, <1>3
  <2>. QED  BY <1>1, <1>2, <1>4, <2>1, <2>2 DEF Standing
<1>6. Made(next', prev', head_cb', Cardinality(Entries) + 1)
  BY <1>1 DEF CallbackInv
<1>. QED  BY <1>1, <1>5, <1>6 DEF CallbackInv

LEMMA CallOneStep == ASSUME CallbackInv, CallOne PROVE CallbackInv'
<1>1. /\ loop.on /\ loop.pos # loop.head /\ UNCHANGED <<next, prev, head_cb, at, i>>
      /\ called' = Append(called, loop.pos)
  BY DEF CallOne, LoopRound, links
<1>2. at = "ready" /\ loop.head \in Heads /\ loop.direction = "next" /\ ~loop.safe /\ Standing
  BY <1>1 DEF CallbackInv
<1>3. /\ loop'.head = loop.head /\ loop'.direction = loop.direction /\ loop'.safe = loop.safe
      /\ loop'.pos = next[loop.pos]
  <2>1. PICK k \in {0, 1} :
          loop' = [loop EXCEPT !.pos = Advanced, !.n = FollowAfter(loop.direction, Advanced), !.adds = @ + k]
    BY DEF CallOne, LoopRound
  <2>2. Advanced = next[loop.pos]
    BY <1>1, <1>2 DEF Advanced, FollowAfter
  <2>. QED  BY <2>1, <2>2
<1>4. PICK w : /\ Way(Entries, next, prev, loop.head, w) /\ Lists(head_cb, w, loop.head, Cardinality(Entries) + 1)
               /\ \E k \in 1..(Len(w) + 1) :
                    /\ called \in Seq(Entries) /\ Len(called) = k - 1
                    /\ \A m \in 1..(k - 1) : called[m] = w[m]
                    /\ loop.pos = PlaceOn(loop.head, w, k)
  BY <1>2 DEF Standing
<1>5. PICK k \in 1..(Len(w) + 1) :
        /\ called \in Seq(Entries) /\ Len(called) = k - 1
        /\ \A m \in 1..(k - 1) : called[m] = w[m]
        /\ loop.pos = PlaceOn(loop.head, w, k)
  BY <1>4
<1>6. w \in Seq(Entries) /\ Len(w) \in Nat
  BY <1>4 DEF Way, Leads
<1>7. k \in 1..Len(w) /\ loop.pos = w[k] /\ loop.pos \in Entries
  BY <1>1, <1>5, <1>6 DEF PlaceOn
<1>8. loop'.pos = PlaceOn(loop.head, w, k + 1)
  <2>1. k \in 0..Len(w) /\ loop.pos = PlaceOn(loop.head, w, k)
    BY <1>5, <1>6, <1>7
  <2>2. next[PlaceOn(loop.head, w, k)] = PlaceOn(loop.head, w, k + 1)
    BY <1>4, <2>1, WayLinks
  <2>. QED  BY <1>3, <2>1, <2>2
<1>9. /\ k + 1 \in 1..(Len(w) + 1)
      /\ called' \in Seq(Entries) /\ Len(called') = (k + 1) - 1
      /\ \A m \in 1..((k + 1) - 1) : called'[m] = w[m]
  BY <1>1, <1>5, <1>6, <1>7
<1>10. Standing'
  <2>1. Lists(head_cb', w, loop.head, Cardinality(Entries) + 1)
    BY <1>1, <1>3, <1>4 DEF Lists
  <2>. QED  BY <1>1, <1>3, <1>4, <1>8, <1>9, <2>1 DEF Standing
<1>11. Made(next', prev', head_cb', Cardinality(Entries) + 1)
  BY <1>1, <1>2 DEF CallbackInv
<1>. QED  BY <1>1, <1>2, <1>3, <1>10, <1>11 DEF CallbackInv

LEMMA CallEndStep == ASSUME CallbackInv, CallEnd PROVE CallbackInv'
<1>1. /\ loop' = Idle /\ UNCHANGED <<next, prev, head_cb, at, i>> /\ loop.on
  BY DEF CallEnd, LoopEnd, links
<1>. QED  BY <1>1 DEF CallbackInv, Idle

LEMMA NextCallbacks == ASSUME CallbackInv, [CallbackNext]_callbackVars PROVE CallbackInv'
<1>1. CASE \E type \in Heads : call_func(type)
  BY <1>1, CallBeginStep
<1>2. CASE UNCHANGED callbackVars
  <2>1. UNCHANGED <<next, prev, loop, head_cb, at, i, called>>
    BY <1>2 DEF callbackVars, vars, links
  <2>. QED  BY <2>1 DEF CallbackInv, Standing
<1>. QED  BY <1>1, <1>2, EmptiedStep, RegisterStep, RegisteredStep, CallOneStep, CallEndStep DEF CallbackNext

LEMMA StandingCalls == CallbackInv => CallsTheTable
<1>1. SUFFICES ASSUME CallbackInv, loop.on PROVE CallsTheTable
  BY DEF CallsTheTable
<1>2. PICK h : h = loop.head /\ h \in Heads
  BY <1>1 DEF CallbackInv
<1>3. PICK w : /\ Way(Entries, next, prev, h, w) /\ Lists(head_cb, w, h, Cardinality(Entries) + 1)
               /\ \E k \in 1..(Len(w) + 1) :
                    /\ called \in Seq(Entries) /\ Len(called) = k - 1
                    /\ \A m \in 1..(k - 1) : called[m] = w[m]
                    /\ loop.pos = PlaceOn(h, w, k)
  BY <1>1, <1>2 DEF CallbackInv, Standing
<1>4. PICK k \in 1..(Len(w) + 1) :
        /\ called \in Seq(Entries) /\ Len(called) = k - 1
        /\ \A m \in 1..(k - 1) : called[m] = w[m]
        /\ loop.pos = PlaceOn(h, w, k)
  BY <1>3
<1>5. w \in Seq(Entries) /\ Len(w) \in Nat /\ \A m \in 1..Len(w) : w[m] \in Int
  <2>1. w \in Seq(Entries) /\ Len(w) \in Nat
    BY <1>3 DEF Way, Leads
  <2>. QED  BY <2>1, EntriesAreNumbered
<1> DEFINE listed == {e \in Entries : head_cb[e] = h}
           before == IF loop.pos = h THEN listed ELSE {e \in listed : e < loop.pos}
<1>6. \A e \in Entries : e \in listed <=> \E m \in 1..Len(w) : w[m] = e
  <2>1. \A e \in Entries : e < Cardinality(Entries) + 1
    BY EntriesAreNumbered
  <2>. QED  BY <1>3, <2>1 DEF Lists
<1>7. DOMAIN called = 1..(k - 1) /\ \A m \in 1..(k - 1) : m \in 1..Len(w)
  BY <1>4, <1>5
<1>8. \A j, m \in 1..Len(w) : j < m => w[j] < w[m]
  BY <1>3 DEF Lists
<1>9. {called[m] : m \in DOMAIN called} = {w[m] : m \in 1..(k - 1)}
  BY <1>4, <1>7
<1>10. CASE k = Len(w) + 1
  <2>1. loop.pos = h /\ k - 1 = Len(w)
    BY <1>4, <1>5, <1>10 DEF PlaceOn
  <2>2. {w[m] : m \in 1..(k - 1)} = listed
    BY <1>5, <1>6, <2>1
  <2>. QED  BY <1>2, <1>4, <1>7, <1>8, <1>9, <2>1, <2>2 DEF CallsTheTable
<1>11. CASE k # Len(w) + 1
  <2>1. k \in 1..Len(w) /\ loop.pos = w[k] /\ w[k] \in Entries /\ w[k] # h
    BY <1>2, <1>4, <1>5, <1>11, ListAssumption DEF PlaceOn, ListAssumption
  <2>2. w[k] \in listed
    BY <1>6, <2>1
  <2>3. \A m \in 1..Len(w) : w[m] < w[k] <=> m < k
    BY <1>5, <1>8, <2>1
  <2>4. {w[m] : m \in 1..(k - 1)} = {e \in listed : e < loop.pos}
    <3>1. \A m \in 1..(k - 1) : m \in 1..Len(w) /\ w[m] \in listed /\ w[m] < w[k]
      BY <1>5, <1>6, <1>7, <2>1, <2>3
    <3>2. ASSUME NEW e \in listed, e < w[k] PROVE \E m \in 1..(k - 1) : w[m] = e
      <4>1. PICK m \in 1..Len(w) : w[m] = e
        BY <1>6, <3>2
      <4>2. m \in 1..(k - 1)
        BY <1>5, <2>1, <2>3, <3>2, <4>1
      <4>. QED  BY <4>1, <4>2
    <3>. QED  BY <2>1, <3>1, <3>2
  <2>. QED  BY <1>2, <1>4, <1>7, <1>8, <1>9, <2>1, <2>2, <2>4 DEF CallsTheTable
<1>. QED  BY <1>5, <1>10, <1>11

\* node_online and node_offline call the callbacks of their type in the order of
\* the table, once each, however long the table is, whatever types are in it, and
\* however often init_node_cbs has run.
THEOREM CallsFollowTheTable == CallbackSpec => []CallsTheTable
<1>1. CallbackInit => CallbackInv
  BY InitCallbacks
<1>2. CallbackInv /\ [CallbackNext]_callbackVars => CallbackInv'
  BY NextCallbacks
<1>. QED  BY <1>1, <1>2, StandingCalls, PTL DEF CallbackSpec
=============================================================================
