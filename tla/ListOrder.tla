----------------------------- MODULE ListOrder ------------------------------
(***************************************************************************)
(* What lib/list promises to its callers: each head has a sequence of      *)
(* entries, an entry is in at most one of them, and is put at an end or    *)
(* taken out from anywhere.                                                *)
(*                                                                         *)
(* List.tla is shown to implement this module.                             *)
(***************************************************************************)
EXTENDS Integers, Sequences

CONSTANTS Heads, Entries

VARIABLE order      \* order[h]: the entries of h, first to last

In(h) == {order[h][i] : i \in DOMAIN order[h]}
Elsewhere(e) == \A h \in Heads : e \notin In(h)

Init == order = [h \in Heads |-> <<>>]

AddFirst(e, h) == Elsewhere(e) /\ order' = [order EXCEPT ![h] = <<e>> \o @]
AddLast(e, h) == Elsewhere(e) /\ order' = [order EXCEPT ![h] = Append(@, e)]

Without(s, i) == [k \in 1..(Len(s) - 1) |-> IF k < i THEN s[k] ELSE s[k + 1]]
Remove(e) ==
    \/ Elsewhere(e) /\ UNCHANGED order
    \/ \E h \in Heads : \E i \in DOMAIN order[h] :
         order[h][i] = e /\ order' = [order EXCEPT ![h] = Without(@, i)]

Next ==
    \E e \in Entries : Remove(e) \/ \E h \in Heads : AddFirst(e, h) \/ AddLast(e, h)

Spec == Init /\ [][Next]_order
=============================================================================
