------------------------------ MODULE Callback ------------------------------
(***************************************************************************)
(* The node callbacks of lib/callback, a client of lib/list: the table     *)
(* head_cb is put into one list per type by init_node_cbs, and node_online *)
(* and node_offline call what is in the list of their type.  There is one  *)
(* thread, and a callback neither calls the library nor touches a list.    *)
(*                                                                         *)
(* Heads are the elements of node_cbs, one per type, Entries the list      *)
(* members of the elements of head_cb, numbered from 1.                    *)
(*                                                                         *)
(* Name_Fault is Name with a plausible mistake; see Workqueue.             *)
(***************************************************************************)
EXTENDS List

CONSTANTS
    NULL,           \* what static memory holds before init_node_cbs
    NoType          \* a type that is not below CALLBACK_TYPE_NR

ASSUME CallbackAssumption ==
    /\ Entries = 1..Cardinality(Entries) /\ IsFiniteSet(Entries)
    /\ NULL \notin Nodes /\ NoType \notin Heads

VARIABLES
    head_cb,        \* the type of each element of the table
    at,             \* "off", "table" in the second loop of init, or "ready"
    i,              \* the counter of that loop
    called          \* the callbacks the running call has called, in order

callbackVars == <<vars, head_cb, at, i, called>>

\* The repository's table is one of those a user of the template may write.
CallbackInit ==
    /\ next = [x \in Nodes |-> NULL] /\ prev = [x \in Nodes |-> NULL]
    /\ loop = Idle /\ met = {} /\ stayed = {}
    /\ head_cb \in [Entries -> Heads \cup {NoType}]
    /\ at = "off" /\ i = 1 /\ called = <<>>

-----------------------------------------------------------------------------
(* init_node_cbs, which may be called again.                               *)

Emptied_Once(link) == [x \in Nodes |-> IF x \in Heads /\ link[x] = NULL THEN x ELSE link[x]]
\* INIT_LIST_HEAD of every list.
Emptied(link) == [x \in Nodes |-> IF x \in Heads THEN x ELSE link[x]]

init_node_cbs ==
    /\ ~loop.on /\ at \in {"off", "ready"}
    /\ next' = Emptied(next) /\ prev' = Emptied(prev)
    /\ at' = "table" /\ i' = 1
    /\ UNCHANGED <<loop, met, stayed, head_cb, called>>

\* INIT_LIST_HEAD of the entry writes what list_add_tail overwrites.
Register ==
    /\ at = "table" /\ i \in Entries
    /\ IF head_cb[i] \in Heads THEN list_add_tail(i, head_cb[i]) ELSE UNCHANGED links
    /\ i' = i + 1
    /\ UNCHANGED <<loop, met, stayed, head_cb, at, called>>

Registered ==
    /\ at = "table" /\ i \notin Entries
    /\ at' = "ready" /\ i' = 1
    /\ UNCHANGED <<vars, head_cb, called>>

-----------------------------------------------------------------------------
(* call_func, by node_online and node_offline: a plain loop whose body     *)
(* leaves the list alone.                                                  *)

call_func(type) ==
    /\ at = "ready"
    /\ LoopBegin(type, "next", FALSE)
    /\ called' = <<>>
    /\ UNCHANGED <<head_cb, at, i>>

CallOne ==
    /\ LoopRound /\ UNCHANGED links
    /\ called' = Append(called, loop.pos)
    /\ UNCHANGED <<head_cb, at, i>>

CallEnd == LoopEnd /\ called' = <<>> /\ UNCHANGED <<head_cb, at, i>>

-----------------------------------------------------------------------------
CallbackNext ==
    \/ init_node_cbs \/ Register \/ Registered
    \/ CallOne \/ CallEnd
    \/ \E type \in Heads : call_func(type)

CallbackSpec == CallbackInit /\ [][CallbackNext]_callbackVars

-----------------------------------------------------------------------------
(* What makes lib/callback correct.                                        *)

\* A call of node_online or node_offline goes through the callbacks of its type
\* in the order of the table, once each and no others, and stops after the last,
\* whether init_node_cbs has run once or again over the links of the last time.
CallsTheTable ==
    loop.on =>
      LET listed == {e \in Entries : head_cb[e] = loop.head}
          before == IF loop.pos = loop.head THEN listed ELSE {e \in listed : e < loop.pos}
      IN  /\ loop.pos \in listed \cup {loop.head}
          /\ {called[k] : k \in DOMAIN called} = before
          /\ \A j, k \in DOMAIN called : j < k => called[j] < called[k]
=============================================================================
