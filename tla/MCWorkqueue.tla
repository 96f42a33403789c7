----------------------------- MODULE MCWorkqueue -----------------------------
(***************************************************************************)
(* Small instances of the workqueue for TLC.                               *)
(***************************************************************************)
EXTENDS WorkqueueProperties, TLC

CONSTANTS w1, w2, w3

\* Threads, clients and works are interchangeable where no FuncFlushes order
\* distinguishes works; used in the runs without liveness only.
Symmetry == Permutations(Threads) \cup Permutations(Works) \cup Permutations(Clients)

NoFlushes == {}
\* The function of w1 waits for w2.
W1FlushesW2 == {<<w1, w2>>}
=============================================================================
