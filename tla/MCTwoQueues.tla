----------------------------- MODULE MCTwoQueues -----------------------------
(***************************************************************************)
(* A small instance of two workqueues for TLC: two workers of a, one of b. *)
(***************************************************************************)
EXTENDS TwoQueuesProperties, TLC

CONSTANTS a, b, k1, k2, k3

WorkersOf == (k1 :> a) @@ (k2 :> a) @@ (k3 :> b)
=============================================================================
