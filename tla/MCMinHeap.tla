----------------------------- MODULE MCMinHeap ------------------------------
(***************************************************************************)
(* Small instances of the heap for TLC.                                    *)
(***************************************************************************)
EXTENDS MinHeapProperties

CONSTANTS a, b, c, d

\* a before b and c, which are equal, before d.
WeakOrder == {<<a, b>>, <<a, c>>, <<a, d>>, <<b, d>>, <<c, d>>}
=============================================================================
