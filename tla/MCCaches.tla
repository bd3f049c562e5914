------------------------------ MODULE MCCaches ------------------------------
(* A small instance of Caches. *)
EXTENDS Caches, TLC

\* The requests are interchangeable.
Alike == Permutations(Procs)
=============================================================================
