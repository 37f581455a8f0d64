---------------------------- MODULE MCOsalQueue ----------------------------
(* A small instance of OsalQueue for TLC. *)
EXTENDS OsalQueue, TLC

CONSTANTS t1, t2, t3, m1, m2

(* The threads are interchangeable. *)
Symmetry == Permutations({t1, t2, t3})
=============================================================================
