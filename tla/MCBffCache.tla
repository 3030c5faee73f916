------------------------------ MODULE MCBffCache ------------------------------
(* Small instances of BffCache for TLC. *)
EXTENDS BffCache, TLC

CONSTANTS p1, p2, c1, c2, c3

\* Two calls of one process, one of them stale-while-revalidate, and one of the other
MCHome == [c \in Caller |-> IF c = c3 THEN p2 ELSE p1]

\* The fills are interchangeable
FillSymmetry == Permutations(Fill)
===============================================================================
