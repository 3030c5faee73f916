---------------------------- MODULE MCUpstreamCircuit ----------------------------
(* Small instances of UpstreamCircuit for TLC. *)
EXTENDS UpstreamCircuit, TLC

CONSTANTS p1, p2, c1, c2

\* One call in each process
HomeOf == c1 :> p1 @@ c2 :> p2

\* The processes are alike, and so are their calls
Swap == {p1 :> p2 @@ p2 :> p1 @@ c1 :> c2 @@ c2 :> c1}
===============================================================================
