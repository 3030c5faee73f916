---------------------------- MODULE MCMobileSession ----------------------------
(* Small instances of MobileSession for TLC. *)
EXTENDS MobileSession, TLC

\* The slots of the server are interchangeable. Tokens and families are not declared so:
\* the new ones are chosen.
RequestSymmetry == Permutations(Request)
===============================================================================
