---------------------------- MODULE MCRefreshQueue ----------------------------
(* Small instances of RefreshQueue for TLC. *)
EXTENDS RefreshQueue, TLC

CONSTANTS match, player

\* The teams of the match are not among the tasks
MCTeams == [m \in Match |-> {}]

\* Readers ask for the core section of a player with a high priority
MCAskPriority == [t \in Task |-> IF t = player THEN 200 ELSE 100]
===============================================================================
