---------------------------- MODULE MCFollowedTeams ----------------------------
(* Small instances of FollowedTeams for TLC. *)
EXTENDS FollowedTeams, TLC

\* Toggles, drains and requests are interchangeable, and so are the other teams
Alike ==
  Permutations(Toggle) \cup Permutations(Drain) \cup Permutations(Request)
  \cup Permutations(Team \ {Tracked})

\* States that differ only in what is persisted, once the bound on failures lets the app
\* start no more, are one: Restart alone reads it, and no property does
Seen ==
  <<serverVars, sqlite, stored, asked, shown, toggle, toggles, outdated, eventVars, faults, spoiled,
    IF faults < MaxFaults THEN persisted ELSE {}>>
===============================================================================
