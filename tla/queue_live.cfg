\* A match and a player, and two workers of which one may crash, or lose an update of
\* the queue, and one may hang.
CONSTANTS
  match = match
  player = player
  Task = {match, player}
  Match = {match}
  Teams <- MCTeams
  AskPriority <- MCAskPriority
  Worker = {w1, w2}
  NoWorker = NoWorker
  NoTask = NoTask
  ClaimLimit = 1
  MaxFaults = 1
SPECIFICATION FairSpec
INVARIANTS
  TypeOK
  LeaseHonoured
PROPERTIES
  AskedIsServed
