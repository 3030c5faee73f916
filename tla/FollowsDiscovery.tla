--------------------------- MODULE FollowsDiscovery ---------------------------
(***************************************************************************)
(* How the API records follow events of one team or player: recordEvent of *)
(* PostgresFollowsDiscoveryStore, one transaction of several statements at  *)
(* READ COMMITTED for each request.                                        *)
(*                                                                         *)
(* A transaction works on the row of its subject, on the aggregate of the   *)
(* team and on its statistics of the day. Other transactions see what it    *)
(* writes when it commits; until then a row it has locked or written makes  *)
(* them wait. All events are of one day.                                    *)
(***************************************************************************)
EXTENDS Integers, FiniteSets

CONSTANTS
  Subject,   \* subjects of mobile sessions
  Request,   \* requests of POST /v1/follows/events
  NoRequest

ASSUME SubjectAssumption == IsFiniteSet(Subject) /\ Subject # {}
ASSUME RequestAssumption == NoRequest \notin Request

VARIABLES
  state,      \* follow_entity_states: of each subject
  counts,     \* follow_entity_aggregates and follow_entity_daily_stats
  rowLock,    \* the request that holds the row, or the key, of a subject
  countLock,  \* the request that holds the row of the aggregate
  req,        \* the request: what it is at, its event and the state it has found
  doubled     \* history: follows that found no row and were counted of a follower

serverVars == <<state, counts, rowLock, countLock, req, doubled>>

Action == {"follow", "unfollow"}
State == {"none", "followed", "unfollowed"}

\* slip: what is stored is what was asked
Asked(action) == action

Outcome(action) == IF action = "follow" THEN "followed" ELSE "unfollowed"

\* The statement a request comes to next
Statement == {"select", "upsert", "count", "commit"}
At == Statement \cup {"idle", "answered", "failed"}

\* The values the state can hold.
ServerTypeOK ==
  /\ state \in [Subject -> State]
  /\ counts \in [active : Nat, total : Nat, adds : Nat, removes : Nat]
  /\ rowLock \in [Subject -> Request \cup {NoRequest}]
  /\ countLock \in Request \cup {NoRequest}
  /\ req \in [Request -> [at : At, subject : Subject, action : Action, found : State]]
  /\ doubled \in Nat

NoEvent ==
  [at |-> "idle", subject |-> CHOOSE s \in Subject : TRUE, action |-> "follow", found |-> "none"]

ServerInit ==
  /\ state = [s \in Subject |-> "none"]
  /\ counts = [active |-> 0, total |-> 0, adds |-> 0, removes |-> 0]
  /\ rowLock = [s \in Subject |-> NoRequest]
  /\ countLock = NoRequest
  /\ req = [r \in Request |-> NoEvent]
  /\ doubled = 0

-----------------------------------------------------------------------------
(* One transaction *)

MovesTo(r, at) == req' = [req EXCEPT ![r].at = at]

\* A request arrives
Called(r, s, action) ==
  /\ req[r].at = "idle"
  /\ req' = [req EXCEPT ![r] = [at |-> "select", subject |-> s, action |-> action,
                                found |-> "none"]]
  /\ UNCHANGED <<state, counts, rowLock, countLock, doubled>>

\* slip: SELECT without FOR UPDATE
LocksNothing(r) == {}

\* The rows SELECT ... FOR UPDATE locks: none if there is none
Locks(r) == {s \in {req[r].subject} : state[s] # "none"}

Free(r, s) == rowLock[s] \in {r, NoRequest}

ChangesState(action, found) ==
  IF action = "follow" THEN found # "followed" ELSE found = "followed"

\* Nothing to change: the transaction ends. Otherwise it holds what it has found.
Select(r) ==
  LET s == req[r].subject
      changes == ChangesState(req[r].action, state[s])
  IN /\ req[r].at = "select"
     /\ \A l \in Locks(r) : Free(r, l)
     /\ req' = [req EXCEPT ![r] = [at |-> IF changes THEN "upsert" ELSE "answered",
                                   subject |-> s, action |-> req[r].action,
                                   found |-> state[s]]]
     /\ rowLock' = IF changes THEN [l \in Subject |-> IF l \in Locks(r) THEN r ELSE rowLock[l]]
                              ELSE rowLock
     /\ UNCHANGED <<state, counts, countLock, doubled>>

\* INSERT ... ON CONFLICT DO UPDATE waits for whoever writes or locks the row
Upsert(r) ==
  /\ req[r].at = "upsert"
  /\ Free(r, req[r].subject)
  /\ rowLock' = [rowLock EXCEPT ![req[r].subject] = r]
  /\ MovesTo(r, "count")
  /\ UNCHANGED <<state, counts, countLock, doubled>>

\* The aggregate's row; nobody else can be at the row of the day, which follows
Count(r) ==
  /\ req[r].at = "count"
  /\ countLock = NoRequest
  /\ countLock' = r
  /\ MovesTo(r, "commit")
  /\ UNCHANGED <<state, counts, rowLock, doubled>>

Release(r) ==
  /\ rowLock' = [s \in Subject |-> IF rowLock[s] = r THEN NoRequest ELSE rowLock[s]]
  /\ countLock' = IF countLock = r THEN NoRequest ELSE countLock

\* The counters after an event
Counted(c, action) ==
  IF action = "follow"
  THEN [active |-> c.active + 1, total |-> c.total + 1, adds |-> c.adds + 1,
        removes |-> c.removes]
  ELSE [active |-> IF c.active > 0 THEN c.active - 1 ELSE 0, total |-> c.total,
        adds |-> c.adds, removes |-> c.removes + 1]

Commit(r) ==
  LET s == req[r].subject
      outcome == Outcome(req[r].action)
  IN /\ req[r].at = "commit"
     /\ state' = [state EXCEPT ![s] = outcome]
     /\ counts' = Counted(counts, req[r].action)
     /\ doubled' = IF req[r].found = "none" /\ state[s] = outcome THEN doubled + 1 ELSE doubled
     /\ Release(r)
     /\ MovesTo(r, "answered")

\* A statement fails, or the connection or the API's process ends
Rollback(r) ==
  /\ req[r].at \in Statement
  /\ Release(r)
  /\ MovesTo(r, "failed")
  /\ UNCHANGED <<state, counts, doubled>>

\* The request is over for its caller
Over(r) ==
  /\ req[r].at \in {"answered", "failed"}
  /\ req' = [req EXCEPT ![r] = NoEvent]
  /\ UNCHANGED <<state, counts, rowLock, countLock, doubled>>

Serve(r) == Select(r) \/ Upsert(r) \/ Count(r) \/ Commit(r) \/ Rollback(r)

ServerNext ==
  \E r \in Request :
    \/ \E s \in Subject, action \in Action : Called(r, s, action)
    \/ Serve(r)
    \/ Over(r)

ServerSpec == ServerInit /\ [][ServerNext]_serverVars

-----------------------------------------------------------------------------
(* Properties *)

Followers == {s \in Subject : state[s] = "followed"}

\* The number of followers a team shows is the number of subjects that follow it, plus
\* one for every follow that was counted twice: two first follows of a subject that
\* both found no row to lock. Nothing else makes it drift, and an unfollow never makes
\* up for it.
CountIsFollowers == counts.active = Cardinality(Followers) + doubled

\* The aggregate and the statistics of the days, which are written one after the other
\* and rank the teams together, never disagree: GREATEST never hides a missing follower.
CountsAgree ==
  /\ counts.active = counts.adds - counts.removes
  /\ counts.total = counts.adds

===============================================================================
