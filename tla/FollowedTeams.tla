----------------------------- MODULE FollowedTeams -----------------------------
(***************************************************************************)
(* The teams that the app follows: its list in SQLite and in AsyncStorage,  *)
(* what it shows, which is the query cache that MMKV persists a second      *)
(* behind, and the follow events of one of the teams on their way to the   *)
(* API, directly or through the queue of mutations that failed.            *)
(*                                                                         *)
(* The app has one thread: an action runs from one await of a storage or of *)
(* the network to the next. AsyncStorage serves what it is asked in order.  *)
(* The app may end at any time, a storage or a request may fail, and a      *)
(* reply may come after the app has given the request up. The app lets a    *)
(* user toggle once the list is loaded. The order of the list is left out.  *)
(***************************************************************************)
EXTENDS FollowsDiscovery, Sequences

CONSTANTS
  Team,
  Tracked,     \* the team whose events are modelled
  Me,          \* the subject of this phone
  MaxFollowed, \* appEnv.followsMaxFollowedTeams
  Toggle,      \* toggles that may overlap
  Drain,       \* runs of drainMutationQueue that may overlap
  MaxRetries,  \* MAX_RETRIES
  MaxToggles,  \* bound: toggles of this phone and the others, and loads anew, in all
  MaxFaults    \* bound: failures in all

ASSUME TrackedAssumption == Tracked \in Team /\ Me \in Subject
ASSUME DrainAssumption == "none" \notin Drain /\ "direct" \notin Drain
ASSUME MaxAssumption == {MaxFollowed, MaxRetries, MaxToggles, MaxFaults} \subseteq Nat

VARIABLES
  sqlite,   \* the table followed_entities
  stored,   \* the list in AsyncStorage
  asked,    \* the toggles whose read or write AsyncStorage has been asked, in order
  shown,    \* the list in the query cache
  persisted, \* the list of the query cache in MMKV, if there is one: a set of one, or none
  toggle,   \* each toggle: where it is, its team, what it found shown, its list
  queue,    \* the table offline_mutation_queue
  drain,    \* each drain: the rows it has read and not finished, as they were
  sender,   \* who waits for the reply of each request
  toggles,  \* toggles so far
  rows,     \* rows of the queue so far: the last id
  faults,   \* failures so far
  spoiled,  \* history: what has gone wrong, "list", "event" or "order"
  outdated  \* history: the app started with a persisted list that was not the one kept,
            \* and nothing has taken its place since

listVars == <<sqlite, stored, asked, shown, persisted, toggle, toggles, outdated>>
eventVars == <<queue, drain, sender, rows>>
vars == <<serverVars, listVars, eventVars, faults, spoiled>>

Row == [id : Nat, action : Action, retries : Nat]
ToggleState ==
  [at : {"idle", "load", "legacy", "fallback", "stored"}, team : Team,
   previous : SUBSET Team, list : SUBSET Team, again : BOOLEAN]
Spoil == {"list", "event", "order"}

ListTypeOK ==
  /\ sqlite \in SUBSET Team /\ stored \in SUBSET Team /\ shown \in SUBSET Team
  /\ asked \in Seq(Toggle)
  /\ toggle \in [Toggle -> ToggleState]
  /\ persisted \in SUBSET SUBSET Team
  /\ toggles \in 0 .. MaxToggles
  /\ outdated \in BOOLEAN

EventTypeOK ==
  /\ queue \in SUBSET Row
  /\ drain \in [Drain -> SUBSET Row]
  /\ sender \in [Request -> {"none", "direct"} \cup Drain]
  /\ rows \in Nat

FaultTypeOK == faults \in 0 .. MaxFaults /\ spoiled \in SUBSET Spoil

\* The values the state can hold.
TypeOK == ServerTypeOK /\ ListTypeOK /\ EventTypeOK /\ FaultTypeOK

Idle == [at |-> "idle", team |-> Tracked, previous |-> {}, list |-> {}, again |-> FALSE]

\* The list of a version that had only AsyncStorage is imported when the app first reads it
Init ==
  /\ ServerInit
  /\ stored \in SUBSET (Team \ {Tracked}) /\ Cardinality(stored) <= MaxFollowed
  /\ sqlite = stored /\ shown = stored /\ persisted = {} /\ outdated = FALSE
  /\ asked = <<>>
  /\ toggle = [t \in Toggle |-> Idle]
  /\ queue = {}
  /\ drain = [d \in Drain |-> {}]
  /\ sender = [r \in Request |-> "none"]
  /\ toggles = 0 /\ rows = 0 /\ faults = 0
  /\ spoiled = {}

Fault == faults < MaxFaults /\ faults' = faults + 1

-----------------------------------------------------------------------------
(* The list *)

Toggled(ids, team) ==
  IF team \in ids THEN ids \ {team}
  ELSE IF Cardinality(ids) >= MaxFollowed THEN ids ELSE ids \cup {team}

\* onMutate shows the list as it will be
Tap(t, team) ==
  /\ toggle[t].at = "idle" /\ toggles < MaxToggles
  /\ toggle' = [toggle EXCEPT ![t] = [at |-> "load", team |-> team, previous |-> shown,
                                      list |-> {}, again |-> FALSE]]
  /\ shown' = Toggled(shown, team)
  /\ toggles' = toggles + 1
  /\ UNCHANGED <<serverVars, sqlite, stored, asked, persisted, eventVars, faults, spoiled, outdated>>

Becomes(t, at, list, again) ==
  toggle' = [toggle EXCEPT ![t] = [at |-> at, team |-> toggle[t].team,
                                   previous |-> toggle[t].previous, list |-> list,
                                   again |-> again]]
Goes(t, at) == Becomes(t, at, {}, toggle[t].again)
Ends(t) == toggle' = [toggle EXCEPT ![t] = Idle]
Spoils(what) == spoiled' = spoiled \cup what

\* A toggle that runs again may find the list full: what it did the first time stays done,
\* and no event tells
Unsent(t) == IF toggle[t].again THEN {"event"} ELSE {}

\* toggleFollow once the list is known. A full list stays as it is; another is saved in
\* SQLite, whose failure is ignored, then in AsyncStorage.
Decide(t, ids, table, queued, what) ==
  LET list == Toggled(ids, toggle[t].team)
  IN /\ UNCHANGED <<stored, persisted>>
     /\ IF list = ids
        THEN /\ Ends(t)
             /\ asked' = queued
             /\ shown' = ids /\ outdated' = FALSE
             /\ sqlite' = table
             /\ Spoils(what \cup Unsent(t)) /\ UNCHANGED faults
        ELSE /\ Becomes(t, "stored", list, toggle[t].again)
             /\ asked' = Append(queued, t)
             /\ UNCHANGED <<shown, outdated>>
             /\ \/ sqlite' = list /\ Spoils(what) /\ UNCHANGED faults
                \/ sqlite' = table /\ Spoils({"list"}) /\ Fault

\* loadIds: SQLite, or AsyncStorage if SQLite has no list or fails
Load(t) ==
  /\ toggle[t].at = "load"
  /\ \/ sqlite # {} /\ Decide(t, sqlite, sqlite, asked, {})
     \/ /\ sqlite = {} /\ Goes(t, "legacy") /\ Spoils({}) /\ UNCHANGED faults
        /\ asked' = Append(asked, t) /\ UNCHANGED <<sqlite, stored, shown, persisted, outdated>>
     \/ /\ Goes(t, "fallback") /\ Spoils({"list"}) /\ Fault
        /\ asked' = Append(asked, t) /\ UNCHANGED <<sqlite, stored, shown, persisted, outdated>>
  /\ UNCHANGED <<serverVars, eventVars, toggles>>

\* slip: the mutation does not run again
RollsBackAtOnce(t) == Ends(t) /\ shown' = toggle[t].previous

\* The mutation runs again once, as a new toggle; then what it has found shown is shown
AttemptFails(t) ==
  IF toggle[t].again
  THEN /\ Ends(t)
       /\ shown' = toggle[t].previous
  ELSE /\ Becomes(t, "load", {}, TRUE)
       /\ shown' = shown

\* AsyncStorage answers the first it was asked
Answered(t, at) ==
  /\ asked # <<>> /\ Head(asked) = t
  /\ toggle[t].at \in at
  /\ UNCHANGED toggles

\* A toggle reads from AsyncStorage while another reads or writes
Overlaps(t) == IF \E u \in Toggle \ {t} : toggle[u].at \notin {"idle", "load"} THEN {"list"} ELSE {}

\* It is asked for the list: the one SQLite is given if it has none
Legacy(t) ==
  /\ Answered(t, {"legacy", "fallback"})
  /\ UNCHANGED <<serverVars, eventVars>>
  /\ \/ Decide(t, stored,
              IF toggle[t].at = "legacy" /\ stored # {} THEN stored ELSE sqlite,
              Tail(asked), Overlaps(t))
     \/ /\ Spoils({"list"}) /\ Fault
        /\ IF toggle[t].at = "legacy"
           THEN Goes(t, "fallback") /\ asked' = Append(Tail(asked), t) /\ shown' = shown
           ELSE AttemptFails(t) /\ asked' = Tail(asked)
        /\ UNCHANGED <<sqlite, stored, persisted, outdated>>

-----------------------------------------------------------------------------
(* The events *)

\* An event has no answer yet, or may still get to the API again
Pending ==
  \/ \E r \in Request : sender[r] # "none" \/ (req[r].at \in Statement /\ req[r].subject = Me)
  \/ queue # {} \/ \E d \in Drain : drain[d] # {}

\* postFollowEvent
Posts(r, action, who) ==
  /\ sender[r] = "none"
  /\ Called(r, Me, action)
  /\ sender' = [sender EXCEPT ![r] = who]

\* It is asked to keep the list: onSuccess shows it, and sends the event
Stored(t) ==
  LET team == toggle[t].team
      list == toggle[t].list
  IN /\ Answered(t, {"stored"})
     /\ asked' = Tail(asked)
     /\ UNCHANGED <<sqlite, persisted, queue, drain, rows>>
     /\ \/ /\ stored' = list /\ shown' = list /\ outdated' = FALSE
           /\ Ends(t)
           /\ faults' = faults
           /\ IF team = Tracked
              THEN /\ \E r \in Request :
                       Posts(r, IF team \in list THEN "follow" ELSE "unfollow", "direct")
                   /\ Spoils(IF Pending THEN {"order"} ELSE {})
              ELSE UNCHANGED <<serverVars, sender, spoiled>>
        \/ /\ UNCHANGED <<stored, outdated>>
           /\ AttemptFails(t)
           /\ Fault
           /\ Spoils(IF toggle[t].again THEN {"list"} ELSE {})
           /\ UNCHANGED <<serverVars, sender>>

\* The row a drain is at: the oldest it has left
Current(d) == {row \in drain[d] : \A other \in drain[d] : row.id <= other.id}

Deleted(id) == {row \in queue : row.id # id}

\* slip: the failure of a mutation deletes its row
FailureDeletes(id) == Deleted(id)

Retried(id) == Deleted(id) \cup {[row EXCEPT !.retries = @ + 1] : row \in queue \ Deleted(id)}

\* The promise of the request resolves: a direct event that fails is queued, a row that
\* succeeds is deleted, and the drain goes on to its next
Resolves(r, ok) ==
  LET who == sender[r]
  IN /\ sender' = [sender EXCEPT ![r] = "none"]
     /\ \/ /\ who = "none" \/ (who = "direct" /\ ok)
           /\ UNCHANGED <<queue, drain, rows>>
        \/ /\ who = "direct" /\ ~ok
           /\ rows' = rows + 1
           /\ queue' = queue \cup {[id |-> rows + 1, action |-> req[r].action, retries |-> 0]}
           /\ drain' = drain
        \/ who \in Drain /\ \E row \in Current(who) :
           /\ drain' = [drain EXCEPT ![who] = @ \ {row}]
           /\ queue' = IF ok THEN Deleted(row.id) ELSE Retried(row.id)
           /\ rows' = rows

\* The API's reply
Reply(r) ==
  /\ Over(r)
  /\ Resolves(r, req[r].at = "answered")
  /\ UNCHANGED <<listVars, faults, spoiled>>

\* The time is up, or the network is gone, or the API fails once the event is recorded,
\* at the metadata of the entity: the event may be recorded, or be so later
GiveUp(r) ==
  /\ sender[r] # "none"
  /\ Resolves(r, FALSE)
  /\ Fault
  /\ UNCHANGED <<serverVars, listVars, spoiled>>

\* drainMutationQueue, at the start of the app and when it is online again: the rows
\* that were tried too often and the oldest, those of the day before, are deleted
StartDrain(d) ==
  \E last \in 0 .. rows :
    LET expired == {row \in queue : row.id <= last}
        kept == {row \in queue \ expired : row.retries < MaxRetries}
    IN /\ drain[d] = {} /\ queue # {}
       /\ IF expired = {} THEN faults' = faults ELSE Fault
       /\ queue' = kept
       /\ drain' = [drain EXCEPT ![d] = kept]
       /\ Spoils(IF kept = queue THEN {} ELSE {"event"})
       /\ UNCHANGED <<serverVars, listVars, sender, rows>>

SendRow(d) ==
  /\ drain[d] # {} /\ \A r \in Request : sender[r] # d
  /\ \E r \in Request, row \in Current(d) : Posts(r, row.action, d)
  /\ UNCHANGED <<listVars, queue, drain, rows, faults, spoiled>>

-----------------------------------------------------------------------------
(* The query cache: its list is persisted, restored when the app starts, and loaded anew *)

\* What loadIds finds: SQLite is given the list of AsyncStorage if it has none
Kept == IF sqlite = {} THEN stored ELSE sqlite

\* The persister writes what was queued last, a second after the first change; it removes
\* a cache that has grown too large, and writes none of the list once it has left memory
Flush ==
  /\ faults < MaxFaults \* bound: what is persisted later is never read
  /\ persisted' \in {{shown}, {}}
  /\ UNCHANGED <<serverVars, sqlite, stored, asked, shown, toggle, toggles, outdated,
                 eventVars, faults, spoiled>>

\* The list is loaded anew: the network is back, or it had left memory. A toggle cancels
\* the load that it overlaps, but not the import.
Reload ==
  /\ toggles < MaxToggles /\ toggles' = toggles + 1
  /\ UNCHANGED <<serverVars, stored, asked, persisted, toggle, eventVars>>
  /\ \/ /\ sqlite' = Kept /\ shown' = Kept /\ outdated' = FALSE
        /\ Spoils(IF sqlite = {} /\ \E t \in Toggle : toggle[t].at \notin {"idle", "load"}
                  THEN {"list"} ELSE {})
        /\ UNCHANGED faults
     \/ /\ shown' = stored /\ Spoils({"list"}) /\ Fault
        /\ UNCHANGED <<sqlite, outdated>>

\* The app ends and starts again. It shows the persisted list, which nothing reloads as
\* long as it is there; or none is, or one of another day or version, which is removed, and
\* the list is loaded. The warm-up of the start loads it for itself in any case.
Restart ==
  /\ Fault
  /\ toggle' = [t \in Toggle |-> Idle]
  /\ asked' = <<>>
  /\ drain' = [d \in Drain |-> {}]
  /\ sender' = [r \in Request |-> "none"]
  /\ sqlite' = Kept
  /\ \/ shown' \in persisted /\ persisted' = persisted
     \/ shown' = Kept /\ persisted' = {}
  /\ outdated' = (shown' # Kept)
  /\ Spoils(IF \/ \E t \in Toggle : toggle[t].at # "idle"
               \/ \E r \in Request : sender[r] = "direct"
            THEN {"event"} ELSE {})
  /\ UNCHANGED <<serverVars, stored, queue, toggles, rows>>

ServerStep(r) ==
  /\ Serve(r)
  /\ UNCHANGED <<listVars, eventVars, faults, spoiled>>

\* Somebody else's app
Other(r, action) ==
  /\ sender[r] = "none" /\ toggles < MaxToggles
  /\ \E s \in Subject \ {Me} : Called(r, s, action)
  /\ toggles' = toggles + 1
  /\ UNCHANGED <<sqlite, stored, asked, shown, persisted, toggle, outdated, eventVars,
                 faults, spoiled>>

Next ==
  \/ \E t \in Toggle :
       \/ \E team \in Team : Tap(t, team)
       \/ Load(t) \/ Legacy(t) \/ Stored(t)
  \/ \E r \in Request :
       \/ Reply(r) \/ GiveUp(r) \/ ServerStep(r)
       \/ \E action \in Action : Other(r, action)
  \/ \E d \in Drain : StartDrain(d) \/ SendRow(d)
  \/ Flush \/ Reload \/ Restart

Spec == Init /\ [][Next]_vars

-----------------------------------------------------------------------------
(* Properties *)

Rest == \A t \in Toggle : toggle[t].at = "idle"

\* Once every toggle is over, the teams shown are those that are kept, whatever toggles
\* overlapped, were run a second time because AsyncStorage failed once, or were cut by the
\* end of the app. Out is an app that started with a persisted list that was another one
\* (it had ended before MMKV was written) and has toggled and reloaded nothing since, and
\* a storage that fails for good: the list an older toggle has found shown then hides
\* what a newer one did.
ShownIsKept == Rest /\ "list" \notin spoiled /\ ~outdated => shown = Kept

\* Once nothing is on its way, the API counts this phone among the followers of the team
\* exactly when the phone follows it, whatever requests failed, were given up but went
\* on, or were sent twice by two drains at once; unless an event was lost with the app
\* or expired, or was sent before an earlier one had ended.
InStep ==
  Rest /\ ~Pending /\ spoiled = {} =>
    (Tracked \in sqlite <=> state[Me] = "followed")

===============================================================================
