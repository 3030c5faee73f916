------------------------- MODULE FollowedTeams_proofs -------------------------
(* Theorems about FollowsDiscovery and FollowedTeams, for any subjects, teams,    *)
(* requests, toggles and drains: the counters of a team, alone and with the app    *)
(* that posts; the list the app shows; and the phone and the API in step.          *)
EXTENDS FollowedTeams, FiniteSetTheorems, SequenceTheorems, TLAPS

\* What a transaction knows of its row: it holds the row as it found it, if there was one
Holds(r) == rowLock[req[r].subject] = r

Knows(r) ==
  /\ req[r].at \in {"upsert", "count", "commit"} =>
       /\ ChangesState(req[r].action, req[r].found)
       /\ req[r].found # "none" => Holds(r) /\ state[req[r].subject] = req[r].found
  /\ req[r].at \in {"count", "commit"} => Holds(r)

AllKnow == \A r \in Request : Knows(r)

\* The inductive invariant
Inv == ServerTypeOK /\ AllKnow /\ CountIsFollowers /\ CountsAgree

-----------------------------------------------------------------------------
(* The types *)

LEMMA NoEventType ==
  NoEvent \in [at : At, subject : Subject, action : Action, found : State] /\ NoEvent.at = "idle"
  BY SubjectAssumption DEF NoEvent, At, Action, State

LEMMA CountedType ==
  ASSUME NEW c \in [active : Nat, total : Nat, adds : Nat, removes : Nat], NEW action
  PROVE  Counted(c, action) \in [active : Nat, total : Nat, adds : Nat, removes : Nat]
  <1>1. CASE action = "follow"
    BY <1>1 DEF Counted
  <1>2. CASE action # "follow"
    <2>1. (IF c.active > 0 THEN c.active - 1 ELSE 0) \in Nat
      OBVIOUS
    <2> QED BY <1>2, <2>1 DEF Counted
  <1> QED BY <1>1, <1>2

LEMMA TypesAreKept ==
  ASSUME ServerTypeOK, [ServerNext]_serverVars PROVE ServerTypeOK'
  <1>1. CASE UNCHANGED serverVars
    BY <1>1 DEF serverVars, ServerTypeOK
  <1>2. ASSUME NEW r \in Request, NEW s \in Subject, NEW action \in Action, Called(r, s, action)
        PROVE  ServerTypeOK'
    BY <1>2 DEF ServerTypeOK, Called, At, Statement, State
  <1>3. ASSUME NEW r \in Request, Select(r) PROVE ServerTypeOK'
    BY <1>3 DEF ServerTypeOK, Select, At, Statement
  <1>4. ASSUME NEW r \in Request, Upsert(r) PROVE ServerTypeOK'
    BY <1>4 DEF ServerTypeOK, Upsert, MovesTo, At, Statement
  <1>5. ASSUME NEW r \in Request, Count(r) PROVE ServerTypeOK'
    BY <1>5 DEF ServerTypeOK, Count, MovesTo, At, Statement
  <1>6. ASSUME NEW r \in Request, Commit(r) PROVE ServerTypeOK'
    <2>1. counts' \in [active : Nat, total : Nat, adds : Nat, removes : Nat]
      BY <1>6, CountedType DEF Commit, ServerTypeOK
    <2>2. state' \in [Subject -> State]
      BY <1>6 DEF Commit, ServerTypeOK, Outcome, State
    <2> QED BY <1>6, <2>1, <2>2 DEF ServerTypeOK, Commit, Release, MovesTo, At, Statement
  <1>7. ASSUME NEW r \in Request, Rollback(r) PROVE ServerTypeOK'
    BY <1>7 DEF ServerTypeOK, Rollback, Release, MovesTo, At, Statement
  <1>8. ASSUME NEW r \in Request, Over(r) PROVE ServerTypeOK'
    BY <1>8, NoEventType DEF ServerTypeOK, Over
  <1> QED
    BY <1>1, <1>2, <1>3, <1>4, <1>5, <1>6, <1>7, <1>8 DEF ServerNext, Serve

-----------------------------------------------------------------------------
(* The locks *)

\* A step of one request leaves another's row alone: it writes the row it holds only
LEMMA KnowledgeIsKept ==
  ASSUME ServerTypeOK, AllKnow, NEW r \in Request,
         \/ \E s \in Subject, action \in Action : Called(r, s, action)
         \/ Serve(r) \/ Over(r)
  PROVE  AllKnow'
  <1> SUFFICES ASSUME NEW q \in Request PROVE Knows(q)'
    BY DEF AllKnow
  <1> USE DEF ServerTypeOK, Holds
  <1>1. Knows(q) /\ Knows(r)
    BY DEF AllKnow
  <1>2. r # NoRequest /\ q # NoRequest
    BY RequestAssumption
  <1>3. ASSUME NEW s \in Subject, NEW action \in Action, Called(r, s, action) PROVE Knows(q)'
    BY <1>1, <1>3 DEF Called, Knows
  <1>4. CASE Select(r)
    <2>1. CASE q = r
      BY <1>2, <1>4, <2>1 DEF Select, Knows, Locks
    <2>2. CASE q # r
      <3>1. req'[q] = req[q] /\ state' = state
        BY <1>4, <2>2 DEF Select
      <3>2. Holds(q) => Holds(q)'
        <4> SUFFICES ASSUME rowLock[req[q].subject] = q
                     PROVE  rowLock'[req[q].subject] = q
          BY <3>1
        <4>1. req[q].subject \notin Locks(r)
          BY <1>2, <1>4, <2>2 DEF Select, Free
        <4> QED BY <1>4, <4>1 DEF Select
      <3> QED BY <1>1, <3>1, <3>2 DEF Knows
    <2> QED BY <2>1, <2>2
  <1>5. CASE Upsert(r)
    <2>1. CASE q = r
      BY <1>1, <1>5, <2>1 DEF Upsert, MovesTo, Knows
    <2>2. CASE q # r
      <3>1. req'[q] = req[q] /\ state' = state
        BY <1>5, <2>2 DEF Upsert, MovesTo
      <3>2. Holds(q) => Holds(q)'
        BY <1>2, <1>5, <2>2, <3>1 DEF Upsert, Free
      <3> QED BY <1>1, <3>1, <3>2 DEF Knows
    <2> QED BY <2>1, <2>2
  <1>6. CASE Count(r)
    BY <1>1, <1>6 DEF Count, MovesTo, Knows
  <1>7. CASE Commit(r)
    <2>1. CASE q = r
      BY <1>7, <2>1 DEF Commit, MovesTo, Knows
    <2>2. CASE q # r
      <3>1. req'[q] = req[q]
        BY <1>7, <2>2 DEF Commit, MovesTo
      <3>2. Holds(q) => Holds(q)'
        BY <1>7, <2>2, <3>1 DEF Commit, Release
      <3>3. Holds(q) => state'[req[q].subject] = state[req[q].subject]
        <4>1. Holds(r)
          BY <1>1, <1>7 DEF Commit, Knows
        <4> QED BY <1>7, <2>2, <4>1 DEF Commit
      <3> QED BY <1>1, <3>1, <3>2, <3>3 DEF Knows
    <2> QED BY <2>1, <2>2
  <1>8. CASE Rollback(r)
    <2>1. CASE q = r
      BY <1>8, <2>1 DEF Rollback, MovesTo, Knows
    <2>2. CASE q # r
      <3>1. req'[q] = req[q] /\ state' = state
        BY <1>8, <2>2 DEF Rollback, MovesTo
      <3>2. Holds(q) => Holds(q)'
        BY <1>8, <2>2, <3>1 DEF Rollback, Release
      <3> QED BY <1>1, <3>1, <3>2 DEF Knows
    <2> QED BY <2>1, <2>2
  <1>9. CASE Over(r)
    BY <1>1, <1>9, NoEventType DEF Over, Knows
  <1> QED BY <1>3, <1>4, <1>5, <1>6, <1>7, <1>8, <1>9 DEF Serve

-----------------------------------------------------------------------------
(* The counters *)

LEMMA FollowersFinite == IsFiniteSet(Followers) /\ Cardinality(Followers) \in Nat
  <1>1. Followers \in SUBSET Subject
    BY DEF Followers
  <1>2. IsFiniteSet(Followers)
    BY <1>1, SubjectAssumption, FS_Subset
  <1> QED BY <1>2, FS_CardinalityType

\* A commit counts what it changes: only a follow that found no row may be one too many
LEMMA CommitCounts ==
  ASSUME ServerTypeOK, AllKnow, CountIsFollowers, CountsAgree, NEW r \in Request, Commit(r)
  PROVE  CountIsFollowers' /\ CountsAgree'
  <1> DEFINE s == req[r].subject
  <1>1. /\ s \in Subject /\ req[r].action \in {"follow", "unfollow"}
        /\ counts.active \in Nat /\ counts.total \in Nat /\ counts.adds \in Nat
        /\ counts.removes \in Nat /\ doubled \in Nat
    BY DEF ServerTypeOK, Action
  <1>2. /\ ChangesState(req[r].action, req[r].found)
        /\ req[r].found # "none" => state[s] = req[r].found
    BY DEF AllKnow, Knows, Commit
  <1>3. counts.active = Cardinality(Followers) + doubled /\ Cardinality(Followers) \in Nat
    BY FollowersFinite DEF CountIsFollowers
  <1>4. CASE req[r].action = "follow"
    <2>1. /\ state' = [state EXCEPT ![s] = "followed"]
          /\ counts'.active = counts.active + 1 /\ counts'.total = counts.total + 1
          /\ counts'.adds = counts.adds + 1 /\ counts'.removes = counts.removes
      BY <1>4 DEF Commit, Counted, Outcome
    <2>2. Followers' = Followers \cup {s}
      BY <1>1, <2>1 DEF Followers, ServerTypeOK
    <2>3. Cardinality(Followers')
            = IF s \in Followers THEN Cardinality(Followers) ELSE Cardinality(Followers) + 1
      BY <2>2, FollowersFinite, FS_AddElement
    <2>4. doubled' = IF s \in Followers THEN doubled + 1 ELSE doubled
      <3>1. s \in Followers <=> state[s] = "followed"
        BY <1>1 DEF Followers
      <3>2. state[s] = "followed" => req[r].found = "none"
        BY <1>2, <1>4 DEF ChangesState
      <3> QED BY <1>4, <3>1, <3>2 DEF Commit, Outcome
    <2> QED BY <1>1, <1>3, <2>1, <2>3, <2>4 DEF CountIsFollowers, CountsAgree
  <1>5. CASE req[r].action = "unfollow"
    <2>1. req[r].found = "followed" /\ state[s] = "followed"
      BY <1>2, <1>5 DEF ChangesState
    <2>2. s \in Followers
      BY <1>1, <2>1 DEF Followers
    <2>3. state' = [state EXCEPT ![s] = "unfollowed"] /\ doubled' = doubled
      BY <1>5, <2>1 DEF Commit, Outcome
    <2>4. Followers' = Followers \ {s}
      BY <1>1, <2>3 DEF Followers, ServerTypeOK
    <2>5. Cardinality(Followers') = Cardinality(Followers) - 1
      BY <2>2, <2>4, FollowersFinite, FS_RemoveElement
    <2>6. Cardinality(Followers) > 0
      BY <2>2, FollowersFinite, FS_EmptySet
    <2>7. /\ counts'.active = counts.active - 1 /\ counts'.total = counts.total
          /\ counts'.adds = counts.adds /\ counts'.removes = counts.removes + 1
      <3>1. counts.active > 0
        BY <1>1, <1>3, <2>6
      <3> QED BY <1>5, <3>1 DEF Commit, Counted
    <2> QED BY <1>1, <1>3, <2>3, <2>5, <2>7 DEF CountIsFollowers, CountsAgree
  <1> QED BY <1>1, <1>4, <1>5

LEMMA ServerStart == ServerInit => Inv
  <1> SUFFICES ASSUME ServerInit PROVE Inv
    OBVIOUS
  <1>1. ServerTypeOK /\ AllKnow
    BY NoEventType DEF ServerInit, ServerTypeOK, AllKnow, Knows, State
  <1>2. Followers = {}
    BY DEF Followers, ServerInit
  <1>3. counts = [active |-> 0, total |-> 0, adds |-> 0, removes |-> 0] /\ doubled = 0
    BY DEF ServerInit
  <1>4. CountIsFollowers
    BY <1>2, <1>3, FS_EmptySet DEF CountIsFollowers
  <1> QED BY <1>1, <1>3, <1>4 DEF Inv, CountsAgree

LEMMA ServerKeeps == Inv /\ [ServerNext]_serverVars => Inv'
  <1> SUFFICES ASSUME Inv, [ServerNext]_serverVars PROVE Inv'
    OBVIOUS
  <1>1. ServerTypeOK'
    BY TypesAreKept DEF Inv
  <1>2. CASE UNCHANGED serverVars
    BY <1>1, <1>2 DEF serverVars, Inv, AllKnow, Knows, Holds, CountIsFollowers, CountsAgree,
                       Followers
  <1>3. ASSUME NEW r \in Request,
               \/ \E s \in Subject, action \in Action : Called(r, s, action)
               \/ Serve(r) \/ Over(r)
        PROVE  Inv'
    <2>1. AllKnow'
      BY <1>3, KnowledgeIsKept DEF Inv
    <2>2. CountIsFollowers' /\ CountsAgree'
      <3>1. CASE Commit(r)
        BY <3>1, CommitCounts DEF Inv
      <3>2. CASE ~Commit(r)
        <4>1. UNCHANGED <<state, counts, doubled>>
          BY <1>3, <3>2 DEF Serve, Called, Select, Upsert, Count, Rollback, Over
        <4> QED BY <4>1 DEF Inv, CountIsFollowers, CountsAgree, Followers
      <3> QED BY <3>1, <3>2
    <2> QED BY <1>1, <2>1, <2>2 DEF Inv
  <1> QED BY <1>2, <1>3 DEF ServerNext

\* The API alone: whoever calls it and in whatever order, the counters of a team do not
\* drift from its followers but by first follows that were counted twice (recordEvent).
THEOREM ServerCounts == ServerSpec => []CountIsFollowers /\ []CountsAgree
  <1>1. ServerInit => Inv
    BY ServerStart
  <1>2. Inv /\ [ServerNext]_serverVars => Inv'
    BY ServerKeeps
  <1>3. Inv => CountIsFollowers /\ CountsAgree
    BY DEF Inv
  <1> QED BY <1>1, <1>2, <1>3, PTL DEF ServerSpec

-----------------------------------------------------------------------------
(* The app and the API *)

LEMMA SpoilType ==
  ASSUME FaultTypeOK, NEW what \in SUBSET Spoil,
         Spoils(what) \/ spoiled' = spoiled, Fault \/ faults' = faults
  PROVE  FaultTypeOK'
  BY MaxAssumption DEF FaultTypeOK, Spoils, Fault

LEMMA BecomesType ==
  ASSUME toggle \in [Toggle -> ToggleState], NEW t \in Toggle,
         NEW at \in {"idle", "load", "legacy", "fallback", "stored"},
         NEW list \in SUBSET Team, NEW again \in BOOLEAN,
         Becomes(t, at, list, again) \/ Ends(t)
  PROVE  toggle' \in [Toggle -> ToggleState]
  <1>1. Idle \in ToggleState
    BY TrackedAssumption DEF Idle, ToggleState
  <1> DEFINE s == [at |-> at, team |-> toggle[t].team, previous |-> toggle[t].previous,
                   list |-> list, again |-> again]
  <1>2. s \in ToggleState
    BY DEF ToggleState
  <1> HIDE DEF s
  <1>3. toggle' = [toggle EXCEPT ![t] = s] \/ toggle' = [toggle EXCEPT ![t] = Idle]
    BY DEF Becomes, Ends, s
  <1> QED BY <1>1, <1>2, <1>3

LEMMA AsksType ==
  ASSUME asked \in Seq(Toggle), NEW t \in Toggle, asked # <<>>
  PROVE  Append(asked, t) \in Seq(Toggle) /\ Tail(asked) \in Seq(Toggle)
         /\ Append(Tail(asked), t) \in Seq(Toggle)
  OBVIOUS

LEMMA DecideType ==
  ASSUME ListTypeOK, FaultTypeOK, NEW t \in Toggle, NEW ids \in SUBSET Team,
         NEW table \in SUBSET Team, NEW queued \in Seq(Toggle), NEW what \in SUBSET Spoil,
         Decide(t, ids, table, queued, what), toggles' = toggles
  PROVE  ListTypeOK' /\ FaultTypeOK'
  <1> DEFINE list == Toggled(ids, toggle[t].team)
  <1>1. list \in SUBSET Team
    <2>1. toggle[t].team \in Team
      BY DEF ListTypeOK, ToggleState
    <2> QED BY <2>1 DEF Toggled
  <1>2. /\ sqlite' \in SUBSET Team /\ shown' \in SUBSET Team /\ stored' \in SUBSET Team
        /\ persisted' \in SUBSET SUBSET Team /\ outdated' \in BOOLEAN
    BY <1>1 DEF Decide, ListTypeOK
  <1>3. asked' \in Seq(Toggle)
    BY DEF Decide
  <1>4. toggle' \in [Toggle -> ToggleState]
    <2>1. toggle[t].again \in BOOLEAN /\ toggle \in [Toggle -> ToggleState]
      BY DEF ListTypeOK, ToggleState
    <2>2. Ends(t) \/ Becomes(t, "stored", list, toggle[t].again)
      BY DEF Decide
    <2> HIDE DEF list
    <2> QED BY <1>1, <2>1, <2>2, BecomesType
  <1>5. FaultTypeOK'
    <2>1. {"list"} \in SUBSET Spoil /\ what \cup Unsent(t) \in SUBSET Spoil
      BY DEF Spoil, Unsent
    <2> QED BY <2>1, SpoilType DEF Decide
  <1> QED BY <1>2, <1>3, <1>4, <1>5 DEF ListTypeOK

\* Whatever the app and its user do, the API sees a call of its own
LEMMA AppCalls ==
  ASSUME EventTypeOK, [Next]_vars PROVE [ServerNext]_serverVars
  <1>1. CASE UNCHANGED vars
    BY <1>1 DEF vars
  <1>2. ASSUME NEW t \in Toggle, NEW team \in Team, Tap(t, team) PROVE UNCHANGED serverVars
    BY <1>2 DEF Tap
  <1>3. ASSUME NEW t \in Toggle, Load(t) \/ Legacy(t) PROVE UNCHANGED serverVars
    BY <1>3 DEF Load, Legacy
  <1>4. ASSUME NEW t \in Toggle, Stored(t) PROVE [ServerNext]_serverVars
    <2>1. CASE UNCHANGED serverVars
      BY <2>1
    <2>2. CASE ~ UNCHANGED serverVars
      <3>1. PICK r \in Request, action \in Action : Called(r, Me, action)
        BY <1>4, <2>2 DEF Stored, Posts, Action
      <3> QED BY <3>1, TrackedAssumption DEF ServerNext
    <2> QED BY <2>1, <2>2
  <1>5. ASSUME NEW r \in Request, Reply(r) \/ GiveUp(r) \/ ServerStep(r)
        PROVE  [ServerNext]_serverVars
    BY <1>5 DEF Reply, GiveUp, ServerStep, ServerNext
  <1>6. ASSUME NEW r \in Request, NEW action \in Action, Other(r, action) PROVE ServerNext
    BY <1>6 DEF Other, ServerNext
  <1>7. ASSUME NEW d \in Drain, StartDrain(d) PROVE UNCHANGED serverVars
    BY <1>7 DEF StartDrain
  <1>8. ASSUME NEW d \in Drain, SendRow(d) PROVE ServerNext
    <2>1. PICK r \in Request, row \in Current(d) : Posts(r, row.action, d)
      BY <1>8 DEF SendRow
    <2>2. row.action \in Action
      BY <2>1 DEF Current, EventTypeOK, Row
    <2> QED BY <2>1, <2>2, TrackedAssumption DEF Posts, ServerNext
  <1>9. CASE Flush \/ Reload \/ Restart
    BY <1>9 DEF Flush, Reload, Restart
  <1> QED BY <1>1, <1>2, <1>3, <1>4, <1>5, <1>6, <1>7, <1>8, <1>9 DEF Next

LEMMA AttemptFailsType ==
  ASSUME ListTypeOK, NEW t \in Toggle, AttemptFails(t)
  PROVE  toggle' \in [Toggle -> ToggleState] /\ shown' \in SUBSET Team
  <1>1. toggle \in [Toggle -> ToggleState] /\ toggle[t].previous \in SUBSET Team
    BY DEF ListTypeOK, ToggleState
  <1>2. Ends(t) \/ Becomes(t, "load", {}, TRUE)
    BY DEF AttemptFails
  <1> QED BY <1>1, <1>2, BecomesType DEF AttemptFails, ListTypeOK

\* The steps of a toggle
LEMMA ListIsTyped ==
  ASSUME TypeOK, NEW t \in Toggle, NEW team \in Team, Tap(t, team) \/ Load(t) \/ Legacy(t)
  PROVE  ListTypeOK' /\ EventTypeOK' /\ FaultTypeOK'
  <1> USE DEF TypeOK
  <1>1. EventTypeOK'
    BY DEF Tap, Load, Legacy, eventVars, EventTypeOK
  <1>2. toggle \in [Toggle -> ToggleState] /\ toggle[t].again \in BOOLEAN
    BY DEF ListTypeOK, ToggleState
  <1>3. {"list"} \in SUBSET Spoil /\ {} \in SUBSET Spoil /\ Overlaps(t) \in SUBSET Spoil
    BY DEF Spoil, Overlaps
  <1>4. CASE Tap(t, team)
    <2>1. [at |-> "load", team |-> team, previous |-> shown, list |-> {}, again |-> FALSE]
            \in ToggleState
      BY DEF ListTypeOK, ToggleState
    <2>2. toggle' \in [Toggle -> ToggleState]
      BY <1>2, <1>4, <2>1 DEF Tap
    <2>3. shown' \in SUBSET Team
      BY <1>4 DEF Tap, Toggled, ListTypeOK
    <2>4. toggles' \in 0 .. MaxToggles
      BY <1>4, MaxAssumption DEF Tap, ListTypeOK
    <2> QED BY <1>1, <1>4, <2>2, <2>3, <2>4 DEF Tap, ListTypeOK, FaultTypeOK
  <1>5. CASE Load(t)
    <2>1. CASE Decide(t, sqlite, sqlite, asked, {})
      <3>1. sqlite \in SUBSET Team /\ asked \in Seq(Toggle) /\ toggles' = toggles
        BY <1>5 DEF ListTypeOK, Load
      <3> QED BY <1>1, <1>3, <2>1, <3>1, DecideType
    <2>2. CASE ~Decide(t, sqlite, sqlite, asked, {})
      <3>1. Goes(t, "legacy") \/ Goes(t, "fallback")
        BY <1>5, <2>2 DEF Load
      <3>2. toggle' \in [Toggle -> ToggleState]
        BY <1>2, <3>1, BecomesType DEF Goes
      <3>3. asked' \in Seq(Toggle) /\ UNCHANGED <<sqlite, stored, shown, persisted, outdated, toggles>>
        BY <1>5, <2>2 DEF Load, ListTypeOK
      <3>4. FaultTypeOK'
        BY <1>3, <1>5, <2>2, SpoilType DEF Load
      <3> QED BY <1>1, <3>2, <3>3, <3>4 DEF ListTypeOK
    <2> QED BY <2>1, <2>2
  <1>6. CASE Legacy(t)
    <2> DEFINE table == IF toggle[t].at = "legacy" /\ stored # {} THEN stored ELSE sqlite
    <2>1. /\ stored \in SUBSET Team /\ table \in SUBSET Team /\ Tail(asked) \in Seq(Toggle)
          /\ Append(Tail(asked), t) \in Seq(Toggle) /\ toggles' = toggles
      BY <1>6, AsksType DEF ListTypeOK, Legacy, Answered
    <2>2. CASE Decide(t, stored, table, Tail(asked), Overlaps(t))
      <3> HIDE DEF table
      <3> QED BY <1>1, <1>3, <2>1, <2>2, DecideType
    <2>3. CASE ~Decide(t, stored, table, Tail(asked), Overlaps(t))
      <3>1. /\ Spoils({"list"}) /\ Fault /\ UNCHANGED <<sqlite, stored, persisted, outdated>>
            /\ IF toggle[t].at = "legacy"
               THEN Goes(t, "fallback") /\ asked' = Append(Tail(asked), t) /\ shown' = shown
               ELSE AttemptFails(t) /\ asked' = Tail(asked)
        BY <1>6, <2>3 DEF Legacy
      <3>2. asked' \in Seq(Toggle)
        BY <2>1, <3>1
      <3>3. toggle' \in [Toggle -> ToggleState] /\ shown' \in SUBSET Team
        BY <1>2, <3>1, BecomesType, AttemptFailsType DEF Goes, ListTypeOK
      <3>4. FaultTypeOK'
        BY <1>3, <3>1, SpoilType
      <3> QED BY <1>1, <2>1, <3>1, <3>2, <3>3, <3>4 DEF ListTypeOK
    <2> QED BY <2>2, <2>3
  <1> QED BY <1>4, <1>5, <1>6

LEMMA StoredIsTyped ==
  ASSUME TypeOK, NEW t \in Toggle, Stored(t)
  PROVE  ListTypeOK' /\ EventTypeOK' /\ FaultTypeOK'
  <1> USE DEF TypeOK
  <1>1. asked' \in Seq(Toggle) /\ UNCHANGED <<sqlite, persisted, queue, drain, rows, toggles>>
    BY AsksType DEF Stored, Answered, ListTypeOK
  <1>2. toggle \in [Toggle -> ToggleState] /\ toggle[t].list \in SUBSET Team
    BY DEF ListTypeOK, ToggleState
  <1>3. stored' \in SUBSET Team /\ shown' \in SUBSET Team /\ outdated' \in BOOLEAN
    BY <1>2, AttemptFailsType DEF Stored, ListTypeOK
  <1>4. toggle' \in [Toggle -> ToggleState]
    <2>1. Ends(t) \/ AttemptFails(t)
      BY DEF Stored
    <2> QED BY <1>2, <2>1, BecomesType, AttemptFailsType
  <1>5. sender' \in [Request -> {"none", "direct"} \cup Drain]
    BY DEF Stored, Posts, EventTypeOK
  <1>6. FaultTypeOK'
    <2>1. /\ \/ Spoils({"order"}) \/ Spoils({"list"}) \/ Spoils({}) \/ spoiled' = spoiled
          /\ Fault \/ faults' = faults
      BY DEF Stored
    <2>2. {"order"} \in SUBSET Spoil /\ {"list"} \in SUBSET Spoil /\ {} \in SUBSET Spoil
      BY DEF Spoil
    <2> QED BY <2>1, <2>2, SpoilType
  <1> QED BY <1>1, <1>3, <1>4, <1>5, <1>6 DEF ListTypeOK, EventTypeOK

\* The steps of the queue and of the requests
LEMMA RepliesAreTyped ==
  ASSUME TypeOK, NEW r \in Request, Reply(r) \/ GiveUp(r)
  PROVE  ListTypeOK' /\ EventTypeOK' /\ FaultTypeOK'
  <1> USE DEF TypeOK
  <1>1. ListTypeOK'
    BY DEF Reply, GiveUp, listVars, ListTypeOK
  <1>2. FaultTypeOK'
    BY SpoilType DEF Reply, GiveUp, Spoil
  <1>3. PICK ok \in BOOLEAN : Resolves(r, ok)
    BY DEF Reply, GiveUp
  <1>4. sender' \in [Request -> {"none", "direct"} \cup Drain]
    BY <1>3 DEF Resolves, EventTypeOK
  <1>5. CASE UNCHANGED <<queue, drain, rows>>
    BY <1>1, <1>2, <1>4, <1>5 DEF EventTypeOK
  <1>6. CASE /\ rows' = rows + 1 /\ drain' = drain
             /\ queue' = queue \cup {[id |-> rows + 1, action |-> req[r].action, retries |-> 0]}
    <2>1. [id |-> rows + 1, action |-> req[r].action, retries |-> 0] \in Row
      BY DEF EventTypeOK, ServerTypeOK, Row
    <2> QED BY <1>1, <1>2, <1>4, <1>6, <2>1 DEF EventTypeOK
  <1>7. ASSUME NEW row \in Current(sender[r]), sender[r] \in Drain,
               drain' = [drain EXCEPT ![sender[r]] = @ \ {row}],
               queue' = IF ok THEN Deleted(row.id) ELSE Retried(row.id),
               rows' = rows
        PROVE  EventTypeOK'
    <2>1. drain' \in [Drain -> SUBSET Row]
      BY <1>7 DEF EventTypeOK
    <2>2. Deleted(row.id) \in SUBSET Row
      BY DEF Deleted, EventTypeOK
    <2>3. \A x \in queue : [x EXCEPT !.retries = @ + 1] \in Row
      BY DEF EventTypeOK, Row
    <2>4. Retried(row.id) \in SUBSET Row
      BY <2>2, <2>3 DEF Retried
    <2> QED BY <1>4, <1>7, <2>1, <2>2, <2>4 DEF EventTypeOK
  <1> QED BY <1>1, <1>2, <1>3, <1>5, <1>6, <1>7 DEF Resolves

LEMMA DrainsAreTyped ==
  ASSUME TypeOK, NEW d \in Drain, StartDrain(d) \/ SendRow(d)
  PROVE  ListTypeOK' /\ EventTypeOK' /\ FaultTypeOK'
  <1> USE DEF TypeOK
  <1>1. ListTypeOK'
    BY DEF StartDrain, SendRow, listVars, ListTypeOK
  <1>2. FaultTypeOK'
    <2>1. /\ Spoils({"event"}) \/ Spoils({}) \/ spoiled' = spoiled
          /\ Fault \/ faults' = faults
      BY DEF StartDrain, SendRow
    <2>2. {"event"} \in SUBSET Spoil /\ {} \in SUBSET Spoil
      BY DEF Spoil
    <2> QED BY <2>1, <2>2, SpoilType
  <1>3. CASE StartDrain(d)
    BY <1>1, <1>2, <1>3 DEF StartDrain, EventTypeOK
  <1>4. CASE SendRow(d)
    BY <1>1, <1>2, <1>4 DEF SendRow, Posts, EventTypeOK
  <1> QED BY <1>1, <1>2, <1>3, <1>4

\* The query cache is persisted, or the list loaded anew
LEMMA CacheIsTyped ==
  ASSUME TypeOK, Flush \/ Reload
  PROVE  ListTypeOK' /\ EventTypeOK' /\ FaultTypeOK'
  <1> USE DEF TypeOK
  <1>1. EventTypeOK'
    BY DEF Flush, Reload, eventVars, EventTypeOK
  <1>2. CASE Flush
    BY <1>1, <1>2 DEF Flush, ListTypeOK, FaultTypeOK
  <1>3. CASE Reload
    <2>1. ListTypeOK'
      <3>1. UNCHANGED <<stored, asked, persisted, toggle>>
        BY <1>3 DEF Reload
      <3>2. sqlite' \in SUBSET Team /\ shown' \in SUBSET Team /\ outdated' \in BOOLEAN
        BY <1>3 DEF Reload, Kept, ListTypeOK
      <3>3. toggles' \in 0 .. MaxToggles
        <4>1. toggles \in Nat /\ MaxToggles \in Nat /\ toggles < MaxToggles /\ toggles' = toggles + 1
          BY <1>3, MaxAssumption DEF Reload, ListTypeOK
        <4> QED BY <4>1
      <3> QED BY <3>1, <3>2, <3>3 DEF ListTypeOK
    <2>2. /\ Spoils({"list"}) \/ Spoils({})
          /\ Fault \/ faults' = faults
      BY <1>3 DEF Reload
    <2>3. {"list"} \in SUBSET Spoil /\ {} \in SUBSET Spoil
      BY DEF Spoil
    <2>4. FaultTypeOK'
      BY <2>2, <2>3, SpoilType
    <2> QED BY <1>1, <2>1, <2>4
  <1> QED BY <1>2, <1>3

LEMMA AppKeepsTypes ==
  ASSUME TypeOK, [Next]_vars PROVE TypeOK'
  <1>1. ServerTypeOK'
    BY AppCalls, TypesAreKept DEF TypeOK
  <1> SUFFICES ListTypeOK' /\ EventTypeOK' /\ FaultTypeOK'
    BY <1>1 DEF TypeOK
  <1> USE DEF TypeOK
  <1>2. CASE UNCHANGED vars
    BY <1>2 DEF vars, listVars, eventVars, ListTypeOK, EventTypeOK, FaultTypeOK
  <1>3. ASSUME NEW t \in Toggle, NEW team \in Team, Tap(t, team)
        PROVE  ListTypeOK' /\ EventTypeOK' /\ FaultTypeOK'
    BY <1>3, ListIsTyped
  <1>4. ASSUME NEW t \in Toggle, Load(t) \/ Legacy(t)
        PROVE  ListTypeOK' /\ EventTypeOK' /\ FaultTypeOK'
    BY <1>4, ListIsTyped, TrackedAssumption
  <1>5. ASSUME NEW t \in Toggle, Stored(t)
        PROVE  ListTypeOK' /\ EventTypeOK' /\ FaultTypeOK'
    BY <1>5, StoredIsTyped
  <1>6. ASSUME NEW r \in Request, Reply(r) \/ GiveUp(r)
        PROVE  ListTypeOK' /\ EventTypeOK' /\ FaultTypeOK'
    BY <1>6, RepliesAreTyped
  <1>7. ASSUME NEW r \in Request, ServerStep(r)
        PROVE  ListTypeOK' /\ EventTypeOK' /\ FaultTypeOK'
    BY <1>7 DEF ServerStep, listVars, eventVars, ListTypeOK, EventTypeOK, FaultTypeOK
  <1>8. ASSUME NEW r \in Request, NEW action \in Action, Other(r, action)
        PROVE  ListTypeOK' /\ EventTypeOK' /\ FaultTypeOK'
    BY <1>8, MaxAssumption DEF Other, eventVars, ListTypeOK, EventTypeOK, FaultTypeOK
  <1>9. ASSUME NEW d \in Drain, StartDrain(d) \/ SendRow(d)
        PROVE  ListTypeOK' /\ EventTypeOK' /\ FaultTypeOK'
    BY <1>9, DrainsAreTyped
  <1>10. CASE Restart
    <2>1. Idle \in ToggleState
      BY TrackedAssumption DEF Idle, ToggleState
    <2>2. ListTypeOK'
      BY <1>10, <2>1 DEF Restart, Kept, ListTypeOK
    <2>3. EventTypeOK'
      BY <1>10 DEF Restart, EventTypeOK
    <2>4. Spoils({"event"}) \/ Spoils({})
      BY <1>10 DEF Restart
    <2>5. {"event"} \in SUBSET Spoil /\ {} \in SUBSET Spoil
      BY DEF Spoil
    <2>6. FaultTypeOK'
      BY <1>10, <2>4, <2>5, SpoilType DEF Restart
    <2> QED BY <2>2, <2>3, <2>6
  <1>11. CASE Flush \/ Reload
    BY <1>11, CacheIsTyped
  <1> QED BY <1>2, <1>3, <1>4, <1>5, <1>6, <1>7, <1>8, <1>9, <1>10, <1>11 DEF Next

LEMMA AppStart == Init => TypeOK /\ ServerInit
  <1> SUFFICES ASSUME Init PROVE TypeOK /\ ServerInit
    OBVIOUS
  <1>1. ServerTypeOK
    BY ServerStart DEF Init, Inv
  <1>2. Idle \in ToggleState
    BY TrackedAssumption DEF Idle, ToggleState
  <1>3. ListTypeOK
    <2>1. sqlite \in SUBSET Team /\ stored \in SUBSET Team /\ shown \in SUBSET Team
      BY DEF Init
    <2>2. asked \in Seq(Toggle)
      BY DEF Init
    <2>3. outdated \in BOOLEAN
      BY DEF Init
    <2>4. toggles \in 0 .. MaxToggles
      BY MaxAssumption DEF Init
    <2>5. toggle \in [Toggle -> ToggleState]
      BY <1>2 DEF Init
    <2>6. persisted \in SUBSET SUBSET Team
      BY DEF Init
    <2> QED BY <2>1, <2>2, <2>3, <2>4, <2>5, <2>6 DEF ListTypeOK
  <1>4. EventTypeOK /\ FaultTypeOK
    BY MaxAssumption DEF Init, EventTypeOK, FaultTypeOK
  <1> QED BY <1>1, <1>3, <1>4 DEF Init, TypeOK

\* Every variable of the app and of the API stays in its type.
THEOREM AppIsTyped == Spec => []TypeOK
  <1>1. Init => TypeOK
    BY AppStart
  <1>2. TypeOK /\ [Next]_vars => TypeOK'
    BY AppKeepsTypes
  <1> QED BY <1>1, <1>2, PTL DEF Spec

\* The app with the API behaves, for the API, as calls do: what the API promises its callers
\* holds of the app, whatever it gives up, sends twice or sends out of order.
THEOREM AppIsACaller == Spec => ServerSpec
  <1>1. Init => ServerInit
    BY AppStart
  <1>2. TypeOK /\ [Next]_vars => [ServerNext]_serverVars
    BY AppCalls DEF TypeOK
  <1> QED BY <1>1, <1>2, AppIsTyped, PTL DEF Spec, ServerSpec

\* The number of followers a team shows drifts only by first follows counted twice, and the
\* aggregate never disagrees with the statistics of the days (recordEvent).
THEOREM FollowersAreCounted == Spec => []CountIsFollowers /\ []CountsAgree
  BY AppIsACaller, ServerCounts

-----------------------------------------------------------------------------
(* The list: the parts of the invariants *)

Place == 1 .. Len(asked)
Keeps(i) == toggle[asked[i]].at = "stored"
List(i) == toggle[asked[i]].list
KeepsTracked(i) == Keeps(i) /\ toggle[asked[i]].team = Tracked

\* AsyncStorage answers a toggle once, and whoever it answers waits for it
InTurn ==
  /\ \A i \in Place : toggle[asked[i]].at \in {"legacy", "fallback", "stored"}
  /\ \A i, j \in Place : asked[i] = asked[j] => i = j

\* The last list that AsyncStorage is asked to keep is that of SQLite, and SQLite has none
\* as long as a toggle waits for the one to import, unless a later toggle has made one
LastIsKept ==
  "list" \notin spoiled =>
    /\ \A t \in Toggle : toggle[t].at # "fallback"
    /\ \A i \in Place : Keeps(i) =>
         List(i) = sqlite \/ \E j \in Place : j > i /\ Keeps(j)
    /\ \A i \in Place : toggle[asked[i]].at = "legacy" =>
         sqlite = {} \/ \E j \in Place : j > i /\ Keeps(j)

ListInv == TypeOK /\ InTurn /\ LastIsKept /\ ShownIsKept

-----------------------------------------------------------------------------
(* The events *)

Follows == Tracked \in sqlite

\* A toggle of the team that has failed once and is to make its list anew
Anew == \E t \in Toggle : toggle[t].team = Tracked /\ toggle[t].again /\ toggle[t].at \in {"load", "legacy"}

\* told: the team is followed, by the last event that was posted
ListTells(told) ==
  ~Anew =>
    /\ \A i \in Place : Keeps(i) =>
         (Tracked \in List(i) <=> Follows) \/ \E j \in Place : j > i /\ KeepsTracked(j)
    /\ \/ \E i \in Place : KeepsTracked(i)
       \/ (told <=> Follows) /\ (Tracked \in stored <=> Follows)

Means(action, told) == action = IF told THEN "follow" ELSE "unfollow"
Done(told) == state[Me] = "followed" <=> told

UnderWay(r) == sender[r] # "none" \/ (req[r].at \in Statement /\ req[r].subject = Me)

OwnSender == \A r \in Request : sender[r] # "none" => req[r].at # "idle" /\ req[r].subject = Me

ApiLearns(told) ==
  /\ \A r \in Request : UnderWay(r) => Means(req[r].action, told)
  /\ \A row \in queue : Means(row.action, told)
  /\ \A d \in Drain : \A row \in drain[d] : Means(row.action, told)
  /\ \A r \in Request : sender[r] # "none" /\ req[r].at = "answered" => Done(told)
  /\ Done(told) \/ queue # {} \/ \E r \in Request : sender[r] = "direct"

Told == spoiled = {} => OwnSender /\ \E told \in BOOLEAN : ListTells(told) /\ ApiLearns(told)

StepInv == ListInv /\ Told

-----------------------------------------------------------------------------
(* How the list moves *)

\* Other toggles are where they were
LEMMA BecomesWhere ==
  ASSUME TypeOK, NEW t \in Toggle, NEW at, NEW list, NEW again, Becomes(t, at, list, again)
  PROVE  /\ toggle'[t].at = at /\ toggle'[t].team = toggle[t].team
         /\ toggle'[t].previous = toggle[t].previous
         /\ toggle'[t].list = list /\ toggle'[t].again = again
         /\ \A u \in Toggle \ {t} : toggle'[u] = toggle[u]
  <1>1. toggle \in [Toggle -> ToggleState]
    BY DEF TypeOK, ListTypeOK
  <1> DEFINE s == [at |-> at, team |-> toggle[t].team, previous |-> toggle[t].previous,
                   list |-> list, again |-> again]
  <1>2. toggle' = [toggle EXCEPT ![t] = s]
    BY DEF Becomes
  <1>3. /\ s.at = at /\ s.team = toggle[t].team /\ s.previous = toggle[t].previous
        /\ s.list = list /\ s.again = again
    OBVIOUS
  <1> HIDE DEF s
  <1> QED BY <1>1, <1>2, <1>3

\* The other toggles are where they were
LEMMA EndsWhere ==
  ASSUME TypeOK, NEW t \in Toggle, Ends(t)
  PROVE  /\ toggle'[t].at = "idle" /\ toggle'[t].again = FALSE
         /\ \A u \in Toggle \ {t} : toggle'[u] = toggle[u]
  BY DEF TypeOK, ListTypeOK, Ends, Idle

\* A toggle that fails runs again, once
LEMMA FailsWhere ==
  ASSUME TypeOK, NEW t \in Toggle, AttemptFails(t)
  PROVE  /\ \A u \in Toggle \ {t} : toggle'[u] = toggle[u]
         /\ toggle[t].again => toggle'[t].at = "idle" /\ toggle'[t].again = FALSE
         /\ ~toggle[t].again => /\ toggle'[t].at = "load" /\ toggle'[t].again = TRUE
                                /\ toggle'[t].team = toggle[t].team /\ shown' = shown
  <1>1. CASE toggle[t].again
    BY <1>1, EndsWhere DEF AttemptFails
  <1>2. CASE ~toggle[t].again
    BY <1>2, BecomesWhere DEF AttemptFails
  <1> QED BY <1>1, <1>2

\* AsyncStorage is asked by one more, and has answered the first
LEMMA AppendWhere ==
  ASSUME NEW q \in Seq(Toggle), NEW t \in Toggle, asked' = Append(q, t)
  PROVE  /\ Len(asked') = Len(q) + 1 /\ Len(q) \in Nat
         /\ \A i \in 1 .. Len(q) : asked'[i] = q[i]
         /\ asked'[Len(q) + 1] = t
  OBVIOUS

\* What the rest of a line is
LEMMA TailWhere ==
  ASSUME asked \in Seq(Toggle), asked # <<>>, NEW q, q = Tail(asked)
  PROVE  /\ q \in Seq(Toggle) /\ Len(q) \in Nat /\ Len(asked) = Len(q) + 1
         /\ \A i \in 1 .. Len(q) : q[i] = asked[i + 1] /\ i + 1 \in Place
         /\ Head(asked) = asked[1] /\ 1 \in Place
         /\ \A j \in Place : j # 1 => j - 1 \in 1 .. Len(q)
  BY DEF Place

\* The first is not asked again
LEMMA TailInTurn ==
  ASSUME TypeOK, InTurn, asked # <<>>
  PROVE  LET q == Tail(asked)
         IN /\ \A i \in 1 .. Len(q) : q[i] # Head(asked) /\ q[i] \in Toggle
                                      /\ toggle[q[i]].at \in {"legacy", "fallback", "stored"}
            /\ \A i, j \in 1 .. Len(q) : q[i] = q[j] => i = j
  <1>1. asked \in Seq(Toggle)
    BY DEF TypeOK, ListTypeOK
  <1> DEFINE q == Tail(asked)
  <1>2. /\ q \in Seq(Toggle) /\ Len(q) \in Nat
        /\ \A i \in 1 .. Len(q) : q[i] = asked[i + 1] /\ i + 1 \in Place
        /\ Head(asked) = asked[1] /\ 1 \in Place
    BY <1>1, TailWhere
  <1> HIDE DEF q
  <1>3. \A i \in 1 .. Len(q) : i + 1 # 1 /\ q[i] \in Toggle
    BY <1>2
  <1>4. \A i \in 1 .. Len(q) : q[i] # Head(asked)
    BY <1>2, <1>3 DEF InTurn
  <1>5. \A i \in 1 .. Len(q) : toggle[q[i]].at \in {"legacy", "fallback", "stored"}
    BY <1>2 DEF InTurn
  <1>6. \A i, j \in 1 .. Len(q) : q[i] = q[j] => i = j
    <2> SUFFICES ASSUME NEW i \in 1 .. Len(q), NEW j \in 1 .. Len(q), q[i] = q[j]  PROVE i = j
      OBVIOUS
    <2>1. i + 1 = j + 1
      BY <1>2 DEF InTurn
    <2> QED BY <2>1
  <1> QED BY <1>3, <1>4, <1>5, <1>6 DEF q

\* A turn ends, or one more is asked for
LEMMA InTurnEnds ==
  ASSUME TypeOK, InTurn, asked # <<>>, asked' = Tail(asked),
         \A u \in Toggle \ {Head(asked)} : toggle'[u] = toggle[u]
  PROVE  InTurn'
  BY TailInTurn DEF InTurn, Place

LEMMA InTurnAsks ==
  ASSUME TypeOK, NEW q \in Seq(Toggle), NEW t \in Toggle, asked' = Append(q, t),
         \A i \in 1 .. Len(q) : q[i] # t /\ toggle[q[i]].at \in {"legacy", "fallback", "stored"},
         \A i, j \in 1 .. Len(q) : q[i] = q[j] => i = j,
         \A u \in Toggle \ {t} : toggle'[u] = toggle[u],
         toggle'[t].at \in {"legacy", "fallback", "stored"}
  PROVE  InTurn'
  <1>1. /\ Len(asked') = Len(q) + 1 /\ Len(q) \in Nat
        /\ \A i \in 1 .. Len(q) : asked'[i] = q[i] /\ q[i] \in Toggle
        /\ asked'[Len(q) + 1] = t
    BY AppendWhere
  <1>2. \A i \in 1 .. (Len(q) + 1) : i \in 1 .. Len(q) \/ i = Len(q) + 1
    BY <1>1
  <1>3. \A i \in 1 .. (Len(q) + 1) : toggle'[asked'[i]].at \in {"legacy", "fallback", "stored"}
    BY <1>1, <1>2
  <1>4. \A i, j \in 1 .. (Len(q) + 1) : asked'[i] = asked'[j] => i = j
    BY <1>1, <1>2
  <1> QED BY <1>1, <1>3, <1>4 DEF InTurn, Place

\* When no other toggle waits for AsyncStorage it has only been asked once
LEMMA OnlyOne ==
  ASSUME TypeOK, InTurn, asked # <<>>,
         \A u \in Toggle \ {Head(asked)} : toggle[u].at \in {"idle", "load"}
  PROVE  Len(asked) = 1 /\ Tail(asked) = <<>> /\ Place = {1} /\ asked[1] = Head(asked)
  <1>1. asked \in Seq(Toggle)
    BY DEF TypeOK, ListTypeOK
  <1>2. Len(asked) \in Nat /\ Len(asked) > 0 /\ \A i \in 1 .. Len(asked) : asked[i] \in Toggle
    BY <1>1
  <1>3. Head(asked) = asked[1]
    BY <1>1
  <1>4. \A i \in Place : asked[i] = asked[1]
    BY <1>2, <1>3 DEF InTurn, Place
  <1>5. \A i \in Place : i = 1
    BY <1>2, <1>4 DEF InTurn, Place
  <1>6. Len(asked) = 1
    <2>1. Len(asked) \in Place
      BY <1>2 DEF Place
    <2> QED BY <1>5, <2>1
  <1>7. Tail(asked) \in Seq(Toggle) /\ Len(Tail(asked)) = 0
    BY <1>1, <1>6, TailWhere
  <1>8. Tail(asked) = <<>>
    BY <1>7, EmptySeq
  <1>9. Place = {1}
    BY <1>6 DEF Place
  <1> QED BY <1>3, <1>6, <1>8, <1>9

-----------------------------------------------------------------------------
(* The list *)

\* A list is asked to be kept, that of SQLite
LEMMA LastAsks ==
  ASSUME TypeOK, NEW q \in Seq(Toggle), NEW t \in Toggle, asked' = Append(q, t),
         toggle'[t].at = "stored", toggle'[t].list = sqlite',
         "list" \notin spoiled' => \A u \in Toggle : toggle'[u].at # "fallback"
  PROVE  LastIsKept'
  <1>1. /\ Len(asked') = Len(q) + 1 /\ Len(q) \in Nat
        /\ asked'[Len(q) + 1] = t
    BY AppendWhere
  <1>2. \A i \in 1 .. (Len(q) + 1) : i = Len(q) + 1 \/ Len(q) + 1 > i
    BY <1>1
  <1>3. Place' = 1 .. (Len(q) + 1) /\ Len(q) + 1 \in Place' /\ Keeps(Len(q) + 1)' /\ List(Len(q) + 1)' = sqlite'
    BY <1>1 DEF Place, Keeps, List
  <1>4. \A i \in Place' : i = Len(q) + 1 \/ Len(q) + 1 > i
    BY <1>2, <1>3
  <1>5. toggle'[asked'[Len(q) + 1]].at # "legacy"
    BY <1>1
  <1> HIDE DEF Place, Keeps, List
  <1> QED BY <1>3, <1>4, <1>5 DEF LastIsKept

\* The first is answered
LEMMA LastAnswered ==
  ASSUME TypeOK, InTurn, LastIsKept, asked # <<>>, asked' = Tail(asked), sqlite' = sqlite,
         spoiled \subseteq spoiled', toggle'[Head(asked)].at # "fallback", Head(asked) \in Toggle,
         \A u \in Toggle \ {Head(asked)} : toggle'[u] = toggle[u]
  PROVE  LastIsKept'
  <1> SUFFICES ASSUME "list" \notin spoiled'  PROVE LastIsKept'
    BY DEF LastIsKept
  <1>0. "list" \notin spoiled
    OBVIOUS
  <1>1. asked \in Seq(Toggle)
    BY DEF TypeOK, ListTypeOK
  <1>2. /\ Len(asked') \in Nat /\ Len(asked) = Len(asked') + 1
        /\ \A i \in 1 .. Len(asked') : asked'[i] = asked[i + 1] /\ i + 1 \in Place
        /\ \A j \in Place : j # 1 => j - 1 \in 1 .. Len(asked')
    BY <1>1, TailWhere
  <1>3. \A i \in 1 .. Len(asked') : asked'[i] \in Toggle \ {Head(asked)}
    BY TailInTurn
  <1>4. \A i \in Place' : /\ i \in Nat /\ i + 1 \in Place
                          /\ Keeps(i)' = Keeps(i + 1) /\ List(i)' = List(i + 1)
                          /\ toggle'[asked'[i]].at = toggle[asked[i + 1]].at
    BY <1>2, <1>3 DEF Place, Keeps, List
  <1>5. \A i \in Place', j \in Place : j > i + 1 /\ Keeps(j) => j - 1 \in Place' /\ j - 1 > i /\ Keeps(j - 1)'
    <2> SUFFICES ASSUME NEW i \in Place', NEW j \in Place, j > i + 1, Keeps(j)
                 PROVE  j - 1 \in Place' /\ j - 1 > i /\ Keeps(j - 1)'
      OBVIOUS
    <2>1. i \in Nat /\ i >= 1 /\ j \in Nat /\ j # 1
      BY <1>2 DEF Place
    <2>2. j - 1 \in Place' /\ j - 1 > i /\ (j - 1) + 1 = j
      BY <1>2, <2>1 DEF Place
    <2> QED BY <1>4, <2>2
  <1>6. \A t \in Toggle : toggle'[t].at # "fallback"
    BY <1>0 DEF LastIsKept
  <1>7. ASSUME NEW i \in Place', Keeps(i)'
        PROVE  List(i)' = sqlite' \/ \E j \in Place' : j > i /\ Keeps(j)'
    <2>1. List(i + 1) = sqlite \/ \E j \in Place : j > i + 1 /\ Keeps(j)
      BY <1>0, <1>4, <1>7 DEF LastIsKept
    <2> QED BY <1>4, <1>5, <1>7, <2>1
  <1>8. ASSUME NEW i \in Place', toggle'[asked'[i]].at = "legacy"
        PROVE  sqlite' = {} \/ \E j \in Place' : j > i /\ Keeps(j)'
    <2>1. sqlite = {} \/ \E j \in Place : j > i + 1 /\ Keeps(j)
      BY <1>0, <1>4, <1>8 DEF LastIsKept
    <2> QED BY <1>5, <1>8, <2>1
  <1> QED BY <1>6, <1>7, <1>8 DEF LastIsKept

\* The parts of the invariant on the list, action by action
LEMMA ListStarts == Init => InTurn /\ LastIsKept /\ ShownIsKept
  <1> SUFFICES ASSUME Init  PROVE InTurn /\ LastIsKept /\ ShownIsKept
    OBVIOUS
  <1>1. Len(asked) = 0 /\ Place = {}
    BY DEF Init, Place
  <1>2. \A t \in Toggle : toggle[t].at = "idle"
    BY DEF Init, Idle
  <1>3. shown = stored /\ sqlite = stored
    BY DEF Init
  <1> QED BY <1>1, <1>2, <1>3 DEF InTurn, LastIsKept, ShownIsKept, Kept

\* A step that leaves the list alone
LEMMA ListUnmoved ==
  ASSUME InTurn, LastIsKept, ShownIsKept, spoiled \subseteq spoiled',
         UNCHANGED <<sqlite, stored, asked, shown, toggle, outdated>>
  PROVE  InTurn' /\ LastIsKept' /\ ShownIsKept'
  BY DEF InTurn, LastIsKept, ShownIsKept, Kept, Rest, Place, Keeps, List

\* Where a toggle waits
LEMMA NotAsked ==
  ASSUME TypeOK, InTurn, NEW t \in Toggle, toggle[t].at \in {"idle", "load"}
  PROVE  /\ asked \in Seq(Toggle) /\ Len(asked) \in Nat
         /\ \A i \in 1 .. Len(asked) : asked[i] \in Toggle \ {t}
  <1>1. asked \in Seq(Toggle)
    BY DEF TypeOK, ListTypeOK
  <1>2. \A i \in 1 .. Len(asked) : asked[i] \in Toggle
    BY <1>1
  <1> QED BY <1>1, <1>2 DEF InTurn, Place

\* A toggle that does not wait changes nothing for those that do
LEMMA OthersWait ==
  ASSUME TypeOK, InTurn, NEW t \in Toggle, toggle[t].at \in {"idle", "load"}, asked' = asked,
         \A u \in Toggle \ {t} : toggle'[u] = toggle[u]
  PROVE  InTurn' /\ (LastIsKept /\ sqlite' = sqlite /\ spoiled \subseteq spoiled'
                     /\ toggle'[t].at # "fallback" => LastIsKept')
  <1>1. \A i \in Place : asked[i] \in Toggle \ {t}
    BY NotAsked DEF Place
  <1>2. Place' = Place /\ \A i \in Place : toggle'[asked[i]] = toggle[asked[i]]
    BY <1>1 DEF Place
  <1>3. InTurn'
    BY <1>2 DEF InTurn
  <1>4. \A i \in Place : (Keeps(i)' <=> Keeps(i)) /\ List(i)' = List(i)
    BY <1>2 DEF Keeps, List
  <1> SUFFICES ASSUME LastIsKept, sqlite' = sqlite, spoiled \subseteq spoiled', toggle'[t].at # "fallback"
               PROVE  LastIsKept'
    BY <1>3
  <1> HIDE DEF Place, Keeps, List
  <1> QED BY <1>2, <1>4 DEF LastIsKept

\* A new toggle waits for nobody
LEMMA TapKeepsList ==
  ASSUME ListInv, NEW t \in Toggle, NEW team \in Team, Tap(t, team)
  PROVE  InTurn' /\ LastIsKept' /\ ShownIsKept'
  <1>0. TypeOK /\ InTurn /\ LastIsKept /\ toggle \in [Toggle -> ToggleState]
    BY DEF ListInv, TypeOK, ListTypeOK
  <1>1. /\ toggle[t].at = "idle" /\ asked' = asked /\ sqlite' = sqlite /\ spoiled' = spoiled
        /\ toggle'[t].at = "load" /\ \A u \in Toggle \ {t} : toggle'[u] = toggle[u]
    BY <1>0 DEF Tap
  <1>2. InTurn' /\ LastIsKept'
    BY <1>0, <1>1, OthersWait
  <1>3. ~Rest'
    BY <1>1 DEF Rest
  <1> QED BY <1>2, <1>3 DEF ShownIsKept

\* A list is decided on, of a toggle that does not wait
LEMMA DecideKeepsList ==
  ASSUME ListInv, NEW t \in Toggle, NEW ids, NEW table, NEW q \in Seq(Toggle), NEW what,
         Decide(t, ids, table, q, what),
         \A i \in 1 .. Len(q) : q[i] \in Toggle \ {t}
                                /\ toggle[q[i]].at \in {"legacy", "fallback", "stored"},
         \A i, j \in 1 .. Len(q) : q[i] = q[j] => i = j,
         \* how it ends if the list is full
         Ends(t) /\ asked' = q /\ shown' = ids /\ sqlite' = table /\ stored' = stored
           /\ spoiled \cup what \subseteq spoiled' =>
           InTurn' /\ LastIsKept' /\ ShownIsKept'
  PROVE  InTurn' /\ LastIsKept' /\ ShownIsKept'
  <1>0. TypeOK /\ LastIsKept
    BY DEF ListInv
  <1> DEFINE list == Toggled(ids, toggle[t].team)
  <1>1. CASE list = ids
    <2>1. Ends(t) /\ asked' = q /\ shown' = ids /\ sqlite' = table /\ stored' = stored
          /\ spoiled' = spoiled \cup (what \cup Unsent(t))
      BY <1>1 DEF Decide, Spoils
    <2> QED BY <2>1
  <1>2. CASE list # ids
    <2>1. /\ Becomes(t, "stored", list, toggle[t].again) /\ asked' = Append(q, t)
          /\ spoiled \subseteq spoiled'
          /\ sqlite' = list \/ "list" \in spoiled'
      BY <1>2 DEF Decide, Spoils
    <2> HIDE DEF list
    <2>2. /\ toggle'[t].at = "stored" /\ toggle'[t].list = list
          /\ \A u \in Toggle \ {t} : toggle'[u] = toggle[u]
      BY <1>0, <2>1, BecomesWhere
    <2>3. InTurn'
      BY <1>0, <2>1, <2>2, InTurnAsks
    <2>4. ~Rest'
      BY <2>2 DEF Rest
    <2>5. LastIsKept'
      <3>1. CASE "list" \in spoiled'
        BY <3>1 DEF LastIsKept
      <3>2. CASE "list" \notin spoiled'
        <4>1. \A u \in Toggle : toggle'[u].at # "fallback"
          BY <1>0, <2>1, <2>2, <3>2 DEF LastIsKept
        <4>2. sqlite' = list
          BY <2>1, <3>2
        <4> QED BY <1>0, <2>1, <2>2, <4>1, <4>2, LastAsks
      <3> QED BY <3>1, <3>2
    <2> QED BY <2>3, <2>4, <2>5 DEF ShownIsKept
  <1> QED BY <1>1, <1>2

\* A toggle finds the list in SQLite, or asks AsyncStorage
LEMMA LoadKeepsList ==
  ASSUME ListInv, NEW t \in Toggle, Load(t)
  PROVE  InTurn' /\ LastIsKept' /\ ShownIsKept'
  <1>0. TypeOK /\ InTurn /\ LastIsKept
    BY DEF ListInv
  <1>1. /\ toggle[t].at = "load" /\ asked \in Seq(Toggle) /\ Len(asked) \in Nat
        /\ \A i \in 1 .. Len(asked) : asked[i] \in Toggle \ {t}
                                      /\ toggle[asked[i]].at \in {"legacy", "fallback", "stored"}
        /\ \A i, j \in 1 .. Len(asked) : asked[i] = asked[j] => i = j
    <2>1. toggle[t].at = "load"
      BY DEF Load
    <2> QED BY <1>0, <2>1, NotAsked DEF InTurn, Place
  <1>2. CASE sqlite # {} /\ Decide(t, sqlite, sqlite, asked, {})
    <2>1. ASSUME Ends(t) /\ asked' = asked /\ shown' = sqlite /\ sqlite' = sqlite /\ stored' = stored
                 /\ spoiled \cup {} \subseteq spoiled'
          PROVE  InTurn' /\ LastIsKept' /\ ShownIsKept'
      <3>1. toggle'[t].at = "idle" /\ \A u \in Toggle \ {t} : toggle'[u] = toggle[u]
        BY <1>0, <2>1, EndsWhere
      <3> QED BY <1>0, <1>1, <1>2, <2>1, <3>1, OthersWait DEF ShownIsKept, Kept
    <2> QED BY <1>1, <1>2, <2>1, DecideKeepsList
  <1>3. CASE ~(sqlite # {} /\ Decide(t, sqlite, sqlite, asked, {}))
    <2>1. /\ asked' = Append(asked, t) /\ sqlite' = sqlite /\ spoiled \subseteq spoiled'
          /\ \/ Goes(t, "legacy") /\ sqlite = {}
             \/ Goes(t, "fallback") /\ "list" \in spoiled'
      BY <1>3 DEF Load, Spoils
    <2>2. /\ toggle'[t].at \in {"legacy", "fallback"}
          /\ toggle'[t].at = "fallback" => "list" \in spoiled'
          /\ toggle'[t].at = "legacy" => sqlite = {}
          /\ \A u \in Toggle \ {t} : toggle'[u] = toggle[u]
      BY <1>0, <2>1, BecomesWhere DEF Goes
    <2>3. InTurn'
      BY <1>0, <1>1, <2>1, <2>2, InTurnAsks
    <2>4. ~Rest'
      BY <2>2 DEF Rest
    <2>5. LastIsKept'
      <3> SUFFICES ASSUME "list" \notin spoiled'  PROVE LastIsKept'
        BY DEF LastIsKept
      <3>1. sqlite = {} /\ toggle'[t].at = "legacy"
        BY <2>1, <2>2
      <3>2. /\ Len(asked') = Len(asked) + 1
            /\ \A i \in 1 .. Len(asked) : asked'[i] = asked[i]
            /\ asked'[Len(asked) + 1] = t
        BY <1>1, <2>1, AppendWhere
      <3>3. \A u \in Toggle : toggle'[u].at # "fallback"
        BY <1>0, <2>1, <2>2, <3>1 DEF LastIsKept
      <3>4. \A i \in Place : /\ i \in Place' /\ (Keeps(i)' <=> Keeps(i)) /\ List(i)' = List(i)
        BY <1>1, <2>2, <3>2 DEF Place, Keeps, List
      <3>5. \A i \in Place' : i \in Place \/ ~Keeps(i)'
        BY <1>1, <3>1, <3>2 DEF Place, Keeps
      <3> HIDE DEF Place, Keeps, List
      <3>6. \A i \in Place' : Keeps(i)' => List(i)' = sqlite' \/ \E j \in Place' : j > i /\ Keeps(j)'
        BY <1>0, <2>1, <3>4, <3>5 DEF LastIsKept
      <3> QED BY <2>1, <3>1, <3>3, <3>6 DEF LastIsKept
    <2> QED BY <2>3, <2>4, <2>5 DEF ShownIsKept
  <1> QED BY <1>2, <1>3

\* AsyncStorage answers with the list: a toggle that overlaps no other imports it
LEMMA LegacyKeepsList ==
  ASSUME ListInv, NEW t \in Toggle, Legacy(t)
  PROVE  InTurn' /\ LastIsKept' /\ ShownIsKept'
  <1>0. TypeOK /\ InTurn /\ LastIsKept
    BY DEF ListInv
  <1> DEFINE q == Tail(asked)
             table == IF toggle[t].at = "legacy" /\ stored # {} THEN stored ELSE sqlite
  <1>1. asked # <<>> /\ Head(asked) = t /\ toggle[t].at \in {"legacy", "fallback"}
    BY DEF Legacy, Answered
  <1>2. /\ q \in Seq(Toggle)
        /\ \A i \in 1 .. Len(q) : q[i] \in Toggle \ {t}
                                  /\ toggle[q[i]].at \in {"legacy", "fallback", "stored"}
        /\ \A i, j \in 1 .. Len(q) : q[i] = q[j] => i = j
    <2>1. asked \in Seq(Toggle)
      BY <1>0 DEF TypeOK, ListTypeOK
    <2>2. q \in Seq(Toggle)
      BY <1>1, <2>1, TailWhere
    <2> QED BY <1>0, <1>1, <2>2, TailInTurn
  <1>3. CASE Decide(t, stored, table, q, Overlaps(t))
    <2>1. ASSUME Ends(t) /\ asked' = q /\ shown' = stored /\ sqlite' = table /\ stored' = stored
                 /\ spoiled \cup Overlaps(t) \subseteq spoiled'
          PROVE  InTurn' /\ LastIsKept' /\ ShownIsKept'
      <3>1. toggle'[t].at = "idle" /\ \A u \in Toggle \ {t} : toggle'[u] = toggle[u]
        BY <1>0, <2>1, EndsWhere
      <3>2. InTurn'
        BY <1>0, <1>1, <2>1, <3>1, InTurnEnds
      <3> SUFFICES ASSUME "list" \notin spoiled'  PROVE LastIsKept' /\ ShownIsKept'
        BY <3>2 DEF LastIsKept, ShownIsKept
      <3>3. \A u \in Toggle \ {t} : toggle[u].at \in {"idle", "load"}
        BY <2>1 DEF Overlaps
      <3>4. Len(asked) = 1 /\ q = <<>> /\ Place = {1} /\ asked[1] = t
        BY <1>0, <1>1, <3>3, OnlyOne
      <3>5. Place' = {}
        BY <2>1, <3>4 DEF Place
      <3>6. \A u \in Toggle : toggle'[u].at # "fallback"
        BY <3>1, <3>3
      <3>7. LastIsKept'
        BY <3>5, <3>6 DEF LastIsKept
      <3>8. toggle[t].at = "legacy" /\ sqlite = {}
        <4>1. "list" \notin spoiled
          BY <2>1
        <4>2. toggle[t].at = "legacy"
          BY <1>0, <1>1, <4>1 DEF LastIsKept
        <4>3. sqlite = {} \/ \E j \in Place : j > 1 /\ Keeps(j)
          BY <1>0, <3>4, <4>1, <4>2 DEF LastIsKept
        <4> QED BY <3>4, <4>2, <4>3
      <3>9. ShownIsKept'
        BY <2>1, <3>8 DEF ShownIsKept, Kept
      <3> QED BY <3>7, <3>9
    <2> HIDE DEF q, table
    <2> QED BY <1>2, <1>3, <2>1, DecideKeepsList
  <1>4. CASE ~Decide(t, stored, table, q, Overlaps(t))
    <2>1. /\ "list" \in spoiled'
          /\ IF toggle[t].at = "legacy"
             THEN Goes(t, "fallback") /\ asked' = Append(q, t)
             ELSE AttemptFails(t) /\ asked' = q
      BY <1>4 DEF Legacy, Spoils
    <2>2. InTurn'
      <3>1. CASE toggle[t].at = "legacy"
        <4>1. toggle'[t].at = "fallback" /\ \A u \in Toggle \ {t} : toggle'[u] = toggle[u]
          BY <1>0, <2>1, <3>1, BecomesWhere DEF Goes
        <4> HIDE DEF q
        <4> QED BY <1>0, <1>2, <2>1, <3>1, <4>1, InTurnAsks
      <3>2. CASE toggle[t].at # "legacy"
        BY <1>0, <1>1, <2>1, <3>2, FailsWhere, InTurnEnds
      <3> QED BY <3>1, <3>2
    <2> QED BY <2>1, <2>2 DEF LastIsKept, ShownIsKept
  <1> QED BY <1>3, <1>4

\* The last toggle to end keeps what SQLite has
LEMMA StoredKeepsList ==
  ASSUME ListInv, NEW t \in Toggle, Stored(t)
  PROVE  InTurn' /\ LastIsKept' /\ ShownIsKept'
  <1>0. TypeOK /\ InTurn /\ LastIsKept
    BY DEF ListInv
  <1>1. /\ asked # <<>> /\ Head(asked) = t /\ toggle[t].at = "stored"
        /\ asked' = Tail(asked) /\ sqlite' = sqlite
    BY DEF Stored, Answered
  <1>2. \/ stored' = toggle[t].list /\ shown' = toggle[t].list /\ Ends(t) /\ spoiled \subseteq spoiled'
        \/ /\ AttemptFails(t) /\ spoiled \subseteq spoiled'
           /\ toggle[t].again => "list" \in spoiled'
    BY DEF Stored, Spoils
  <1>3. /\ spoiled \subseteq spoiled' /\ toggle'[t].at \in {"idle", "load"}
        /\ \A u \in Toggle \ {t} : toggle'[u] = toggle[u]
    BY <1>0, <1>2, EndsWhere, FailsWhere
  <1>4. InTurn'
    BY <1>0, <1>1, <1>3, InTurnEnds
  <1>5. LastIsKept'
    BY <1>0, <1>1, <1>3, LastAnswered
  <1>6. ASSUME Rest', "list" \notin spoiled'
        PROVE  shown' = IF sqlite' = {} THEN stored' ELSE sqlite'
    <2>1. \A u \in Toggle \ {t} : toggle[u].at = "idle"
      BY <1>3, <1>6 DEF Rest
    <2>2. Place = {1} /\ asked[1] = t
      BY <1>0, <1>1, <2>1, OnlyOne
    <2>3. toggle[t].list = sqlite
      <3>1. List(1) = sqlite \/ \E j \in Place : j > 1 /\ Keeps(j)
        BY <1>0, <1>1, <1>3, <1>6, <2>2 DEF LastIsKept, Keeps
      <3> QED BY <2>2, <3>1 DEF List
    <2>4. toggle'[t].at = "idle"
      BY <1>6 DEF Rest
    <2>5. stored' = toggle[t].list /\ shown' = toggle[t].list
      BY <1>0, <1>2, <1>6, <2>4, FailsWhere
    <2> QED BY <1>1, <2>3, <2>5
  <1> QED BY <1>4, <1>5, <1>6 DEF ShownIsKept, Kept

\* What loadIds finds stays what it would find once SQLite has imported it
LEMMA KeptIsKept ==
  ASSUME sqlite' = Kept, stored' = stored
  PROVE  Kept' = Kept
  BY DEF Kept

\* The app shows what it kept, or what it persisted
LEMMA RestartKeepsList ==
  ASSUME ListInv, Restart
  PROVE  InTurn' /\ LastIsKept' /\ ShownIsKept'
  <1>1. /\ asked' = <<>> /\ stored' = stored /\ sqlite' = Kept
        /\ \A t \in Toggle : toggle'[t].at = "idle"
    BY DEF Restart, Idle
  <1>2. Place' = {}
    BY <1>1 DEF Place
  <1>3. Kept' = Kept /\ (~outdated' => shown' = Kept)
    BY <1>1, KeptIsKept DEF Restart
  <1> QED BY <1>1, <1>2, <1>3 DEF InTurn, LastIsKept, ShownIsKept

\* The list is loaded anew, and imported only if no toggle waits for AsyncStorage
LEMMA ReloadKeepsList ==
  ASSUME ListInv, Reload
  PROVE  InTurn' /\ LastIsKept' /\ ShownIsKept'
  <1>0. TypeOK /\ InTurn /\ LastIsKept
    BY DEF ListInv
  <1>1. UNCHANGED <<asked, toggle, stored>> /\ spoiled \subseteq spoiled'
    BY DEF Reload, Spoils
  <1>2. InTurn' /\ Place' = Place
    BY <1>0, <1>1 DEF InTurn, Place
  <1> SUFFICES ASSUME "list" \notin spoiled'  PROVE LastIsKept' /\ ShownIsKept'
    BY <1>2 DEF LastIsKept, ShownIsKept
  <1>3. /\ sqlite' = Kept /\ shown' = Kept
        /\ sqlite = {} => \A t \in Toggle : toggle[t].at \in {"idle", "load"}
    BY DEF Reload, Spoils
  <1>4. ShownIsKept'
    BY <1>1, <1>3, KeptIsKept DEF ShownIsKept
  <1>5. CASE sqlite = {}
    <2>1. \A i \in Place : asked[i] \in Toggle
      BY <1>0 DEF Place, TypeOK, ListTypeOK
    <2>2. Place = {}
      BY <1>0, <1>3, <1>5, <2>1 DEF InTurn
    <2>3. \A t \in Toggle : toggle'[t].at # "fallback"
      BY <1>1, <1>3, <1>5
    <2> QED BY <1>2, <1>4, <2>2, <2>3 DEF LastIsKept
  <1>6. CASE sqlite # {}
    <2>1. sqlite' = sqlite
      BY <1>3, <1>6 DEF Kept
    <2>2. LastIsKept'
      BY <1>0, <1>1, <2>1 DEF LastIsKept, Place, Keeps, List
    <2> QED BY <1>4, <2>2
  <1> QED BY <1>5, <1>6

\* The invariant on the list is inductive
LEMMA ListStep == ListInv /\ [Next]_vars => ListInv'
  <1> SUFFICES ASSUME ListInv, [Next]_vars  PROVE ListInv'
    OBVIOUS
  <1>0. TypeOK /\ TypeOK' /\ InTurn /\ LastIsKept /\ ShownIsKept
    BY AppKeepsTypes DEF ListInv
  <1> SUFFICES InTurn' /\ LastIsKept' /\ ShownIsKept'
    BY <1>0 DEF ListInv
  <1>1. ASSUME UNCHANGED <<sqlite, stored, asked, shown, toggle, outdated>>, spoiled \subseteq spoiled'
        PROVE  InTurn' /\ LastIsKept' /\ ShownIsKept'
    BY <1>0, <1>1, ListUnmoved
  <1>2. ASSUME NEW r \in Request, Reply(r) \/ GiveUp(r) \/ ServerStep(r)
        PROVE  InTurn' /\ LastIsKept' /\ ShownIsKept'
    BY <1>1, <1>2 DEF Reply, GiveUp, ServerStep, listVars
  <1>3. ASSUME NEW r \in Request, NEW action \in Action, Other(r, action)
        PROVE  InTurn' /\ LastIsKept' /\ ShownIsKept'
    BY <1>1, <1>3 DEF Other
  <1>4. ASSUME NEW d \in Drain, StartDrain(d) \/ SendRow(d)
        PROVE  InTurn' /\ LastIsKept' /\ ShownIsKept'
    BY <1>1, <1>4 DEF StartDrain, SendRow, Spoils, listVars
  <1>5. CASE UNCHANGED vars \/ Flush
    BY <1>1, <1>5 DEF vars, Flush, listVars
  <1>6. ASSUME NEW t \in Toggle, NEW team \in Team, Tap(t, team) \/ Load(t) \/ Legacy(t) \/ Stored(t)
        PROVE  InTurn' /\ LastIsKept' /\ ShownIsKept'
    BY <1>6, TapKeepsList, LoadKeepsList, LegacyKeepsList, StoredKeepsList
  <1> QED BY <1>2, <1>3, <1>4, <1>5, <1>6, RestartKeepsList, ReloadKeepsList, TrackedAssumption
          DEF Next

\* Once every toggle is over the app shows the list that is kept, for any teams and any
\* number of toggles that overlap, fail once or are cut by the end of the app, unless it
\* started with another list that was persisted and has shown no newer one since.
THEOREM ShownIsWhatIsKept == Spec => []ShownIsKept
  <1>1. Init => ListInv
    BY ListStarts, AppStart DEF ListInv
  <1>2. ListInv => ShownIsKept
    BY DEF ListInv
  <1> QED BY <1>1, <1>2, ListStep, PTL DEF Spec

-----------------------------------------------------------------------------
(* What the last event tells of the list *)

\* A step that leaves AsyncStorage and the lists alone, of a toggle that does not wait
LEMMA TellsAside ==
  ASSUME TypeOK, InTurn, NEW told, ListTells(told), NEW t \in Toggle,
         toggle[t].at \in {"idle", "load"}, toggle[t].at = "load" => ~toggle[t].again,
         toggle'[t].at = "idle" \/ ~toggle'[t].again,
         \A u \in Toggle \ {t} : toggle'[u] = toggle[u],
         asked' = asked, sqlite' = sqlite, stored' = stored
  PROVE  ListTells(told)'
  <1>1. Place' = Place /\ \A i \in Place : toggle'[asked[i]] = toggle[asked[i]]
    BY NotAsked DEF Place
  <1>2. \A i \in Place : (Keeps(i)' <=> Keeps(i)) /\ List(i)' = List(i) /\ (KeepsTracked(i)' <=> KeepsTracked(i))
    BY <1>1 DEF Keeps, List, KeepsTracked
  <1>3. Anew => Anew'
    BY DEF Anew
  <1>4. Follows' = Follows
    BY DEF Follows
  <1> HIDE DEF Place, Keeps, List, KeepsTracked, Anew, Follows
  <1> QED BY <1>1, <1>2, <1>3, <1>4 DEF ListTells

\* The last to ask is a toggle of the team
LEMMA TellsTracked ==
  ASSUME TypeOK, NEW told, NEW q \in Seq(Toggle), NEW t \in Toggle, asked' = Append(q, t),
         toggle'[t].at = "stored", toggle'[t].team = Tracked, toggle'[t].list = sqlite'
  PROVE  ListTells(told)'
  <1>1. Len(asked') = Len(q) + 1 /\ Len(q) \in Nat /\ asked'[Len(q) + 1] = t
    BY AppendWhere
  <1> DEFINE n == Len(q) + 1
  <1>2. /\ n \in Place' /\ KeepsTracked(n)' /\ List(n)' = sqlite'
        /\ \A i \in Place' : i = n \/ n > i
    BY <1>1 DEF Place, Keeps, KeepsTracked, List
  <1>3. Follows' = (Tracked \in sqlite')
    BY DEF Follows
  <1> HIDE DEF n, Place, Keeps, List, KeepsTracked, Follows
  <1> QED BY <1>2, <1>3 DEF ListTells

\* The last to ask is a toggle of another team, or waits for the list to import
LEMMA TellsOther ==
  ASSUME TypeOK, InTurn, NEW told, ListTells(told), NEW t \in Toggle, toggle[t].at = "load",
         asked' = Append(asked, t), \A u \in Toggle \ {t} : toggle'[u] = toggle[u],
         toggle'[t].team = toggle[t].team, toggle'[t].again = toggle[t].again,
         stored' = stored, Follows' = Follows,
         \/ toggle'[t].at = "legacy"
         \/ /\ toggle'[t].at = "stored" /\ toggle[t].team # Tracked
            /\ Tracked \in toggle'[t].list <=> Follows
  PROVE  ListTells(told)'
  <1>1. /\ asked \in Seq(Toggle) /\ Len(asked) \in Nat
        /\ \A i \in 1 .. Len(asked) : asked[i] \in Toggle \ {t}
    BY NotAsked
  <1>2. /\ Len(asked') = Len(asked) + 1
        /\ \A i \in 1 .. Len(asked) : asked'[i] = asked[i]
        /\ asked'[Len(asked) + 1] = t
    BY <1>1, AppendWhere
  <1>3. \A i \in Place : /\ i \in Place' /\ (Keeps(i)' <=> Keeps(i)) /\ List(i)' = List(i)
                         /\ (KeepsTracked(i)' <=> KeepsTracked(i))
    BY <1>1, <1>2 DEF Place, Keeps, List, KeepsTracked
  <1>4. \A i \in Place' : i \in Place \/ (Keeps(i)' => (Tracked \in List(i)' <=> Follows'))
    BY <1>1, <1>2 DEF Place, Keeps, List
  <1>5. Anew => Anew'
    BY DEF Anew
  <1> HIDE DEF Place, Keeps, List, KeepsTracked, Anew, Follows
  <1> SUFFICES ASSUME ~Anew'
               PROVE  /\ \A i \in Place' : Keeps(i)' =>
                           (Tracked \in List(i)' <=> Follows') \/ \E j \in Place' : j > i /\ KeepsTracked(j)'
                      /\ \/ \E i \in Place' : KeepsTracked(i)'
                         \/ (told <=> Follows') /\ (Tracked \in stored' <=> Follows')
    BY DEF ListTells
  <1>6. /\ \A i \in Place : Keeps(i) =>
             (Tracked \in List(i) <=> Follows) \/ \E j \in Place : j > i /\ KeepsTracked(j)
        /\ \/ \E i \in Place : KeepsTracked(i)
           \/ (told <=> Follows) /\ (Tracked \in stored <=> Follows)
    BY <1>5 DEF ListTells
  <1>7. \A i \in Place' : Keeps(i)' =>
          (Tracked \in List(i)' <=> Follows') \/ \E j \in Place' : j > i /\ KeepsTracked(j)'
    BY <1>3, <1>4, <1>6
  <1>8. \/ \E i \in Place' : KeepsTracked(i)'
        \/ (told <=> Follows') /\ (Tracked \in stored' <=> Follows')
    BY <1>3, <1>6
  <1> QED BY <1>7, <1>8

\* The first is answered: those behind it move up
LEMMA TailShift ==
  ASSUME TypeOK, InTurn, asked # <<>>, asked' = Tail(asked),
         \A u \in Toggle \ {Head(asked)} : toggle'[u] = toggle[u]
  PROVE  /\ 1 \in Place /\ asked[1] = Head(asked)
         /\ \A i \in Place' : /\ i \in Nat /\ i + 1 \in Place
                              /\ (Keeps(i)' <=> Keeps(i + 1)) /\ List(i)' = List(i + 1)
                              /\ (KeepsTracked(i)' <=> KeepsTracked(i + 1))
         /\ \A j \in Place : j # 1 => j \in Nat /\ j - 1 \in Place' /\ (KeepsTracked(j - 1)' <=> KeepsTracked(j))
  <1>1. asked \in Seq(Toggle)
    BY DEF TypeOK, ListTypeOK
  <1>2. /\ Len(asked') \in Nat /\ Len(asked) = Len(asked') + 1
        /\ \A i \in 1 .. Len(asked') : asked'[i] = asked[i + 1] /\ i + 1 \in Place
        /\ Head(asked) = asked[1] /\ 1 \in Place
        /\ \A j \in Place : j # 1 => j - 1 \in 1 .. Len(asked')
    BY <1>1, TailWhere
  <1>3. \A i \in 1 .. Len(asked') : asked'[i] \in Toggle \ {Head(asked)}
    BY TailInTurn
  <1>4. \A i \in Place' : /\ i \in Nat /\ i + 1 \in Place
                          /\ (Keeps(i)' <=> Keeps(i + 1)) /\ List(i)' = List(i + 1)
                          /\ (KeepsTracked(i)' <=> KeepsTracked(i + 1))
    BY <1>2, <1>3 DEF Place, Keeps, List, KeepsTracked
  <1>5. \A j \in Place : j # 1 => j \in Nat /\ j - 1 \in Place' /\ (j - 1) + 1 = j
    BY <1>2 DEF Place
  <1> HIDE DEF Place, Keeps, List, KeepsTracked
  <1>6. \A j \in Place : j # 1 => (KeepsTracked(j - 1)' <=> KeepsTracked(j))
    BY <1>4, <1>5
  <1> QED BY <1>2, <1>4, <1>5, <1>6

\* The first is kept or not: it was the last to ask, or another is behind it
LEMMA TellsAnswered ==
  ASSUME TypeOK, InTurn, NEW told, ListTells(told), NEW t \in Toggle, NEW after,
         asked # <<>>, Head(asked) = t, toggle[t].at = "stored",
         asked' = Tail(asked), sqlite' = sqlite,
         \A u \in Toggle \ {t} : toggle'[u] = toggle[u],
         \* it ends or fails
         \/ /\ stored' = toggle[t].list
            /\ toggle[t].team = Tracked => (after <=> Tracked \in toggle[t].list)
            /\ toggle[t].team # Tracked => (after <=> told)
         \/ stored' = stored /\ toggle[t].team # Tracked /\ (after <=> told)
         \/ Anew'
  PROVE  ListTells(after)'
  <1>1. /\ 1 \in Place /\ asked[1] = t
        /\ \A i \in Place' : /\ i \in Nat /\ i + 1 \in Place
                             /\ (Keeps(i)' <=> Keeps(i + 1)) /\ List(i)' = List(i + 1)
                             /\ (KeepsTracked(i)' <=> KeepsTracked(i + 1))
        /\ \A j \in Place : j # 1 => j \in Nat /\ j - 1 \in Place' /\ (KeepsTracked(j - 1)' <=> KeepsTracked(j))
    BY TailShift
  <1>2. /\ Keeps(1) /\ List(1) = toggle[t].list /\ (KeepsTracked(1) <=> toggle[t].team = Tracked)
    BY <1>1 DEF Keeps, List, KeepsTracked
  <1>3. Anew => Anew'
    BY DEF Anew
  <1>4. Follows' = Follows
    BY DEF Follows
  <1>5. \A j \in Place : j \in Nat /\ j >= 1
    BY DEF Place
  <1> HIDE DEF Place, Keeps, List, KeepsTracked, Anew, Follows
  <1> SUFFICES ASSUME ~Anew'
               PROVE  /\ \A i \in Place' : Keeps(i)' =>
                           (Tracked \in List(i)' <=> Follows') \/ \E j \in Place' : j > i /\ KeepsTracked(j)'
                      /\ \/ \E i \in Place' : KeepsTracked(i)'
                         \/ (after <=> Follows') /\ (Tracked \in stored' <=> Follows')
    BY DEF ListTells
  <1>6. /\ \A i \in Place : Keeps(i) =>
             (Tracked \in List(i) <=> Follows) \/ \E j \in Place : j > i /\ KeepsTracked(j)
        /\ \/ \E i \in Place : KeepsTracked(i)
           \/ (told <=> Follows) /\ (Tracked \in stored <=> Follows)
    BY <1>3 DEF ListTells
  <1>7. ASSUME NEW i \in Place', Keeps(i)'
        PROVE  (Tracked \in List(i)' <=> Follows') \/ \E j \in Place' : j > i /\ KeepsTracked(j)'
    <2>1. (Tracked \in List(i + 1) <=> Follows) \/ \E j \in Place : j > i + 1 /\ KeepsTracked(j)
      BY <1>1, <1>6, <1>7
    <2>2. ASSUME NEW j \in Place, j > i + 1, KeepsTracked(j)
          PROVE  \E k \in Place' : k > i /\ KeepsTracked(k)'
      <3>1. i \in Nat /\ j \in Nat /\ j # 1
        BY <1>1, <1>5, <2>2
      <3>2. j - 1 \in Place' /\ j - 1 > i /\ KeepsTracked(j - 1)'
        BY <1>1, <2>2, <3>1
      <3> QED BY <3>2
    <2> QED BY <1>1, <1>4, <2>1, <2>2
  <1>8. ASSUME ~\E i \in Place' : KeepsTracked(i)'
        PROVE  (after <=> Follows') /\ (Tracked \in stored' <=> Follows')
    <2>1. \A j \in Place : KeepsTracked(j) => j = 1
      BY <1>1, <1>8
    <2>2. \A j \in Place : ~(j > 1 /\ KeepsTracked(j))
      BY <2>1, <1>5
    <2>3. Tracked \in toggle[t].list <=> Follows
      BY <1>1, <1>2, <1>6, <2>2
    <2>4. toggle[t].team # Tracked => (told <=> Follows) /\ (Tracked \in stored <=> Follows)
      BY <1>2, <1>6, <2>1
    <2> QED BY <1>4, <2>3, <2>4
  <1> QED BY <1>7, <1>8

-----------------------------------------------------------------------------
(* What the API learns *)

\* A request is served: what it leaves to its subject is what it was asked
LEMMA ServedLearns ==
  ASSUME TypeOK, OwnSender, NEW told \in BOOLEAN, ApiLearns(told), NEW r \in Request, ServerStep(r)
  PROVE  OwnSender' /\ ApiLearns(told)'
  <1>0. /\ req \in [Request -> [at : At, subject : Subject, action : Action, found : State]]
        /\ state \in [Subject -> State] /\ Me \in Subject
    BY TrackedAssumption DEF TypeOK, ServerTypeOK
  <1>1. Serve(r) /\ UNCHANGED <<queue, drain, sender>>
    BY DEF ServerStep, eventVars
  <1>2. /\ \A q \in Request \ {r} : req'[q] = req[q]
        /\ req'[r].subject = req[r].subject /\ req'[r].action = req[r].action
        /\ req[r].at \in Statement /\ req'[r].at # "idle"
    BY <1>0, <1>1 DEF Serve, Select, Upsert, Count, Commit, Rollback, MovesTo, Statement
  <1>3. \A q \in Request : UnderWay(q)' => UnderWay(q)
    BY <1>1, <1>2 DEF UnderWay
  <1>4. \A q \in Request : req'[q].action = req[q].action /\ req'[q].subject = req[q].subject
    BY <1>2
  <1>5. req[r].subject = Me => Means(req[r].action, told)
    BY <1>2 DEF ApiLearns, UnderWay
  <1>6. Commit(r) /\ req[r].subject = Me => Done(told)'
    <2> SUFFICES ASSUME Commit(r), req[r].subject = Me  PROVE Done(told)'
      OBVIOUS
    <2>1. state'[Me] = Outcome(req[r].action)
      BY <1>0 DEF Commit
    <2> QED BY <1>5, <2>1 DEF Means, Done, Outcome
  <1>7. ~(Commit(r) /\ req[r].subject = Me) => state'[Me] = state[Me]
    BY <1>0, <1>1 DEF Serve, Select, Upsert, Count, Commit, Rollback
  <1>8. Done(told) => Done(told)'
    BY <1>6, <1>7 DEF Done
  <1>9. req'[r].at = "answered" /\ req[r].subject = Me => Done(told)'
    <2> SUFFICES ASSUME req'[r].at = "answered", req[r].subject = Me, ~Commit(r)  PROVE Done(told)'
      BY <1>6
    <2>1. Select(r)
      BY <1>0, <1>1 DEF Serve, Upsert, Count, Rollback, MovesTo
    <2>2. ~ChangesState(req[r].action, state[Me])
      BY <1>0, <2>1 DEF Select
    <2> QED BY <1>5, <1>7, <2>2 DEF ChangesState, Means, Done
  <1>10. OwnSender'
    BY <1>1, <1>2, <1>4 DEF OwnSender
  <1>11. \A q \in Request : sender'[q] # "none" /\ req'[q].at = "answered" => Done(told)'
    <2> SUFFICES ASSUME NEW q \in Request, sender'[q] # "none", req'[q].at = "answered"
                 PROVE  Done(told)'
      OBVIOUS
    <2>1. sender[q] # "none" /\ req[q].subject = Me
      BY <1>1 DEF OwnSender
    <2>2. CASE q = r
      BY <1>9, <2>1, <2>2
    <2>3. CASE q # r
      BY <1>2, <1>8, <2>1, <2>3 DEF ApiLearns
    <2> QED BY <2>2, <2>3
  <1>12. \A q \in Request : UnderWay(q)' => Means(req'[q].action, told)
    BY <1>3, <1>4 DEF ApiLearns
  <1>13. Done(told)' \/ queue' # {} \/ \E q \in Request : sender'[q] = "direct"
    BY <1>1, <1>8 DEF ApiLearns
  <1> QED BY <1>1, <1>10, <1>11, <1>12, <1>13 DEF ApiLearns

\* Somebody else calls
LEMMA OtherLearns ==
  ASSUME TypeOK, OwnSender, NEW told \in BOOLEAN, ApiLearns(told), NEW r \in Request,
         NEW action \in Action, Other(r, action)
  PROVE  OwnSender' /\ ApiLearns(told)'
  <1>0. req \in [Request -> [at : At, subject : Subject, action : Action, found : State]]
    BY DEF TypeOK, ServerTypeOK
  <1>1. sender[r] = "none" /\ UNCHANGED <<queue, drain, sender, state>>
    BY DEF Other, Called, eventVars
  <1>2. \A q \in Request \ {r} : req'[q] = req[q]
    BY <1>0 DEF Other, Called
  <1>3. req'[r].subject # Me /\ req'[r].at = "select"
    BY <1>0 DEF Other, Called
  <1>4. ~UnderWay(r)'
    BY <1>1, <1>3 DEF UnderWay
  <1>5. \A q \in Request \ {r} : UnderWay(q)' <=> UnderWay(q)
    BY <1>1, <1>2 DEF UnderWay
  <1>6. OwnSender'
    BY <1>1, <1>2 DEF OwnSender
  <1>7. \A q \in Request : UnderWay(q)' => Means(req'[q].action, told)
    BY <1>2, <1>4, <1>5 DEF ApiLearns
  <1>8. \A q \in Request : sender'[q] # "none" /\ req'[q].at = "answered" => Done(told)'
    BY <1>1, <1>2, <1>3 DEF ApiLearns, Done
  <1> QED BY <1>1, <1>6, <1>7, <1>8 DEF ApiLearns, Done

\* An event is posted
LEMMA PostsLearn ==
  ASSUME TypeOK, OwnSender, NEW r \in Request, NEW action, NEW who, Posts(r, action, who)
  PROVE  /\ OwnSender' /\ state' = state
         /\ req'[r].action = action /\ req'[r].at = "select" /\ sender'[r] = who
         /\ \A q \in Request \ {r} : /\ req'[q] = req[q] /\ sender'[q] = sender[q]
                                     /\ UnderWay(q)' <=> UnderWay(q)
  <1>0. /\ req \in [Request -> [at : At, subject : Subject, action : Action, found : State]]
        /\ sender \in [Request -> {"none", "direct"} \cup Drain]
    BY DEF TypeOK, ServerTypeOK, EventTypeOK
  <1>1. /\ state' = state /\ req'[r].action = action /\ req'[r].at = "select"
        /\ req'[r].subject = Me /\ sender'[r] = who
        /\ \A q \in Request \ {r} : req'[q] = req[q] /\ sender'[q] = sender[q]
    BY <1>0 DEF Posts, Called
  <1>2. \A q \in Request \ {r} : UnderWay(q)' <=> UnderWay(q)
    BY <1>1 DEF UnderWay
  <1>3. OwnSender'
    BY <1>1 DEF OwnSender
  <1> QED BY <1>1, <1>2, <1>3

\* The promise of a request resolves, and well only if the API has learned
LEMMA ResolvedLearns ==
  ASSUME TypeOK, OwnSender, NEW told \in BOOLEAN, ApiLearns(told), NEW r \in Request,
         NEW ok \in BOOLEAN, Resolves(r, ok), ok /\ sender[r] # "none" => Done(told),
         state' = state, \A q \in Request \ {r} : req'[q] = req[q],
         req'[r] = req[r] \/ req'[r].at = "idle"
  PROVE  OwnSender' /\ ApiLearns(told)'
  <1>0. /\ sender \in [Request -> {"none", "direct"} \cup Drain] /\ queue \in SUBSET Row
        /\ drain \in [Drain -> SUBSET Row]
    BY DEF TypeOK, EventTypeOK
  <1>1. sender'[r] = "none" /\ \A q \in Request \ {r} : sender'[q] = sender[q]
    BY <1>0 DEF Resolves
  <1>2. OwnSender'
    BY <1>1 DEF OwnSender
  <1>3. \A q \in Request : UnderWay(q)' => UnderWay(q) /\ req'[q] = req[q]
    <2>1. \A q \in Request \ {r} : UnderWay(q)' => UnderWay(q)
      BY <1>1 DEF UnderWay
    <2>2. UnderWay(r)' => UnderWay(r) /\ req'[r] = req[r]
      BY <1>1 DEF UnderWay, Statement
    <2> QED BY <2>1, <2>2
  <1>4. \A q \in Request : UnderWay(q)' => Means(req'[q].action, told)
    BY <1>3 DEF ApiLearns
  <1>5. Done(told)' <=> Done(told)
    BY DEF Done
  <1>6. \A q \in Request : sender'[q] # "none" /\ req'[q].at = "answered" => Done(told)'
    BY <1>1, <1>5 DEF ApiLearns
  <1> SUFFICES /\ \A row \in queue' : Means(row.action, told)
               /\ \A d \in Drain : \A row \in drain'[d] : Means(row.action, told)
               /\ Done(told) \/ queue' # {} \/ \E q \in Request : sender'[q] = "direct"
    BY <1>2, <1>4, <1>5, <1>6 DEF ApiLearns
  <1>7. CASE (sender[r] = "none" \/ (sender[r] = "direct" /\ ok)) /\ UNCHANGED <<queue, drain, rows>>
    <2>1. Done(told) \/ queue' # {} \/ \E q \in Request : sender'[q] = "direct"
      BY <1>1, <1>7 DEF ApiLearns
    <2> QED BY <1>7, <2>1 DEF ApiLearns
  <1>8. CASE /\ sender[r] = "direct" /\ ~ok /\ drain' = drain
             /\ queue' = queue \cup {[id |-> rows + 1, action |-> req[r].action, retries |-> 0]}
    <2>1. Means(req[r].action, told)
      BY <1>8 DEF ApiLearns, UnderWay
    <2>2. \A x \in queue' : x \in queue \/ x.action = req[r].action
      BY <1>8
    <2>3. \A x \in queue' : Means(x.action, told)
      BY <2>1, <2>2 DEF ApiLearns
    <2>4. queue' # {}
      BY <1>8
    <2> QED BY <1>8, <2>3, <2>4 DEF ApiLearns
  <1>9. ASSUME NEW row \in Current(sender[r]), sender[r] \in Drain,
               drain' = [drain EXCEPT ![sender[r]] = @ \ {row}],
               queue' = IF ok THEN Deleted(row.id) ELSE Retried(row.id)
        PROVE  /\ \A x \in queue' : Means(x.action, told)
               /\ \A d \in Drain : \A x \in drain'[d] : Means(x.action, told)
               /\ Done(told) \/ queue' # {} \/ \E q \in Request : sender'[q] = "direct"
    <2>1. \A x \in queue' : \E y \in queue : x.action = y.action
      BY <1>0, <1>9 DEF Deleted, Retried, Row
    <2>2. \A d \in Drain : drain'[d] \subseteq drain[d]
      BY <1>0, <1>9
    <2>3. ~ok /\ queue # {} => queue' # {}
      BY <1>9 DEF Deleted, Retried
    <2>4. sender[r] # "none" /\ sender[r] # "direct"
      BY <1>9, DrainAssumption
    <2>5. ok => Done(told)
      BY <2>4
    <2>6. Done(told) \/ queue' # {} \/ \E q \in Request : sender'[q] = "direct"
      BY <1>1, <2>3, <2>4, <2>5 DEF ApiLearns
    <2>7. \A x \in queue' : Means(x.action, told)
      BY <2>1 DEF ApiLearns, Means
    <2> QED BY <2>2, <2>6, <2>7 DEF ApiLearns
  <1> QED BY <1>7, <1>8, <1>9 DEF Resolves

\* A reply, or a request that is given up
LEMMA RepliesLearn ==
  ASSUME TypeOK, OwnSender, NEW told \in BOOLEAN, ApiLearns(told), NEW r \in Request,
         Reply(r) \/ GiveUp(r)
  PROVE  OwnSender' /\ ApiLearns(told)'
  <1>0. req \in [Request -> [at : At, subject : Subject, action : Action, found : State]]
    BY DEF TypeOK, ServerTypeOK
  <1>1. CASE Reply(r)
    <2>1. /\ state' = state /\ req'[r].at = "idle" /\ \A q \in Request \ {r} : req'[q] = req[q]
      BY <1>0, <1>1, NoEventType DEF Reply, Over
    <2>2. Resolves(r, req[r].at = "answered") /\ (req[r].at = "answered") \in BOOLEAN
      BY <1>1 DEF Reply
    <2>3. req[r].at = "answered" /\ sender[r] # "none" => Done(told)
      BY DEF ApiLearns
    <2> QED BY <2>1, <2>2, <2>3, ResolvedLearns
  <1>2. CASE GiveUp(r)
    <2>1. state' = state /\ req' = req /\ Resolves(r, FALSE)
      BY <1>2 DEF GiveUp, serverVars
    <2> QED BY <2>1, ResolvedLearns
  <1> QED BY <1>1, <1>2

\* The rows of the queue
LEMMA DrainsLearn ==
  ASSUME TypeOK, OwnSender, NEW told \in BOOLEAN, ApiLearns(told), NEW d \in Drain,
         StartDrain(d) \/ SendRow(d), spoiled' = {}
  PROVE  OwnSender' /\ ApiLearns(told)'
  <1>0. drain \in [Drain -> SUBSET Row]
    BY DEF TypeOK, EventTypeOK
  <1>1. CASE StartDrain(d)
    <2>1. /\ UNCHANGED <<req, state, sender>> /\ queue' = queue
          /\ drain' = [drain EXCEPT ![d] = queue]
      BY <1>1 DEF StartDrain, Spoils, serverVars
    <2>2. \A e \in Drain : drain'[e] = drain[e] \/ drain'[e] = queue
      BY <1>0, <2>1
    <2>3. OwnSender'
      BY <2>1 DEF OwnSender
    <2> QED BY <2>1, <2>2, <2>3 DEF ApiLearns, UnderWay, Done
  <1>2. CASE SendRow(d)
    <2>1. PICK r \in Request, row \in Current(d) : Posts(r, row.action, d)
      BY <1>2 DEF SendRow
    <2>2. UNCHANGED <<queue, drain>> /\ Means(row.action, told)
      BY <1>2 DEF SendRow, Current, ApiLearns
    <2>3. /\ OwnSender' /\ state' = state
          /\ req'[r].action = row.action /\ req'[r].at = "select"
          /\ \A q \in Request \ {r} : /\ req'[q] = req[q] /\ sender'[q] = sender[q]
                                      /\ UnderWay(q)' <=> UnderWay(q)
      BY <2>1, PostsLearn
    <2>4. sender[r] = "none"
      BY <2>1 DEF Posts
    <2>5. Done(told)' \/ queue' # {} \/ \E q \in Request : sender'[q] = "direct"
      BY <2>2, <2>3, <2>4 DEF ApiLearns, Done
    <2>6. \A q \in Request : UnderWay(q)' => Means(req'[q].action, told)
      BY <2>2, <2>3 DEF ApiLearns
    <2>7. \A q \in Request : sender'[q] # "none" /\ req'[q].at = "answered" => Done(told)'
      BY <2>3 DEF ApiLearns, Done
    <2> QED BY <2>2, <2>3, <2>5, <2>6, <2>7 DEF ApiLearns
  <1> QED BY <1>1, <1>2

-----------------------------------------------------------------------------
(* What the list is told by *)

\* Whether a team is in the list depends on the toggles of that team only
LEMMA ToggledElse ==
  ASSUME NEW ids, NEW team, team # Tracked
  PROVE  Tracked \in Toggled(ids, team) <=> Tracked \in ids
  BY DEF Toggled

\* What the list says of the team, action by action
LEMMA TapTells ==
  ASSUME TypeOK, InTurn, NEW told, ListTells(told), NEW t \in Toggle, NEW team, Tap(t, team)
  PROVE  ListTells(told)'
  <1>0. toggle \in [Toggle -> ToggleState]
    BY DEF TypeOK, ListTypeOK
  <1>1. /\ toggle[t].at = "idle" /\ ~toggle'[t].again
        /\ \A u \in Toggle \ {t} : toggle'[u] = toggle[u]
        /\ asked' = asked /\ sqlite' = sqlite /\ stored' = stored
    BY <1>0 DEF Tap
  <1> QED BY <1>1, TellsAside

\* A list is made of what SQLite has
LEMMA LoadTells ==
  ASSUME TypeOK, InTurn, NEW told, ListTells(told), NEW t \in Toggle, Load(t), spoiled' = {}
  PROVE  ListTells(told)'
  <1>0. toggle[t].at = "load" /\ asked \in Seq(Toggle)
    BY DEF Load, TypeOK, ListTypeOK
  <1> DEFINE list == Toggled(sqlite, toggle[t].team)
  <1>1. \/ Ends(t) /\ asked' = asked /\ sqlite' = sqlite /\ stored' = stored /\ Unsent(t) = {}
        \/ /\ Becomes(t, "stored", list, toggle[t].again) /\ asked' = Append(asked, t)
           /\ sqlite' = list /\ stored' = stored
        \/ /\ Goes(t, "legacy") /\ asked' = Append(asked, t) /\ UNCHANGED <<sqlite, stored>>
    BY DEF Load, Decide, Spoils
  <1>2. CASE Ends(t) /\ asked' = asked /\ sqlite' = sqlite /\ stored' = stored /\ Unsent(t) = {}
    <2>1. ~toggle[t].again
      BY <1>2 DEF Unsent
    <2>2. toggle'[t].at = "idle" /\ \A u \in Toggle \ {t} : toggle'[u] = toggle[u]
      BY <1>2, EndsWhere
    <2> QED BY <1>0, <1>2, <2>1, <2>2, TellsAside
  <1>3. CASE /\ Becomes(t, "stored", list, toggle[t].again) /\ asked' = Append(asked, t)
             /\ sqlite' = list /\ stored' = stored
    <2> HIDE DEF list
    <2>1. /\ toggle'[t].at = "stored" /\ toggle'[t].team = toggle[t].team
          /\ toggle'[t].list = list /\ toggle'[t].again = toggle[t].again
          /\ \A u \in Toggle \ {t} : toggle'[u] = toggle[u]
      BY <1>3, BecomesWhere
    <2>2. CASE toggle[t].team = Tracked
      BY <1>0, <1>3, <2>1, <2>2, TellsTracked
    <2>3. CASE toggle[t].team # Tracked
      <3>1. Tracked \in list <=> Tracked \in sqlite
        BY <2>3, ToggledElse DEF list
      <3>2. (Tracked \in toggle'[t].list <=> Follows) /\ (Follows' <=> Follows)
        BY <1>3, <2>1, <3>1 DEF Follows
      <3>3. Follows' = Follows
        BY <3>2 DEF Follows
      <3> QED BY <1>0, <1>3, <2>1, <2>3, <3>2, <3>3, TellsOther
    <2> QED BY <2>2, <2>3
  <1>4. CASE Goes(t, "legacy") /\ asked' = Append(asked, t) /\ UNCHANGED <<sqlite, stored>>
    <2>1. /\ toggle'[t].at = "legacy" /\ toggle'[t].team = toggle[t].team
          /\ toggle'[t].again = toggle[t].again
          /\ \A u \in Toggle \ {t} : toggle'[u] = toggle[u]
      BY <1>4, BecomesWhere DEF Goes
    <2>2. Follows' = Follows
      BY <1>4 DEF Follows
    <2> QED BY <1>0, <1>4, <2>1, <2>2, TellsOther
  <1> QED BY <1>1, <1>2, <1>3, <1>4

\* A list is made of the one to import
LEMMA LegacyTells ==
  ASSUME TypeOK, InTurn, LastIsKept, NEW told, ListTells(told), NEW t \in Toggle, Legacy(t),
         spoiled' = {}
  PROVE  ListTells(told)'
  <1>0. /\ asked # <<>> /\ Head(asked) = t /\ toggle[t].at \in {"legacy", "fallback"}
        /\ asked \in Seq(Toggle)
    BY DEF Legacy, Answered, TypeOK, ListTypeOK
  <1> DEFINE list == Toggled(stored, toggle[t].team)
             table == IF toggle[t].at = "legacy" /\ stored # {} THEN stored ELSE sqlite
  <1>1. /\ Overlaps(t) = {} /\ spoiled = {}
        /\ \/ /\ Ends(t) /\ asked' = Tail(asked) /\ sqlite' = table /\ stored' = stored
              /\ Unsent(t) = {}
           \/ /\ Becomes(t, "stored", list, toggle[t].again) /\ asked' = Append(Tail(asked), t)
              /\ sqlite' = list /\ stored' = stored
    BY DEF Legacy, Decide, Spoils
  <1>2. \A u \in Toggle \ {t} : toggle[u].at \in {"idle", "load"}
    BY <1>1 DEF Overlaps
  <1>3. Len(asked) = 1 /\ Tail(asked) = <<>> /\ Place = {1} /\ asked[1] = t
    BY <1>0, <1>2, OnlyOne
  <1>4. toggle[t].at = "legacy"
    BY <1>0, <1>1 DEF LastIsKept
  <1>5. sqlite = {} /\ ~KeepsTracked(1)
    <2>1. ~Keeps(1)
      BY <1>3, <1>4 DEF Keeps
    <2>2. sqlite = {} \/ \E j \in Place : j > 1 /\ Keeps(j)
      BY <1>1, <1>3, <1>4 DEF LastIsKept
    <2> QED BY <1>3, <2>1, <2>2 DEF KeepsTracked
  <1>6. ~Anew => ~told /\ ~Follows /\ Tracked \notin stored
    BY <1>3, <1>5 DEF ListTells, Follows
  <1>7. CASE /\ Ends(t) /\ asked' = Tail(asked) /\ sqlite' = table /\ stored' = stored
             /\ Unsent(t) = {}
    <2>1. ~toggle[t].again
      BY <1>7 DEF Unsent
    <2>2. \A u \in Toggle \ {t} : toggle'[u] = toggle[u]
      BY <1>7, EndsWhere
    <2>3. Anew => Anew'
      BY <2>1, <2>2 DEF Anew
    <2>4. Place' = {}
      BY <1>3, <1>7 DEF Place
    <2>5. Follows' <=> Tracked \in stored
      BY <1>4, <1>5, <1>7 DEF Follows
    <2> QED BY <1>6, <1>7, <2>3, <2>4, <2>5 DEF ListTells
  <1>8. CASE /\ Becomes(t, "stored", list, toggle[t].again) /\ asked' = Append(Tail(asked), t)
             /\ sqlite' = list /\ stored' = stored
    <2>0. Tail(asked) \in Seq(Toggle)
      BY <1>0
    <2> HIDE DEF list
    <2>1. /\ toggle'[t].at = "stored" /\ toggle'[t].team = toggle[t].team
          /\ toggle'[t].list = list /\ toggle'[t].again = toggle[t].again
          /\ \A u \in Toggle \ {t} : toggle'[u] = toggle[u]
      BY <1>8, BecomesWhere
    <2>2. CASE toggle[t].team = Tracked
      BY <1>8, <2>0, <2>1, <2>2, TellsTracked
    <2>3. CASE toggle[t].team # Tracked
      <3>1. Follows' <=> Tracked \in stored
        BY <1>8, <2>3, ToggledElse DEF Follows, list
      <3>2. Anew => Anew'
        BY <2>1, <2>3 DEF Anew
      <3>3. Len(asked') = 1 /\ asked'[1] = t
        <4> DEFINE q == Tail(asked)
        <4>1. q \in Seq(Toggle) /\ Len(q) = 0 /\ asked' = Append(q, t)
          BY <1>3, <1>8, <2>0
        <4> HIDE DEF q
        <4>2. Len(asked') = Len(q) + 1 /\ asked'[Len(q) + 1] = t
          BY <4>1, AppendWhere
        <4> QED BY <4>1, <4>2
      <3>4. Place' = {1} /\ List(1)' = sqlite'
        BY <1>8, <2>1, <3>3 DEF Place, List
      <3>5. Tracked \in List(1)' <=> Follows'
        BY <3>4 DEF Follows
      <3> HIDE DEF Place, Keeps, List, KeepsTracked, Anew, Follows
      <3> QED BY <1>6, <1>8, <3>1, <3>2, <3>4, <3>5 DEF ListTells
    <2> QED BY <2>2, <2>3
  <1> QED BY <1>1, <1>7, <1>8

\* AsyncStorage keeps a list or does not: the event of the toggle is posted, or the toggle
\* is to make its list anew
LEMMA StoredTells ==
  ASSUME TypeOK, InTurn, OwnSender, NEW told \in BOOLEAN, ListTells(told), ApiLearns(told),
         NEW t \in Toggle, Stored(t), spoiled' = {}
  PROVE  OwnSender' /\ \E after \in BOOLEAN : ListTells(after)' /\ ApiLearns(after)'
  <1>0. /\ asked # <<>> /\ Head(asked) = t /\ toggle[t].at = "stored"
        /\ asked' = Tail(asked) /\ sqlite' = sqlite /\ UNCHANGED <<queue, drain>>
    BY DEF Stored, Answered
  <1>1. CASE /\ stored' = toggle[t].list /\ Ends(t)
             /\ toggle[t].team = Tracked =>
                  /\ ~Pending
                  /\ \E r \in Request :
                       Posts(r, IF Tracked \in toggle[t].list THEN "follow" ELSE "unfollow", "direct")
             /\ toggle[t].team # Tracked => UNCHANGED <<serverVars, sender>>
    <2>0. \A u \in Toggle \ {t} : toggle'[u] = toggle[u]
      BY <1>1, EndsWhere
    <2>1. CASE toggle[t].team = Tracked
      <3>1. PICK after \in BOOLEAN : after <=> Tracked \in toggle[t].list
        OBVIOUS
      <3>2. PICK r \in Request : Posts(r, IF after THEN "follow" ELSE "unfollow", "direct")
        BY <1>1, <2>1, <3>1
      <3>3. ~Pending
        BY <1>1, <2>1
      <3>4. ListTells(after)'
        BY <1>0, <1>1, <2>0, <2>1, <3>1, TellsAnswered
      <3>5. /\ OwnSender' /\ state' = state /\ sender'[r] = "direct"
            /\ req'[r].action = (IF after THEN "follow" ELSE "unfollow") /\ req'[r].at = "select"
            /\ \A q \in Request \ {r} : /\ req'[q] = req[q] /\ sender'[q] = sender[q]
                                        /\ UnderWay(q)' <=> UnderWay(q)
        BY <3>2, PostsLearn
      <3>6. \A q \in Request : ~UnderWay(q) /\ sender[q] = "none"
        BY <3>3 DEF Pending, UnderWay
      <3>7. \A q \in Request : UnderWay(q)' => Means(req'[q].action, after)
        BY <3>5, <3>6 DEF Means
      <3>8. queue' = {} /\ \A d \in Drain : drain'[d] = {}
        BY <1>0, <3>3 DEF Pending
      <3>9. \A q \in Request : ~(sender'[q] # "none" /\ req'[q].at = "answered")
        BY <3>5, <3>6
      <3>10. ApiLearns(after)'
        BY <3>5, <3>7, <3>8, <3>9 DEF ApiLearns
      <3> QED BY <3>1, <3>4, <3>5, <3>10
    <2>2. CASE toggle[t].team # Tracked
      <3>1. ListTells(told)'
        BY <1>0, <1>1, <2>0, <2>2, TellsAnswered
      <3>2. UNCHANGED <<req, state, sender>>
        BY <1>1, <2>2 DEF serverVars
      <3> QED BY <1>0, <3>1, <3>2 DEF OwnSender, ApiLearns, UnderWay, Done
    <2> QED BY <2>1, <2>2
  <1>2. CASE AttemptFails(t) /\ stored' = stored /\ UNCHANGED <<serverVars, sender>> /\ ~toggle[t].again
    <2>1. /\ \A u \in Toggle \ {t} : toggle'[u] = toggle[u]
          /\ toggle'[t].at = "load" /\ toggle'[t].again /\ toggle'[t].team = toggle[t].team
      BY <1>2, FailsWhere
    <2>2. toggle[t].team = Tracked => Anew'
      BY <2>1 DEF Anew
    <2>3. ListTells(told)'
      BY <1>0, <1>2, <2>1, <2>2, TellsAnswered
    <2> QED BY <1>0, <1>2, <2>3 DEF OwnSender, ApiLearns, UnderWay, Done, serverVars
  <1>3. \/ /\ stored' = toggle[t].list /\ Ends(t)
           /\ IF toggle[t].team = Tracked
              THEN /\ \E r \in Request :
                        Posts(r, IF Tracked \in toggle[t].list THEN "follow" ELSE "unfollow", "direct")
                   /\ Spoils(IF Pending THEN {"order"} ELSE {})
              ELSE UNCHANGED <<serverVars, sender>>
        \/ /\ AttemptFails(t) /\ stored' = stored /\ UNCHANGED <<serverVars, sender>>
           /\ Spoils(IF toggle[t].again THEN {"list"} ELSE {})
    BY DEF Stored
  <1>4. Spoils(IF Pending THEN {"order"} ELSE {}) => ~Pending
    BY DEF Spoils
  <1>5. Spoils(IF toggle[t].again THEN {"list"} ELSE {}) => ~toggle[t].again
    BY DEF Spoils
  <1> QED BY <1>1, <1>2, <1>3, <1>4, <1>5

\* The app ends while nothing but rows of the queue is on its way
LEMMA RestartTells ==
  ASSUME TypeOK, InTurn, OwnSender, NEW told \in BOOLEAN, ListTells(told), ApiLearns(told),
         Restart, spoiled' = {}
  PROVE  OwnSender' /\ ListTells(told)' /\ ApiLearns(told)'
  <1>1. /\ \A t \in Toggle : toggle[t].at = "idle"
        /\ \A r \in Request : sender[r] # "direct"
    BY DEF Restart, Spoils
  <1>2. /\ UNCHANGED <<req, state, stored, queue>> /\ asked' = <<>>
        /\ \A d \in Drain : drain'[d] = {}
        /\ \A r \in Request : sender'[r] = "none"
        /\ sqlite' = (IF sqlite = {} THEN stored ELSE sqlite)
    BY DEF Restart, Kept, serverVars
  <1>3. Place = {}
    <2>1. \A i \in Place : asked[i] \in Toggle
      BY DEF Place, TypeOK, ListTypeOK
    <2> QED BY <1>1, <2>1 DEF InTurn
  <1>4. ~Anew
    BY <1>1 DEF Anew
  <1>5. (told <=> Follows) /\ (Tracked \in stored <=> Follows)
    BY <1>3, <1>4 DEF ListTells
  <1>6. Place' = {}
    BY <1>2 DEF Place
  <1>7. Follows' <=> Follows
    BY <1>2, <1>5 DEF Follows
  <1>8. ListTells(told)'
    BY <1>2, <1>5, <1>6, <1>7 DEF ListTells
  <1>9. ApiLearns(told)'
    BY <1>1, <1>2 DEF ApiLearns, UnderWay, Done
  <1> QED BY <1>2, <1>8, <1>9 DEF OwnSender

\* SQLite is given the list of AsyncStorage while no toggle waits for AsyncStorage
LEMMA ReloadTells ==
  ASSUME TypeOK, InTurn, NEW told \in BOOLEAN, ListTells(told), Reload, spoiled' = {}
  PROVE  ListTells(told)'
  <1>1. /\ UNCHANGED <<asked, toggle, stored>> /\ sqlite' = Kept
        /\ sqlite = {} => \A t \in Toggle : toggle[t].at \in {"idle", "load"}
    BY DEF Reload, Spoils
  <1>2. CASE sqlite # {}
    <2>1. sqlite' = sqlite
      BY <1>1, <1>2 DEF Kept
    <2> QED BY <1>1, <2>1 DEF ListTells, Place, Keeps, List, KeepsTracked, Anew, Follows
  <1>3. CASE sqlite = {}
    <2>1. \A i \in Place : asked[i] \in Toggle
      BY DEF Place, TypeOK, ListTypeOK
    <2>2. Place = {} /\ Place' = Place
      BY <1>1, <1>3, <2>1 DEF InTurn, Place
    <2>3. Anew' <=> Anew
      BY <1>1 DEF Anew
    <2>4. ~Anew => (told <=> Follows) /\ (Tracked \in stored <=> Follows)
      BY <2>2 DEF ListTells
    <2>5. Follows' <=> Tracked \in stored
      BY <1>1, <1>3 DEF Follows, Kept
    <2> QED BY <1>1, <2>2, <2>3, <2>4, <2>5 DEF ListTells
  <1> QED BY <1>2, <1>3

-----------------------------------------------------------------------------
(* The app and the API in step *)

\* At first the phone follows nothing and nothing is on its way
LEMMA StepStarts == Init => StepInv
  <1> SUFFICES ASSUME Init  PROVE StepInv
    OBVIOUS
  <1>1. ListInv
    BY ListStarts, AppStart DEF ListInv
  <1>2. /\ \A r \in Request : sender[r] = "none" /\ req[r].at = "idle"
        /\ queue = {} /\ \A d \in Drain : drain[d] = {}
        /\ state[Me] = "none" /\ Tracked \notin stored /\ sqlite = stored
    BY NoEventType, TrackedAssumption DEF Init, ServerInit
  <1>3. OwnSender
    BY <1>2 DEF OwnSender
  <1>4. ApiLearns(FALSE)
    BY <1>2 DEF ApiLearns, UnderWay, Statement, Done
  <1>5. ListTells(FALSE)
    <2>1. Place = {}
      BY DEF Init, Place
    <2> QED BY <1>2, <2>1 DEF ListTells, Follows
  <1> QED BY <1>1, <1>3, <1>4, <1>5 DEF StepInv, Told

\* What has gone wrong is not forgotten
LEMMA SpoiltStays == [Next]_vars => spoiled \subseteq spoiled'
  BY DEF Next, vars, Tap, Load, Legacy, Stored, Decide, Reply, GiveUp, ServerStep, Other,
         StartDrain, SendRow, Flush, Reload, Restart, Spoils

\* A step that leaves the requests and the queue alone
LEMMA EventsUnmoved ==
  ASSUME OwnSender, NEW told, ApiLearns(told), UNCHANGED <<serverVars, eventVars>>
  PROVE  OwnSender' /\ ApiLearns(told)'
  BY DEF OwnSender, ApiLearns, UnderWay, Done, serverVars, eventVars

\* A step that leaves the list and AsyncStorage alone
LEMMA TellsUnmoved ==
  ASSUME NEW told, ListTells(told), UNCHANGED <<sqlite, stored, asked, toggle>>
  PROVE  ListTells(told)'
  BY DEF ListTells, Place, Keeps, List, KeepsTracked, Anew, Follows

\* The invariant is inductive
LEMMA StepStep == StepInv /\ [Next]_vars => StepInv'
  <1> SUFFICES ASSUME StepInv, [Next]_vars, spoiled' = {}
               PROVE  OwnSender' /\ \E told \in BOOLEAN : ListTells(told)' /\ ApiLearns(told)'
    BY ListStep DEF StepInv, Told
  <1>0. TypeOK /\ InTurn /\ LastIsKept /\ OwnSender
        /\ \E told \in BOOLEAN : ListTells(told) /\ ApiLearns(told)
    BY SpoiltStays DEF StepInv, ListInv, Told
  <1>1. PICK told \in BOOLEAN : ListTells(told) /\ ApiLearns(told)
    BY <1>0
  <1>2. ASSUME NEW t \in Toggle, NEW team \in Team, Tap(t, team)
        PROVE  OwnSender' /\ ListTells(told)' /\ ApiLearns(told)'
    <2>1. UNCHANGED <<serverVars, eventVars>>
      BY <1>2 DEF Tap
    <2> QED BY <1>0, <1>1, <1>2, <2>1, TapTells, EventsUnmoved
  <1>3. ASSUME NEW t \in Toggle, Load(t) \/ Legacy(t)
        PROVE  OwnSender' /\ ListTells(told)' /\ ApiLearns(told)'
    <2>1. UNCHANGED <<serverVars, eventVars>>
      BY <1>3 DEF Load, Legacy
    <2> QED BY <1>0, <1>1, <1>3, <2>1, LoadTells, LegacyTells, EventsUnmoved
  <1>4. ASSUME NEW t \in Toggle, Stored(t)
        PROVE  OwnSender' /\ \E after \in BOOLEAN : ListTells(after)' /\ ApiLearns(after)'
    BY <1>0, <1>1, <1>4, StoredTells
  <1>5. ASSUME NEW r \in Request, Reply(r) \/ GiveUp(r) \/ ServerStep(r)
        PROVE  OwnSender' /\ ListTells(told)' /\ ApiLearns(told)'
    <2>1. UNCHANGED <<sqlite, stored, asked, toggle>>
      BY <1>5 DEF Reply, GiveUp, ServerStep, listVars
    <2> QED BY <1>0, <1>1, <1>5, <2>1, RepliesLearn, ServedLearns, TellsUnmoved
  <1>6. ASSUME NEW r \in Request, NEW action \in Action, Other(r, action)
        PROVE  OwnSender' /\ ListTells(told)' /\ ApiLearns(told)'
    <2>1. UNCHANGED <<sqlite, stored, asked, toggle>>
      BY <1>6 DEF Other
    <2> QED BY <1>0, <1>1, <1>6, <2>1, OtherLearns, TellsUnmoved
  <1>7. ASSUME NEW d \in Drain, StartDrain(d) \/ SendRow(d)
        PROVE  OwnSender' /\ ListTells(told)' /\ ApiLearns(told)'
    <2>1. UNCHANGED <<sqlite, stored, asked, toggle>>
      BY <1>7 DEF StartDrain, SendRow, listVars
    <2> QED BY <1>0, <1>1, <1>7, <2>1, DrainsLearn, TellsUnmoved
  <1>8. CASE Restart
    BY <1>0, <1>1, <1>8, RestartTells
  <1>9. CASE UNCHANGED vars
    <2>1. UNCHANGED <<sqlite, stored, asked, toggle>> /\ UNCHANGED <<serverVars, eventVars>>
      BY <1>9 DEF vars, listVars
    <2> QED BY <1>0, <1>1, <2>1, EventsUnmoved, TellsUnmoved
  <1>10. CASE Flush \/ Reload
    <2>1. UNCHANGED <<serverVars, eventVars>> /\ (Flush => UNCHANGED <<sqlite, stored, asked, toggle>>)
      BY <1>10 DEF Flush, Reload
    <2> QED BY <1>0, <1>1, <1>10, <2>1, EventsUnmoved, ReloadTells, TellsUnmoved
  <1> QED BY <1>1, <1>2, <1>3, <1>4, <1>5, <1>6, <1>7, <1>8, <1>9, <1>10 DEF Next

\* Once nothing is on its way, the event that was posted last says what the list says, and
\* the API has learned it
LEMMA StepAtRest == StepInv => InStep
  <1> SUFFICES ASSUME StepInv, Rest, ~Pending, spoiled = {}
               PROVE  Tracked \in sqlite <=> state[Me] = "followed"
    BY DEF InStep
  <1>1. PICK told \in BOOLEAN : ListTells(told) /\ ApiLearns(told)
    BY DEF StepInv, Told
  <1>2. Place = {}
    <2>1. \A i \in Place : asked[i] \in Toggle
      BY DEF Place, StepInv, ListInv, TypeOK, ListTypeOK
    <2> QED BY <2>1 DEF Rest, InTurn, StepInv, ListInv
  <1>3. ~Anew
    BY DEF Anew, Rest
  <1>4. told <=> Tracked \in sqlite
    BY <1>1, <1>2, <1>3 DEF ListTells, Follows
  <1>5. Done(told)
    BY <1>1 DEF ApiLearns, Pending
  <1> QED BY <1>4, <1>5 DEF Done

\* Once nothing is on its way the API counts this phone exactly when it follows the team,
\* for any teams, requests, toggles and drains, and any length of the list (toggleFollow,
\* postFollowEvent, drainMutationQueue and recordEvent together).
THEOREM FollowsInStep == Spec => []InStep
  BY StepStarts, StepStep, StepAtRest, PTL DEF Spec

===============================================================================
