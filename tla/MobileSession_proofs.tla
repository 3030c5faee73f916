-------------------------- MODULE MobileSession_proofs --------------------------
(* Theorems about MobileSession, for every value of its constants: any      *)
(* number of requests, tokens and callers, whatever is lost and whenever.   *)
EXTENDS MobileSession, TLAPS, FiniteSetTheorems

Served ==
  [op : {"none", "rotate", "issue", "revoke", "purge"},
   at : {"free", "start", "insert", "revoke", "update", "answered"},
   token : Token \cup {NoToken}, who : Nat, seen : SUBSET Token,
   reply : {"none", "ok", "refused", "error"}]

Stored ==
  [state : {"none", "live", "expired", "rotated", "revoked"},
   family : Family \cup {NoFamily}, subject : Nat]

\* The types that the locks need. They leave subjects and device ids unbounded, which takes
\* a count of the erasures to bound (Counted, below).
Typed ==
  /\ row \in [Token -> Stored]
  /\ req \in [Request -> Served]
  /\ stored \in Token \cup {NoToken}
  /\ device \in Nat
  /\ flight \in FlightState
  /\ flight.at \in {"refresh", "attesting"} => flight.req \in Request

\* A request presents a token
Presented ==
  \A r \in Request : req[r].op \in {"rotate", "revoke"} => req[r].token \in Token

\* A rotation that has found its row live keeps it so until it commits
Rotating ==
  \A r \in Request :
    req[r].at = "insert" => req[r].op = "rotate" /\ row[req[r].token].state = "live"

Holds(r) == req[r].op = "rotate" /\ req[r].at \in {"insert", "revoke", "update"}

\* No two transactions hold one row
Exclusive ==
  \A r, q \in Request :
    Holds(r) /\ Holds(q) /\ req[r].token = req[q].token => r = q

\* The inductive invariant. AtMostOneLive is not inductive: the row that a rotation is
\* about to replace must still be the live one.
SessionInv == Typed /\ Presented /\ Rotating /\ Exclusive /\ AtMostOneLive

-----------------------------------------------------------------------------
(* Locks *)

LEMMA NotLocked ==
  ASSUME NEW r \in Request, NEW t, t \notin LockedByOthers(r), NEW q \in Request \ {r}, Holds(q)
  PROVE  req[q].token # t
  <1>1. Locks(q) = {req[q].token}
    BY DEF Locks, Holds
  <1> QED BY <1>1 DEF LockedByOthers

\* The requests that work on go on with what they began, and the rows that rotations
\* have found live stay so
LEMMA WorkGoesOn ==
  ASSUME SessionInv,
         \A r \in Request : \/ /\ req'[r].op = req[r].op /\ req'[r].at = req[r].at
                               /\ req'[r].token = req[r].token
                            \/ req'[r].at \notin {"insert", "revoke", "update"},
         \A r \in Request : req[r].at = "insert" /\ req'[r].at = "insert"
                              => row'[req[r].token].state = "live"
  PROVE  Rotating' /\ Exclusive'
  BY DEF SessionInv, Rotating, Exclusive, Holds

\* No row becomes live
LEMMA NoneRises ==
  ASSUME AtMostOneLive,
         \A t \in Token : row'[t].state = "live"
                            => row[t].state = "live" /\ row'[t].family = row[t].family
  PROVE  AtMostOneLive'
  BY DEF AtMostOneLive

\* What the phone and the end of a request do to the requests
LEMMA RowsStay ==
  ASSUME SessionInv, row' = row, Typed', Presented',
         \A r \in Request : \/ /\ req'[r].op = req[r].op /\ req'[r].at = req[r].at
                               /\ req'[r].token = req[r].token
                            \/ req'[r].at \notin {"insert", "revoke", "update"}
  PROVE  SessionInv'
  <1>1. Rotating' /\ Exclusive'
    BY WorkGoesOn DEF SessionInv, Rotating
  <1>2. AtMostOneLive'
    BY NoneRises DEF SessionInv
  <1> QED BY <1>1, <1>2 DEF SessionInv

-----------------------------------------------------------------------------
(* The server *)

LEMMA SeenLess ==
  ASSUME NEW x \in Served, NEW t, NEW y, y = [x EXCEPT !.seen = x.seen \ {t}]
  PROVE  y \in Served /\ y.op = x.op /\ y.at = x.at /\ y.token = x.token
  BY DEF Served

LEMMA IdleServed == Idle \in Served /\ Idle.op = "none" /\ Idle.at = "free"
  BY DEF Idle, Served

LEMMA ReplyServed ==
  ASSUME NEW t \in Token \cup {NoToken}, NEW reply \in {"ok", "refused", "error"}
  PROVE  /\ ReplyWith(reply, t) \in Served /\ ReplyWith(reply, t).op = "none"
         /\ ReplyWith(reply, t).at = "answered"
  BY DEF ReplyWith, Served

\* The request is over, and the others are where they were
LEMMA Answered ==
  ASSUME SessionInv, NEW r \in Request, NEW t \in Token \cup {NoToken},
         NEW reply \in {"ok", "refused", "error"}, Answer(r, reply, t)
  PROVE  /\ req' \in [Request -> Served]
         /\ req'[r].op = "none" /\ req'[r].at \in {"free", "answered"}
         /\ \A q \in Request \ {r} :
              req'[q].op = req[q].op /\ req'[q].at = req[q].at /\ req'[q].token = req[q].token
  <1> DEFINE After(q) == CASE q # r -> [req[q] EXCEPT !.seen = @ \ {t}]
                           [] q = r /\ r \in Awaited ->
                                ReplyWith(reply, t)
                           [] OTHER -> Idle
  <1>1. req' = [q \in Request |-> After(q)]
    BY DEF Answer
  <1>2. \A q \in Request \ {r} : After(q) = [req[q] EXCEPT !.seen = @ \ {t}]
    OBVIOUS
  <1>3. After(r) = Idle \/ After(r) = ReplyWith(reply, t)
    OBVIOUS
  <1>4. \A q \in Request \ {r} : req'[q] = [req[q] EXCEPT !.seen = @ \ {t}]
    BY <1>1, <1>2
  <1>5. req'[r] = Idle \/ req'[r] = ReplyWith(reply, t)
    BY <1>1, <1>3
  <1> HIDE DEF After
  <1>6. req \in [Request -> Served]
    BY DEF SessionInv, Typed
  <1>7. ASSUME NEW q \in Request \ {r}
        PROVE  /\ req'[q] \in Served
               /\ req'[q].op = req[q].op /\ req'[q].at = req[q].at /\ req'[q].token = req[q].token
    <2>1. req[q] \in Served /\ req'[q] = [req[q] EXCEPT !.seen = req[q].seen \ {t}]
      BY <1>4, <1>6
    <2> QED BY <2>1, SeenLess
  <1>8. req'[r] \in Served /\ req'[r].op = "none" /\ req'[r].at \in {"free", "answered"}
    BY <1>5, IdleServed, ReplyServed
  <1>9. req' \in [Request -> Served]
    BY <1>1, <1>7, <1>8
  <1> QED BY <1>7, <1>8, <1>9

\* A request ends and no row changes
LEMMA JustAnswered ==
  ASSUME SessionInv, NEW r \in Request, NEW reply \in {"ok", "refused", "error"},
         Answer(r, reply, NoToken), UNCHANGED <<row, stored, device, flight>>
  PROVE  SessionInv'
  <1>1. Typed' /\ Presented'
    BY Answered DEF SessionInv, Typed, Presented
  <1> QED BY <1>1, Answered, RowsStay

LEMMA RotateSelectInv ==
  ASSUME SessionInv, NEW r \in Request, RotateSelect(r)
  PROVE  SessionInv'
  <1> DEFINE t == req[r].token
  <1>1. UNCHANGED <<row, stored, device, flight>>
    BY DEF RotateSelect, phone
  <1>2. \/ row[t].state = "live" /\ req' = [req EXCEPT ![r].at = "insert"]
        \/ req' = [req EXCEPT ![r].at = "revoke"]
        \/ Answer(r, "refused", NoToken)
    BY DEF RotateSelect
  <1>3. CASE Answer(r, "refused", NoToken)
    BY <1>1, <1>3, JustAnswered
  <1>4. ASSUME NEW at \in {"insert", "revoke"}, req' = [req EXCEPT ![r].at = at],
               at = "insert" => row[t].state = "live"
        PROVE  SessionInv'
    <2>1. Typed' /\ Presented'
      BY <1>1, <1>4 DEF SessionInv, Typed, Served, Presented
    <2>2. \A q \in Request \ {r} : Holds(q) => req[q].token # t
      BY NotLocked DEF RotateSelect
    <2>3. Exclusive'
      BY <2>2, <1>4 DEF SessionInv, Typed, Served, Exclusive, Holds, RotateSelect
    <2>4. Rotating'
      BY <1>1, <1>4 DEF SessionInv, Typed, Served, Rotating, RotateSelect
    <2> QED BY <1>1, <2>1, <2>3, <2>4, NoneRises DEF SessionInv
  <1> QED BY <1>2, <1>3, <1>4

\* A rotation's row is one that somebody will look at again
LEMMA KeptRows ==
  ASSUME NEW r \in Request
  PROVE  req[r].token \notin Unused
  BY DEF Unused, Remembered

LEMMA NewToken ==
  ASSUME Unused # {}
  PROVE  New \in Unused /\ New \in Token
  BY DEF New, Unused

\* A row is inserted: of the rows that were there, those that are kept do not change, and
\* the others are blank
LEMMA InsertRow ==
  ASSUME Unused # {}, NEW rows, NEW f, NEW s, row' = Inserted(rows, f, s)
  PROVE  /\ \A t \in Token \ Unused : row'[t] = rows[t]
         /\ \A t \in Unused \ {New} : row'[t] = NoRow
         /\ row'[New] = [state |-> "live", family |-> f, subject |-> s]
  BY NewToken DEF Inserted, Unused

LEMMA RotateCommitInv ==
  ASSUME SessionInv, NEW r \in Request, RotateCommit(r)
  PROVE  SessionInv'
  <1> DEFINE t == req[r].token
  <1>1. /\ req[r].at = "insert" /\ req[r].op = "rotate" /\ t \in Token
        /\ row[t].state = "live" /\ Unused # {}
        /\ row' = Inserted(Rotated(t), row[t].family, row[t].subject)
        /\ Answer(r, "ok", New)
        /\ UNCHANGED <<stored, device, flight>>
    BY DEF SessionInv, Rotating, Presented, RotateCommit
  <1>2. New \in Unused /\ New \in Token
    BY <1>1, NewToken
  <1>3. /\ \A u \in Token \ Unused : row'[u] = Rotated(t)[u]
        /\ \A u \in Unused \ {New} : row'[u] = NoRow
        /\ row'[New] = [state |-> "live", family |-> row[t].family, subject |-> row[t].subject]
    <2>1. Unused # {} /\ row' = Inserted(Rotated(t), row[t].family, row[t].subject)
      BY <1>1
    <2> HIDE DEF t
    <2> QED BY <2>1, InsertRow
  <1>4. /\ \A u \in Token \ {t} : Rotated(t)[u] = row[u]
        /\ Rotated(t)[t].state = "rotated"
        /\ Rotated(t) \in [Token -> Stored]
    BY <1>1 DEF SessionInv, Typed, Rotated, Stored
  <1>5. Typed'
    <2>1. DOMAIN row' = Token /\ row' = [u \in Token |-> row'[u]]
      BY <1>1 DEF Inserted
    <2>2. row[t] \in Stored /\ NoRow \in Stored
      BY <1>1 DEF SessionInv, Typed, NoRow, Stored
    <2>3. row'[New] \in Stored
      BY <1>3, <2>2 DEF Stored
    <2>4. \A u \in Token \ {New} : row'[u] \in Stored
      BY <1>3, <1>4, <2>2
    <2>5. \A u \in Token : row'[u] \in Stored
      BY <2>3, <2>4
    <2> QED BY <1>1, <1>2, <2>1, <2>5, Answered DEF SessionInv, Typed
  <1>6. Presented'
    BY <1>1, <1>2, Answered DEF SessionInv, Presented
  <1>7. Rotating' /\ Exclusive'
    <2>1. ASSUME NEW q \in Request, req[q].at = "insert", req'[q].at = "insert"
          PROVE  row'[req[q].token].state = "live"
      <3>1. q # r
        BY <1>1, <1>2, <2>1, Answered
      <3>2. req[q].token # t
        BY <1>1, <2>1, <3>1 DEF SessionInv, Rotating, Exclusive, Holds
      <3>3. req[q].token \in Token \ Unused
        BY <2>1, KeptRows DEF SessionInv, Rotating, Presented
      <3> QED BY <1>3, <1>4, <2>1, <3>2, <3>3 DEF SessionInv, Rotating
    <2> QED BY <1>1, <1>2, <2>1, Answered, WorkGoesOn
  <1>8. AtMostOneLive'
    <2>1. ASSUME NEW u \in Token, row'[u].state = "live", u # New
          PROVE  row[u].state = "live" /\ row'[u].family = row[u].family /\ u # t
      <3>1. u \in Token \ Unused
        BY <1>3, <2>1 DEF NoRow
      <3>2. row'[u] = Rotated(t)[u]
        BY <1>3, <3>1
      <3>3. u # t
        BY <1>4, <2>1, <3>2
      <3> QED BY <1>4, <2>1, <3>2, <3>3
    <2>2. ASSUME NEW u \in Token, row'[u].state = "live", row'[u].family = row'[New].family
          PROVE  u = New
      <3>1. row'[New].family = row[t].family
        BY <1>3
      <3> QED BY <1>1, <2>1, <2>2, <3>1 DEF SessionInv, AtMostOneLive
    <2> QED BY <1>2, <2>1, <2>2 DEF SessionInv, AtMostOneLive
  <1> QED BY <1>5, <1>6, <1>7, <1>8 DEF SessionInv

\* The row of a new family is the only one of it
LEMMA IssueInv ==
  ASSUME SessionInv, NEW r \in Request, Issue(r)
  PROVE  SessionInv'
  <1>1. CASE Answer(r, "refused", NoToken) /\ row' = row
    BY <1>1, JustAnswered DEF Issue
  <1>2. ASSUME Unused # {}, FreshFamily # {}, row' = Inserted(row, NewFamily, req[r].who),
               Answer(r, "ok", New)
        PROVE  SessionInv'
    <2>1. New \in Unused /\ New \in Token
      BY <1>2, NewToken
    <2>2. NewFamily \in Family /\ \A t \in Token \ Unused : row[t].family # NewFamily
      BY <1>2 DEF NewFamily, FreshFamily
    <2>3. /\ \A t \in Token \ Unused : row'[t] = row[t]
          /\ \A t \in Unused \ {New} : row'[t] = NoRow
          /\ row'[New] = [state |-> "live", family |-> NewFamily, subject |-> req[r].who]
      BY <1>2, InsertRow
    <2>4. Typed'
      <3>1. DOMAIN row' = Token /\ row' = [u \in Token |-> row'[u]]
        BY <1>2 DEF Inserted
      <3>2. \A u \in Token : row'[u] \in Stored
        BY <2>1, <2>2, <2>3 DEF SessionInv, Typed, NoRow, Stored, Served
      <3> QED BY <1>2, <2>1, <3>1, <3>2, Answered DEF SessionInv, Typed, Issue
    <2>5. Presented'
      BY <1>2, <2>1, Answered DEF SessionInv, Presented
    <2>6. Rotating' /\ Exclusive'
      <3>1. ASSUME NEW q \in Request, req[q].at = "insert"
            PROVE  row'[req[q].token].state = "live"
        <4>1. req[q].token \in Token \ Unused
          BY <3>1, KeptRows DEF SessionInv, Rotating, Presented
        <4> QED BY <2>3, <3>1, <4>1 DEF SessionInv, Rotating
      <3> QED BY <1>2, <2>1, <3>1, Answered, WorkGoesOn
    <2>7. AtMostOneLive'
      <3>1. ASSUME NEW u \in Token, row'[u].state = "live", u # New
            PROVE  row'[u] = row[u] /\ row[u].family # NewFamily
        <4>1. u \in Token \ Unused
          BY <2>3, <3>1 DEF NoRow
        <4> QED BY <2>2, <2>3, <4>1
      <3>2. row'[New].family = NewFamily
        BY <2>3
      <3> QED BY <3>1, <3>2 DEF SessionInv, AtMostOneLive
    <2> QED BY <2>4, <2>5, <2>6, <2>7 DEF SessionInv
  <1> QED BY <1>1, <1>2 DEF Issue

LEMMA RevokeSelectInv ==
  ASSUME SessionInv, NEW r \in Request, RevokeSelect(r)
  PROVE  SessionInv'
  <1>1. CASE Answer(r, "ok", NoToken)
    BY <1>1, JustAnswered DEF RevokeSelect, phone
  <1>2. ASSUME req' = [req EXCEPT ![r].at = "revoke"]
        PROVE  SessionInv'
    <2>1. UNCHANGED <<row, stored, device, flight>> /\ req[r].op = "revoke"
      BY DEF RevokeSelect, phone
    <2>2. Typed' /\ Presented'
      BY <1>2, <2>1 DEF SessionInv, Typed, Served, Presented
    <2>3. Rotating' /\ Exclusive'
      BY <1>2, <2>1 DEF SessionInv, Typed, Served, Rotating, Exclusive, Holds
    <2> QED BY <2>1, <2>2, <2>3, NoneRises DEF SessionInv
  <1> QED BY <1>1, <1>2 DEF RevokeSelect

LEMMA StatementBeginsInv ==
  ASSUME SessionInv, NEW r \in Request, StatementBegins(r)
  PROVE  SessionInv'
  <1>1. /\ UNCHANGED <<row, stored, device, flight>>
        /\ req[r].at \in {"revoke", "start"}
        /\ req[r].at = "revoke" \/ req[r].op = "purge"
    BY DEF StatementBegins, phone
  <1>2. \E s \in SUBSET Token : req' = [req EXCEPT ![r].at = "update", ![r].seen = s]
    <2>1. /\ (InFamily(row[req[r].token].family) \ Unused) \in SUBSET Token
          /\ (OfSubject(req[r].who) \ Unused) \in SUBSET Token
      BY DEF InFamily, OfSubject
    <2> QED BY <2>1 DEF StatementBegins
  <1>3. PICK s \in SUBSET Token : req' = [req EXCEPT ![r].at = "update", ![r].seen = s]
    BY <1>2
  <1>4. Typed' /\ Presented'
    <2>1. req' \in [Request -> Served]
      <3>1. req[r] \in Served /\ req \in [Request -> Served]
        BY DEF SessionInv, Typed
      <3>2. [req[r] EXCEPT !.at = "update", !.seen = s] \in Served
        BY <3>1 DEF Served
      <3>3. req' = [req EXCEPT ![r] = [req[r] EXCEPT !.at = "update", !.seen = s]]
        BY <1>3, <3>1
      <3> QED BY <3>1, <3>2, <3>3
    <2>2. \A q \in Request : req'[q].op = req[q].op /\ req'[q].token = req[q].token
      BY <1>3 DEF SessionInv, Typed, Served
    <2> QED BY <1>1, <2>1, <2>2 DEF SessionInv, Typed, Presented
  <1>5. Rotating' /\ Exclusive'
    BY <1>1, <1>3 DEF SessionInv, Typed, Served, Rotating, Exclusive, Holds
  <1> QED BY <1>1, <1>4, <1>5, NoneRises DEF SessionInv

\* The rows that others have locked are not among those that change
LEMMA StatementEndsInv ==
  ASSUME SessionInv, NEW r \in Request, StatementEnds(r)
  PROVE  SessionInv'
  <1> DEFINE After(t) == CASE t \notin req[r].seen \/ row[t] = NoRow -> row[t]
                           [] OTHER -> IF req[r].op = "purge" THEN NoRow
                                       ELSE [row[t] EXCEPT !.state = "revoked"]
  <1>1. /\ row' = [t \in Token |-> After(t)]
        /\ UNCHANGED <<stored, device, flight>>
        /\ req[r].at = "update"
        /\ \E reply \in {"ok", "refused"} : Answer(r, reply, NoToken)
    BY DEF StatementEnds, phone
  <1>2. \A t \in Token : /\ After(t) \in Stored
                         /\ t \notin req[r].seen => After(t) = row[t]
                         /\ After(t).state = "live" => After(t) = row[t]
    <2>1. ASSUME NEW t \in Token, ~(t \notin req[r].seen \/ row[t] = NoRow)
          PROVE  After(t) \in {NoRow, [row[t] EXCEPT !.state = "revoked"]}
      BY <2>1
    <2>2. \A t \in Token : (t \notin req[r].seen \/ row[t] = NoRow) => After(t) = row[t]
      OBVIOUS
    <2>3. \A t \in Token : row[t] \in Stored
      BY DEF SessionInv, Typed
    <2>4. \A t \in Token : /\ NoRow \in Stored /\ NoRow.state # "live"
                           /\ [row[t] EXCEPT !.state = "revoked"] \in Stored
                           /\ [row[t] EXCEPT !.state = "revoked"].state # "live"
      BY <2>3 DEF Stored, NoRow
    <2> HIDE DEF After
    <2> QED BY <2>1, <2>2, <2>3, <2>4
  <1> HIDE DEF After
  <1>3. Typed' /\ Presented'
    BY <1>1, <1>2, Answered DEF SessionInv, Typed, Presented
  <1>4. Rotating' /\ Exclusive'
    <2>1. ASSUME NEW q \in Request, req[q].at = "insert", req'[q].at = "insert"
          PROVE  row'[req[q].token].state = "live"
      <3>1. q # r /\ req[q].token \in Token /\ Holds(q)
        BY <1>1, <2>1 DEF SessionInv, Rotating, Presented, Holds
      <3>2. req[q].token \in LockedByOthers(r)
        BY <3>1, NotLocked
      <3>3. req[q].token \notin req[r].seen
        BY <3>2 DEF StatementEnds
      <3> QED BY <1>1, <1>2, <2>1, <3>1, <3>3 DEF SessionInv, Rotating
    <2> QED BY <1>1, <2>1, Answered, WorkGoesOn
  <1>5. AtMostOneLive'
    BY <1>1, <1>2, NoneRises DEF SessionInv
  <1> QED BY <1>3, <1>4, <1>5 DEF SessionInv

LEMMA ExpireInv ==
  ASSUME SessionInv, NEW t \in Token, Expire(t)
  PROVE  SessionInv'
  <1>1. /\ row' = [row EXCEPT ![t].state = "expired"]
        /\ UNCHANGED <<req, stored, device, flight>>
    BY DEF Expire, phone
  <1>2. \A q \in Request : req[q].at = "insert" => req[q].token # t
    BY DEF SessionInv, Rotating, Expire, Locks
  <1>3. Typed' /\ Presented'
    BY <1>1 DEF SessionInv, Typed, Stored, Presented
  <1>4. Rotating' /\ Exclusive'
    BY <1>1, <1>2 DEF SessionInv, Typed, Stored, Rotating, Presented, Exclusive, Holds
  <1>5. AtMostOneLive'
    BY <1>1, NoneRises DEF SessionInv, Typed, Stored
  <1> QED BY <1>3, <1>4, <1>5 DEF SessionInv

\* Whatever ends a request early, or begins one, leaves the rows alone
LEMMA PhoneStep ==
  ASSUME SessionInv, row' = row, req' \in [Request -> Served],
         stored' \in Token \cup {NoToken}, device' \in Nat, flight' \in FlightState,
         flight'.at \in {"refresh", "attesting"} => flight'.req \in Request,
         \A r \in Request :
           \/ req'[r] = req[r]
           \/ /\ req'[r].at \in {"free", "start", "answered"}
              /\ req'[r].op \in {"rotate", "revoke"} => req'[r].token \in Token
  PROVE  SessionInv'
  <1>1. Typed' /\ Presented'
    BY DEF SessionInv, Typed, Presented
  <1> QED BY <1>1, RowsStay

LEMMA StatementFailsInv ==
  ASSUME SessionInv, NEW r \in Request, DeadlockVictim(r) \/ StatementFails(r)
  PROVE  SessionInv'
  BY JustAnswered DEF DeadlockVictim, StatementFails, phone

LEMMA FreeSlot ==
  ASSUME SessionInv, NEW r \in Free, NEW op \in {"rotate", "issue", "revoke", "purge"},
         NEW t \in Token \cup {NoToken}, NEW who \in Nat, Send(r, op, t, who),
         op \in {"rotate", "revoke"} => t \in Token
  PROVE  /\ req' \in [Request -> Served]
         /\ \A q \in Request : \/ req'[q] = req[q]
                               \/ /\ req'[q].at = "start"
                                  /\ req'[q].op \in {"rotate", "revoke"} => req'[q].token \in Token
  <1>1. req' = [req EXCEPT ![r] = [op |-> op, at |-> "start", token |-> t, who |-> who,
                                    seen |-> {}, reply |-> "none"]]
    BY DEF Send
  <1>2. [op |-> op, at |-> "start", token |-> t, who |-> who, seen |-> {}, reply |-> "none"]
          \in Served
    BY DEF Served
  <1> QED BY <1>1, <1>2 DEF SessionInv, Typed, Free

LEMMA FreedSlot ==
  ASSUME SessionInv, NEW r, req' = [req EXCEPT ![r] = Idle] \/ req' = req
  PROVE  /\ req' \in [Request -> Served]
         /\ \A q \in Request : req'[q] = req[q] \/ (req'[q].at = "free" /\ req'[q].op = "none")
  BY IdleServed DEF SessionInv, Typed

LEMMA RevokeCalledInv ==
  ASSUME SessionInv, NEW r \in Request, RevokeCalled(r)
  PROVE  SessionInv'
  <1>1. PICK t \in Token :
          req' = [req EXCEPT ![r].op = "revoke", ![r].at = "start", ![r].token = t]
    BY DEF RevokeCalled
  <1>2. req[r] \in Served /\ req \in [Request -> Served]
    BY DEF SessionInv, Typed
  <1>3. [req[r] EXCEPT !.op = "revoke", !.at = "start", !.token = t] \in Served
    BY <1>2 DEF Served
  <1>4. req' = [req EXCEPT ![r] = [req[r] EXCEPT !.op = "revoke", !.at = "start", !.token = t]]
    BY <1>1, <1>2
  <1>5. req' \in [Request -> Served] /\ req'[r].at = "start" /\ req'[r].token = t
    BY <1>2, <1>3, <1>4 DEF Served
  <1>6. \A q \in Request \ {r} : req'[q] = req[q]
    BY <1>2, <1>4
  <1>7. UNCHANGED <<row, stored, device, flight>>
    BY DEF RevokeCalled, phone
  <1> QED BY <1>5, <1>6, <1>7, PhoneStep DEF SessionInv, Typed

-----------------------------------------------------------------------------
(* The phone *)

LEMMA StartOrJoinInv ==
  ASSUME SessionInv, StartOrJoin, UNCHANGED <<row, stored, device>>
  PROVE  SessionInv'
  <1>1. CASE UNCHANGED <<req, flight>>
    BY <1>1, PhoneStep DEF SessionInv, Typed
  <1>2. CASE flight' = [NoFlight EXCEPT !.at = "attest"] /\ req' = req
    BY <1>2, PhoneStep DEF SessionInv, Typed, NoFlight, FlightState
  <1>3. ASSUME NEW r \in Free, RefreshUsable(stored), Send(r, "rotate", stored, 0),
               flight' = [at |-> "refresh", req |-> r, token |-> NoToken]
        PROVE  SessionInv'
    <2>1. stored \in Token
      BY <1>3 DEF SessionInv, Typed, RefreshUsable
    <2>2. r \in Request
      BY DEF Free
    <2>3. flight' \in FlightState /\ flight'.req \in Request
      BY <1>3, <2>2 DEF FlightState
    <2> QED BY <1>3, <2>1, <2>3, FreeSlot, PhoneStep DEF SessionInv, Typed
  <1>4. \/ UNCHANGED <<req, flight>>
        \/ /\ RefreshUsable(stored)
           /\ \E r \in Free : /\ Send(r, "rotate", stored, 0)
                              /\ flight' = [at |-> "refresh", req |-> r, token |-> NoToken]
        \/ flight' = [NoFlight EXCEPT !.at = "attest"] /\ req' = req
    BY DEF StartOrJoin, RefreshStarts, AttestStarts
  <1> QED BY <1>1, <1>2, <1>3, <1>4

LEMMA FlyInv ==
  ASSUME SessionInv, Fly
  PROVE  SessionInv'
  <1>1. CASE FlightAnswered
    <2>1. /\ flight.req \in Request /\ req[flight.req].token \in Token \cup {NoToken}
          /\ req' = [req EXCEPT ![flight.req] = Idle]
          /\ UNCHANGED <<row, stored, device>>
      BY <1>1 DEF SessionInv, Typed, Served, FlightAnswered, Collected
    <2>2. \/ \E at \in {"save", "saveNew"} :
              flight' = [at |-> at, req |-> NoRequest, token |-> req[flight.req].token]
          \/ flight' = [NoFlight EXCEPT !.at = "clear"]
          \/ flight' = NoFlight
      BY <1>1 DEF FlightAnswered, Land, FlightOver
    <2>3. flight' \in FlightState /\ flight'.at \notin {"refresh", "attesting"}
      BY <2>1, <2>2 DEF NoFlight, FlightState
    <2> QED BY <2>1, <2>3, FreedSlot, PhoneStep DEF SessionInv, Typed
  <1>2. CASE FlightSaves \/ FlightClears
    <2>1. /\ flight' \in FlightState /\ flight'.at \notin {"refresh", "attesting"}
          /\ stored' \in Token \cup {NoToken}
          /\ UNCHANGED <<row, req, device>>
      BY <1>2 DEF SessionInv, Typed, FlightSaves, FlightClears, Land, FlightOver, NoFlight, FlightState
    <2> QED BY <2>1, PhoneStep DEF SessionInv, Typed
  <1>3. CASE FlightAttests
    <2>1. UNCHANGED <<row, stored, device>>
      BY <1>3 DEF FlightAttests
    <2>2. CASE flight' = NoFlight /\ req' = req
      BY <2>1, <2>2, PhoneStep DEF SessionInv, Typed, NoFlight, FlightState
    <2>3. ASSUME NEW r \in Free, Send(r, "issue", NoToken, device),
                 flight' = [at |-> "attesting", req |-> r, token |-> NoToken]
          PROVE  SessionInv'
      <3>1. flight' \in FlightState /\ flight'.req \in Request
        BY <2>3 DEF FlightState, Free
      <3> QED BY <2>1, <2>3, <3>1, FreeSlot, PhoneStep DEF SessionInv, Typed
    <2> QED BY <1>3, <2>2, <2>3 DEF FlightAttests, Land, FlightOver
  <1> QED BY <1>1, <1>2, <1>3 DEF Fly

\* What goes wrong on the phone
LEMMA PhoneFailsInv ==
  ASSUME SessionInv, FlightTimesOut \/ StorageFails \/ AppEnds
  PROVE  SessionInv'
  <1>1. CASE FlightTimesOut
    <2>1. /\ req' = [req EXCEPT ![flight.req] = Idle] \/ req' = req
          /\ flight' \in FlightState /\ flight'.at \notin {"refresh", "attesting"}
          /\ UNCHANGED <<row, stored, device>>
      BY <1>1 DEF FlightTimesOut, GiveUp, Land, FlightOver, NoFlight, FlightState
    <2> QED BY <2>1, FreedSlot, PhoneStep DEF SessionInv, Typed
  <1>2. CASE StorageFails
    <2>1. /\ flight' \in FlightState /\ flight'.at \notin {"refresh", "attesting"}
          /\ UNCHANGED <<row, req, stored, device>>
      BY <1>2 DEF StorageFails, Land, FlightOver, NoFlight, FlightState
    <2> QED BY <2>1, PhoneStep DEF SessionInv, Typed
  <1>3. CASE AppEnds
    <2>1. /\ req' = [r \in Request |-> IF req[r].at = "answered" THEN Idle ELSE req[r]]
          /\ flight' = NoFlight
          /\ UNCHANGED <<row, stored, device>>
      BY <1>3 DEF AppEnds
    <2>2. flight' \in FlightState /\ flight'.at = "none"
      BY <2>1 DEF NoFlight, FlightState
    <2>3. /\ req' \in [Request -> Served]
          /\ \A r \in Request : req'[r] = req[r] \/ (req'[r].at = "free" /\ req'[r].op = "none")
      BY <2>1, IdleServed DEF SessionInv, Typed
    <2> QED BY <2>1, <2>2, <2>3, PhoneStep DEF SessionInv, Typed
  <1> QED BY <1>1, <1>2, <1>3

LEMMA EraseInv ==
  ASSUME SessionInv, NEW c \in Caller, Erase(c) \/ EraseTimesOut(c) \/ ClearFails(c)
  PROVE  SessionInv'
  <1>1. CASE EraseSends(c)
    <2>1. UNCHANGED <<row, stored, device, flight>>
      BY <1>1 DEF EraseSends
    <2>2. (\E r \in Free : Send(r, "purge", NoToken, device)) \/ req' = req
      BY <1>1 DEF EraseSends
    <2> QED BY <2>1, <2>2, FreeSlot, PhoneStep DEF SessionInv, Typed
  <1>2. CASE EraseAnswered(c) \/ EraseTimesOut(c)
    <2>1. /\ req' = [req EXCEPT ![post[c]] = Idle] \/ req' = req
          /\ UNCHANGED <<row, stored, device, flight>>
      BY <1>2 DEF EraseAnswered, EraseTimesOut, Collected, GiveUp
    <2> QED BY <2>1, FreedSlot, PhoneStep DEF SessionInv, Typed
  <1>3. CASE EraseClears(c) \/ ClearFails(c)
    <2>1. /\ stored' \in {stored, NoToken} /\ device' \in {device, device + 1}
          /\ UNCHANGED <<row, req, flight>>
      BY <1>3 DEF EraseClears, ClearFails, IdAfter
    <2> QED BY <2>1, PhoneStep DEF SessionInv, Typed
  <1> QED BY <1>1, <1>2, <1>3 DEF Erase

LEMMA CallInv ==
  ASSUME SessionInv, NEW c \in Caller, UseStored(c) \/ GetToken(c)
  PROVE  SessionInv'
  <1>1. CASE UseStored(c)
    BY <1>1, PhoneStep DEF UseStored, SessionInv, Typed
  <1>2. CASE GetToken(c)
    BY <1>2, StartOrJoinInv DEF GetToken
  <1> QED BY <1>1, <1>2

-----------------------------------------------------------------------------
(* Theorems *)

LEMMA InitInv == ASSUME Init PROVE SessionInv
  <1>1. Typed
    BY IdleServed DEF Init, Typed, NoRow, Stored, NoFlight, FlightState
  <1>2. Presented /\ Rotating /\ Exclusive
    BY DEF Init, Presented, Rotating, Exclusive, Holds, Idle
  <1>3. AtMostOneLive
    BY DEF Init, AtMostOneLive, NoRow
  <1> QED BY <1>1, <1>2, <1>3 DEF SessionInv

LEMMA NextInv == ASSUME SessionInv, [Next]_vars PROVE SessionInv'
  <1>1. CASE UNCHANGED vars
    BY <1>1, PhoneStep DEF vars, phone, SessionInv, Typed
  <1>2. CASE Server
    BY <1>2, RotateSelectInv, RotateCommitInv, RevokeSelectInv, StatementBeginsInv,
       StatementEndsInv, IssueInv, StatementFailsInv, RevokeCalledInv, ExpireInv
       DEF Server, Serve
  <1>3. CASE \E c \in Caller : UseStored(c) \/ GetToken(c) \/ Erase(c) \/ EraseTimesOut(c) \/ ClearFails(c)
    BY <1>3, CallInv, EraseInv
  <1>4. CASE Fly
    BY <1>4, FlyInv
  <1>5. CASE FlightTimesOut \/ StorageFails \/ AppEnds
    BY <1>5, PhoneFailsInv
  <1>6. CASE Lapse
    BY <1>6, PhoneStep DEF Lapse, SessionInv, Typed
  <1> QED BY <1>1, <1>2, <1>3, <1>4, <1>5, <1>6 DEF Next

\* No family ever has two tokens that can be exchanged, however many requests present one
\* token, whatever fails and whenever the family is revoked or purged: the row lock of
\* loadForUpdateByTokenHash is held until the rotation has committed.
THEOREM FamilyHasOneLive == Spec => []AtMostOneLive
  <1>1. SessionInv => AtMostOneLive
    BY DEF SessionInv
  <1> QED BY <1>1, InitInv, NextInv, PTL DEF Spec

\* A row that somebody may still present and that was revoked stays revoked until it is
\* deleted: no rotation under way turns it into a row that was exchanged.
THEOREM RevokedStaysRevoked == Spec => RevocationIsFinal
  <1>1. ASSUME SessionInv, [Next]_vars, NEW t \in Token, row[t].state = "revoked", t \in Remembered
        PROVE  row'[t].state \in {"revoked", "none"}
    <2>1. t \notin Unused
      BY <1>1 DEF Unused
    <2>2. CASE row' = row
      BY <1>1, <2>2
    <2>3. ASSUME NEW r \in Request, RotateCommit(r)
          PROVE  row'[t] = row[t]
      <3>1. /\ row' = Inserted(Rotated(req[r].token), row[req[r].token].family,
                                row[req[r].token].subject)
            /\ Unused # {} /\ req[r].at = "insert"
        BY <2>3 DEF RotateCommit
      <3>2. req[r].token # t
        BY <1>1, <3>1 DEF SessionInv, Rotating
      <3>3. row'[t] = Rotated(req[r].token)[t]
        BY <2>1, <3>1, InsertRow
      <3> QED BY <1>1, <3>2, <3>3 DEF SessionInv, Typed, Rotated
    <2>4. ASSUME NEW r \in Request, Issue(r), row' # row
          PROVE  row'[t] = row[t]
      <3>1. row' = Inserted(row, NewFamily, req[r].who) /\ Unused # {}
        BY <2>4 DEF Issue
      <3> QED BY <2>1, <3>1, InsertRow
    <2>5. ASSUME NEW r \in Request, StatementEnds(r)
          PROVE  row'[t].state \in {"revoked", "none"}
      <3>1. row'[t] \in {row[t], NoRow, [row[t] EXCEPT !.state = "revoked"]}
        BY <2>5 DEF StatementEnds
      <3>2. row[t] \in Stored
        BY <1>1 DEF SessionInv, Typed
      <3> QED BY <1>1, <3>1, <3>2 DEF NoRow, Stored
    <2>6. ASSUME NEW u \in Token, Expire(u)
          PROVE  row'[t] = row[t]
      BY <1>1, <2>6 DEF Expire, SessionInv, Typed
    <2>7. \/ row' = row
          \/ \E r \in Request : RotateCommit(r) \/ Issue(r) \/ StatementEnds(r)
          \/ \E u \in Token : Expire(u)
      BY <1>1 DEF Next, vars, Server, Serve, RotateSelect, RevokeSelect, StatementBegins,
         DeadlockVictim, StatementFails, RevokeCalled, UseStored, GetToken, Erase, EraseSends,
         EraseAnswered, EraseClears, EraseTimesOut, ClearFails, Fly, FlightAnswered, FlightSaves,
         FlightClears, FlightAttests, FlightTimesOut, StorageFails, AppEnds, Lapse
    <2> QED BY <1>1, <2>2, <2>3, <2>4, <2>5, <2>6, <2>7
  <1>2. SessionInv /\ [Next]_vars =>
          [\A t \in Token : row[t].state = "revoked" /\ t \in Remembered
                              => row'[t].state \in {"revoked", "none"}]_vars
    BY <1>1
  <1> QED BY <1>2, InitInv, NextInv, PTL DEF Spec, RevocationIsFinal

-----------------------------------------------------------------------------
(* Who awaits an answer, and how many identities the phone may have had *)

\* The types of what the callers hold
CallTypes ==
  /\ usable \subseteq Token
  /\ call \in [Caller -> {"idle", "waiting", "prepare", "erasing", "clearing"}]
  /\ goal \in [Caller -> {"use", "erase"}]
  /\ held \in [Caller -> Token \cup {NoToken}]
  /\ post \in [Caller -> Request \cup {NoRequest}]
  /\ toClear \in [Caller -> SUBSET {"device", "session"}]
  /\ disturbances \in 0 .. MaxDisturbances
  /\ erasures \in 0 .. MaxErase
  /\ mixed \in BOOLEAN

\* The erasures that may still make the phone forget its identity
Underway ==
  {c \in Caller : /\ call[c] # "idle" /\ goal[c] = "erase"
                  /\ call[c] = "clearing" => "device" \in toClear[c]}

\* Each identity that was forgotten, and each that may still be, was erased by a call of
\* its own
Counted ==
  /\ IsFiniteSet(Underway)
  /\ device + Cardinality(Underway) <= erasures

\* The subjects are identities that the phone has had
Numbered ==
  /\ \A r \in Request : req[r].who <= MaxErase
  /\ \A t \in Token : row[t].subject <= MaxErase

\* How far a request can have come, by its route
Routes ==
  \A r \in Request :
    /\ req[r].op = "none" <=> req[r].at \in {"free", "answered"}
    /\ req[r].at = "insert" => req[r].op = "rotate"
    /\ req[r].at = "revoke" => req[r].op \in {"rotate", "revoke"}
    /\ req[r].at = "update" => req[r].op \in {"rotate", "revoke", "purge"}

\* Who erases was asked to, and has sent a request
Erasers == \A c \in Caller : /\ call[c] \in {"prepare", "erasing", "clearing"} => goal[c] = "erase"
                             /\ call[c] = "erasing" => post[c] \in Request

\* A flight is over in one way
AtRest == flight.at = "none" => flight = NoFlight

\* The refresh in flight awaits an answer of the server
InFlight == flight.at \in {"refresh", "attesting"}

\* No two of those who await an answer await the same
Apart ==
  \A c \in Caller : call[c] = "erasing" =>
    /\ InFlight => post[c] # flight.req
    /\ \A d \in Caller : call[d] = "erasing" /\ post[d] = post[c] => c = d

\* What holds of the callers
CallInvs == CallTypes /\ Counted /\ Numbered /\ Routes /\ Erasers /\ AtRest /\ Apart /\ AnswerIsComing

\* The inductive invariant for those who wait. AnswerIsComing is not inductive: an answer
\* must not be taken for that of another (Apart), nor may a slot be taken twice (Routes).
AwaitInv == SessionInv /\ CallInvs

-----------------------------------------------------------------------------
(* What a step does to the requests *)

\* y is x, whatever rows its statement has seen
SameSlot(x, y) ==
  y.op = x.op /\ y.at = x.at /\ y.token = x.token /\ y.who = x.who /\ y.reply = x.reply

\* An answer, request by request
LEMMA AnswerSlots ==
  ASSUME req \in [Request -> Served], NEW r \in Request, NEW t, NEW reply, Answer(r, reply, t)
  PROVE  /\ \A q \in Request \ {r} : /\ SameSlot(req[q], req'[q])
                                     /\ req'[q].seen = req[q].seen \ {t}
         /\ req'[r] = IF r \in Awaited THEN ReplyWith(reply, t) ELSE Idle
  <1> DEFINE After(q) == CASE q # r -> [req[q] EXCEPT !.seen = @ \ {t}]
                           [] q = r /\ r \in Awaited -> ReplyWith(reply, t)
                           [] OTHER -> Idle
  <1>1. req' = [q \in Request |-> After(q)]
    BY DEF Answer
  <1>2. \A q \in Request \ {r} : After(q) = [req[q] EXCEPT !.seen = @ \ {t}]
    OBVIOUS
  <1>3. After(r) = IF r \in Awaited THEN ReplyWith(reply, t) ELSE Idle
    OBVIOUS
  <1> HIDE DEF After
  <1>4. ASSUME NEW q \in Request \ {r}
        PROVE  SameSlot(req[q], req'[q]) /\ req'[q].seen = req[q].seen \ {t}
    <2>1. req'[q] = [req[q] EXCEPT !.seen = @ \ {t}] /\ req[q] \in Served
      BY <1>1, <1>2
    <2> QED BY <2>1 DEF Served, SameSlot
  <1> QED BY <1>1, <1>3, <1>4

\* r is answered, or the phone has given it up
Replied(r, reply, t) == req'[r] = IF r \in Awaited THEN ReplyWith(reply, t) ELSE Idle

\* r goes on with what it does
Goes(r) ==
  /\ req[r].op # "none"
  /\ req'[r].op = req[r].op /\ req'[r].token = req[r].token /\ req'[r].who = req[r].who
  /\ req'[r].reply = req[r].reply
  /\ \/ req[r].op = "rotate" /\ req[r].at = "start" /\ req'[r].at \in {"insert", "revoke"}
     \/ req[r].op = "revoke" /\ req[r].at = "start" /\ req'[r].at = "revoke"
     \/ req[r].at = "revoke" /\ req'[r].at = "update"
     \/ req[r].op = "purge" /\ req[r].at = "start" /\ req'[r].at = "update"

\* What a step of the server does to the requests
LEMMA ServerSlots ==
  ASSUME AwaitInv, Server
  PROVE  /\ UNCHANGED <<stored, device, flight, callers, erasures, mixed>>
         /\ req' = req \/ \E r \in Request :
              /\ \A q \in Request \ {r} : SameSlot(req[q], req'[q])
              /\ \/ Goes(r)
                 \/ /\ req[r].at \notin {"free", "answered"}
                    /\ \E reply \in {"ok", "refused", "error"}, t \in Token \cup {NoToken} : Replied(r, reply, t)
                 \/ /\ req[r].at = "free" /\ disturbances' = disturbances + 1
                    /\ req'[r].op = "revoke" /\ req'[r].at = "start" /\ req'[r].who = req[r].who
  <1> USE DEF AwaitInv, SessionInv, CallInvs, Typed
  <1>0. ASSUME NEW r \in Request, NEW reply \in {"ok", "refused", "error"},
               NEW t \in Token \cup {NoToken}, Answer(r, reply, t)
        PROVE  /\ \A q \in Request \ {r} : SameSlot(req[q], req'[q])
               /\ Replied(r, reply, t)
    BY <1>0, AnswerSlots DEF Replied
  <1>1. ASSUME NEW r \in Request, RotateSelect(r)
        PROVE  /\ \A q \in Request \ {r} : SameSlot(req[q], req'[q])
               /\ Goes(r) \/ Replied(r, "refused", NoToken)
    <2>1. (\E at \in {"insert", "revoke"} : req' = [req EXCEPT ![r].at = at]) \/ Answer(r, "refused", NoToken)
      BY <1>1 DEF RotateSelect
    <2>2. ASSUME NEW at \in {"insert", "revoke"}, req' = [req EXCEPT ![r].at = at]
          PROVE  (\A q \in Request \ {r} : SameSlot(req[q], req'[q])) /\ Goes(r)
      BY <1>1, <2>2 DEF RotateSelect, SameSlot, Goes, Served
    <2> QED BY <1>0, <2>1, <2>2
  <1>2. ASSUME NEW r \in Request, RevokeSelect(r)
        PROVE  /\ \A q \in Request \ {r} : SameSlot(req[q], req'[q])
               /\ Goes(r) \/ Replied(r, "ok", NoToken)
    <2>1. req' = [req EXCEPT ![r].at = "revoke"] \/ Answer(r, "ok", NoToken)
      BY <1>2 DEF RevokeSelect
    <2>2. CASE req' = [req EXCEPT ![r].at = "revoke"]
      BY <1>2, <2>2 DEF RevokeSelect, SameSlot, Goes, Served
    <2> QED BY <1>0, <2>1, <2>2
  <1>3. ASSUME NEW r \in Request, StatementBegins(r)
        PROVE  (\A q \in Request \ {r} : SameSlot(req[q], req'[q])) /\ Goes(r)
    <2>1. PICK S : req' = [req EXCEPT ![r].at = "update", ![r].seen = S]
      BY <1>3 DEF StatementBegins
    <2>2. \/ req[r].at = "revoke" /\ req[r].op # "none"
          \/ req[r].op = "purge" /\ req[r].at = "start"
      BY <1>3 DEF StatementBegins, Routes
    <2> QED BY <2>1, <2>2 DEF SameSlot, Goes, Served
  <1>4. ASSUME NEW r \in Request, RevokeCalled(r)
        PROVE  /\ \A q \in Request \ {r} : SameSlot(req[q], req'[q])
               /\ req[r].at = "free" /\ disturbances' = disturbances + 1
               /\ req'[r].op = "revoke" /\ req'[r].at = "start" /\ req'[r].who = req[r].who
    BY <1>4 DEF RevokeCalled, Disturb, SameSlot, Served
  <1>5. ASSUME NEW r \in Request,
               RotateCommit(r) \/ StatementEnds(r) \/ DeadlockVictim(r) \/ Issue(r) \/ StatementFails(r)
        PROVE  /\ \A q \in Request \ {r} : SameSlot(req[q], req'[q])
               /\ req[r].at \notin {"free", "answered"}
               /\ \E reply \in {"ok", "refused", "error"}, t \in Token \cup {NoToken} : Replied(r, reply, t)
    <2>1. PICK reply \in {"ok", "refused", "error"}, t \in Token \cup {NoToken} : Answer(r, reply, t)
      BY <1>5, NewToken DEF RotateCommit, StatementEnds, DeadlockVictim, Issue, StatementFails
    <2>2. req[r].at \notin {"free", "answered"}
      BY <1>5 DEF RotateCommit, StatementEnds, DeadlockVictim, Issue, StatementFails
    <2> QED BY <1>0, <2>1, <2>2
  <1>6. ASSUME NEW t \in Token, Expire(t) PROVE req' = req
    BY <1>6 DEF Expire
  <1>7. UNCHANGED <<stored, device, flight, callers, erasures, mixed>>
    BY DEF Server, Serve, RotateSelect, RotateCommit, RevokeSelect, StatementBegins, StatementEnds,
       Issue, DeadlockVictim, StatementFails, RevokeCalled, Expire, phone, counts, Disturb
  <1>8. ASSUME NEW r \in Request, Serve(r) \/ DeadlockVictim(r) \/ StatementFails(r) \/ RevokeCalled(r)
        PROVE  /\ \A q \in Request \ {r} : SameSlot(req[q], req'[q])
               /\ \/ Goes(r)
                  \/ /\ req[r].at \notin {"free", "answered"}
                     /\ \E reply \in {"ok", "refused", "error"}, t \in Token \cup {NoToken} : Replied(r, reply, t)
                  \/ /\ req[r].at = "free" /\ disturbances' = disturbances + 1
                     /\ req'[r].op = "revoke" /\ req'[r].at = "start" /\ req'[r].who = req[r].who
    BY <1>1, <1>2, <1>3, <1>4, <1>5, <1>8 DEF Serve, RotateSelect, RevokeSelect
  <1> QED BY <1>6, <1>7, <1>8 DEF Server

\* What of the callers' invariants depends on the requests
LEMMA SlotsStay ==
  ASSUME AwaitInv, UNCHANGED <<device, flight, callers, erasures, mixed>>,
         usable' \subseteq Token, disturbances' \in 0 .. MaxDisturbances,
         \A t \in Token : row'[t].subject <= MaxErase,
         \A r \in Request : req'[r].who <= MaxErase,
         Routes',
         \A r \in Awaited \cap Request, op \in {"rotate", "issue", "purge"} :
           Has(r, op) => Has(r, op)'
  PROVE  CallInvs'
  <1>1. /\ CallTypes /\ Counted /\ Numbered /\ Erasers /\ AtRest /\ Apart /\ AnswerIsComing
        /\ UNCHANGED <<device, flight, call, goal, held, post, toClear, erasures, mixed>>
    BY DEF AwaitInv, CallInvs, callers
  <1>2. CallTypes' /\ Numbered' /\ Erasers' /\ AtRest' /\ Apart'
    BY <1>1 DEF CallTypes, Numbered, Erasers, AtRest, Apart, InFlight
  <1>3. Counted'
    BY <1>1 DEF Counted, Underway
  <1>4. AnswerIsComing'
    <2>1. flight.at \in {"refresh", "attesting"} => flight.req \in Awaited \cap Request
      BY DEF AwaitInv, SessionInv, Typed, Awaited
    <2>2. \A c \in Caller : call[c] = "erasing" => post[c] \in Awaited \cap Request
      BY <1>1 DEF Erasers, Awaited
    <2> QED BY <1>1, <2>1, <2>2 DEF AnswerIsComing, Has
  <1> QED BY <1>2, <1>3, <1>4 DEF CallInvs

\* The server never drops a request that is awaited
LEMMA ServerCalls ==
  ASSUME AwaitInv, Server, usable' \subseteq Token, disturbances' \in 0 .. MaxDisturbances,
         \A t \in Token : row'[t].subject <= MaxErase
  PROVE  CallInvs'
  <1>1. /\ UNCHANGED <<device, flight, callers, erasures, mixed>>
        /\ Routes /\ Numbered
        /\ 0 <= MaxErase
    BY ServerSlots, BoundAssumption DEF AwaitInv, CallInvs
  <1>2. CASE req' = req
    BY <1>1, <1>2, SlotsStay DEF Routes, Numbered, Has
  <1>3. ASSUME NEW r \in Request, \A q \in Request \ {r} : SameSlot(req[q], req'[q]),
               /\ Routes!(r)' /\ req'[r].who <= MaxErase
               /\ r \in Awaited => \A op \in {"rotate", "issue", "purge"} : Has(r, op) => Has(r, op)'
        PROVE  CallInvs'
    <2>1. ASSUME NEW q \in Request
          PROVE  /\ Routes!(q)' /\ req'[q].who <= MaxErase
                 /\ q \in Awaited => \A op \in {"rotate", "issue", "purge"} : Has(q, op) => Has(q, op)'
      BY <1>1, <1>3 DEF Routes, Numbered, Has, SameSlot
    <2>2. Routes'
      BY <2>1 DEF Routes
    <2> QED BY <1>1, <2>1, <2>2, SlotsStay
  <1>4. ASSUME NEW r \in Request, \A q \in Request \ {r} : SameSlot(req[q], req'[q]),
               Goes(r)
        PROVE  CallInvs'
    <2>1. Routes!(r)' /\ req'[r].who <= MaxErase
      BY <1>1, <1>4 DEF Routes, Numbered, Goes
    <2>2. ASSUME NEW op \in {"rotate", "issue", "purge"}, Has(r, op) PROVE Has(r, op)'
      BY <1>1, <1>4, <2>2 DEF Has, Routes, Goes
    <2> QED BY <1>3, <1>4, <2>1, <2>2
  <1>5. ASSUME NEW r \in Request, \A q \in Request \ {r} : SameSlot(req[q], req'[q]),
               NEW reply, NEW t, Replied(r, reply, t)
        PROVE  CallInvs'
    <2>1. Routes!(r)' /\ req'[r].who <= MaxErase
      BY <1>1, <1>5 DEF Replied, ReplyWith, Idle
    <2>2. r \in Awaited => \A op \in {"rotate", "issue", "purge"} : Has(r, op)'
      BY <1>5 DEF Replied, ReplyWith, Has
    <2> QED BY <1>3, <1>5, <2>1, <2>2
  <1>6. ASSUME NEW r \in Request, \A q \in Request \ {r} : SameSlot(req[q], req'[q]),
               req[r].at = "free", req'[r].op = "revoke", req'[r].at = "start", req'[r].who = req[r].who
        PROVE  CallInvs'
    <2>1. Routes!(r)' /\ req'[r].who <= MaxErase
      BY <1>1, <1>6 DEF Numbered
    <2>2. \A op \in {"rotate", "issue", "purge"} : ~Has(r, op)
      BY <1>1, <1>6 DEF Has, Routes
    <2> QED BY <1>3, <1>6, <2>1, <2>2
  <1> QED BY <1>2, <1>4, <1>5, <1>6, ServerSlots

\* The rows it writes are of subjects it was given
LEMMA ServerRows ==
  ASSUME AwaitInv, Server
  PROVE  /\ usable' \subseteq Token /\ disturbances' \in 0 .. MaxDisturbances
         /\ \A t \in Token : row'[t].subject <= MaxErase
  <1> USE BoundAssumption DEF AwaitInv, CallInvs
  <1>1. usable' \subseteq Token
    <2>1. usable' = usable \/ (Unused # {} /\ usable' = (usable \ Unused) \cup {New})
      BY DEF Server, Serve, RotateSelect, RotateCommit, RevokeSelect, StatementBegins, StatementEnds,
         Issue, DeadlockVictim, StatementFails, RevokeCalled, Expire, phone
    <2> QED BY <2>1, NewToken DEF CallTypes
  <1>2. disturbances' \in 0 .. MaxDisturbances
    <2>1. disturbances' = disturbances \/ Disturb
      BY DEF Server, Serve, RotateSelect, RotateCommit, RevokeSelect, StatementBegins, StatementEnds,
         Issue, DeadlockVictim, StatementFails, RevokeCalled, Expire, counts
    <2> QED BY <2>1 DEF CallTypes, Disturb
  <1>3. \A t \in Token : row[t].subject <= MaxErase /\ row[t] \in Stored
    BY DEF Numbered, SessionInv, Typed
  <1>4. ASSUME NEW rows, NEW f, NEW s, Unused # {}, row' = Inserted(rows, f, s), s <= MaxErase,
               \A t \in Token : rows[t].subject <= MaxErase
        PROVE  \A t \in Token : row'[t].subject <= MaxErase
    <2>1. /\ \A t \in Token \ Unused : row'[t] = rows[t]
          /\ \A t \in Unused \ {New} : row'[t] = NoRow
          /\ row'[New] = [state |-> "live", family |-> f, subject |-> s]
      BY <1>4, InsertRow
    <2>2. NoRow.subject <= MaxErase /\ row'[New].subject <= MaxErase
      BY <1>4, <2>1 DEF NoRow
    <2> QED BY <1>4, <2>1, <2>2
  <1>5. ASSUME NEW r \in Request, RotateCommit(r) PROVE \A t \in Token : row'[t].subject <= MaxErase
    <2>1. req[r].token \in Token
      BY <1>5 DEF RotateCommit, SessionInv, Rotating, Presented
    <2>2. \A t \in Token : Rotated(req[r].token)[t].subject <= MaxErase
      BY <1>3, <2>1 DEF Rotated, SessionInv, Typed, Stored
    <2> QED BY <1>3, <1>4, <1>5, <2>1, <2>2 DEF RotateCommit
  <1>6. ASSUME NEW r \in Request, Issue(r) PROVE \A t \in Token : row'[t].subject <= MaxErase
    BY <1>3, <1>4, <1>6 DEF Issue, Numbered
  <1>7. ASSUME NEW r \in Request, StatementEnds(r) PROVE \A t \in Token : row'[t].subject <= MaxErase
    <2>1. \A t \in Token : row'[t] \in {row[t], NoRow, [row[t] EXCEPT !.state = "revoked"]}
      BY <1>7 DEF StatementEnds
    <2> QED BY <1>3, <2>1 DEF NoRow, Stored
  <1>8. ASSUME NEW t \in Token, Expire(t) PROVE \A u \in Token : row'[u].subject <= MaxErase
    BY <1>3, <1>8 DEF Expire, SessionInv, Typed, Stored
  <1>9. \/ row' = row
        \/ \E r \in Request : RotateCommit(r) \/ Issue(r) \/ StatementEnds(r)
        \/ \E t \in Token : Expire(t)
    BY DEF Server, Serve, RotateSelect, RevokeSelect, StatementBegins, DeadlockVictim, StatementFails, RevokeCalled
  <1> QED BY <1>1, <1>2, <1>3, <1>5, <1>6, <1>7, <1>8, <1>9

-----------------------------------------------------------------------------
(* What a step of the phone does to the callers *)

\* An erasure that is over, or was given up, is not counted any more
LEMMA UnderwayShrinks ==
  ASSUME AwaitInv, Underway' \subseteq Underway, device' = device, erasures' = erasures
  PROVE  Counted'
  <1>1. IsFiniteSet(Underway') /\ Cardinality(Underway') <= Cardinality(Underway)
    BY FS_Subset DEF AwaitInv, CallInvs, Counted
  <1>2. Cardinality(Underway') \in Nat /\ Cardinality(Underway) \in Nat /\ device \in Nat /\ erasures \in Nat
    BY <1>1, FS_CardinalityType, BoundAssumption DEF AwaitInv, CallInvs, Counted, CallTypes, SessionInv, Typed
  <1> QED BY <1>1, <1>2 DEF AwaitInv, CallInvs, Counted

\* Where a caller goes when the refresh in flight lands
LEMMA Landed ==
  ASSUME AwaitInv, NEW t \in Token \cup {NoToken}, Land(t)
  PROVE  /\ flight' = NoFlight
         /\ \A c \in Caller : \/ call[c] # "waiting" /\ call'[c] = call[c] /\ held'[c] = held[c]
                              \/ call[c] = "waiting" /\ call'[c] = "idle" /\ held'[c] = held[c]
                              \/ call[c] = "waiting" /\ call'[c] = "prepare" /\ goal[c] = "erase" /\ held'[c] = t /\ t # NoToken
         /\ call' \in [Caller -> {"idle", "waiting", "prepare", "erasing", "clearing"}]
         /\ held' \in [Caller -> Token \cup {NoToken}]
         /\ UNCHANGED <<goal, post, toClear>>
  <1> DEFINE C == {c \in Caller : call[c] = "waiting"}
             going == {c \in C : goal[c] = "erase" /\ t # NoToken}
  <1>1. /\ call' = [c \in Caller |-> IF c \in going THEN "prepare"
                                     ELSE IF c \in C THEN "idle" ELSE call[c]]
        /\ held' = [c \in Caller |-> IF c \in going THEN t ELSE held[c]]
        /\ UNCHANGED <<goal, post, toClear>>
    BY DEF Land, Return
  <1>2. flight' = NoFlight
    BY DEF Land, FlightOver
  <1> QED BY <1>1, <1>2 DEF AwaitInv, CallInvs, CallTypes


\* Who awaits an answer has a slot of the server
LEMMA AwaitedBusy ==
  ASSUME AwaitInv
  PROVE  /\ InFlight => flight.req \in Request /\ req[flight.req].at # "free"
         /\ \A c \in Caller : call[c] = "erasing" => post[c] \in Request /\ req[post[c]].at # "free"
  <1>1. \A r \in Request, op \in {"rotate", "issue", "purge"} : Has(r, op) => req[r].at # "free"
    BY DEF AwaitInv, CallInvs, Routes, Has
  <1>2. InFlight => flight.req \in Request /\ (Has(flight.req, "rotate") \/ Has(flight.req, "issue"))
    BY DEF AwaitInv, CallInvs, AnswerIsComing, InFlight, SessionInv, Typed
  <1>3. \A c \in Caller : call[c] = "erasing" => post[c] \in Request /\ Has(post[c], "purge")
    BY DEF AwaitInv, CallInvs, AnswerIsComing, Erasers
  <1> QED BY <1>1, <1>2, <1>3

\* The phone sends a request, or an answer is read
Freed(r) == req'[r] = Idle
Sent(r) == /\ req[r].at = "free" /\ req'[r].at = "start"
           /\ req'[r].op \in {"rotate", "issue", "purge"}
           /\ req'[r].who <= MaxErase

\* Neither disturbs what holds of the slots
LEMMA PhoneSlots ==
  ASSUME AwaitInv, row' = row, \A r \in Request : req'[r] = req[r] \/ Freed(r) \/ Sent(r)
  PROVE  Numbered' /\ Routes'
  <1>1. Idle.op = "none" /\ Idle.at = "free" /\ Idle.who = 0 /\ 0 <= MaxErase
    BY BoundAssumption DEF Idle
  <1>2. \A r \in Request : req'[r].who <= MaxErase
    BY <1>1 DEF AwaitInv, CallInvs, Numbered, Freed, Sent
  <1>3. ASSUME NEW r \in Request PROVE Routes!(r)'
    BY <1>1 DEF AwaitInv, CallInvs, Routes, Freed, Sent
  <1>4. Routes'
    BY <1>3 DEF Routes
  <1> QED BY <1>2, <1>4 DEF AwaitInv, CallInvs, Numbered

\* The phone never has more identities than the erasures it was asked for
LEMMA DeviceBound ==
  ASSUME AwaitInv
  PROVE  /\ device \in 0 .. MaxErase
         /\ \A c \in Underway : device + 1 <= MaxErase
  <1>1. Cardinality(Underway) \in Nat /\ device \in Nat /\ erasures \in 0 .. MaxErase
        /\ device + Cardinality(Underway) <= erasures /\ IsFiniteSet(Underway) /\ MaxErase \in Nat
    BY FS_CardinalityType, BoundAssumption DEF AwaitInv, CallInvs, Counted, CallTypes, SessionInv, Typed
  <1>2. Underway # {} => Cardinality(Underway) # 0
    BY <1>1, FS_EmptySet
  <1> QED BY <1>1, <1>2

\* A request takes a free slot
LEMMA SendSlot ==
  ASSUME AwaitInv, NEW r \in Free, NEW op \in {"rotate", "issue", "purge"},
         NEW t, NEW who \in 0 .. MaxErase, Send(r, op, t, who)
  PROVE  /\ r \in Request /\ Sent(r) /\ req'[r].op = op
         /\ \A q \in Request \ {r} : req'[q] = req[q]
  <1>1. req' = [req EXCEPT ![r] = [op |-> op, at |-> "start", token |-> t, who |-> who,
                                    seen |-> {}, reply |-> "none"]]
        /\ r \in Request /\ req[r].at = "free" /\ req \in [Request -> Served]
    BY DEF Send, Free, AwaitInv, SessionInv, Typed
  <1> QED BY <1>1 DEF Sent

\* The refresh in flight goes on, or lands, and the erasures are where they were
LEMMA FlightCalls ==
  ASSUME AwaitInv, UNCHANGED <<row, device, goal, post, toClear, erasures, mixed>>,
         usable' \subseteq Token, disturbances' \in 0 .. MaxDisturbances,
         call' \in [Caller -> {"idle", "waiting", "prepare", "erasing", "clearing"}],
         held' \in [Caller -> Token \cup {NoToken}],
         \A c \in Caller : \/ call'[c] = call[c]
                           \/ call[c] = "waiting" /\ call'[c] = "idle"
                           \/ call[c] = "waiting" /\ call'[c] = "prepare" /\ goal[c] = "erase",
         \A r \in Request : req'[r] = req[r] \/ (Freed(r) /\ InFlight /\ r = flight.req) \/ Sent(r),
         flight'.at = "none" => flight' = NoFlight,
         flight' # NoFlight <=> \E c \in Caller : call'[c] = "waiting",
         flight'.at = "refresh" => Has(flight.req, "rotate")',
         flight'.at = "attesting" => Has(flight.req, "issue")',
         InFlight' => Sent(flight'.req) \/ (InFlight /\ flight' = flight)
  PROVE  CallInvs'
  <1> USE DEF AwaitInv, CallInvs
  <1>1. CallTypes'
    BY DEF CallTypes
  <1>2. Counted'
    BY UnderwayShrinks DEF Underway
  <1>3. Numbered' /\ Routes'
    BY PhoneSlots
  <1>4. Erasers' /\ AtRest'
    BY DEF Erasers, AtRest
  <1>5. \A c \in Caller : call'[c] = "erasing" <=> call[c] = "erasing"
    OBVIOUS
  <1>6. Apart'
    BY <1>5, AwaitedBusy DEF Apart, InFlight, Sent
  <1>7. \A c \in Caller : call[c] = "erasing" => req'[post[c]] = req[post[c]]
    BY AwaitedBusy DEF Apart, Sent, Freed
  <1>8. AnswerIsComing'
    BY <1>5, <1>7 DEF AnswerIsComing, Has
  <1> QED BY <1>1, <1>2, <1>3, <1>4, <1>6, <1>8

\* So do the steps of the refresh in flight
LEMMA FlyCalls ==
  ASSUME AwaitInv, Fly \/ FlightTimesOut \/ StorageFails
  PROVE  CallInvs'
  <1>1. /\ UNCHANGED <<row, device, goal, post, toClear, erasures, mixed, usable>>
        /\ disturbances' \in 0 .. MaxDisturbances
    BY BoundAssumption DEF Fly, FlightAnswered, FlightSaves, FlightClears, FlightAttests, FlightTimesOut,
       StorageFails, counts, callers, Land, Return, Disturb, AwaitInv, CallInvs, CallTypes
  <1>2. /\ usable \subseteq Token
        /\ call \in [Caller -> {"idle", "waiting", "prepare", "erasing", "clearing"}]
        /\ held \in [Caller -> Token \cup {NoToken}]
        /\ AnswerIsComing /\ AtRest /\ flight \in FlightState
        /\ req \in [Request -> Served]
    BY DEF AwaitInv, CallInvs, CallTypes, SessionInv, Typed
  \* It lands
  <1>3. ASSUME NEW t \in Token \cup {NoToken}, Land(t),
               \A r \in Request : req'[r] = req[r] \/ (Freed(r) /\ InFlight /\ r = flight.req)
        PROVE  CallInvs'
    <2>1. flight' = NoFlight /\ NoFlight.at = "none"
      BY <1>3, Landed DEF NoFlight
    <2>2. ~\E c \in Caller : call'[c] = "waiting"
      BY <1>3, Landed
    <2> QED BY <1>1, <1>2, <1>3, <2>1, <2>2, Landed, FlightCalls DEF InFlight
  \* It goes on
  <1>4. ASSUME UNCHANGED <<call, held>>, flight # NoFlight, flight' # NoFlight, flight'.at # "none",
               \A r \in Request : req'[r] = req[r] \/ (Freed(r) /\ InFlight /\ r = flight.req) \/ Sent(r),
               flight'.at = "refresh" => Has(flight.req, "rotate")',
               flight'.at = "attesting" => Has(flight.req, "issue")',
               InFlight' => Sent(flight'.req)
        PROVE  CallInvs'
    <2>1. \E c \in Caller : call[c] = "waiting"
      BY <1>2, <1>4 DEF AnswerIsComing
    <2> QED BY <1>1, <1>2, <1>4, <2>1, FlightCalls
  <1>5. ASSUME UNCHANGED <<call, held>>, flight.at # "none", flight'.at \notin {"none", "refresh", "attesting"},
               \A r \in Request : req'[r] = req[r] \/ (Freed(r) /\ InFlight /\ r = flight.req)
        PROVE  CallInvs'
    <2>1. flight # NoFlight /\ flight' # NoFlight
      BY <1>5 DEF NoFlight
    <2> QED BY <1>4, <1>5, <2>1 DEF InFlight
  <1>6. CASE FlightAnswered
    <2>1. \A r \in Request : req'[r] = req[r] \/ (Freed(r) /\ InFlight /\ r = flight.req)
      BY <1>2, <1>6 DEF FlightAnswered, Collected, Freed, InFlight
    <2>2. CASE UNCHANGED callers /\ flight'.at \in {"save", "saveNew", "clear"}
      BY <1>5, <1>6, <2>1, <2>2 DEF FlightAnswered, callers
    <2>3. CASE Land(NoToken)
      BY <1>3, <2>1, <2>3
    <2>4. CASE req[flight.req].reply = "ok"
      <3>1. /\ flight' = [at |-> IF flight.at = "refresh" THEN "save" ELSE "saveNew",
                          req |-> NoRequest, token |-> req[flight.req].token]
            /\ UNCHANGED callers
        BY <1>6, <2>4 DEF FlightAnswered
      <3> QED BY <2>2, <3>1
    <2>5. CASE req[flight.req].reply # "ok" /\ flight.at = "refresh"
      <3>1. flight' = [NoFlight EXCEPT !.at = "clear"] /\ UNCHANGED callers
        BY <1>6, <2>5 DEF FlightAnswered
      <3> QED BY <2>2, <3>1 DEF NoFlight
    <2>6. CASE req[flight.req].reply # "ok" /\ flight.at # "refresh"
      BY <1>6, <2>3, <2>6 DEF FlightAnswered
    <2> QED BY <2>4, <2>5, <2>6
  <1>7. CASE FlightSaves
    BY <1>2, <1>3, <1>7 DEF FlightSaves, FlightState
  <1>8. CASE FlightClears
    BY <1>5, <1>8 DEF FlightClears, NoFlight, callers
  <1>9. CASE FlightAttests
    <2>1. CASE Land(NoToken) /\ req' = req
      BY <1>3, <2>1
    <2>2. ASSUME NEW r \in Free, Send(r, "issue", NoToken, device),
                 flight' = [at |-> "attesting", req |-> r, token |-> NoToken], UNCHANGED callers
          PROVE  CallInvs'
      <3>1. /\ Sent(r) /\ req'[r].op = "issue"
            /\ \A q \in Request \ {r} : req'[q] = req[q]
        BY <2>2, SendSlot, DeviceBound
      <3>2. flight # NoFlight /\ flight' # NoFlight /\ flight'.at = "attesting" /\ flight'.req = r
        BY <1>9, <2>2 DEF NoFlight, FlightAttests
      <3>3. Has(flight.req, "issue")'
        BY <3>1, <3>2 DEF Has
      <3> QED BY <1>4, <2>2, <3>1, <3>2, <3>3 DEF callers
    <2> QED BY <1>9, <2>1, <2>2 DEF FlightAttests
  <1>10. CASE FlightTimesOut
    <2>1. \A r \in Request : req'[r] = req[r] \/ (Freed(r) /\ InFlight /\ r = flight.req)
      BY <1>2, <1>10 DEF FlightTimesOut, GiveUp, Freed, InFlight
    <2>2. CASE flight.at = "refresh"
      BY <1>5, <1>10, <2>1, <2>2 DEF FlightTimesOut, NoFlight, callers
    <2>3. CASE Land(NoToken)
      BY <1>3, <2>1, <2>3
    <2> QED BY <1>10, <2>2, <2>3 DEF FlightTimesOut
  <1>11. CASE StorageFails
    <2>1. CASE flight.at = "save" /\ flight' = [NoFlight EXCEPT !.at = "clear"] /\ UNCHANGED callers
      BY <1>5, <1>11, <2>1 DEF StorageFails, NoFlight, callers
    <2>2. CASE Land(NoToken)
      BY <1>3, <1>11, <2>2 DEF StorageFails
    <2> QED BY <1>11, <2>1, <2>2 DEF StorageFails
  <1> QED BY <1>6, <1>7, <1>8, <1>9, <1>10, <1>11 DEF Fly

\* An erasure is counted from its beginning
LEMMA BeginCounted ==
  ASSUME AwaitInv, NEW c \in Caller, EraseBegins(c), call'[c] # "idle", device' = device,
         \A d \in Caller \ {c} : call'[d] = call[d], toClear' = toClear
  PROVE  Counted' /\ erasures' \in 0 .. MaxErase
  <1>1. /\ call[c] = "idle" /\ erasures < MaxErase /\ erasures' = erasures + 1
        /\ goal' = [goal EXCEPT ![c] = "erase"] /\ goal \in [Caller -> {"use", "erase"}]
        /\ erasures \in Nat /\ MaxErase \in Nat /\ device \in Nat
    BY BoundAssumption DEF EraseBegins, AwaitInv, CallInvs, CallTypes, SessionInv, Typed
  <1>2. c \notin Underway /\ Underway' \subseteq Underway \cup {c}
    BY <1>1 DEF Underway
  <1>3. IsFiniteSet(Underway) /\ device + Cardinality(Underway) <= erasures
    BY DEF AwaitInv, CallInvs, Counted
  <1>4. /\ IsFiniteSet(Underway \cup {c})
        /\ Cardinality(Underway \cup {c}) = Cardinality(Underway) + 1
        /\ Cardinality(Underway) \in Nat
    BY <1>2, <1>3, FS_AddElement, FS_CardinalityType
  <1>5. /\ IsFiniteSet(Underway') /\ Cardinality(Underway') <= Cardinality(Underway) + 1
        /\ Cardinality(Underway') \in Nat
    BY <1>2, <1>4, FS_Subset, FS_CardinalityType
  <1> QED BY <1>1, <1>3, <1>4, <1>5 DEF Counted

\* A new caller waits only when a refresh is in flight, its own or that of another
LEMMA CallCalls ==
  ASSUME AwaitInv, NEW c \in Caller, UseStored(c) \/ GetToken(c)
  PROVE  CallInvs'
  <1>1. /\ CallTypes /\ Erasers /\ AtRest /\ Apart /\ AnswerIsComing
        /\ req \in [Request -> Served] /\ stored \in Token \cup {NoToken}
        /\ goal \in [Caller -> {"use", "erase"}]
        /\ call \in [Caller -> {"idle", "waiting", "prepare", "erasing", "clearing"}]
    BY DEF AwaitInv, CallInvs, CallTypes, SessionInv, Typed
  <1>2. /\ row' = row /\ call[c] = "idle" /\ device' = device /\ toClear' = toClear
        /\ post' = post /\ usable' = usable /\ disturbances' = disturbances
    BY DEF UseStored, GetToken, EraseBegins
  <1>3. call'[c] \in {"prepare", "waiting"} /\ \A d \in Caller \ {c} : call'[d] = call[d]
    BY <1>1 DEF UseStored, GetToken
  <1>4. Counted' /\ erasures' \in 0 .. MaxErase
    <2>1. CASE EraseBegins(c)
      BY <1>2, <1>3, <2>1, BeginCounted
    <2>2. CASE goal' = [goal EXCEPT ![c] = "use"] /\ erasures' = erasures
      <3>1. Underway' \subseteq Underway
        BY <1>1, <1>2, <1>3, <2>2 DEF Underway
      <3> QED BY <1>1, <1>2, <2>2, <3>1, UnderwayShrinks DEF CallTypes
    <2> QED BY <2>1, <2>2 DEF UseStored, GetToken
  <1>5. goal' \in [Caller -> {"use", "erase"}] /\ \A d \in Caller \ {c} : goal'[d] = goal[d]
    BY <1>1 DEF UseStored, GetToken, EraseBegins
  <1>6. CallTypes'
    <2>1. call' \in [Caller -> {"idle", "waiting", "prepare", "erasing", "clearing"}]
      BY <1>1 DEF UseStored, GetToken
    <2>2. held' \in [Caller -> Token \cup {NoToken}]
      BY DEF UseStored, GetToken, AwaitInv, CallInvs, CallTypes, SessionInv, Typed
    <2>3. mixed' \in BOOLEAN
      BY DEF UseStored, GetToken, AwaitInv, CallInvs, CallTypes
    <2> QED BY <1>2, <1>4, <1>5, <2>1, <2>2, <2>3 DEF AwaitInv, CallInvs, CallTypes
  <1>7. Erasers'
    <2>1. call'[c] = "prepare" => goal'[c] = "erase"
      BY <1>1 DEF UseStored, GetToken, EraseBegins
    <2> QED BY <1>1, <1>2, <1>3, <1>5, <2>1 DEF Erasers
  <1>8. CASE UseStored(c)
    <2>1. UNCHANGED <<req, flight>> /\ call'[c] = "prepare"
      BY <1>1, <1>8 DEF UseStored
    <2>2. Numbered' /\ Routes'
      BY <1>2, <2>1, PhoneSlots
    <2>3. AtRest' /\ Apart' /\ AnswerIsComing'
      BY <1>1, <1>2, <1>3, <2>1 DEF AtRest, Apart, AnswerIsComing, Has, InFlight
    <2> QED BY <1>4, <1>6, <1>7, <2>2, <2>3 DEF CallInvs
  <1>9. CASE GetToken(c)
    <2>1. call'[c] = "waiting"
      BY <1>1, <1>9 DEF GetToken
    <2>2. CASE flight # NoFlight /\ UNCHANGED <<req, flight>>
      <3>1. Numbered' /\ Routes'
        BY <1>2, <2>2, PhoneSlots
      <3>2. AtRest' /\ Apart' /\ AnswerIsComing'
        BY <1>1, <1>2, <1>3, <2>1, <2>2 DEF AtRest, Apart, AnswerIsComing, Has, InFlight
      <3> QED BY <1>4, <1>6, <1>7, <3>1, <3>2 DEF CallInvs
    <2>3. CASE flight = NoFlight /\ flight' = [NoFlight EXCEPT !.at = "attest"] /\ req' = req
      <3>1. Numbered' /\ Routes'
        BY <1>2, <2>3, PhoneSlots
      <3>2. flight'.at = "attest" /\ flight' # NoFlight
        BY <2>3 DEF NoFlight
      <3>3. AtRest' /\ Apart' /\ AnswerIsComing'
        BY <1>1, <1>2, <1>3, <2>1, <2>3, <3>2 DEF AtRest, Apart, AnswerIsComing, Has, InFlight
      <3> QED BY <1>4, <1>6, <1>7, <3>1, <3>3 DEF CallInvs
    <2>4. ASSUME flight = NoFlight, NEW r \in Free, Send(r, "rotate", stored, 0),
                 flight' = [at |-> "refresh", req |-> r, token |-> NoToken]
          PROVE  CallInvs'
      <3>1. /\ r \in Request /\ Sent(r) /\ req'[r].op = "rotate"
            /\ \A q \in Request \ {r} : req'[q] = req[q]
        BY <2>4, SendSlot, BoundAssumption
      <3>2. Numbered' /\ Routes'
        BY <1>2, <3>1, PhoneSlots
      <3>3. flight'.at = "refresh" /\ flight' # NoFlight /\ flight'.req = r
        BY <2>4 DEF NoFlight
      <3>4. \A d \in Caller : call[d] = "erasing" => post[d] # r
        BY <3>1, AwaitedBusy DEF Sent
      <3>5. \A d \in Caller : call'[d] = "erasing" => call[d] = "erasing" /\ req'[post[d]] = req[post[d]]
        BY <1>3, <2>1, <3>1, <3>4, AwaitedBusy
      <3>6. AtRest' /\ Apart' /\ AnswerIsComing'
        BY <1>1, <1>2, <1>3, <2>1, <3>1, <3>3, <3>4, <3>5 DEF AtRest, Apart, AnswerIsComing, Has, InFlight
      <3> QED BY <1>4, <1>6, <1>7, <3>2, <3>6 DEF CallInvs
    <2> QED BY <1>9, <2>2, <2>3, <2>4 DEF GetToken, StartOrJoin, RefreshStarts, AttestStarts
  <1> QED BY <1>8, <1>9

\* An erasure, from its request to what is forgotten after it
LEMMA EraseCalls ==
  ASSUME AwaitInv, NEW c \in Caller, Erase(c) \/ EraseTimesOut(c) \/ ClearFails(c)
  PROVE  CallInvs' /\ device' \in 0 .. MaxErase
  <1>1. /\ CallTypes /\ Erasers /\ AtRest /\ Apart /\ AnswerIsComing
        /\ req \in [Request -> Served]
        /\ goal \in [Caller -> {"use", "erase"}]
        /\ call \in [Caller -> {"idle", "waiting", "prepare", "erasing", "clearing"}]
        /\ post \in [Caller -> Request \cup {NoRequest}]
        /\ toClear \in [Caller -> SUBSET {"device", "session"}]
        /\ held \in [Caller -> Token \cup {NoToken}]
    BY DEF AwaitInv, CallInvs, CallTypes, SessionInv, Typed
  <1>2. /\ UNCHANGED <<row, usable, flight, goal, erasures>> /\ disturbances' \in 0 .. MaxDisturbances
        /\ call[c] \in {"prepare", "erasing", "clearing"} /\ goal[c] = "erase"
    BY <1>1, BoundAssumption DEF Erase, EraseSends, EraseAnswered, EraseClears, EraseTimesOut, ClearFails, Disturb, counts, Erasers, CallTypes
  <1>3. /\ call' \in [Caller -> {"idle", "waiting", "prepare", "erasing", "clearing"}]
        /\ \A d \in Caller \ {c} : call'[d] = call[d] /\ post'[d] = post[d]
        /\ call'[c] \in {"idle", "erasing", "clearing"}
    BY <1>1 DEF Erase, EraseSends, EraseAnswered, EraseClears, EraseTimesOut, ClearFails
  <1>4. CallTypes'
    <2>1. held' \in [Caller -> Token \cup {NoToken}]
      BY <1>1 DEF Erase, EraseSends, EraseAnswered, EraseClears, EraseTimesOut, ClearFails
    <2>2. post' \in [Caller -> Request \cup {NoRequest}]
      BY <1>1 DEF Erase, EraseSends, EraseAnswered, EraseClears, EraseTimesOut, ClearFails, Free
    <2>3. toClear' \in [Caller -> SUBSET {"device", "session"}]
      BY <1>1 DEF Erase, EraseSends, EraseAnswered, EraseClears, EraseTimesOut, ClearFails, Identity
    <2>4. mixed' \in BOOLEAN
      BY <1>1 DEF Erase, EraseSends, EraseAnswered, EraseClears, EraseTimesOut, ClearFails, CallTypes, Disturb, counts
    <2> QED BY <1>1, <1>2, <1>3, <2>1, <2>2, <2>3, <2>4 DEF CallTypes
  \* Only clearing the device id forgets an identity
  <1>5. Counted' /\ device' \in 0 .. MaxErase
    <2>1. CASE device' = device
      <3>1. \A d \in Caller \ {c} : call'[d] = call[d] /\ toClear'[d] = toClear[d]
        BY <1>1, <1>3 DEF Erase, EraseSends, EraseAnswered, EraseClears, EraseTimesOut, ClearFails
      <3>2. call[c] = "clearing" => /\ call'[c] \in {"clearing", "idle"}
                                    /\ "device" \in toClear'[c] => "device" \in toClear[c]
        BY <1>1 DEF Erase, EraseSends, EraseAnswered, EraseClears, EraseTimesOut, ClearFails
      <3>3. Underway' \subseteq Underway
        BY <1>2, <3>1, <3>2 DEF Underway
      <3> QED BY <1>2, <2>1, <3>3, UnderwayShrinks, DeviceBound
    <2>2. CASE device' # device
      <3>1. /\ call[c] = "clearing" /\ "device" \in toClear[c] /\ device' = device + 1
            /\ toClear' = [toClear EXCEPT ![c] = toClear[c] \ {"device"}]
            /\ call' = IF toClear[c] = {"device"} THEN [call EXCEPT ![c] = "idle"] ELSE call
        BY <2>2 DEF Erase, EraseSends, EraseAnswered, EraseClears, EraseTimesOut, ClearFails, IdAfter
      <3>2. c \in Underway /\ Underway' = Underway \ {c}
        BY <1>1, <1>2, <3>1 DEF Underway
      <3>3. IsFiniteSet(Underway) /\ device + Cardinality(Underway) <= erasures /\ erasures \in Nat /\ device \in Nat
        BY BoundAssumption DEF AwaitInv, CallInvs, CallTypes, Counted, SessionInv, Typed
      <3>4. IsFiniteSet(Underway') /\ Cardinality(Underway') = Cardinality(Underway) - 1
            /\ Cardinality(Underway) \in Nat
        BY <3>2, <3>3, FS_RemoveElement, FS_CardinalityType
      <3>5. device' \in 0 .. MaxErase
        BY <3>1, <3>2, DeviceBound, BoundAssumption
      <3> QED BY <1>2, <3>1, <3>3, <3>4, <3>5 DEF Counted
    <2> QED BY <2>1, <2>2
  <1>6. Erasers' /\ AtRest'
    <2>1. call'[c] = "erasing" => post'[c] \in Request
      BY <1>1 DEF Erase, EraseSends, EraseAnswered, EraseClears, EraseTimesOut, ClearFails, Free, Erasers
    <2> QED BY <1>1, <1>2, <1>3, <2>1 DEF Erasers, AtRest
  <1>7. \A d \in Caller : call'[d] = "waiting" <=> call[d] = "waiting"
    <2>1. ASSUME NEW d \in Caller, d # c PROVE call'[d] = call[d]
      BY <1>3, <2>1
    <2>2. call[c] # "waiting" /\ call'[c] # "waiting"
      BY <1>2, <1>3
    <2> QED BY <2>1, <2>2
  \* Its slot is freed, or one is taken
  <1>8. ASSUME \A r \in Request : req'[r] = req[r] \/ (Freed(r) /\ call[c] = "erasing" /\ r = post[c]),
               call'[c] # "erasing"
        PROVE  Numbered' /\ Routes' /\ Apart' /\ AnswerIsComing'
    <2>1. Numbered' /\ Routes'
      BY <1>2, <1>8, PhoneSlots
    <2>2. Apart'
      BY <1>1, <1>2, <1>3, <1>8 DEF Apart, InFlight
    <2>3. InFlight => req'[flight.req] = req[flight.req]
      BY <1>1, <1>8, AwaitedBusy DEF Apart
    <2>4. \A d \in Caller : call'[d] = "erasing" =>
            call[d] = "erasing" /\ post'[d] = post[d] /\ req'[post[d]] = req[post[d]]
      BY <1>1, <1>3, <1>8, AwaitedBusy DEF Apart
    <2>5. AnswerIsComing'
      BY <1>1, <1>2, <1>7, <2>3, <2>4 DEF AnswerIsComing, Has, InFlight
    <2> QED BY <2>1, <2>2, <2>5
  <1>9. ASSUME NEW r \in Free, Send(r, "purge", NoToken, device), post' = [post EXCEPT ![c] = r],
               call'[c] = "erasing"
        PROVE  Numbered' /\ Routes' /\ Apart' /\ AnswerIsComing'
    <2>1. /\ r \in Request /\ Sent(r) /\ req'[r].op = "purge"
          /\ \A q \in Request \ {r} : req'[q] = req[q]
      BY <1>9, SendSlot, DeviceBound
    <2>2. Numbered' /\ Routes'
      BY <1>2, <2>1, PhoneSlots
    <2>3. /\ InFlight => flight.req \in Request \ {r}
          /\ \A d \in Caller : call[d] = "erasing" => post[d] \in Request \ {r}
          /\ post'[c] = r
      BY <1>1, <1>9, <2>1, AwaitedBusy DEF Sent
    <2>4. Apart'
      BY <1>1, <1>2, <1>3, <2>3 DEF Apart, InFlight
    <2>5. AnswerIsComing'
      BY <1>1, <1>2, <1>3, <1>7, <2>1, <2>3 DEF AnswerIsComing, Has, InFlight
    <2> QED BY <2>2, <2>4, <2>5
  <1>10. Numbered' /\ Routes' /\ Apart' /\ AnswerIsComing'
    <2>1. CASE EraseSends(c)
      BY <1>1, <1>8, <1>9, <2>1 DEF EraseSends
    <2>2. CASE EraseAnswered(c) \/ EraseTimesOut(c)
      BY <1>1, <1>8, <2>2 DEF EraseAnswered, EraseTimesOut, Collected, GiveUp, Freed
    <2>3. CASE EraseClears(c) \/ ClearFails(c)
      BY <1>1, <1>8, <2>3 DEF EraseClears, ClearFails
    <2> QED BY <2>1, <2>2, <2>3 DEF Erase
  <1> QED BY <1>4, <1>5, <1>6, <1>10 DEF CallInvs

\* The app ends, and nobody waits
LEMMA AppEndsCalls ==
  ASSUME AwaitInv, AppEnds
  PROVE  CallInvs'
  <1>1. /\ req' = [r \in Request |-> IF req[r].at = "answered" THEN Idle ELSE req[r]]
        /\ flight' = NoFlight /\ NoFlight.at = "none"
        /\ call' = [c \in Caller |-> "idle"] /\ goal' = [c \in Caller |-> "use"]
        /\ held' = [c \in Caller |-> NoToken] /\ post' = [c \in Caller |-> NoRequest]
        /\ toClear' = [c \in Caller |-> {}]
        /\ UNCHANGED <<row, usable, device, erasures, mixed>>
        /\ disturbances' \in 0 .. MaxDisturbances
    BY BoundAssumption DEF AppEnds, NoFlight, Disturb, AwaitInv, CallInvs, CallTypes
  <1>2. CallTypes'
    BY <1>1 DEF AwaitInv, CallInvs, CallTypes
  <1>3. Counted'
    BY <1>1, UnderwayShrinks DEF Underway
  <1>4. Numbered' /\ Routes'
    BY <1>1, PhoneSlots DEF Freed
  <1>5. Erasers' /\ AtRest' /\ Apart' /\ AnswerIsComing'
    BY <1>1 DEF Erasers, AtRest, Apart, AnswerIsComing
  <1> QED BY <1>2, <1>3, <1>4, <1>5 DEF CallInvs

LEMMA NextCalls == ASSUME AwaitInv, [Next]_vars PROVE AwaitInv'
  <1>1. SessionInv'
    BY NextInv DEF AwaitInv
  <1>2. CASE Server
    BY <1>1, <1>2, ServerCalls, ServerRows DEF AwaitInv
  <1>3. CASE \E c \in Caller : UseStored(c) \/ GetToken(c) \/ Erase(c) \/ EraseTimesOut(c) \/ ClearFails(c)
    BY <1>1, <1>3, CallCalls, EraseCalls DEF AwaitInv
  <1>4. CASE Fly \/ FlightTimesOut \/ StorageFails
    BY <1>1, <1>4, FlyCalls DEF AwaitInv
  <1>5. CASE AppEnds
    BY <1>1, <1>5, AppEndsCalls DEF AwaitInv
  <1>6. CASE Lapse \/ UNCHANGED vars
    <2>1. /\ UNCHANGED <<row, req, device, flight, callers, counts>> /\ usable' \subseteq usable
      BY <1>6 DEF Lapse, vars, phone
    <2>2. /\ usable' \subseteq Token /\ disturbances' \in 0 .. MaxDisturbances
          /\ Routes' /\ \A r \in Request : req'[r].who <= MaxErase
          /\ \A t \in Token : row'[t].subject <= MaxErase
          /\ \A r \in Request, op \in {"rotate", "issue", "purge"} : Has(r, op) => Has(r, op)'
      BY <2>1 DEF AwaitInv, CallInvs, CallTypes, Numbered, Routes, Has, counts
    <2>3. CallInvs'
      BY <2>1, <2>2, SlotsStay DEF counts
    <2> QED BY <1>1, <2>3 DEF AwaitInv
  <1> QED BY <1>1, <1>2, <1>3, <1>4, <1>5, <1>6 DEF Next, AwaitInv

LEMMA InitCalls == ASSUME Init PROVE AwaitInv
  <1>1. Underway = {}
    BY DEF Init, Underway
  <1>2. Counted
    BY <1>1, FS_EmptySet DEF Init, Counted
  <1>3. CallTypes
    <2>1. 0 \in 0 .. MaxErase /\ 0 \in 0 .. MaxDisturbances
      BY BoundAssumption
    <2> QED BY <2>1 DEF Init, CallTypes
  <1>4. Numbered /\ Routes
    <2>1. NoRow.subject = 0 /\ Idle.who = 0 /\ Idle.op = "none" /\ Idle.at = "free"
      BY DEF NoRow, Idle
    <2>2. /\ \A t \in Token : row[t] = NoRow
          /\ \A r \in Request : req[r] = Idle
      BY DEF Init
    <2> QED BY <2>1, <2>2, BoundAssumption DEF Numbered, Routes
  <1>5. Erasers /\ AtRest /\ Apart /\ AnswerIsComing
    BY DEF Init, Erasers, AtRest, Apart, AnswerIsComing, NoFlight
  <1> QED BY <1>2, <1>3, <1>4, <1>5, InitInv DEF AwaitInv, CallInvs

\* Nobody waits for nothing: whoever waits for getMobileSessionToken waits for a refresh in
\* flight, a refresh in flight and an erasure wait for a request that the server has or has
\* answered, and no refresh outlives those who wait for it, whatever fails or is given up.
THEOREM SomebodyAnswers == Spec => []AnswerIsComing
  <1>1. AwaitInv => AnswerIsComing
    BY DEF AwaitInv, CallInvs
  <1> QED BY <1>1, InitCalls, NextCalls, PTL DEF Spec

\* What the phone has given up are sessions
GivenUp == ending \subseteq Token

LEMMA EndingTyped ==
  ASSUME SessionInv, GivenUp, [Next]_vars
  PROVE  GivenUp'
  <1>1. ending' \subseteq ending \/ ending' = ending \cup ({stored} \ {NoToken})
    BY DEF Next, vars, Server, Serve, RotateSelect, RotateCommit, RevokeSelect, StatementBegins, StatementEnds,
       Issue, DeadlockVictim, StatementFails, RevokeCalled, Expire, phone, UseStored, GetToken, StartOrJoin,
       RefreshStarts, AttestStarts, Erase, EraseSends, EraseAnswered, EraseClears, EraseTimesOut, ClearFails,
       Fly, FlightAnswered, FlightSaves, FlightClears, FlightAttests, FlightTimesOut, StorageFails, AppEnds, Lapse
  <1> QED BY <1>1 DEF GivenUp, SessionInv, Typed

\* The rows, the requests and the phone hold what they are declared to; the phone never has
\* had more identities than erasures were asked for, whichever of them fail halfway.
THEOREM SessionsAreTyped == Spec => []TypeOK
  <1>1. ASSUME AwaitInv, GivenUp PROVE TypeOK
    <2>1. row \in [Token -> Row]
      <3>1. \A t \in Token : row[t] \in Stored /\ row[t].subject <= MaxErase
        BY <1>1 DEF AwaitInv, SessionInv, Typed, CallInvs, Numbered
      <3>2. \A t \in Token : row[t] \in Row
        BY <3>1, BoundAssumption DEF Stored, Row
      <3> QED BY <1>1, <3>2 DEF AwaitInv, SessionInv, Typed
    <2>2. req \in [Request -> RequestState]
      <3>1. \A r \in Request : req[r] \in Served /\ req[r].who <= MaxErase
        BY <1>1 DEF AwaitInv, SessionInv, Typed, CallInvs, Numbered
      <3>2. \A r \in Request : req[r] \in RequestState
        BY <3>1, BoundAssumption DEF Served, RequestState
      <3> QED BY <1>1, <3>2 DEF AwaitInv, SessionInv, Typed
    <2> QED BY <1>1, <2>1, <2>2, DeviceBound DEF AwaitInv, SessionInv, Typed, CallInvs, CallTypes, GivenUp, TypeOK
  <1>2. Init => GivenUp
    BY DEF Init, GivenUp
  <1>3. AwaitInv /\ GivenUp /\ [Next]_vars => GivenUp'
    BY EndingTyped DEF AwaitInv
  <1> QED BY <1>1, <1>2, <1>3, InitCalls, NextCalls, PTL DEF Spec

-----------------------------------------------------------------------------
(* One live session: while nothing is lost, the row that lasts is where the phone looks for *)
(* it; rows in their safety window, which it has given up, may be live beside it            *)

Live == {t \in Token : row[t].state = "live"}

\* The session t is good, and there is no other
Sole(t) == t \in Token /\ row[t].state \in {"live", "expired"} /\ Lasting \subseteq {t}

\* What the answer of r says of the rows
Tells(r) == IF req[r].reply = "ok" THEN Sole(req[r].token) ELSE Lasting = {}

\* Every request is awaited
Owned ==
  \A r \in Request : req[r].at # "free" =>
    (InFlight /\ flight.req = r) \/ \E c \in Caller : call[c] = "erasing" /\ post[c] = r

\* No erasure and refresh are under way at one time
Unmixed == flight.at = "none" \/ \A c \in Caller : ~Erasing(c)

\* Live rows are of the identity the phone has
OfDevice == \A t \in Live : row[t].subject = device

\* Where the row that lasts is while a refresh is under way, and when none is
Located ==
  /\ flight.at = "none" => Lasting \subseteq {stored}
  /\ flight.at = "refresh" =>
       /\ req[flight.req].at \in {"start", "insert"} => req[flight.req].token = stored /\ Lasting \subseteq {stored}
       /\ req[flight.req].at \in {"revoke", "update"} => Lasting = {}
       /\ req[flight.req].at = "answered" => Tells(flight.req)
  /\ flight.at \in {"save", "saveNew"} => Sole(flight.token)
  /\ flight.at \in {"clear", "attest"} => Lasting = {}
  /\ flight.at = "attesting" =>
       /\ req[flight.req].at # "answered" => Lasting = {} /\ req[flight.req].who = device
       /\ req[flight.req].at = "answered" => Tells(flight.req)

\* A purge finds the live rows, and leaves none
Purged ==
  \A c \in Caller :
    /\ call[c] = "erasing" =>
         /\ req[post[c]].at = "start" => \A t \in Live : row[t].subject = req[post[c]].who
         /\ req[post[c]].at = "update" => Live \subseteq req[post[c]].seen
         /\ req[post[c]].at = "answered" /\ req[post[c]].reply = "ok" => Live = {}
    /\ call[c] = "clearing" => Live = {}

\* c is to forget the stored session
Forgets(c) ==
  \/ call[c] = "clearing" /\ "session" \in toClear[c]
  \/ call[c] = "erasing" /\ req[post[c]].at = "answered" /\ req[post[c]].reply = "ok"

\* The stored session is good, or about to be replaced or forgotten
StoredGood ==
  stored # NoToken =>
    \/ row[stored].state \in {"live", "expired"}
    \/ flight.at \in {"refresh", "save", "clear"}
    \/ \E c \in Caller : Forgets(c)

Agreed == Owned /\ Unmixed /\ OfDevice /\ Located /\ Purged /\ StoredGood

\* The inductive invariant. Neither OneLiveSession nor InStep is inductive: where the live
\* row may be depends on how far the refresh or the erasure under way has come.
AgreeInv == AwaitInv /\ (Undisturbed => Agreed)

-----------------------------------------------------------------------------
(* The server, while nothing is lost *)

\* What was disturbed once counts as disturbed
LEMMA StillUndisturbed ==
  ASSUME AwaitInv, [Next]_vars, Undisturbed'
  PROVE  Undisturbed /\ ~Disturb
  <1>1. Undisturbed' => Undisturbed /\ ~Disturb
    <2>1. disturbances \in Nat
      BY BoundAssumption DEF AwaitInv, CallInvs, CallTypes
    <2>2. disturbances' = disturbances \/ disturbances' = disturbances + 1
      BY DEF Next, vars, Server, Serve, RotateSelect, RotateCommit, RevokeSelect, StatementBegins, StatementEnds,
         Issue, DeadlockVictim, StatementFails, RevokeCalled, Expire, counts, phone, Disturb,
         UseStored, GetToken, Erase, EraseSends, EraseAnswered, EraseClears, EraseTimesOut, ClearFails,
         Fly, FlightAnswered, FlightSaves, FlightClears, FlightAttests, FlightTimesOut,
         StorageFails, AppEnds, Lapse
    <2>3. mixed => mixed'
      BY DEF Next, vars, Server, Serve, RotateSelect, RotateCommit, RevokeSelect, StatementBegins, StatementEnds,
         Issue, DeadlockVictim, StatementFails, RevokeCalled, Expire, counts, phone, Disturb,
         UseStored, GetToken, Erase, EraseSends, EraseAnswered, EraseClears, EraseTimesOut, ClearFails,
         Fly, FlightAnswered, FlightSaves, FlightClears, FlightAttests, FlightTimesOut,
         StorageFails, AppEnds, Lapse
    <2> QED BY <2>1, <2>2, <2>3 DEF Undisturbed, Disturb
  <1> QED BY <1>1

\* Whose a request is, by its route
LEMMA Owners ==
  ASSUME AwaitInv, Agreed, NEW r \in Request, req[r].op # "none"
  PROVE  /\ r \in Awaited
         /\ \/ req[r].op = "rotate" /\ flight.at = "refresh" /\ flight.req = r
            \/ req[r].op = "issue" /\ flight.at = "attesting" /\ flight.req = r
            \/ req[r].op = "purge" /\ flight.at = "none" /\ \E c \in Caller : call[c] = "erasing" /\ post[c] = r
  <1>1. req[r].at \notin {"free", "answered"}
    BY DEF AwaitInv, CallInvs, Routes
  <1>2. CASE InFlight /\ flight.req = r
    BY <1>1, <1>2 DEF AwaitInv, CallInvs, AnswerIsComing, Has, InFlight, Awaited
  <1>3. ASSUME NEW c \in Caller, call[c] = "erasing", post[c] = r
        PROVE  r \in Awaited /\ req[r].op = "purge" /\ flight.at = "none"
    BY <1>1, <1>3 DEF AwaitInv, CallInvs, AnswerIsComing, Has, Awaited, Agreed, Unmixed, Erasing
  <1> QED BY <1>1, <1>2, <1>3 DEF Agreed, Owned

\* A live row is not forgotten
LEMMA LiveKept ==
  ASSUME Undisturbed
  PROVE  Live \cap Unused = {}
  BY DEF Live, Unused

\* While a refresh is under way there is no erasure
LEMMA NoErasure ==
  ASSUME AwaitInv, Agreed, flight.at # "none"
  PROVE  \A c \in Caller : call[c] \notin {"erasing", "clearing"}
  BY DEF Agreed, Unmixed, Erasing

\* r, of the refresh in flight, goes on: the rest of the invariant holds as it did
LEMMA RefreshGoesOn ==
  ASSUME AwaitInv, Agreed, NEW r \in Request, InFlight, flight.req = r,
         UNCHANGED <<stored, device, flight, callers>>,
         \A q \in Request \ {r} : SameSlot(req[q], req'[q]),
         OfDevice', Located',
         stored # NoToken => row'[stored].state \in {"live", "expired"} \/ flight.at = "refresh"
  PROVE  Agreed'
  <1>1. \A c \in Caller : call'[c] \notin {"erasing", "clearing"}
    BY NoErasure DEF callers, InFlight
  <1>2. Unmixed' /\ Purged'
    BY <1>1 DEF Unmixed, Purged, Erasing
  <1>3. Owned'
    BY DEF Agreed, Owned, SameSlot, InFlight, callers
  <1>4. StoredGood'
    BY DEF StoredGood
  <1> QED BY <1>2, <1>3, <1>4 DEF Agreed

\* r is answered
LEMMA AwaitedAnswer ==
  ASSUME AwaitInv, NEW r \in Request, r \in Awaited, NEW reply \in {"ok", "refused", "error"},
         NEW t \in Token \cup {NoToken}, Answer(r, reply, t)
  PROVE  /\ \A q \in Request \ {r} : SameSlot(req[q], req'[q]) /\ req'[q].seen = req[q].seen \ {t}
         /\ req'[r].op = "none" /\ req'[r].at = "answered" /\ req'[r].reply = reply /\ req'[r].token = t
  <1>1. /\ \A q \in Request \ {r} : SameSlot(req[q], req'[q]) /\ req'[q].seen = req[q].seen \ {t}
        /\ req'[r] = ReplyWith(reply, t)
    BY AnswerSlots DEF AwaitInv, SessionInv, Typed
  <1> QED BY <1>1 DEF ReplyWith

\* The row of the stored token is live, or none is
LEMMA RotateSelectAgrees ==
  ASSUME AwaitInv, Agreed, NEW r \in Request, RotateSelect(r)
  PROVE  Agreed'
  <1>1. r \in Awaited /\ flight.at = "refresh" /\ flight.req = r /\ req[r].at = "start"
    BY Owners DEF RotateSelect
  <1>2. /\ req[r].token = stored /\ Lasting \subseteq {stored}
        /\ OfDevice
    BY <1>1 DEF Agreed, Located
  <1>3. UNCHANGED <<row, stored, ending, device, flight, callers>>
    BY DEF RotateSelect, phone
  <1>4. OfDevice' /\ Lasting' = Lasting
    BY <1>2, <1>3 DEF OfDevice, Live, Lasting
  <1>5. ASSUME \A q \in Request \ {r} : SameSlot(req[q], req'[q]), Located'
        PROVE  Agreed'
    BY <1>1, <1>3, <1>4, <1>5, RefreshGoesOn DEF InFlight
  <1>6. ASSUME NEW at \in {"insert", "revoke"}, req' = [req EXCEPT ![r].at = at],
               at = "revoke" => row[stored].state # "live"
        PROVE  Agreed'
    <2>1. /\ \A q \in Request \ {r} : SameSlot(req[q], req'[q])
          /\ req'[r].at = at /\ req'[r].token = stored
      BY <1>2, <1>6 DEF AwaitInv, SessionInv, Typed, Served, SameSlot
    <2>2. at = "revoke" => Lasting = {}
      BY <1>2, <1>6 DEF Lasting
    <2>3. Located'
      BY <1>1, <1>2, <1>3, <1>4, <2>1, <2>2 DEF Located
    <2> QED BY <1>5, <2>1, <2>3
  <1>7. ASSUME Answer(r, "refused", NoToken), row[stored].state # "live"
        PROVE  Agreed'
    <2>1. Lasting = {}
      BY <1>2, <1>7 DEF Lasting
    <2>2. Located'
      BY <1>1, <1>3, <1>4, <1>7, <2>1, AwaitedAnswer DEF Located, Tells
    <2> QED BY <1>1, <1>5, <1>7, <2>2, AwaitedAnswer
  <1>8. \/ row[stored].state = "live" /\ req' = [req EXCEPT ![r].at = "insert"]
        \/ row[stored].state # "live" /\ req' = [req EXCEPT ![r].at = "revoke"]
        \/ row[stored].state # "live" /\ Answer(r, "refused", NoToken)
    BY <1>2 DEF RotateSelect
  <1> QED BY <1>6, <1>7, <1>8

\* The new row takes the place of the only one that lasted
LEMMA RotateCommitAgrees ==
  ASSUME AwaitInv, Agreed, NEW r \in Request, RotateCommit(r)
  PROVE  Agreed'
  <1>1. r \in Awaited /\ flight.at = "refresh" /\ flight.req = r /\ req[r].at = "insert"
    <2>1. req[r].op = "rotate"
      BY DEF RotateCommit, AwaitInv, CallInvs, Routes
    <2> QED BY <2>1, Owners DEF RotateCommit
  <1>2. /\ req[r].token = stored /\ Lasting \subseteq {stored}
        /\ stored \in Token /\ row[stored].state = "live" /\ row[stored].subject = device
    <2>1. req[r].token = stored /\ Lasting \subseteq {stored} /\ OfDevice
      BY <1>1 DEF Agreed, Located
    <2>2. stored \in Token /\ row[stored].state = "live"
      BY <1>1, <2>1 DEF AwaitInv, SessionInv, Rotating, Presented
    <2> QED BY <2>1, <2>2 DEF OfDevice, Live
  <1>3. /\ UNCHANGED <<stored, device, flight, callers>>
        /\ Unused # {} /\ row' = Inserted(Rotated(stored), row[stored].family, device)
        /\ Answer(r, "ok", New) /\ ending' = ending \ Unused
    BY <1>2 DEF RotateCommit
  <1>4. New \in Unused /\ New \in Token
    BY <1>3, NewToken
  <1>5. /\ \A u \in Token \ Unused : row'[u] = Rotated(stored)[u]
        /\ \A u \in Unused \ {New} : row'[u] = NoRow
        /\ row'[New] = [state |-> "live", family |-> row[stored].family, subject |-> device]
    BY <1>3, InsertRow
  <1>6. /\ \A u \in Token \ {stored} : Rotated(stored)[u] = row[u]
        /\ Rotated(stored)[stored].state # "live"
    BY <1>2 DEF Rotated, Stored, AwaitInv, SessionInv, Typed
  <1>7. /\ Live' \subseteq Live \cup {New} /\ \A u \in Live' \ {New} : row'[u] = row[u]
        /\ Lasting' \subseteq {New} /\ row'[New].state = "live" /\ row'[New].subject = device
    <2>1. ASSUME NEW u \in Live', u # New
          PROVE  u \in Live /\ row'[u] = row[u] /\ u # stored /\ u \notin Unused
      <3>1. u \in Token \ Unused /\ row'[u] = Rotated(stored)[u]
        BY <1>5, <2>1 DEF Live, NoRow
      <3> QED BY <1>6, <2>1, <3>1 DEF Live
    <2>2. ASSUME NEW u \in Lasting', u # New PROVE u \in Lasting /\ u # stored
      BY <1>3, <2>1, <2>2 DEF Lasting, Live
    <2> QED BY <1>2, <1>5, <2>1, <2>2
  <1>8. /\ \A q \in Request \ {r} : SameSlot(req[q], req'[q])
        /\ req'[r].at = "answered" /\ req'[r].reply = "ok" /\ req'[r].token = New
    BY <1>1, <1>3, <1>4, AwaitedAnswer
  <1>9. OfDevice' /\ Located'
    <2>1. OfDevice'
      BY <1>3, <1>7 DEF Agreed, OfDevice
    <2> QED BY <1>1, <1>3, <1>4, <1>7, <1>8, <2>1 DEF Located, Tells, Sole
  <1> QED BY <1>1, <1>3, <1>8, <1>9, RefreshGoesOn DEF InFlight

\* A family begins when no row lasts
LEMMA IssueAgrees ==
  ASSUME AwaitInv, Agreed, NEW r \in Request, Issue(r)
  PROVE  Agreed'
  <1>1. r \in Awaited /\ flight.at = "attesting" /\ flight.req = r /\ req[r].at = "start"
    BY Owners DEF Issue
  <1>2. /\ Lasting = {} /\ req[r].who = device
        /\ stored # NoToken => stored \in Token /\ row[stored].state \in {"live", "expired"}
    <2>1. Lasting = {} /\ req[r].who = device /\ StoredGood
      BY <1>1 DEF Agreed, Located
    <2>2. \A c \in Caller : ~Forgets(c)
      BY <1>1, NoErasure DEF Forgets
    <2> QED BY <1>1, <2>1, <2>2 DEF StoredGood, Live, AwaitInv, SessionInv, Typed
  <1>3. UNCHANGED <<stored, device, flight, callers>>
    BY DEF Issue
  <1>4. CASE Answer(r, "refused", NoToken) /\ UNCHANGED <<row, ending>>
    <2>1. /\ \A q \in Request \ {r} : SameSlot(req[q], req'[q])
          /\ req'[r].at = "answered" /\ req'[r].reply = "refused"
      BY <1>1, <1>4, AwaitedAnswer
    <2>2. Lasting' = {} /\ Live' = Live
      BY <1>2, <1>4 DEF Lasting, Live
    <2>3. OfDevice' /\ Located'
      BY <1>1, <1>3, <1>4, <2>1, <2>2 DEF Agreed, OfDevice, Located, Tells
    <2> QED BY <1>1, <1>2, <1>3, <1>4, <2>1, <2>3, RefreshGoesOn DEF InFlight
  <1>5. CASE Unused # {} /\ row' = Inserted(row, NewFamily, req[r].who) /\ Answer(r, "ok", New)
             /\ ending' = ending \ Unused
    <2>1. New \in Unused /\ New \in Token
      BY <1>5, NewToken
    <2>2. /\ \A u \in Token \ Unused : row'[u] = row[u]
          /\ \A u \in Unused \ {New} : row'[u] = NoRow
          /\ row'[New] = [state |-> "live", family |-> NewFamily, subject |-> device]
      BY <1>2, <1>5, InsertRow
    <2>3. /\ \A u \in Live' \ {New} : u \in Live /\ row'[u] = row[u]
          /\ Lasting' \subseteq {New} /\ row'[New].state = "live" /\ row'[New].subject = device
      <3>1. ASSUME NEW u \in Live', u # New
            PROVE  u \in Live /\ row'[u] = row[u] /\ u \notin Unused
        BY <2>2, <3>1 DEF Live, NoRow
      <3>2. ASSUME NEW u \in Lasting', u # New PROVE u \in Lasting
        BY <1>5, <3>1, <3>2 DEF Lasting, Live
      <3> QED BY <1>2, <2>2, <3>1, <3>2
    <2>4. /\ \A q \in Request \ {r} : SameSlot(req[q], req'[q])
          /\ req'[r].at = "answered" /\ req'[r].reply = "ok" /\ req'[r].token = New
      BY <1>1, <1>5, <2>1, AwaitedAnswer
    <2>5. OfDevice' /\ Located'
      <3>1. OfDevice'
        BY <1>3, <2>3 DEF Agreed, OfDevice
      <3> QED BY <1>1, <1>3, <2>1, <2>3, <2>4, <3>1 DEF Located, Tells, Sole
    <2>6. stored \notin Unused
      BY DEF Unused, Remembered
    <2> QED BY <1>1, <1>2, <1>3, <2>2, <2>4, <2>5, <2>6, RefreshGoesOn DEF InFlight
  <1> QED BY <1>4, <1>5 DEF Issue

\* No row gets better, and no flight changes: what remains of the invariant
LEMMA LessLive ==
  ASSUME AwaitInv, Agreed, UNCHANGED <<stored, device, flight, callers>>,
         Live' \subseteq Live,
         \A t \in Live' : row'[t].subject = row[t].subject,
         \A r \in Request : req[r].at = "free" => req'[r].at = "free",
         Located', Purged', StoredGood'
  PROVE  Agreed'
  <1>1. Owned' /\ Unmixed'
    BY DEF Agreed, Owned, Unmixed, callers, InFlight, Erasing
  <1>2. OfDevice'
    BY DEF Agreed, OfDevice
  <1> QED BY <1>1, <1>2 DEF Agreed

\* A purge sees the live row
LEMMA StatementBeginsAgrees ==
  ASSUME AwaitInv, Agreed, Undisturbed, NEW r \in Request, StatementBegins(r)
  PROVE  Agreed'
  <1>1. /\ UNCHANGED <<row, stored, ending, device, flight, callers>>
        /\ Live' = Live /\ Lasting' = Lasting
    BY DEF StatementBegins, phone, Live, Lasting
  <1>2. /\ req[r].op # "none"
        /\ req[r].op = "purge" => req[r].at = "start"
    BY DEF StatementBegins, AwaitInv, CallInvs, Routes
  <1>3. PICK S : /\ req' = [req EXCEPT ![r].at = "update", ![r].seen = S]
                 /\ req[r].op = "purge" => S = OfSubject(req[r].who) \ Unused
    BY <1>2 DEF StatementBegins, AwaitInv, CallInvs, Routes
  <1>4. /\ \A q \in Request \ {r} : req'[q] = req[q]
        /\ req'[r].at = "update" /\ req'[r].seen = S
    BY <1>3 DEF AwaitInv, SessionInv, Typed, Served
  <1>5. CASE req[r].op = "rotate"
    <2>1. flight.at = "refresh" /\ flight.req = r /\ req[r].at = "revoke"
      BY <1>5, Owners DEF StatementBegins
    <2>2. Lasting = {} /\ OfDevice
      BY <2>1 DEF Agreed, Located
    <2>3. OfDevice' /\ Located'
      BY <1>1, <1>4, <2>1, <2>2 DEF OfDevice, Located
    <2> QED BY <1>1, <1>4, <2>1, <2>3, RefreshGoesOn DEF InFlight, SameSlot
  <1>6. CASE req[r].op = "purge"
    <2>1. PICK c \in Caller : call[c] = "erasing" /\ post[c] = r /\ flight.at = "none"
      BY <1>6, Owners
    <2>2. Live \subseteq S
      <3>1. ASSUME NEW t \in Live PROVE t \in OfSubject(req[r].who)
        BY <1>2, <1>6, <2>1 DEF Agreed, Purged, Live, OfSubject, NoRow
      <3> QED BY <1>3, <1>6, <3>1, LiveKept
    <2>3. Purged'
      BY <1>1, <1>4, <2>2 DEF Agreed, Purged, Erasers, AwaitInv, CallInvs, callers
    <2>4. Located'
      BY <1>1, <2>1 DEF Agreed, Located
    <2>5. StoredGood'
      BY <1>1, <1>2, <1>4, <1>6, <2>1 DEF Agreed, StoredGood, Forgets, Erasers, AwaitInv, CallInvs, callers
    <2> QED BY <1>1, <1>2, <1>4, <1>6, <2>3, <2>4, <2>5, LessLive DEF AwaitInv, CallInvs, Routes
  <1> QED BY <1>2, <1>5, <1>6, Owners DEF StatementBegins, AwaitInv, CallInvs, Routes

\* A statement ends, or is the victim of a deadlock
LEMMA StatementEndsAgrees ==
  ASSUME AwaitInv, Agreed, NEW r \in Request, StatementEnds(r) \/ DeadlockVictim(r)
  PROVE  Agreed'
  <1>1. UNCHANGED <<stored, ending, device, flight, callers>> /\ req[r].at = "update" /\ req[r].op # "none"
    BY DEF StatementEnds, DeadlockVictim, phone, AwaitInv, CallInvs, Routes
  <1>2. r \in Awaited
    BY <1>1, Owners
  <1>3. PICK reply \in {"ok", "refused", "error"} :
          /\ Answer(r, reply, NoToken)
          /\ req[r].op = "rotate" => reply # "ok"
          /\ reply = "ok" => StatementEnds(r)
          /\ req[r].op = "purge" /\ reply # "ok" => row' = row
    BY DEF StatementEnds, DeadlockVictim
  <1>4. /\ \A q \in Request \ {r} : SameSlot(req[q], req'[q]) /\ req'[q].seen = req[q].seen \ {NoToken}
        /\ req'[r].at = "answered" /\ req'[r].reply = reply
    BY <1>2, <1>3, AwaitedAnswer
  <1>5. \A t \in Token : /\ row'[t] = row[t] \/ row'[t].state \in {"none", "revoked"}
                         /\ StatementEnds(r) /\ t \in req[r].seen => row'[t].state # "live"
    <2>1. CASE row' = row /\ ~StatementEnds(r)
      BY <2>1
    <2>2. CASE StatementEnds(r)
      <3>1. \A t \in Token : row[t] \in Stored
        BY DEF AwaitInv, SessionInv, Typed
      <3>2. NoRow.state = "none" /\ \A t \in Token : [row[t] EXCEPT !.state = "revoked"].state = "revoked"
        BY <3>1 DEF NoRow, Stored
      <3>3. ASSUME NEW t \in Token
            PROVE  \/ row'[t] = row[t] /\ (t \notin req[r].seen \/ row[t] = NoRow)
                   \/ row'[t] \in {NoRow, [row[t] EXCEPT !.state = "revoked"]}
        BY <2>2 DEF StatementEnds
      <3> QED BY <3>2, <3>3
    <2> QED BY <2>1, <2>2 DEF DeadlockVictim
  <1>6. /\ Live' \subseteq Live /\ Lasting' \subseteq Lasting
        /\ \A t \in Live' : row'[t] = row[t]
        /\ StatementEnds(r) => Live' \cap req[r].seen = {}
    BY <1>1, <1>5 DEF Live, Lasting
  <1>7. CASE req[r].op = "rotate"
    <2>1. flight.at = "refresh" /\ flight.req = r
      BY <1>7, Owners
    <2>2. Lasting = {}
      BY <1>1, <2>1 DEF Agreed, Located
    <2>3. Lasting' = {}
      BY <1>6, <2>2
    <2>4. OfDevice' /\ Located'
      BY <1>1, <1>3, <1>4, <1>6, <1>7, <2>1, <2>3 DEF Agreed, OfDevice, Located, Tells
    <2> QED BY <1>1, <1>4, <2>1, <2>4, RefreshGoesOn DEF InFlight
  <1>8. CASE req[r].op = "purge"
    <2>1. PICK c \in Caller : call[c] = "erasing" /\ post[c] = r /\ flight.at = "none"
      BY <1>8, Owners
    <2>2. /\ reply = "ok" => Live' = {}
          /\ \A d \in Caller : call[d] = "erasing" /\ post[d] = r => d = c
      BY <1>1, <1>3, <1>6, <2>1 DEF Agreed, Purged, AwaitInv, CallInvs, Apart
    <2>3. Located'
      BY <1>1, <1>6, <2>1 DEF Agreed, Located
    <2>4. Purged'
      <3>1. ASSUME NEW d \in Caller, call[d] = "erasing", d # c PROVE Purged!(d)'
        <4>1. post[d] \in Request \ {r}
          BY <2>2, <3>1 DEF AwaitInv, CallInvs, Erasers
        <4>2. NoToken \notin Live
          BY NoneAssumption DEF Live
        <4> QED BY <1>1, <1>4, <1>6, <3>1, <4>1, <4>2 DEF Agreed, Purged, SameSlot, callers
      <3>2. Purged!(c)'
        BY <1>1, <1>4, <2>1, <2>2 DEF callers
      <3>3. ASSUME NEW d \in Caller, call[d] # "erasing" PROVE Purged!(d)'
        BY <1>1, <1>6, <3>3 DEF Agreed, Purged, callers
      <3> QED BY <3>1, <3>2, <3>3 DEF Purged
    <2>5. StoredGood'
      <3>1. ASSUME NEW d \in Caller, Forgets(d) PROVE Forgets(d)'
        <4>1. call[d] = "erasing" => post[d] \in Request \ {r}
          BY <1>1, <3>1 DEF Forgets, AwaitInv, CallInvs, Erasers
        <4> QED BY <1>1, <1>4, <3>1, <4>1 DEF Forgets, SameSlot, callers
      <3>2. reply = "ok" => Forgets(c)'
        BY <1>1, <1>4, <2>1 DEF Forgets, callers
      <3>3. reply # "ok" => row' = row
        BY <1>3, <1>8
      <3> QED BY <1>1, <2>1, <3>1, <3>2, <3>3 DEF Agreed, StoredGood
    <2>6. \A q \in Request : req[q].at = "free" => req'[q].at = "free"
      BY <1>1, <1>4 DEF SameSlot
    <2> QED BY <1>1, <1>6, <2>3, <2>4, <2>5, <2>6, LessLive
  <1> QED BY <1>1, <1>7, <1>8, Owners DEF AwaitInv, CallInvs, Routes

\* A row expires
LEMMA ExpireAgrees ==
  ASSUME AwaitInv, Agreed, NEW t \in Token, Expire(t)
  PROVE  Agreed'
  <1>1. UNCHANGED <<req, stored, ending, device, flight, callers>> /\ row[t].state = "live"
        /\ row' = [row EXCEPT ![t].state = "expired"] /\ row \in [Token -> Stored]
    BY DEF Expire, phone, AwaitInv, SessionInv, Typed
  <1>2. /\ \A u \in Token \ {t} : row'[u] = row[u]
        /\ row'[t].state = "expired"
    BY <1>1 DEF Stored
  <1>3. /\ Live' = Live \ {t} /\ \A u \in Live' : row'[u] = row[u]
        /\ Lasting' = Lasting \ {t}
    BY <1>1, <1>2 DEF Live, Lasting
  <1>4. \A u : Sole(u) => Sole(u)'
    BY <1>1, <1>2, <1>3 DEF Sole
  <1>5. Located'
    BY <1>1, <1>3, <1>4 DEF Agreed, Located, Tells
  <1>6. Purged'
    BY <1>1, <1>3 DEF Agreed, Purged, callers
  <1>7. StoredGood'
    BY <1>1, <1>2 DEF Agreed, StoredGood, Forgets, callers, AwaitInv, SessionInv, Typed
  <1> QED BY <1>1, <1>3, <1>5, <1>6, <1>7, LessLive

\* Every step of the server
LEMMA ServerAgrees ==
  ASSUME AwaitInv, Agreed, Undisturbed, ~Disturb, Server
  PROVE  Agreed'
  <1>1. \A r \in Request : ~RevokeSelect(r)
    BY Owners DEF RevokeSelect
  <1> QED BY <1>1, RotateSelectAgrees, RotateCommitAgrees, StatementBeginsAgrees, StatementEndsAgrees,
          IssueAgrees, ExpireAgrees DEF Server, Serve, StatementFails, RevokeCalled

-----------------------------------------------------------------------------
(* The phone, while nothing is lost *)

\* Neither the rows nor the erasures change, and no slot is taken but by the new flight
LEMMA RefreshMoves ==
  ASSUME AwaitInv, Agreed, UNCHANGED <<row, device, toClear, post>>,
         flight.at # "none",
         \A c \in Caller : call'[c] \in {"erasing", "clearing"} <=> call[c] \in {"erasing", "clearing"},
         \A r \in Request : req'[r].at # "free" =>
           (InFlight' /\ flight'.req = r) \/ (req[r].at # "free" /\ (InFlight => r # flight.req)),
         Located',
         stored' # NoToken => row[stored'].state \in {"live", "expired"} \/ flight'.at \in {"refresh", "save", "clear"}
  PROVE  Agreed'
  <1>1. \A c \in Caller : /\ call[c] \notin {"erasing", "clearing"}
                          /\ call'[c] \notin {"erasing", "clearing"}
    BY NoErasure
  <1>2. Owned'
    BY <1>1 DEF Agreed, Owned
  <1>3. Unmixed' /\ Purged'
    BY <1>1 DEF Unmixed, Purged, Erasing
  <1>4. OfDevice'
    BY DEF Agreed, OfDevice, Live
  <1>5. StoredGood'
    BY DEF StoredGood
  <1> QED BY <1>2, <1>3, <1>4, <1>5, Located' DEF Agreed

\* The refresh in flight: its token is the live one, or it begins anew when none is
LEMMA FlyAgrees ==
  ASSUME AwaitInv, Agreed, Fly
  PROVE  Agreed'
  <1>1. /\ UNCHANGED <<row, device, toClear, post>> /\ Lasting' = Lasting
        /\ flight.at # "none" /\ req \in [Request -> Served] /\ flight \in FlightState
    BY DEF Fly, FlightAnswered, FlightSaves, FlightClears, FlightAttests, callers, Land, Return,
       AwaitInv, SessionInv, Typed, Lasting
  <1>2. ASSUME UNCHANGED callers \/ \E t \in Token \cup {NoToken} : Land(t)
        PROVE  \A c \in Caller : call'[c] \in {"erasing", "clearing"} <=> call[c] \in {"erasing", "clearing"}
    BY <1>2, Landed DEF callers
  \* What is stored is good when it is not the refresh of it that is in flight
  <1>3. flight.at \in {"attest", "attesting", "saveNew"} /\ stored # NoToken => row[stored].state \in {"live", "expired"}
    BY NoErasure DEF Agreed, StoredGood, Forgets
  <1>4. CASE FlightAnswered
    <2>1. /\ InFlight /\ req[flight.req].at = "answered" /\ Tells(flight.req)
          /\ stored' = stored /\ flight.req \in Request
      BY <1>4 DEF Agreed, Located, FlightAnswered, InFlight, AwaitInv, SessionInv, Typed
    <2>2. \A r \in Request : req'[r].at # "free" => req[r].at # "free" /\ r # flight.req
      BY <1>1, <1>4, <2>1 DEF FlightAnswered, Collected, Idle
    <2>3. CASE req[flight.req].reply = "ok"
      <3>1. /\ flight' = [at |-> IF flight.at = "refresh" THEN "save" ELSE "saveNew",
                          req |-> NoRequest, token |-> req[flight.req].token]
            /\ UNCHANGED callers
        BY <1>4, <2>3 DEF FlightAnswered
      <3>2. flight'.at \in {"save", "saveNew"} /\ flight'.token = req[flight.req].token
            /\ (flight'.at = "saveNew" => flight.at = "attesting")
        BY <2>1, <3>1 DEF InFlight
      <3>3. Located'
        BY <1>1, <2>1, <2>3, <3>2 DEF Located, Tells, Sole
      <3> QED BY <1>1, <1>2, <1>3, <2>1, <2>2, <3>1, <3>2, <3>3, RefreshMoves
    <2>4. CASE req[flight.req].reply # "ok" /\ flight.at = "refresh"
      <3>1. flight' = [NoFlight EXCEPT !.at = "clear"] /\ UNCHANGED callers
        BY <1>4, <2>4 DEF FlightAnswered
      <3>2. flight'.at = "clear"
        BY <3>1 DEF NoFlight
      <3>3. Located'
        BY <1>1, <2>1, <2>4, <3>2 DEF Located, Tells
      <3> QED BY <1>1, <1>2, <2>1, <2>2, <3>1, <3>2, <3>3, RefreshMoves
    <2>5. CASE req[flight.req].reply # "ok" /\ flight.at # "refresh"
      <3>1. Land(NoToken)
        BY <1>4, <2>5 DEF FlightAnswered
      <3>2. flight'.at = "none"
        BY <3>1, Landed DEF NoFlight
      <3>3. Located'
        BY <1>1, <2>1, <2>5, <3>2 DEF Located, Tells
      <3>4. flight.at = "attesting"
        BY <2>1, <2>5 DEF InFlight
      <3> QED BY <1>1, <1>2, <1>3, <2>1, <2>2, <3>1, <3>3, <3>4, RefreshMoves
    <2> QED BY <2>3, <2>4, <2>5
  <1>5. CASE FlightSaves
    <2>1. /\ Sole(flight.token) /\ stored' = flight.token /\ flight.token \in Token
          /\ Land(flight.token) /\ req' = req /\ ~InFlight
      BY <1>5 DEF Agreed, Located, FlightSaves, Sole, InFlight
    <2>2. flight'.at = "none"
      BY <2>1, Landed DEF NoFlight
    <2>3. Located'
      BY <1>1, <2>1, <2>2 DEF Located, Sole
    <2>4. row[stored'].state \in {"live", "expired"}
      BY <2>1 DEF Sole
    <2> QED BY <1>1, <1>2, <2>1, <2>3, <2>4, RefreshMoves
  <1>6. CASE FlightClears
    <2>1. Lasting = {} /\ stored' = NoToken /\ flight'.at = "attest" /\ req' = req /\ UNCHANGED callers /\ ~InFlight
      BY <1>6 DEF Agreed, Located, FlightClears, NoFlight, InFlight
    <2>2. Located'
      BY <1>1, <2>1 DEF Located
    <2> QED BY <1>1, <1>2, <2>1, <2>2, RefreshMoves
  <1>7. CASE FlightAttests
    <2>1. Lasting = {} /\ stored' = stored /\ ~InFlight /\ flight.at = "attest"
      BY <1>7 DEF Agreed, Located, FlightAttests, InFlight
    <2>2. CASE Land(NoToken) /\ req' = req
      <3>1. flight'.at = "none"
        BY <2>2, Landed DEF NoFlight
      <3>2. Located'
        BY <1>1, <2>1, <3>1 DEF Located
      <3> QED BY <1>1, <1>2, <1>3, <2>1, <2>2, <3>2, RefreshMoves
    <2>3. ASSUME NEW r \in Free, Send(r, "issue", NoToken, device),
                 flight' = [at |-> "attesting", req |-> r, token |-> NoToken], UNCHANGED callers
          PROVE  Agreed'
      <3>1. /\ req'[r].at = "start" /\ req'[r].who = device
            /\ \A q \in Request \ {r} : req'[q] = req[q]
        BY <1>1, <2>3 DEF Send, Free
      <3>2. flight'.at = "attesting" /\ flight'.req = r /\ InFlight'
        BY <2>3 DEF InFlight
      <3>3. Located'
        BY <1>1, <2>1, <3>1, <3>2 DEF Located
      <3> QED BY <1>1, <1>2, <1>3, <2>1, <2>3, <3>1, <3>2, <3>3, RefreshMoves
    <2> QED BY <1>7, <2>2, <2>3 DEF FlightAttests
  <1> QED BY <1>4, <1>5, <1>6, <1>7 DEF Fly

\* A call of getMobileSessionToken
LEMMA CallAgrees ==
  ASSUME AwaitInv, Agreed, Undisturbed', NEW c \in Caller, UseStored(c) \/ GetToken(c)
  PROVE  Agreed'
  <1>1. /\ UNCHANGED <<row, stored, device, toClear, post>> /\ Live' = Live
        /\ call[c] = "idle" /\ call'[c] \in {"prepare", "waiting"}
        /\ \A d \in Caller \ {c} : call'[d] = call[d]
        /\ req \in [Request -> Served]
    BY DEF UseStored, GetToken, EraseBegins, AwaitInv, CallInvs, CallTypes, SessionInv, Typed, Live
  <1>2. \A d \in Caller : /\ call'[d] = "erasing" <=> call[d] = "erasing"
                          /\ call'[d] = "clearing" <=> call[d] = "clearing"
    BY <1>1
  <1>3. CASE UNCHANGED <<req, flight, ending>>
    <2>1. Owned' /\ Unmixed' /\ OfDevice' /\ Located' /\ Purged'
      BY <1>1, <1>2, <1>3 DEF Agreed, Owned, Unmixed, OfDevice, Located, Purged, InFlight, Erasing, Tells, Sole, Lasting
    <2>2. StoredGood'
      BY <1>1, <1>2, <1>3 DEF Agreed, StoredGood, Forgets
    <2> QED BY <2>1, <2>2 DEF Agreed
  <1>4. CASE GetToken(c) /\ flight = NoFlight
    <2>1. flight.at = "none" /\ ~InFlight
      BY <1>4 DEF NoFlight, InFlight
    <2>2. \A d \in Caller : call[d] \notin {"erasing", "clearing"}
      BY <1>4 DEF GetToken, Erasing, Undisturbed
    <2>3. Lasting \subseteq {stored} /\ (stored # NoToken => row[stored].state \in {"live", "expired"})
      BY <2>1, <2>2 DEF Agreed, Located, StoredGood, Forgets
    <2>4. ASSUME Located', \A r \in Request : req'[r].at # "free" => (InFlight' /\ flight'.req = r) \/ req[r].at # "free"
          PROVE  Agreed'
      <3>1. Owned' /\ Unmixed' /\ Purged'
        BY <1>2, <2>1, <2>2, <2>4 DEF Agreed, Owned, Unmixed, Purged, Erasing
      <3>2. OfDevice' /\ StoredGood'
        BY <1>1, <2>3 DEF Agreed, OfDevice, StoredGood
      <3> QED BY <2>4, <3>1, <3>2 DEF Agreed
    <2>5. CASE flight' = [NoFlight EXCEPT !.at = "attest"] /\ req' = req
              /\ ending' = ending \cup ({stored} \ {NoToken})
      <3>1. flight'.at = "attest"
        BY <2>5 DEF NoFlight
      <3>2. Lasting' = {}
        BY <1>1, <2>3, <2>5, NoneAssumption DEF Lasting
      <3>3. Located'
        BY <1>1, <3>1, <3>2 DEF Located
      <3> QED BY <2>4, <2>5, <3>3
    <2>6. ASSUME NEW r \in Free, Send(r, "rotate", stored, 0),
                 flight' = [at |-> "refresh", req |-> r, token |-> NoToken], ending' = ending
          PROVE  Agreed'
      <3>1. /\ req'[r].at = "start" /\ req'[r].token = stored
            /\ \A q \in Request \ {r} : req'[q] = req[q]
        BY <1>1, <2>6 DEF Send, Free
      <3>2. flight'.at = "refresh" /\ flight'.req = r /\ InFlight'
        BY <2>6 DEF InFlight
      <3>3. Located'
        BY <1>1, <2>3, <2>6, <3>1, <3>2 DEF Located, Lasting
      <3> QED BY <2>4, <3>1, <3>2, <3>3
    <2> QED BY <1>3, <1>4, <2>5, <2>6 DEF GetToken, StartOrJoin, RefreshStarts, AttestStarts
  <1> QED BY <1>3, <1>4 DEF UseStored, GetToken, StartOrJoin, RefreshStarts, AttestStarts

\* A purge is of the identity that the live row is of
LEMMA EraseSendsAgrees ==
  ASSUME AwaitInv, Agreed, Undisturbed', NEW c \in Caller, EraseSends(c)
  PROVE  Agreed'
  <1>1. /\ UNCHANGED <<row, stored, device, flight, toClear>>
        /\ Live' = Live /\ Lasting' = Lasting
        /\ call[c] = "prepare" /\ req \in [Request -> Served]
        /\ call \in [Caller -> {"idle", "waiting", "prepare", "erasing", "clearing"}]
        /\ post \in [Caller -> Request \cup {NoRequest}]
        /\ \A d \in Caller \ {c} : call'[d] = call[d] /\ post'[d] = post[d]
    BY DEF EraseSends, AwaitInv, CallInvs, CallTypes, SessionInv, Typed, Live, Lasting
  <1>2. CASE call' = [call EXCEPT ![c] = "idle"] /\ UNCHANGED <<req, post>>
    <2>1. call'[c] = "idle"
      BY <1>1, <1>2
    <2>2. Owned' /\ Unmixed' /\ OfDevice' /\ Located' /\ Purged'
      BY <1>1, <1>2, <2>1 DEF Agreed, Owned, Unmixed, OfDevice, Located, Purged, InFlight, Erasing, Tells, Sole
    <2>3. StoredGood'
      BY <1>1, <1>2, <2>1 DEF Agreed, StoredGood, Forgets
    <2> QED BY <2>2, <2>3 DEF Agreed
  <1>3. ASSUME NEW r \in Free, Send(r, "purge", NoToken, device), post' = [post EXCEPT ![c] = r],
               call' = [call EXCEPT ![c] = "erasing"], flight.at = "none"
        PROVE  Agreed'
    <2>1. /\ r \in Request /\ req[r].at = "free"
          /\ req'[r].at = "start" /\ req'[r].who = device
          /\ \A q \in Request \ {r} : req'[q] = req[q]
          /\ call'[c] = "erasing" /\ post'[c] = r
      BY <1>1, <1>3 DEF Send, Free
    <2>2. \A d \in Caller : call[d] = "erasing" => post[d] \in Request \ {r} /\ d # c
      BY <1>1, <2>1, AwaitedBusy
    <2>3. Owned'
      BY <1>1, <1>3, <2>1, <2>2 DEF Agreed, Owned, InFlight
    <2>4. Unmixed' /\ OfDevice' /\ Located'
      BY <1>1, <1>3 DEF Agreed, Unmixed, OfDevice, Located
    <2>5. Purged'
      <3>1. Purged!(c)'
        BY <1>1, <2>1 DEF Agreed, OfDevice
      <3>2. ASSUME NEW d \in Caller \ {c} PROVE Purged!(d)'
        BY <1>1, <2>1, <2>2 DEF Agreed, Purged
      <3> QED BY <3>1, <3>2 DEF Purged
    <2>6. ASSUME NEW d \in Caller, Forgets(d) PROVE Forgets(d)'
      BY <1>1, <2>1, <2>2, <2>6 DEF Forgets
    <2>7. StoredGood'
      BY <1>1, <2>6 DEF Agreed, StoredGood
    <2> QED BY <2>3, <2>4, <2>5, <2>7 DEF Agreed
  <1> QED BY <1>2, <1>3 DEF EraseSends, Undisturbed

\* After a purge no row is live, and the session is to be forgotten
LEMMA EraseAnsweredAgrees ==
  ASSUME AwaitInv, Agreed, NEW c \in Caller, EraseAnswered(c)
  PROVE  Agreed'
  <1>1. /\ UNCHANGED <<row, stored, device, flight>>
        /\ Live' = Live /\ Lasting' = Lasting
        /\ call[c] = "erasing" /\ req[post[c]].at = "answered" /\ post[c] \in Request
        /\ flight.at = "none"
    <2>1. flight.at = "none"
      BY NoErasure DEF EraseAnswered
    <2> QED BY <2>1 DEF EraseAnswered, AwaitInv, CallInvs, Erasers, Live, Lasting
  <1>2. /\ \A q \in Request \ {post[c]} : req'[q] = req[q]
        /\ req'[post[c]] = Idle /\ Idle.at = "free"
        /\ \A d \in Caller \ {c} : /\ call'[d] = call[d] /\ post'[d] = post[d] /\ toClear'[d] = toClear[d]
                                   /\ call[d] = "erasing" => post[d] \in Request \ {post[c]}
    BY <1>1 DEF EraseAnswered, Collected, Idle, AwaitInv, CallInvs, CallTypes, SessionInv, Typed, Apart, Erasers
  <1>3. \/ req[post[c]].reply = "ok" /\ call'[c] = "clearing" /\ toClear'[c] = {"device", "session"}
        \/ req[post[c]].reply # "ok" /\ call'[c] = "idle"
    BY DEF EraseAnswered, Identity, AwaitInv, CallInvs, CallTypes
  <1>4. Owned'
    BY <1>1, <1>2 DEF Agreed, Owned, InFlight
  <1>5. Unmixed' /\ OfDevice' /\ Located'
    BY <1>1 DEF Agreed, Unmixed, OfDevice, Located
  <1>6. Purged'
    <2>1. ASSUME NEW d \in Caller \ {c} PROVE Purged!(d)'
      BY <1>1, <1>2 DEF Agreed, Purged
    <2>2. Purged!(c)'
      BY <1>1, <1>3 DEF Agreed, Purged
    <2> QED BY <2>1, <2>2 DEF Purged
  <1>7. StoredGood'
    <2>1. ASSUME NEW d \in Caller, Forgets(d) PROVE Forgets(d)'
      BY <1>1, <1>2, <1>3, <2>1 DEF Forgets
    <2> QED BY <1>1, <2>1 DEF Agreed, StoredGood
  <1> QED BY <1>4, <1>5, <1>6, <1>7 DEF Agreed

\* The identity and the session are forgotten, in either order
LEMMA EraseClearsAgrees ==
  ASSUME AwaitInv, Agreed, NEW c \in Caller, EraseClears(c)
  PROVE  Agreed'
  <1>1. /\ UNCHANGED <<row, req, flight, post>> /\ call[c] = "clearing"
        /\ Live' = {} /\ Lasting' = {} /\ flight.at = "none"
    BY NoErasure DEF EraseClears, Live, Lasting, Agreed, Purged
  <1>2. PICK what \in toClear[c] :
          /\ toClear' = [toClear EXCEPT ![c] = toClear[c] \ {what}]
          /\ stored' = IF what = "session" THEN NoToken ELSE stored
          /\ call' = IF toClear[c] = {what} THEN [call EXCEPT ![c] = "idle"] ELSE call
    BY DEF EraseClears
  <1>3. /\ call \in [Caller -> {"idle", "waiting", "prepare", "erasing", "clearing"}]
        /\ toClear \in [Caller -> SUBSET {"device", "session"}]
    BY DEF AwaitInv, CallInvs, CallTypes
  <1>4. \A d \in Caller \ {c} : call'[d] = call[d] /\ toClear'[d] = toClear[d]
    BY <1>2, <1>3
  <1>5. call'[c] \in {"idle", "clearing"}
    BY <1>1, <1>2, <1>3
  <1>6. Owned' /\ Unmixed'
    BY <1>1, <1>4, <1>5 DEF Agreed, Owned, Unmixed, InFlight
  <1>7. OfDevice' /\ Located' /\ Purged'
    BY <1>1, <1>4, <1>5 DEF OfDevice, Located, Purged
  <1>8. StoredGood'
    <2>1. CASE what = "session"
      BY <1>2, <2>1 DEF StoredGood
    <2>2. CASE what # "session"
      <3>1. ASSUME NEW d \in Caller, Forgets(d) PROVE Forgets(d)'
        BY <1>1, <1>2, <1>3, <1>4, <2>2, <3>1 DEF Forgets
      <3> QED BY <1>1, <1>2, <2>2, <3>1 DEF Agreed, StoredGood
    <2> QED BY <2>1, <2>2
  <1> QED BY <1>6, <1>7, <1>8 DEF Agreed

LEMMA NextAgrees == ASSUME AgreeInv, [Next]_vars PROVE AgreeInv'
  <1>1. AwaitInv'
    BY NextCalls DEF AgreeInv
  <1>2. ASSUME Undisturbed' PROVE Agreed'
    <2>1. AwaitInv /\ Agreed /\ Undisturbed /\ ~Disturb
      BY <1>2, StillUndisturbed DEF AgreeInv
    <2>2. CASE Server
      BY <2>1, <2>2, ServerAgrees
    <2>3. CASE Fly
      BY <2>1, <2>3, FlyAgrees
    <2>4. ASSUME NEW c \in Caller, UseStored(c) \/ GetToken(c) PROVE Agreed'
      BY <1>2, <2>1, <2>4, CallAgrees
    <2>5. ASSUME NEW c \in Caller, Erase(c) PROVE Agreed'
      BY <1>2, <2>1, <2>5, EraseSendsAgrees, EraseAnsweredAgrees, EraseClearsAgrees DEF Erase
    <2>6. CASE Lapse \/ UNCHANGED vars
      <3>1. UNCHANGED <<row, req, stored, ending, device, flight, call, toClear, post>>
        BY <2>6 DEF Lapse, vars, phone, callers
      <3> QED BY <2>1, <3>1 DEF Agreed, Owned, Unmixed, OfDevice, Located, Purged, StoredGood,
             InFlight, Erasing, Tells, Sole, Live, Lasting, Forgets
    <2> QED BY <2>1, <2>2, <2>3, <2>4, <2>5, <2>6
        DEF Next, EraseTimesOut, ClearFails, FlightTimesOut, StorageFails, AppEnds
  <1> QED BY <1>1, <1>2 DEF AgreeInv

LEMMA InitAgrees == ASSUME Init PROVE AgreeInv
  <1>1. Live = {} /\ Lasting = {}
    BY DEF Init, Live, Lasting, NoRow
  <1>2. flight.at = "none" /\ \A r \in Request : req[r].at = "free"
    BY DEF Init, NoFlight, Idle
  <1>3. \A c \in Caller : call[c] = "idle"
    BY DEF Init
  <1>4. Agreed
    BY <1>1, <1>2, <1>3 DEF Init, Agreed, Owned, Unmixed, OfDevice, Located, Purged, StoredGood, Erasing
  <1> QED BY <1>4, InitCalls DEF AgreeInv

\* As long as nothing is lost, the server never has two live sessions of the phone, over all
\* its families, but for those whose refresh token the phone has found in the safety window
\* before its end: only then does getMobileSessionToken attest a device that has a session.
THEOREM PhoneHasOneSession == Spec => []OneLiveSession
  <1>1. ASSUME AgreeInv, Undisturbed, NEW t \in Lasting, NEW u \in Lasting PROVE t = u
    <2>1. AwaitInv /\ Agreed /\ Located
      BY <1>1 DEF AgreeInv, Agreed
    <2>2. CASE InFlight
      <3>1. req[flight.req].at \in {"start", "insert", "revoke", "update", "answered"}
        BY <2>1, <2>2, AwaitedBusy DEF AwaitInv, SessionInv, Typed, Served
      <3> QED BY <1>1, <2>1, <2>2, <3>1 DEF Located, Tells, Sole, InFlight
    <2>3. CASE ~InFlight
      <3>1. flight.at \in {"none", "save", "clear", "attest", "saveNew"}
        BY <2>1, <2>3 DEF InFlight, AwaitInv, SessionInv, Typed, FlightState
      <3> QED BY <1>1, <2>1, <3>1 DEF Located, Sole
    <2> QED BY <2>2, <2>3
  <1>2. AgreeInv => OneLiveSession
    BY <1>1 DEF OneLiveSession
  <1> QED BY <1>2, InitAgrees, NextAgrees, PTL DEF Spec

\* When nothing was lost and nothing is under way, the session that lasts is the stored one,
\* and every session that can still be exchanged, also one the phone has given up, is of the
\* identity the phone has, after any number of erasures by any number of callers.
THEOREM SessionsInStep == Spec => []InStep
  <1>1. ASSUME AgreeInv, Undisturbed, Quiet
        PROVE  /\ Lasting \subseteq {stored}
               /\ \A t \in Token : row[t].state = "live" => row[t].subject = device
               /\ stored # NoToken => row[stored].state \in {"live", "expired"}
    <2>1. Agreed /\ flight.at = "none"
      BY <1>1 DEF AgreeInv, Quiet, NoFlight
    <2>2. \A c \in Caller : ~Forgets(c)
      BY <1>1 DEF Quiet, Forgets
    <2> QED BY <2>1, <2>2 DEF Agreed, Located, OfDevice, StoredGood, Live
  <1>2. AgreeInv => InStep
    BY <1>1 DEF InStep
  <1> QED BY <1>2, InitAgrees, NextAgrees, PTL DEF Spec
===============================================================================
