----------------------------- MODULE MobileSession -----------------------------
(***************************************************************************)
(* Mobile sessions: the rotating refresh tokens that the API keeps in       *)
(* PostgreSQL, and the phone that holds one of them.                        *)
(*                                                                         *)
(* On the phone, calls of getMobileSessionToken share one refresh in        *)
(* flight, which presents the stored token or, when that fails, attests the *)
(* device and gets the token of a new family. An erasure deletes the        *)
(* sessions of the device and then forgets its identity. On the server, a   *)
(* request is a sequence of statements under READ COMMITTED: a statement    *)
(* sees what had been committed when it began, waits for the rows another   *)
(* transaction has locked, and then goes on with the rows it had seen.      *)
(*                                                                         *)
(* Time is abstract. The phone's storage (the keychain) does what it is     *)
(* asked in that order and answers in that order, so that a caller's read   *)
(* is not overtaken by a refresh that began after it.                       *)
(***************************************************************************)
EXTENDS Naturals, FiniteSets

CONSTANTS
  Token,    \* rows of mobile_refresh_sessions, by the token they are the hash of
  NoToken,
  Family,
  NoFamily,
  Request,  \* requests the server handles at one time
  NoRequest,
  Caller,   \* callers of getMobileSessionToken
  Eraser,   \* those that may ask for an erasure
  MaxErase, \* erasures the user asks for
  MaxDisturbances \* lost answers, failed writes, ends of the app, calls of revoke

ASSUME NoneAssumption == NoToken \notin Token /\ NoRequest \notin Request /\ NoFamily \notin Family
ASSUME EraserAssumption == Eraser \subseteq Caller
ASSUME BoundAssumption == MaxErase \in Nat /\ MaxDisturbances \in Nat

VARIABLES
  row,      \* each row: its state, its family, and its subject, the identity of the
            \* device, counted from the first
  req,      \* the request in each slot of the server
  stored,   \* the session in the phone's secure storage, by its refresh token
  usable,   \* sessions whose access token the phone takes for good
  ending,   \* sessions whose refresh token the phone found to be within the safety window
            \* before its end (TOKEN_SAFETY_WINDOW_MS): the server would still exchange it
  device,   \* the device id the phone holds
  flight,   \* inFlightTokenRefresh
  call,     \* where each caller is
  goal,     \* what it wants a session for
  held,     \* the session it erases with
  post,     \* the erasure it has sent
  toClear,  \* what it has left to clear after an erasure
  erasures,
  disturbances,
  mixed     \* history: an erasure and a refresh were under way at one time

callers == <<call, goal, held, post, toClear>>
counts == <<erasures, disturbances, mixed>>
phone == <<stored, usable, ending, device, flight, callers>>
vars == <<row, req, phone, counts>>

-----------------------------------------------------------------------------
(* Values *)

\* Only rows that are neither rotated, revoked nor expired can be exchanged
Row == [state : {"none", "live", "expired", "rotated", "revoked"},
        family : Family \cup {NoFamily}, subject : 0 .. MaxErase]

NoRow == [state |-> "none", family |-> NoFamily, subject |-> 0]

Idle == [op |-> "none", at |-> "free", token |-> NoToken, who |-> 0,
         seen |-> {}, reply |-> "none"]

\* A request: the route, the statement it has come to, its token (the new one when it is
\* answered), its subject, and the rows seen by its UPDATE or DELETE
RequestState ==
  [op : {"none", "rotate", "issue", "revoke", "purge"},
   at : {"free", "start", "insert", "revoke", "update", "answered"},
   token : Token \cup {NoToken}, who : 0 .. MaxErase, seen : SUBSET Token,
   reply : {"none", "ok", "refused", "error"}]

NoFlight == [at |-> "none", req |-> NoRequest, token |-> NoToken]

FlightState ==
  [at : {"none", "refresh", "save", "clear", "attest", "attesting", "saveNew"},
   req : Request \cup {NoRequest}, token : Token \cup {NoToken}]

\* The values the rows, the requests and the phone can hold.
TypeOK ==
  /\ row \in [Token -> Row]
  /\ req \in [Request -> RequestState]
  /\ stored \in Token \cup {NoToken}
  /\ usable \subseteq Token
  /\ ending \subseteq Token
  /\ device \in 0 .. MaxErase
  /\ flight \in FlightState
  /\ call \in [Caller -> {"idle", "waiting", "prepare", "erasing", "clearing"}]
  /\ goal \in [Caller -> {"use", "erase"}]
  /\ held \in [Caller -> Token \cup {NoToken}]
  /\ post \in [Caller -> Request \cup {NoRequest}]
  /\ toClear \in [Caller -> SUBSET {"device", "session"}]
  /\ erasures \in 0 .. MaxErase
  /\ disturbances \in 0 .. MaxDisturbances
  /\ mixed \in BOOLEAN

Init ==
  /\ row = [t \in Token |-> NoRow]
  /\ req = [r \in Request |-> Idle]
  /\ stored = NoToken
  /\ usable = {}
  /\ ending = {}
  /\ device = 0
  /\ flight = NoFlight
  /\ call = [c \in Caller |-> "idle"]
  /\ goal = [c \in Caller |-> "use"]
  /\ held = [c \in Caller |-> NoToken]
  /\ post = [c \in Caller |-> NoRequest]
  /\ toClear = [c \in Caller |-> {}]
  /\ erasures = 0
  /\ disturbances = 0
  /\ mixed = FALSE

Disturb ==
  /\ disturbances < MaxDisturbances
  /\ disturbances' = disturbances + 1
  /\ UNCHANGED <<erasures, mixed>>

\* Nothing was lost on the way
Undisturbed == disturbances = 0 /\ ~mixed

\* Tokens are random and never used twice. Rows that nobody will look at again are
\* forgotten when one is inserted, live ones only when the properties no longer speak of
\* them.
Remembered ==
  {stored, flight.token} \cup {held[c] : c \in Caller} \cup {req[r].token : r \in Request}
Unused == {t \in Token : row[t].state = "live" => ~Undisturbed} \ Remembered
New == CHOOSE t \in Unused : TRUE

\* These rows with a new live one
Inserted(rows, f, s) ==
  [t \in Token |-> IF t = New THEN [state |-> "live", family |-> f, subject |-> s]
                   ELSE IF t \in Unused THEN NoRow ELSE rows[t]]

InFamily(f) == {t \in Token : row[t].family = f}
OfSubject(s) == {t \in Token : row[t] # NoRow /\ row[t].subject = s}
FreshFamily == {f \in Family : \A t \in Token \ Unused : row[t].family # f}
NewFamily == CHOOSE f \in FreshFamily : TRUE

-----------------------------------------------------------------------------
(* The server: mobileSessionRefreshStore *)

\* The client has not given up
Awaited == {flight.req} \cup {post[c] : c \in Caller}

ReplyWith(reply, t) ==
  [op |-> "none", at |-> "answered", token |-> t, who |-> 0, seen |-> {}, reply |-> reply]

\* The handler of r answers, with token t; nobody reads the answer of a request that was
\* given up. The statements under way have not seen the row of a new token.
Answer(r, reply, t) ==
  req' = [q \in Request |->
    CASE q # r -> [req[q] EXCEPT !.seen = @ \ {t}]
      [] q = r /\ r \in Awaited -> ReplyWith(reply, t)
      [] OTHER -> Idle]

\* slip: SELECT without FOR UPDATE
LocksNothing(r) == {}

\* The rows the transaction of r has locked: the one it selected FOR UPDATE. A revocation
\* by the route has no transaction: its lock ends with the SELECT.
Locks(r) ==
  IF req[r].op = "rotate" /\ req[r].at \in {"insert", "revoke", "update"}
  THEN {req[r].token} ELSE {}

LockedByOthers(r) == UNION {Locks(q) : q \in Request \ {r}}

\* loadForUpdateByTokenHash, and what it decides
RotateSelect(r) ==
  LET t == req[r].token IN
  /\ req[r].op = "rotate" /\ req[r].at = "start"
  /\ t \notin LockedByOthers(r)
  /\ CASE row[t].state = "live"                 -> req' = [req EXCEPT ![r].at = "insert"]
       [] row[t].state \in {"rotated", "expired"} -> req' = [req EXCEPT ![r].at = "revoke"]
       [] OTHER                           -> Answer(r, "refused", NoToken)
  /\ UNCHANGED <<row, phone, counts>>

\* UPDATE ... SET rotated_at: a row that has been revoked meanwhile counts as exchanged. The
\* lock rules it out.
Rotated(t) == [row EXCEPT ![t].state = "rotated"]

\* INSERT of the new token, UPDATE of the old one, COMMIT: seen by others all at once
RotateCommit(r) ==
  LET t == req[r].token IN
  /\ req[r].at = "insert"
  /\ Unused # {}
  /\ row' = Inserted(Rotated(t), row[t].family, row[t].subject)
  /\ usable' = (usable \ Unused) \cup {New}
  /\ ending' = ending \ Unused
  /\ Answer(r, "ok", New)
  /\ UNCHANGED <<stored, device, flight, callers, counts>>

\* revokeFamilyByToken: the row is selected FOR UPDATE outside a transaction
RevokeSelect(r) ==
  LET t == req[r].token IN
  /\ req[r].op = "revoke" /\ req[r].at = "start"
  /\ t \notin LockedByOthers(r)
  /\ IF row[t].state = "none" THEN Answer(r, "ok", NoToken)
                        ELSE req' = [req EXCEPT ![r].at = "revoke"]
  /\ UNCHANGED <<row, phone, counts>>

\* The UPDATE of revokeFamilyById begins, and so does the DELETE of purgeBySubject: they
\* see the rows that are committed now
StatementBegins(r) ==
  /\ \/ /\ req[r].at = "revoke"
        /\ req' = [req EXCEPT ![r].at = "update",
                     ![r].seen = InFamily(row[req[r].token].family) \ Unused]
     \/ /\ req[r].op = "purge" /\ req[r].at = "start"
        /\ req' = [req EXCEPT ![r].at = "update", ![r].seen = OfSubject(req[r].who) \ Unused]
  /\ UNCHANGED <<row, phone, counts>>

\* It ends once none of these rows is locked by another transaction. Rows inserted since
\* it began are not among them.
StatementEnds(r) ==
  /\ req[r].at = "update"
  /\ req[r].seen \cap LockedByOthers(r) = {}
  /\ row' = [t \in Token |->
               CASE t \notin req[r].seen \/ row[t] = NoRow -> row[t]
                 [] OTHER -> IF req[r].op = "purge" THEN NoRow
                             ELSE [row[t] EXCEPT !.state = "revoked"]]
  /\ Answer(r, IF req[r].op = "rotate" THEN "refused" ELSE "ok", NoToken)
  /\ UNCHANGED <<phone, counts>>

\* Two statements, each with a row that the other waits for: PostgreSQL ends one of them
DeadlockVictim(r) ==
  /\ req[r].at = "update"
  /\ \E q \in Request \ {r}, t, u \in Token :
       /\ req[q].at = "update"
       /\ t # u
       /\ t \in (Locks(r) \cup req[r].seen) \cap req[q].seen
       /\ u \in (Locks(q) \cup req[q].seen) \cap req[r].seen
  /\ Answer(r, "error", NoToken)
  /\ UNCHANGED <<row, phone, counts>>

\* The attestation is verified and a family begun, or it is refused: an unknown challenge
\* (it is in the memory of another API process), a bad verdict
Issue(r) ==
  /\ req[r].op = "issue" /\ req[r].at = "start"
  /\ \/ /\ Unused # {} /\ FreshFamily # {}
        /\ row' = Inserted(row, NewFamily, req[r].who)
        /\ usable' = (usable \ Unused) \cup {New}
        /\ ending' = ending \ Unused
        /\ Answer(r, "ok", New)
     \/ /\ Answer(r, "refused", NoToken)
        /\ UNCHANGED <<row, usable, ending>>
  /\ UNCHANGED <<stored, device, flight, callers, counts>>

\* A statement fails, and its transaction is rolled back
StatementFails(r) ==
  /\ Disturb
  /\ req[r].at \notin {"free", "answered"}
  /\ Answer(r, "error", NoToken)
  /\ UNCHANGED <<row, phone>>

\* POST /v1/mobile/session/revoke, with any token that was issued. The app has no call
\* of it.
RevokeCalled(r) ==
  /\ Disturb
  /\ req[r].at = "free"
  /\ \E t \in Token :
       /\ row[t].state # "none"
       /\ req' = [req EXCEPT ![r].op = "revoke", ![r].at = "start", ![r].token = t]
  /\ UNCHANGED <<row, phone>>

\* expires_at passes. It matters for the token the phone holds and for those it has given
\* up. Nothing is assumed of the clocks: a row may expire before the phone finds it so.
Expire(t) ==
  /\ row[t].state = "live" /\ t \in ({stored} \cup ending) \ Unused
  /\ \A r \in Request : t \notin Locks(r)
  /\ row' = [row EXCEPT ![t].state = "expired"]
  /\ UNCHANGED <<req, phone, counts>>

Serve(r) ==
  \/ RotateSelect(r) \/ RotateCommit(r) \/ RevokeSelect(r)
  \/ StatementBegins(r) \/ StatementEnds(r) \/ Issue(r)

Server ==
  \/ \E r \in Request : Serve(r) \/ DeadlockVictim(r) \/ StatementFails(r) \/ RevokeCalled(r)
  \/ \E t \in Token : Expire(t)

-----------------------------------------------------------------------------
(* The phone: mobileSessionAuth *)

Free == {r \in Request : req[r].at = "free"}

Send(r, op, t, who) ==
  req' = [req EXCEPT ![r] = [op |-> op, at |-> "start", token |-> t, who |-> who,
                              seen |-> {}, reply |-> "none"]]

Erasing(c) == call[c] \in {"erasing", "clearing"}

\* Those of C have what they called for, session t, or an error (NoToken)
Return(C, t) ==
  LET going == {c \in C : goal[c] = "erase" /\ t # NoToken} IN
  /\ call' = [c \in Caller |-> IF c \in going THEN "prepare"
                               ELSE IF c \in C THEN "idle" ELSE call[c]]
  /\ held' = [c \in Caller |-> IF c \in going THEN t ELSE held[c]]
  /\ UNCHANGED <<goal, post, toClear>>

\* An erasure begins with a session. Of the calls of others, those that find the stored
\* session usable change nothing.
EraseBegins(c) ==
  /\ call[c] = "idle" /\ c \in Eraser
  /\ erasures < MaxErase
  /\ erasures' = erasures + 1
  /\ goal' = [goal EXCEPT ![c] = "erase"]

UseStored(c) ==
  /\ EraseBegins(c)
  /\ stored \in usable
  /\ call' = [call EXCEPT ![c] = "prepare"]
  /\ held' = [held EXCEPT ![c] = stored]
  /\ UNCHANGED <<row, req, stored, usable, ending, device, flight, post, toClear, disturbances, mixed>>

\* isRefreshTokenUsable: the phone asks its own clock, and not the server. A token once
\* found to be about to expire stays so.
RefreshUsable(t) == t # NoToken /\ t \notin ending

RefreshStarts ==
  /\ RefreshUsable(stored)
  /\ \E r \in Free : /\ Send(r, "rotate", stored, 0)
                     /\ flight' = [at |-> "refresh", req |-> r, token |-> NoToken]
  /\ UNCHANGED ending

\* Nothing is stored, or its refresh token is found to be about to expire: the session of
\* the old family stays as it is on the server
AttestStarts ==
  /\ ending' = ending \cup ({stored} \ {NoToken})
  /\ flight' = [NoFlight EXCEPT !.at = "attest"]
  /\ UNCHANGED req

\* slip: the refresh in flight is not looked at
StartAnyway == RefreshStarts \/ AttestStarts

\* A refresh in flight is shared. When there is none, the stored session is refreshed, or
\* the device is attested.
StartOrJoin ==
  \/ flight # NoFlight /\ UNCHANGED <<req, flight, ending>>
  \/ flight = NoFlight /\ (RefreshStarts \/ AttestStarts)

\* getMobileSessionToken, when the stored session cannot be used
GetToken(c) ==
  /\ stored \notin usable
  /\ \/ EraseBegins(c)
     \/ /\ call[c] = "idle"
        /\ goal' = [goal EXCEPT ![c] = "use"]
        /\ UNCHANGED erasures
  /\ StartOrJoin
  /\ call' = [call EXCEPT ![c] = "waiting"]
  /\ mixed' = (mixed \/ \E d \in Caller : Erasing(d))
  /\ UNCHANGED <<row, stored, usable, device, held, post, toClear, disturbances>>

\* slip: inFlightTokenRefresh is reset only after a success
FlightKept(t) == IF t = NoToken THEN flight ELSE NoFlight

\* finally
FlightOver(t) == NoFlight

\* The refresh in flight ends, with a session or an error, and everybody who waited for
\* it goes on
Land(t) ==
  /\ flight' = FlightOver(t)
  /\ Return({c \in Caller : call[c] = "waiting"}, t)

\* The answer to a request is read, or will not be
Collected(r) == req' = [req EXCEPT ![r] = Idle]
GiveUp(r) == IF req[r].at = "answered" THEN [req EXCEPT ![r] = Idle] ELSE req

\* The answer arrives. Any failure of a refresh leads to a new attestation, a failed
\* attestation to an error.
FlightAnswered ==
  /\ flight.at \in {"refresh", "attesting"}
  /\ req[flight.req].at = "answered"
  /\ Collected(flight.req)
  /\ CASE req[flight.req].reply = "ok" ->
            /\ flight' = [at |-> IF flight.at = "refresh" THEN "save" ELSE "saveNew",
                          req |-> NoRequest, token |-> req[flight.req].token]
            /\ UNCHANGED callers
       [] req[flight.req].reply # "ok" /\ flight.at = "refresh" ->
            /\ flight' = [NoFlight EXCEPT !.at = "clear"]
            /\ UNCHANGED callers
       [] OTHER -> Land(NoToken)
  /\ UNCHANGED <<row, stored, usable, ending, device, counts>>

\* saveSessionSnapshot
FlightSaves ==
  /\ flight.at \in {"save", "saveNew"}
  /\ stored' = flight.token
  /\ Land(flight.token)
  /\ UNCHANGED <<row, req, usable, ending, device, counts>>

\* clearStoredSessionToken
FlightClears ==
  /\ flight.at = "clear"
  /\ stored' = NoToken
  /\ flight' = [NoFlight EXCEPT !.at = "attest"]
  /\ UNCHANGED <<row, req, usable, ending, device, callers, counts>>

\* refreshSessionToken: the integrity of the device, its id, a challenge, the attestation
FlightAttests ==
  /\ flight.at = "attest"
  /\ \/ \E r \in Free : /\ Send(r, "issue", NoToken, device)
                        /\ flight' = [at |-> "attesting", req |-> r, token |-> NoToken]
                        /\ UNCHANGED callers
     \/ /\ Land(NoToken)
        /\ UNCHANGED req
  /\ UNCHANGED <<row, stored, usable, ending, device, counts>>

\* The answer is lost or late: the phone gives up, and the server does not know
FlightTimesOut ==
  /\ Disturb
  /\ flight.at \in {"refresh", "attesting"}
  /\ req' = GiveUp(flight.req)
  /\ IF flight.at = "refresh"
     THEN /\ flight' = [NoFlight EXCEPT !.at = "clear"]
          /\ UNCHANGED callers
     ELSE Land(NoToken)
  /\ UNCHANGED <<row, stored, usable, ending, device>>

\* The storage refuses. A refreshed session that cannot be written counts as a failed
\* refresh.
StorageFails ==
  /\ Disturb
  /\ \/ /\ flight.at = "save"
        /\ flight' = [NoFlight EXCEPT !.at = "clear"]
        /\ UNCHANGED callers
     \/ /\ flight.at \in {"saveNew", "clear"}
        /\ Land(NoToken)
  /\ UNCHANGED <<row, req, stored, usable, ending, device>>

\* eraseMobilePrivacyData, once it has a session: the integrity of the device, its id, a
\* challenge, and the request; any of them may fail. The server checks that the access
\* token is of this identity; the row of it may be gone.
EraseSends(c) ==
  /\ call[c] = "prepare"
  /\ \/ \E r \in Free :
          /\ Send(r, "purge", NoToken, device)
          /\ post' = [post EXCEPT ![c] = r]
          /\ call' = [call EXCEPT ![c] = "erasing"]
          /\ row[held[c]] = NoRow \/ row[held[c]].subject = device
          /\ mixed' = (mixed \/ flight.at # "none")
     \/ /\ call' = [call EXCEPT ![c] = "idle"]
        /\ UNCHANGED <<req, post, mixed>>
  /\ held' = [held EXCEPT ![c] = NoToken]
  /\ UNCHANGED <<row, stored, usable, ending, device, flight, goal, toClear,
                 erasures, disturbances>>

\* slip: the session is left to expire
DeviceAlone == {"device"}

\* What is forgotten after an erasure
Identity == {"device", "session"}

EraseAnswered(c) ==
  /\ call[c] = "erasing"
  /\ req[post[c]].at = "answered"
  /\ Collected(post[c])
  /\ post' = [post EXCEPT ![c] = NoRequest]
  /\ IF req[post[c]].reply = "ok"
     THEN /\ call' = [call EXCEPT ![c] = "clearing"]
          /\ toClear' = [toClear EXCEPT ![c] = Identity]
     ELSE /\ call' = [call EXCEPT ![c] = "idle"]
          /\ UNCHANGED toClear
  /\ UNCHANGED <<row, stored, usable, ending, device, flight, goal, held, counts>>

\* The answer is lost, or says that something else failed after the sessions were gone
EraseTimesOut(c) ==
  /\ Disturb
  /\ call[c] = "erasing"
  /\ req' = GiveUp(post[c])
  /\ post' = [post EXCEPT ![c] = NoRequest]
  /\ call' = [call EXCEPT ![c] = "idle"]
  /\ UNCHANGED <<row, stored, usable, ending, device, flight, goal, held, toClear>>

\* slip: the session is cleared through the same function
IdAfterEither(what) == device + 1

\* getOrCreatePushDeviceId makes up another one once it is cleared
IdAfter(what) == IF what = "device" THEN device + 1 ELSE device

\* clearPushDeviceId and clearStoredSessionToken, side by side
EraseClears(c) ==
  /\ call[c] = "clearing"
  /\ \E what \in toClear[c] :
       /\ toClear' = [toClear EXCEPT ![c] = @ \ {what}]
       /\ device' = IdAfter(what)
       /\ stored' = IF what = "session" THEN NoToken ELSE stored
       /\ call' = IF toClear[c] = {what} THEN [call EXCEPT ![c] = "idle"] ELSE call
  /\ UNCHANGED <<row, req, usable, ending, flight, goal, held, post, counts>>

\* One of them fails: the caller gets an error, and the other goes on
ClearFails(c) ==
  /\ Disturb
  /\ call[c] = "clearing"
  /\ \E what \in toClear[c] :
       /\ toClear' = [toClear EXCEPT ![c] = @ \ {what}]
       /\ call' = IF toClear[c] = {what} THEN [call EXCEPT ![c] = "idle"] ELSE call
  /\ UNCHANGED <<row, req, stored, usable, ending, device, flight, goal, held, post>>

\* The app ends: what it awaited goes on without it
AppEnds ==
  /\ Disturb
  /\ flight # NoFlight \/ \E c \in Caller : call[c] # "idle"
  /\ req' = [r \in Request |-> IF req[r].at = "answered" THEN Idle ELSE req[r]]
  /\ flight' = NoFlight
  /\ call' = [c \in Caller |-> "idle"]
  /\ goal' = [c \in Caller |-> "use"]
  /\ held' = [c \in Caller |-> NoToken]
  /\ post' = [c \in Caller |-> NoRequest]
  /\ toClear' = [c \in Caller |-> {}]
  /\ UNCHANGED <<row, stored, usable, ending, device>>

\* The access token of the stored session comes within the safety window of its end
Lapse ==
  /\ stored \in usable
  /\ usable' = usable \ {stored}
  /\ UNCHANGED <<row, req, stored, ending, device, flight, callers, counts>>

Fly == FlightAnswered \/ FlightSaves \/ FlightClears \/ FlightAttests
Erase(c) == EraseSends(c) \/ EraseAnswered(c) \/ EraseClears(c)

Next ==
  \/ Server
  \/ \E c \in Caller : UseStored(c) \/ GetToken(c) \/ Erase(c) \/ EraseTimesOut(c) \/ ClearFails(c)
  \/ Fly \/ FlightTimesOut \/ StorageFails
  \/ AppEnds
  \/ Lapse

Spec == Init /\ [][Next]_vars

-----------------------------------------------------------------------------
(* Properties *)

\* A family never has two tokens that can be exchanged: of the requests that present one
\* token at a time (an app that was restarted, a caller with an old copy), the lock of the
\* row lets one exchange it and the others find it exchanged.
AtMostOneLive ==
  \A t, u \in Token : row[t].state = "live" /\ row[u].state = "live" /\ row[t].family = row[u].family => t = u

\* A row that was revoked stays so until it is deleted: a rotation under way while its
\* family is revoked does not turn it into one that was exchanged.
RevocationIsFinal ==
  [][\A t \in Token :
       row[t].state = "revoked" /\ t \in Remembered => row'[t].state \in {"revoked", "none"}]_vars

\* Sessions that can be exchanged, and that the phone has not given up
Lasting == {t \in Token : row[t].state = "live"} \ ending

\* As long as nothing is lost, the server has no more than one live session of the phone,
\* over all its families, however many callers find the access token expired; but for those
\* in the safety window before their end (isRefreshTokenUsable), which the phone has
\* replaced or will replace by a new family without a word to the server.
OneLiveSession ==
  Undisturbed => \A t, u \in Lasting : t = u

Quiet ==
  /\ flight = NoFlight
  /\ \A c \in Caller : call[c] = "idle"
  /\ \A r \in Request : req[r].at = "free"

\* When nothing was lost and nothing is under way, the phone and the server agree: the
\* live session is the stored one, but for those in their safety window, and no session that
\* can still be exchanged, not even one of these, is of an erased identity.
InStep ==
  Undisturbed /\ Quiet =>
    /\ Lasting \subseteq {stored}
    /\ \A t \in Token : row[t].state = "live" => row[t].subject = device
    /\ stored # NoToken => row[stored].state \in {"live", "expired"}

\* The server has a request of this kind, or its answer
Has(r, op) == req[r].op = op \/ req[r].at = "answered"

\* Nobody waits for nothing, whichever step fails or is given up: who waits for a session
\* waits for a refresh in flight, and a request that is awaited is one that the server
\* has. A refresh does not outlive those who wait for it.
AnswerIsComing ==
  /\ (flight # NoFlight) <=> \E c \in Caller : call[c] = "waiting"
  /\ flight.at = "refresh" => Has(flight.req, "rotate")
  /\ flight.at = "attesting" => Has(flight.req, "issue")
  /\ \A c \in Caller : call[c] = "erasing" => Has(post[c], "purge")
===============================================================================
