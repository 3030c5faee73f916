---------------------------- MODULE DeviceRegistry ----------------------------
(***************************************************************************)
(* The registration of a phone for push notifications: what the app keeps   *)
(* of it, and the rows of push_devices.                                     *)
(*                                                                         *)
(* syncPushTokenRegistration runs when the app starts, when notifications   *)
(* are switched, when the language changes and when Firebase renews the     *)
(* token. Nothing keeps two of them apart, and every await is a step here.  *)
(* Requests may be lost, and are then given up, or be served after they     *)
(* were given up.                                                           *)
(*                                                                         *)
(* A registration is known by its token. Its language, time zone and        *)
(* version only decide whether a token is sent again, which is left open.   *)
(* The identity of the phone is its device id. A registration names one     *)
(* twice: its subject is that of the session it is sent with, which is that *)
(* of the phone when the session was begun (MobileSession has the session   *)
(* itself), and its device id is taken from the snapshot, if there is one.  *)
(***************************************************************************)
EXTENDS Naturals, FiniteSets

CONSTANTS
  Sync,      \* calls of syncPushTokenRegistration at a time
  MaxToken,  \* tokens of Firebase, one after the other
  MaxErase,  \* erasures
  MaxLate,   \* requests given up that are still under way
  MaxStart,  \* starts of the runtime under way at a time
  None       \* no token, no device id, and nobody who awaits a request

ASSUME NoneAssumption ==
  None \notin Nat /\ None \notin Sync /\ None # "eraser" /\ "eraser" \notin Sync
ASSUME BoundAssumption == MaxToken \in Nat \ {0} /\ MaxErase \in Nat /\ MaxLate \in Nat
                           /\ MaxStart \in Nat \ {0}

VARIABLES
  enabled,    \* preferences.notificationsEnabled
  current,    \* the token of Firebase
  starting,   \* how many calls of startPushNotificationRuntime await the messaging client
  listening,  \* onTokenRefresh has a listener
  snapshot,   \* the token of push_registration_v2
  keptId,     \* and its device id
  identity,   \* the device id, counted from the first
  outlived,   \* the identity of the stored session, if it is no longer that of the phone
  sync,       \* where each call is
  erasing,    \* where eraseMobilePrivacyData is
  toClear,    \* what it has left to clear
  wire,       \* requests on their way to the API
  row,        \* push_devices, by token
  astray,     \* history: the app may have lost sight of a registration
  sole,       \* history: the call that has had the app and the API for itself since it
              \* sent its request
  mixed       \* history: an erasure met a registration under way, was not followed by all
              \* that the app clears, or a session was begun while the app cleared

runtime == <<enabled, current, starting, listening>>
kept == <<snapshot, keptId, identity, outlived>>
erasure == <<erasing, toClear>>
app == <<runtime, kept, sync, erasure>>
history == <<astray, sole, mixed>>
vars == <<app, wire, row, history>>

-----------------------------------------------------------------------------
(* Values *)

Token == 1 .. MaxToken

Idle == [at |-> "idle", on |-> FALSE, token |-> None, id |-> None]

Identity == 0 .. MaxErase

\* A call: whether it registers or revokes, and the token and the device id it has read
SyncState ==
  [at : {"idle", "reading", "asking", "registering", "saving", "revoking", "clearing"},
   on : BOOLEAN, token : Token \cup {None}, id : Identity \cup {None}]

\* Who awaits it, and what it asks for. An erasure is awaited by "eraser".
Request ==
  [by : Sync \cup {None, "eraser"}, op : {"register", "revoke", "erase"},
   token : Token \cup {None}, who : Identity, id : Identity \cup {None}]

NoRow == [status |-> "none", who |-> 0, id |-> 0]

\* auth_subject and device_id
Row == [status : {"none", "active", "revoked", "invalid"}, who : Identity, id : Identity]

\* The values of the app, the requests and the rows.
TypeOK ==
  /\ enabled \in BOOLEAN /\ starting \in 0 .. MaxStart /\ listening \in BOOLEAN
  /\ current \in Token
  /\ snapshot \in Token \cup {None}
  /\ keptId \in Identity \cup {None}
  /\ identity \in Identity
  /\ outlived \in Identity \cup {None}
  /\ sync \in [Sync -> SyncState]
  /\ erasing \in {"no", "sent", "clearing"}
  /\ toClear \subseteq {"snapshot", "device", "session"}
  /\ wire \subseteq Request
  /\ row \in [Token -> Row]
  /\ astray \in BOOLEAN /\ mixed \in BOOLEAN
  /\ sole \in Sync \cup {None}

Init ==
  /\ enabled \in BOOLEAN
  /\ current = 1
  /\ starting = 0 /\ listening = FALSE
  /\ snapshot = None /\ keptId = None
  /\ identity = 0
  /\ outlived = None
  /\ sync = [s \in Sync |-> Idle]
  /\ erasing = "no"
  /\ toClear = {}
  /\ wire = {}
  /\ row = [t \in Token |-> NoRow]
  /\ astray = FALSE /\ mixed = FALSE
  /\ sole = None

\* s is about to send its request with nothing else under way
Alone(s) ==
  /\ \A u \in Sync \ {s} : sync[u].at = "idle"
  /\ wire = {} /\ erasing = "no"

-----------------------------------------------------------------------------
(* What starts a call *)

\* One call begins while the calls in still go on. One that revokes gets in the way of
\* any other, and an erasure of all.
Begins(s, on, still) ==
  /\ sync[s].at = "idle" \/ s \notin still
  /\ sync' = [u \in Sync |-> IF u = s THEN [Idle EXCEPT !.at = "reading", !.on = on]
                             ELSE IF u \in still THEN sync[u] ELSE Idle]
  /\ sole' = None

Collides(on) ==
  \/ erasing # "no"
  \/ \E u \in Sync : sync[u].at # "idle" /\ ~(on /\ sync[u].on)

\* slip: the runtime is left as it is when notifications are switched off
StopsLate(on) == IF on THEN FALSE ELSE listening

\* stopPushNotificationRuntime unsubscribes the listeners there are
ListeningAfterStop(on) == FALSE

\* A start finds pushRuntimeStarted reset by the cleanup, and begins beside one that still
\* awaits its client
Starts(on) ==
  /\ on => starting < MaxStart
  /\ starting' = IF on THEN starting + 1 ELSE starting

\* The preference is switched: both effects of NotificationsRuntimeProvider run again. A
\* runtime that is starting cannot be stopped.
Toggle(s) ==
  /\ enabled' = ~enabled
  /\ Begins(s, enabled', Sync)
  /\ listening' = ListeningAfterStop(enabled')
  /\ Starts(enabled')
  /\ astray' = (astray \/ Collides(enabled') \/ starting > 0)
  /\ UNCHANGED <<current, kept, erasure, wire, row, mixed>>

\* Another language: the same effects, with the same preference
LanguageChanges(s) ==
  /\ Begins(s, enabled, Sync)
  /\ listening' = ListeningAfterStop(enabled)
  /\ Starts(enabled)
  /\ astray' = (astray \/ Collides(enabled))
  /\ UNCHANGED <<enabled, current, kept, erasure, wire, row, mixed>>

\* startPushNotificationRuntime has its client and subscribes, whatever has happened in
\* the meantime. A second listener would do what the first does.
Listen ==
  /\ starting > 0
  /\ starting' = starting - 1
  /\ listening' = TRUE
  /\ UNCHANGED <<enabled, current, kept, sync, erasure, wire, row, history>>

\* Firebase renews the token; who listens registers it
Renew ==
  /\ current < MaxToken
  /\ current' = current + 1
  /\ \/ /\ listening
        /\ \E s \in Sync : Begins(s, TRUE, Sync)
        /\ astray' = (astray \/ Collides(TRUE))
     \/ /\ ~listening
        /\ UNCHANGED <<sync, astray, sole>>
  /\ UNCHANGED <<enabled, starting, listening, kept, erasure, wire, row, mixed>>

\* The requests that remain when those who await some of them, in gone, no longer do:
\* each is lost, or will still be served
Abandoned(gone) ==
  {left \in SUBSET ({r \in wire : r.by \notin gone}
                    \cup {[r EXCEPT !.by = None] : r \in {q \in wire : q.by \in gone}}) :
     /\ {r \in wire : r.by \notin gone} \subseteq left
     /\ Cardinality({r \in left : r.by = None}) <= MaxLate}

\* The app ends and starts again
Restart(s) ==
  /\ Begins(s, enabled, {})
  /\ starting' = IF enabled THEN 1 ELSE 0
  /\ listening' = FALSE
  /\ erasing' = "no"
  /\ toClear' = {}
  /\ wire' \in Abandoned(Sync \cup {"eraser"})
  /\ astray' = (astray \/ erasing # "no" \/ \E u \in Sync : sync[u].at # "idle")
  /\ mixed' = (mixed \/ toClear # {})
  /\ UNCHANGED <<enabled, current, kept, row>>

-----------------------------------------------------------------------------
(* syncPushTokenRegistration *)

Goes(s, at, token, id) ==
  sync' = [sync EXCEPT ![s] = [at |-> at, on |-> @.on, token |-> token, id |-> id]]
Ends(s) == sync' = [sync EXCEPT ![s] = Idle]

\* A request is made with the stored session, or with one that is begun for it
Subject == IF outlived = None THEN identity ELSE outlived

Sends(s, op, token, id) ==
  /\ wire' = wire \cup {[by |-> s, op |-> op, token |-> token, who |-> Subject, id |-> id]}
  /\ sole' = IF s \in Sync /\ Alone(s) THEN s ELSE None

MustRevoke(token) == token # None

\* getPushRegistrationSnapshot is answered. To register, its device id is taken; to revoke,
\* its token is sent. There may be none.
Read(s) ==
  /\ sync[s].at = "reading"
  /\ \/ /\ sync[s].on
        /\ Goes(s, "asking", None, keptId)
        /\ UNCHANGED <<wire, sole>>
     \/ /\ ~sync[s].on /\ MustRevoke(snapshot)
        /\ Goes(s, "revoking", snapshot, None)
        /\ Sends(s, "revoke", snapshot, None)
     \/ /\ ~sync[s].on /\ ~MustRevoke(snapshot)
        /\ Goes(s, "clearing", None, None)
        /\ UNCHANGED <<wire, sole>>
  /\ UNCHANGED <<runtime, kept, erasure, row, astray, mixed>>

\* Without a snapshot getOrCreatePushDeviceId is asked, which makes up an id if there is
\* none
Name(s) ==
  /\ sync[s].at = "asking" /\ sync[s].id = None
  /\ Goes(s, "asking", None, identity)
  /\ UNCHANGED <<runtime, kept, erasure, wire, row, history>>

\* resolveCurrentPushToken is answered. Without a token there is nothing to do, nor without
\* a device id, nor if the snapshot is up to date (isRegistrationUpToDate)
Ask(s) ==
  /\ sync[s].at = "asking"
  /\ \/ /\ Ends(s)
        /\ UNCHANGED <<wire, sole, mixed>>
     \/ /\ sync[s].id # None
        /\ Goes(s, "registering", current, sync[s].id)
        /\ Sends(s, "register", current, sync[s].id)
        /\ mixed' = (mixed \/ erasing = "clearing")
  /\ UNCHANGED <<runtime, kept, erasure, row, astray>>

\* savePushRegistrationSnapshot
Save(s) ==
  /\ sync[s].at = "saving"
  /\ snapshot' = sync[s].token
  /\ keptId' = sync[s].id
  /\ Ends(s)
  /\ astray' = IF sole = s /\ sync[s].token = current /\ enabled THEN FALSE
               ELSE astray \/ (snapshot # None /\ snapshot > sync[s].token)
  /\ UNCHANGED <<runtime, identity, outlived, erasure, wire, row, sole, mixed>>

\* clearPushRegistrationSnapshot
Clear(s) ==
  /\ sync[s].at = "clearing"
  /\ snapshot' = None
  /\ keptId' = None
  /\ Ends(s)
  /\ astray' = (astray /\ ~(/\ sole = s /\ sync[s].token = current
                           /\ ~enabled /\ starting = 0 /\ ~listening))
  /\ UNCHANGED <<runtime, identity, outlived, erasure, wire, row, sole, mixed>>

\* slip: a registration that may have failed is kept
KeptAnyway(s) == [sync EXCEPT ![s].at = "saving"]

\* A registration that failed throws
Thrown(s) == [sync EXCEPT ![s] = Idle]

\* A request fails, or its answer does not come. A failed revocation is reported, and
\* then the snapshot is cleared as after a good one.
GivesUp(s) ==
  /\ \/ sync[s].at = "registering" /\ sync' = Thrown(s)
     \/ sync[s].at = "revoking" /\ Goes(s, "clearing", None, None)
  /\ wire' \in Abandoned({s})
  /\ astray' = TRUE
  /\ UNCHANGED <<runtime, kept, erasure, row, sole, mixed>>

\* The secure storage is unavailable, or the answer to a registration is lost
StorageFails(s) ==
  /\ sync[s].at \in {"reading", "saving", "clearing"}
  /\ Ends(s)
  /\ astray' = (astray \/ ~(sync[s].at = "reading" /\ sync[s].on))
  /\ UNCHANGED <<runtime, kept, erasure, wire, row, sole, mixed>>

-----------------------------------------------------------------------------
(* eraseMobilePrivacyData *)

\* The API refuses a session of another identity. What was registered with one is not found
\* by the erasure that makes the app forget it.
EraseSends ==
  /\ erasing = "no" /\ identity < MaxErase
  /\ Subject = identity
  /\ erasing' = "sent"
  /\ Sends("eraser", "erase", None, None)
  /\ astray' = (astray \/ mixed \/ \E u \in Sync : sync[u].at # "idle")
  /\ UNCHANGED <<runtime, kept, sync, toClear, row, mixed>>

EraseGivesUp ==
  /\ erasing = "sent"
  /\ erasing' = "no"
  /\ wire' \in Abandoned({"eraser"})
  /\ astray' = TRUE
  /\ UNCHANGED <<runtime, kept, sync, toClear, row, sole, mixed>>

\* getOrCreatePushDeviceId makes up another id once it is cleared
IdAfter(what) == IF what = "device" THEN identity + 1 ELSE identity

\* Whose the stored session may be, once the device id or the session is cleared. A session
\* that was cleared first may have been followed by another.
SessionAfter(what) ==
  CASE what = "session" -> {None}
    [] what = "device" -> IF "session" \in toClear THEN {identity} ELSE {None, identity}
    [] what = "snapshot" -> {outlived}

\* slip: the snapshot is not cleared
StoredButSnapshot == {"device", "session"}

\* What clearPushRegistrationSnapshot, clearPushDeviceId and clearStoredSessionToken clear
Stored == {"snapshot", "device", "session"}

\* A call that has read a device id, and may bring it back
Midway(s) == sync[s].id # None

\* The three are cleared side by side; each may fail
EraseClears(what) ==
  /\ what \in toClear
  /\ toClear' = toClear \ {what}
  /\ erasing' = IF toClear = {what} THEN "no" ELSE erasing
  /\ \/ /\ snapshot' = IF what = "snapshot" THEN None ELSE snapshot
        /\ keptId' = IF what = "snapshot" THEN None ELSE keptId
        /\ identity' = IdAfter(what)
        /\ outlived' \in SessionAfter(what)
        /\ mixed' = \/ mixed \/ \E s \in Sync : Midway(s)
                    \/ outlived' # None /\ "session" \notin toClear
        /\ UNCHANGED astray
     \/ /\ astray' = (astray \/ what = "snapshot")
        /\ mixed' = (mixed \/ what # "device")
        /\ UNCHANGED kept
  /\ UNCHANGED <<runtime, sync, wire, row, sole>>

\* The session expires and is refused a refresh
SessionEnds ==
  /\ outlived # None
  /\ outlived' = None
  /\ UNCHANGED <<runtime, snapshot, keptId, identity, sync, erasure, wire, row, history>>

-----------------------------------------------------------------------------
(* The API and its worker *)

Registered(r) == [row EXCEPT ![r.token] = [status |-> "active", who |-> r.who, id |-> r.id]]

Revoked(r) ==
  [row EXCEPT ![r.token].status = IF @ = "none" THEN "none" ELSE "revoked"]

RowsErased(who) == [t \in Token |-> IF row[t].who = who THEN NoRow ELSE row[t]]

\* registerDevice and revokeDeviceByTokenHash; the call goes on with the answer
ServeSync(r) ==
  /\ r.op \in {"register", "revoke"}
  /\ row' = IF r.op = "register" THEN Registered(r) ELSE Revoked(r)
  /\ wire' = wire \ {r}
  /\ sync' = IF r.by = None THEN sync
             ELSE [sync EXCEPT ![r.by].at = IF r.op = "register" THEN "saving" ELSE "clearing"]
  /\ UNCHANGED <<runtime, kept, erasure, history>>

\* deleteByAuthSubject
ServeErase(r) ==
  /\ r.op = "erase"
  /\ row' = RowsErased(r.who)
  /\ wire' = wire \ {r}
  /\ IF r.by = None
     THEN UNCHANGED <<erasing, toClear>>
     ELSE erasing' = "clearing" /\ toClear' = Stored
  /\ mixed' = (mixed \/ (r.by # None /\ \E q \in wire : q.op = "register"))
  /\ UNCHANGED <<runtime, kept, sync, astray, sole>>

\* A push to a token that was renewed is refused, and the worker marks the row, although
\* it may have been revoked since
MarkInvalid(t) ==
  /\ t # current
  /\ row[t] # NoRow
  /\ row' = [row EXCEPT ![t].status = "invalid"]
  /\ UNCHANGED <<app, wire, history>>

Next ==
  \/ \E s \in Sync : Toggle(s) \/ LanguageChanges(s) \/ Restart(s)
  \/ Listen \/ Renew
  \/ \E s \in Sync : Read(s) \/ Name(s) \/ Ask(s) \/ Save(s) \/ Clear(s)
  \/ \E s \in Sync : GivesUp(s) \/ StorageFails(s)
  \/ SessionEnds
  \/ EraseSends \/ EraseGivesUp \/ \E what \in toClear : EraseClears(what)
  \/ \E r \in wire : ServeSync(r) \/ ServeErase(r)
  \/ \E t \in Token : MarkInvalid(t)

Spec == Init /\ [][Next]_vars

-----------------------------------------------------------------------------
(* Properties *)

Quiet ==
  /\ \A s \in Sync : sync[s].at = "idle"
  /\ wire = {} /\ erasing = "no"

\* At rest the app keeps a registration as long as the API serves it: skipping one that is
\* up to date loses no alert, and the app can revoke what is served. This and the next
\* hold from the start, and again after anything went astray, once a call has registered,
\* or has been told that it revoked, with nothing else under way.
KeptIsServed ==
  Quiet /\ ~astray => (snapshot = current <=> row[current].status = "active")

\* A user who has switched notifications off gets none.
OffIsHonoured ==
  Quiet /\ ~astray /\ ~enabled => row[current].status # "active"

\* Once the app has another identity no device is left, or comes back, that was registered
\* by the session or under the device id of the erased one: not by a request that is served
\* late, nor from the snapshot, which the next registration takes its device id from. The
\* exceptions are an erasure that was served while a registration was on its way, a call
\* that had read the snapshot before it was cleared, a clear that failed or was not come
\* to, and a session that was begun between the clears.
ErasedIsGone ==
  ~mixed =>
    /\ \A t \in Token : row[t] # NoRow => row[t].who = identity /\ row[t].id = identity
    /\ keptId \in {identity, None} \/ "snapshot" \in toClear
===============================================================================
