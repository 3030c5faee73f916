------------------------- MODULE DeviceRegistry_proofs -------------------------
(* Theorems about DeviceRegistry, for any number of calls, tokens and       *)
(* erasures, and of requests that were given up.                            *)
EXTENDS DeviceRegistry, TLAPS

\* A request of a call carries a token, a registration a device id, an erasure neither; the call awaits one
\* request, and the one it has sent
Carries ==
  /\ \A r \in wire :
       IF r.op = "erase" THEN r.by \in {None, "eraser"}
       ELSE /\ r.by \in Sync \cup {None} /\ r.token \in Token
            /\ r.op = "register" => r.id \in Identity
  /\ \A r, q \in wire : r.by \in Sync /\ r.by = q.by => r = q

Awaited ==
  \A r \in wire : r.by \in Sync =>
    sync[r.by].at = IF r.op = "register" THEN "registering" ELSE "revoking"

\* A call that has registered knows the token and the device id
Registering ==
  \A s \in Sync : sync[s].at \in {"registering", "saving"} =>
    sync[s].token \in Token /\ sync[s].id \in Identity

\* An erasure that goes on is that of an identity that can be followed by another
Following ==
  /\ erasing = "sent" \/ "device" \in toClear => identity < MaxErase
  /\ erasing # "clearing" => toClear = {}
  /\ \A r \in wire : r.by = "eraser" =>
       erasing = "sent" /\ r = [by |-> "eraser", op |-> "erase", token |-> None, who |-> identity, id |-> None]

TypeInv == TypeOK /\ Carries /\ Awaited /\ Registering /\ Following

\* A row that was never written, or was deleted, is nobody's
Empty == \A t \in Token : row[t].status = "none" => row[t] = NoRow

SnapshotCleared == erasing = "clearing" /\ "snapshot" \notin toClear

\* Unless an erasure was mixed up with something else, what is registered, and what is on its
\* way to be, is of the identity the app has, by its session and by its device id; an
\* erasure that was served leaves nothing; and who still holds the erased identity is the
\* session or the snapshot that is about to be cleared, or a call that has read the snapshot.
OfIdentity ==
  ~mixed =>
    /\ ErasedIsGone
    /\ \A r \in wire : r.op = "register" => r.who = identity /\ r.id = identity
    /\ erasing = "clearing" => /\ \A r \in wire : r.op # "register"
                               /\ \A t \in Token : row[t] = NoRow
    /\ outlived # None => "session" \in toClear
    /\ \A s \in Sync : sync[s].id # None =>
         /\ sync[s].id = identity \/ (sync[s].at = "asking" /\ "snapshot" \in toClear)
         /\ sync[s].at = "asking" \/ ~SnapshotCleared
    /\ SnapshotCleared => keptId = None

\* The inductive invariant. ErasedIsGone is not inductive: a registration on its way could
\* carry an identity that is no longer that of the app.
EraseInv == TypeInv /\ Empty /\ OfIdentity

-----------------------------------------------------------------------------
(* Requests *)

\* What remains of the requests is as it was, or awaited by nobody
LEMMA WhatRemains ==
  ASSUME NEW gone, wire' \in Abandoned(gone), NEW r \in wire'
  PROVE  \/ r \in wire /\ r.by \notin gone
         \/ \E q \in wire : q.by \in gone /\ r = [q EXCEPT !.by = None]
  BY DEF Abandoned

\* They are requests
LEMMA RemainsTyped ==
  ASSUME NEW gone, wire' \in Abandoned(gone), wire \subseteq Request, NEW r \in wire'
  PROVE  /\ r \in Request
         /\ \E q \in wire : /\ r.op = q.op /\ r.token = q.token /\ r.who = q.who /\ r.id = q.id
                            /\ r.by = None \/ (r = q /\ q.by \notin gone)
  <1>1. CASE r \in wire /\ r.by \notin gone
    BY <1>1
  <1>2. ASSUME NEW q \in wire, q.by \in gone, r = [q EXCEPT !.by = None]
        PROVE  /\ r \in Request
               /\ \E p \in wire : /\ r.op = p.op /\ r.token = p.token /\ r.who = p.who /\ r.id = p.id
                                  /\ r.by = None \/ (r = p /\ p.by \notin gone)
    <2>1. q \in Request
      OBVIOUS
    <2>2. r.by = None /\ r.op = q.op /\ r.token = q.token /\ r.who = q.who /\ r.id = q.id /\ r \in Request
      BY <1>2, <2>1 DEF Request
    <2> QED BY <2>2
  <1> QED BY <1>1, <1>2, WhatRemains

-----------------------------------------------------------------------------
(* Types *)

LEMMA TypeInit == Init => TypeInv
  <1> SUFFICES ASSUME Init  PROVE TypeInv
    OBVIOUS
  <1>1. TypeOK
    <2>1. current \in Token /\ identity \in Identity
      BY BoundAssumption DEF Init, Token, Identity
    <2>2. NoRow \in Row
      BY BoundAssumption DEF NoRow, Row, Identity
    <2>3. Idle \in SyncState
      BY DEF Idle, SyncState
    <2>4. 0 \in 0 .. MaxStart
      BY BoundAssumption
    <2> QED BY <2>1, <2>2, <2>3, <2>4 DEF Init, TypeOK
  <1>2. Carries /\ Awaited /\ Registering /\ Following
    BY DEF Init, Carries, Awaited, Registering, Following, Idle
  <1> QED BY <1>1, <1>2 DEF TypeInv

\* A call that begins has sent nothing, and the others have what they had
LEMMA BeginsTyped ==
  ASSUME TypeInv, NEW s \in Sync, NEW on \in BOOLEAN, Begins(s, on, Sync), wire' = wire
  PROVE  /\ sync' \in [Sync -> SyncState]
         /\ Awaited'
         /\ \A u \in Sync :
              sync'[u].at \in {"registering", "saving"} =>
                sync'[u].token \in Token /\ sync'[u].id \in Identity
         /\ sole' \in Sync \cup {None}
  BY DEF TypeInv, TypeOK, Awaited, Registering, Begins, SyncState, Idle

\* A call that goes on has a token when it needs one
LEMMA GoesTyped ==
  ASSUME TypeInv, NEW s \in Sync, NEW token \in Token \cup {None},
         NEW id \in Identity \cup {None},
         NEW at \in {"asking", "registering", "revoking", "clearing"},
         at = "registering" => token \in Token /\ id \in Identity,
         Goes(s, at, token, id)
  PROVE  /\ sync' \in [Sync -> SyncState]
         /\ \A u \in Sync :
              sync'[u].at \in {"registering", "saving"} =>
                sync'[u].token \in Token /\ sync'[u].id \in Identity
         /\ sync'[s].at = at
         /\ \A u \in Sync \ {s} : sync'[u] = sync[u]
  <1>1. sync \in [Sync -> SyncState] /\ Registering
    BY DEF TypeInv, TypeOK
  <1>2. [at |-> at, on |-> sync[s].on, token |-> token, id |-> id] \in SyncState
    BY <1>1 DEF SyncState
  <1>3. sync' = [sync EXCEPT ![s] = [at |-> at, on |-> sync[s].on, token |-> token, id |-> id]]
    BY DEF Goes
  <1> HIDE DEF Goes
  <1> QED BY <1>1, <1>2, <1>3 DEF Registering

\* The starts of the runtime that are under way are counted
LEMMA StartsTyped ==
  ASSUME starting \in 0 .. MaxStart
  PROVE  /\ Starts(enabled) \/ Starts(enabled') => starting' \in 0 .. MaxStart
         /\ starting > 0 => starting - 1 \in 0 .. MaxStart
         /\ (IF enabled THEN 1 ELSE 0) \in 0 .. MaxStart
  BY BoundAssumption DEF Starts

LEMMA TypeStep == TypeInv /\ [Next]_vars => TypeInv'
  <1> USE DEF Token
  <1> SUFFICES ASSUME TypeInv, [Next]_vars  PROVE TypeInv'
    OBVIOUS
  <1>0. TypeOK /\ Carries /\ Awaited /\ Registering /\ Following
    BY DEF TypeInv
  <1>who. Subject \in Identity
    BY <1>0 DEF Subject, TypeOK
  <1>1. ASSUME NEW s \in Sync, Toggle(s)  PROVE TypeInv'
    <2>1. enabled' \in BOOLEAN /\ Begins(s, enabled', Sync) /\ wire' = wire
      BY <1>1 DEF Toggle
    <2>2. /\ sync' \in [Sync -> SyncState] /\ Awaited' /\ Registering'
          /\ sole' \in Sync \cup {None}
      BY <2>1, BeginsTyped DEF Registering
    <2>3. Carries' /\ Following'
      BY <1>0, <1>1 DEF Toggle, Carries, Following, kept, erasure
    <2>4. TypeOK'
      <3>1. starting' \in 0 .. MaxStart
        BY <1>0, <1>1, StartsTyped DEF Toggle, TypeOK
      <3> QED BY <1>0, <1>1, <2>1, <2>2, <3>1
          DEF Toggle, ListeningAfterStop, Collides, kept, erasure, TypeOK
    <2> QED BY <2>2, <2>3, <2>4 DEF TypeInv
  <1>2. ASSUME NEW s \in Sync, LanguageChanges(s)  PROVE TypeInv'
    <2>1. enabled \in BOOLEAN /\ Begins(s, enabled, Sync) /\ wire' = wire
      BY <1>0, <1>2 DEF LanguageChanges, TypeOK
    <2>2. /\ sync' \in [Sync -> SyncState] /\ Awaited' /\ Registering'
          /\ sole' \in Sync \cup {None}
      BY <2>1, BeginsTyped DEF Registering
    <2>3. Carries' /\ Following'
      BY <1>0, <1>2 DEF LanguageChanges, Carries, Following, kept, erasure
    <2>4. TypeOK'
      <3>1. starting' \in 0 .. MaxStart
        BY <1>0, <1>2, StartsTyped DEF LanguageChanges, TypeOK
      <3> QED BY <1>0, <1>2, <2>2, <3>1
          DEF LanguageChanges, ListeningAfterStop, Collides, kept, erasure, TypeOK
    <2> QED BY <2>2, <2>3, <2>4 DEF TypeInv
  <1>3. ASSUME NEW s \in Sync, Restart(s)  PROVE TypeInv'
    <2>1. Begins(s, enabled, {}) /\ wire' \in Abandoned(Sync \cup {"eraser"})
      BY <1>3 DEF Restart
    <2>2. \A r \in wire' : r \in Request /\ r.by = None
      BY <1>0, <2>1, RemainsTyped DEF TypeOK, Request
    <2>3. Carries'
      BY <1>0, <2>1, <2>2, RemainsTyped, NoneAssumption DEF Carries, TypeOK
    <2>4. Awaited' /\ Registering' /\ sync' \in [Sync -> SyncState] /\ sole' = None
      BY <1>0, <2>1, <2>2, NoneAssumption
      DEF Awaited, Registering, Begins, Idle, SyncState, TypeOK
    <2>5. Following'
      BY <1>3, <2>2, NoneAssumption DEF Restart, Following
    <2>6. TypeOK'
      <3>1. starting' \in 0 .. MaxStart
        BY <1>0, <1>3, StartsTyped DEF Restart, TypeOK
      <3> QED BY <1>0, <1>3, <2>2, <2>4, <3>1 DEF Restart, kept, TypeOK
    <2> QED BY <2>3, <2>4, <2>5, <2>6 DEF TypeInv
  <1>4. CASE Listen
    <2>1. starting' \in 0 .. MaxStart
      BY <1>0, <1>4, StartsTyped DEF Listen, TypeOK
    <2> QED BY <1>0, <1>4, <2>1 DEF Listen, TypeInv, TypeOK, Carries, Awaited, Registering, Following, kept,
       erasure, history
  <1>5. CASE Renew
    <2>1. current' \in Token /\ wire' = wire
      BY <1>0, <1>5, BoundAssumption DEF Renew, TypeOK
    <2>2. Carries' /\ Following'
      BY <1>0, <1>5 DEF Renew, Carries, Following, kept, erasure
    <2>3. /\ sync' \in [Sync -> SyncState] /\ Awaited' /\ Registering'
          /\ sole' \in Sync \cup {None} /\ astray' \in BOOLEAN
      <3>1. CASE listening
        <4>1. PICK s \in Sync : Begins(s, TRUE, Sync)
          BY <1>5, <3>1 DEF Renew
        <4> QED BY <1>0, <1>5, <2>1, <3>1, <4>1, BeginsTyped DEF Renew, Collides, Registering, TypeOK
      <3>2. CASE ~listening
        BY <1>0, <1>5, <3>2 DEF Renew, Awaited, Registering, TypeOK
      <3> QED BY <3>1, <3>2
    <2>4. TypeOK'
      BY <1>0, <1>5, <2>1, <2>3 DEF Renew, kept, erasure, TypeOK
    <2> QED BY <2>2, <2>3, <2>4 DEF TypeInv
  <1>6. ASSUME NEW s \in Sync, Read(s)  PROVE TypeInv'
    <2>0. sync[s].at = "reading" /\ sync[s] \in SyncState /\ \A r \in wire : r.by # s
      BY <1>0, <1>6 DEF Read, Awaited, TypeOK
    <2>1. CASE MustRevoke(snapshot) /\ ~sync[s].on
      <3>1. /\ Goes(s, "revoking", snapshot, None)
            /\ wire' = wire \cup {[by |-> s, op |-> "revoke", token |-> snapshot, who |-> Subject,
                                  id |-> None]}
            /\ snapshot \in Token /\ sole' \in Sync \cup {None}
        BY <1>0, <1>6, <2>1 DEF Read, Sends, MustRevoke, TypeOK
      <3>2. /\ sync' \in [Sync -> SyncState] /\ Registering' /\ sync'[s].at = "revoking"
            /\ \A u \in Sync \ {s} : sync'[u] = sync[u]
        BY <3>1, GoesTyped DEF Registering
      <3>3. Carries' /\ Awaited' /\ Following'
        BY <1>0, <1>6, <2>0, <3>1, <3>2, NoneAssumption
        DEF Read, Carries, Awaited, Following, kept, erasure, TypeOK
      <3>4. TypeOK'
        BY <1>0, <1>who, <1>6, <3>1, <3>2 DEF Read, Request, runtime, kept, erasure, TypeOK
      <3> QED BY <3>2, <3>3, <3>4 DEF TypeInv
    <2>2. CASE ~(MustRevoke(snapshot) /\ ~sync[s].on)
      <3>1. /\ keptId \in Identity \cup {None} /\ wire' = wire /\ sole' = sole
            /\ Goes(s, "asking", None, keptId) \/ Goes(s, "clearing", None, None)
        BY <1>0, <1>6, <2>2 DEF Read, TypeOK
      <3>2. /\ sync' \in [Sync -> SyncState] /\ Registering'
            /\ \A u \in Sync \ {s} : sync'[u] = sync[u]
        BY <3>1, GoesTyped DEF Registering
      <3>3. Awaited'
        BY <1>0, <2>0, <3>1, <3>2 DEF Awaited
      <3> QED BY <1>0, <1>6, <3>1, <3>2, <3>3
          DEF Read, Carries, Following, runtime, kept, erasure, TypeOK, TypeInv
    <2> QED BY <2>1, <2>2
  <1>7. ASSUME NEW s \in Sync, Ask(s)  PROVE TypeInv'
    <2>0. sync[s].at = "asking" /\ sync[s] \in SyncState /\ \A r \in wire : r.by # s
      BY <1>0, <1>7 DEF Ask, Awaited, TypeOK
    <2>1. CASE Ends(s) /\ UNCHANGED <<wire, sole, mixed>>
      <3>1. sync' \in [Sync -> SyncState] /\ Registering' /\ Awaited'
        BY <1>0, <2>0, <2>1 DEF Ends, Idle, Registering, Awaited, SyncState, TypeOK
      <3> QED BY <1>0, <1>7, <2>1, <3>1
          DEF Ask, Carries, Following, runtime, kept, erasure, TypeOK, TypeInv
    <2>2. CASE /\ sync[s].id # None
               /\ Goes(s, "registering", current, sync[s].id)
               /\ Sends(s, "register", current, sync[s].id)
               /\ mixed' = (mixed \/ erasing = "clearing")
      <3>1. /\ Goes(s, "registering", current, sync[s].id)
            /\ wire' = wire \cup {[by |-> s, op |-> "register", token |-> current, who |-> Subject,
                                  id |-> sync[s].id]}
            /\ sole' \in Sync \cup {None} /\ sync[s].id \in Identity
        BY <2>0, <2>2 DEF Sends, SyncState
      <3>2. /\ sync' \in [Sync -> SyncState] /\ Registering' /\ sync'[s].at = "registering"
            /\ \A u \in Sync \ {s} : sync'[u] = sync[u]
        BY <1>0, <3>1, GoesTyped DEF Registering, TypeOK
      <3>3. Carries' /\ Awaited' /\ Following'
        BY <1>0, <1>7, <2>0, <3>1, <3>2, NoneAssumption
        DEF Ask, Carries, Awaited, Following, kept, erasure, TypeOK
      <3>4. TypeOK'
        BY <1>0, <1>who, <1>7, <2>2, <3>1, <3>2 DEF Ask, Request, runtime, kept, erasure, TypeOK
      <3> QED BY <3>2, <3>3, <3>4 DEF TypeInv
    <2> QED BY <1>7, <2>1, <2>2 DEF Ask
  <1>8. ASSUME NEW s \in Sync, sync[s].at \in {"reading", "saving", "clearing"}, Ends(s), wire' = wire
        PROVE  sync' \in [Sync -> SyncState] /\ Registering' /\ Awaited' /\ Carries'
    BY <1>0, <1>8 DEF Ends, Idle, Registering, Awaited, Carries, SyncState, TypeOK
  <1>9. ASSUME NEW s \in Sync, Save(s)  PROVE TypeInv'
    <2>1. sync' \in [Sync -> SyncState] /\ Registering' /\ Awaited' /\ Carries'
      BY <1>8, <1>9 DEF Save
    <2>2. snapshot' \in Token /\ keptId' \in Identity
      BY <1>0, <1>9 DEF Save, Registering
    <2> QED BY <1>0, <1>9, <2>1, <2>2 DEF Save, Following, runtime, erasure, TypeOK, TypeInv
  <1>10. ASSUME NEW s \in Sync, Clear(s)  PROVE TypeInv'
    <2>1. sync' \in [Sync -> SyncState] /\ Registering' /\ Awaited' /\ Carries'
      BY <1>8, <1>10 DEF Clear
    <2> QED BY <1>0, <1>10, <2>1 DEF Clear, Following, runtime, erasure, TypeOK, TypeInv
  <1>11. ASSUME NEW s \in Sync, GivesUp(s)  PROVE TypeInv'
    <2>1. wire' \in Abandoned({s})
      BY <1>11 DEF GivesUp
    <2>2. \A r \in wire' : r \in Request /\ (r.by # None => r \in wire /\ r.by # s)
      BY <1>0, <2>1, RemainsTyped DEF TypeOK
    <2>3. Carries'
      BY <1>0, <2>1, <2>2, RemainsTyped, NoneAssumption DEF Carries, TypeOK
    <2>4. /\ sync' \in [Sync -> SyncState] /\ Registering'
          /\ \A u \in Sync \ {s} : sync'[u] = sync[u]
      <3>1. CASE sync' = [sync EXCEPT ![s] = Idle]
        BY <1>0, <3>1 DEF Idle, Registering, SyncState, TypeOK
      <3>2. CASE Goes(s, "clearing", None, None)
        BY <3>2, GoesTyped DEF Registering
      <3> QED BY <1>11, <3>1, <3>2 DEF GivesUp, Thrown
    <2>5. Awaited'
      BY <1>0, <2>2, <2>4, NoneAssumption DEF Awaited
    <2>6. Following'
      BY <1>0, <1>11, <2>2, NoneAssumption DEF GivesUp, Following, kept, erasure
    <2>7. TypeOK'
      BY <1>0, <1>11, <2>2, <2>4 DEF GivesUp, runtime, kept, erasure, TypeOK
    <2> QED BY <2>3, <2>4, <2>5, <2>6, <2>7 DEF TypeInv
  <1>12. ASSUME NEW s \in Sync, StorageFails(s)  PROVE TypeInv'
    <2>1. sync' \in [Sync -> SyncState] /\ Registering' /\ Awaited' /\ Carries'
      BY <1>8, <1>12 DEF StorageFails
    <2> QED BY <1>0, <1>12, <2>1
        DEF StorageFails, Following, runtime, kept, erasure, TypeOK, TypeInv
  <1>13. CASE EraseSends
    <2>1. /\ wire' = wire \cup {[by |-> "eraser", op |-> "erase", token |-> None, who |-> identity,
                              id |-> None]}
          /\ sole' \in Sync \cup {None}
      BY <1>13 DEF EraseSends, Sends
    <2>2. Carries' /\ Awaited' /\ Registering' /\ Following'
      BY <1>0, <1>13, <2>1, NoneAssumption
      DEF EraseSends, Carries, Awaited, Registering, Following, kept
    <2>3. TypeOK'
      BY <1>0, <1>13, <2>1 DEF EraseSends, Request, runtime, kept, TypeOK
    <2> QED BY <2>2, <2>3 DEF TypeInv
  <1>14. CASE EraseGivesUp
    <2>1. wire' \in Abandoned({"eraser"})
      BY <1>14 DEF EraseGivesUp
    <2>2. \A r \in wire' : r \in Request /\ (r.by # None => r \in wire /\ r.by # "eraser")
      BY <1>0, <2>1, RemainsTyped DEF TypeOK
    <2>3. Carries'
      BY <1>0, <2>1, <2>2, RemainsTyped, NoneAssumption DEF Carries, TypeOK
    <2>4. Awaited' /\ Registering' /\ Following'
      BY <1>0, <1>14, <2>2, NoneAssumption
      DEF EraseGivesUp, Awaited, Registering, Following, kept
    <2>5. TypeOK'
      BY <1>0, <1>14, <2>2 DEF EraseGivesUp, runtime, kept, TypeOK
    <2> QED BY <2>3, <2>4, <2>5 DEF TypeInv
  <1>15. ASSUME NEW what \in toClear, EraseClears(what)  PROVE TypeInv'
    <2>1. /\ identity' \in Identity /\ snapshot' \in Token \cup {None}
          /\ keptId' \in Identity \cup {None} /\ outlived' \in Identity \cup {None}
      <3>1. identity \in Identity /\ (what = "device" => identity + 1 \in Identity)
        BY <1>0, <1>15, BoundAssumption DEF EraseClears, Following, TypeOK, Identity
      <3>2. CASE /\ snapshot' = IF what = "snapshot" THEN None ELSE snapshot
                 /\ keptId' = IF what = "snapshot" THEN None ELSE keptId
                 /\ identity' = IdAfter(what)
                 /\ outlived' \in SessionAfter(what)
        <4>1. identity' \in Identity
          BY <3>1, <3>2 DEF IdAfter
        <4>2. outlived' \in Identity \cup {None}
          BY <1>0, <1>15, <3>1, <3>2 DEF EraseClears, SessionAfter, TypeOK
        <4> QED BY <1>0, <3>2, <4>1, <4>2 DEF TypeOK
      <3>3. CASE UNCHANGED kept
        BY <1>0, <3>3 DEF kept, TypeOK
      <3> QED BY <1>15, <3>2, <3>3 DEF EraseClears
    <2>2. Following'
      BY <1>0, <1>15 DEF EraseClears, IdAfter, Following, kept, TypeOK
    <2>3. Carries' /\ Awaited' /\ Registering'
      BY <1>0, <1>15 DEF EraseClears, Carries, Awaited, Registering
    <2>4. TypeOK'
      BY <1>0, <1>15, <2>1 DEF EraseClears, runtime, TypeOK
    <2> QED BY <2>2, <2>3, <2>4 DEF TypeInv
  <1>16. ASSUME NEW r \in wire, ServeSync(r)  PROVE TypeInv'
    <2>1. /\ r \in Request /\ r.token \in Token /\ r.by \in Sync \cup {None} /\ wire' = wire \ {r}
          /\ r.op = "register" => r.id \in Identity
      BY <1>0, <1>16 DEF ServeSync, Carries, TypeOK
    <2>2. row' \in [Token -> Row]
      BY <1>0, <1>16, <2>1 DEF ServeSync, Registered, Revoked, Request, Row, TypeOK
    <2>3. sync' \in [Sync -> SyncState] /\ Registering' /\ Awaited'
      <3>1. CASE r.by = None
        BY <1>0, <1>16, <2>1, <3>1 DEF ServeSync, Registering, Awaited, TypeOK
      <3>2. CASE r.by \in Sync
        <4>1. sync[r.by].at = IF r.op = "register" THEN "registering" ELSE "revoking"
          BY <1>0, <3>2 DEF Awaited
        <4>2. sync' = [sync EXCEPT ![r.by].at = IF r.op = "register" THEN "saving" ELSE "clearing"]
          BY <1>16, <3>2, NoneAssumption DEF ServeSync
        <4>3. sync' \in [Sync -> SyncState] /\ Registering'
          BY <1>0, <3>2, <4>1, <4>2 DEF Registering, SyncState, TypeOK
        <4>4. Awaited'
          BY <1>0, <2>1, <3>2, <4>2 DEF Awaited, Carries, TypeOK
        <4> QED BY <4>3, <4>4
      <3> QED BY <2>1, <3>1, <3>2
    <2>4. Carries' /\ Following'
      BY <1>0, <1>16, <2>1 DEF ServeSync, Carries, Following, kept, erasure
    <2>5. TypeOK'
      BY <1>0, <1>16, <2>1, <2>2, <2>3 DEF ServeSync, runtime, kept, erasure, history, TypeOK
    <2> QED BY <2>3, <2>4, <2>5 DEF TypeInv
  <1>17. ASSUME NEW r \in wire, ServeErase(r)  PROVE TypeInv'
    <2>1. row' \in [Token -> Row]
      BY <1>0, <1>17, BoundAssumption DEF ServeErase, RowsErased, NoRow, Row, Identity, TypeOK
    <2>2. r.by \in {None, "eraser"} /\ wire' = wire \ {r}
      BY <1>0, <1>17 DEF ServeErase, Carries
    <2>3. Following'
      <3>1. CASE r.by = None
        BY <1>0, <1>17, <3>1 DEF ServeErase, Following, Stored, kept
      <3>2. CASE r.by = "eraser"
        <4>1. \A q \in wire' : q.by # "eraser"
          BY <1>0, <2>2, <3>2 DEF Following
        <4> QED BY <1>0, <1>17, <3>2, <4>1, NoneAssumption DEF ServeErase, Following, Stored, kept
      <3> QED BY <2>2, <3>1, <3>2
    <2>4. Carries' /\ Awaited' /\ Registering'
      BY <1>0, <1>17, <2>2 DEF ServeErase, Carries, Awaited, Registering
    <2>5. TypeOK'
      BY <1>0, <1>17, <2>1, <2>2 DEF ServeErase, Stored, runtime, kept, TypeOK
    <2> QED BY <2>3, <2>4, <2>5 DEF TypeInv
  <1>18. ASSUME NEW t \in Token, MarkInvalid(t)  PROVE TypeInv'
    BY <1>0, <1>18 DEF MarkInvalid, Row, TypeInv, TypeOK, Carries, Awaited, Registering, Following,
       app, runtime, kept, erasure, history
  <1>19. CASE SessionEnds
    BY <1>0, <1>19 DEF SessionEnds, TypeInv, TypeOK, Carries, Awaited, Registering, Following,
       runtime, erasure, history
  <1>20. ASSUME NEW s \in Sync, Name(s)  PROVE TypeInv'
    <2>1. /\ sync[s].at = "asking" /\ \A r \in wire : r.by # s
          /\ Goes(s, "asking", None, identity) /\ identity \in Identity
      BY <1>0, <1>20 DEF Name, Awaited, TypeOK
    <2>2. /\ sync' \in [Sync -> SyncState] /\ Registering'
          /\ \A u \in Sync \ {s} : sync'[u] = sync[u]
      BY <2>1, GoesTyped DEF Registering
    <2>3. Awaited' /\ Carries' /\ Following'
      BY <1>0, <1>20, <2>1, <2>2 DEF Name, Awaited, Carries, Following, kept, erasure
    <2>4. TypeOK'
      BY <1>0, <1>20, <2>2 DEF Name, runtime, kept, erasure, history, TypeOK
    <2> QED BY <2>2, <2>3, <2>4 DEF TypeInv
  <1>21. CASE UNCHANGED vars
    BY <1>0, <1>21 DEF vars, app, runtime, kept, erasure, history, TypeInv, TypeOK, Carries, Awaited,
       Registering, Following
  <1> QED BY <1>1, <1>2, <1>3, <1>4, <1>5, <1>6, <1>7, <1>9, <1>10, <1>11, <1>12, <1>13, <1>14,
             <1>15, <1>16, <1>17, <1>18, <1>19, <1>20, <1>21 DEF Next

\* The types of the module, for every number of calls, tokens and erasures: no erasure
\* goes on that has no next identity, and nothing is saved or sent without a token.
THEOREM TypeIsKept == Spec => []TypeOK
  <1>1. TypeInv => TypeOK
    BY DEF TypeInv
  <1> QED BY TypeInit, TypeStep, <1>1, PTL DEF Spec

-----------------------------------------------------------------------------
(* Erasure *)

LEMMA EraseInit == Init => EraseInv
  BY TypeInit DEF Init, EraseInv, Empty, OfIdentity, SnapshotCleared, ErasedIsGone, NoRow, Idle

\* A step that leaves the rows, what is kept and the erasure alone, sends no registration
\* and gives no call a device id
LEMMA NothingRegistered ==
  ASSUME EraseInv, row' = row, kept' = kept, erasure' = erasure, mixed' = mixed,
         \A r \in wire' : r.op = "register" =>
           \E q \in wire : q.op = "register" /\ q.who = r.who /\ q.id = r.id,
         \A s \in Sync : sync'[s].id # None => sync'[s] = sync[s]
  PROVE  Empty' /\ OfIdentity'
  <1>1. /\ identity' = identity /\ keptId' = keptId /\ outlived' = outlived
        /\ erasing' = erasing /\ toClear' = toClear
    BY DEF kept, erasure
  <1> QED BY <1>1 DEF EraseInv, Empty, OfIdentity, SnapshotCleared, ErasedIsGone

\* What a request that is given up asks for, it asked for before
LEMMA NothingAsked ==
  ASSUME NEW gone, TypeOK, wire' \in Abandoned(gone)
  PROVE  \A r \in wire' : r.op = "register" =>
           \E q \in wire : q.op = "register" /\ q.who = r.who /\ q.id = r.id
  BY RemainsTyped DEF TypeOK

\* A call that begins or ends has no device id
LEMMA NoneHasOne ==
  ASSUME TypeInv, NEW s \in Sync,
         Ends(s) \/ \E on \in BOOLEAN : Begins(s, on, Sync) \/ Begins(s, on, {})
  PROVE  \A u \in Sync : sync'[u].id # None => sync'[u] = sync[u]
  <1>1. sync \in [Sync -> SyncState]
    BY DEF TypeInv, TypeOK
  <1>2. CASE Ends(s)
    BY <1>1, <1>2 DEF Ends, Idle
  <1>3. ASSUME NEW on \in BOOLEAN, NEW still, Begins(s, on, still)
        PROVE  \A u \in Sync : sync'[u].id # None => sync'[u] = sync[u]
    BY <1>1, <1>3 DEF Begins, Idle
  <1> QED BY <1>2, <1>3

\* A call that goes on has the device id it is given, and the others have theirs
LEMMA IdGoes ==
  ASSUME TypeInv, NEW s \in Sync, NEW at, NEW token, NEW id, Goes(s, at, token, id)
  PROVE  /\ sync'[s].at = at /\ sync'[s].id = id
         /\ \A u \in Sync \ {s} : sync'[u] = sync[u]
  <1>1. sync' = [sync EXCEPT ![s] = [at |-> at, on |-> sync[s].on, token |-> token, id |-> id]]
    BY DEF Goes
  <1>2. sync \in [Sync -> SyncState]
    BY DEF TypeInv, TypeOK
  <1> HIDE DEF Goes
  <1> QED BY <1>1, <1>2

LEMMA EraseStep == EraseInv /\ [Next]_vars => EraseInv'
  <1> SUFFICES ASSUME EraseInv, [Next]_vars  PROVE EraseInv'
    OBVIOUS
  <1>0. /\ TypeInv /\ TypeOK /\ Carries /\ Awaited /\ Registering /\ Following /\ Empty
        /\ OfIdentity
    BY DEF EraseInv, TypeInv
  <1> SUFFICES Empty' /\ OfIdentity'
    BY <1>0, TypeStep DEF EraseInv
  <1>1. ASSUME NEW s \in Sync, Toggle(s) \/ LanguageChanges(s)  PROVE Empty' /\ OfIdentity'
    <2>1. /\ \E on \in BOOLEAN : Begins(s, on, Sync)
          /\ row' = row /\ kept' = kept /\ erasure' = erasure /\ mixed' = mixed /\ wire' = wire
      BY <1>0, <1>1 DEF Toggle, LanguageChanges, TypeOK
    <2>2. \A u \in Sync : sync'[u].id # None => sync'[u] = sync[u]
      BY <1>0, <2>1, NoneHasOne
    <2> QED BY <2>1, <2>2, NothingRegistered
  \* The app may end before all is cleared
  <1>2. ASSUME NEW s \in Sync, Restart(s)  PROVE Empty' /\ OfIdentity'
    <2>1. /\ row' = row /\ kept' = kept /\ mixed' = (mixed \/ toClear # {})
          /\ erasing' = "no" /\ toClear' = {} /\ wire' \in Abandoned(Sync \cup {"eraser"})
          /\ Begins(s, enabled, {}) /\ enabled \in BOOLEAN
      BY <1>0, <1>2 DEF Restart, TypeOK
    <2>2. \A u \in Sync : sync'[u].id = None
      BY <2>1 DEF Begins, Idle
    <2>3. \A r \in wire' : r.op = "register" =>
            \E q \in wire : q.op = "register" /\ q.who = r.who /\ q.id = r.id
      BY <1>0, <2>1, NothingAsked
    <2>4. identity' = identity /\ keptId' = keptId /\ outlived' = outlived
      BY <2>1 DEF kept
    <2> QED BY <1>0, <2>1, <2>2, <2>3, <2>4 DEF Empty, OfIdentity, SnapshotCleared, ErasedIsGone
  <1>3. CASE Listen \/ UNCHANGED vars
    BY <1>3, NothingRegistered DEF Listen, vars, app, history
  <1>4. CASE Renew
    <2>1. row' = row /\ kept' = kept /\ erasure' = erasure /\ mixed' = mixed /\ wire' = wire
      BY <1>4 DEF Renew
    <2>2. \A u \in Sync : sync'[u].id # None => sync'[u] = sync[u]
      BY <1>0, <1>4, NoneHasOne DEF Renew
    <2> QED BY <2>1, <2>2, NothingRegistered
  <1>5. CASE SessionEnds
    BY <1>0, <1>5 DEF SessionEnds, erasure, history, Empty, OfIdentity, SnapshotCleared, ErasedIsGone
  \* The device id of the snapshot is that of the app, or is about to be cleared
  <1>6. ASSUME NEW s \in Sync, Read(s)  PROVE Empty' /\ OfIdentity'
    <2>1. /\ row' = row /\ mixed' = mixed
          /\ identity' = identity /\ keptId' = keptId /\ outlived' = outlived
          /\ erasing' = erasing /\ toClear' = toClear
          /\ \A r \in wire' : r.op = "register" => r \in wire
      BY <1>6 DEF Read, Sends, kept, erasure
    <2>2. /\ \A u \in Sync \ {s} : sync'[u] = sync[u]
          /\ \/ sync'[s].id = None
             \/ sync'[s].id = keptId /\ sync'[s].at = "asking"
      <3>1. \/ Goes(s, "asking", None, keptId)
            \/ Goes(s, "revoking", snapshot, None)
            \/ Goes(s, "clearing", None, None)
        BY <1>6 DEF Read
      <3> QED BY <1>0, <3>1, IdGoes
    <2> QED BY <1>0, <2>1, <2>2 DEF Empty, OfIdentity, SnapshotCleared, ErasedIsGone
  <1>7. ASSUME NEW s \in Sync, Name(s)  PROVE Empty' /\ OfIdentity'
    <2>1. /\ row' = row /\ mixed' = mixed /\ wire' = wire
          /\ identity' = identity /\ keptId' = keptId /\ outlived' = outlived
          /\ erasing' = erasing /\ toClear' = toClear
      BY <1>7 DEF Name, kept, erasure, history
    <2>2. /\ sync'[s].id = identity /\ sync'[s].at = "asking"
          /\ \A u \in Sync \ {s} : sync'[u] = sync[u]
      BY <1>0, <1>7, IdGoes DEF Name
    <2> QED BY <1>0, <2>1, <2>2 DEF Empty, OfIdentity, SnapshotCleared, ErasedIsGone
  <1>8. ASSUME NEW s \in Sync, Ask(s)  PROVE Empty' /\ OfIdentity'
    <2>0. row' = row /\ kept' = kept /\ erasure' = erasure
      BY <1>8 DEF Ask
    <2>1. CASE Ends(s) /\ UNCHANGED <<wire, sole, mixed>>
      BY <1>0, <2>0, <2>1, NothingRegistered, NoneHasOne
    <2>2. CASE /\ sync[s].id # None
               /\ Goes(s, "registering", current, sync[s].id)
               /\ Sends(s, "register", current, sync[s].id)
               /\ mixed' = (mixed \/ erasing = "clearing")
      <3>1. /\ identity' = identity /\ keptId' = keptId /\ outlived' = outlived
            /\ erasing' = erasing /\ toClear' = toClear
        BY <2>0 DEF kept, erasure
      <3>2. \A r \in wire' : r \in wire \/ (r.who = Subject /\ r.id = sync[s].id)
        BY <2>2 DEF Sends
      <3>3. sync'[s].id = sync[s].id /\ \A u \in Sync \ {s} : sync'[u] = sync[u]
        BY <1>0, <2>2, IdGoes
      <3>4. ~mixed' => ~mixed /\ erasing # "clearing" /\ toClear = {}
        BY <1>0, <2>2 DEF Following
      <3>5. ~mixed' => sync[s].id = identity /\ Subject = identity
        BY <1>0, <2>2, <3>4 DEF OfIdentity, Subject
      <3> QED BY <1>0, <2>0, <3>1, <3>2, <3>3, <3>4, <3>5 DEF Empty, OfIdentity, SnapshotCleared, ErasedIsGone
    <2> QED BY <1>8, <2>1, <2>2 DEF Ask
  \* What a call saves it has registered
  <1>9. ASSUME NEW s \in Sync, Save(s)  PROVE Empty' /\ OfIdentity'
    <2>1. /\ row' = row /\ mixed' = mixed /\ wire' = wire
          /\ identity' = identity /\ keptId' = sync[s].id /\ outlived' = outlived
          /\ erasing' = erasing /\ toClear' = toClear
          /\ sync[s].at = "saving" /\ Ends(s)
      BY <1>9 DEF Save, erasure
    <2>2. \A u \in Sync : sync'[u].id # None => sync'[u] = sync[u]
      BY <1>0, <2>1, NoneHasOne
    <2>3. ~mixed => /\ sync[s].id \in {identity, None}
                    /\ SnapshotCleared => sync[s].id = None
      BY <1>0, <2>1 DEF OfIdentity, SnapshotCleared
    <2> QED BY <1>0, <2>1, <2>2, <2>3 DEF Empty, OfIdentity, SnapshotCleared, ErasedIsGone
  <1>10. ASSUME NEW s \in Sync, Clear(s)  PROVE Empty' /\ OfIdentity'
    <2>1. /\ row' = row /\ mixed' = mixed /\ wire' = wire
          /\ identity' = identity /\ keptId' = None /\ outlived' = outlived
          /\ erasing' = erasing /\ toClear' = toClear /\ Ends(s)
      BY <1>10 DEF Clear, erasure
    <2>2. \A u \in Sync : sync'[u].id # None => sync'[u] = sync[u]
      BY <1>0, <2>1, NoneHasOne
    <2> QED BY <1>0, <2>1, <2>2 DEF Empty, OfIdentity, SnapshotCleared, ErasedIsGone
  <1>11. ASSUME NEW s \in Sync, StorageFails(s)  PROVE Empty' /\ OfIdentity'
    BY <1>0, <1>11, NothingRegistered, NoneHasOne DEF StorageFails
  <1>12. ASSUME NEW s \in Sync, GivesUp(s)  PROVE Empty' /\ OfIdentity'
    <2>1. /\ row' = row /\ kept' = kept /\ erasure' = erasure /\ mixed' = mixed
          /\ wire' \in Abandoned({s})
      BY <1>12 DEF GivesUp
    <2>2. \A u \in Sync : sync'[u].id # None => sync'[u] = sync[u]
      <3>1. CASE Ends(s)
        BY <1>0, <3>1, NoneHasOne
      <3>2. CASE Goes(s, "clearing", None, None)
        BY <1>0, <3>2, IdGoes
      <3> QED BY <1>12, <3>1, <3>2 DEF GivesUp, Thrown, Ends
    <2> QED BY <1>0, <2>1, <2>2, NothingRegistered, NothingAsked
  <1>13. ASSUME row' = row, kept' = kept, toClear' = toClear, sync' = sync, mixed' = mixed,
                \A r \in wire' : r.op = "register" =>
                  \E q \in wire : q.op = "register" /\ q.who = r.who /\ q.id = r.id,
                erasing' # "clearing"
         PROVE  Empty' /\ OfIdentity'
    <2>1. identity' = identity /\ keptId' = keptId /\ outlived' = outlived
      BY <1>13 DEF kept
    <2> QED BY <1>0, <1>13, <2>1 DEF Empty, OfIdentity, SnapshotCleared, ErasedIsGone
  <1>14. CASE EraseSends
    <2>1. \A r \in wire' : r.op = "register" => r \in wire
      BY <1>14 DEF EraseSends, Sends
    <2> QED BY <1>13, <1>14, <2>1 DEF EraseSends
  <1>15. CASE EraseGivesUp
    BY <1>0, <1>13, <1>15, NothingAsked DEF EraseGivesUp
  \* An identity is forgotten when it has no device and none is about to be registered
  <1>16. ASSUME NEW what \in toClear, EraseClears(what)  PROVE Empty' /\ OfIdentity'
    <2>1. /\ erasing = "clearing" /\ row' = row /\ wire' = wire /\ sync' = sync
          /\ toClear' = toClear \ {what}
      BY <1>0, <1>16 DEF EraseClears, Following
    <2>2. Empty'
      BY <1>0, <2>1 DEF Empty
    <2> SUFFICES ASSUME ~mixed'  PROVE OfIdentity'
      BY <2>2 DEF OfIdentity, SnapshotCleared
    <2>3. ~mixed
      BY <1>16 DEF EraseClears
    <2>4. (\A r \in wire : r.op # "register") /\ \A t \in Token : row[t] = NoRow
      BY <1>0, <2>1, <2>3 DEF OfIdentity, SnapshotCleared
    <2>5. CASE /\ snapshot' = IF what = "snapshot" THEN None ELSE snapshot
               /\ keptId' = IF what = "snapshot" THEN None ELSE keptId
               /\ identity' = IdAfter(what)
               /\ outlived' \in SessionAfter(what)
               /\ \A s \in Sync : sync[s].id = None
               /\ outlived' # None => "session" \in toClear
      <3>1. "snapshot" \in toClear' \/ keptId' = None
        BY <1>0, <2>1, <2>3, <2>5 DEF OfIdentity, SnapshotCleared
      <3>2. outlived' # None => "session" \in toClear'
        BY <2>1, <2>5 DEF SessionAfter
      <3> QED BY <2>1, <2>4, <2>5, <3>1, <3>2 DEF OfIdentity, SnapshotCleared, ErasedIsGone
    \* The device id that could not be cleared is still that of the app
    <2>6. CASE what = "device" /\ UNCHANGED kept
      <3>1. identity' = identity /\ keptId' = keptId /\ outlived' = outlived
        BY <2>6 DEF kept
      <3> QED BY <1>0, <2>1, <2>3, <2>4, <2>6, <3>1 DEF OfIdentity, SnapshotCleared, ErasedIsGone
    <2> QED BY <1>16, <2>5, <2>6 DEF EraseClears, Midway
  <1>17. ASSUME NEW r \in wire, ServeSync(r)  PROVE Empty' /\ OfIdentity'
    <2>1. /\ identity' = identity /\ keptId' = keptId /\ outlived' = outlived
          /\ erasing' = erasing /\ toClear' = toClear /\ mixed' = mixed
          /\ wire' \subseteq wire /\ r.token \in Token
      BY <1>0, <1>17 DEF ServeSync, Carries, kept, erasure, history
    <2>2. \A s \in Sync : /\ sync'[s].id = sync[s].id
                          /\ sync[s].at = "asking" => sync'[s] = sync[s]
      <3>1. sync' = sync \/ r.by = None \/ r.by \in Sync
        BY <1>0, <1>17 DEF ServeSync, Carries
      <3>2. CASE r.by \in Sync
        <4>1. sync' = [sync EXCEPT ![r.by].at = IF r.op = "register" THEN "saving" ELSE "clearing"]
          BY <1>17, <3>2, NoneAssumption DEF ServeSync
        <4>2. sync[r.by].at # "asking" /\ sync[r.by] \in SyncState /\ sync \in [Sync -> SyncState]
          BY <1>0, <3>2 DEF Awaited, TypeOK
        <4> QED BY <3>2, <4>1, <4>2 DEF SyncState
      <3> QED BY <1>17, <3>1, <3>2 DEF ServeSync
    <2>3. ~mixed /\ r.op = "register" => erasing # "clearing"
      BY <1>0 DEF OfIdentity, SnapshotCleared
    <2>6. ~mixed => \A s \in Sync : sync'[s].id # None =>
                      /\ \/ sync'[s].id = identity
                         \/ sync'[s].at = "asking" /\ "snapshot" \in toClear
                      /\ sync'[s].at = "asking" \/ ~SnapshotCleared
      BY <1>0, <2>2 DEF OfIdentity, SnapshotCleared
    <2>4. CASE r.op = "register"
      <3>1. row' = [row EXCEPT ![r.token] = [status |-> "active", who |-> r.who, id |-> r.id]]
        BY <1>17, <2>4 DEF ServeSync, Registered
      <3>2. \A t \in Token : row'[t] = IF t = r.token
                                       THEN [status |-> "active", who |-> r.who, id |-> r.id]
                                       ELSE row[t]
        BY <1>0, <3>1 DEF TypeOK
      <3> QED BY <1>0, <2>1, <2>6, <2>4, <3>2 DEF Empty, OfIdentity, SnapshotCleared, ErasedIsGone
    <2>5. CASE r.op = "revoke"
      <3>1. \A t \in Token : \/ row'[t] = row[t]
                             \/ /\ row'[t].who = row[t].who /\ row'[t].id = row[t].id
                                /\ row'[t].status = "revoked" /\ row[t] # NoRow
        BY <1>0, <1>17, <2>1, <2>5 DEF ServeSync, Revoked, Row, NoRow, TypeOK
      <3> QED BY <1>0, <2>1, <2>6, <3>1 DEF Empty, OfIdentity, SnapshotCleared, ErasedIsGone
    <2> QED BY <1>17, <2>4, <2>5 DEF ServeSync
  \* An erasure that the app awaits is of the identity it has, so every row is deleted
  <1>18. ASSUME NEW r \in wire, ServeErase(r)  PROVE Empty' /\ OfIdentity'
    <2>1. /\ wire' = wire \ {r} /\ r.by \in {None, "eraser"} /\ sync' = sync
          /\ identity' = identity /\ keptId' = keptId /\ outlived' = outlived
          /\ \A t \in Token : row'[t] = IF row[t].who = r.who THEN NoRow ELSE row[t]
          /\ mixed' = (mixed \/ (r.by # None /\ \E q \in wire : q.op = "register"))
      BY <1>0, <1>18 DEF ServeErase, RowsErased, Carries, kept
    <2>2. Empty'
      BY <1>0, <2>1 DEF Empty
    <2>3. CASE r.by = None
      <3>1. erasing' = erasing /\ toClear' = toClear
        BY <1>18, <2>3 DEF ServeErase
      <3> QED BY <1>0, <2>1, <2>2, <2>3, <3>1 DEF OfIdentity, SnapshotCleared, ErasedIsGone
    <2>4. CASE r.by = "eraser"
      <3>1. r.who = identity /\ toClear = {} /\ toClear' = Stored /\ erasing' = "clearing"
        BY <1>0, <1>18, <2>4, NoneAssumption DEF ServeErase, Following
      <3>2. ~mixed' => /\ ~mixed
                       /\ \A q \in wire' : q.op # "register"
                       /\ \A t \in Token : row'[t] = NoRow
        BY <1>0, <2>1, <2>4, <3>1, NoneAssumption DEF OfIdentity, SnapshotCleared, ErasedIsGone
      <3> QED BY <1>0, <2>1, <2>2, <3>1, <3>2 DEF OfIdentity, SnapshotCleared, ErasedIsGone, Stored
    <2> QED BY <2>1, <2>3, <2>4
  <1>19. ASSUME NEW t \in Token, MarkInvalid(t)  PROVE Empty' /\ OfIdentity'
    <2>1. /\ identity' = identity /\ keptId' = keptId /\ outlived' = outlived /\ sync' = sync
          /\ erasing' = erasing /\ toClear' = toClear /\ mixed' = mixed /\ wire' = wire
          /\ row[t] # NoRow
      BY <1>19 DEF MarkInvalid, app, kept, erasure, history
    <2>2. \A u \in Token : row'[u] = row[u] \/ (u = t /\ row'[u].who = row[u].who
                                                 /\ row'[u].id = row[u].id
                                                 /\ row'[u].status = "invalid")
      BY <1>0, <1>19 DEF MarkInvalid, Row, TypeOK
    <2> QED BY <1>0, <2>1, <2>2 DEF Empty, OfIdentity, SnapshotCleared, ErasedIsGone
  <1> QED BY <1>1, <1>2, <1>3, <1>4, <1>5, <1>6, <1>7, <1>8, <1>9, <1>10, <1>11, <1>12, <1>14,
             <1>15, <1>16, <1>17, <1>18, <1>19 DEF Next

\* Once the app has another identity no device is left, or comes back, that was registered
\* by the session or under the device id of the erased one, and the snapshot names none,
\* unless the erasure was mixed up with a registration under way, with a clear that failed
\* or was not come to, or with a session that was begun between the clears.
THEOREM ErasedDevicesGone == Spec => []ErasedIsGone
  <1>1. EraseInv => ErasedIsGone
    BY DEF EraseInv, OfIdentity, ErasedIsGone
  <1> QED BY EraseInit, EraseStep, <1>1, PTL DEF Spec

-----------------------------------------------------------------------------
(* What the app keeps of what is served: the parts of an invariant *)

\* Nobody knows a token that is yet to come, and none is served
Knows ==
  /\ snapshot # None => snapshot <= current
  /\ \A s \in Sync : sync[s].token # None => sync[s].token <= current
  /\ \A r \in wire : r.op = "register" => r.token <= current
  /\ \A t \in Token : t > current => row[t].status # "active"

\* A call awaits the request that it has sent
Sent == \A r \in wire : r.by \in Sync => r.token = sync[r.by].token

\* A call registers or revokes, and never changes its mind
Sided ==
  \A s \in Sync : /\ sync[s].at \in {"asking", "registering", "saving"} => sync[s].on
                  /\ sync[s].at \in {"revoking", "clearing"} => ~sync[s].on

Conduct == Sent /\ Sided /\ Knows

Active(s) == sync[s].at # "idle"
Served == row[current].status = "active"

\* A call that has the app and the API for itself knows what its answer has left served
BySelf ==
  \A s \in Sync : sole = s =>
    /\ sync[s].at \in {"idle", "registering", "saving", "revoking", "clearing"}
    /\ Active(s) /\ sync[s].token # None =>
         /\ erasing = "no" /\ \A u \in Sync \ {s} : ~Active(u)
         /\ \A r \in wire : r.by = s
         /\ sync[s].at \in {"saving", "clearing"} /\ sync[s].token = current =>
              (Served <=> sync[s].at = "saving")

\* As long as nothing has gone astray, no request was given up, the calls want what the
\* user wants, at most one of them revokes, nothing goes on beside an erasure, and one that
\* was served has left nothing served
Steady ==
  ~astray =>
    /\ \A r \in wire : r.by # None
    /\ ~enabled => starting = 0 /\ ~listening
    /\ \A s \in Sync : Active(s) => sync[s].on = enabled
    /\ ~enabled => \A s, u \in Sync : Active(s) /\ Active(u) => s = u
    /\ erasing # "no" => \A s \in Sync : ~Active(s)
    /\ erasing = "sent" => ~mixed
    /\ erasing = "clearing" => ~Served

\* And the app keeps what is served, or a call, or an erasure, is about to see to it
InSight ==
  ~astray =>
    /\ Served =>
         snapshot = current \/ \E s \in Sync : sync[s].at = "saving" /\ sync[s].token = current
    /\ snapshot = current =>
         \/ Served
         \/ \E s \in Sync : sync[s].at = "clearing"
         \/ erasing = "clearing" /\ "snapshot" \in toClear
    /\ \A s \in Sync :
         /\ sync[s].at = "saving" /\ sync[s].token = current => Served
         /\ sync[s].at = "revoking" => sync[s].token = snapshot
         /\ sync[s].at = "clearing" => ~Served
    /\ ~enabled /\ Served => \E s \in Sync : Active(s)

\* The inductive invariant. Neither KeptIsServed nor OffIsHonoured is inductive: both speak
\* of a state of rest, which is reached from calls and erasures on their way.
SightInv == EraseInv /\ Conduct /\ BySelf /\ Steady /\ InSight

-----------------------------------------------------------------------------
(* How the calls move *)

\* What a call does to the calls: it begins, ends, or goes on with a token
LEMMA BeginsWhere ==
  ASSUME TypeInv, NEW s \in Sync, NEW on \in BOOLEAN, Begins(s, on, Sync)
  PROVE  /\ sync[s].at = "idle" /\ sole' = None
         /\ sync'[s].at = "reading" /\ sync'[s].on = on /\ sync'[s].token = None
         /\ \A u \in Sync \ {s} : sync'[u] = sync[u]
  BY DEF TypeInv, TypeOK, Begins, Idle

LEMMA GoesWhere ==
  ASSUME TypeInv, NEW s \in Sync, NEW at, NEW token, NEW id, Goes(s, at, token, id)
  PROVE  /\ sync'[s].at = at /\ sync'[s].on = sync[s].on /\ sync'[s].token = token
         /\ \A u \in Sync \ {s} : sync'[u] = sync[u]
  <1>1. sync' = [sync EXCEPT ![s] = [at |-> at, on |-> sync[s].on, token |-> token, id |-> id]]
    BY DEF Goes
  <1>2. sync \in [Sync -> SyncState]
    BY DEF TypeInv, TypeOK
  <1> HIDE DEF Goes
  <1> QED BY <1>1, <1>2

LEMMA EndsWhere ==
  ASSUME TypeInv, NEW s \in Sync, Ends(s)
  PROVE  /\ sync'[s].at = "idle" /\ sync'[s].on = FALSE /\ sync'[s].token = None
         /\ \A u \in Sync \ {s} : sync'[u] = sync[u]
  BY DEF TypeInv, TypeOK, Ends, Idle

\* A request that is awaited is served
LEMMA ServedWhere ==
  ASSUME TypeInv, Sent, NEW r \in wire, ServeSync(r), r.by \in Sync
  PROVE  /\ sync[r.by].at = IF r.op = "register" THEN "registering" ELSE "revoking"
         /\ sync'[r.by].at = IF r.op = "register" THEN "saving" ELSE "clearing"
         /\ sync'[r.by].on = sync[r.by].on /\ sync'[r.by].token = sync[r.by].token
         /\ r.token = sync[r.by].token
         /\ \A u \in Sync \ {r.by} : sync'[u] = sync[u]
  <1>1. sync \in [Sync -> SyncState] /\ Awaited
    BY DEF TypeInv, TypeOK
  <1>2. sync' = [sync EXCEPT ![r.by].at = IF r.op = "register" THEN "saving" ELSE "clearing"]
    BY NoneAssumption DEF ServeSync
  <1>3. sync[r.by] \in SyncState
    BY <1>1
  <1> QED BY <1>1, <1>2, <1>3 DEF Awaited, Sent, SyncState

\* What it does to the rows
LEMMA ServedRow ==
  ASSUME TypeInv, NEW r \in wire, ServeSync(r)
  PROVE  /\ r.token \in Token /\ r.op \in {"register", "revoke"} /\ r.by \in Sync \cup {None}
         /\ \A t \in Token \ {r.token} : row'[t] = row[t]
         /\ r.op = "register" => row'[r.token].status = "active"
         /\ r.op = "revoke" => row'[r.token].status # "active"
  <1>1. r.token \in Token /\ r.op \in {"register", "revoke"} /\ r.by \in Sync \cup {None}
    BY DEF TypeInv, Carries, ServeSync
  <1>2. row \in [Token -> Row]
    BY DEF TypeInv, TypeOK
  <1>3. CASE r.op = "register"
    <2>1. row' = [row EXCEPT ![r.token] = [status |-> "active", who |-> r.who, id |-> r.id]]
      BY <1>3 DEF ServeSync, Registered
    <2> QED BY <1>1, <1>2, <1>3, <2>1
  <1>4. CASE r.op = "revoke"
    <2>1. row' = [row EXCEPT ![r.token].status = IF @ = "none" THEN "none" ELSE "revoked"]
      BY <1>4 DEF ServeSync, Revoked
    <2>2. row[r.token] \in Row
      BY <1>1, <1>2
    <2> QED BY <1>1, <1>2, <1>4, <2>1, <2>2 DEF Row
  <1> QED BY <1>1, <1>3, <1>4

-----------------------------------------------------------------------------
(* What the calls know *)

\* At the start nothing is known, sent or served
LEMMA ConductInit == Init => Conduct
  BY NoneAssumption, BoundAssumption
  DEF Init, Conduct, Sent, Sided, Knows, Idle, NoRow, Token

\* What the calls know, every step leaves so
LEMMA ConductStep ==
  ASSUME TypeInv, Conduct, [Next]_vars
  PROVE  Conduct'
  <1>0. /\ TypeOK /\ Carries /\ Awaited /\ Registering
        /\ Sent /\ Sided /\ Knows /\ current \in Token
    BY DEF TypeInv, Conduct, TypeOK
  <1>tok. \A t \in Token : t \in Nat /\ t # None
    BY NoneAssumption, BoundAssumption DEF Token
  \* Nothing is sent by a call that begins
  <1>1. ASSUME NEW s \in Sync, NEW on \in BOOLEAN, Begins(s, on, Sync), wire' = wire, row' = row,
               snapshot' = snapshot, current' \in Token, current <= current'
        PROVE  Conduct'
    <2>1. /\ sync'[s].at = "reading" /\ sync'[s].token = None
          /\ \A u \in Sync \ {s} : sync'[u] = sync[u]
          /\ \A r \in wire : r.by # s
      BY <1>0, <1>1, BeginsWhere DEF Awaited
    <2>2. Sent' /\ Sided'
      BY <1>0, <1>1, <2>1 DEF Sent, Sided
    <2>3. Knows'
      <3>1. \A u \in Sync : sync'[u].token # None => sync'[u].token <= current'
        BY <1>0, <1>1, <1>tok, <2>1 DEF Knows, TypeOK, SyncState
      <3>2. snapshot # None => snapshot <= current'
        BY <1>0, <1>1, <1>tok DEF Knows, TypeOK
      <3>3. \A r \in wire : r.op = "register" => r.token <= current'
        BY <1>0, <1>1, <1>tok DEF Knows, Carries
      <3>4. \A t \in Token : t > current' => row[t].status # "active"
        BY <1>0, <1>1, <1>tok DEF Knows
      <3> QED BY <1>1, <3>1, <3>2, <3>3, <3>4 DEF Knows
    <2> QED BY <2>2, <2>3 DEF Conduct
  \* What is given up is known as before
  <1>2. ASSUME NEW gone, wire' \in Abandoned(gone)
        PROVE  /\ \A r \in wire' : r.op = "register" => r.token <= current
               /\ \A r \in wire' : r.by # None => r \in wire /\ r.by \notin gone
    BY <1>0, <1>2, RemainsTyped DEF Knows, TypeOK
  <1>3. ASSUME NEW s \in Sync, Toggle(s) \/ LanguageChanges(s)  PROVE Conduct'
    <2>1. \E on \in BOOLEAN : Begins(s, on, Sync)
      BY <1>0, <1>3 DEF Toggle, LanguageChanges, TypeOK
    <2>2. wire' = wire /\ row' = row /\ snapshot' = snapshot /\ current' = current
      BY <1>3 DEF Toggle, LanguageChanges, kept
    <2> QED BY <1>0, <1>1, <1>tok, <2>1, <2>2
  <1>4. ASSUME NEW s \in Sync, Restart(s)  PROVE Conduct'
    <2>1. /\ \A u \in Sync : sync'[u].at \in {"idle", "reading"} /\ sync'[u].token = None
          /\ wire' \in Abandoned(Sync \cup {"eraser"})
          /\ row' = row /\ snapshot' = snapshot /\ current' = current
      BY <1>4 DEF Restart, Begins, Idle, kept
    <2> QED BY <1>0, <1>2, <2>1, NoneAssumption DEF Conduct, Sent, Sided, Knows
  <1>5. CASE Listen \/ SessionEnds \/ UNCHANGED vars
    <2>1. wire' = wire /\ row' = row /\ snapshot' = snapshot /\ current' = current /\ sync' = sync
      BY <1>5 DEF Listen, SessionEnds, vars, app, runtime, kept
    <2> QED BY <1>0, <2>1 DEF Conduct, Sent, Sided, Knows
  <1>6. CASE Renew
    <2>1. /\ wire' = wire /\ row' = row /\ snapshot' = snapshot
          /\ current' \in Token /\ current <= current'
      BY <1>0, <1>6, <1>tok, BoundAssumption DEF Renew, kept, Token
    <2>2. CASE \E s \in Sync : Begins(s, TRUE, Sync)
      BY <1>1, <2>1, <2>2
    <2>3. CASE sync' = sync
      <3>1. Sent' /\ Sided'
        BY <1>0, <2>1, <2>3 DEF Sent, Sided
      <3>2. \A u \in Sync : sync[u].token # None => sync[u].token <= current'
        BY <1>0, <1>tok, <2>1 DEF Knows, TypeOK, SyncState
      <3>3. snapshot # None => snapshot <= current'
        BY <1>0, <1>tok, <2>1 DEF Knows, TypeOK
      <3>4. \A r \in wire : r.op = "register" => r.token <= current'
        BY <1>0, <1>tok, <2>1 DEF Knows, Carries
      <3>5. \A t \in Token : t > current' => row[t].status # "active"
        BY <1>0, <1>tok, <2>1 DEF Knows
      <3> QED BY <2>1, <2>3, <3>1, <3>2, <3>3, <3>4, <3>5 DEF Conduct, Knows
    <2> QED BY <1>6, <2>2, <2>3 DEF Renew
  <1>7. ASSUME NEW s \in Sync, Read(s)  PROVE Conduct'
    <2>0. /\ sync[s].at = "reading" /\ \A r \in wire : r.by # s
          /\ row' = row /\ snapshot' = snapshot /\ current' = current
      BY <1>0, <1>7 DEF Read, Awaited, runtime, kept
    <2>1. CASE ~sync[s].on /\ MustRevoke(snapshot)
      <3>1. /\ Goes(s, "revoking", snapshot, None)
            /\ wire' = wire \cup {[by |-> s, op |-> "revoke", token |-> snapshot, who |-> Subject,
                                  id |-> None]}
        BY <1>7, <2>1 DEF Read, Sends
      <3>2. /\ sync'[s].at = "revoking" /\ sync'[s].on = sync[s].on /\ sync'[s].token = snapshot
            /\ \A u \in Sync \ {s} : sync'[u] = sync[u]
        BY <3>1, GoesWhere
      <3> QED BY <1>0, <2>0, <2>1, <3>1, <3>2 DEF Conduct, Sent, Sided, Knows
    <2>2. CASE ~(~sync[s].on /\ MustRevoke(snapshot))
      <3>1. /\ wire' = wire
            /\ \/ sync[s].on /\ Goes(s, "asking", None, keptId)
               \/ ~sync[s].on /\ Goes(s, "clearing", None, None)
        BY <1>7, <2>2 DEF Read
      <3>2. /\ sync'[s].on = sync[s].on /\ sync'[s].token = None
            /\ sync'[s].at = IF sync[s].on THEN "asking" ELSE "clearing"
            /\ \A u \in Sync \ {s} : sync'[u] = sync[u]
        BY <3>1, GoesWhere
      <3> QED BY <1>0, <2>0, <3>1, <3>2 DEF Conduct, Sent, Sided, Knows
    <2> QED BY <2>1, <2>2
  <1>8. ASSUME NEW s \in Sync, Ask(s)  PROVE Conduct'
    <2>0. /\ sync[s].at = "asking" /\ sync[s].on /\ \A r \in wire : r.by # s
          /\ row' = row /\ snapshot' = snapshot /\ current' = current
      BY <1>0, <1>8 DEF Ask, Awaited, Sided, runtime, kept
    <2>1. CASE Ends(s) /\ UNCHANGED <<wire, sole, mixed>>
      <3>1. /\ sync'[s].at = "idle" /\ sync'[s].token = None
            /\ \A u \in Sync \ {s} : sync'[u] = sync[u]
        BY <2>1, EndsWhere
      <3> QED BY <1>0, <2>0, <2>1, <3>1 DEF Conduct, Sent, Sided, Knows
    <2>2. CASE /\ Goes(s, "registering", current, sync[s].id)
               /\ Sends(s, "register", current, sync[s].id)
      <3>1. wire' = wire \cup {[by |-> s, op |-> "register", token |-> current, who |-> Subject,
                               id |-> sync[s].id]}
        BY <2>2 DEF Sends
      <3>2. /\ sync'[s].at = "registering" /\ sync'[s].on = sync[s].on /\ sync'[s].token = current
            /\ \A u \in Sync \ {s} : sync'[u] = sync[u]
        BY <2>2, GoesWhere
      <3>3. current <= current
        BY <1>0, <1>tok
      <3>4. \A r \in wire' : r \in wire \/ (r.by = s /\ r.token = current)
        BY <3>1
      <3>6. Sided'
        BY <1>0, <2>0, <3>2 DEF Sided
      <3>7. Sent'
        BY <1>0, <2>0, <3>2, <3>4 DEF Sent
      <3>5. \A r \in wire' : r.op = "register" => r.token <= current
        BY <1>0, <3>1, <3>3 DEF Knows
      <3>8. \A u \in Sync : sync'[u].token # None => sync'[u].token <= current
        BY <1>0, <3>2, <3>3 DEF Knows
      <3> QED BY <1>0, <2>0, <3>5, <3>6, <3>7, <3>8 DEF Conduct, Knows
    <2> QED BY <1>8, <2>1, <2>2 DEF Ask
  \* A call ends
  <1>9. ASSUME NEW s \in Sync, sync[s].at \in {"reading", "saving", "clearing"}, Ends(s),
               wire' = wire, row' = row, current' = current,
               snapshot' \in {snapshot, None, sync[s].token}
        PROVE  Conduct'
    <2>1. /\ sync'[s].at = "idle" /\ sync'[s].token = None
          /\ \A u \in Sync \ {s} : sync'[u] = sync[u]
          /\ \A r \in wire : r.by # s
      BY <1>0, <1>9, EndsWhere DEF Awaited
    <2> QED BY <1>0, <1>9, <2>1 DEF Conduct, Sent, Sided, Knows
  <1>10. ASSUME NEW s \in Sync, Save(s) \/ Clear(s) \/ StorageFails(s)  PROVE Conduct'
    BY <1>9, <1>10 DEF Save, Clear, StorageFails, runtime, kept
  <1>18. ASSUME NEW s \in Sync, Name(s)  PROVE Conduct'
    <2>1. /\ sync[s].at = "asking" /\ \A r \in wire : r.by # s
          /\ wire' = wire /\ row' = row /\ snapshot' = snapshot /\ current' = current
      BY <1>0, <1>18 DEF Name, Awaited, runtime, kept
    <2>2. /\ sync'[s].at = "asking" /\ sync'[s].on = sync[s].on /\ sync'[s].token = None
          /\ \A u \in Sync \ {s} : sync'[u] = sync[u]
      BY <1>18, GoesWhere DEF Name
    <2> QED BY <1>0, <2>1, <2>2 DEF Conduct, Sent, Sided, Knows
  <1>11. ASSUME NEW s \in Sync, GivesUp(s)  PROVE Conduct'
    <2>1. /\ wire' \in Abandoned({s}) /\ row' = row /\ snapshot' = snapshot /\ current' = current
      BY <1>11 DEF GivesUp, runtime, kept
    <2>2. /\ sync'[s].token = None
          /\ \/ sync'[s].at = "idle"
             \/ sync'[s].at = "clearing" /\ sync[s].at = "revoking" /\ sync'[s].on = sync[s].on
          /\ \A u \in Sync \ {s} : sync'[u] = sync[u]
      <3>1. CASE sync' = Thrown(s)
        BY <1>0, <3>1, EndsWhere DEF Thrown, Ends
      <3>2. CASE sync[s].at = "revoking" /\ Goes(s, "clearing", None, None)
        BY <3>2, GoesWhere
      <3> QED BY <1>11, <3>1, <3>2 DEF GivesUp
    <2> QED BY <1>0, <1>2, <2>1, <2>2, NoneAssumption DEF Conduct, Sent, Sided, Knows
  <1>12. CASE EraseSends
    <2>1. /\ wire' = wire \cup {[by |-> "eraser", op |-> "erase", token |-> None, who |-> Subject,
                              id |-> None]}
          /\ row' = row /\ snapshot' = snapshot /\ current' = current /\ sync' = sync
      BY <1>12 DEF EraseSends, Sends, runtime, kept
    <2> QED BY <1>0, <2>1, NoneAssumption DEF Conduct, Sent, Sided, Knows
  <1>13. CASE EraseGivesUp
    <2>1. /\ wire' \in Abandoned({"eraser"})
          /\ row' = row /\ snapshot' = snapshot /\ current' = current /\ sync' = sync
      BY <1>13 DEF EraseGivesUp, runtime, kept
    <2> QED BY <1>0, <1>2, <2>1, NoneAssumption DEF Conduct, Sent, Sided, Knows
  <1>14. ASSUME NEW what \in toClear, EraseClears(what)  PROVE Conduct'
    <2>1. /\ wire' = wire /\ row' = row /\ snapshot' \in {snapshot, None}
          /\ current' = current /\ sync' = sync
      BY <1>14 DEF EraseClears, runtime, kept
    <2> QED BY <1>0, <2>1 DEF Conduct, Sent, Sided, Knows
  <1>15. ASSUME NEW r \in wire, ServeSync(r)  PROVE Conduct'
    <2>1. /\ wire' = wire \ {r} /\ snapshot' = snapshot /\ current' = current
      BY <1>15 DEF ServeSync, runtime, kept
    <2>2. \A t \in Token : t > current => row'[t].status # "active"
      BY <1>0, <1>15, <1>tok, ServedRow DEF Knows
    <2>3. CASE r.by = None
      <3>1. sync' = sync
        BY <1>15, <2>3 DEF ServeSync
      <3> QED BY <1>0, <2>1, <2>2, <3>1 DEF Conduct, Sent, Sided, Knows
    <2>4. CASE r.by \in Sync
      <3>1. /\ sync[r.by].at = IF r.op = "register" THEN "registering" ELSE "revoking"
            /\ sync'[r.by].at = IF r.op = "register" THEN "saving" ELSE "clearing"
            /\ sync'[r.by].on = sync[r.by].on /\ sync'[r.by].token = sync[r.by].token
            /\ \A u \in Sync \ {r.by} : sync'[u] = sync[u]
        BY <1>0, <1>15, <2>4, ServedWhere
      <3> QED BY <1>0, <2>1, <2>2, <2>4, <3>1 DEF Conduct, Sent, Sided, Knows
    <2> QED BY <1>15, <2>3, <2>4, ServedRow
  <1>16. ASSUME NEW r \in wire, ServeErase(r)  PROVE Conduct'
    <2>1. /\ wire' = wire \ {r} /\ snapshot' = snapshot /\ current' = current /\ sync' = sync
          /\ \A t \in Token : row'[t] = NoRow \/ row'[t] = row[t]
      BY <1>16 DEF ServeErase, RowsErased, runtime, kept
    <2> QED BY <1>0, <2>1 DEF Conduct, Sent, Sided, Knows, NoRow
  <1>17. ASSUME NEW t \in Token, MarkInvalid(t)  PROVE Conduct'
    <2>1. /\ wire' = wire /\ snapshot' = snapshot /\ current' = current /\ sync' = sync
          /\ \A u \in Token : row'[u].status = "invalid" \/ row'[u] = row[u]
      BY <1>0, <1>17 DEF MarkInvalid, Row, app, runtime, kept, TypeOK
    <2> QED BY <1>0, <2>1 DEF Conduct, Sent, Sided, Knows
  <1> QED BY <1>3, <1>4, <1>5, <1>6, <1>7, <1>8, <1>10, <1>11, <1>12, <1>13, <1>14, <1>15, <1>16,
             <1>17, <1>18 DEF Next

-----------------------------------------------------------------------------
(* The steps of the app and of the API *)

\* The app starts in sight of what is served: of nothing
LEMMA SightInit == Init => BySelf /\ Steady /\ InSight
  BY NoneAssumption, BoundAssumption
  DEF Init, BySelf, Steady, InSight, Idle, NoRow, Token, Active, Served

\* A call that begins without getting in the way of another finds the app in sight of what
\* is served, and leaves it so
LEMMA SightBegins ==
  ASSUME SightInv, NEW s \in Sync, NEW on \in BOOLEAN, Begins(s, on, Sync), enabled' = on,
         wire' = wire, row' = row, snapshot' = snapshot, current' = current,
         erasure' = erasure, mixed' = mixed,
         ~astray' => /\ ~astray /\ ~Collides(on)
                     /\ ~on => starting' = 0 /\ ~listening'
                     /\ on # enabled => \A u \in Sync : ~Active(u)
  PROVE  BySelf' /\ Steady' /\ InSight'
  <1>0. TypeInv /\ TypeOK /\ Steady /\ InSight
    BY DEF SightInv, EraseInv, TypeInv
  <1>1. /\ sync[s].at = "idle" /\ sole' = None
        /\ sync'[s].at = "reading" /\ sync'[s].on = on
        /\ \A u \in Sync \ {s} : sync'[u] = sync[u]
    BY <1>0, BeginsWhere
  <1>2. BySelf'
    BY <1>1, NoneAssumption DEF BySelf
  <1>3. SUFFICES ASSUME ~astray'  PROVE Steady' /\ InSight'
    BY <1>2 DEF Steady, InSight
  <1>4. /\ ~astray /\ erasing = "no" /\ erasing' = "no"
        /\ \A u \in Sync : Active(u) => on /\ sync[u].on
        /\ on # enabled => \A u \in Sync : ~Active(u)
        /\ ~on => starting' = 0 /\ ~listening'
    BY <1>3 DEF Collides, erasure, Active
  <1>5. Steady'
    <2>1. \A r \in wire' : r.by # None
      BY <1>0, <1>4 DEF Steady
    <2>2. \A u \in Sync : Active(u)' => sync'[u].on = enabled'
      BY <1>0, <1>1, <1>4 DEF Steady, Active
    <2>3. ~on => \A u, v \in Sync : Active(u)' /\ Active(v)' => u = v
      BY <1>1, <1>4 DEF Active
    <2> QED BY <1>3, <1>4, <2>1, <2>2, <2>3 DEF Steady
  <1>6. InSight'
    <2>1. Served' = Served
      BY DEF Served
    <2>2. Served => snapshot = current \/ \E u \in Sync : sync'[u].at = "saving" /\ sync'[u].token = current
      BY <1>0, <1>1, <1>4 DEF InSight
    <2>3. snapshot = current => Served \/ \E u \in Sync : sync'[u].at = "clearing"
      BY <1>0, <1>1, <1>4 DEF InSight
    <2>4. \A u \in Sync :
            /\ sync'[u].at = "saving" /\ sync'[u].token = current => Served
            /\ sync'[u].at = "revoking" => sync'[u].token = snapshot
            /\ sync'[u].at = "clearing" => ~Served
      BY <1>0, <1>1, <1>4 DEF InSight
    <2>5. Active(s)'
      BY <1>1 DEF Active
    <2> HIDE DEF Served, Active
    <2> QED BY <2>1, <2>2, <2>3, <2>4, <2>5 DEF InSight
  <1> QED BY <1>5, <1>6

\* A token that was never registered is not served
LEMMA SightRenews ==
  ASSUME SightInv, Renew
  PROVE  ~Served' /\ snapshot' # current' /\ \A s \in Sync : sync[s].token # current'
  <1>1. /\ current' = current + 1 /\ current \in Token /\ current < MaxToken /\ row' = row
        /\ snapshot' = snapshot /\ snapshot \in Token \cup {None}
        /\ \A s \in Sync : sync[s].token \in Token \cup {None}
        /\ Knows
    BY DEF SightInv, EraseInv, TypeInv, TypeOK, Renew, Conduct, SyncState, kept
  <1>2. current' \in Token /\ current' > current /\ current \in Nat /\ current' # None
    BY <1>1, BoundAssumption, NoneAssumption DEF Token
  <1>3. \A t \in Token : t <= current => t # current'
    BY <1>1, <1>2, BoundAssumption DEF Token
  <1> QED BY <1>1, <1>2, <1>3 DEF Knows, Served

\* What starts a call, and what concerns none
LEMMA SightStarts ==
  ASSUME SightInv, Renew \/ Listen \/ SessionEnds \/ UNCHANGED vars
         \/ \E s \in Sync : Toggle(s) \/ LanguageChanges(s) \/ Restart(s)
  PROVE  BySelf' /\ Steady' /\ InSight'
  <1>0. TypeInv /\ TypeOK /\ Awaited /\ Following /\ Steady /\ InSight /\ BySelf /\ Conduct
    BY DEF SightInv, EraseInv, TypeInv
  <1>1. ASSUME NEW s \in Sync, Toggle(s)  PROVE BySelf' /\ Steady' /\ InSight'
    <2>1. /\ enabled' = ~enabled /\ enabled' \in BOOLEAN /\ Begins(s, enabled', Sync)
          /\ wire' = wire /\ row' = row /\ snapshot' = snapshot /\ current' = current
          /\ erasure' = erasure /\ mixed' = mixed
      BY <1>0, <1>1 DEF Toggle, kept, TypeOK
    <2>2. ~astray' => ~astray /\ ~Collides(enabled') /\ starting = 0
      <3>1. ~(starting > 0) => starting = 0
        BY <1>0, BoundAssumption DEF TypeOK
      <3>2. ~astray' => ~astray /\ ~Collides(enabled') /\ ~(starting > 0)
        BY <1>1 DEF Toggle
      <3> QED BY <3>1, <3>2
    <2>3. starting = 0 /\ ~enabled' => starting' = 0 /\ ~listening'
      BY <1>1, <2>1 DEF Toggle, Starts, ListeningAfterStop
    <2>4. ~astray /\ ~Collides(enabled') => \A u \in Sync : ~Active(u)
      BY <1>0, <2>1 DEF Steady, Collides, Active, TypeOK
    <2> QED BY <2>1, <2>2, <2>3, <2>4, SightBegins
  <1>2. ASSUME NEW s \in Sync, LanguageChanges(s)  PROVE BySelf' /\ Steady' /\ InSight'
    <2>1. /\ enabled' = enabled /\ enabled' \in BOOLEAN /\ Begins(s, enabled', Sync)
          /\ wire' = wire /\ row' = row /\ snapshot' = snapshot /\ current' = current
          /\ erasure' = erasure /\ mixed' = mixed
      BY <1>0, <1>2 DEF LanguageChanges, kept, TypeOK
    <2>2. ~astray' => ~astray /\ ~Collides(enabled')
      BY <1>2, <2>1 DEF LanguageChanges
    <2>3. ~astray /\ ~enabled' => starting' = 0 /\ ~listening'
      BY <1>0, <1>2, <2>1 DEF LanguageChanges, Starts, ListeningAfterStop, Steady
    <2> QED BY <2>1, <2>2, <2>3, SightBegins
  <1>3. ASSUME NEW s \in Sync, Restart(s)  PROVE BySelf' /\ Steady' /\ InSight'
    <2>1. /\ sole' = None /\ enabled' = enabled /\ starting' = (IF enabled THEN 1 ELSE 0) /\ listening' = FALSE
          /\ sync' = [u \in Sync |-> IF u = s THEN [Idle EXCEPT !.at = "reading", !.on = enabled]
                                     ELSE Idle]
          /\ row' = row /\ snapshot' = snapshot /\ current' = current /\ erasing' = "no"
          /\ wire' \in Abandoned(Sync \cup {"eraser"})
          /\ astray' = (astray \/ erasing # "no" \/ \E u \in Sync : Active(u))
      BY <1>3 DEF Restart, Begins, kept, Active
    <2>2. BySelf'
      BY <2>1, NoneAssumption DEF BySelf
    <2>3. SUFFICES ASSUME ~astray'  PROVE Steady' /\ InSight'
      BY <2>2 DEF Steady, InSight
    <2>4. ~astray /\ erasing = "no" /\ \A u \in Sync : sync[u].at = "idle"
      BY <2>1, <2>3 DEF Active
    <2>5. wire = {}
      <3>1. ASSUME NEW r \in wire  PROVE FALSE
        <4>1. r.by # None /\ r.by # "eraser" /\ r.by \notin Sync
          BY <1>0, <2>4 DEF Steady, Following, Awaited
        <4> QED BY <1>0, <4>1 DEF TypeOK, Request
      <3> QED BY <3>1
    <2>6. wire' = {}
      BY <2>1, <2>5, RemainsTyped
    <2>7. /\ sync'[s].at = "reading" /\ sync'[s].on = enabled
          /\ \A u \in Sync \ {s} : sync'[u].at = "idle"
      BY <2>1 DEF Idle
    <2>8. Steady'
      BY <1>0, <2>1, <2>6, <2>7 DEF Steady, Active
    <2>9. InSight'
      <3>1. (Served <=> snapshot = current) /\ Served' = Served
        BY <1>0, <2>1, <2>4 DEF InSight, Served
      <3> QED BY <2>1, <2>7, <3>1 DEF InSight, Active
    <2> QED BY <2>8, <2>9
  <1>4. CASE Listen \/ SessionEnds \/ UNCHANGED vars
    <2>1. /\ wire' = wire /\ row' = row /\ snapshot' = snapshot /\ current' = current /\ sync' = sync
          /\ erasing' = erasing /\ toClear' = toClear /\ sole' = sole /\ astray' = astray
          /\ mixed' = mixed /\ enabled' = enabled
          /\ (starting' = starting /\ listening' = listening) \/ starting > 0
      BY <1>4 DEF Listen, SessionEnds, vars, app, runtime, kept, erasure, history
    <2> QED BY <1>0, <2>1 DEF BySelf, Steady, InSight, Served, Active
  <1>5. CASE Renew
    <2>1. /\ wire' = wire /\ row' = row /\ erasing' = erasing /\ toClear' = toClear
          /\ snapshot' = snapshot /\ mixed' = mixed /\ enabled' = enabled
          /\ starting' = starting /\ listening' = listening
      BY <1>5 DEF Renew, kept, erasure
    <2>2. ~Served' /\ snapshot' # current' /\ \A s \in Sync : sync[s].token # current'
      BY <1>5, SightRenews
    <2>3. CASE ~listening
      <3>1. sync' = sync /\ sole' = sole /\ astray' = astray
        BY <1>5, <2>3 DEF Renew
      <3>2. BySelf'
        BY <1>0, <2>1, <2>2, <3>1 DEF BySelf, Active
      <3>3. Steady'
        BY <1>0, <2>1, <2>2, <3>1 DEF Steady, Active
      <3>4. InSight'
        BY <1>0, <2>1, <2>2, <3>1 DEF InSight
      <3> QED BY <3>2, <3>3, <3>4
    <2>4. CASE listening
      <3>1. PICK s \in Sync : Begins(s, TRUE, Sync)
        BY <1>5, <2>4 DEF Renew
      <3>2. /\ sync[s].at = "idle" /\ sole' = None
            /\ sync'[s].at = "reading" /\ sync'[s].on = TRUE
            /\ \A u \in Sync \ {s} : sync'[u] = sync[u]
        BY <1>0, <3>1, BeginsWhere
      <3>3. BySelf'
        BY <3>2, NoneAssumption DEF BySelf
      <3>4. SUFFICES ASSUME ~astray'  PROVE Steady' /\ InSight'
        BY <3>3 DEF Steady, InSight
      <3>5. ~astray /\ erasing = "no" /\ enabled
        BY <1>0, <1>5, <2>4, <3>4 DEF Renew, Collides, Steady
      <3>6. Steady'
        BY <1>0, <2>1, <3>2, <3>5 DEF Steady, Active
      <3>7. InSight'
        BY <1>0, <2>1, <2>2, <3>2, <3>5 DEF InSight
      <3> QED BY <3>6, <3>7
    <2> QED BY <2>3, <2>4
  <1> QED BY <1>1, <1>2, <1>3, <1>4, <1>5

\* A call that sends a request has the app and the API for itself if nothing else is under way
LEMMA SendsAlone ==
  ASSUME SightInv, NEW s \in Sync, NEW op, NEW token, NEW id, Sends(s, op, token, id)
  PROVE  /\ \A r \in wire' : r \in wire \/ (r.by = s /\ r.op = op)
         /\ sole' # None => /\ sole' = s /\ erasing = "no" /\ \A u \in Sync \ {s} : ~Active(u)
                            /\ \A r \in wire' : r.by = s
  <1>1. /\ wire' = wire \cup {[by |-> s, op |-> op, token |-> token, who |-> Subject, id |-> id]}
        /\ sole' = IF Alone(s) THEN s ELSE None
    BY DEF Sends
  <1> QED BY <1>1, NoneAssumption DEF Alone, Active

\* The snapshot is answered, and then the token
LEMMA SightGoesOn ==
  ASSUME SightInv, NEW s \in Sync, Read(s) \/ Name(s) \/ Ask(s)
  PROVE  BySelf' /\ Steady' /\ InSight'
  <1>0. TypeInv /\ TypeOK /\ Awaited /\ Steady /\ InSight /\ BySelf /\ Conduct /\ Sided
    BY DEF SightInv, EraseInv, TypeInv, Conduct
  <1>1. /\ Active(s) /\ sync[s].at \in {"reading", "asking"} /\ sole # s
        /\ row' = row /\ snapshot' = snapshot /\ current' = current /\ erasing' = erasing
        /\ toClear' = toClear /\ astray' = astray /\ enabled' = enabled
        /\ starting' = starting /\ listening' = listening
    BY <1>0 DEF Read, Name, Ask, BySelf, Active, runtime, kept, erasure, history
  <1>2. ASSUME NEW at \in {"asking", "registering", "revoking", "clearing"}, NEW token, NEW id,
               Goes(s, at, token, id),
               \/ wire' = wire /\ sole' = sole
               \/ \E op : Sends(s, op, token, id) /\ at \in {"registering", "revoking"},
               at = "revoking" => token = snapshot,
               at = "clearing" => snapshot = None /\ ~sync[s].on
        PROVE  BySelf' /\ Steady' /\ InSight'
    <2>1. /\ sync'[s].at = at /\ sync'[s].on = sync[s].on /\ sync'[s].token = token
          /\ \A u \in Sync \ {s} : sync'[u] = sync[u]
      BY <1>0, <1>2, GoesWhere
    <2>2. BySelf'
      <3>1. CASE wire' = wire /\ sole' = sole
        BY <1>0, <1>1, <2>1, <3>1 DEF BySelf, Active, Served
      <3>2. CASE \E op : Sends(s, op, token, id) /\ at \in {"registering", "revoking"}
        <4>1. at \in {"registering", "revoking"}
          BY <3>2
        <4>2. sole' # None => /\ sole' = s /\ erasing = "no" /\ \A u \in Sync \ {s} : ~Active(u)
                              /\ \A r \in wire' : r.by = s
          BY <3>2, SendsAlone
        <4> QED BY <1>0, <1>1, <2>1, <4>1, <4>2, NoneAssumption DEF BySelf, Active
      <3> QED BY <1>2, <3>1, <3>2
    <2> SUFFICES ASSUME ~astray'  PROVE Steady' /\ InSight'
      BY <2>2 DEF Steady, InSight
    <2>3. ~astray /\ erasing = "no" /\ erasing' = "no" /\ sync[s].on = enabled
      BY <1>0, <1>1 DEF Steady
    <2>4. Steady'
      <3>1. \A r \in wire' : r.by # None
        <4>1. \A r \in wire' : r \in wire \/ r.by = s
          BY <1>2, SendsAlone
        <4> QED BY <1>0, <2>3, <4>1, NoneAssumption DEF Steady
      <3> QED BY <1>0, <1>1, <1>2, <2>1, <2>3, <3>1 DEF Steady, Active
    <2>5. InSight'
      <3>1. Served' = Served /\ snapshot' = snapshot /\ current' = current
        BY <1>1 DEF Served
      <3>2. Served => snapshot = current \/ \E u \in Sync : sync'[u].at = "saving" /\ sync'[u].token = current
        BY <1>0, <1>1, <2>1, <2>3 DEF InSight
      <3>3. snapshot = current => Served \/ \E u \in Sync : sync'[u].at = "clearing"
        BY <1>0, <1>1, <2>1, <2>3 DEF InSight
      <3>4. at = "clearing" => ~Served
        <4>1. snapshot # None => snapshot # current \/ snapshot = current
          OBVIOUS
        <4>2. None # current
          BY <1>0, NoneAssumption, BoundAssumption DEF TypeOK, Token
        <4>3. at = "clearing" => \A u \in Sync : sync[u].at # "saving"
          BY <1>0, <1>1, <1>2, <2>3 DEF Steady, Active
        <4> QED BY <1>0, <1>2, <2>3, <4>2, <4>3 DEF InSight
      <3>5. \A u \in Sync :
              /\ sync'[u].at = "saving" /\ sync'[u].token = current => Served
              /\ sync'[u].at = "revoking" => sync'[u].token = snapshot
              /\ sync'[u].at = "clearing" => ~Served
        <4>1. ASSUME NEW u \in Sync \ {s}
              PROVE  /\ sync'[u].at = "saving" /\ sync'[u].token = current => Served
                     /\ sync'[u].at = "revoking" => sync'[u].token = snapshot
                     /\ sync'[u].at = "clearing" => ~Served
          BY <1>0, <2>1, <2>3 DEF InSight
        <4> QED BY <1>2, <2>1, <3>4, <4>1
      <3>6. Active(s)'
        BY <1>2, <2>1 DEF Active
      <3> HIDE DEF Served, Active
      <3> QED BY <3>1, <3>2, <3>3, <3>5, <3>6 DEF InSight
    <2> QED BY <2>4, <2>5
  <1>3. CASE Read(s)
    <2>1. \/ Goes(s, "asking", None, keptId) /\ wire' = wire /\ sole' = sole
          \/ Goes(s, "revoking", snapshot, None) /\ Sends(s, "revoke", snapshot, None)
          \/ /\ Goes(s, "clearing", None, None) /\ wire' = wire /\ sole' = sole
             /\ snapshot = None /\ ~sync[s].on
      BY <1>3 DEF Read, MustRevoke
    <2> HIDE DEF Goes, Sends
    <2>2. CASE Goes(s, "asking", None, keptId) /\ wire' = wire /\ sole' = sole
      BY <1>2, <2>2
    <2>3. CASE Goes(s, "revoking", snapshot, None) /\ Sends(s, "revoke", snapshot, None)
      BY <1>2, <2>3
    <2>4. CASE /\ Goes(s, "clearing", None, None) /\ wire' = wire /\ sole' = sole
               /\ snapshot = None /\ ~sync[s].on
      BY <1>2, <2>4
    <2> QED BY <2>1, <2>2, <2>3, <2>4
  <1>4. CASE Name(s)
    <2>1. Goes(s, "asking", None, identity) /\ wire' = wire /\ sole' = sole
      BY <1>4 DEF Name, history
    <2> QED BY <1>2, <2>1
  <1>5. CASE Ask(s)
    <2>1. CASE Goes(s, "registering", current, sync[s].id) /\ Sends(s, "register", current, sync[s].id)
      BY <1>2, <2>1
    <2>2. CASE Ends(s) /\ wire' = wire /\ sole' = sole
      <3>0. sync[s].at = "asking" /\ sync[s].on
        BY <1>0, <1>5 DEF Ask, Sided
      <3>1. /\ sync'[s].at = "idle"
            /\ \A u \in Sync \ {s} : sync'[u] = sync[u]
        BY <1>0, <2>2, EndsWhere
      <3>2. BySelf'
        BY <1>0, <1>1, <2>2, <3>1 DEF BySelf, Active, Served
      <3> SUFFICES ASSUME ~astray'  PROVE Steady' /\ InSight'
        BY <3>2 DEF Steady, InSight
      <3>3. ~astray /\ erasing = "no" /\ erasing' = "no" /\ enabled
        BY <1>0, <1>1, <3>0 DEF Steady
      <3>4. Steady'
        BY <1>0, <1>1, <2>2, <3>1, <3>3 DEF Steady, Active
      <3>5. InSight'
        BY <1>0, <1>1, <3>0, <3>1, <3>3 DEF InSight, Active, Served
      <3> QED BY <3>4, <3>5
    <2> QED BY <1>5, <2>1, <2>2 DEF Ask
  <1> QED BY <1>3, <1>4, <1>5

\* A call ends: it has saved or cleared the snapshot, or failed, or has nothing to do
LEMMA SightEnds ==
  ASSUME SightInv, NEW s \in Sync, Save(s) \/ Clear(s) \/ StorageFails(s)
  PROVE  BySelf' /\ Steady' /\ InSight'
  <1>0. /\ TypeInv /\ TypeOK /\ Steady /\ InSight /\ BySelf /\ Conduct /\ Sided /\ Knows
        /\ Registering /\ current \in Nat /\ None # current
    BY NoneAssumption, BoundAssumption DEF SightInv, EraseInv, TypeInv, Conduct, TypeOK, Token
  <1>1. /\ row' = row /\ current' = current /\ erasing' = erasing /\ toClear' = toClear
        /\ enabled' = enabled /\ starting' = starting /\ listening' = listening
        /\ wire' = wire /\ sole' = sole /\ mixed' = mixed
        /\ sync[s].at \in {"reading", "saving", "clearing"} /\ Ends(s)
    BY DEF Save, Clear, StorageFails, runtime, kept, erasure
  <1>2. /\ sync'[s].at = "idle" /\ sync'[s].token = None
        /\ \A u \in Sync \ {s} : sync'[u] = sync[u]
    BY <1>0, <1>1, EndsWhere
  <1>3. BySelf'
    BY <1>0, <1>1, <1>2 DEF BySelf, Active, Served
  <1> SUFFICES ASSUME ~astray'  PROVE Steady' /\ InSight'
    BY <1>3 DEF Steady, InSight
  \* The app has seen all that was served
  <1>4. CASE sole = s /\ sync[s].token = current /\ sync[s].at \in {"saving", "clearing"}
             /\ (enabled <=> sync[s].at = "saving") /\ (~enabled => starting = 0 /\ ~listening)
             /\ snapshot' = IF sync[s].at = "saving" THEN current ELSE None
    <2>1. /\ erasing = "no" /\ \A u \in Sync \ {s} : ~Active(u)
          /\ \A r \in wire : r.by = s
          /\ Served <=> sync[s].at = "saving"
      BY <1>0, <1>4 DEF BySelf, Active
    <2>2. \A u \in Sync : ~Active(u)'
      BY <1>2, <2>1 DEF Active
    <2>3. \A r \in wire' : r.by # None
      BY <1>1, <2>1, NoneAssumption
    <2>4. Steady'
      BY <1>1, <1>4, <2>1, <2>2, <2>3 DEF Steady
    <2>5. Served' = Served /\ (Served <=> enabled) /\ (snapshot' = current <=> enabled)
      BY <1>0, <1>1, <1>4, <2>1 DEF Served
    <2>6. InSight'
      BY <1>1, <2>2, <2>5 DEF InSight, Active
    <2> QED BY <2>4, <2>6
  <1>5. CASE ~astray
    <2>1. /\ erasing = "no" /\ sync[s].on = enabled
      BY <1>0, <1>1, <1>5 DEF Steady, Active
    <2>2. Steady'
      BY <1>0, <1>1, <1>2, <1>5 DEF Steady, Active
    <2>3. CASE Save(s)
      <3>1. sync[s].at = "saving" /\ snapshot' = sync[s].token
        BY <2>3 DEF Save
      <3>2. enabled /\ sync[s].token \in Token /\ sync[s].token <= current
        BY <1>0, <2>1, <3>1, NoneAssumption, BoundAssumption DEF Sided, Knows, Registering, Token
      <3>3. sync[s].token \in Nat /\ snapshot \in Nat \cup {None}
        BY <1>0, <3>2, BoundAssumption DEF Token, TypeOK
      <3>9. snapshot # None => ~(snapshot > sync[s].token)
        <4>1. CASE sync[s].token = current
          BY <1>0, <3>3, <4>1 DEF Knows
        <4>2. CASE sync[s].token # current
          BY <1>5, <2>3, <4>2 DEF Save
        <4> QED BY <4>1, <4>2
      <3>4. snapshot = current => sync[s].token = current
        BY <1>0, <3>2, <3>3, <3>9
      <3>5. Served' = Served
        BY <1>1 DEF Served
      <3>6. Served => sync[s].token = current
                      \/ \E u \in Sync : sync'[u].at = "saving" /\ sync'[u].token = current
        BY <1>0, <1>2, <1>5, <3>4 DEF InSight
      <3>7. sync[s].token = current => Served
        BY <1>0, <1>5, <3>1 DEF InSight
      <3>8. \A u \in Sync : sync[u].at \notin {"revoking", "clearing"}
        BY <1>0, <1>5, <3>2 DEF Steady, Active, Sided
      <3> HIDE DEF Served
      <3> QED BY <1>0, <1>1, <1>2, <1>5, <2>2, <3>1, <3>2, <3>5, <3>6, <3>7, <3>8 DEF InSight
    <2>4. CASE Clear(s)
      <3>1. sync[s].at = "clearing" /\ snapshot' = None
        BY <2>4 DEF Clear
      <3>2. Served' = Served /\ ~Served
        BY <1>0, <1>1, <1>5, <3>1 DEF InSight, Served
      <3>3. ~enabled /\ \A u \in Sync : sync'[u].at = "idle"
        BY <1>0, <1>2, <1>5, <2>1, <3>1 DEF Sided, Steady, Active
      <3> QED BY <1>0, <1>1, <2>2, <3>1, <3>2, <3>3 DEF InSight
    <2>5. CASE StorageFails(s)
      <3>1. sync[s].at = "reading" /\ sync[s].on /\ snapshot' = snapshot
        BY <2>5 DEF StorageFails, kept
      <3> QED BY <1>0, <1>1, <1>2, <1>5, <2>1, <2>2, <3>1 DEF InSight, Served, Active
    <2> QED BY <2>3, <2>4, <2>5
  <1>6. CASE astray /\ Save(s)
    <2>1. /\ sync[s].at = "saving" /\ snapshot' = sync[s].token
          /\ sole = s /\ sync[s].token = current /\ enabled
      BY <1>6 DEF Save
    <2> QED BY <1>4, <2>1
  <1>7. CASE astray /\ Clear(s)
    <2>1. /\ sync[s].at = "clearing" /\ snapshot' = None
          /\ sole = s /\ sync[s].token = current /\ ~enabled /\ starting = 0 /\ ~listening
      BY <1>7 DEF Clear
    <2> QED BY <1>4, <2>1
  <1>8. CASE astray /\ StorageFails(s)
    BY <1>8 DEF StorageFails
  <1> QED BY <1>5, <1>6, <1>7, <1>8, <1>0 DEF TypeOK

\* Requests are given up
LEMMA SightGivesUp ==
  ASSUME SightInv, EraseGivesUp \/ \E s \in Sync : GivesUp(s)
  PROVE  BySelf' /\ Steady' /\ InSight'
  <1>0. TypeInv /\ BySelf /\ astray' = TRUE
    BY DEF SightInv, EraseInv, EraseGivesUp, GivesUp
  <1>1. CASE EraseGivesUp
    <2>1. erasing = "sent" /\ sync' = sync /\ sole' = sole
      BY <1>1 DEF EraseGivesUp
    <2> QED BY <1>0, <2>1 DEF BySelf, Steady, InSight, Active
  <1>2. ASSUME NEW s \in Sync, GivesUp(s)  PROVE BySelf'
    <2>1. sole' = sole /\ sync[s].at \in {"registering", "revoking"}
      BY <1>2 DEF GivesUp
    <2>2. /\ sync'[s].at \in {"idle", "clearing"} /\ sync'[s].token = None
          /\ \A u \in Sync \ {s} : sync'[u] = sync[u]
      <3>1. CASE sync' = Thrown(s)
        BY <1>0, <3>1, EndsWhere DEF Thrown, Ends
      <3>2. CASE Goes(s, "clearing", None, None)
        BY <1>0, <3>2, GoesWhere
      <3> QED BY <1>2, <3>1, <3>2 DEF GivesUp
    <2> QED BY <1>0, <2>1, <2>2 DEF BySelf, Active
  <1> QED BY <1>0, <1>1, <1>2 DEF Steady, InSight

\* The app is in sight of what is served when it sends an erasure, and it forgets what the
\* erasure has deleted
LEMMA SightErases ==
  ASSUME SightInv, EraseSends \/ \E what \in toClear : EraseClears(what)
  PROVE  BySelf' /\ Steady' /\ InSight'
  <1>0. TypeInv /\ TypeOK /\ Following /\ BySelf /\ Steady /\ InSight /\ OfIdentity
    BY DEF SightInv, TypeInv, EraseInv
  <1>1. CASE EraseSends
    <2>1. /\ erasing = "no" /\ erasing' = "sent" /\ sync' = sync /\ row' = row /\ current' = current
          /\ snapshot' = snapshot /\ enabled' = enabled /\ starting' = starting
          /\ listening' = listening /\ mixed' = mixed /\ sole' = None
          /\ \A r \in wire' : r \in wire \/ r.by = "eraser"
          /\ astray' = (astray \/ mixed \/ \E u \in Sync : sync[u].at # "idle")
      BY <1>1, NoneAssumption DEF EraseSends, Sends, runtime, kept
    <2>2. BySelf'
      BY <2>1, NoneAssumption DEF BySelf
    <2>3. Steady'
      BY <1>0, <2>1, NoneAssumption DEF Steady, Active
    <2>4. InSight'
      BY <1>0, <2>1 DEF InSight, Active, Served
    <2> QED BY <2>2, <2>3, <2>4
  <1>2. ASSUME NEW what \in toClear, EraseClears(what)  PROVE BySelf' /\ Steady' /\ InSight'
    <2>1. /\ erasing = "clearing" /\ sync' = sync /\ row' = row /\ current' = current
          /\ enabled' = enabled /\ starting' = starting /\ listening' = listening
          /\ sole' = sole /\ wire' = wire
          /\ toClear' = toClear \ {what} /\ (toClear # {what} => erasing' = "clearing")
          /\ erasing' \in {"clearing", "no"}
      BY <1>0, <1>2 DEF EraseClears, Following, runtime
    <2>9. /\ ~astray' => ~astray
          /\ ~astray' => snapshot' = IF what = "snapshot" THEN None ELSE snapshot
      <3>1. CASE /\ snapshot' = IF what = "snapshot" THEN None ELSE snapshot
                 /\ astray' = astray
        BY <3>1
      <3>2. CASE astray' = (astray \/ what = "snapshot") /\ snapshot' = snapshot
        BY <3>2
      <3> QED BY <1>2, <3>1, <3>2 DEF EraseClears, kept
    <2>2. BySelf'
      BY <1>0, <2>1 DEF BySelf, Active
    <2> SUFFICES ASSUME ~astray'  PROVE Steady' /\ InSight'
      BY <2>2 DEF Steady, InSight
    <2>3. Steady'
      BY <1>0, <2>1, <2>9 DEF Steady, Active, Served
    <2>4. /\ snapshot' = IF what = "snapshot" THEN None ELSE snapshot
          /\ None # current /\ current \in Token
      BY <1>0, <2>9, NoneAssumption, BoundAssumption DEF TypeOK, Token
    <2>5. ~Served /\ Served' = Served
      BY <1>0, <2>1, <2>9 DEF Steady, Served
    <2>6. \A u \in Sync : sync[u].at = "idle"
      BY <1>0, <2>1, <2>9 DEF Steady, Active
    <2>7. snapshot' = current => erasing' = "clearing" /\ "snapshot" \in toClear'
      BY <1>0, <2>1, <2>4, <2>5, <2>6, <2>9 DEF InSight
    <2> HIDE DEF Served
    <2>8. InSight'
      BY <2>1, <2>5, <2>6, <2>7 DEF InSight
    <2> QED BY <2>3, <2>8
  <1> QED BY <1>1, <1>2

\* The API serves a call, or the worker marks a row
LEMMA SightServed ==
  ASSUME SightInv, (\E r \in wire : ServeSync(r)) \/ \E t \in Token : MarkInvalid(t)
  PROVE  BySelf' /\ Steady' /\ InSight'
  <1>0. /\ TypeInv /\ TypeOK /\ BySelf /\ Steady /\ InSight /\ Sent /\ Sided
        /\ None \notin Token /\ current \in Token
    BY NoneAssumption, BoundAssumption DEF SightInv, EraseInv, TypeInv, TypeOK, Conduct, Token
  <1>1. ASSUME NEW r \in wire, ServeSync(r)  PROVE BySelf' /\ Steady' /\ InSight'
    <2>1. /\ wire' = wire \ {r} /\ snapshot' = snapshot /\ current' = current /\ enabled' = enabled
          /\ starting' = starting /\ listening' = listening /\ erasing' = erasing
          /\ toClear' = toClear /\ sole' = sole /\ astray' = astray /\ mixed' = mixed
      BY <1>1 DEF ServeSync, runtime, kept, erasure, history
    <2>2. /\ r.token \in Token /\ r.op \in {"register", "revoke"} /\ r.by \in Sync \cup {None}
          /\ r.token # current => Served' = Served
          /\ r.token = current => (Served' <=> r.op = "register")
      BY <1>0, <1>1, <2>1, ServedRow DEF Served
    <2>3. CASE r.by = None
      <3>1. astray
        BY <1>0, <2>3 DEF Steady
      <3>2. sync' = sync
        BY <1>1, <2>3 DEF ServeSync
      <3>3. BySelf'
        <4>1. ASSUME NEW u \in Sync, sole = u, Active(u), sync[u].token # None  PROVE FALSE
          BY <1>0, <2>3, <4>1, NoneAssumption DEF BySelf
        <4> QED BY <1>0, <2>1, <3>2, <4>1 DEF BySelf, Active
      <3> QED BY <2>1, <3>1, <3>3 DEF Steady, InSight
    <2>4. CASE r.by \in Sync
      <3> DEFINE s == r.by
      <3>1. /\ sync[s].at = IF r.op = "register" THEN "registering" ELSE "revoking"
            /\ sync'[s].at = IF r.op = "register" THEN "saving" ELSE "clearing"
            /\ sync'[s].on = sync[s].on /\ sync'[s].token = sync[s].token
            /\ r.token = sync[s].token
            /\ \A u \in Sync \ {s} : sync'[u] = sync[u]
        BY <1>0, <1>1, <2>4, ServedWhere
      <3>2. s \in Sync
        BY <2>4
      <3> HIDE DEF s
      <3>3. Active(s) /\ \A u \in Sync : Active(u)' <=> Active(u)
        BY <3>1, <3>2, <2>2 DEF Active
      <3>4. BySelf'
        <4>1. ASSUME NEW u \in Sync, sole = u, u # s  PROVE ~(Active(u) /\ sync[u].token # None)
          BY <1>0, <3>2, <3>3, <4>1 DEF BySelf
        <4>2. sole = s => /\ erasing = "no" /\ \A u \in Sync \ {s} : ~Active(u)
                          /\ \A q \in wire : q.by = s
          BY <1>0, <2>2, <3>1, <3>2, <3>3 DEF BySelf
        <4>3. sync'[s].token = current => (Served' <=> sync'[s].at = "saving")
          BY <2>2, <3>1
        <4>4. sync'[s].at \in {"saving", "clearing"}
          BY <3>1
        <4> HIDE DEF Served
        <4>5. \A u \in Sync : sole = u /\ u # s =>
                /\ sync'[u].at \in {"idle", "registering", "saving", "revoking", "clearing"}
                /\ ~(Active(u)' /\ sync'[u].token # None)
          BY <1>0, <3>1, <3>3, <4>1 DEF BySelf
        <4> HIDE DEF Active
        <4> QED BY <2>1, <3>3, <4>2, <4>3, <4>4, <4>5 DEF BySelf
      <3> SUFFICES ASSUME ~astray'  PROVE Steady' /\ InSight'
        BY <3>4 DEF Steady, InSight
      <3>5. Steady'
        <4>1. \A u \in Sync : sync'[u].on = sync[u].on
          BY <3>1
        <4>2. erasing # "clearing"
          BY <1>0, <2>1, <3>2, <3>3 DEF Steady
        <4> HIDE DEF Active
        <4> QED BY <1>0, <2>1, <3>3, <4>1, <4>2 DEF Steady
      <3>6. ~astray /\ erasing = "no" /\ sync[s].on = enabled
        BY <1>0, <2>1, <3>2, <3>3 DEF Steady
      <3>7. CASE r.op = "register"
        <4>1. enabled /\ \A u \in Sync : sync[u].at \notin {"revoking", "clearing"}
          BY <1>0, <3>1, <3>2, <3>6, <3>7 DEF Sided, Steady, Active
        <4>2. sync'[s].at = "saving" /\ sync[s].at = "registering"
          BY <3>1, <3>7
        <4>3. Served' => snapshot = current \/ \E u \in Sync : sync'[u].at = "saving" /\ sync'[u].token = current
          <5>1. CASE r.token = current
            BY <3>1, <3>2, <4>2, <5>1
          <5>2. CASE r.token # current
            BY <1>0, <2>2, <3>1, <3>6, <4>2, <5>2 DEF InSight
          <5> QED BY <5>1, <5>2
        <4>4. Served => Served'
          BY <2>2, <3>7
        <4>5. snapshot = current => Served'
          BY <1>0, <3>6, <4>1, <4>4 DEF InSight
        <4>6. \A u \in Sync : sync'[u].at = "saving" /\ sync'[u].token = current => Served'
          BY <1>0, <2>2, <3>1, <3>6, <3>7, <4>4 DEF InSight
        <4>7. \A u \in Sync : sync'[u].at \notin {"revoking", "clearing"}
          BY <3>1, <4>1, <4>2
        <4> HIDE DEF Served
        <4> QED BY <2>1, <3>5, <4>1, <4>3, <4>5, <4>6, <4>7 DEF InSight
      <3>8. CASE r.op = "revoke"
        <4>1. sync'[s].at = "clearing" /\ sync[s].at = "revoking"
          BY <3>1, <3>8
        <4>2. ~enabled /\ \A u \in Sync \ {s} : sync[u].at = "idle"
          BY <1>0, <3>2, <3>3, <3>6, <4>1 DEF Sided, Steady, Active
        <4>3. r.token = snapshot
          BY <1>0, <3>1, <3>2, <3>6, <4>1 DEF InSight
        <4>4. Served => snapshot = current
          BY <1>0, <3>6, <4>1, <4>2 DEF InSight
        <4>5. ~Served'
          BY <2>2, <3>8, <4>3, <4>4
        <4>6. \A u \in Sync \ {s} : sync'[u].at = "idle"
          BY <3>1, <4>2
        <4> HIDE DEF Served
        <4> QED BY <2>1, <3>2, <3>5, <4>1, <4>5, <4>6 DEF InSight
      <3> QED BY <2>2, <3>7, <3>8
    <2> QED BY <2>2, <2>3, <2>4
  <1>2. ASSUME NEW t \in Token, MarkInvalid(t)  PROVE BySelf' /\ Steady' /\ InSight'
    <2>1. /\ wire' = wire /\ snapshot' = snapshot /\ current' = current /\ enabled' = enabled
          /\ starting' = starting /\ listening' = listening /\ erasing' = erasing
          /\ toClear' = toClear /\ sole' = sole /\ astray' = astray /\ mixed' = mixed
          /\ sync' = sync
      BY <1>2 DEF MarkInvalid, app, runtime, kept, erasure, history
    <2>2. row'[current] = row[current]
      BY <1>0, <1>2 DEF MarkInvalid, TypeOK
    <2> QED BY <1>0, <2>1, <2>2 DEF BySelf, Steady, InSight, Active, Served
  <1> QED BY <1>1, <1>2

\* The API serves an erasure
LEMMA SightErased ==
  ASSUME SightInv, NEW r \in wire, ServeErase(r)
  PROVE  BySelf' /\ Steady' /\ InSight'
  <1>0. /\ TypeInv /\ TypeOK /\ Carries /\ Awaited /\ Following /\ BySelf /\ Steady /\ InSight
        /\ EraseInv' /\ current \in Token
    BY EraseStep DEF SightInv, EraseInv, TypeInv, TypeOK, Next
  <1>1. /\ wire' = wire \ {r} /\ snapshot' = snapshot /\ current' = current /\ enabled' = enabled
        /\ starting' = starting /\ listening' = listening /\ sync' = sync
        /\ sole' = sole /\ astray' = astray
        /\ mixed' = (mixed \/ (r.by # None /\ \E q \in wire : q.op = "register"))
        /\ r.by \in {None, "eraser"} /\ r.by \notin Sync
    BY <1>0, NoneAssumption DEF ServeErase, Carries, runtime, kept
  <1>2. BySelf'
    <2>1. ASSUME NEW u \in Sync, sole = u, Active(u), sync[u].token # None  PROVE FALSE
      BY <1>0, <1>1, <2>1 DEF BySelf
    <2> QED BY <1>0, <1>1, <2>1 DEF BySelf, Active
  <1> SUFFICES ASSUME ~astray'  PROVE Steady' /\ InSight'
    BY <1>2 DEF Steady, InSight
  <1>3. r.by = "eraser" /\ erasing = "sent" /\ ~mixed /\ \A u \in Sync : ~Active(u)
    BY <1>0, <1>1 DEF Steady, Following
  <1>4. erasing' = "clearing" /\ toClear' = Stored
    BY <1>3, NoneAssumption DEF ServeErase
  <1>5. ~mixed'
    <2>1. ASSUME NEW q \in wire, q.op = "register"  PROVE FALSE
      <3>1. q.by \in Sync
        BY <1>0, <1>1, <2>1 DEF Carries, Steady
      <3> QED BY <1>0, <1>3, <2>1, <3>1 DEF Awaited, Active
    <2> QED BY <1>1, <1>3, <2>1
  <1>6. ~Served'
    <2>1. row'[current] = NoRow
      BY <1>0, <1>4, <1>5 DEF EraseInv, OfIdentity
    <2> QED BY <1>1, <2>1 DEF Served, NoRow
  <1>7. Steady'
    BY <1>0, <1>1, <1>3, <1>4, <1>6 DEF Steady, Active
  <1>8. InSight'
    BY <1>1, <1>3, <1>4, <1>6 DEF InSight, Active, Stored
  <1> QED BY <1>7, <1>8

\* The invariant is inductive
LEMMA SightStep == SightInv /\ [Next]_vars => SightInv'
  <1> SUFFICES ASSUME SightInv, [Next]_vars  PROVE SightInv'
    OBVIOUS
  <1>1. EraseInv /\ TypeInv /\ Conduct
    BY DEF SightInv, EraseInv
  <1>2. EraseInv' /\ Conduct'
    BY <1>1, EraseStep, ConductStep
  <1>3. BySelf' /\ Steady' /\ InSight'
    BY SightStarts, SightGoesOn, SightEnds, SightGivesUp, SightErases, SightServed, SightErased
    DEF Next
  <1> QED BY <1>2, <1>3 DEF SightInv

\* When nothing is under way what the app keeps is what is served
LEMMA SightAtRest == SightInv => KeptIsServed /\ OffIsHonoured
  BY DEF SightInv, InSight, KeptIsServed, OffIsHonoured, Quiet, Active, Served

\* It holds at the start
LEMMA SightStarted == Init => SightInv
  BY EraseInit, ConductInit, SightInit DEF SightInv

\* At rest the app keeps a registration exactly as long as the API serves it, through any
\* number of calls, renewals and erasures, until it may have lost sight of one; and again
\* after a call that was alone has set it right.
THEOREM KeptRegistrationIsServed == Spec => []KeptIsServed
  BY SightStarted, SightStep, SightAtRest, PTL DEF Spec

\* Who has switched notifications off has no device that is served, once all is at rest.
THEOREM SwitchedOffIsHonoured == Spec => []OffIsHonoured
  BY SightStarted, SightStep, SightAtRest, PTL DEF Spec
===============================================================================
