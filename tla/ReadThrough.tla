------------------------------ MODULE ReadThrough ------------------------------
(***************************************************************************)
(* What a request for one match in one timezone is answered: the snapshot  *)
(* of readThroughSnapshot, with the live overlay of the match laid over it. *)
(*                                                                         *)
(* A row is stored whole by whoever answers last, API or worker, whatever  *)
(* the age of what it stores. A payload is known here by two things: what  *)
(* it shows of the match, and the ticks since API-Football said so. Ages   *)
(* are counted up to caps beyond which they make no difference.            *)
(*                                                                         *)
(* A refresh is what readThroughSnapshot does in the background, for a     *)
(* process, what it does for a reader who finds nothing, or the task of a  *)
(* worker, which RefreshQueue follows and may run here at any time.        *)
(***************************************************************************)
EXTENDS Integers

CONSTANTS
  Process,       \* API processes
  Reader,        \* requests for the match, one after the other
  Home,          \* Home[r] is the process that serves r
  Worker,        \* refreshes outside the API
  Fresh,         \* staleAfterMs of a snapshot, in ticks
  Expire,        \* expiresAfterMs of a snapshot
  OverlayFresh,  \* LIVE_OVERLAY_STALE_MS
  OverlayExpire, \* LIVE_OVERLAY_EXPIRES_MS
  Cached,        \* bound: age of what the response caches answer a refresh
  Late,          \* bound: ticks from that answer to the last write of the refresh
  Slow,          \* bound: ticks between two steps of a request
  MaxFaults      \* bound: refreshes that fail, answers without the fixture, ends of processes

ASSUME HomeAssumption == Home \in [Reader -> Process]
ASSUME TickAssumption ==
  /\ Fresh \in Nat /\ Expire \in Nat /\ OverlayFresh \in Nat /\ OverlayExpire \in Nat
  /\ Cached \in Nat /\ Late \in Nat /\ Slow \in Nat /\ MaxFaults \in Nat
  /\ OverlayFresh <= Fresh /\ Fresh <= Expire /\ OverlayFresh <= OverlayExpire
ASSUME ActorAssumption ==
  Process \cap Reader = {} /\ Process \cap Worker = {} /\ Reader \cap Worker = {}

Actor == Process \cup Reader \cup Worker
MaxLag == Cached + Late
SnapshotCap == Expire + 1
OverlayCap == OverlayExpire + 1
AgeCap == Fresh + OverlayFresh + MaxLag + Slow + 1

VARIABLES
  ended,    \* ticks since the match ended, or -1 while it is played
  snapshot, \* row of entity_snapshots
  overlay,  \* row of match_live_overlays; one that is not live is never applied, as none
  refresh,  \* the refresh of each actor; inFlightSnapshotRefreshes holds a process's own
  request,  \* where each reader's request is, and the payload it has read
  faults    \* how often something went wrong

vars == <<ended, snapshot, overlay, refresh, request, faults>>

-----------------------------------------------------------------------------
(* Values *)

\* "nothing": a response of API-Football without the fixture
Data == [shows : {"live", "over", "nothing"}, age : 0..AgeCap]
Nothing == [shows |-> "nothing", age |-> 0]

\* since: ticks since it was stored
Row(cap) == [stored : BOOLEAN, data : Data, since : 0..cap]
NoRow == [stored |-> FALSE, data |-> Nothing, since |-> 0]
RowOf(d) == [stored |-> TRUE, data |-> d, since |-> 0]

RefreshStep == {"none", "fetch", "snapshot", "overlay"}
Refresh == [at : RefreshStep, data : Data]
NoRefresh == [at |-> "none", data |-> Nothing]

\* "overlay": readThroughSnapshot has returned the payload, with its label
RequestStep == {"idle", "stale", "fetch", "overlay"}
Label == {"fresh", "stale", "miss"}
Request == [at : RequestStep, label : Label, read : Data, held : 0..Slow]
Reading(at, label, d) == [at |-> at, label |-> label, read |-> d, held |-> 0]
Idle == Reading("idle", "miss", Nothing)

Init ==
  /\ ended = -1
  /\ snapshot = NoRow
  /\ overlay = NoRow
  /\ refresh = [a \in Actor |-> NoRefresh]
  /\ request = [r \in Reader |-> Idle]
  /\ faults = 0

\* slip: a row is fresh as long as it may be served
FreshUntilExpiry(row, limit) == row.since <= Expire

\* resolveFreshness, with "expired" treated as "stale" by all who ask
IsFresh(row, limit) == row.since <= limit

\* slip: the response is stored as it came
AnyPayload(d) == TRUE

\* validateMatchFullPayload
Valid(d) == d.shows # "nothing"

-----------------------------------------------------------------------------
(* Refreshes *)

Fault == faults < MaxFaults /\ faults' = faults + 1

\* What API-Football, or a response cache in front of it, may answer now
Answers ==
  {d \in [shows : {"live", "over"}, age : 0..Cached] :
     IF d.shows = "live" THEN d.age >= ended ELSE d.age <= ended} \cup {Nothing}

\* The refresh of a goes on with the payload d
Holding(a, at, d) == refresh' = [refresh EXCEPT ![a] = [at |-> at, data |-> d]]

\* buildMatchFullResponse answers the API, which stores the overlay of whatever it gets
Answered(a, d) ==
  /\ refresh[a].at = "fetch"
  /\ IF Valid(d) THEN UNCHANGED faults ELSE Fault
  /\ Holding(a, "overlay", d)
  /\ UNCHANGED <<ended, snapshot, overlay, request>>

Answer(a) == \E d \in Answers : Answered(a, d)

\* The refresh of a is over. A reader that refreshed has the payload, if there is one.
Over(a, served) ==
  /\ refresh' = [refresh EXCEPT ![a] = NoRefresh]
  /\ request' = IF a \notin Reader THEN request
                ELSE [request EXCEPT ![a] =
                       IF served THEN Reading("overlay", "miss", refresh[a].data) ELSE Idle]

\* upsertMatchLiveOverlay, called by persistLiveOverlay or persistWorkerMatchOverlay
PutOverlay(a) ==
  /\ refresh[a].at = "overlay"
  /\ overlay' = IF refresh[a].data.shows = "live" THEN RowOf(refresh[a].data) ELSE NoRow
  /\ IF a \in Worker \/ ~Valid(refresh[a].data)
     THEN Over(a, FALSE)
     ELSE Holding(a, "snapshot", refresh[a].data) /\ UNCHANGED request
  /\ UNCHANGED <<ended, snapshot, faults>>

\* upsertEntitySnapshot: the row is replaced, whatever its age
PutSnapshot(a) ==
  /\ refresh[a].at = "snapshot"
  /\ snapshot' = RowOf(refresh[a].data)
  /\ IF a \in Worker
     THEN Holding(a, "overlay", refresh[a].data) /\ UNCHANGED request
     ELSE Over(a, TRUE)
  /\ UNCHANGED <<ended, overlay, faults>>

\* slip: the entry of a failed refresh stays in the map
StaysInFlight(a) ==
  IF a \in Process
  THEN refresh' = [refresh EXCEPT ![a] = [at |-> "failed", data |-> Nothing]] /\ UNCHANGED request
  ELSE Over(a, FALSE)

\* The promise settles, and its entry is removed from the map
Settles(a) == Over(a, FALSE)

\* The fetch or one of the writes throws
Fails(a) ==
  /\ refresh[a].at \in {"fetch", "overlay", "snapshot"}
  /\ Fault
  /\ Settles(a)
  /\ UNCHANGED <<ended, snapshot, overlay>>

\* A worker took a task of the queue and has a complete payload (assertCompleteSnapshot).
\* It stores the snapshot first. The snapshot of another timezone is not modelled, but the
\* overlay is the same.
Take(a) ==
  /\ refresh[a].at = "none"
  /\ \E d \in Answers, at \in {"snapshot", "overlay"} : Valid(d) /\ Holding(a, at, d)
  /\ UNCHANGED <<ended, snapshot, overlay, request, faults>>

-----------------------------------------------------------------------------
(* Requests *)

\* The request begins, and getEntitySnapshot answers. An error counts as a miss: the
\* request then waits for a fetch of its own.
Get(r) ==
  /\ request[r].at = "idle"
  /\ \/ /\ snapshot.stored
        /\ request' = [request EXCEPT ![r] =
             IF IsFresh(snapshot, Fresh) THEN Reading("overlay", "fresh", snapshot.data)
             ELSE Reading("stale", "stale", snapshot.data)]
        /\ UNCHANGED refresh
     \/ /\ request' = [request EXCEPT ![r] = Reading("fetch", "miss", Nothing)]
        /\ refresh' = [refresh EXCEPT ![r] = [at |-> "fetch", data |-> Nothing]]
  /\ UNCHANGED <<ended, snapshot, overlay, faults>>

\* The stale payload will be served, and is refreshed unless this process is at it. The
\* task that is queued as well is for the workers.
ServeStale(r) ==
  /\ request[r].at = "stale"
  /\ request' = [request EXCEPT ![r] = Reading("overlay", "stale", request[r].read)]
  /\ refresh' = IF refresh[Home[r]].at # "none" THEN refresh
                ELSE [refresh EXCEPT ![Home[r]] = [at |-> "fetch", data |-> Nothing]]
  /\ UNCHANGED <<ended, snapshot, overlay, faults>>

\* slip: the overlay is laid over the payload while it is stored
AnyOverlay == overlay.stored

\* applyMatchLiveOverlay applies
OverlayApplies == overlay.stored /\ IsFresh(overlay, OverlayFresh)

\* What the reply holds if getMatchLiveOverlay answers now
Shown(r) == IF OverlayApplies THEN overlay.data ELSE request[r].read

\* getMatchLiveOverlay answers and the reply, Shown(r), follows; or one of the two reads
\* after readThroughSnapshot throws
Reply(r) ==
  /\ request[r].at = "overlay"
  /\ request' = [request EXCEPT ![r] = Idle]
  /\ UNCHANGED <<ended, snapshot, overlay, refresh, faults>>

-----------------------------------------------------------------------------
(* The environment *)

\* The match ends
End ==
  /\ ended = -1
  /\ ended' = 0
  /\ UNCHANGED <<snapshot, overlay, refresh, request, faults>>

\* deleteExpiredSnapshots, of one table or the other
Collect ==
  \/ /\ snapshot.stored /\ snapshot.since > Expire
     /\ snapshot' = NoRow
     /\ UNCHANGED <<ended, overlay, refresh, request, faults>>
  \/ /\ overlay.stored /\ overlay.since > OverlayExpire
     /\ overlay' = NoRow
     /\ UNCHANGED <<ended, snapshot, refresh, request, faults>>

\* An API process ends: its requests, their fetches and its own refresh are gone
Restart(p) ==
  /\ Fault
  /\ refresh' = [a \in Actor |->
       IF a = p \/ (a \in Reader /\ Home[a] = p) THEN NoRefresh ELSE refresh[a]]
  /\ request' = [r \in Reader |-> IF Home[r] = p THEN Idle ELSE request[r]]
  /\ UNCHANGED <<ended, snapshot, overlay>>

Aged(n, cap) == IF n < cap THEN n + 1 ELSE n
AgedData(d) == [shows |-> d.shows, age |-> Aged(d.age, AgeCap)]
AgedRow(row, cap) ==
  IF row.stored
  THEN [stored |-> TRUE, data |-> AgedData(row.data), since |-> Aged(row.since, cap)]
  ELSE NoRow

\* A payload waits to be stored
Holds(a) == refresh[a].at \in {"overlay", "snapshot"}

\* A request is between its reads
Waits(r) == request[r].at \in {"stale", "overlay"}

\* Time passes, within the bounds on refreshes and requests
Tick ==
  /\ \A a \in Actor : Holds(a) => refresh[a].data.age < MaxLag
  /\ \A r \in Reader : Waits(r) => request[r].held < Slow
  /\ ended' = IF ended = -1 THEN -1 ELSE Aged(ended, MaxLag + 1)
  /\ snapshot' = AgedRow(snapshot, SnapshotCap)
  /\ overlay' = AgedRow(overlay, OverlayCap)
  /\ refresh' = [a \in Actor |->
       IF Holds(a) THEN [at |-> refresh[a].at, data |-> AgedData(refresh[a].data)]
       ELSE refresh[a]]
  /\ request' = [r \in Reader |->
       IF Waits(r)
       THEN [at |-> request[r].at, label |-> request[r].label,
             read |-> AgedData(request[r].read), held |-> request[r].held + 1]
       ELSE request[r]]
  /\ UNCHANGED faults

-----------------------------------------------------------------------------
Steps(a) == Answer(a) \/ PutOverlay(a) \/ PutSnapshot(a) \/ Fails(a)
Serve(r) == Get(r) \/ ServeStale(r) \/ Reply(r)

Next ==
  \/ \E a \in Actor : Steps(a)
  \/ \E a \in Worker : Take(a)
  \/ \E r \in Reader : Serve(r)
  \/ \E p \in Process : Restart(p)
  \/ End \/ Collect \/ Tick

Spec == Init /\ [][Next]_vars

\* Time passes, every await ends, and somebody keeps asking for the match. A worker need
\* not take a task. Failures, which are bounded, are not owed.
Fairness ==
  /\ WF_vars(Tick)
  /\ \A a \in Actor : WF_vars(Steps(a))
  /\ \A r \in Reader : WF_vars(Serve(r))

LiveSpec == Spec /\ Fairness

-----------------------------------------------------------------------------
(* Properties *)

\* Types, and with them that a snapshot, or the payload of a request, holds a match: a
\* response without the fixture reaches the overlay at most.
TypeOK ==
  /\ faults \in 0..MaxFaults
  /\ ended \in -1..MaxLag + 1
  /\ snapshot \in Row(SnapshotCap) /\ overlay \in Row(OverlayCap)
  /\ refresh \in [Actor -> Refresh]
  /\ request \in [Reader -> Request]
  /\ snapshot.stored => snapshot.data.shows # "nothing"
  /\ \A r \in Reader : Waits(r) => request[r].read.shows # "nothing"

\* A reply that is said to be fresh shows nothing older than the freshness of a snapshot
\* and the delays on its way, although rows are replaced by older answers, read at one
\* time and served at another, and mixed with an overlay of another refresh.
FreshIsRecent ==
  \A r \in Reader :
    request[r].at = "overlay" /\ request[r].label # "stale" =>
      Shown(r).age <= MaxLag + IF request[r].label = "fresh" THEN Fresh + Slow
                               ELSE IF Slow > OverlayFresh THEN Slow ELSE OverlayFresh

\* An overlay may be older than the payload it is laid over, and show a match as live that
\* the payload shows as over; but only as long after the end as an overlay is fresh, and
\* its refresh may have taken.
OverlayIsRecent ==
  \A r \in Reader :
    request[r].at = "overlay" /\ request[r].read.shows = "over" /\ Shown(r).shows = "live" =>
      Shown(r).age <= OverlayFresh + MaxLag

\* Once the match is over, every reply shows it from some time on, whatever older answers
\* were stored over newer ones: no refresh that fails, or that ends with its process,
\* keeps the next one from starting.
EndIsShown ==
  ended # -1 ~> [](\A r \in Reader : request[r].at = "overlay" => Shown(r).shows = "over")
=============================================================================
