-------------------------- MODULE ReadThrough_proofs --------------------------
(***************************************************************************)
(* How old a reply of ReadThrough may be, for any number of processes,     *)
(* readers and workers, any windows and any bounds on the delays.          *)
(*                                                                         *)
(* A row may be replaced by an older answer, so its age is not the time    *)
(* since it was stored. But nobody stores an answer older than MaxLag, and *)
(* from then on the age and the time grow together: that is Soon.          *)
(***************************************************************************)
EXTENDS ReadThrough, TLAPS

\* What a refresh that is about to store a snapshot holds is a match.
HoldsAMatch == \A a \in Actor : refresh[a].at = "snapshot" => Valid(refresh[a].data)

-----------------------------------------------------------------------------
(* Ages *)

\* A capped count grows by one, or stays where it is
LEMMA AgedType ==
  ASSUME NEW cap \in Nat, NEW n \in 0..cap
  PROVE  Aged(n, cap) \in 0..cap /\ Aged(n, cap) <= n + 1
BY DEF Aged

LEMMA CapsAreNat == SnapshotCap \in Nat /\ OverlayCap \in Nat /\ AgeCap \in Nat /\ MaxLag \in Nat
BY TickAssumption DEF SnapshotCap, OverlayCap, AgeCap, MaxLag

LEMMA AgedDataType ==
  ASSUME NEW d \in Data
  PROVE  /\ AgedData(d) \in Data
         /\ AgedData(d).shows = d.shows
         /\ AgedData(d).age <= d.age + 1
BY AgedType, CapsAreNat DEF AgedData, Data

LEMMA AgedRowType ==
  ASSUME NEW cap \in Nat, NEW row \in Row(cap)
  PROVE  /\ AgedRow(row, cap) \in Row(cap)
         /\ AgedRow(row, cap).stored = row.stored
         /\ row.stored => AgedRow(row, cap).data = AgedData(row.data)
         /\ row.stored => AgedRow(row, cap).since = Aged(row.since, cap)
<1>1. row = [stored |-> row.stored, data |-> row.data, since |-> row.since]
      /\ row.stored \in BOOLEAN /\ row.data \in Data /\ row.since \in 0..cap
  BY DEF Row
<1>2. NoRow \in Row(cap)
  BY CapsAreNat DEF NoRow, Nothing, Row, Data
<1> QED
  BY <1>1, <1>2, AgedDataType, AgedType DEF AgedRow, Row, NoRow

LEMMA RowOfType ==
  ASSUME NEW d \in Data, NEW cap \in Nat
  PROVE  RowOf(d) \in Row(cap) /\ RowOf(d).data = d /\ RowOf(d).since = 0 /\ RowOf(d).stored
BY DEF RowOf, Row

LEMMA NoRowType ==
  ASSUME NEW cap \in Nat
  PROVE  NoRow \in Row(cap) /\ ~NoRow.stored
BY CapsAreNat DEF NoRow, Nothing, Row, Data

\* What is answered is a payload no older than the response caches allow
LEMMA AnswersType ==
  ASSUME NEW d \in Answers
  PROVE  d \in Data /\ d.age <= MaxLag
BY TickAssumption DEF Answers, Data, Nothing, AgeCap, MaxLag

LEMMA ReadingType ==
  ASSUME NEW at \in RequestStep, NEW label \in Label, NEW d \in Data
  PROVE  /\ Reading(at, label, d) \in Request
         /\ Reading(at, label, d).at = at /\ Reading(at, label, d).label = label
         /\ Reading(at, label, d).read = d /\ Reading(at, label, d).held = 0
BY TickAssumption DEF Reading, Request

LEMMA IdleType == Idle \in Request /\ Idle.at = "idle"
BY CapsAreNat, ReadingType DEF Idle, Nothing, Data, RequestStep, Label, Reading

LEMMA NoRefreshType == NoRefresh \in Refresh /\ NoRefresh.at = "none"
BY CapsAreNat DEF NoRefresh, Refresh, RefreshStep, Nothing, Data

-----------------------------------------------------------------------------
(* Types *)

Typed == TypeOK /\ HoldsAMatch

\* The effect of Holding and of Over on the types
LEMMA HoldingType ==
  ASSUME TypeOK, NEW a \in Actor, NEW at \in RefreshStep, NEW d \in Data, Holding(a, at, d)
  PROVE  /\ refresh' \in [Actor -> Refresh]
         /\ refresh'[a] = [at |-> at, data |-> d]
         /\ \A b \in Actor \ {a} : refresh'[b] = refresh[b]
BY DEF TypeOK, Holding, Refresh

LEMMA OverType ==
  ASSUME TypeOK, NEW a \in Actor, NEW served \in BOOLEAN, Over(a, served)
  PROVE  /\ refresh' \in [Actor -> Refresh]
         /\ refresh'[a] = NoRefresh
         /\ \A b \in Actor \ {a} : refresh'[b] = refresh[b]
         /\ request' \in [Reader -> Request]
         /\ \A r \in Reader :
              \/ request'[r] = request[r]
              \/ request'[r] = Idle
              \/ r = a /\ served /\ request'[r] = Reading("overlay", "miss", refresh[a].data)
<1>1. Reading("overlay", "miss", refresh[a].data) \in Request
  BY ReadingType DEF TypeOK, Refresh, RequestStep, Label
<1> QED
  BY <1>1, NoRefreshType, IdleType DEF TypeOK, Over

LEMMA InitTyped == Init => Typed
<1> SUFFICES ASSUME Init PROVE Typed
  OBVIOUS
<1>1. snapshot \in Row(SnapshotCap) /\ overlay \in Row(OverlayCap) /\ ~snapshot.stored
  BY NoRowType, CapsAreNat DEF Init
<1>2. refresh \in [Actor -> Refresh] /\ request \in [Reader -> Request]
  BY NoRefreshType, IdleType DEF Init
<1>3. HoldsAMatch /\ \A r \in Reader : ~Waits(r)
  BY NoRefreshType, IdleType DEF Init, HoldsAMatch, Waits
<1> QED
  BY <1>1, <1>2, <1>3, CapsAreNat, TickAssumption DEF Init, Typed, TypeOK

LEMMA StepTyped == Typed /\ [Next]_vars => Typed'
<1> SUFFICES ASSUME Typed, [Next]_vars PROVE Typed'
  OBVIOUS
<1>t. TypeOK /\ HoldsAMatch
  BY DEF Typed
<1>a. ASSUME NEW a \in Actor, Answer(a) PROVE Typed'
  <2>1. PICK d \in Answers : Answered(a, d)
    BY <1>a DEF Answer
  <2>2. d \in Data
    BY AnswersType
  <2>3. Holding(a, "overlay", d)
    BY <2>1 DEF Answered
  <2>4. /\ refresh' \in [Actor -> Refresh]
        /\ refresh'[a] = [at |-> "overlay", data |-> d]
        /\ \A b \in Actor \ {a} : refresh'[b] = refresh[b]
    BY <2>2, <2>3, <1>t, HoldingType DEF RefreshStep
  <2>5. faults' \in 0..MaxFaults
    BY <2>1, <1>t, TickAssumption DEF Answered, Fault, TypeOK
  <2>6. UNCHANGED <<ended, snapshot, overlay, request>>
    BY <2>1 DEF Answered
  <2>7. HoldsAMatch'
    BY <2>4, <1>t DEF HoldsAMatch, Valid
  <2> QED
    BY <2>4, <2>5, <2>6, <2>7, <1>t DEF Typed, TypeOK, Waits
<1>o. ASSUME NEW a \in Actor, PutOverlay(a) PROVE Typed'
  <2>1. overlay' \in Row(OverlayCap)
    BY <1>o, <1>t, RowOfType, NoRowType, CapsAreNat DEF PutOverlay, TypeOK, Refresh
  <2>2. UNCHANGED <<ended, snapshot, faults>>
    BY <1>o DEF PutOverlay
  <2>3. CASE Over(a, FALSE)
    <3>1. /\ refresh' \in [Actor -> Refresh] /\ request' \in [Reader -> Request]
          /\ refresh'[a] = NoRefresh /\ \A b \in Actor \ {a} : refresh'[b] = refresh[b]
          /\ \A r \in Reader : request'[r] = request[r] \/ request'[r] = Idle
      BY <2>3, <1>t, OverType
    <3>2. HoldsAMatch' /\ \A r \in Reader : Waits(r)' => request'[r] = request[r] /\ Waits(r)
      BY <3>1, <1>t, NoRefreshType, IdleType DEF HoldsAMatch, Valid, Waits
    <3> QED
      BY <3>1, <3>2, <2>1, <2>2, <1>t DEF Typed, TypeOK
  <2>4. CASE Valid(refresh[a].data) /\ Holding(a, "snapshot", refresh[a].data) /\ UNCHANGED request
    <3>1. /\ refresh' \in [Actor -> Refresh]
          /\ refresh'[a] = [at |-> "snapshot", data |-> refresh[a].data]
          /\ \A b \in Actor \ {a} : refresh'[b] = refresh[b]
      BY <2>4, <1>t, HoldingType DEF TypeOK, Refresh, RefreshStep
    <3>2. HoldsAMatch'
      BY <3>1, <2>4, <1>t DEF HoldsAMatch, Valid
    <3> QED
      BY <3>1, <3>2, <2>1, <2>2, <2>4, <1>t DEF Typed, TypeOK, Waits
  <2> QED
    BY <2>3, <2>4, <1>o DEF PutOverlay
<1>s. ASSUME NEW a \in Actor, PutSnapshot(a) PROVE Typed'
  <2>1. /\ snapshot' \in Row(SnapshotCap)
        /\ snapshot'.data.shows # "nothing"
        /\ refresh[a].data \in Data /\ refresh[a].data.shows # "nothing"
    BY <1>s, <1>t, RowOfType, CapsAreNat DEF PutSnapshot, TypeOK, Refresh, HoldsAMatch, Valid
  <2>2. UNCHANGED <<ended, overlay, faults>>
    BY <1>s DEF PutSnapshot
  <2>3. CASE Over(a, TRUE)
    <3>1. /\ refresh' \in [Actor -> Refresh] /\ request' \in [Reader -> Request]
          /\ refresh'[a] = NoRefresh /\ \A b \in Actor \ {a} : refresh'[b] = refresh[b]
          /\ \A r \in Reader : \/ request'[r] = request[r] \/ request'[r] = Idle
                               \/ request'[r] = Reading("overlay", "miss", refresh[a].data)
      BY <2>3, <1>t, OverType
    <3>2. HoldsAMatch'
      BY <3>1, <1>t, NoRefreshType DEF HoldsAMatch, Valid
    <3>3. ASSUME NEW r \in Reader, Waits(r)' PROVE request'[r].read.shows # "nothing"
      BY <3>1, <3>3, <2>1, <1>t, IdleType, ReadingType DEF Waits, TypeOK, RequestStep, Label
    <3> QED
      BY <3>1, <3>2, <3>3, <2>1, <2>2, <1>t DEF Typed, TypeOK
  <2>4. CASE Holding(a, "overlay", refresh[a].data) /\ UNCHANGED request
    <3>1. /\ refresh' \in [Actor -> Refresh]
          /\ refresh'[a] = [at |-> "overlay", data |-> refresh[a].data]
          /\ \A b \in Actor \ {a} : refresh'[b] = refresh[b]
      BY <2>4, <2>1, <1>t, HoldingType DEF RefreshStep
    <3>2. HoldsAMatch'
      BY <3>1, <1>t DEF HoldsAMatch, Valid
    <3> QED
      BY <3>1, <3>2, <2>1, <2>2, <2>4, <1>t DEF Typed, TypeOK, Waits
  <2> QED
    BY <2>3, <2>4, <1>s DEF PutSnapshot
<1>f. ASSUME NEW a \in Actor, Fails(a) PROVE Typed'
  <2>1. /\ refresh' \in [Actor -> Refresh] /\ request' \in [Reader -> Request]
        /\ refresh'[a] = NoRefresh /\ \A b \in Actor \ {a} : refresh'[b] = refresh[b]
        /\ \A r \in Reader : request'[r] = request[r] \/ request'[r] = Idle
    BY <1>f, <1>t, OverType DEF Fails, Settles
  <2>2. HoldsAMatch' /\ \A r \in Reader : Waits(r)' => request'[r] = request[r] /\ Waits(r)
    BY <2>1, <1>t, NoRefreshType, IdleType DEF HoldsAMatch, Valid, Waits
  <2>3. UNCHANGED <<ended, snapshot, overlay>> /\ faults' \in 0..MaxFaults
    BY <1>f, <1>t, TickAssumption DEF Fails, Fault, TypeOK
  <2> QED
    BY <2>1, <2>2, <2>3, <1>t DEF Typed, TypeOK
<1>k. ASSUME NEW a \in Worker, Take(a) PROVE Typed'
  <2>0. a \in Actor
    BY DEF Actor
  <2>1. PICK d \in Answers, at \in {"snapshot", "overlay"} : Valid(d) /\ Holding(a, at, d)
    BY <1>k DEF Take
  <2>2. /\ refresh' \in [Actor -> Refresh]
        /\ refresh'[a] = [at |-> at, data |-> d]
        /\ \A b \in Actor \ {a} : refresh'[b] = refresh[b]
    BY <2>0, <2>1, <1>t, HoldingType, AnswersType DEF RefreshStep
  <2>3. HoldsAMatch'
    BY <2>1, <2>2, <1>t DEF HoldsAMatch, Valid
  <2>4. UNCHANGED <<ended, snapshot, overlay, request, faults>>
    BY <1>k DEF Take
  <2> QED
    BY <2>2, <2>3, <2>4, <1>t DEF Typed, TypeOK, Waits
<1>g. ASSUME NEW r \in Reader, Get(r) PROVE Typed'
  <2>0. r \in Actor /\ [at |-> "fetch", data |-> Nothing] \in Refresh
        /\ snapshot.data \in Data /\ Nothing \in Data
    BY <1>t, NoRefreshType, CapsAreNat DEF Actor, TypeOK, Row, Refresh, RefreshStep, Nothing, Data
  <2>1. PICK at \in RequestStep, label \in Label, d \in Data :
          /\ request' = [request EXCEPT ![r] = Reading(at, label, d)]
          /\ at \in {"overlay", "stale"} => snapshot.stored /\ d = snapshot.data
    BY <1>g, <2>0 DEF Get, RequestStep, Label
  <2>2. request' \in [Reader -> Request]
    BY <2>1, <1>t, ReadingType DEF TypeOK
  <2>3. refresh' \in [Actor -> Refresh] /\ HoldsAMatch'
    BY <1>g, <2>0, <1>t DEF Get, TypeOK, HoldsAMatch, Valid
  <2>4. UNCHANGED <<ended, snapshot, overlay, faults>>
    BY <1>g DEF Get
  <2>5. ASSUME NEW q \in Reader, Waits(q)' PROVE request'[q].read.shows # "nothing"
    BY <2>1, <2>5, <1>t, ReadingType DEF Waits, TypeOK
  <2> QED
    BY <2>2, <2>3, <2>4, <2>5, <1>t DEF Typed, TypeOK
<1>e. ASSUME NEW r \in Reader, ServeStale(r) PROVE Typed'
  <2>0. Home[r] \in Actor /\ [at |-> "fetch", data |-> Nothing] \in Refresh
    BY <1>t, HomeAssumption, CapsAreNat DEF Actor, Refresh, RefreshStep, Nothing, Data
  <2>1. /\ request' = [request EXCEPT ![r] = Reading("overlay", "stale", request[r].read)]
        /\ request[r].read \in Data /\ request[r].read.shows # "nothing"
    BY <1>e, <1>t DEF ServeStale, TypeOK, Request, Waits
  <2>2. request' \in [Reader -> Request]
    BY <2>1, <1>t, ReadingType DEF TypeOK, RequestStep, Label
  <2>3. refresh' \in [Actor -> Refresh] /\ HoldsAMatch'
    BY <1>e, <2>0, <1>t DEF ServeStale, TypeOK, HoldsAMatch, Valid
  <2>4. UNCHANGED <<ended, snapshot, overlay, faults>>
    BY <1>e DEF ServeStale
  <2>5. ASSUME NEW q \in Reader, Waits(q)' PROVE request'[q].read.shows # "nothing"
    BY <2>1, <2>5, <1>t, ReadingType DEF Waits, TypeOK, RequestStep, Label
  <2> QED
    BY <2>2, <2>3, <2>4, <2>5, <1>t DEF Typed, TypeOK
<1>y. ASSUME NEW r \in Reader, Reply(r) PROVE Typed'
  <2>1. request' = [request EXCEPT ![r] = Idle] /\ UNCHANGED <<ended, snapshot, overlay, refresh, faults>>
    BY <1>y DEF Reply
  <2>2. request' \in [Reader -> Request]
        /\ \A q \in Reader : Waits(q)' => request'[q] = request[q] /\ Waits(q)
    BY <2>1, <1>t, IdleType DEF TypeOK, Waits
  <2> QED
    BY <2>1, <2>2, <1>t DEF Typed, TypeOK, HoldsAMatch, Valid
<1>r. ASSUME NEW p \in Process, Restart(p) PROVE Typed'
  <2>1. refresh' \in [Actor -> Refresh] /\ HoldsAMatch'
    BY <1>r, <1>t, NoRefreshType DEF Restart, TypeOK, HoldsAMatch, Valid
  <2>2. request' \in [Reader -> Request]
        /\ \A q \in Reader : Waits(q)' => request'[q] = request[q] /\ Waits(q)
    BY <1>r, <1>t, IdleType DEF Restart, TypeOK, Waits
  <2>3. UNCHANGED <<ended, snapshot, overlay>> /\ faults' \in 0..MaxFaults
    BY <1>r, <1>t, TickAssumption DEF Restart, Fault, TypeOK
  <2> QED
    BY <2>1, <2>2, <2>3, <1>t DEF Typed, TypeOK
<1>d. ASSUME End PROVE Typed'
  BY <1>d, <1>t, CapsAreNat DEF End, Typed, TypeOK, HoldsAMatch, Valid, Waits
<1>c. ASSUME Collect PROVE Typed'
  <2>1. snapshot' \in Row(SnapshotCap) /\ overlay' \in Row(OverlayCap)
        /\ (snapshot'.stored => snapshot'.data.shows # "nothing")
    BY <1>c, <1>t, NoRowType, CapsAreNat DEF Collect, TypeOK
  <2>2. UNCHANGED <<ended, refresh, request, faults>>
    BY <1>c DEF Collect
  <2> QED
    BY <2>1, <2>2, <1>t DEF Typed, TypeOK, HoldsAMatch, Valid, Waits
<1>w. ASSUME Tick PROVE Typed'
  <2>1. snapshot' \in Row(SnapshotCap) /\ overlay' \in Row(OverlayCap)
        /\ (snapshot'.stored => snapshot'.data.shows # "nothing")
    BY <1>w, <1>t, AgedRowType, AgedDataType, CapsAreNat DEF Tick, TypeOK, Row
  <2>2. ended' \in -1..MaxLag + 1 /\ UNCHANGED faults
    BY <1>w, <1>t, CapsAreNat DEF Tick, TypeOK, Aged
  <2>3. ASSUME NEW a \in Actor
        PROVE  refresh'[a] \in Refresh /\ (refresh'[a].at = "snapshot" => Valid(refresh'[a].data))
    <3>1. refresh[a] \in Refresh /\ refresh[a].data \in Data
      BY <1>t DEF TypeOK, Refresh
    <3>2. CASE Holds(a)
      <4>1. refresh'[a] = [at |-> refresh[a].at, data |-> AgedData(refresh[a].data)]
        BY <1>w, <3>2 DEF Tick
      <4> QED
        BY <4>1, <3>1, <1>t, AgedDataType DEF Refresh, HoldsAMatch, Valid
    <3>3. CASE ~Holds(a)
      BY <1>w, <3>3, <3>1, <1>t DEF Tick, HoldsAMatch, Valid
    <3> QED
      BY <3>2, <3>3
  <2>4. refresh' \in [Actor -> Refresh] /\ HoldsAMatch'
    BY <2>3, <1>w DEF Tick, HoldsAMatch, Valid
  <2>5. ASSUME NEW r \in Reader
        PROVE  request'[r] \in Request /\ (Waits(r)' => request'[r].read.shows # "nothing")
    <3>1. request[r] \in Request /\ request[r].read \in Data
      BY <1>t DEF TypeOK, Request
    <3>2. CASE Waits(r)
      <4>1. request'[r] = [at |-> request[r].at, label |-> request[r].label,
                           read |-> AgedData(request[r].read), held |-> request[r].held + 1]
        BY <1>w, <3>2 DEF Tick
      <4>2. request[r].held + 1 \in 0..Slow
        BY <1>w, <3>1, <3>2, TickAssumption DEF Tick, Request
      <4> QED
        BY <4>1, <4>2, <3>1, <3>2, <1>t, AgedDataType DEF Request, TypeOK
    <3>3. CASE ~Waits(r)
      BY <1>w, <3>3, <3>1 DEF Tick, Waits
    <3> QED
      BY <3>2, <3>3
  <2>6. request' \in [Reader -> Request]
    BY <2>5, <1>w DEF Tick
  <2> QED
    BY <2>1, <2>2, <2>4, <2>5, <2>6 DEF Typed, TypeOK
<1>u. CASE UNCHANGED vars
  BY <1>u, <1>t DEF vars, Typed, TypeOK, HoldsAMatch, Valid, Waits
<1> QED
  BY <1>a, <1>o, <1>s, <1>f, <1>k, <1>g, <1>e, <1>y, <1>r, <1>d, <1>c, <1>w, <1>u
  DEF Next, Steps, Serve

\* The types of the module, and that no snapshot and no payload of a request lacks the
\* match, whatever API-Football answers.
THEOREM TypesAreKept == Spec => []TypeOK
<1>1. Typed => TypeOK
  BY DEF Typed
<1> QED
  BY <1>1, InitTyped, StepTyped, PTL DEF Spec

-----------------------------------------------------------------------------
(* Ages of what is stored and served *)

\* What the ages of the request r must be, in a state where it is [at, label, read, held]
Recent(q) ==
  /\ q.at = "overlay" /\ q.label = "fresh" => q.read.age <= Fresh + MaxLag + q.held
  /\ q.at = "overlay" /\ q.label = "miss" => q.read.age <= MaxLag + q.held
  /\ q.at = "stale" => q.label = "stale"

SnapshotSoon ==
  snapshot.stored /\ snapshot.since <= Expire => snapshot.data.age <= snapshot.since + MaxLag
OverlaySoon ==
  overlay.stored /\ overlay.since <= OverlayExpire => overlay.data.age <= overlay.since + MaxLag
RefreshSoon == \A a \in Actor : Holds(a) => refresh[a].data.age <= MaxLag
RequestsRecent == \A r \in Reader : Recent(request[r])

Soon == SnapshotSoon /\ OverlaySoon /\ RefreshSoon /\ RequestsRecent

LEMMA IdleRecent == Recent(Idle)
BY IdleType DEF Recent

LEMMA InitSoon == Init => Soon
BY IdleRecent, NoRowType, CapsAreNat, NoRefreshType
DEF Init, Soon, SnapshotSoon, OverlaySoon, RefreshSoon, RequestsRecent, Holds

\* A step of one request
LEMMA OneRequest ==
  ASSUME TypeOK, RequestsRecent, NEW r \in Reader, NEW q, Recent(q),
         request' = [request EXCEPT ![r] = q]
  PROVE  RequestsRecent'
<1> SUFFICES ASSUME NEW p \in Reader PROVE Recent(request'[p])
  BY DEF RequestsRecent
<1>1. CASE p = r
  <2>1. request'[p] = q
    BY <1>1 DEF TypeOK
  <2> QED
    BY <2>1
<1>2. CASE p # r
  <2>1. request'[p] = request[p]
    BY <1>2 DEF TypeOK
  <2> QED
    BY <2>1 DEF RequestsRecent
<1> QED
  BY <1>1, <1>2

\* A row grows older as time passes, in both its counts
LEMMA AgedRowSoon ==
  ASSUME NEW limit \in Nat, NEW row \in Row(limit + 1),
         row.stored /\ row.since <= limit => row.data.age <= row.since + MaxLag,
         AgedRow(row, limit + 1).stored, AgedRow(row, limit + 1).since <= limit
  PROVE  AgedRow(row, limit + 1).data.age <= AgedRow(row, limit + 1).since + MaxLag
<1>1. /\ row.stored /\ AgedRow(row, limit + 1).data = AgedData(row.data)
      /\ AgedRow(row, limit + 1).since = Aged(row.since, limit + 1)
  BY AgedRowType
<1>2. row.since \in 0..limit + 1 /\ row.data \in Data /\ row.data.age \in Nat
      /\ AgedData(row.data).age \in Nat
  BY AgedDataType, CapsAreNat DEF Row, Data
<1>3. AgedData(row.data).age <= row.data.age + 1
  BY <1>2, AgedDataType
<1>4. Aged(row.since, limit + 1) = row.since + 1 /\ row.since <= limit
  BY <1>1, <1>2 DEF Aged
<1> QED
  BY <1>1, <1>2, <1>3, <1>4, CapsAreNat

LEMMA StepSoon == Typed /\ Soon /\ [Next]_vars => Soon'
<1> SUFFICES ASSUME Typed, Soon, [Next]_vars PROVE Soon'
  OBVIOUS
<1>t. TypeOK /\ HoldsAMatch /\ SnapshotSoon /\ OverlaySoon /\ RefreshSoon /\ RequestsRecent
  BY DEF Typed, Soon
<1>h. ASSUME NEW a \in Actor, Holds(a)
      PROVE  refresh[a].data \in Data /\ refresh[a].data.age \in Nat /\ refresh[a].data.age <= MaxLag
  BY <1>h, <1>t, CapsAreNat DEF TypeOK, Refresh, RefreshSoon, Data
<1>a. ASSUME NEW a \in Actor, Answer(a) PROVE Soon'
  <2>1. PICK d \in Answers : Answered(a, d)
    BY <1>a DEF Answer
  <2>2. /\ refresh'[a] = [at |-> "overlay", data |-> d]
        /\ \A b \in Actor \ {a} : refresh'[b] = refresh[b]
    BY <2>1, <1>t, HoldingType, AnswersType DEF Answered, RefreshStep
  <2>3. RefreshSoon'
    BY <2>2, <1>t, AnswersType DEF RefreshSoon, Holds
  <2> QED
    BY <2>1, <2>3, <1>t DEF Answered, Soon, SnapshotSoon, OverlaySoon, RequestsRecent
<1>o. ASSUME NEW a \in Actor, PutOverlay(a) PROVE Soon'
  <2>1. OverlaySoon'
    BY <1>o, <1>h, RowOfType, NoRowType, CapsAreNat DEF PutOverlay, OverlaySoon, Holds
  <2>2. UNCHANGED snapshot /\ refresh[a].data \in Data
    BY <1>o, <1>t DEF PutOverlay, TypeOK, Refresh
  <2>3. CASE Over(a, FALSE)
    <3>1. /\ refresh'[a] = NoRefresh /\ \A b \in Actor \ {a} : refresh'[b] = refresh[b]
          /\ \A r \in Reader : request'[r] = request[r] \/ request'[r] = Idle
      BY <2>3, <1>t, OverType
    <3>2. RefreshSoon' /\ RequestsRecent'
      BY <3>1, <1>t, NoRefreshType, IdleRecent DEF RefreshSoon, RequestsRecent, Holds
    <3> QED
      BY <3>2, <2>1, <2>2, <1>t DEF Soon, SnapshotSoon
  <2>4. CASE Holding(a, "snapshot", refresh[a].data) /\ UNCHANGED request
    <3>1. /\ refresh'[a] = [at |-> "snapshot", data |-> refresh[a].data]
          /\ \A b \in Actor \ {a} : refresh'[b] = refresh[b]
      BY <2>2, <2>4, <1>t, HoldingType DEF RefreshStep
    <3>2. RefreshSoon'
      BY <3>1, <1>o, <1>h, <1>t DEF RefreshSoon, Holds, PutOverlay
    <3> QED
      BY <3>2, <2>1, <2>2, <2>4, <1>t DEF Soon, SnapshotSoon, RequestsRecent
  <2> QED
    BY <2>3, <2>4, <1>o DEF PutOverlay
<1>s. ASSUME NEW a \in Actor, PutSnapshot(a) PROVE Soon'
  <2>1. SnapshotSoon'
    BY <1>s, <1>h, RowOfType, CapsAreNat DEF PutSnapshot, SnapshotSoon, Holds
  <2>2. UNCHANGED overlay /\ refresh[a].data \in Data /\ refresh[a].data.age \in Nat
        /\ refresh[a].data.age <= MaxLag
    BY <1>s, <1>h DEF PutSnapshot, Holds
  <2>3. CASE Over(a, TRUE)
    <3>1. /\ refresh'[a] = NoRefresh /\ \A b \in Actor \ {a} : refresh'[b] = refresh[b]
          /\ \A r \in Reader : \/ request'[r] = request[r] \/ request'[r] = Idle
                               \/ request'[r] = Reading("overlay", "miss", refresh[a].data)
      BY <2>3, <1>t, OverType
    <3>2. Recent(Reading("overlay", "miss", refresh[a].data))
      BY <2>2, CapsAreNat, ReadingType DEF Recent, RequestStep, Label
    <3>3. RefreshSoon' /\ RequestsRecent'
      BY <3>1, <3>2, <1>t, NoRefreshType, IdleRecent DEF RefreshSoon, RequestsRecent, Holds
    <3> QED
      BY <3>3, <2>1, <2>2, <1>t DEF Soon, OverlaySoon
  <2>4. CASE Holding(a, "overlay", refresh[a].data) /\ UNCHANGED request
    <3>1. /\ refresh'[a] = [at |-> "overlay", data |-> refresh[a].data]
          /\ \A b \in Actor \ {a} : refresh'[b] = refresh[b]
      BY <2>2, <2>4, <1>t, HoldingType DEF RefreshStep
    <3>2. RefreshSoon'
      BY <3>1, <2>2, <1>t DEF RefreshSoon, Holds
    <3> QED
      BY <3>2, <2>1, <2>2, <2>4, <1>t DEF Soon, OverlaySoon, RequestsRecent
  <2> QED
    BY <2>3, <2>4, <1>s DEF PutSnapshot
<1>f. ASSUME NEW a \in Actor, Fails(a) PROVE Soon'
  <2>1. /\ refresh'[a] = NoRefresh /\ \A b \in Actor \ {a} : refresh'[b] = refresh[b]
        /\ \A r \in Reader : request'[r] = request[r] \/ request'[r] = Idle
    BY <1>f, <1>t, OverType DEF Fails, Settles
  <2>2. RefreshSoon' /\ RequestsRecent'
    BY <2>1, <1>t, NoRefreshType, IdleRecent DEF RefreshSoon, RequestsRecent, Holds
  <2> QED
    BY <1>f, <2>2, <1>t DEF Fails, Soon, SnapshotSoon, OverlaySoon
<1>k. ASSUME NEW a \in Worker, Take(a) PROVE Soon'
  <2>0. a \in Actor
    BY DEF Actor
  <2>1. PICK d \in Answers, at \in {"snapshot", "overlay"} : Holding(a, at, d)
    BY <1>k DEF Take
  <2>2. /\ refresh'[a] = [at |-> at, data |-> d]
        /\ \A b \in Actor \ {a} : refresh'[b] = refresh[b]
    BY <2>0, <2>1, <1>t, HoldingType, AnswersType DEF RefreshStep
  <2>3. RefreshSoon'
    BY <2>2, <1>t, AnswersType DEF RefreshSoon, Holds
  <2> QED
    BY <1>k, <2>3, <1>t DEF Take, Soon, SnapshotSoon, OverlaySoon, RequestsRecent
<1>g. ASSUME NEW r \in Reader, Get(r) PROVE Soon'
  <2>0. r \in Actor /\ snapshot.data \in Data /\ Nothing \in Data /\ snapshot.since \in Nat
        /\ snapshot.data.age \in Nat
    BY <1>t, CapsAreNat DEF Actor, TypeOK, Row, Nothing, Data
  <2>1. RefreshSoon'
    BY <1>g, <2>0, <1>t DEF Get, TypeOK, RefreshSoon, Holds
  <2>2. ASSUME snapshot.stored, IsFresh(snapshot, Fresh),
               request' = [request EXCEPT ![r] = Reading("overlay", "fresh", snapshot.data)]
        PROVE  RequestsRecent'
    <3>1. snapshot.data.age <= Fresh + MaxLag
      BY <2>0, <2>2, <1>t, TickAssumption, CapsAreNat DEF IsFresh, SnapshotSoon
    <3>2. Recent(Reading("overlay", "fresh", snapshot.data))
      BY <3>1, <2>0, CapsAreNat, TickAssumption, ReadingType DEF Recent, RequestStep, Label
    <3> QED
      BY <2>2, <3>2, <1>t, OneRequest
  <2>3. ASSUME request' = [request EXCEPT ![r] = Reading("stale", "stale", snapshot.data)]
        PROVE  RequestsRecent'
    <3>1. Recent(Reading("stale", "stale", snapshot.data))
      BY <2>0, ReadingType DEF Recent, RequestStep, Label
    <3> QED
      BY <2>3, <3>1, <1>t, OneRequest
  <2>4. ASSUME request' = [request EXCEPT ![r] = Reading("fetch", "miss", Nothing)]
        PROVE  RequestsRecent'
    <3>1. Recent(Reading("fetch", "miss", Nothing))
      BY <2>0, ReadingType DEF Recent, RequestStep, Label
    <3> QED
      BY <2>4, <3>1, <1>t, OneRequest
  <2>5. \/ snapshot.stored /\ request' = [request EXCEPT ![r] =
             IF IsFresh(snapshot, Fresh) THEN Reading("overlay", "fresh", snapshot.data)
             ELSE Reading("stale", "stale", snapshot.data)]
        \/ request' = [request EXCEPT ![r] = Reading("fetch", "miss", Nothing)]
    BY <1>g DEF Get
  <2>6. RequestsRecent'
    BY <2>2, <2>3, <2>4, <2>5
  <2> QED
    BY <1>g, <2>1, <2>6, <1>t DEF Get, Soon, SnapshotSoon, OverlaySoon
<1>e. ASSUME NEW r \in Reader, ServeStale(r) PROVE Soon'
  <2>1. request[r].read \in Data /\ Home[r] \in Actor
    BY <1>t, HomeAssumption DEF TypeOK, Request, Actor
  <2>2. Recent(Reading("overlay", "stale", request[r].read))
    BY <2>1, ReadingType DEF Recent, RequestStep, Label
  <2>3. RequestsRecent'
    BY <1>e, <2>2, <1>t, OneRequest DEF ServeStale
  <2>4. RefreshSoon'
    BY <1>e, <2>1, <1>t DEF ServeStale, TypeOK, RefreshSoon, Holds
  <2> QED
    BY <1>e, <2>3, <2>4, <1>t DEF ServeStale, Soon, SnapshotSoon, OverlaySoon
<1>y. ASSUME NEW r \in Reader, Reply(r) PROVE Soon'
  <2>1. RequestsRecent'
    BY <1>y, <1>t, IdleRecent DEF Reply, RequestsRecent, TypeOK
  <2> QED
    BY <1>y, <2>1, <1>t DEF Reply, Soon, SnapshotSoon, OverlaySoon, RefreshSoon, Holds
<1>r. ASSUME NEW p \in Process, Restart(p) PROVE Soon'
  <2>1. RequestsRecent' /\ RefreshSoon'
    BY <1>r, <1>t, IdleRecent, NoRefreshType DEF Restart, RequestsRecent, RefreshSoon, Holds
  <2> QED
    BY <1>r, <2>1, <1>t DEF Restart, Soon, SnapshotSoon, OverlaySoon
<1>d. ASSUME End PROVE Soon'
  BY <1>d, <1>t DEF End, Soon, SnapshotSoon, OverlaySoon, RefreshSoon, Holds, RequestsRecent
<1>c. ASSUME Collect PROVE Soon'
  BY <1>c, <1>t, NoRowType, CapsAreNat
  DEF Collect, Soon, SnapshotSoon, OverlaySoon, RefreshSoon, Holds, RequestsRecent
<1>w. ASSUME Tick PROVE Soon'
  <2>1. SnapshotSoon'
    <3>1. snapshot' = AgedRow(snapshot, Expire + 1) /\ snapshot \in Row(Expire + 1)
      BY <1>w, <1>t DEF Tick, TypeOK, SnapshotCap
    <3> QED
      BY <3>1, <1>t, AgedRowSoon, TickAssumption DEF SnapshotSoon
  <2>2. OverlaySoon'
    <3>1. overlay' = AgedRow(overlay, OverlayExpire + 1) /\ overlay \in Row(OverlayExpire + 1)
      BY <1>w, <1>t DEF Tick, TypeOK, OverlayCap
    <3> QED
      BY <3>1, <1>t, AgedRowSoon, TickAssumption DEF OverlaySoon
  <2>3. ASSUME NEW a \in Actor, Holds(a)' PROVE refresh'[a].data.age <= MaxLag
    <3>1. Holds(a) /\ refresh'[a].data = AgedData(refresh[a].data)
      BY <1>w, <2>3 DEF Tick, Holds
    <3>2. refresh[a].data.age < MaxLag
      BY <1>w, <3>1 DEF Tick
    <3> QED
      BY <3>1, <3>2, <1>h, AgedDataType, CapsAreNat DEF Data
  <2>4. ASSUME NEW r \in Reader PROVE Recent(request'[r])
    <3>1. CASE Waits(r)
      <4>1. request'[r] = [at |-> request[r].at, label |-> request[r].label,
                           read |-> AgedData(request[r].read), held |-> request[r].held + 1]
        BY <1>w, <3>1 DEF Tick
      <4>2. /\ request[r].read \in Data /\ request[r].held \in Nat /\ request[r].read.age \in Nat
            /\ AgedData(request[r].read).age \in Nat
            /\ AgedData(request[r].read).age <= request[r].read.age + 1
        BY <1>t, AgedDataType, CapsAreNat, TickAssumption DEF TypeOK, Request, Data
      <4>3. Recent(request[r])
        BY <1>t DEF RequestsRecent
      <4> QED
        BY <4>1, <4>2, <4>3, CapsAreNat, TickAssumption DEF Recent
    <3>2. CASE ~Waits(r)
      BY <1>w, <1>t, <3>2 DEF Tick, RequestsRecent
    <3> QED
      BY <3>1, <3>2
  <2> QED
    BY <2>1, <2>2, <2>3, <2>4 DEF Soon, RefreshSoon, RequestsRecent
<1>u. CASE UNCHANGED vars
  BY <1>u, <1>t DEF vars, Soon, SnapshotSoon, OverlaySoon, RefreshSoon, Holds, RequestsRecent
<1> QED
  BY <1>a, <1>o, <1>s, <1>f, <1>k, <1>g, <1>e, <1>y, <1>r, <1>d, <1>c, <1>w, <1>u
  DEF Next, Steps, Serve

LEMMA SoonIsKept == Spec => [](Typed /\ Soon)
<1>1. Init => Typed /\ Soon
  BY InitTyped, InitSoon
<1>2. (Typed /\ Soon) /\ [Next]_vars => (Typed /\ Soon)'
  BY StepTyped, StepSoon
<1> QED
  BY <1>1, <1>2, PTL DEF Spec

\* An overlay that is applied is as recent as it must be
LEMMA AppliedIsRecent ==
  ASSUME Typed, Soon, OverlayApplies
  PROVE  overlay.data.age \in Nat /\ overlay.data.age <= OverlayFresh + MaxLag
<1>1. overlay.data.age \in Nat /\ overlay.since \in Nat
  BY CapsAreNat DEF Typed, TypeOK, Row, Data
<1> QED
  BY <1>1, CapsAreNat, TickAssumption DEF OverlayApplies, IsFresh, Soon, OverlaySoon

\* A reply said to be fresh is as recent as its label promises, whoever stored what it
\* holds, and whatever overlay was laid over it.
THEOREM FreshRepliesAreRecent == Spec => []FreshIsRecent
<1>1. ASSUME Typed, Soon, NEW r \in Reader, request[r].at = "overlay", request[r].label # "stale"
      PROVE  Shown(r).age <= MaxLag + IF request[r].label = "fresh" THEN Fresh + Slow
                                      ELSE IF Slow > OverlayFresh THEN Slow ELSE OverlayFresh
  <2>1. /\ request[r].label \in {"fresh", "miss"} /\ request[r].held \in Nat
        /\ request[r].held <= Slow /\ request[r].read.age \in Nat
    BY <1>1, TickAssumption, CapsAreNat DEF Typed, TypeOK, Request, Label, Data
  <2>2. Recent(request[r])
    BY <1>1 DEF Soon, RequestsRecent
  <2>3. CASE OverlayApplies
    BY <2>1, <2>3, <1>1, AppliedIsRecent, TickAssumption, CapsAreNat DEF Shown
  <2>4. CASE ~OverlayApplies
    BY <2>1, <2>2, <2>4, <1>1, TickAssumption, CapsAreNat DEF Shown, Recent
  <2> QED
    BY <2>3, <2>4
<1>2. Typed /\ Soon => FreshIsRecent
  BY <1>1 DEF FreshIsRecent
<1> QED
  BY <1>2, SoonIsKept, PTL

\* An overlay laid over a payload that shows the match as over is as recent as an overlay
\* must be, although it is older than the payload.
THEOREM OverlaysAreRecent == Spec => []OverlayIsRecent
<1>1. ASSUME Typed, Soon, NEW r \in Reader, request[r].read.shows = "over", Shown(r).shows = "live"
      PROVE  Shown(r).age <= OverlayFresh + MaxLag
  BY <1>1, AppliedIsRecent DEF Shown
<1>2. Typed /\ Soon => OverlayIsRecent
  BY <1>1 DEF OverlayIsRecent
<1> QED
  BY <1>2, SoonIsKept, PTL
=============================================================================
