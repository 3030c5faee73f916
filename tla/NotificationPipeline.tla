------------------------- MODULE NotificationPipeline -------------------------
(***************************************************************************)
(* The life of one notification event in the FootAlert backend, from its   *)
(* ingestion over HTTP to the pushes handed to Firebase:                   *)
(*                                                                         *)
(*   - the API process inserts the event and enqueues one dispatch job;    *)
(*   - the worker's dispatch handler resolves the recipients, creates one  *)
(*     delivery row per device (the first FanoutMax pending, the others    *)
(*     deferred), and enqueues send jobs and a promotion job;              *)
(*   - the send handler pushes the pending rows its job names;             *)
(*   - the promotion handler turns deferred rows into pending ones, a      *)
(*     batch at a time, and requeues itself;                               *)
(*   - every handler ends by recomputing the status of the event.          *)
(*                                                                         *)
(* Each await of a handler is a step of its own, so that the handlers      *)
(* interleave with each other, with the HTTP routes, with failures of the  *)
(* database or of Redis, and with crashes of the worker. Other events only *)
(* meet this one through the status of the devices, which the environment  *)
(* changes here. The store is the PostgreSQL one: each of its statements   *)
(* is atomic.                                                              *)
(*                                                                         *)
(* A definition marked "slip" is not part of the model. It is the          *)
(* definition after it with one plausible programming error, which the     *)
(* properties are shown to reject.                                         *)
(***************************************************************************)
EXTENDS Integers, FiniteSets

CONSTANTS
  Device,         \* rows of push_devices, numbered in the order of their ids
  Phone,          \* the (authSubject, deviceId) pairs that own the rows
  Owner,          \* Owner[d] is the phone that owns row d
  Request,        \* calls of POST /v1/notifications/events with this event
  Job,            \* BullMQ job slots, numbered in the order they are used
  FanoutMax,      \* NOTIFICATIONS_FANOUT_MAX_PER_EVENT
  PromotionBatch, \* NOTIFICATIONS_DEFERRED_PROMOTION_BATCH
  PageSize,       \* rows per page and per send job (500 in the code)
  Concurrency,    \* jobs of each kind that run at once (5, 10 and 2 in the code)
  Attempts,       \* BullMQ attempts of a job (5 in the code)
  Answers,        \* bound: the answers of the provider that are considered
  RowTime,        \* how the driver returns a timestamp: "text" or "date"
  MaxFaults,      \* bound: calls that throw, pushes that time out, worker crashes
  MaxTransients,  \* bound: transient answers of the provider
  MaxChurn        \* bound: calls that change devices or subscriptions

ASSUME DeviceAssumption == Device \subseteq Nat \ {0} /\ IsFiniteSet(Device)
ASSUME OwnerAssumption == Owner \in [Device -> Phone]
ASSUME JobAssumption == Job \subseteq Nat
ASSUME BoundAssumption ==
  /\ Attempts \in Nat \ {0}
  /\ {FanoutMax, PromotionBatch, PageSize} \subseteq Nat \ {0}
  /\ Concurrency \in [{"dispatch", "send", "promote"} -> Nat \ {0}]
  /\ {MaxFaults, MaxTransients, MaxChurn} \subseteq Nat
  /\ Answers \subseteq {"ok", "invalid", "transient", "timeout", "fatal"}
  /\ RowTime \in {"text", "date"}

VARIABLES
  device,      \* push_devices.status of each row
  subscribed,  \* the row has an enabled subscription this event matches
  reactivated, \* rows that came back to active after being revoked or invalid
  delivery,    \* notification_deliveries.status of each row's delivery
  event,       \* notification_events.status
  request,     \* how far each ingest call has got
  kind,        \* what each job is
  step,        \* where each job is: in its queue, or at a step of its handler
  made,        \* attemptsMade of each job
  ids,         \* the deliveryIds of each send job
  frame,       \* the local variables of the handler that runs each job
  notices,     \* 'failed' listeners still running
  dlq,         \* entries each job has in notifications.dlq
  pushes,      \* messages the provider delivered to each device
  faults, crashes, transients, churn   \* what has happened so far

deviceVars == <<device, subscribed, reactivated>>
rowVars == <<delivery, event>>
jobVars == <<kind, step, made, ids, frame>>
dlqVars == <<notices, dlq>>
envVars == <<faults, crashes, transients, churn>>
vars == <<deviceVars, rowVars, request, jobVars, dlqVars, pushes, envVars>>

-----------------------------------------------------------------------------
(* Values *)

DeviceStatus == {"absent", "active", "revoked", "invalid", "erased"}
DeliveryStatus ==
  {"none", "pending", "deferred", "sent", "failed", "invalid_token", "opened"}
EventStatus == {"none", "received", "queued", "processed", "failed"}
RequestStep == {"idle", "enqueue", "markQueued", "accepted", "rejected"}
JobKind == {"none", "dispatch", "send", "promote"}
QueueStep == {"unused", "waiting", "done", "dead"}
HandlerStep ==
  {"createPending", "createDeferred", "listPage", "addSend", "addPromotion",
   "multicast", "mark", "invalidate", "rethrow",
   "sendPromoted", "countDeferred", "requeue",
   "readPending", "readDeferred", "writeStatus"}

\* What the provider answers for one token. "timeout" is a transient code whose
\* message did reach the device.
Outcome == {"unsent", "ok", "invalid", "transient", "timeout", "fatal"}

\* The locals of a handler: two sets of rows, the page cursor, one Boolean, and
\* the provider's answers.
Frame == [work: SUBSET Device, rest: SUBSET Device, cursor: Nat,
          flag: BOOLEAN, result: [Device -> Outcome]]
NoAnswers == [d \in Device |-> "unsent"]
EmptyFrame == [work |-> {}, rest |-> {}, cursor |-> 0,
               flag |-> FALSE, result |-> NoAnswers]

Notice == [job: Job, attempt: Nat, at: {"mark", "dlq"}]

Running(j) == step[j] \in HandlerStep

\* A worker of BullMQ takes no more than its number of concurrent jobs
SlotFree(j) ==
  Cardinality({i \in Job : kind[i] = kind[j] /\ Running(i)}) < Concurrency[kind[j]]

Live(j) == step[j] = "waiting" \/ Running(j)

-----------------------------------------------------------------------------
(* Queries of the store *)

\* slip: recipients that already have a delivery are left out
EligibleWithoutDelivery ==
  {d \in Device : device[d] = "active" /\ subscribed[d] /\ delivery[d] = "none"}

\* findEligibleDevicesForEvent
Eligible == {d \in Device : device[d] = "active" /\ subscribed[d]}

\* Pending deliveries joined with their active device
PendingRows == {d \in Device : delivery[d] = "pending" /\ device[d] = "active"}

\* countDeferredDeliveries does not look at the device
DeferredRows == {d \in Device : delivery[d] = "deferred"}

\* ORDER BY ... LIMIT n
FirstOf(S, n) == {d \in S : Cardinality({e \in S : e < d}) < n}

-----------------------------------------------------------------------------
(* The queue. BullMQ is external: a job waits, runs, and is retried until    *)
(* its attempts are used up. Backoff and delays only say when a waiting job  *)
(* may start, and are not modelled. A worker takes a waiting job with the    *)
(* first call of its handler.                                                *)

\* The next unused job slot
Fresh(j) == step[j] = "unused" /\ \A i \in Job : step[i] = "unused" => j <= i

\* Job j goes to step s and adds job k
AddJob(j, s, k, what, rows) ==
  /\ Fresh(k)
  /\ kind' = [kind EXCEPT ![k] = what]
  /\ ids' = [ids EXCEPT ![k] = rows]
  /\ step' = [step EXCEPT ![j] = s, ![k] = "waiting"]
  /\ UNCHANGED made

\* Job j goes to step s of its handler with frame f
Goto(j, s, f) ==
  /\ step' = [step EXCEPT ![j] = s]
  /\ frame' = [frame EXCEPT ![j] = f]
  /\ UNCHANGED <<kind, made, ids>>

\* slip: the last attempt of a send job is taken for one more to come
NoticesLate(j, n) ==
  IF kind[j] = "send" /\ n <= Attempts THEN {}
  ELSE {[job |-> j, attempt |-> n, at |-> IF kind[j] = "dispatch" THEN "mark" ELSE "dlq"]}

\* What the 'failed' listener has to do for the n-th failed attempt of j:
\* handleSendFailed does nothing before the last one, handleDispatchFailed first
\* marks the event
NoticesOf(j, n) ==
  IF kind[j] = "send" /\ n < Attempts THEN {}
  ELSE {[job |-> j, attempt |-> n, at |-> IF kind[j] = "dispatch" THEN "mark" ELSE "dlq"]}

\* The handler of job j throws: the attempt is spent, and the worker emits 'failed'
Throw(j) ==
  LET n == made[j] + 1
  IN  /\ step' = [step EXCEPT ![j] = IF n < Attempts THEN "waiting" ELSE "dead"]
      /\ made' = [made EXCEPT ![j] = n]
      /\ frame' = [frame EXCEPT ![j] = EmptyFrame]
      /\ notices' = notices \union NoticesOf(j, n)
      /\ UNCHANGED <<kind, ids, dlq>>

-----------------------------------------------------------------------------
(* POST /v1/notifications/events *)

\* insertEventIfAbsent: the first call creates the event, the others are duplicates
\* and are accepted at once
IngestInsert(r) ==
  /\ request[r] = "idle"
  /\ IF event = "none"
     THEN /\ event' = "received"
          /\ request' = [request EXCEPT ![r] = "enqueue"]
     ELSE /\ request' = [request EXCEPT ![r] = "accepted"]
          /\ UNCHANGED event
  /\ UNCHANGED <<deviceVars, delivery, jobVars, dlqVars, pushes, envVars>>

\* enqueueDispatch
IngestEnqueue(r) ==
  /\ request[r] = "enqueue"
  /\ request' = [request EXCEPT ![r] = "markQueued"]
  /\ \E k \in Job :
       /\ Fresh(k)
       /\ kind' = [kind EXCEPT ![k] = "dispatch"]
       /\ step' = [step EXCEPT ![k] = "waiting"]
  /\ UNCHANGED <<deviceVars, rowVars, made, ids, frame, dlqVars, pushes, envVars>>

\* The route marks the event queued after the job is already in the queue
IngestMarkQueued(r) ==
  /\ request[r] = "markQueued"
  /\ event' = "queued"
  /\ request' = [request EXCEPT ![r] = "accepted"]
  /\ UNCHANGED <<deviceVars, delivery, jobVars, dlqVars, pushes, envVars>>

\* Redis or the database fails: the caller gets an error
IngestFails(r) ==
  /\ request[r] \in {"enqueue", "markQueued"}
  /\ faults + crashes < MaxFaults
  /\ faults' = faults + 1
  /\ request' = [request EXCEPT ![r] = "rejected"]
  /\ UNCHANGED <<deviceVars, rowVars, jobVars, dlqVars, pushes, crashes, transients, churn>>

-----------------------------------------------------------------------------
(* handleDispatchJob *)

\* slip: the cap is forgotten
UncappedCount == Cardinality(Eligible)

\* splitImmediateAndDeferred: how many recipients are immediate
ImmediateCount ==
  IF Cardinality(Eligible) < FanoutMax THEN Cardinality(Eligible) ELSE FanoutMax

\* findEligibleDevicesForEvent, then sortRecipientsForFanout and
\* splitImmediateAndDeferred: which rows were seen last, and so come first, is not
\* modelled. The sort calls localeCompare on lastSeenAt, which only a text has.
DispatchResolve(j) ==
  /\ step[j] = "waiting" /\ kind[j] = "dispatch" /\ SlotFree(j)
  /\ IF RowTime = "date" /\ Cardinality(Eligible) > 1
     THEN Throw(j)
     ELSE /\ \E immediate \in SUBSET Eligible :
               /\ Cardinality(immediate) = ImmediateCount
               /\ Goto(j, "createPending",
                       [frame[j] EXCEPT !.work = immediate, !.rest = Eligible \ immediate])
          /\ UNCHANGED dlqVars
  /\ UNCHANGED <<deviceVars, rowVars, request, pushes, envVars>>

\* createDeliveries: ON CONFLICT DO NOTHING. The foreign key refuses the whole
\* statement when a device was erased meanwhile.
CreateDeliveries(j, rows, status, next) ==
  IF \E d \in rows : device[d] = "erased"
  THEN Throw(j) /\ UNCHANGED delivery
  ELSE /\ delivery' = [d \in Device |-> IF d \in rows /\ delivery[d] = "none"
                                        THEN status ELSE delivery[d]]
       /\ step' = [step EXCEPT ![j] = next]
       /\ UNCHANGED <<kind, made, ids, frame, dlqVars>>

DispatchCreatePending(j) ==
  /\ step[j] = "createPending"
  /\ CreateDeliveries(j, frame[j].work, "pending", "createDeferred")
  /\ UNCHANGED <<deviceVars, event, request, pushes, envVars>>

\* With no immediate recipient the handler enqueues no send job
DispatchCreateDeferred(j) ==
  /\ step[j] = "createDeferred"
  /\ CreateDeliveries(j, frame[j].rest, "deferred",
       IF frame[j].work # {} THEN "listPage"
       ELSE IF frame[j].rest # {} THEN "addPromotion" ELSE "readPending")
  /\ UNCHANGED <<deviceVars, event, request, pushes, envVars>>

\* What follows the last page of pending rows
AfterPages(j) == IF frame[j].rest # {} THEN "addPromotion" ELSE "readPending"

\* slip: the cursor is not used
PendingFromStart(j) == PendingRows

\* slip: the row after the cursor is skipped
PendingPastNext(j) == {d \in PendingRows : d > frame[j].cursor + 1}

\* The rows after the keyset cursor (created_at, id)
PendingAfterCursor(j) == {d \in PendingRows : d > frame[j].cursor}

\* enqueuePendingSendJobsForEvent reads one page of the event's pending rows...
DispatchListPage(j) ==
  LET after == PendingAfterCursor(j)
      page == FirstOf(after, PageSize)
  IN  /\ step[j] = "listPage"
      /\ Goto(j, IF page = {} THEN AfterPages(j) ELSE "addSend",
              [frame[j] EXCEPT !.work = page, !.flag = (after # page)])
      /\ UNCHANGED <<deviceVars, rowVars, request, dlqVars, pushes, envVars>>

\* ... and enqueues a send job for it, then goes on with the next page
DispatchAddSend(j) ==
  /\ step[j] = "addSend"
  /\ \E k \in Job, last \in frame[j].work :
       /\ \A d \in frame[j].work : d <= last
       /\ AddJob(j, IF frame[j].flag THEN "listPage" ELSE AfterPages(j),
                 k, "send", frame[j].work)
       /\ frame' = [frame EXCEPT ![j] = [@ EXCEPT !.work = {}, !.cursor = last]]
  /\ UNCHANGED <<deviceVars, rowVars, request, dlqVars, pushes, envVars>>

DispatchAddPromotion(j) ==
  /\ step[j] = "addPromotion"
  /\ \E k \in Job : AddJob(j, "readPending", k, "promote", {})
  /\ frame' = [frame EXCEPT ![j] = EmptyFrame]
  /\ UNCHANGED <<deviceVars, rowVars, request, dlqVars, pushes, envVars>>

-----------------------------------------------------------------------------
(* The send handler *)

\* listPendingDeliveries, restricted to the deliveryIds of the job
SendListPending(j) ==
  LET selected == ids[j] \intersect PendingRows
  IN  /\ step[j] = "waiting" /\ kind[j] = "send" /\ SlotFree(j)
      /\ Goto(j, IF selected = {} THEN "readPending" ELSE "multicast",
              [frame[j] EXCEPT !.work = selected])
      /\ UNCHANGED <<deviceVars, rowVars, request, dlqVars, pushes, envVars>>

\* The devices an answer says or hides were reached
Reached(result) == {d \in Device : result[d] \in {"ok", "timeout"}}

\* sendMulticast: the provider answers for each token
SendMulticast(j) ==
  /\ step[j] = "multicast"
  /\ \E answers \in [frame[j].work -> Answers] :
     LET result == [d \in Device |-> IF d \in frame[j].work THEN answers[d] ELSE "unsent"] IN
       /\ transients' =
            transients + Cardinality({d \in Device : result[d] \in {"transient", "timeout"}})
       /\ faults' = faults + Cardinality({d \in Device : result[d] = "timeout"})
       /\ transients' <= MaxTransients /\ faults' + crashes <= MaxFaults
       /\ pushes' = [d \in Device |-> IF d \in Reached(result)
                                      THEN pushes[d] + 1 ELSE pushes[d]]
       /\ Goto(j, "mark", [frame[j] EXCEPT !.result = result])
  /\ UNCHANGED <<deviceVars, rowVars, request, dlqVars, crashes, churn>>

\* slip: a status the table does not have
StatusRetrying(outcome) ==
  CASE outcome = "ok" -> "sent"
    [] outcome = "invalid" -> "invalid_token"
    [] outcome \in {"transient", "timeout"} -> "retrying"
    [] outcome = "fatal" -> "failed"

\* slip: the success flag of the answer is not looked at
StatusSent(outcome) == "sent"

\* The status an answer gives to its delivery
StatusFor(outcome) ==
  CASE outcome = "ok" -> "sent"
    [] outcome = "invalid" -> "invalid_token"
    [] outcome \in {"transient", "timeout"} -> "pending"
    [] outcome = "fatal" -> "failed"

\* slip: the handler does not throw after a transient answer
NextMarkNoThrow(todo, retry) == IF todo # {} THEN "mark" ELSE "readPending"

\* Where the handler goes when the rows in todo are left to mark
NextMark(todo, retry) ==
  IF todo # {} THEN "mark" ELSE IF retry THEN "rethrow" ELSE "readPending"

\* markDeliveryStatus for the next answer, whatever the row's status has become;
\* a row erased meanwhile stays absent
SendMark(j) ==
  /\ step[j] = "mark"
  /\ \E d \in FirstOf(frame[j].work, 1) :
       LET outcome == frame[j].result[d]
           todo == frame[j].work \ {d}
           retry == frame[j].flag \/ outcome \in {"transient", "timeout"}
       IN  /\ delivery' = [delivery EXCEPT ![d] =
                             IF @ = "none" THEN "none" ELSE StatusFor(outcome)]
           /\ Goto(j, IF outcome = "invalid" THEN "invalidate" ELSE NextMark(todo, retry),
                   [frame[j] EXCEPT !.work = todo, !.flag = retry, !.cursor = d])
  /\ UNCHANGED <<deviceVars, event, request, dlqVars, pushes, envVars>>

\* markDeviceInvalid for the row just marked
SendInvalidate(j) ==
  /\ step[j] = "invalidate"
  /\ device' = [device EXCEPT ![frame[j].cursor] = IF @ = "erased" THEN @ ELSE "invalid"]
  /\ Goto(j, NextMark(frame[j].work, frame[j].flag), frame[j])
  /\ UNCHANGED <<subscribed, reactivated, rowVars, request, dlqVars, pushes, envVars>>

\* A transient answer makes the handler throw, after every row is marked
SendRethrow(j) ==
  /\ step[j] = "rethrow"
  /\ Throw(j)
  /\ UNCHANGED <<deviceVars, rowVars, request, pushes, envVars>>
-----------------------------------------------------------------------------
(* handleDeferredPromotionJob *)

\* slip: the statement returns the rows that are still deferred
PromoteReturnsRest(j) ==
  LET moved == FirstOf(DeferredRows, PromotionBatch)
  IN  /\ step[j] = "waiting" /\ kind[j] = "promote" /\ SlotFree(j)
      /\ delivery' = [d \in Device |-> IF d \in moved THEN "pending" ELSE delivery[d]]
      /\ Goto(j, IF moved = {} THEN "countDeferred" ELSE "sendPromoted",
              [frame[j] EXCEPT !.work = DeferredRows \ moved])
      /\ UNCHANGED <<deviceVars, event, request, dlqVars, pushes, envVars>>

\* slip: the send job gets every pending row, not only the promoted ones
PromoteSendsPending(j) ==
  LET moved == FirstOf(DeferredRows, PromotionBatch)
  IN  /\ step[j] = "waiting" /\ kind[j] = "promote" /\ SlotFree(j)
      /\ delivery' = [d \in Device |-> IF d \in moved THEN "pending" ELSE delivery[d]]
      /\ Goto(j, IF moved = {} THEN "countDeferred" ELSE "sendPromoted",
              [frame[j] EXCEPT !.work = moved \union PendingRows])
      /\ UNCHANGED <<deviceVars, event, request, dlqVars, pushes, envVars>>

\* promoteDeferredDeliveries: one statement
PromoteDeferred(j) ==
  LET moved == FirstOf(DeferredRows, PromotionBatch)
  IN  /\ step[j] = "waiting" /\ kind[j] = "promote" /\ SlotFree(j)
      /\ delivery' = [d \in Device |-> IF d \in moved THEN "pending" ELSE delivery[d]]
      /\ Goto(j, IF moved = {} THEN "countDeferred" ELSE "sendPromoted",
              [frame[j] EXCEPT !.work = moved])
      /\ UNCHANGED <<deviceVars, event, request, dlqVars, pushes, envVars>>

PromoteAddSend(j) ==
  /\ step[j] = "sendPromoted"
  /\ \E k \in Job : AddJob(j, "countDeferred", k, "send", frame[j].work)
  /\ frame' = [frame EXCEPT ![j] = EmptyFrame]
  /\ UNCHANGED <<deviceVars, rowVars, request, dlqVars, pushes, envVars>>

\* slip: the backlog left after this batch is forgotten
PromoteOnce(j) ==
  /\ step[j] = "countDeferred"
  /\ Goto(j, "readPending", frame[j])
  /\ UNCHANGED <<deviceVars, rowVars, request, dlqVars, pushes, envVars>>

PromoteCountDeferred(j) ==
  /\ step[j] = "countDeferred"
  /\ Goto(j, IF DeferredRows # {} THEN "requeue" ELSE "readPending", frame[j])
  /\ UNCHANGED <<deviceVars, rowVars, request, dlqVars, pushes, envVars>>

PromoteRequeue(j) ==
  /\ step[j] = "requeue"
  /\ \E k \in Job : AddJob(j, "readPending", k, "promote", {})
  /\ UNCHANGED <<deviceVars, rowVars, request, frame, dlqVars, pushes, envVars>>

-----------------------------------------------------------------------------
(* markEventStatusBasedOnBacklog, the end of every handler: two reads, then  *)
(* an unconditional write                                                    *)

\* slip: only the deferred rows count
BacklogSkipPending(j) ==
  /\ step[j] = "readPending"
  /\ Goto(j, "readDeferred", EmptyFrame)
  /\ UNCHANGED <<deviceVars, rowVars, request, dlqVars, pushes, envVars>>

BacklogReadPending(j) ==
  /\ step[j] = "readPending"
  /\ Goto(j, "readDeferred", [EmptyFrame EXCEPT !.flag = (PendingRows # {})])
  /\ UNCHANGED <<deviceVars, rowVars, request, dlqVars, pushes, envVars>>

BacklogReadDeferred(j) ==
  /\ step[j] = "readDeferred"
  /\ Goto(j, "writeStatus",
          [frame[j] EXCEPT !.flag = frame[j].flag \/ DeferredRows # {}])
  /\ UNCHANGED <<deviceVars, rowVars, request, dlqVars, pushes, envVars>>

\* The handler returns, and the job is removed
BacklogWriteStatus(j) ==
  /\ step[j] = "writeStatus"
  /\ event' = IF frame[j].flag THEN "queued" ELSE "processed"
  /\ step' = [step EXCEPT ![j] = "done"]
  /\ ids' = [ids EXCEPT ![j] = {}]
  /\ made' = [made EXCEPT ![j] = 0]
  /\ frame' = [frame EXCEPT ![j] = EmptyFrame]
  /\ UNCHANGED <<deviceVars, delivery, request, kind, dlqVars, pushes, envVars>>

-----------------------------------------------------------------------------
(* Failures *)

\* A call of a running handler to the database, to Redis or to the provider throws
HandlerFails(j) ==
  /\ Running(j) \/ (step[j] = "waiting" /\ SlotFree(j))
  /\ faults + crashes < MaxFaults
  /\ faults' = faults + 1
  /\ Throw(j)
  /\ UNCHANGED <<deviceVars, rowVars, request, pushes, crashes, transients, churn>>

\* The worker process stops: running handlers and listeners are lost, and BullMQ
\* gives the jobs to the next worker without spending an attempt
Crash ==
  /\ faults + crashes < MaxFaults
  /\ crashes' = crashes + 1
  /\ step' = [j \in Job |-> IF Running(j) THEN "waiting" ELSE step[j]]
  /\ frame' = [j \in Job |-> EmptyFrame]
  /\ notices' = {}
  /\ UNCHANGED <<deviceVars, rowVars, request, kind, made, ids, dlq, pushes,
                 faults, transients, churn>>

\* handleDispatchFailed marks the event failed, on any attempt
NoticeMark(n) ==
  /\ n \in notices /\ n.at = "mark"
  /\ event' = "failed"
  /\ notices' = (notices \ {n}) \union {[n EXCEPT !.at = "dlq"]}
  /\ UNCHANGED <<deviceVars, delivery, request, jobVars, dlq, pushes, envVars>>

\* The three failure handlers end by adding the job to the dead-letter queue
NoticeDlq(n) ==
  /\ n \in notices /\ n.at = "dlq"
  /\ dlq' = [dlq EXCEPT ![n.job] = @ + 1]
  /\ notices' = notices \ {n}
  /\ UNCHANGED <<deviceVars, rowVars, request, jobVars, pushes, envVars>>

-----------------------------------------------------------------------------
(* The mobile routes *)

Churn == churn < MaxChurn /\ churn' = churn + 1

\* POST /v1/notifications/tokens: upsert on the token, active again
RegisterDevice(d) ==
  /\ device[d] \in {"absent", "revoked", "invalid"}
  /\ Churn
  /\ device' = [device EXCEPT ![d] = "active"]
  /\ reactivated' = IF device[d] = "absent" THEN reactivated ELSE reactivated \union {d}
  /\ UNCHANGED <<subscribed, rowVars, request, jobVars, dlqVars, pushes,
                 faults, crashes, transients>>

\* DELETE /v1/notifications/tokens/:token
RevokeDevice(d) ==
  /\ device[d] \in {"active", "invalid"}
  /\ Churn
  /\ device' = [device EXCEPT ![d] = "revoked"]
  /\ UNCHANGED <<subscribed, reactivated, rowVars, request, jobVars, dlqVars, pushes,
                 faults, crashes, transients>>

\* POST /v1/notifications/subscriptions writes on an active row of the phone
UpsertSubscription(d) ==
  /\ device[d] = "active"
  /\ Churn
  /\ subscribed' = [subscribed EXCEPT ![d] = ~@]
  /\ UNCHANGED <<device, reactivated, rowVars, request, jobVars, dlqVars, pushes,
                 faults, crashes, transients>>

\* deleteByAuthSubject: the devices, and by cascade subscriptions and deliveries
DeleteByAuthSubject(p) ==
  LET gone == {d \in Device : Owner[d] = p /\ device[d] # "absent"}
  IN  /\ gone # {}
      /\ Churn
      /\ device' = [d \in Device |-> IF d \in gone THEN "erased" ELSE device[d]]
      /\ subscribed' = [d \in Device |-> d \notin gone /\ subscribed[d]]
      /\ delivery' = [d \in Device |-> IF d \in gone THEN "none" ELSE delivery[d]]
      /\ UNCHANGED <<reactivated, event, request, jobVars, dlqVars, pushes,
                     faults, crashes, transients>>

\* POST /v1/notifications/opened: the phone knows the event from a push it got; every
\* delivery of the phone becomes opened, whatever its status
MarkOpened(p) ==
  /\ \E d \in Device : Owner[d] = p /\ pushes[d] > 0
  /\ delivery' = [d \in Device |-> IF Owner[d] = p /\ delivery[d] # "none"
                                   THEN "opened" ELSE delivery[d]]
  /\ UNCHANGED <<deviceVars, event, request, jobVars, dlqVars, pushes, envVars>>

-----------------------------------------------------------------------------
(* Specification *)

Init ==
  /\ device \in [Device -> {"absent", "active"}]
  /\ subscribed = [d \in Device |-> device[d] = "active"]
  /\ reactivated = {}
  /\ delivery = [d \in Device |-> "none"]
  /\ event = "none"
  /\ request = [r \in Request |-> "idle"]
  /\ kind = [j \in Job |-> "none"]
  /\ step = [j \in Job |-> "unused"]
  /\ made = [j \in Job |-> 0]
  /\ ids = [j \in Job |-> {}]
  /\ frame = [j \in Job |-> EmptyFrame]
  /\ notices = {}
  /\ dlq = [j \in Job |-> 0]
  /\ pushes = [d \in Device |-> 0]
  /\ faults = 0 /\ crashes = 0 /\ transients = 0 /\ churn = 0

Ingest(r) == IngestInsert(r) \/ IngestEnqueue(r) \/ IngestMarkQueued(r)

HandleDispatch(j) ==
  \/ DispatchResolve(j) \/ DispatchCreatePending(j) \/ DispatchCreateDeferred(j)
  \/ DispatchListPage(j) \/ DispatchAddSend(j) \/ DispatchAddPromotion(j)

HandleSend(j) ==
  \/ SendListPending(j) \/ SendMulticast(j) \/ SendMark(j)
  \/ SendInvalidate(j) \/ SendRethrow(j)

HandlePromotion(j) ==
  \/ PromoteDeferred(j) \/ PromoteAddSend(j) \/ PromoteCountDeferred(j) \/ PromoteRequeue(j)

HandleBacklog(j) ==
  BacklogReadPending(j) \/ BacklogReadDeferred(j) \/ BacklogWriteStatus(j)

Work(j) ==
  HandleDispatch(j) \/ HandleSend(j) \/ HandlePromotion(j) \/ HandleBacklog(j)

HandleNotice == \E n \in notices : NoticeMark(n) \/ NoticeDlq(n)

Mobile ==
  \/ \E d \in Device : RegisterDevice(d) \/ RevokeDevice(d) \/ UpsertSubscription(d)
  \/ \E p \in Phone : DeleteByAuthSubject(p) \/ MarkOpened(p)

Failure == Crash \/ (\E r \in Request : IngestFails(r)) \/ (\E j \in Job : HandlerFails(j))

Next ==
  \/ \E r \in Request : Ingest(r)
  \/ \E j \in Job : Work(j)
  \/ HandleNotice
  \/ Mobile
  \/ Failure

\* The API process goes on with each call, and the worker with some job while one can
\* run; nothing makes a phone call, a call fail or a worker crash.
Fairness ==
  /\ \A r \in Request : WF_vars(Ingest(r))
  /\ WF_vars(\E j \in Job : Work(j))
  /\ WF_vars(HandleNotice)

Spec == Init /\ [][Next]_vars
FairSpec == Spec /\ Fairness

-----------------------------------------------------------------------------
(* Properties *)

\* The values the columns, the queue and the handlers can hold.
TypeOK ==
  /\ device \in [Device -> DeviceStatus]
  /\ subscribed \in [Device -> BOOLEAN]
  /\ reactivated \in SUBSET Device
  /\ delivery \in [Device -> DeliveryStatus]
  /\ event \in EventStatus
  /\ request \in [Request -> RequestStep]
  /\ kind \in [Job -> JobKind]
  /\ step \in [Job -> QueueStep \union HandlerStep]
  /\ made \in [Job -> 0..Attempts]
  /\ ids \in [Job -> SUBSET Device]
  /\ frame \in [Job -> Frame]
  /\ notices \in SUBSET Notice
  /\ dlq \in [Job -> Nat]
  /\ pushes \in [Device -> Nat]
  /\ {faults, crashes, transients, churn} \subseteq Nat

\* Nothing has failed so far, apart from answers of the provider
Undisturbed == faults = 0 /\ crashes = 0
NobodyErased == \A d \in Device : device[d] # "erased"

\* While no call fails and no worker crashes, a device gets the alert at most once,
\* however the dispatch, send and promotion jobs and their retries interleave
\* (the send handler pushes only rows that are still pending).
AtMostOnePush == Undisturbed => \A d \in Device : pushes[d] <= 1

\* What the rows and the pushes promise
Contract == INSTANCE DeliveryContract WITH delivery <- delivery, pushes <- pushes

\* While nothing fails, the pipeline implements the delivery contract: whatever the
\* jobs, pages, promotions and retries do is a contract step or invisible in the rows.
ImplementsContract == Contract!Spec

\* Even after failures, retries and crashes, a delivery is recorded as sent only if
\* the provider took a message for its device.
SentMeansPushed == \A d \in Device : delivery[d] = "sent" => pushes[d] > 0

\* Nobody joined or left the recipients: no call changed a device or a subscription, and
\* no answer of the provider invalidated a device
RecipientsKept == churn = 0 /\ \A d \in Device : device[d] # "invalid"

\* Rows are not left deferred with nobody to promote them: a promotion job is queued
\* or running, or the dispatch job will add one, or one of them is dead-lettered.
\* It takes both a failed dispatch attempt and a change of recipients to break this.
DeferredHasPromoter ==
  (RecipientsKept \/ (Undisturbed /\ NobodyErased)) =>
    (DeferredRows # {} =>
       \E j \in Job :
         \/ kind[j] = "promote"
            /\ step[j] \notin {"done", "readPending", "readDeferred", "writeStatus"}
         \/ kind[j] = "dispatch"
            /\ step[j] \notin {"done", "readPending", "readDeferred", "writeStatus"})

\* Job j is one that will deal with the pending row d, or has dead-lettered it
Carries(j, d) ==
  CASE kind[j] = "send" -> d \in ids[j]
    [] kind[j] = "promote" -> d \in frame[j].work
    [] kind[j] = "dispatch" ->
         step[j] \in {"waiting", "createPending", "createDeferred",
                      "listPage", "addSend", "dead"}
    [] OTHER -> FALSE

\* While nothing fails, no pending row of a device that stayed active is forgotten:
\* some job carries it, although the handlers page through the rows, promote them and
\* enqueue them in separate calls.
PendingIsCarried ==
  (Undisturbed /\ NobodyErased) =>
    \A d \in PendingRows \ reactivated : \E j \in Job : Carries(j, d)

\* While nothing fails, no more than FanoutMax devices get the alert before a promotion
\* job has run.
FanoutCap ==
  (Undisturbed /\ NobodyErased /\ \A j \in Job : kind[j] = "promote" => step[j] = "waiting" /\ made[j] = 0) =>
    Cardinality({d \in Device : pushes[d] > 0}) <= FanoutMax

\* As long as the worker does not crash, a job that used up its attempts is in the
\* dead-letter queue or about to be.
DeadIsDeadLettered ==
  crashes = 0 =>
    \A j \in Job : step[j] = "dead" => dlq[j] > 0 \/ \E n \in notices : n.job = j

\* No job, listener or ingest call of this event is left
Quiet ==
  /\ \A j \in Job : ~Live(j)
  /\ notices = {}
  /\ \A r \in Request : request[r] \notin {"enqueue", "markQueued"}

\* A push to another row of the phone let the phone open the event, which marks row d
\* opened as well, whatever its own push has come to
OpenedElsewhere(d) == \E e \in Device \ {d} : Owner[e] = Owner[d] /\ pushes[e] > 0

\* When nothing failed and all work has stopped, an event marked processed has no
\* delivery left to do, not even one whose send job is dead-lettered, although each
\* handler reads the backlog and writes the status in three separate calls. The rows of
\* a phone that got the alert on another row are left out: marked opened while the
\* backlog is read, they are pending again after a transient answer. With promotions this
\* is not so: a row promoted between the two reads is in neither.
ProcessedAtRest ==
  (Undisturbed /\ NobodyErased /\ Quiet /\ event = "processed"
     /\ \A j \in Job : kind[j] # "promote") =>
    /\ \A d \in PendingRows \ reactivated : OpenedElsewhere(d)
    /\ DeferredRows = {}

\* A subscriber who is eligible when the event is about to be enqueued and stays so gets
\* an outcome, unless a job is dead-lettered after repeated transient answers.
AlertReaches ==
  \A d \in Device :
    (d \in Eligible /\ \E r \in Request : request[r] = "enqueue") ~>
      \/ delivery[d] \in {"sent", "failed", "invalid_token", "opened"}
      \/ d \notin Eligible
      \/ \E j \in Job : step[j] = "dead"
===============================================================================
