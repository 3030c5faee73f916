---------------------- MODULE NotificationPipeline_proofs ----------------------
(* Theorems about NotificationPipeline, for every value of its constants.  *)
EXTENDS NotificationPipeline, FiniteSetTheorems, WellFoundedInduction, TLAPS

-----------------------------------------------------------------------------
(* Type correctness. TypeOK is not inductive: a handler that marks a row needs *)
(* an answer for it, and a job that throws needs an attempt to spend.          *)

JobsTypeOK ==
  /\ kind \in [Job -> JobKind]
  /\ step \in [Job -> QueueStep \union HandlerStep]
  /\ made \in [Job -> 0..Attempts]
  /\ ids \in [Job -> SUBSET Device]
  /\ frame \in [Job -> Frame]

AttemptLeft == \A j \in Job : step[j] # "dead" => made[j] < Attempts

AnswersKnown ==
  \A j \in Job : step[j] \in {"mark", "invalidate"} =>
                   \A d \in frame[j].work : frame[j].result[d] \in Answers

JobsOK == JobsTypeOK /\ AttemptLeft /\ AnswersKnown

TypeInv == TypeOK /\ AttemptLeft /\ AnswersKnown

LEMMA EmptyFrameType == EmptyFrame \in Frame /\ EmptyFrame.work = {}
  BY DEF EmptyFrame, Frame, NoAnswers, Outcome

LEMMA FirstOfSubset ==
  ASSUME NEW S \in SUBSET Device, NEW n
  PROVE  FirstOf(S, n) \in SUBSET Device /\ FirstOf(S, n) \subseteq S
  BY DEF FirstOf

\* A job that goes to a step of its handler with a frame that has the answers it needs
LEMMA GotoType ==
  ASSUME JobsOK, NEW j \in Job, Live(j), NEW s \in HandlerStep, NEW f \in Frame,
         s \in {"mark", "invalidate"} => \A d \in f.work : f.result[d] \in Answers,
         Goto(j, s, f)
  PROVE  JobsOK'
  <1>1. step[j] # "dead"
    BY DEF Live, Running, HandlerStep
  <1>2. JobsTypeOK'
    BY DEF JobsOK, JobsTypeOK, Goto
  <1>3. AttemptLeft'
    BY <1>1 DEF JobsOK, JobsTypeOK, Goto, AttemptLeft
  <1>4. AnswersKnown'
    BY DEF JobsOK, JobsTypeOK, Goto, AnswersKnown
  <1> QED BY <1>2, <1>3, <1>4 DEF JobsOK

LEMMA ThrowType ==
  ASSUME JobsOK, NEW j \in Job, Live(j), Throw(j)
  PROVE  JobsOK'
  <1>1. made[j] < Attempts
    BY DEF Live, Running, HandlerStep, JobsOK, AttemptLeft
  <1>2. made[j] + 1 \in 0..Attempts
    BY <1>1, BoundAssumption DEF JobsOK, JobsTypeOK
  <1>3. JobsTypeOK'
    BY <1>2, EmptyFrameType DEF JobsOK, JobsTypeOK, Throw, QueueStep
  <1>4. AttemptLeft'
    BY <1>2, BoundAssumption DEF JobsOK, JobsTypeOK, Throw, AttemptLeft
  <1>5. AnswersKnown'
    BY EmptyFrameType DEF JobsOK, JobsTypeOK, Throw, AnswersKnown
  <1> QED BY <1>3, <1>4, <1>5 DEF JobsOK

\* A job added by a running one
LEMMA AddJobType ==
  ASSUME JobsOK, NEW j \in Job, Live(j), NEW s \in HandlerStep \ {"mark", "invalidate"},
         NEW k \in Job, NEW what \in JobKind, NEW rows \in SUBSET Device,
         NEW f \in [Job -> Frame], \A i \in Job \ {j} : f[i] = frame[i],
         AddJob(j, s, k, what, rows), frame' = f
  PROVE  JobsOK'
  <1>1. step[j] # "dead" /\ step[k] = "unused"
    BY DEF Live, Running, HandlerStep, AddJob, Fresh
  <1>2. JobsTypeOK'
    BY DEF JobsOK, JobsTypeOK, AddJob, QueueStep
  <1>3. AttemptLeft'
    BY <1>1 DEF JobsOK, JobsTypeOK, AddJob, AttemptLeft
  <1>4. AnswersKnown'
    BY DEF JobsOK, JobsTypeOK, AddJob, AnswersKnown
  <1> QED BY <1>2, <1>3, <1>4 DEF JobsOK

LEMMA InitType == Init => TypeInv
  <1> SUFFICES ASSUME Init PROVE TypeInv
    OBVIOUS
  <1>1. TypeOK
    BY EmptyFrameType, BoundAssumption
    DEF Init, TypeOK, DeviceStatus, DeliveryStatus, EventStatus, RequestStep, JobKind,
        QueueStep, Notice
  <1>2. AttemptLeft
    BY BoundAssumption DEF Init, AttemptLeft
  <1>3. AnswersKnown
    BY DEF Init, AnswersKnown
  <1> QED BY <1>1, <1>2, <1>3 DEF TypeInv

\* The part of TypeInv that is not about jobs
DataTypeOK ==
  /\ device \in [Device -> DeviceStatus]
  /\ subscribed \in [Device -> BOOLEAN]
  /\ reactivated \in SUBSET Device
  /\ delivery \in [Device -> DeliveryStatus]
  /\ event \in EventStatus
  /\ request \in [Request -> RequestStep]
  /\ notices \in SUBSET Notice
  /\ dlq \in [Job -> Nat]
  /\ pushes \in [Device -> Nat]
  /\ {faults, crashes, transients, churn} \subseteq Nat

LEMMA TypeSplit ==
  /\ TypeInv <=> JobsOK /\ DataTypeOK
  /\ TypeInv' <=> JobsOK' /\ DataTypeOK'
  BY DEF TypeInv, TypeOK, JobsOK, JobsTypeOK, DataTypeOK

LEMMA ThrowNotices ==
  ASSUME TypeInv, NEW j \in Job, Live(j), Throw(j)
  PROVE  notices' \in SUBSET Notice /\ dlq' \in [Job -> Nat]
  <1>1. made[j] + 1 \in Nat
    BY BoundAssumption DEF TypeInv, TypeOK
  <1>2. NoticesOf(j, made[j] + 1) \in SUBSET Notice
    BY <1>1 DEF NoticesOf, Notice
  <1> QED BY <1>2 DEF Throw, TypeInv, TypeOK

LEMMA JobsUnchanged ==
  ASSUME JobsOK, UNCHANGED jobVars
  PROVE  JobsOK'
  BY DEF JobsOK, JobsTypeOK, AttemptLeft, AnswersKnown, jobVars

LEMMA IngestType ==
  ASSUME TypeInv, NEW r \in Request, Ingest(r)
  PROVE  TypeInv'
  <1> USE TypeSplit, JobsUnchanged
  <1>1. CASE IngestInsert(r)
    <2>1. JobsOK'
      BY <1>1 DEF IngestInsert
    <2>2. DataTypeOK'
      BY <1>1 DEF IngestInsert, DataTypeOK, deviceVars, dlqVars, envVars, EventStatus, RequestStep
    <2> QED BY <2>1, <2>2
  <1>2. CASE IngestEnqueue(r)
    <2>1. PICK k \in Job : /\ Fresh(k)
                           /\ kind' = [kind EXCEPT ![k] = "dispatch"]
                           /\ step' = [step EXCEPT ![k] = "waiting"]
      BY <1>2 DEF IngestEnqueue
    <2>2. JobsOK'
      BY <1>2, <2>1 DEF IngestEnqueue, Fresh, JobsOK, JobsTypeOK, AttemptLeft, AnswersKnown,
         JobKind, QueueStep
    <2>3. DataTypeOK'
      BY <1>2 DEF IngestEnqueue, DataTypeOK, deviceVars, rowVars, dlqVars, envVars, RequestStep
    <2> QED BY <2>2, <2>3
  <1>3. CASE IngestMarkQueued(r)
    <2>1. JobsOK'
      BY <1>3 DEF IngestMarkQueued
    <2>2. DataTypeOK'
      BY <1>3 DEF IngestMarkQueued, DataTypeOK, deviceVars, dlqVars, envVars, EventStatus, RequestStep
    <2> QED BY <2>1, <2>2
  <1> QED BY <1>1, <1>2, <1>3 DEF Ingest

LEMMA DispatchType ==
  ASSUME TypeInv, NEW j \in Job, HandleDispatch(j)
  PROVE  TypeInv'
  <1> USE TypeSplit
  <1>a. frame[j] \in Frame
    BY DEF JobsOK, JobsTypeOK
  <1>1. CASE DispatchResolve(j)
    <2>1. Live(j)
      BY <1>1 DEF DispatchResolve, Live
    <2>2. CASE Throw(j)
      <3>1. JobsOK'
        BY <2>1, <2>2, ThrowType
      <3>2. DataTypeOK'
        BY <1>1, <2>1, <2>2, ThrowNotices
        DEF DispatchResolve, DataTypeOK, deviceVars, rowVars, envVars
      <3> QED BY <3>1, <3>2
    <2>3. CASE ~Throw(j)
      <3>1. PICK immediate \in SUBSET Eligible :
              Goto(j, "createPending",
                   [frame[j] EXCEPT !.work = immediate, !.rest = Eligible \ immediate])
        BY <1>1, <2>3 DEF DispatchResolve
      <3>2. [frame[j] EXCEPT !.work = immediate, !.rest = Eligible \ immediate] \in Frame
        BY <1>a DEF Frame, Eligible
      <3>3. JobsOK'
        BY <2>1, <3>1, <3>2, GotoType DEF HandlerStep
      <3>4. DataTypeOK'
        BY <1>1, <2>3 DEF DispatchResolve, DataTypeOK, deviceVars, rowVars, dlqVars, envVars
      <3> QED BY <3>3, <3>4
    <2> QED BY <2>2, <2>3
  <1>2. ASSUME NEW rows \in SUBSET Device, NEW status \in {"pending", "deferred"},
               NEW next \in HandlerStep \ {"mark", "invalidate"},
               step[j] \in HandlerStep, CreateDeliveries(j, rows, status, next),
               UNCHANGED <<deviceVars, event, request, pushes, envVars>>
        PROVE  TypeInv'
    <2>1. Live(j)
      BY <1>2 DEF Live, Running
    <2>2. CASE \E d \in rows : device[d] = "erased"
      <3>1. Throw(j) /\ UNCHANGED delivery
        BY <1>2, <2>2 DEF CreateDeliveries
      <3>2. JobsOK'
        BY <2>1, <3>1, ThrowType
      <3>3. DataTypeOK'
        BY <1>2, <2>1, <3>1, ThrowNotices DEF DataTypeOK, deviceVars, envVars
      <3> QED BY <3>2, <3>3
    <2>3. CASE ~ \E d \in rows : device[d] = "erased"
      <3>1. Goto(j, next, frame[j])
        BY <1>2, <2>3 DEF CreateDeliveries, Goto, JobsOK, JobsTypeOK
      <3>2. JobsOK'
        BY <1>2, <1>a, <2>1, <3>1, GotoType
      <3>3. DataTypeOK'
        BY <1>2, <2>3
        DEF CreateDeliveries, DataTypeOK, DeliveryStatus, deviceVars, dlqVars, envVars
      <3> QED BY <3>2, <3>3
    <2> QED BY <2>2, <2>3
  <1>3. CASE DispatchCreatePending(j)
    BY <1>2, <1>3, <1>a DEF DispatchCreatePending, Frame, HandlerStep
  <1>4. CASE DispatchCreateDeferred(j)
    BY <1>2, <1>4, <1>a DEF DispatchCreateDeferred, Frame, HandlerStep
  <1>5. CASE DispatchListPage(j)
    <2> DEFINE page == FirstOf(PendingAfterCursor(j), PageSize)
               s == IF page = {} THEN AfterPages(j) ELSE "addSend"
               f == [frame[j] EXCEPT !.work = page, !.flag = (PendingAfterCursor(j) # page)]
    <2>1. page \in SUBSET Device
      BY FirstOfSubset DEF PendingAfterCursor, PendingRows
    <2>2. f \in Frame
      BY <1>a, <2>1 DEF Frame
    <2>3. s \in HandlerStep \ {"mark", "invalidate"}
      BY DEF AfterPages, HandlerStep
    <2>4. Goto(j, s, f) /\ Live(j)
      BY <1>5 DEF DispatchListPage, Live, Running, HandlerStep
    <2> HIDE DEF s, f
    <2>5. JobsOK'
      BY <2>2, <2>3, <2>4, GotoType
    <2>6. DataTypeOK'
      BY <1>5 DEF DispatchListPage, DataTypeOK, deviceVars, rowVars, dlqVars, envVars
    <2> QED BY <2>5, <2>6
  <1>6. CASE DispatchAddSend(j)
    <2>1. PICK k \in Job, last \in frame[j].work :
            /\ AddJob(j, IF frame[j].flag THEN "listPage" ELSE AfterPages(j),
                      k, "send", frame[j].work)
            /\ frame' = [frame EXCEPT ![j] = [@ EXCEPT !.work = {}, !.cursor = last]]
      BY <1>6 DEF DispatchAddSend
    <2>2. Live(j) /\ frame[j].work \in SUBSET Device
      BY <1>6, <1>a DEF DispatchAddSend, Live, Running, HandlerStep, Frame
    <2>3. last \in Nat
      BY <2>2, DeviceAssumption
    <2>4. (IF frame[j].flag THEN "listPage" ELSE AfterPages(j)) \in HandlerStep \ {"mark", "invalidate"}
      BY DEF AfterPages, HandlerStep
    <2>5. frame' \in [Job -> Frame] /\ \A i \in Job \ {j} : frame'[i] = frame[i]
      BY <1>a, <2>1, <2>3 DEF JobsOK, JobsTypeOK, Frame
    <2>6. "send" \in JobKind
      BY DEF JobKind
    <2>7. JobsOK'
      BY <2>1, <2>2, <2>4, <2>5, <2>6, AddJobType
    <2>8. DataTypeOK'
      BY <1>6 DEF DispatchAddSend, DataTypeOK, deviceVars, rowVars, dlqVars, envVars
    <2> QED BY <2>7, <2>8
  <1>7. CASE DispatchAddPromotion(j)
    <2>1. PICK k \in Job : AddJob(j, "readPending", k, "promote", {})
      BY <1>7 DEF DispatchAddPromotion
    <2>2. Live(j)
      BY <1>7 DEF DispatchAddPromotion, Live, Running, HandlerStep
    <2>3. frame' \in [Job -> Frame] /\ \A i \in Job \ {j} : frame'[i] = frame[i]
      BY <1>7, EmptyFrameType DEF DispatchAddPromotion, JobsOK, JobsTypeOK
    <2>4. "promote" \in JobKind /\ "readPending" \in HandlerStep \ {"mark", "invalidate"}
      BY DEF JobKind, HandlerStep
    <2>5. JobsOK'
      BY <2>1, <2>2, <2>3, <2>4, AddJobType
    <2>6. DataTypeOK'
      BY <1>7 DEF DispatchAddPromotion, DataTypeOK, deviceVars, rowVars, dlqVars, envVars
    <2> QED BY <2>5, <2>6
  <1> QED BY <1>1, <1>3, <1>4, <1>5, <1>6, <1>7 DEF HandleDispatch

LEMMA SendType ==
  ASSUME TypeInv, NEW j \in Job, HandleSend(j)
  PROVE  TypeInv'
  <1> USE TypeSplit
  <1>a. frame[j] \in Frame /\ frame[j].work \in SUBSET Device
    BY DEF JobsOK, JobsTypeOK, Frame
  <1>1. CASE SendListPending(j)
    <2> DEFINE rows == ids[j] \intersect PendingRows
               s == IF rows = {} THEN "readPending" ELSE "multicast"
               f == [frame[j] EXCEPT !.work = rows]
    <2>1. f \in Frame
      BY <1>a DEF Frame, PendingRows
    <2>2. s \in HandlerStep \ {"mark", "invalidate"}
      BY DEF HandlerStep
    <2>3. Goto(j, s, f) /\ Live(j)
      BY <1>1 DEF SendListPending, Live
    <2> HIDE DEF s, f
    <2>4. JobsOK'
      BY <2>1, <2>2, <2>3, GotoType
    <2>5. DataTypeOK'
      BY <1>1 DEF SendListPending, DataTypeOK, deviceVars, rowVars, dlqVars, envVars
    <2> QED BY <2>4, <2>5
  <1>2. CASE SendMulticast(j)
    <2>1. PICK answers \in [frame[j].work -> Answers] :
            LET result == [d \in Device |-> IF d \in frame[j].work THEN answers[d] ELSE "unsent"] IN
              /\ transients' = transients
                   + Cardinality({d \in Device : result[d] \in {"transient", "timeout"}})
              /\ faults' = faults + Cardinality({d \in Device : result[d] = "timeout"})
              /\ pushes' = [d \in Device |-> IF d \in Reached(result)
                                             THEN pushes[d] + 1 ELSE pushes[d]]
              /\ Goto(j, "mark", [frame[j] EXCEPT !.result = result])
      BY <1>2 DEF SendMulticast
    <2> DEFINE result == [d \in Device |-> IF d \in frame[j].work THEN answers[d] ELSE "unsent"]
               f == [frame[j] EXCEPT !.result = result]
    <2>2. result \in [Device -> Outcome]
      BY <1>a, BoundAssumption DEF Outcome
    <2>3. f \in Frame /\ \A d \in f.work : f.result[d] \in Answers
      BY <1>a, <2>2 DEF Frame
    <2>4. Live(j) /\ "mark" \in HandlerStep
      BY <1>2 DEF SendMulticast, Live, Running, HandlerStep
    <2>5. JobsOK'
      BY <2>1, <2>3, <2>4, GotoType
    <2>6. faults' \in Nat /\ transients' \in Nat
      <3>1. \A S \in SUBSET Device : Cardinality(S) \in Nat
        BY DeviceAssumption, FS_Subset, FS_CardinalityType
      <3> DEFINE slow == {d \in Device : result[d] \in {"transient", "timeout"}}
                 late == {d \in Device : result[d] = "timeout"}
      <3>2. Cardinality(slow) \in Nat /\ Cardinality(late) \in Nat
        BY <3>1
      <3>3. transients' = transients + Cardinality(slow) /\ faults' = faults + Cardinality(late)
        BY <2>1
      <3> HIDE DEF slow, late
      <3> QED BY <3>2, <3>3 DEF DataTypeOK
    <2>7. pushes' \in [Device -> Nat]
      BY <2>1 DEF DataTypeOK
    <2>8. DataTypeOK'
      BY <1>2, <2>6, <2>7 DEF SendMulticast, DataTypeOK, deviceVars, rowVars, dlqVars, envVars
    <2> QED BY <2>5, <2>8
  <1>3. CASE SendMark(j)
    <2>1. PICK d \in FirstOf(frame[j].work, 1) :
            LET outcome == frame[j].result[d]
                todo == frame[j].work \ {d}
                retry == frame[j].flag \/ outcome \in {"transient", "timeout"}
            IN  /\ delivery' = [delivery EXCEPT ![d] =
                                  IF @ = "none" THEN "none" ELSE StatusFor(outcome)]
                /\ Goto(j, IF outcome = "invalid" THEN "invalidate" ELSE NextMark(todo, retry),
                        [frame[j] EXCEPT !.work = todo, !.flag = retry, !.cursor = d])
      BY <1>3 DEF SendMark
    <2> DEFINE outcome == frame[j].result[d]
               todo == frame[j].work \ {d}
               retry == frame[j].flag \/ outcome \in {"transient", "timeout"}
               s == IF outcome = "invalid" THEN "invalidate" ELSE NextMark(todo, retry)
               f == [frame[j] EXCEPT !.work = todo, !.flag = retry, !.cursor = d]
    <2>2. d \in frame[j].work /\ d \in Device /\ d \in Nat
      BY <1>a, FirstOfSubset, DeviceAssumption
    <2>3. outcome \in Answers
      BY <1>3, <2>2 DEF SendMark, JobsOK, AnswersKnown
    <2>4. delivery' \in [Device -> DeliveryStatus]
      BY <2>1, <2>3, BoundAssumption DEF DataTypeOK, StatusFor, DeliveryStatus
    <2>5. f \in Frame
      BY <1>a, <2>2 DEF Frame
    <2>6. \A e \in f.work : f.result[e] \in Answers
      BY <1>a, <1>3 DEF SendMark, JobsOK, AnswersKnown, Frame
    <2>7. s \in HandlerStep
      BY DEF NextMark, HandlerStep
    <2>8. Live(j)
      BY <1>3 DEF SendMark, Live, Running, HandlerStep
    <2>9. Goto(j, s, f)
      BY <2>1
    <2> HIDE DEF s, f
    <2>10. JobsOK'
      BY <2>5, <2>6, <2>7, <2>8, <2>9, GotoType
    <2>11. DataTypeOK'
      BY <1>3, <2>4 DEF SendMark, DataTypeOK, deviceVars, dlqVars, envVars
    <2> QED BY <2>10, <2>11
  <1>4. CASE SendInvalidate(j)
    <2>1. NextMark(frame[j].work, frame[j].flag) \in HandlerStep
      BY DEF NextMark, HandlerStep
    <2>2. Live(j) /\ \A e \in frame[j].work : frame[j].result[e] \in Answers
      BY <1>4 DEF SendInvalidate, Live, Running, HandlerStep, JobsOK, AnswersKnown
    <2>3. JobsOK'
      BY <1>4, <1>a, <2>1, <2>2, GotoType DEF SendInvalidate
    <2>4. DataTypeOK'
      BY <1>4 DEF SendInvalidate, DataTypeOK, DeviceStatus, rowVars, dlqVars, envVars
    <2> QED BY <2>3, <2>4
  <1>5. CASE SendRethrow(j)
    <2>1. Live(j)
      BY <1>5 DEF SendRethrow, Live, Running, HandlerStep
    <2>2. JobsOK'
      BY <1>5, <2>1, ThrowType DEF SendRethrow
    <2>3. DataTypeOK'
      BY <1>5, <2>1, ThrowNotices DEF SendRethrow, DataTypeOK, deviceVars, rowVars, envVars
    <2> QED BY <2>2, <2>3
  <1> QED BY <1>1, <1>2, <1>3, <1>4, <1>5 DEF HandleSend

LEMMA PromotionType ==
  ASSUME TypeInv, NEW j \in Job, HandlePromotion(j)
  PROVE  TypeInv'
  <1> USE TypeSplit
  <1>a. frame[j] \in Frame /\ frame[j].work \in SUBSET Device
    BY DEF JobsOK, JobsTypeOK, Frame
  <1>1. CASE PromoteDeferred(j)
    <2> DEFINE moved == FirstOf(DeferredRows, PromotionBatch)
               s == IF moved = {} THEN "countDeferred" ELSE "sendPromoted"
               f == [frame[j] EXCEPT !.work = moved]
    <2>1. moved \in SUBSET Device
      BY FirstOfSubset DEF DeferredRows
    <2>2. f \in Frame
      BY <1>a, <2>1 DEF Frame
    <2>3. s \in HandlerStep \ {"mark", "invalidate"}
      BY DEF HandlerStep
    <2>4. Goto(j, s, f) /\ Live(j)
      BY <1>1 DEF PromoteDeferred, Live
    <2>5. delivery' = [d \in Device |-> IF d \in moved THEN "pending" ELSE delivery[d]]
      BY <1>1 DEF PromoteDeferred
    <2> HIDE DEF moved, s, f
    <2>6. JobsOK'
      BY <2>2, <2>3, <2>4, GotoType
    <2>7. DataTypeOK'
      BY <1>1, <2>5
      DEF PromoteDeferred, DataTypeOK, DeliveryStatus, deviceVars, dlqVars, envVars
    <2> QED BY <2>6, <2>7
  <1>2. CASE PromoteAddSend(j)
    <2>1. PICK k \in Job : AddJob(j, "countDeferred", k, "send", frame[j].work)
      BY <1>2 DEF PromoteAddSend
    <2>2. Live(j)
      BY <1>2 DEF PromoteAddSend, Live, Running, HandlerStep
    <2>3. frame' \in [Job -> Frame] /\ \A i \in Job \ {j} : frame'[i] = frame[i]
      BY <1>2, EmptyFrameType DEF PromoteAddSend, JobsOK, JobsTypeOK
    <2>4. "send" \in JobKind /\ "countDeferred" \in HandlerStep \ {"mark", "invalidate"}
      BY DEF JobKind, HandlerStep
    <2>5. JobsOK'
      BY <1>a, <2>1, <2>2, <2>3, <2>4, AddJobType
    <2>6. DataTypeOK'
      BY <1>2 DEF PromoteAddSend, DataTypeOK, deviceVars, rowVars, dlqVars, envVars
    <2> QED BY <2>5, <2>6
  <1>3. CASE PromoteCountDeferred(j)
    <2>1. Live(j)
      BY <1>3 DEF PromoteCountDeferred, Live, Running, HandlerStep
    <2>2. (IF DeferredRows # {} THEN "requeue" ELSE "readPending") \in HandlerStep \ {"mark", "invalidate"}
      BY DEF HandlerStep
    <2>3. JobsOK'
      BY <1>3, <1>a, <2>1, <2>2, GotoType DEF PromoteCountDeferred
    <2>4. DataTypeOK'
      BY <1>3 DEF PromoteCountDeferred, DataTypeOK, deviceVars, rowVars, dlqVars, envVars
    <2> QED BY <2>3, <2>4
  <1>4. CASE PromoteRequeue(j)
    <2>1. PICK k \in Job : AddJob(j, "readPending", k, "promote", {})
      BY <1>4 DEF PromoteRequeue
    <2>2. Live(j)
      BY <1>4 DEF PromoteRequeue, Live, Running, HandlerStep
    <2>3. frame' \in [Job -> Frame] /\ \A i \in Job \ {j} : frame'[i] = frame[i]
      BY <1>4 DEF PromoteRequeue, JobsOK, JobsTypeOK
    <2>4. "promote" \in JobKind /\ "readPending" \in HandlerStep \ {"mark", "invalidate"}
      BY DEF JobKind, HandlerStep
    <2>5. JobsOK'
      BY <2>1, <2>2, <2>3, <2>4, AddJobType
    <2>6. DataTypeOK'
      BY <1>4 DEF PromoteRequeue, DataTypeOK, deviceVars, rowVars, dlqVars, envVars
    <2> QED BY <2>5, <2>6
  <1> QED BY <1>1, <1>2, <1>3, <1>4 DEF HandlePromotion

LEMMA BacklogType ==
  ASSUME TypeInv, NEW j \in Job, HandleBacklog(j)
  PROVE  TypeInv'
  <1> USE TypeSplit
  <1>a. frame[j] \in Frame
    BY DEF JobsOK, JobsTypeOK
  <1>1. CASE BacklogReadPending(j)
    <2>1. Live(j) /\ "readDeferred" \in HandlerStep \ {"mark", "invalidate"}
      BY <1>1 DEF BacklogReadPending, Live, Running, HandlerStep
    <2>2. [EmptyFrame EXCEPT !.flag = (PendingRows # {})] \in Frame
      BY EmptyFrameType DEF Frame
    <2>3. JobsOK'
      BY <1>1, <2>1, <2>2, GotoType DEF BacklogReadPending
    <2>4. DataTypeOK'
      BY <1>1 DEF BacklogReadPending, DataTypeOK, deviceVars, rowVars, dlqVars, envVars
    <2> QED BY <2>3, <2>4
  <1>2. CASE BacklogReadDeferred(j)
    <2>1. Live(j) /\ "writeStatus" \in HandlerStep \ {"mark", "invalidate"}
      BY <1>2 DEF BacklogReadDeferred, Live, Running, HandlerStep
    <2>2. [frame[j] EXCEPT !.flag = frame[j].flag \/ DeferredRows # {}] \in Frame
      BY <1>a DEF Frame
    <2>3. JobsOK'
      BY <1>2, <2>1, <2>2, GotoType DEF BacklogReadDeferred
    <2>4. DataTypeOK'
      BY <1>2 DEF BacklogReadDeferred, DataTypeOK, deviceVars, rowVars, dlqVars, envVars
    <2> QED BY <2>3, <2>4
  <1>3. CASE BacklogWriteStatus(j)
    <2>1. JobsOK'
      BY <1>3, EmptyFrameType, BoundAssumption
      DEF BacklogWriteStatus, JobsOK, JobsTypeOK, AttemptLeft, AnswersKnown, QueueStep
    <2>2. DataTypeOK'
      BY <1>3 DEF BacklogWriteStatus, DataTypeOK, EventStatus, deviceVars, dlqVars, envVars
    <2> QED BY <2>1, <2>2
  <1> QED BY <1>1, <1>2, <1>3 DEF HandleBacklog

LEMMA NoticeType ==
  ASSUME TypeInv, HandleNotice
  PROVE  TypeInv'
  <1> USE TypeSplit, JobsUnchanged
  <1>1. PICK n \in notices : NoticeMark(n) \/ NoticeDlq(n)
    BY DEF HandleNotice
  <1>2. n \in Notice
    BY DEF DataTypeOK
  <1>3. JobsOK'
    BY <1>1 DEF NoticeMark, NoticeDlq
  <1>4. CASE NoticeMark(n)
    <2>1. [n EXCEPT !.at = "dlq"] \in Notice
      BY <1>2 DEF Notice
    <2>2. DataTypeOK'
      BY <1>4, <2>1 DEF NoticeMark, DataTypeOK, EventStatus, deviceVars, envVars
    <2> QED BY <1>3, <2>2
  <1>5. CASE NoticeDlq(n)
    <2>1. n.job \in Job
      BY <1>2 DEF Notice
    <2>2. dlq' \in [Job -> Nat] /\ notices' \in SUBSET Notice
      BY <1>5, <2>1 DEF NoticeDlq, DataTypeOK
    <2>3. DataTypeOK'
      BY <1>5, <2>2 DEF NoticeDlq, DataTypeOK, deviceVars, rowVars, envVars
    <2> QED BY <1>3, <2>3
  <1> QED BY <1>1, <1>4, <1>5

LEMMA MobileType ==
  ASSUME TypeInv, Mobile
  PROVE  TypeInv'
  <1> USE TypeSplit, JobsUnchanged
  <1>1. ASSUME NEW d \in Device, RegisterDevice(d) \/ RevokeDevice(d) \/ UpsertSubscription(d)
        PROVE  TypeInv'
    <2>1. JobsOK'
      BY <1>1 DEF RegisterDevice, RevokeDevice, UpsertSubscription
    <2>2. churn' \in Nat
      BY <1>1 DEF RegisterDevice, RevokeDevice, UpsertSubscription, Churn, DataTypeOK
    <2>3. DataTypeOK'
      BY <1>1, <2>2
      DEF RegisterDevice, RevokeDevice, UpsertSubscription, DataTypeOK, DeviceStatus,
          rowVars, dlqVars
    <2> QED BY <2>1, <2>3
  <1>2. ASSUME NEW p \in Phone, DeleteByAuthSubject(p)
        PROVE  TypeInv'
    <2>1. JobsOK'
      BY <1>2 DEF DeleteByAuthSubject
    <2>2. churn' \in Nat
      BY <1>2 DEF DeleteByAuthSubject, Churn, DataTypeOK
    <2>3. DataTypeOK'
      BY <1>2, <2>2
      DEF DeleteByAuthSubject, DataTypeOK, DeviceStatus, DeliveryStatus, dlqVars
    <2> QED BY <2>1, <2>3
  <1>3. ASSUME NEW p \in Phone, MarkOpened(p)
        PROVE  TypeInv'
    <2>1. JobsOK'
      BY <1>3 DEF MarkOpened
    <2>2. DataTypeOK'
      BY <1>3 DEF MarkOpened, DataTypeOK, DeliveryStatus, deviceVars, dlqVars, envVars
    <2> QED BY <2>1, <2>2
  <1> QED BY <1>1, <1>2, <1>3 DEF Mobile

LEMMA FailureType ==
  ASSUME TypeInv, Failure
  PROVE  TypeInv'
  <1> USE TypeSplit
  <1>1. CASE Crash
    <2>1. JobsOK'
      BY <1>1, EmptyFrameType
      DEF Crash, JobsOK, JobsTypeOK, AttemptLeft, AnswersKnown, QueueStep, Running, HandlerStep
    <2>2. DataTypeOK'
      BY <1>1 DEF Crash, DataTypeOK, deviceVars, rowVars
    <2> QED BY <2>1, <2>2
  <1>2. ASSUME NEW r \in Request, IngestFails(r)
        PROVE  TypeInv'
    <2>1. JobsOK'
      BY <1>2, JobsUnchanged DEF IngestFails
    <2>2. DataTypeOK'
      BY <1>2 DEF IngestFails, DataTypeOK, RequestStep, deviceVars, rowVars, dlqVars
    <2> QED BY <2>1, <2>2
  <1>3. ASSUME NEW j \in Job, HandlerFails(j)
        PROVE  TypeInv'
    <2>1. Live(j) /\ Throw(j)
      BY <1>3 DEF HandlerFails, Live
    <2>2. JobsOK'
      BY <2>1, ThrowType
    <2>3. DataTypeOK'
      BY <1>3, <2>1, ThrowNotices DEF HandlerFails, DataTypeOK, deviceVars, rowVars
    <2> QED BY <2>2, <2>3
  <1> QED BY <1>1, <1>2, <1>3 DEF Failure

LEMMA NextType == TypeInv /\ [Next]_vars => TypeInv'
  <1> SUFFICES ASSUME TypeInv, [Next]_vars PROVE TypeInv'
    OBVIOUS
  <1>1. CASE UNCHANGED vars
    BY <1>1 DEF vars, deviceVars, rowVars, jobVars, dlqVars, envVars, TypeInv, TypeOK,
       AttemptLeft, AnswersKnown
  <1>2. ASSUME NEW j \in Job, Work(j) PROVE TypeInv'
    BY <1>2, DispatchType, SendType, PromotionType, BacklogType DEF Work
  <1> QED BY <1>1, <1>2, IngestType, NoticeType, MobileType, FailureType DEF Next

\* Every column, job and handler always holds a value of its type: no sequence of
\* calls, failures and crashes leaves a handler marking a row it has no answer for or
\* spending an attempt it does not have.
THEOREM TypeCorrect == Spec => []TypeOK
  <1>1. TypeInv => TypeOK
    BY DEF TypeInv
  <1> QED BY <1>1, InitType, NextType, PTL DEF Spec

-----------------------------------------------------------------------------
(* Truth of the recorded outcomes. A row becomes sent from an answer that the *)
(* handler holds between the multicast and the mark of the row, across other   *)
(* handlers' steps, so that answer must stay true.                             *)

AnswersTrue ==
  \A j \in Job : step[j] \in {"mark", "invalidate"} =>
    \A d \in frame[j].work : frame[j].result[d] = "ok" => pushes[d] > 0

SentInv == TypeInv /\ SentMeansPushed /\ AnswersTrue

\* A step that neither pushes, nor marks, nor starts a handler's marks
Harmless ==
  /\ UNCHANGED pushes
  /\ \A d \in Device : delivery'[d] = "sent" => delivery[d] = "sent"
  /\ \A j \in Job : step'[j] \in {"mark", "invalidate"} =>
                      step[j] = step'[j] /\ frame[j] = frame'[j]

LEMMA HarmlessSent == SentInv /\ TypeInv' /\ Harmless => SentInv'
  BY DEF SentInv, Harmless, SentMeansPushed, AnswersTrue

LEMMA ThrowHarmless ==
  ASSUME TypeInv, NEW j \in Job, Throw(j), UNCHANGED <<delivery, pushes>>
  PROVE  Harmless
  BY DEF TypeInv, TypeOK, Throw, Harmless

LEMMA GotoHarmless ==
  ASSUME TypeInv, NEW j \in Job, NEW s, NEW f, s \notin {"mark", "invalidate"},
         Goto(j, s, f), UNCHANGED pushes,
         \A d \in Device : delivery'[d] = "sent" => delivery[d] = "sent"
  PROVE  Harmless
  BY DEF TypeInv, TypeOK, Goto, Harmless

LEMMA AddJobHarmless ==
  ASSUME TypeInv, NEW j \in Job, NEW s, NEW k \in Job, NEW what, NEW rows,
         s \notin {"mark", "invalidate"}, AddJob(j, s, k, what, rows),
         \A i \in Job \ {j} : frame'[i] = frame[i], UNCHANGED <<delivery, pushes>>
  PROVE  Harmless
  BY DEF TypeInv, TypeOK, AddJob, Harmless

LEMMA DispatchHarmless ==
  ASSUME TypeInv, NEW j \in Job, HandleDispatch(j)
  PROVE  Harmless
  <1>1. CASE DispatchResolve(j)
    <2>1. UNCHANGED <<delivery, pushes>>
      BY <1>1 DEF DispatchResolve, rowVars
    <2>2. CASE Throw(j)
      BY <2>1, <2>2, ThrowHarmless
    <2>3. CASE ~Throw(j)
      <3>1. PICK immediate \in SUBSET Eligible :
              Goto(j, "createPending",
                   [frame[j] EXCEPT !.work = immediate, !.rest = Eligible \ immediate])
        BY <1>1, <2>3 DEF DispatchResolve
      <3> QED BY <2>1, <3>1, GotoHarmless
    <2> QED BY <2>2, <2>3
  <1>2. ASSUME NEW rows, NEW status \in {"pending", "deferred"},
               NEW next, next \notin {"mark", "invalidate"},
               CreateDeliveries(j, rows, status, next), UNCHANGED pushes
        PROVE  Harmless
    <2>1. CASE \E d \in rows : device[d] = "erased"
      BY <1>2, <2>1, ThrowHarmless DEF CreateDeliveries
    <2>2. CASE ~ \E d \in rows : device[d] = "erased"
      <3>1. \A d \in Device : delivery'[d] = "sent" => delivery[d] = "sent"
        BY <1>2, <2>2 DEF CreateDeliveries
      <3> QED BY <1>2, <2>2, <3>1 DEF CreateDeliveries, TypeInv, TypeOK, Harmless
    <2> QED BY <2>1, <2>2
  <1>3. CASE DispatchCreatePending(j)
    BY <1>2, <1>3 DEF DispatchCreatePending
  <1>4. CASE DispatchCreateDeferred(j)
    BY <1>2, <1>4 DEF DispatchCreateDeferred
  <1>5. CASE DispatchListPage(j)
    BY <1>5, GotoHarmless DEF DispatchListPage, AfterPages, rowVars
  <1>6. CASE DispatchAddSend(j)
    <2>1. PICK k \in Job, last \in frame[j].work :
            /\ AddJob(j, IF frame[j].flag THEN "listPage" ELSE AfterPages(j),
                      k, "send", frame[j].work)
            /\ frame' = [frame EXCEPT ![j] = [@ EXCEPT !.work = {}, !.cursor = last]]
      BY <1>6 DEF DispatchAddSend
    <2>2. (IF frame[j].flag THEN "listPage" ELSE AfterPages(j)) \notin {"mark", "invalidate"}
      BY DEF AfterPages
    <2>3. (\A i \in Job \ {j} : frame'[i] = frame[i]) /\ UNCHANGED <<delivery, pushes>>
      BY <1>6, <2>1 DEF DispatchAddSend, rowVars, TypeInv, TypeOK
    <2> QED BY <2>1, <2>2, <2>3, AddJobHarmless
  <1>7. CASE DispatchAddPromotion(j)
    BY <1>7, AddJobHarmless DEF DispatchAddPromotion, rowVars, TypeInv, TypeOK
  <1> QED BY <1>1, <1>3, <1>4, <1>5, <1>6, <1>7 DEF HandleDispatch

LEMMA PromotionHarmless ==
  ASSUME TypeInv, NEW j \in Job, HandlePromotion(j)
  PROVE  Harmless
  <1>1. CASE PromoteDeferred(j)
    <2>1. \A d \in Device : delivery'[d] = "sent" => delivery[d] = "sent"
      BY <1>1 DEF PromoteDeferred
    <2>2. PICK s \in {"countDeferred", "sendPromoted"},
               f \in {[frame[j] EXCEPT !.work = FirstOf(DeferredRows, PromotionBatch)]} :
            Goto(j, s, f)
      BY <1>1 DEF PromoteDeferred
    <2> QED BY <1>1, <2>1, <2>2, GotoHarmless DEF PromoteDeferred
  <1>2. CASE PromoteAddSend(j)
    <2>1. PICK k \in Job : AddJob(j, "countDeferred", k, "send", frame[j].work)
      BY <1>2 DEF PromoteAddSend
    <2>2. (\A i \in Job \ {j} : frame'[i] = frame[i]) /\ UNCHANGED <<delivery, pushes>>
      BY <1>2 DEF PromoteAddSend, rowVars, TypeInv, TypeOK
    <2> QED BY <2>1, <2>2, AddJobHarmless
  <1>3. CASE PromoteCountDeferred(j)
    BY <1>3, GotoHarmless DEF PromoteCountDeferred, rowVars
  <1>4. CASE PromoteRequeue(j)
    BY <1>4, AddJobHarmless DEF PromoteRequeue, rowVars, TypeInv, TypeOK
  <1> QED BY <1>1, <1>2, <1>3, <1>4 DEF HandlePromotion

LEMMA BacklogHarmless ==
  ASSUME TypeInv, NEW j \in Job, HandleBacklog(j)
  PROVE  Harmless
  <1>1. CASE BacklogReadPending(j)
    BY <1>1, GotoHarmless DEF BacklogReadPending, rowVars
  <1>2. CASE BacklogReadDeferred(j)
    BY <1>2, GotoHarmless DEF BacklogReadDeferred, rowVars
  <1>3. CASE BacklogWriteStatus(j)
    BY <1>3 DEF BacklogWriteStatus, TypeInv, TypeOK, Harmless
  <1> QED BY <1>1, <1>2, <1>3 DEF HandleBacklog

LEMMA OthersHarmless ==
  ASSUME TypeInv, \/ \E r \in Request : Ingest(r)
                  \/ HandleNotice \/ Mobile \/ Failure \/ UNCHANGED vars
  PROVE  Harmless
  <1>1. ASSUME UNCHANGED jobVars, UNCHANGED pushes,
               \A d \in Device : delivery'[d] \in {delivery[d], "none", "opened"}
        PROVE  Harmless
    BY <1>1 DEF jobVars, Harmless
  <1>2. ASSUME NEW r \in Request, Ingest(r) PROVE Harmless
    <2>1. CASE IngestEnqueue(r)
      BY <2>1 DEF IngestEnqueue, TypeInv, TypeOK, rowVars, Harmless
    <2>2. CASE IngestInsert(r) \/ IngestMarkQueued(r)
      BY <1>1, <2>2 DEF IngestInsert, IngestMarkQueued
    <2> QED BY <1>2, <2>1, <2>2 DEF Ingest
  <1>3. CASE HandleNotice
    BY <1>1, <1>3 DEF HandleNotice, NoticeMark, NoticeDlq, rowVars
  <1>4. CASE Mobile
    <2>1. UNCHANGED jobVars /\ UNCHANGED pushes
      BY <1>4 DEF Mobile, RegisterDevice, RevokeDevice, UpsertSubscription,
         DeleteByAuthSubject, MarkOpened
    <2>2. \A d \in Device : delivery'[d] \in {delivery[d], "none", "opened"}
      BY <1>4 DEF Mobile, RegisterDevice, RevokeDevice, UpsertSubscription,
         DeleteByAuthSubject, MarkOpened, rowVars
    <2> QED BY <1>1, <2>1, <2>2
  <1>5. CASE Failure
    <2>1. CASE Crash
      BY <2>1 DEF Crash, Running, HandlerStep, TypeInv, TypeOK, rowVars, Harmless
    <2>2. ASSUME NEW r \in Request, IngestFails(r) PROVE Harmless
      BY <1>1, <2>2 DEF IngestFails, rowVars
    <2>3. ASSUME NEW j \in Job, HandlerFails(j) PROVE Harmless
      BY <2>3, ThrowHarmless DEF HandlerFails, rowVars
    <2> QED BY <1>5, <2>1, <2>2, <2>3 DEF Failure
  <1>6. CASE UNCHANGED vars
    BY <1>1, <1>6 DEF vars, rowVars
  <1> QED BY <1>2, <1>3, <1>4, <1>5, <1>6

LEMMA SendSent ==
  ASSUME SentInv, TypeInv', NEW j \in Job, HandleSend(j)
  PROVE  SentInv'
  <1> USE DEF SentInv
  <1>1. CASE SendListPending(j)
    BY <1>1, GotoHarmless, HarmlessSent DEF SendListPending, rowVars
  <1>2. CASE SendMulticast(j)
    <2>1. PICK result \in [Device -> Outcome] :
            /\ pushes' = [d \in Device |-> IF d \in Reached(result)
                                           THEN pushes[d] + 1 ELSE pushes[d]]
            /\ Goto(j, "mark", [frame[j] EXCEPT !.result = result])
      BY <1>2, BoundAssumption DEF SendMulticast, Outcome
    <2>2. \A d \in Device : pushes'[d] >= pushes[d] /\ (result[d] = "ok" => pushes'[d] > 0)
      BY <2>1 DEF Reached, TypeInv, TypeOK
    <2>3. SentMeansPushed'
      BY <1>2, <2>2 DEF SendMulticast, rowVars, SentMeansPushed, TypeInv, TypeOK
    <2>4. AnswersTrue'
      <3> SUFFICES ASSUME NEW i \in Job, step'[i] \in {"mark", "invalidate"},
                          NEW d \in frame'[i].work, frame'[i].result[d] = "ok"
                   PROVE  pushes'[d] > 0
        BY DEF AnswersTrue
      <3>1. d \in Device
        BY DEF TypeInv, TypeOK, Frame
      <3>2. CASE i = j
        BY <2>1, <2>2, <3>1, <3>2 DEF Goto, TypeInv, TypeOK, Frame
      <3>3. CASE i # j
        BY <2>1, <2>2, <3>1, <3>3 DEF Goto, TypeInv, TypeOK, AnswersTrue
      <3> QED BY <3>2, <3>3
    <2> QED BY <2>3, <2>4
  <1>3. CASE SendMark(j)
    <2>1. PICK d \in FirstOf(frame[j].work, 1), s \in HandlerStep, flag \in BOOLEAN :
            /\ delivery' = [delivery EXCEPT ![d] =
                              IF @ = "none" THEN "none" ELSE StatusFor(frame[j].result[d])]
            /\ Goto(j, s, [frame[j] EXCEPT !.work = @ \ {d}, !.flag = flag, !.cursor = d])
      <3>1. frame[j].flag \in BOOLEAN
        BY DEF TypeInv, TypeOK, Frame
      <3> QED BY <1>3, <3>1 DEF SendMark, NextMark, HandlerStep
    <2>2. d \in frame[j].work /\ d \in Device
      BY FirstOfSubset DEF TypeInv, TypeOK, Frame
    <2>3. frame[j].result[d] \in Answers
      BY <1>3, <2>2 DEF SendMark, TypeInv, AnswersKnown
    <2>4. StatusFor(frame[j].result[d]) = "sent" => pushes[d] > 0
      BY <1>3, <2>2, <2>3, BoundAssumption DEF SendMark, AnswersTrue, StatusFor
    <2>5. SentMeansPushed'
      BY <1>3, <2>1, <2>2, <2>4 DEF SendMark, SentMeansPushed, TypeInv, TypeOK
    <2>6. AnswersTrue'
      BY <1>3, <2>1, <2>2 DEF SendMark, Goto, AnswersTrue, TypeInv, TypeOK, Frame
    <2> QED BY <2>5, <2>6
  <1>4. CASE SendInvalidate(j)
    <2>1. SentMeansPushed'
      BY <1>4 DEF SendInvalidate, rowVars, SentMeansPushed
    <2>2. AnswersTrue'
      BY <1>4 DEF SendInvalidate, Goto, AnswersTrue, TypeInv, TypeOK
    <2> QED BY <2>1, <2>2
  <1>5. CASE SendRethrow(j)
    BY <1>5, ThrowHarmless, HarmlessSent DEF SendRethrow, rowVars
  <1> QED BY <1>1, <1>2, <1>3, <1>4, <1>5 DEF HandleSend

\* A delivery is recorded as sent only if the provider took a message for its device,
\* whatever fails, crashes, is retried, revoked or erased between the multicast and
\* the status write.
THEOREM SentIsTrue == Spec => []SentMeansPushed
  <1>1. Init => SentInv
    BY InitType DEF Init, SentInv, SentMeansPushed, AnswersTrue
  <1>2. SentInv /\ [Next]_vars => SentInv'
    <2> SUFFICES ASSUME SentInv, [Next]_vars PROVE SentInv'
      OBVIOUS
    <2>1. TypeInv /\ TypeInv'
      BY NextType DEF SentInv
    <2>2. ASSUME NEW j \in Job, Work(j) PROVE SentInv'
      BY <2>1, <2>2, DispatchHarmless, PromotionHarmless, BacklogHarmless, HarmlessSent,
         SendSent DEF Work
    <2>3. CASE \/ \E r \in Request : Ingest(r)
               \/ HandleNotice \/ Mobile \/ Failure \/ UNCHANGED vars
      BY <2>1, <2>3, OthersHarmless, HarmlessSent
    <2> QED BY <2>2, <2>3 DEF Next
  <1>3. SentInv => SentMeansPushed
    BY DEF SentInv
  <1> QED BY <1>1, <1>2, <1>3, PTL DEF Spec

-----------------------------------------------------------------------------
(* One push per device. Each delivery is handed to one job: the dispatch job   *)
(* works alone until it has enqueued its first send job, its pages go behind   *)
(* the cursor, and a promotion takes rows that no other job holds.             *)

Early == {"waiting", "createPending", "createDeferred"}
Paging == {"listPage", "addSend"}
Pushing == {"multicast", "mark", "invalidate"}
Marking == {"mark", "invalidate"}

\* Each step of a handler belongs to one kind of job, and a job that waits or was never
\* added has no locals.
JobsShape ==
  \A j \in Job :
    /\ step[j] = "unused" <=> kind[j] = "none"
    /\ step[j] \in {"unused", "waiting"} => frame[j] = EmptyFrame
    /\ step[j] \in {"createPending", "createDeferred", "listPage", "addSend", "addPromotion"}
         => kind[j] = "dispatch"
    /\ step[j] \in {"multicast", "mark", "invalidate", "rethrow"} => kind[j] = "send"
    /\ step[j] \in {"sendPromoted", "countDeferred", "requeue"} => kind[j] = "promote"
    /\ kind[j] # "send" => ids[j] = {}
    /\ step[j] \in {"createPending", "createDeferred"} => frame[j].cursor = 0

\* Only the call that created the event enqueues a dispatch job, before any other job.
OneDispatch ==
  /\ \A i, j \in Job : kind[i] = "dispatch" /\ kind[j] = "dispatch" => i = j
  /\ \A r, s \in Request : request[r] = "enqueue" /\ request[s] = "enqueue" => r = s
  /\ \A r \in Request : request[r] = "enqueue" => \A j \in Job : step[j] = "unused"
  /\ event = "none" => /\ \A r \in Request : request[r] = "idle"
                       /\ \A j \in Job : step[j] = "unused"

Shape == JobsShape /\ OneDispatch

\* Once a job was added the event exists and no call is about to enqueue one
LEMMA LiveStarted ==
  ASSUME OneDispatch, NEW j \in Job, step[j] # "unused"
  PROVE  event # "none" /\ \A r \in Request : request[r] # "enqueue"
  BY DEF OneDispatch

\* Job j takes a step and adds no job
Moves(j) ==
  /\ kind' = kind
  /\ \A i \in Job \ {j} : step'[i] = step[i] /\ frame'[i] = frame[i] /\ ids'[i] = ids[i]

LEMMA GotoMoves ==
  ASSUME TypeInv, NEW j \in Job, NEW s, NEW f, Goto(j, s, f)
  PROVE  Moves(j) /\ step'[j] = s /\ frame'[j] = f /\ ids' = ids
  BY DEF Goto, Moves, TypeInv, TypeOK

LEMMA ThrowMoves ==
  ASSUME TypeInv, NEW j \in Job, Throw(j)
  PROVE  Moves(j) /\ step'[j] \in {"waiting", "dead"} /\ frame'[j] = EmptyFrame /\ ids' = ids
  BY DEF Throw, Moves, TypeInv, TypeOK

\* Job j adds job k
Adds(j, k, what, rows) ==
  /\ j # k
  /\ step[k] = "unused" /\ step'[k] = "waiting"
  /\ kind'[k] = what /\ ids'[k] = rows /\ frame'[k] = frame[k]
  /\ \A i \in Job \ {k} : kind'[i] = kind[i] /\ ids'[i] = ids[i]
  /\ \A i \in Job \ {j, k} : step'[i] = step[i] /\ frame'[i] = frame[i]

LEMMA AddJobAdds ==
  ASSUME TypeInv, NEW j \in Job, NEW s, NEW k \in Job, NEW what, NEW rows,
         step[j] # "unused", AddJob(j, s, k, what, rows),
         \A i \in Job \ {j} : frame'[i] = frame[i]
  PROVE  Adds(j, k, what, rows) /\ step'[j] = s
  BY DEF AddJob, Adds, Fresh, TypeInv, TypeOK

\* What one step of a handler may do to the shape of its own job
OwnShape(j) ==
  /\ step'[j] # "unused"
  /\ step'[j] = "waiting" => frame'[j] = EmptyFrame
  /\ step'[j] \in {"createPending", "createDeferred", "listPage", "addSend", "addPromotion"}
       => kind[j] = "dispatch"
  /\ step'[j] \in {"multicast", "mark", "invalidate", "rethrow"} => kind[j] = "send"
  /\ step'[j] \in {"sendPromoted", "countDeferred", "requeue"} => kind[j] = "promote"
  /\ ids'[j] \in {ids[j], {}}
  /\ step'[j] \in {"createPending", "createDeferred"} => frame'[j].cursor = 0

LEMMA MovesShape ==
  ASSUME TypeInv, Shape, NEW j \in Job, step[j] # "unused",
         Moves(j), OwnShape(j), event' = event \/ event' # "none", UNCHANGED request
  PROVE  Shape'
  <1>1. JobsShape'
    BY DEF Shape, JobsShape, Moves, OwnShape
  <1>2. OneDispatch'
    BY LiveStarted DEF Shape, OneDispatch, Moves
  <1> QED BY <1>1, <1>2 DEF Shape

LEMMA AddsShape ==
  ASSUME TypeInv, Shape, NEW j \in Job, NEW k \in Job, NEW what \in {"send", "promote"}, NEW rows,
         step[j] # "unused", what # "send" => rows = {}, Adds(j, k, what, rows),
         OwnShape(j), UNCHANGED <<event, request>>
  PROVE  Shape'
  <1>1. JobsShape'
    BY DEF Shape, JobsShape, Adds, OwnShape
  <1>2. OneDispatch'
    BY LiveStarted DEF Shape, OneDispatch, Adds
  <1> QED BY <1>1, <1>2 DEF Shape

\* Nothing runs next to the dispatch job before its pages, and no promotion job before
\* its end.
DispatchFirst ==
  \A i, j \in Job : kind[i] = "dispatch" /\ i # j =>
    /\ step[i] \in Early => step[j] = "unused"
    /\ step[i] \in Paging \union {"addPromotion"} => kind[j] # "promote"

\* The rows handed to job j
Rows(j) == ids[j] \union (IF step[j] = "sendPromoted" THEN frame[j].work ELSE {})

\* No row is handed to two jobs.
RowsDisjoint ==
  \A i, j \in Job, d \in Device : d \in Rows(i) /\ d \in Rows(j) => i = j

\* What the dispatch job has handed out is behind its cursor, its page is after it.
PagesBehind ==
  \A i \in Job : step[i] \in Paging =>
    /\ \A j \in Job : \A d \in ids[j] : d <= frame[i].cursor
    /\ step[i] = "addSend" => \A d \in frame[i].work : d > frame[i].cursor

\* No row that was handed out, or is about to be, is deferred.
NotDeferred ==
  \A j \in Job : 
    /\ \A d \in Rows(j) : delivery[d] # "deferred"
    /\ step[j] = "addSend" => \A d \in frame[j].work : delivery[d] # "deferred"

\* A send handler works on rows of its job, and only a phone or an erasure changes them.
RowsHeld ==
  \A j \in Job : step[j] \in Pushing =>
    /\ frame[j].work \subseteq ids[j]
    /\ \A d \in frame[j].work : delivery[d] \in {"pending", "opened", "none"}

\* A row being pushed has had no push, and one being marked has had the push it answers.
AnswersExact ==
  \A j \in Job : \A d \in frame[j].work :
    /\ step[j] = "multicast" => pushes[d] = 0
    /\ step[j] \in Marking => pushes[d] = IF frame[j].result[d] = "ok" THEN 1 ELSE 0

\* A row with a push is settled, or its handler is about to mark it.
PushedOnce ==
  \A d \in Device : pushes[d] > 0 =>
    /\ pushes[d] = 1
    /\ \E j \in Job : kind[j] = "send"
    /\ \/ delivery[d] \notin {"pending", "deferred"}
       \/ \E j \in Job : step[j] \in Marking /\ d \in frame[j].work

Exclusive ==
  /\ DispatchFirst /\ RowsDisjoint /\ PagesBehind /\ NotDeferred
  /\ RowsHeld /\ AnswersExact /\ PushedOnce

\* The locals of a job are rows and a cursor
LEMMA FrameType ==
  ASSUME TypeInv, NEW j \in Job
  PROVE  /\ frame[j] \in Frame /\ frame[j].work \in SUBSET Device
         /\ frame[j].cursor \in Nat /\ ids[j] \in SUBSET Device
  BY DEF TypeInv, TypeOK, Frame

\* A step that hands out no row and starts no push
LEMMA CalmExclusive ==
  ASSUME TypeInv, TypeInv', Shape, Exclusive, NEW j \in Job, Moves(j), step[j] # "unused",
         UNCHANGED <<delivery, pushes>>, ids'[j] \in {ids[j], {}},
         step'[j] \notin Pushing \union Paging \union {"sendPromoted", "unused"},
         step[j] \notin Marking,
         kind[j] = "dispatch" => /\ step'[j] \in Early => step[j] \in Early
                                 /\ step'[j] = "addPromotion" => step[j] \in Early \union Paging
  PROVE  Exclusive'
  <1> USE DEF Exclusive, Moves
  <1>1. DispatchFirst'
    BY DEF DispatchFirst, Shape, JobsShape, Early, Paging
  <1>2. RowsDisjoint'
    BY DEF RowsDisjoint, Rows
  <1>3. PagesBehind'
    BY DEF PagesBehind, Paging
  <1>4. NotDeferred'
    BY DEF NotDeferred, Rows, Paging
  <1>5. RowsHeld'
    BY DEF RowsHeld, Pushing
  <1>6. AnswersExact'
    BY DEF AnswersExact, Pushing, Marking
  <1>7. PushedOnce'
    BY DEF PushedOnce, Pushing, Marking
  <1> QED BY <1>1, <1>2, <1>3, <1>4, <1>5, <1>6, <1>7

\* While the dispatch job has not listed a page, nothing was handed out
LEMMA AloneExclusive ==
  ASSUME TypeInv, TypeInv', Shape, Exclusive, NEW j \in Job, Moves(j),
         kind[j] = "dispatch", step[j] \in Early, UNCHANGED <<pushes, ids>>,
         step'[j] \notin Pushing \union {"addSend", "sendPromoted", "unused"}
  PROVE  Exclusive'
  <1> USE DEF Exclusive
  <1>1. \A i \in Job \ {j} : step[i] = "unused" /\ kind[i] = "none"
    BY DEF DispatchFirst, Shape, JobsShape
  <1>2. \A i \in Job : ids[i] = {} /\ ids'[i] = {}
    BY <1>1 DEF Shape, JobsShape
  <1>3. \A d \in Device : ~(pushes[d] > 0)
    BY <1>1 DEF PushedOnce
  <1>4. \A i \in Job \ {j} : step'[i] = "unused" /\ kind'[i] = "none"
    BY <1>1 DEF Moves
  <1>5. DispatchFirst'
    BY <1>4 DEF DispatchFirst
  <1>6. RowsDisjoint' /\ PagesBehind' /\ NotDeferred'
    BY <1>2, <1>4 DEF RowsDisjoint, PagesBehind, NotDeferred, Rows
  <1>7. RowsHeld' /\ AnswersExact'
    BY <1>4 DEF RowsHeld, AnswersExact, Pushing, Marking
  <1>8. PushedOnce'
    BY <1>3 DEF PushedOnce
  <1> QED BY <1>5, <1>6, <1>7, <1>8

\* A step of the API, a listener or a phone
LEMMA OutsideExclusive ==
  ASSUME TypeInv, TypeInv', Exclusive, UNCHANGED <<jobVars, pushes>>,
         \A d \in Device : delivery'[d] \in {delivery[d], "none", "opened"}
  PROVE  Exclusive'
  <1> USE DEF Exclusive, jobVars
  <1>1. DispatchFirst' /\ RowsDisjoint' /\ PagesBehind'
    BY DEF DispatchFirst, RowsDisjoint, PagesBehind, Rows
  <1>2. NotDeferred' /\ RowsHeld'
    BY FrameType DEF NotDeferred, RowsHeld, Rows
  <1>3. AnswersExact' /\ PushedOnce'
    BY DEF AnswersExact, PushedOnce
  <1> QED BY <1>1, <1>2, <1>3

\* A job is added with rows that no job but the adding one holds
LEMMA AddsExclusive ==
  ASSUME TypeInv, TypeInv', Shape, Exclusive, NEW j \in Job, NEW k \in Job,
         NEW what \in {"send", "promote"}, NEW rows \in SUBSET Device,
         Adds(j, k, what, rows), kind[j] \in {"dispatch", "promote"},
         UNCHANGED <<delivery, pushes>>,
         step'[j] \notin Pushing \union Early \union {"addSend", "sendPromoted", "unused"},
         step'[j] \in {"listPage", "addPromotion"} => step[j] \in Paging /\ what = "send",
         step'[j] = "listPage" =>
           /\ frame'[j].cursor >= frame[j].cursor
           /\ \A d \in rows : d <= frame'[j].cursor,
         \A i \in Job \ {j} : Rows(i) \intersect rows = {},
         \A d \in rows : delivery[d] # "deferred"
  PROVE  Exclusive'
  <1> USE DEF Exclusive
  <1>0. step[j] # "unused" /\ step[j] \notin Pushing /\ ids[j] = {} /\ k # j
    BY DEF Shape, JobsShape, Pushing, Adds
  <1>a. \A i \in Job : kind[i] = "dispatch" /\ i # j => step[i] \notin Early \union Paging \union {"addPromotion"}
    BY <1>0 DEF DispatchFirst, Shape, OneDispatch
  <1>b. \A i \in Job : step[i] \in Paging => kind[i] = "dispatch"
    BY DEF Shape, JobsShape, Paging
  <1>1. DispatchFirst'
    BY <1>0, <1>a DEF DispatchFirst, Adds, Early, Paging, Shape, OneDispatch
  <1>c. \A i \in Job \ {k} : Rows(i)' \subseteq Rows(i)
    BY DEF Rows, Adds
  <1>d. Rows(k)' = rows /\ Rows(j)' = {}
    BY <1>0 DEF Rows, Adds
  <1>2. RowsDisjoint'
    BY <1>c, <1>d DEF RowsDisjoint
  <1>3. PagesBehind'
    <2>1. \A i \in Job : step'[i] \in Paging => i = j
      BY <1>a, <1>b DEF Adds, Paging
    <2>2. CASE step'[j] \in Paging
      <3>1. step'[j] = "listPage" /\ step[j] \in Paging
        BY <2>2 DEF Paging
      <3>2. \A i \in Job : \A d \in ids'[i] : d <= frame'[j].cursor
        <4> SUFFICES ASSUME NEW i \in Job, NEW d \in ids'[i] PROVE d <= frame'[j].cursor
          OBVIOUS
        <4>1. CASE i = k
          BY <3>1, <4>1 DEF Adds
        <4>2. CASE i # k
          <5>1. d \in ids[i] /\ d <= frame[j].cursor
            BY <3>1, <4>2 DEF Adds, PagesBehind
          <5>2. d \in Nat /\ frame[j].cursor \in Nat /\ frame'[j].cursor \in Nat
            BY <5>1, FrameType, DeviceAssumption DEF TypeInv, TypeOK, Frame
          <5> QED BY <3>1, <5>1, <5>2
        <4> QED BY <4>1, <4>2
      <3> QED BY <2>1, <3>1, <3>2 DEF PagesBehind
    <2>3. CASE step'[j] \notin Paging
      BY <2>1, <2>3 DEF PagesBehind
    <2> QED BY <2>2, <2>3
  <1>4. NotDeferred'
    <2>1. \A i \in Job : \A d \in Rows(i)' : delivery'[d] # "deferred"
      BY <1>c, <1>d DEF NotDeferred
    <2>2. \A i \in Job : step'[i] = "addSend" => i # j /\ i # k
      BY DEF Adds
    <2> QED BY <2>1, <2>2 DEF NotDeferred, Adds
  <1>5. RowsHeld'
    <2>1. \A i \in Job : step'[i] \in Pushing => i # j /\ i # k
      BY DEF Pushing, Adds
    <2> QED BY <2>1 DEF RowsHeld, Adds
  <1>6. AnswersExact'
    <2>1. \A i \in Job : step'[i] \in Pushing => i # j /\ i # k
      BY DEF Pushing, Adds
    <2> QED BY <2>1 DEF AnswersExact, Pushing, Marking, Adds
  <1>7. PushedOnce'
    <2>1. \A i \in Job : kind[i] = "send" => kind'[i] = "send"
      BY DEF Adds, Shape, JobsShape
    <2>2. \A i \in Job : step[i] \in Marking => step'[i] = step[i] /\ frame'[i] = frame[i]
      BY <1>0 DEF Adds, Marking, Pushing
    <2> QED BY <2>1, <2>2 DEF PushedOnce
  <1> QED BY <1>1, <1>2, <1>3, <1>4, <1>5, <1>6, <1>7

\* The inductive invariant of the pushes
PushInv == TypeInv /\ Shape /\ (Undisturbed => Exclusive)

\* The handlers, one by one
LEMMA DispatchPush ==
  ASSUME PushInv, TypeInv', NEW j \in Job, HandleDispatch(j)
  PROVE  Shape' /\ (Undisturbed => Exclusive')
  <1> USE DEF PushInv
  <1>a. step[j] \in QueueStep \union HandlerStep /\ kind[j] \in JobKind
    BY DEF TypeInv, TypeOK
  <1>1. ASSUME step[j] \in Early, kind[j] = "dispatch", Moves(j), UNCHANGED <<event, request, pushes, ids>>,
               OwnShape(j), step'[j] \notin Pushing \union {"addSend", "sendPromoted", "unused"}
        PROVE  Shape' /\ (Undisturbed => Exclusive')
    BY <1>1, MovesShape, AloneExclusive DEF Early
  <1>2. CASE DispatchResolve(j)
    <2>1. step[j] \in Early /\ kind[j] = "dispatch" /\ UNCHANGED <<event, request, pushes>>
      BY <1>2 DEF DispatchResolve, Early, rowVars
    <2>2. frame[j].cursor = 0
      <3>1. step[j] = "waiting"
        BY <1>2 DEF DispatchResolve
      <3>2. EmptyFrame.cursor = 0
        BY DEF EmptyFrame
      <3> QED BY <3>1, <3>2 DEF Shape, JobsShape
    <2>3. CASE Throw(j)
      BY <1>1, <2>1, <2>3, ThrowMoves DEF OwnShape, Pushing
    <2>4. CASE ~Throw(j)
      <3>1. PICK immediate \in SUBSET Eligible :
              Goto(j, "createPending",
                   [frame[j] EXCEPT !.work = immediate, !.rest = Eligible \ immediate])
        BY <1>2, <2>4 DEF DispatchResolve
      <3>2. [frame[j] EXCEPT !.work = immediate, !.rest = Eligible \ immediate].cursor = 0
        BY <2>2, FrameType DEF Frame
      <3>3. Moves(j) /\ step'[j] = "createPending" /\ frame'[j].cursor = 0 /\ ids' = ids
        BY <3>1, <3>2, GotoMoves
      <3> QED BY <1>1, <2>1, <3>3 DEF OwnShape, Pushing
    <2> QED BY <2>3, <2>4
  <1>3. ASSUME NEW rows, NEW status, step[j] \in {"createPending", "createDeferred"},
               NEW next \in {"createDeferred", "listPage", "addPromotion", "readPending"},
               CreateDeliveries(j, rows, status, next), UNCHANGED <<event, request, pushes>>
        PROVE  Shape' /\ (Undisturbed => Exclusive')
    <2>1. step[j] \in Early /\ kind[j] = "dispatch" /\ frame[j].cursor = 0
      BY <1>3 DEF Early, Shape, JobsShape
    <2>2. CASE Throw(j)
      BY <1>1, <1>3, <2>1, <2>2, ThrowMoves DEF OwnShape, Pushing
    <2>3. CASE ~Throw(j)
      <3>1. Goto(j, next, frame[j])
        BY <1>3, <2>3 DEF CreateDeliveries, Goto, TypeInv, TypeOK
      <3> QED BY <1>1, <1>3, <2>1, <3>1, GotoMoves DEF OwnShape, Pushing
    <2> QED BY <2>2, <2>3
  <1>4. CASE DispatchCreatePending(j)
    BY <1>3, <1>4 DEF DispatchCreatePending
  <1>5. CASE DispatchCreateDeferred(j)
    BY <1>3, <1>5 DEF DispatchCreateDeferred
  <1>6. CASE DispatchListPage(j)
    <2> DEFINE page == FirstOf(PendingAfterCursor(j), PageSize)
               s == IF page = {} THEN AfterPages(j) ELSE "addSend"
               f == [frame[j] EXCEPT !.work = page, !.flag = (PendingAfterCursor(j) # page)]
    <2>1. page \subseteq PendingAfterCursor(j)
      BY FirstOfSubset DEF PendingAfterCursor, PendingRows
    <2>2. \A d \in page : d \in Device /\ d > frame[j].cursor /\ delivery[d] = "pending"
      BY <2>1 DEF PendingAfterCursor, PendingRows
    <2>3. step[j] = "listPage" /\ kind[j] = "dispatch" /\ UNCHANGED <<event, request, delivery, pushes>>
      BY <1>6 DEF DispatchListPage, rowVars, Shape, JobsShape
    <2>4. s \in {"addSend", "addPromotion", "readPending"}
      BY DEF AfterPages
    <2>5. f.work = page /\ f.cursor = frame[j].cursor
      BY FrameType DEF Frame
    <2>6. Moves(j) /\ step'[j] = s /\ frame'[j] = f /\ ids' = ids
      BY <1>6, GotoMoves DEF DispatchListPage
    <2> HIDE DEF page, s, f
    <2>7. Shape'
      BY <2>3, <2>4, <2>6, MovesShape DEF OwnShape
    <2>8. ASSUME Undisturbed, s # "addSend" PROVE Exclusive'
      BY <2>3, <2>4, <2>6, <2>8, CalmExclusive DEF Pushing, Paging, Early, Marking
    <2>9. ASSUME Undisturbed, s = "addSend" PROVE Exclusive'
      <3> USE <2>3, <2>6, <2>9 DEF Exclusive, Moves
      <3>1. DispatchFirst'
        BY DEF DispatchFirst, Early, Paging
      <3>2. RowsDisjoint'
        BY DEF RowsDisjoint, Rows
      <3>3. PagesBehind'
        BY <2>2, <2>5 DEF PagesBehind, Paging
      <3>4. NotDeferred'
        BY <2>2, <2>5 DEF NotDeferred, Rows
      <3>5. RowsHeld' /\ AnswersExact'
        BY DEF RowsHeld, AnswersExact, Pushing, Marking
      <3>6. PushedOnce'
        BY DEF PushedOnce, Marking
      <3> QED BY <3>1, <3>2, <3>3, <3>4, <3>5, <3>6
    <2> QED BY <2>7, <2>8, <2>9
  <1>7. CASE DispatchAddSend(j)
    <2>1. PICK k \in Job, last \in frame[j].work :
            /\ \A d \in frame[j].work : d <= last
            /\ AddJob(j, IF frame[j].flag THEN "listPage" ELSE AfterPages(j),
                      k, "send", frame[j].work)
            /\ frame' = [frame EXCEPT ![j] = [@ EXCEPT !.work = {}, !.cursor = last]]
      BY <1>7 DEF DispatchAddSend
    <2>2. step[j] = "addSend" /\ kind[j] = "dispatch" /\ UNCHANGED <<event, request, delivery, pushes>>
      BY <1>7 DEF DispatchAddSend, rowVars, Shape, JobsShape
    <2>3. frame'[j].cursor = last /\ \A i \in Job \ {j} : frame'[i] = frame[i]
      BY <2>1, FrameType DEF TypeInv, TypeOK, Frame
    <2>4. (IF frame[j].flag THEN "listPage" ELSE AfterPages(j)) \in {"listPage", "addPromotion", "readPending"}
      BY DEF AfterPages
    <2>5. Adds(j, k, "send", frame[j].work) /\ step'[j] \in {"listPage", "addPromotion", "readPending"}
      BY <2>1, <2>2, <2>3, <2>4, AddJobAdds
    <2>6. ids'[j] = ids[j]
      BY <2>5 DEF Adds
    <2>7. Shape'
      BY <2>2, <2>5, <2>6, AddsShape DEF OwnShape
    <2>8. ASSUME Undisturbed PROVE Exclusive'
      <3> USE DEF Exclusive
      <3>1. \A i \in Job, d \in frame[j].work : d \notin ids[i]
        <4> SUFFICES ASSUME NEW i \in Job, NEW d \in frame[j].work, d \in ids[i] PROVE FALSE
          OBVIOUS
        <4>1. d <= frame[j].cursor /\ d > frame[j].cursor
          BY <2>2, <2>8 DEF PagesBehind, Paging
        <4>2. d \in Nat /\ frame[j].cursor \in Nat
          BY FrameType, DeviceAssumption
        <4> QED BY <4>1, <4>2
      <3>2. \A i \in Job \ {j} : step[i] # "sendPromoted"
        BY <2>2, <2>8 DEF DispatchFirst, Shape, JobsShape, Paging
      <3>3. \A i \in Job \ {j} : Rows(i) \intersect frame[j].work = {}
        BY <3>1, <3>2 DEF Rows
      <3>4. \A d \in frame[j].work : delivery[d] # "deferred"
        BY <2>2, <2>8 DEF NotDeferred
      <3>5. frame'[j].cursor >= frame[j].cursor
        <4>1. last > frame[j].cursor
          BY <2>2, <2>8 DEF PagesBehind, Paging
        <4>2. last \in Nat /\ frame[j].cursor \in Nat
          BY FrameType, DeviceAssumption
        <4> QED BY <4>1, <4>2, <2>3
      <3>6. frame[j].work \in SUBSET Device
        BY FrameType
      <3>7. step[j] \in Paging /\ step'[j] \notin Pushing \union Early \union {"addSend", "sendPromoted", "unused"}
        BY <2>2, <2>5 DEF Paging, Pushing, Early
      <3> HIDE DEF Exclusive
      <3> QED BY <2>1, <2>2, <2>3, <2>5, <2>8, <3>3, <3>4, <3>5, <3>6, <3>7, AddsExclusive
    <2> QED BY <2>7, <2>8
  <1>8. CASE DispatchAddPromotion(j)
    <2>1. PICK k \in Job : AddJob(j, "readPending", k, "promote", {})
      BY <1>8 DEF DispatchAddPromotion
    <2>2. step[j] = "addPromotion" /\ kind[j] = "dispatch" /\ UNCHANGED <<event, request, delivery, pushes>>
      BY <1>8 DEF DispatchAddPromotion, rowVars, Shape, JobsShape
    <2>3. \A i \in Job \ {j} : frame'[i] = frame[i]
      BY <1>8 DEF DispatchAddPromotion, TypeInv, TypeOK
    <2>4. Adds(j, k, "promote", {}) /\ step'[j] = "readPending"
      BY <2>1, <2>2, <2>3, AddJobAdds
    <2>5. Shape'
      BY <2>2, <2>4, AddsShape DEF OwnShape, Adds
    <2>6. ASSUME Undisturbed PROVE Exclusive'
      BY <2>2, <2>4, <2>6, AddsExclusive DEF Pushing, Early
    <2> QED BY <2>5, <2>6
  <1> QED BY <1>2, <1>4, <1>5, <1>6, <1>7, <1>8 DEF HandleDispatch

LEMMA SendPush ==
  ASSUME PushInv, TypeInv', NEW j \in Job, HandleSend(j)
  PROVE  Shape' /\ (Undisturbed /\ Undisturbed' => Exclusive')
  <1> USE DEF PushInv
  <1>0. frame[j] \in Frame /\ frame[j].work \in SUBSET Device /\ ids[j] \in SUBSET Device
    BY FrameType
  <1>1. CASE SendListPending(j)
    <2> DEFINE selected == ids[j] \intersect PendingRows
               f == [frame[j] EXCEPT !.work = selected]
    <2>1. step[j] = "waiting" /\ kind[j] = "send" /\ UNCHANGED <<event, request, delivery, pushes>>
      BY <1>1 DEF SendListPending, rowVars
    <2>2. f.work = selected
      BY <1>0 DEF Frame
    <2>3. Moves(j) /\ step'[j] = (IF selected = {} THEN "readPending" ELSE "multicast")
            /\ frame'[j] = f /\ ids' = ids
      BY <1>1, GotoMoves DEF SendListPending
    <2> HIDE DEF f
    <2>4. Shape'
      BY <2>1, <2>3, MovesShape DEF OwnShape
    <2>5. ASSUME Undisturbed, selected = {} PROVE Exclusive'
      BY <2>1, <2>3, <2>5, CalmExclusive DEF Pushing, Paging, Early, Marking
    <2>6. ASSUME Undisturbed, selected # {} PROVE Exclusive'
      <3> USE <2>1, <2>2, <2>3, <2>6 DEF Exclusive, Moves
      <3>1. \A d \in selected : pushes[d] = 0
        <4> SUFFICES ASSUME NEW d \in selected, pushes[d] > 0 PROVE FALSE
          BY <1>0 DEF TypeInv, TypeOK
        <4>1. delivery[d] = "pending" /\ d \in Device
          BY <1>0 DEF PendingRows
        <4>2. PICK i \in Job : step[i] \in Marking /\ d \in frame[i].work
          BY <4>1 DEF PushedOnce
        <4>3. d \in ids[i] /\ d \in ids[j] /\ i # j
          BY <4>2 DEF RowsHeld, Pushing, Marking
        <4> QED BY <4>1, <4>3 DEF RowsDisjoint, Rows
      <3>2. DispatchFirst'
        BY DEF DispatchFirst, Early, Paging
      <3>3. RowsDisjoint' /\ PagesBehind' /\ NotDeferred'
        BY DEF RowsDisjoint, PagesBehind, NotDeferred, Rows, Paging
      <3>4. RowsHeld'
        BY DEF RowsHeld, Pushing, PendingRows
      <3>5. AnswersExact'
        BY <3>1 DEF AnswersExact, Marking
      <3>6. PushedOnce'
        BY DEF PushedOnce, Marking
      <3> QED BY <3>2, <3>3, <3>4, <3>5, <3>6
    <2> QED BY <2>4, <2>5, <2>6
  <1>2. CASE SendMulticast(j)
    <2>1. PICK result \in [Device -> Outcome] :
            /\ \A d \in Device \ frame[j].work : result[d] = "unsent"
            /\ faults' = faults + Cardinality({d \in Device : result[d] = "timeout"})
            /\ pushes' = [d \in Device |-> IF d \in Reached(result)
                                           THEN pushes[d] + 1 ELSE pushes[d]]
            /\ Goto(j, "mark", [frame[j] EXCEPT !.result = result])
      BY <1>2, BoundAssumption DEF SendMulticast, Outcome
    <2> DEFINE f == [frame[j] EXCEPT !.result = result]
    <2>2. step[j] = "multicast" /\ kind[j] = "send" /\ UNCHANGED <<event, request, delivery>>
      BY <1>2 DEF SendMulticast, rowVars, Shape, JobsShape
    <2>3. f.work = frame[j].work /\ f.result = result
      BY <1>0 DEF Frame
    <2>4. Moves(j) /\ step'[j] = "mark" /\ frame'[j] = f /\ ids' = ids
      BY <2>1, GotoMoves
    <2> HIDE DEF f
    <2>5. Shape'
      BY <2>2, <2>4, MovesShape DEF OwnShape
    <2>6. ASSUME Undisturbed, Undisturbed' PROVE Exclusive'
      <3> USE <2>2, <2>3, <2>4, <2>6 DEF Exclusive, Moves
      <3>1. \A d \in Device : result[d] # "timeout"
        <4> DEFINE late == {d \in Device : result[d] = "timeout"}
        <4>1. IsFiniteSet(late)
          BY DeviceAssumption, FS_Subset
        <4>2. Cardinality(late) = 0
          <5>1. Cardinality(late) \in Nat
            BY <4>1, FS_CardinalityType
          <5>2. 0 = 0 + Cardinality(late)
            BY <2>1 DEF Undisturbed
          <5> HIDE DEF late
          <5> QED BY <5>1, <5>2
        <4>3. late = {}
          BY <4>1, <4>2, FS_EmptySet
        <4> QED BY <4>3
      <3>2. \A d \in Device : pushes'[d] = IF result[d] = "ok" THEN pushes[d] + 1 ELSE pushes[d]
        BY <2>1, <3>1 DEF Reached
      <3>3. \A d \in frame[j].work : pushes[d] = 0
        BY DEF AnswersExact
      <3>4. \A d \in Device \ frame[j].work : pushes'[d] = pushes[d]
        BY <2>1, <3>2
      <3>5. \A d \in frame[j].work : pushes'[d] = IF result[d] = "ok" THEN 1 ELSE 0
        BY <1>0, <3>2, <3>3
      <3>6. \A i \in Job \ {j} : step[i] \in Pushing => frame[i].work \intersect frame[j].work = {}
        <4> SUFFICES ASSUME NEW i \in Job \ {j}, step[i] \in Pushing,
                            NEW d \in frame[i].work, d \in frame[j].work
                     PROVE  FALSE
          OBVIOUS
        <4>1. d \in ids[i] /\ d \in ids[j] /\ d \in Device
          BY <1>0 DEF RowsHeld, Pushing
        <4> QED BY <4>1 DEF RowsDisjoint, Rows
      <3>7. DispatchFirst'
        BY DEF DispatchFirst, Early, Paging
      <3>8. RowsDisjoint' /\ PagesBehind' /\ NotDeferred'
        BY DEF RowsDisjoint, PagesBehind, NotDeferred, Rows, Paging
      <3>9. RowsHeld'
        BY DEF RowsHeld, Pushing
      <3>10. AnswersExact'
        <4> SUFFICES ASSUME NEW i \in Job, NEW d \in frame'[i].work
                     PROVE  /\ step'[i] = "multicast" => pushes'[d] = 0
                            /\ step'[i] \in Marking =>
                                 pushes'[d] = IF frame'[i].result[d] = "ok" THEN 1 ELSE 0
          BY DEF AnswersExact
        <4>1. CASE i = j
          BY <3>5, <4>1 DEF Marking
        <4>2. CASE i # j /\ step[i] \in Pushing
          <5>1. d \in Device \ frame[j].work
            BY <3>6, <4>2, FrameType
          <5> QED BY <3>4, <4>2, <5>1 DEF AnswersExact
        <4>3. CASE i # j /\ step[i] \notin Pushing
          BY <4>3 DEF Pushing, Marking
        <4> QED BY <4>1, <4>2, <4>3
      <3>11. PushedOnce'
        <4> SUFFICES ASSUME NEW d \in Device, pushes'[d] > 0
                     PROVE  /\ pushes'[d] = 1
                            /\ \E i \in Job : kind'[i] = "send"
                            /\ \/ delivery'[d] \notin {"pending", "deferred"}
                               \/ \E i \in Job : step'[i] \in Marking /\ d \in frame'[i].work
          BY DEF PushedOnce
        <4>1. CASE d \in frame[j].work
          BY <3>5, <4>1 DEF Marking
        <4>2. CASE d \notin frame[j].work
          BY <3>4, <4>2 DEF PushedOnce, Marking
        <4> QED BY <4>1, <4>2
      <3> QED BY <3>7, <3>8, <3>9, <3>10, <3>11
    <2> QED BY <2>5, <2>6
  <1>3. CASE SendMark(j)
    <2>1. PICK d \in FirstOf(frame[j].work, 1) :
            LET outcome == frame[j].result[d]
                todo == frame[j].work \ {d}
                retry == frame[j].flag \/ outcome \in {"transient", "timeout"}
            IN  /\ delivery' = [delivery EXCEPT ![d] =
                                  IF @ = "none" THEN "none" ELSE StatusFor(outcome)]
                /\ Goto(j, IF outcome = "invalid" THEN "invalidate" ELSE NextMark(todo, retry),
                        [frame[j] EXCEPT !.work = todo, !.flag = retry, !.cursor = d])
      BY <1>3 DEF SendMark
    <2> DEFINE outcome == frame[j].result[d]
               todo == frame[j].work \ {d}
               retry == frame[j].flag \/ outcome \in {"transient", "timeout"}
               s == IF outcome = "invalid" THEN "invalidate" ELSE NextMark(todo, retry)
               f == [frame[j] EXCEPT !.work = todo, !.flag = retry, !.cursor = d]
    <2>2. d \in frame[j].work /\ d \in Device
      BY <1>0, FirstOfSubset
    <2>3. step[j] = "mark" /\ kind[j] = "send" /\ UNCHANGED <<event, request, pushes>>
      BY <1>3 DEF SendMark, Shape, JobsShape
    <2>4. f.work = todo /\ f.result = frame[j].result
      BY <1>0 DEF Frame
    <2>5. s \in {"mark", "invalidate", "rethrow", "readPending"} /\ (todo # {} => s \in Marking)
      BY DEF NextMark, Marking
    <2>6. Moves(j) /\ step'[j] = s /\ frame'[j] = f /\ ids' = ids
      BY <2>1, GotoMoves
    <2>7. /\ \A e \in Device \ {d} : delivery'[e] = delivery[e]
          /\ delivery[d] = "none" => delivery'[d] = "none"
          /\ delivery[d] # "none" => delivery'[d] = StatusFor(outcome)
      BY <2>1, <2>2 DEF TypeInv, TypeOK
    <2>8. outcome \in {"ok", "invalid", "transient", "timeout", "fatal"}
      BY <1>3, <2>2, BoundAssumption DEF SendMark, TypeInv, AnswersKnown
    <2>9. delivery'[d] \in {"none", "sent", "invalid_token", "pending", "failed"}
          /\ (outcome = "ok" => delivery'[d] \in {"none", "sent"})
      BY <2>7, <2>8 DEF StatusFor
    <2> HIDE DEF f, s, retry, outcome
    <2>10. Shape'
      BY <2>3, <2>5, <2>6, MovesShape DEF OwnShape
    <2>11. ASSUME Undisturbed PROVE Exclusive'
      <3> USE <2>3, <2>4, <2>6, <2>11 DEF Exclusive, Moves
      <3>1. \A i \in Job \ {j} : d \notin Rows(i)
        <4>1. d \in ids[j]
          BY <2>2 DEF RowsHeld, Pushing
        <4> QED BY <2>2, <4>1 DEF RowsDisjoint, Rows
      <3>2. DispatchFirst'
        BY <2>5 DEF DispatchFirst, Early, Paging
      <3>3. \A i \in Job : Rows(i)' \subseteq Rows(i)
        BY <2>5 DEF Rows
      <3>4. RowsDisjoint'
        BY <3>3 DEF RowsDisjoint
      <3>5. PagesBehind'
        BY <2>5 DEF PagesBehind, Paging
      <3>6. NotDeferred'
        <4>1. \A e \in Device : delivery'[e] = "deferred" => delivery[e] = "deferred"
          BY <2>7, <2>9
        <4> QED BY <2>5, <3>3, <4>1, FrameType DEF NotDeferred, Rows
      <3>7. RowsHeld'
        <4>1. \A i \in Job : step'[i] \in Pushing => step[i] \in Pushing
                               /\ frame'[i].work \subseteq frame[i].work /\ d \notin frame'[i].work
          BY <3>1 DEF RowsHeld, Rows, Pushing
        <4>2. \A i \in Job : \A e \in frame[i].work : e \in Device
          BY FrameType
        <4> QED BY <2>7, <4>1, <4>2 DEF RowsHeld
      <3>8. AnswersExact'
        BY <2>5 DEF AnswersExact, Marking
      <3>9. PushedOnce'
        <4> SUFFICES ASSUME NEW e \in Device, pushes[e] > 0
                     PROVE  /\ pushes[e] = 1
                            /\ \E i \in Job : kind'[i] = "send"
                            /\ \/ delivery'[e] \notin {"pending", "deferred"}
                               \/ \E i \in Job : step'[i] \in Marking /\ d \in Device /\ e \in frame'[i].work
          BY DEF PushedOnce
        <4>1. pushes[e] = 1 /\ \E i \in Job : kind'[i] = "send"
          BY DEF PushedOnce
        <4>2. CASE e = d
          <5>1. outcome = "ok"
            BY <2>2, <4>1, <4>2 DEF AnswersExact, Marking, outcome
          <5> QED BY <2>9, <4>1, <4>2, <5>1
        <4>3. CASE e # d
          <5>1. CASE delivery[e] \notin {"pending", "deferred"}
            BY <2>7, <4>1, <4>3, <5>1
          <5>2. ASSUME NEW i \in Job, step[i] \in Marking, e \in frame[i].work
                PROVE  step'[i] \in Marking /\ e \in frame'[i].work
            BY <2>5, <4>3, <5>2
          <5> QED BY <2>2, <4>1, <5>1, <5>2 DEF PushedOnce
        <4> QED BY <4>2, <4>3
      <3> QED BY <3>2, <3>4, <3>5, <3>6, <3>7, <3>8, <3>9
    <2> QED BY <2>10, <2>11
  <1>4. CASE SendInvalidate(j)
    <2> DEFINE s == NextMark(frame[j].work, frame[j].flag)
    <2>1. step[j] = "invalidate" /\ kind[j] = "send" /\ UNCHANGED <<event, request, delivery, pushes>>
      BY <1>4 DEF SendInvalidate, rowVars, Shape, JobsShape
    <2>2. s \in {"mark", "rethrow", "readPending"} /\ (frame[j].work # {} => s \in Marking)
      BY DEF NextMark, Marking
    <2>3. Moves(j) /\ step'[j] = s /\ frame'[j] = frame[j] /\ ids' = ids
      BY <1>4, GotoMoves DEF SendInvalidate
    <2> HIDE DEF s
    <2>4. Shape'
      BY <2>1, <2>2, <2>3, MovesShape DEF OwnShape
    <2>5. ASSUME Undisturbed PROVE Exclusive'
      <3> USE <2>1, <2>2, <2>3, <2>5 DEF Exclusive, Moves
      <3>1. DispatchFirst'
        BY DEF DispatchFirst, Early, Paging
      <3>2. RowsDisjoint' /\ PagesBehind' /\ NotDeferred'
        BY DEF RowsDisjoint, PagesBehind, NotDeferred, Rows, Paging
      <3>3. RowsHeld' /\ AnswersExact'
        BY DEF RowsHeld, AnswersExact, Pushing, Marking
      <3>4. PushedOnce'
        BY DEF PushedOnce, Marking
      <3> QED BY <3>1, <3>2, <3>3, <3>4
    <2> QED BY <2>4, <2>5
  <1>5. CASE SendRethrow(j)
    <2>1. step[j] = "rethrow" /\ kind[j] = "send" /\ UNCHANGED <<event, request, delivery, pushes>>
      BY <1>5 DEF SendRethrow, rowVars, Shape, JobsShape
    <2>2. Moves(j) /\ step'[j] \in {"waiting", "dead"} /\ frame'[j] = EmptyFrame /\ ids' = ids
      BY <1>5, ThrowMoves DEF SendRethrow
    <2>3. Shape'
      BY <2>1, <2>2, MovesShape DEF OwnShape
    <2>4. ASSUME Undisturbed PROVE Exclusive'
      BY <2>1, <2>2, <2>4, CalmExclusive DEF Pushing, Paging, Marking
    <2> QED BY <2>3, <2>4
  <1> QED BY <1>1, <1>2, <1>3, <1>4, <1>5 DEF HandleSend

LEMMA PromotionPush ==
  ASSUME PushInv, TypeInv', NEW j \in Job, HandlePromotion(j)
  PROVE  Shape' /\ (Undisturbed => Exclusive')
  <1> USE DEF PushInv
  <1>0. frame[j] \in Frame /\ frame[j].work \in SUBSET Device /\ ids[j] \in SUBSET Device
    BY FrameType
  <1>1. CASE PromoteDeferred(j)
    <2> DEFINE moved == FirstOf(DeferredRows, PromotionBatch)
               f == [frame[j] EXCEPT !.work = moved]
    <2>1. step[j] = "waiting" /\ kind[j] = "promote" /\ UNCHANGED <<event, request, pushes>>
      BY <1>1 DEF PromoteDeferred
    <2>2. f.work = moved
      BY <1>0 DEF Frame
    <2>3. moved \subseteq Device /\ \A d \in moved : delivery[d] = "deferred"
      BY FirstOfSubset DEF DeferredRows
    <2>4. /\ \A d \in moved : delivery'[d] = "pending"
          /\ \A d \in Device \ moved : delivery'[d] = delivery[d]
      BY <1>1, <2>3 DEF PromoteDeferred
    <2>5. Moves(j) /\ step'[j] = (IF moved = {} THEN "countDeferred" ELSE "sendPromoted")
            /\ frame'[j] = f /\ ids' = ids
      BY <1>1, GotoMoves DEF PromoteDeferred
    <2> HIDE DEF f, moved
    <2>6. Shape'
      BY <2>1, <2>5, MovesShape DEF OwnShape
    <2>7. ASSUME Undisturbed PROVE Exclusive'
      <3> USE <2>1, <2>2, <2>5, <2>7 DEF Exclusive, Moves
      <3>1. \A i \in Job : Rows(i) \intersect moved = {}
        BY <2>3 DEF NotDeferred
      <3>2. \A i \in Job : step[i] \in Pushing => frame[i].work \intersect moved = {}
        BY <2>3 DEF RowsHeld
      <3>3. \A i \in Job : step[i] \notin Early \union Paging \union {"addPromotion"} \/ kind[i] # "dispatch"
        BY DEF DispatchFirst
      <3>4. DispatchFirst'
        BY <3>3 DEF DispatchFirst
      <3>5. Rows(j)' \subseteq Rows(j) \union moved /\ \A i \in Job \ {j} : Rows(i)' = Rows(i)
        BY DEF Rows
      <3>6. RowsDisjoint'
        BY <3>1, <3>5 DEF RowsDisjoint
      <3>7. PagesBehind'
        BY DEF PagesBehind, Paging
      <3>8. NotDeferred'
        <4>1. \A d \in Device : delivery'[d] = "deferred" => d \notin moved /\ delivery[d] = "deferred"
          BY <2>4
        <4>2. \A i \in Job : Rows(i)' \subseteq Device
          BY <2>3, <3>5, FrameType DEF Rows
        <4>3. \A i \in Job : \A d \in Rows(i)' : delivery'[d] # "deferred"
          BY <3>5, <4>1, <4>2 DEF NotDeferred
        <4> QED BY <4>1, <4>3, FrameType DEF NotDeferred
      <3>9. RowsHeld'
        <4>1. \A i \in Job : step'[i] \in Pushing => i # j
          BY DEF Pushing
        <4> QED BY <2>4, <3>2, <4>1, FrameType DEF RowsHeld
      <3>10. AnswersExact'
        BY DEF AnswersExact, Marking
      <3>11. PushedOnce'
        <4>1. \A d \in moved : ~(pushes[d] > 0)
          BY <2>3, <3>2 DEF PushedOnce, Pushing, Marking
        <4>2. \A i \in Job : step[i] \in Marking => step'[i] \in Marking /\ frame'[i] = frame[i]
          BY DEF Marking
        <4> QED BY <2>4, <4>1, <4>2 DEF PushedOnce
      <3> QED BY <3>4, <3>6, <3>7, <3>8, <3>9, <3>10, <3>11
    <2> QED BY <2>6, <2>7
  <1>2. CASE PromoteAddSend(j)
    <2>1. PICK k \in Job : AddJob(j, "countDeferred", k, "send", frame[j].work)
      BY <1>2 DEF PromoteAddSend
    <2>2. step[j] = "sendPromoted" /\ kind[j] = "promote" /\ UNCHANGED <<event, request, delivery, pushes>>
      BY <1>2 DEF PromoteAddSend, rowVars, Shape, JobsShape
    <2>3. \A i \in Job \ {j} : frame'[i] = frame[i]
      BY <1>2 DEF PromoteAddSend, TypeInv, TypeOK
    <2>4. Adds(j, k, "send", frame[j].work) /\ step'[j] = "countDeferred"
      BY <2>1, <2>2, <2>3, AddJobAdds
    <2>5. Shape'
      BY <2>2, <2>4, AddsShape DEF OwnShape, Adds
    <2>6. ASSUME Undisturbed PROVE Exclusive'
      <3>1. \A i \in Job \ {j} : Rows(i) \intersect frame[j].work = {}
        BY <1>0, <2>2, <2>6 DEF Exclusive, RowsDisjoint, Rows
      <3>2. \A d \in frame[j].work : delivery[d] # "deferred"
        BY <2>2, <2>6 DEF Exclusive, NotDeferred, Rows
      <3> QED BY <1>0, <2>2, <2>4, <2>6, <3>1, <3>2, AddsExclusive DEF Pushing, Early
    <2> QED BY <2>5, <2>6
  <1>3. CASE PromoteCountDeferred(j)
    <2>1. step[j] = "countDeferred" /\ kind[j] = "promote" /\ UNCHANGED <<event, request, delivery, pushes>>
      BY <1>3 DEF PromoteCountDeferred, rowVars, Shape, JobsShape
    <2>2. Moves(j) /\ step'[j] \in {"requeue", "readPending"} /\ ids' = ids
      BY <1>3, GotoMoves DEF PromoteCountDeferred
    <2>3. Shape'
      BY <2>1, <2>2, MovesShape DEF OwnShape
    <2>4. ASSUME Undisturbed PROVE Exclusive'
      BY <2>1, <2>2, <2>4, CalmExclusive DEF Pushing, Paging, Marking
    <2> QED BY <2>3, <2>4
  <1>4. CASE PromoteRequeue(j)
    <2>1. PICK k \in Job : AddJob(j, "readPending", k, "promote", {})
      BY <1>4 DEF PromoteRequeue
    <2>2. step[j] = "requeue" /\ kind[j] = "promote" /\ UNCHANGED <<event, request, delivery, pushes, frame>>
      BY <1>4 DEF PromoteRequeue, rowVars, Shape, JobsShape
    <2>3. Adds(j, k, "promote", {}) /\ step'[j] = "readPending"
      BY <2>1, <2>2, AddJobAdds
    <2>4. Shape'
      BY <2>2, <2>3, AddsShape DEF OwnShape, Adds
    <2>5. ASSUME Undisturbed PROVE Exclusive'
      BY <2>2, <2>3, <2>5, AddsExclusive DEF Pushing, Early
    <2> QED BY <2>4, <2>5
  <1> QED BY <1>1, <1>2, <1>3, <1>4 DEF HandlePromotion

LEMMA BacklogPush ==
  ASSUME PushInv, TypeInv', NEW j \in Job, HandleBacklog(j)
  PROVE  Shape' /\ (Undisturbed => Exclusive')
  <1> USE DEF PushInv
  <1>1. UNCHANGED <<request, delivery, pushes>> /\ (event' = event \/ event' # "none")
    BY DEF HandleBacklog, BacklogReadPending, BacklogReadDeferred, BacklogWriteStatus, rowVars
  <1>2. /\ Moves(j) /\ ids'[j] \in {ids[j], {}}
        /\ step[j] \in {"readPending", "readDeferred", "writeStatus"}
        /\ step'[j] \in {"readDeferred", "writeStatus", "done"}
    <2>1. CASE BacklogReadPending(j)
      BY <2>1, GotoMoves DEF BacklogReadPending
    <2>2. CASE BacklogReadDeferred(j)
      BY <2>2, GotoMoves DEF BacklogReadDeferred
    <2>3. CASE BacklogWriteStatus(j)
      BY <2>3 DEF BacklogWriteStatus, Moves, TypeInv, TypeOK
    <2> QED BY <2>1, <2>2, <2>3 DEF HandleBacklog
  <1>3. Shape'
    BY <1>1, <1>2, MovesShape DEF OwnShape
  <1>4. ASSUME Undisturbed PROVE Exclusive'
    BY <1>1, <1>2, <1>4, CalmExclusive DEF Pushing, Paging, Early, Marking
  <1> QED BY <1>3, <1>4

LEMMA OutsideShape ==
  ASSUME Shape, UNCHANGED <<jobVars, request>>, event' = event \/ event' # "none"
  PROVE  Shape'
  BY DEF Shape, JobsShape, OneDispatch, jobVars

LEMMA IngestPush ==
  ASSUME PushInv, TypeInv', NEW r \in Request, Ingest(r)
  PROVE  Shape' /\ (Undisturbed => Exclusive')
  <1> USE DEF PushInv
  <1>1. CASE IngestInsert(r)
    <2>1. JobsShape'
      BY <1>1 DEF IngestInsert, Shape, JobsShape, jobVars
    <2>2. OneDispatch'
      BY <1>1 DEF IngestInsert, Shape, OneDispatch, jobVars, TypeInv, TypeOK
    <2>3. Undisturbed => Exclusive'
      BY <1>1, OutsideExclusive DEF IngestInsert
    <2> QED BY <2>1, <2>2, <2>3 DEF Shape
  <1>2. CASE IngestEnqueue(r)
    <2>1. PICK k \in Job : /\ kind' = [kind EXCEPT ![k] = "dispatch"]
                           /\ step' = [step EXCEPT ![k] = "waiting"]
      BY <1>2 DEF IngestEnqueue
    <2>2. request[r] = "enqueue" /\ request' = [request EXCEPT ![r] = "markQueued"]
          /\ UNCHANGED <<event, ids, frame, delivery, pushes>>
      BY <1>2 DEF IngestEnqueue, rowVars
    <2>3. \A j \in Job : step[j] = "unused" /\ kind[j] = "none" /\ ids[j] = {} /\ frame[j] = EmptyFrame
      BY <2>2 DEF Shape, JobsShape, OneDispatch
    <2>4. /\ kind'[k] = "dispatch" /\ step'[k] = "waiting"
          /\ \A j \in Job \ {k} : kind'[j] = "none" /\ step'[j] = "unused"
      BY <2>1, <2>3 DEF TypeInv, TypeOK
    <2>5. JobsShape'
      BY <2>2, <2>3, <2>4 DEF JobsShape
    <2>6. OneDispatch'
      BY <2>2, <2>4 DEF Shape, OneDispatch, TypeInv, TypeOK
    <2>7. ASSUME Undisturbed PROVE Exclusive'
      <3> USE <2>2, <2>3, <2>4, <2>7 DEF Exclusive
      <3>1. DispatchFirst'
        BY DEF DispatchFirst, Paging
      <3>2. RowsDisjoint' /\ PagesBehind' /\ NotDeferred'
        BY DEF RowsDisjoint, PagesBehind, NotDeferred, Rows
      <3>3. RowsHeld' /\ AnswersExact'
        BY DEF RowsHeld, AnswersExact, Pushing, Marking
      <3>4. PushedOnce'
        BY DEF PushedOnce
      <3> QED BY <3>1, <3>2, <3>3, <3>4
    <2> QED BY <2>5, <2>6, <2>7 DEF Shape
  <1>3. CASE IngestMarkQueued(r)
    <2>1. JobsShape'
      BY <1>3 DEF IngestMarkQueued, Shape, JobsShape, jobVars
    <2>2. OneDispatch'
      BY <1>3 DEF IngestMarkQueued, Shape, OneDispatch, jobVars, TypeInv, TypeOK
    <2>3. Undisturbed => Exclusive'
      BY <1>3, OutsideExclusive DEF IngestMarkQueued
    <2> QED BY <2>1, <2>2, <2>3 DEF Shape
  <1> QED BY <1>1, <1>2, <1>3 DEF Ingest

\* What a phone can do to the deliveries
LEMMA MobileStep ==
  ASSUME TypeInv, Mobile
  PROVE  /\ UNCHANGED <<jobVars, pushes, request, event, faults, crashes, notices, dlq>>
         /\ \A d \in Device : delivery'[d] \in {delivery[d], "none", "opened"}
         /\ \A d \in Device : delivery[d] = "none" => delivery'[d] = "none"
  BY DEF Mobile, RegisterDevice, RevokeDevice, UpsertSubscription, DeleteByAuthSubject,
     MarkOpened, deviceVars, rowVars, dlqVars, envVars

\* What has failed stays on record
LEMMA UndisturbedBefore ==
  ASSUME TypeInv, [Next]_vars
  PROVE  Undisturbed' => Undisturbed
  <1>1. CASE UNCHANGED <<faults, crashes>>
    BY <1>1 DEF Undisturbed
  <1>2. CASE Crash \/ (\E r \in Request : IngestFails(r)) \/ (\E j \in Job : HandlerFails(j))
    BY <1>2 DEF Crash, IngestFails, HandlerFails, Undisturbed, TypeInv, TypeOK
  <1>3. ASSUME NEW j \in Job, SendMulticast(j) PROVE Undisturbed' => Undisturbed
    <2>1. crashes' = crashes
      BY <1>3 DEF SendMulticast
    <2>2. PICK result \in [Device -> Outcome] :
            /\ faults' = faults + Cardinality({d \in Device : result[d] = "timeout"})
            /\ Goto(j, "mark", [frame[j] EXCEPT !.result = result])
      BY <1>3, BoundAssumption DEF SendMulticast, Outcome
    <2> DEFINE late == {d \in Device : result[d] = "timeout"}
    <2>3. Cardinality(late) \in Nat
      BY DeviceAssumption, FS_Subset, FS_CardinalityType
    <2> HIDE DEF late
    <2> QED BY <2>1, <2>2, <2>3 DEF late, Undisturbed, TypeInv, TypeOK
  <1> QED
    BY <1>1, <1>2, <1>3, MobileStep DEF Next, vars, envVars, Ingest, IngestInsert, IngestEnqueue, IngestMarkQueued,
      Work, HandleDispatch, DispatchResolve, DispatchCreatePending, DispatchCreateDeferred,
      DispatchListPage, DispatchAddSend, DispatchAddPromotion, HandleSend, SendListPending,
      SendMark, SendInvalidate, SendRethrow, HandlePromotion, PromoteDeferred, PromoteAddSend,
      PromoteCountDeferred, PromoteRequeue, HandleBacklog, BacklogReadPending,
      BacklogReadDeferred, BacklogWriteStatus, HandleNotice, NoticeMark, NoticeDlq, Failure

LEMMA NextPush ==
  ASSUME PushInv, [Next]_vars
  PROVE  PushInv'
  <1> USE DEF PushInv
  <1>1. TypeInv'
    BY NextType
  <1>2. Undisturbed' => Undisturbed
    BY UndisturbedBefore
  <1>3. ASSUME NEW j \in Job, Work(j) PROVE PushInv'
    BY <1>1, <1>2, <1>3, DispatchPush, SendPush, PromotionPush, BacklogPush DEF Work
  <1>4. ASSUME NEW r \in Request, Ingest(r) PROVE PushInv'
    BY <1>1, <1>2, <1>4, IngestPush
  <1>5. CASE HandleNotice
    <2>1. UNCHANGED <<jobVars, request, delivery, pushes>> /\ (event' = event \/ event' # "none")
      BY <1>5 DEF HandleNotice, NoticeMark, NoticeDlq, rowVars
    <2> QED BY <1>1, <1>2, <2>1, OutsideShape, OutsideExclusive
  <1>6. CASE Mobile
    BY <1>1, <1>2, <1>6, MobileStep, OutsideShape, OutsideExclusive
  <1>7. CASE UNCHANGED vars
    BY <1>1, <1>2, <1>7, OutsideShape, OutsideExclusive DEF vars, rowVars
  <1>8. CASE Failure
    <2>1. ~Undisturbed'
      BY <1>8 DEF Failure, Crash, IngestFails, HandlerFails, Undisturbed, TypeInv, TypeOK
    <2>2. CASE Crash
      <3>1. /\ UNCHANGED <<kind, ids, request, event>> /\ \A j \in Job : frame'[j] = EmptyFrame
            /\ \A j \in Job : step'[j] = step[j] \/ (step[j] \in HandlerStep /\ step'[j] = "waiting")
            /\ \A j \in Job : step'[j] \notin HandlerStep
        BY <2>2 DEF Crash, Running, rowVars, TypeInv, TypeOK, QueueStep, HandlerStep
      <3>2. JobsShape'
        BY <3>1 DEF Shape, JobsShape, HandlerStep
      <3>3. OneDispatch'
        BY <3>1 DEF Shape, OneDispatch, HandlerStep
      <3> QED BY <1>1, <2>1, <3>2, <3>3 DEF Shape
    <2>3. ASSUME NEW r \in Request, IngestFails(r) PROVE Shape'
      <3>1. UNCHANGED <<jobVars, event>> /\ request' = [request EXCEPT ![r] = "rejected"]
            /\ request[r] # "idle"
        BY <2>3 DEF IngestFails, rowVars
      <3>2. JobsShape'
        BY <3>1 DEF Shape, JobsShape, jobVars
      <3>3. OneDispatch'
        BY <3>1 DEF Shape, OneDispatch, jobVars, TypeInv, TypeOK
      <3> QED BY <3>2, <3>3 DEF Shape
    <2>4. ASSUME NEW j \in Job, HandlerFails(j) PROVE Shape'
      <3>1. Throw(j) /\ step[j] # "unused" /\ UNCHANGED <<event, request>>
        BY <2>4 DEF HandlerFails, Running, HandlerStep, rowVars
      <3> QED BY <3>1, ThrowMoves, MovesShape DEF OwnShape
    <2> QED BY <1>1, <1>8, <2>1, <2>2, <2>3, <2>4 DEF Failure
  <1> QED BY <1>3, <1>4, <1>5, <1>6, <1>7, <1>8 DEF Next

LEMMA InitPush == Init => PushInv
  <1> SUFFICES ASSUME Init PROVE PushInv
    OBVIOUS
  <1>1. TypeInv
    BY InitType
  <1>2. Shape
    BY DEF Init, Shape, JobsShape, OneDispatch
  <1>3. Exclusive
    BY DEF Init, Exclusive, DispatchFirst, RowsDisjoint, Rows, PagesBehind, NotDeferred,
       RowsHeld, AnswersExact, PushedOnce, Paging, Pushing, Marking
  <1> QED BY <1>1, <1>2, <1>3 DEF PushInv

\* While no call fails and no worker crashes, a device gets the alert at most once: the
\* send jobs, their retries and the promotions never push a row two of them hold.
THEOREM PushedAtMostOnce == Spec => []AtMostOnePush
  <1>1. PushInv => AtMostOnePush
    BY DEF PushInv, Exclusive, PushedOnce, AtMostOnePush, TypeInv, TypeOK
  <1> QED BY <1>1, InitPush, NextPush, PTL DEF Spec

-----------------------------------------------------------------------------
(* The delivery contract. Every step of the pipeline is a step of the          *)
(* contract on the rows and the pushes, or leaves both alone.                  *)

\* Rows change status as the contract allows
LEMMA SettleStep ==
  ASSUME TypeInv, TypeInv', UNCHANGED pushes,
         \A d \in Device : delivery'[d] # delivery[d] =>
           /\ <<delivery[d], delivery'[d]>> \in Contract!Moves
           /\ Contract!Truthful(d, delivery'[d])
  PROVE  Contract!Next
  BY DEF Contract!Next, Contract!Settle, TypeInv, TypeOK, DeliveryStatus

\* The row a send handler marks is still open, and had a push if the answer says so
LEMMA MarkedRow ==
  ASSUME PushInv, Undisturbed, NEW j \in Job, step[j] = "mark", NEW d \in frame[j].work
  PROVE  /\ delivery[d] \in {"pending", "opened", "none"}
         /\ pushes[d] = IF frame[j].result[d] = "ok" THEN 1 ELSE 0
  BY DEF PushInv, Exclusive, RowsHeld, AnswersExact, Pushing, Marking

\* The handlers and the phones take contract steps
LEMMA ContractSend ==
  ASSUME PushInv, PushInv', Undisturbed, Undisturbed', NEW j \in Job, HandleSend(j)
  PROVE  [Contract!Next]_<<delivery, pushes>>
  <1> USE DEF PushInv
  <1>0. frame[j] \in Frame /\ frame[j].work \in SUBSET Device
    BY FrameType
  <1>1. CASE SendMulticast(j)
    <2>1. PICK result \in [Device -> Outcome] :
            /\ \A d \in Device \ frame[j].work : result[d] = "unsent"
            /\ pushes' = [d \in Device |-> IF d \in Reached(result)
                                           THEN pushes[d] + 1 ELSE pushes[d]]
            /\ Goto(j, "mark", [frame[j] EXCEPT !.result = result])
      BY <1>1, BoundAssumption DEF SendMulticast, Outcome
    <2>2. Reached(result) \in SUBSET Device /\ Reached(result) \subseteq frame[j].work
      BY <2>1 DEF Reached
    <2>3. \A d \in frame[j].work : pushes[d] = 0 /\ delivery[d] \in {"pending", "opened", "none"}
      BY <1>1 DEF SendMulticast, Exclusive, AnswersExact, RowsHeld, Pushing
    <2>4. pushes' = [d \in Device |-> IF d \in Reached(result) THEN 1 ELSE pushes[d]]
      BY <2>1, <2>2, <2>3
    <2>5. UNCHANGED delivery
      BY <1>1 DEF SendMulticast, rowVars
    <2> QED BY <2>2, <2>3, <2>4, <2>5 DEF Contract!Next, Contract!Push
  <1>2. CASE SendMark(j)
    <2>1. PICK d \in FirstOf(frame[j].work, 1) :
            delivery' = [delivery EXCEPT ![d] =
                           IF @ = "none" THEN "none" ELSE StatusFor(frame[j].result[d])]
      BY <1>2 DEF SendMark
    <2>2. d \in frame[j].work /\ d \in Device
      BY <1>0, FirstOfSubset
    <2>3. step[j] = "mark" /\ UNCHANGED pushes
      BY <1>2 DEF SendMark
    <2>4. frame[j].result[d] \in {"ok", "invalid", "transient", "timeout", "fatal"}
      BY <2>2, <2>3, BoundAssumption DEF TypeInv, AnswersKnown
    <2>5. /\ \A e \in Device \ {d} : delivery'[e] = delivery[e]
          /\ delivery'[d] = IF delivery[d] = "none" THEN "none" ELSE StatusFor(frame[j].result[d])
      BY <2>1, <2>2 DEF TypeInv, TypeOK
    <2>6. /\ delivery[d] \in {"pending", "opened", "none"}
          /\ pushes[d] = IF frame[j].result[d] = "ok" THEN 1 ELSE 0
      BY <2>2, <2>3, MarkedRow
    <2>7. delivery'[d] # delivery[d] => <<delivery[d], delivery'[d]>> \in Contract!Moves
      BY <2>4, <2>5, <2>6 DEF StatusFor, Contract!Moves
    <2>8. Contract!Truthful(d, delivery'[d])
      BY <2>4, <2>5, <2>6 DEF StatusFor, Contract!Truthful
    <2> QED BY <2>3, <2>5, <2>7, <2>8, SettleStep
  <1>3. CASE SendListPending(j) \/ SendInvalidate(j) \/ SendRethrow(j)
    BY <1>3 DEF SendListPending, SendInvalidate, SendRethrow, rowVars
  <1> QED BY <1>1, <1>2, <1>3 DEF HandleSend

LEMMA ContractWork ==
  ASSUME PushInv, PushInv', NEW j \in Job,
         HandleDispatch(j) \/ HandlePromotion(j) \/ HandleBacklog(j)
  PROVE  [Contract!Next]_<<delivery, pushes>>
  <1> USE DEF PushInv
  <1>1. ASSUME NEW rows, NEW status \in {"pending", "deferred"}, NEW next,
               CreateDeliveries(j, rows, status, next), UNCHANGED pushes
        PROVE  [Contract!Next]_<<delivery, pushes>>
    <2>1. CASE UNCHANGED delivery
      BY <1>1, <2>1
    <2>2. CASE ~ UNCHANGED delivery
      <3>1. \A d \in Device : delivery'[d] # delivery[d] => delivery[d] = "none" /\ delivery'[d] = status
        BY <1>1, <2>2 DEF CreateDeliveries
      <3>2. \A d \in Device : delivery'[d] # delivery[d] =>
              <<delivery[d], delivery'[d]>> \in Contract!Moves /\ Contract!Truthful(d, delivery'[d])
        BY <3>1 DEF Contract!Moves, Contract!Truthful
      <3> QED BY <1>1, <3>2, SettleStep
    <2> QED BY <2>1, <2>2
  <1>2. CASE DispatchCreatePending(j) \/ DispatchCreateDeferred(j)
    BY <1>1, <1>2 DEF DispatchCreatePending, DispatchCreateDeferred
  <1>3. CASE PromoteDeferred(j)
    <2>1. \A d \in Device : delivery'[d] # delivery[d] => delivery[d] = "deferred" /\ delivery'[d] = "pending"
      BY <1>3, FirstOfSubset DEF PromoteDeferred, DeferredRows, TypeInv, TypeOK
    <2>2. UNCHANGED pushes
      BY <1>3 DEF PromoteDeferred
    <2>3. \A d \in Device : delivery'[d] # delivery[d] =>
            <<delivery[d], delivery'[d]>> \in Contract!Moves /\ Contract!Truthful(d, delivery'[d])
      BY <2>1 DEF Contract!Moves, Contract!Truthful
    <2> QED BY <2>2, <2>3, SettleStep
  <1>4. CASE \/ DispatchResolve(j) \/ DispatchListPage(j) \/ DispatchAddSend(j)
             \/ DispatchAddPromotion(j) \/ PromoteAddSend(j) \/ PromoteCountDeferred(j)
             \/ PromoteRequeue(j) \/ HandleBacklog(j)
    BY <1>4 DEF DispatchResolve, DispatchListPage, DispatchAddSend, DispatchAddPromotion,
       PromoteAddSend, PromoteCountDeferred, PromoteRequeue, HandleBacklog,
       BacklogReadPending, BacklogReadDeferred, BacklogWriteStatus, rowVars
  <1> QED BY <1>2, <1>3, <1>4 DEF HandleDispatch, HandlePromotion

LEMMA ContractMobile ==
  ASSUME PushInv, PushInv', Mobile
  PROVE  [Contract!Next]_<<delivery, pushes>>
  <1> USE DEF PushInv
  <1>1. \A d \in Device : delivery'[d] # delivery[d] =>
          delivery[d] # "none" /\ delivery'[d] \in {"none", "opened"}
    BY MobileStep
  <1>2. \A d \in Device : delivery[d] \in DeliveryStatus
    BY DEF TypeInv, TypeOK
  <1>3. \A d \in Device : delivery'[d] # delivery[d] =>
          <<delivery[d], delivery'[d]>> \in Contract!Moves
    BY <1>1, <1>2 DEF Contract!Moves, DeliveryStatus
  <1>4. \A d \in Device : delivery'[d] # delivery[d] => Contract!Truthful(d, delivery'[d])
    BY <1>1 DEF Contract!Truthful
  <1> QED BY <1>3, <1>4, MobileStep, SettleStep

LEMMA ContractStep ==
  ASSUME PushInv, PushInv', Undisturbed', [Next]_vars
  PROVE  [Contract!Next]_<<delivery, pushes>>
  <1>1. Undisturbed
    BY UndisturbedBefore DEF PushInv
  <1>2. ASSUME NEW j \in Job, Work(j) PROVE [Contract!Next]_<<delivery, pushes>>
    BY <1>1, <1>2, ContractSend, ContractWork DEF Work
  <1>3. CASE Mobile
    BY <1>3, ContractMobile
  <1>4. CASE (\E r \in Request : Ingest(r)) \/ HandleNotice \/ Failure \/ UNCHANGED vars
    BY <1>4 DEF Ingest, IngestInsert, IngestEnqueue, IngestMarkQueued, HandleNotice,
       NoticeMark, NoticeDlq, Failure, Crash, IngestFails, HandlerFails, vars, rowVars
  <1> QED BY <1>2, <1>3, <1>4 DEF Next

LEMMA ContractInit == Init => Contract!Init
  BY DEF Init, Contract!Init

\* While nothing fails the pipeline implements the delivery contract: a row moves along the
\* moves of the contract, is pushed at most once, and records a true outcome.
THEOREM ContractKept == Spec /\ []Undisturbed => ImplementsContract
  <1> QED BY InitPush, NextPush, ContractInit, ContractStep, PTL
          DEF Spec, ImplementsContract, Contract!Spec

-----------------------------------------------------------------------------
(* Dead letters. A job dies only in Throw, which leaves the notice that the    *)
(* 'failed' listener turns into an entry of the dead-letter queue.             *)

\* A step that neither kills a job nor touches its notices
Survives ==
  /\ UNCHANGED <<notices, dlq>>
  /\ \A j \in Job : step'[j] = "dead" => step[j] = "dead"

LEMMA ThrowDead ==
  ASSUME TypeInv, DeadIsDeadLettered, NEW j \in Job, Live(j), Throw(j), UNCHANGED crashes
  PROVE  DeadIsDeadLettered'
  <1> SUFFICES ASSUME crashes = 0, NEW i \in Job, step'[i] = "dead"
               PROVE  dlq'[i] > 0 \/ \E n \in notices' : n.job = i
    BY DEF DeadIsDeadLettered
  <1>1. dlq' = dlq /\ notices \subseteq notices'
    BY DEF Throw
  <1>2. CASE i = j
    <2>1. ~(made[j] + 1 < Attempts)
      <3>1. step'[j] = IF made[j] + 1 < Attempts THEN "waiting" ELSE "dead"
        BY DEF Throw, TypeInv, TypeOK
      <3> QED BY <1>2, <3>1
    <2> DEFINE notice == [job |-> j, attempt |-> made[j] + 1,
                          at |-> IF kind[j] = "dispatch" THEN "mark" ELSE "dlq"]
    <2>2. made[j] + 1 \in Nat /\ Attempts \in Nat
      BY BoundAssumption DEF TypeInv, TypeOK
    <2>3. NoticesOf(j, made[j] + 1) = {notice}
      BY <2>1, <2>2 DEF NoticesOf
    <2>4. notice \in notices' /\ notice.job = j
      BY <2>3 DEF Throw
    <2> QED BY <1>2, <2>4
  <1>3. CASE i # j
    <2>1. step[i] = "dead"
      BY <1>3 DEF Throw, TypeInv, TypeOK
    <2> QED BY <1>1, <2>1 DEF DeadIsDeadLettered
  <1> QED BY <1>2, <1>3

LEMMA SurvivesDead ==
  ASSUME DeadIsDeadLettered, Survives, crashes' = 0 => crashes = 0
  PROVE  DeadIsDeadLettered'
  BY DEF DeadIsDeadLettered, Survives

LEMMA WorkSurvives ==
  ASSUME TypeInv, NEW j \in Job, Work(j)
  PROVE  crashes' = crashes /\ (Survives \/ (Live(j) /\ Throw(j)))
  <1>1. crashes' = crashes
    BY DEF Work, HandleDispatch, DispatchResolve, DispatchCreatePending, DispatchCreateDeferred,
       DispatchListPage, DispatchAddSend, DispatchAddPromotion, HandleSend, SendListPending,
       SendMulticast, SendMark, SendInvalidate, SendRethrow, HandlePromotion, PromoteDeferred,
       PromoteAddSend, PromoteCountDeferred, PromoteRequeue, HandleBacklog, BacklogReadPending,
       BacklogReadDeferred, BacklogWriteStatus, envVars
  <1> SUFFICES Survives \/ (Live(j) /\ Throw(j))
    BY <1>1
  <1>2. ASSUME NEW s, s # "dead", NEW f, Goto(j, s, f), UNCHANGED dlqVars PROVE Survives
    BY <1>2 DEF Goto, Survives, dlqVars, TypeInv, TypeOK
  <1>3. ASSUME NEW s, s # "dead", NEW k, NEW what, NEW rows, AddJob(j, s, k, what, rows),
               UNCHANGED dlqVars
        PROVE  Survives
    BY <1>3 DEF AddJob, Survives, dlqVars, TypeInv, TypeOK
  <1>4. CASE HandleDispatch(j)
    <2>1. CASE DispatchResolve(j)
      BY <1>2, <2>1 DEF DispatchResolve, Live
    <2>2. ASSUME NEW rows, NEW status, NEW next, next # "dead", step[j] \in HandlerStep,
                 CreateDeliveries(j, rows, status, next)
          PROVE  Survives \/ (Live(j) /\ Throw(j))
      BY <2>2 DEF CreateDeliveries, Live, Running, Survives, dlqVars, TypeInv, TypeOK
    <2>3. CASE DispatchCreatePending(j)
      BY <2>2, <2>3 DEF DispatchCreatePending, HandlerStep
    <2>4. CASE DispatchCreateDeferred(j)
      BY <2>2, <2>4 DEF DispatchCreateDeferred, HandlerStep
    <2>5. CASE DispatchListPage(j)
      BY <1>2, <2>5 DEF DispatchListPage, AfterPages
    <2>6. CASE DispatchAddSend(j) \/ DispatchAddPromotion(j)
      BY <1>3, <2>6 DEF DispatchAddSend, DispatchAddPromotion, AfterPages
    <2> QED BY <1>4, <2>1, <2>3, <2>4, <2>5, <2>6 DEF HandleDispatch
  <1>5. CASE HandleSend(j)
    <2>1. CASE SendRethrow(j)
      BY <2>1 DEF SendRethrow, Live, Running, HandlerStep
    <2>2. CASE SendListPending(j)
      BY <1>2, <2>2 DEF SendListPending
    <2>3. CASE SendMulticast(j)
      BY <1>2, <2>3 DEF SendMulticast
    <2>4. CASE SendMark(j)
      <3>1. PICK s \in {"mark", "invalidate", "rethrow", "readPending"} : \E f : Goto(j, s, f)
        BY <2>4, Zenon DEF SendMark, NextMark
      <3> QED BY <1>2, <2>4, <3>1 DEF SendMark
    <2>5. CASE SendInvalidate(j)
      BY <1>2, <2>5 DEF SendInvalidate, NextMark
    <2> QED BY <1>5, <2>1, <2>2, <2>3, <2>4, <2>5 DEF HandleSend
  <1>6. CASE HandlePromotion(j)
    BY <1>2, <1>3, <1>6 DEF HandlePromotion, PromoteDeferred, PromoteAddSend, PromoteCountDeferred,
       PromoteRequeue
  <1>7. CASE HandleBacklog(j)
    <2>1. CASE BacklogWriteStatus(j)
      BY <2>1 DEF BacklogWriteStatus, Survives, dlqVars, TypeInv, TypeOK
    <2> QED BY <1>2, <1>7, <2>1 DEF HandleBacklog, BacklogReadPending, BacklogReadDeferred
  <1> QED BY <1>4, <1>5, <1>6, <1>7 DEF Work

LEMMA NoticeDead ==
  ASSUME TypeInv, DeadIsDeadLettered, HandleNotice
  PROVE  DeadIsDeadLettered'
  <1> SUFFICES ASSUME crashes = 0, NEW i \in Job, step[i] = "dead"
               PROVE  dlq'[i] > 0 \/ \E n \in notices' : n.job = i
    BY DEF DeadIsDeadLettered, HandleNotice, NoticeMark, NoticeDlq, jobVars, envVars
  <1>1. PICK n \in notices : NoticeMark(n) \/ NoticeDlq(n)
    BY DEF HandleNotice
  <1>2. n \in Notice
    BY DEF TypeInv, TypeOK
  <1>3. dlq[i] > 0 \/ \E m \in notices : m.job = i
    BY DEF DeadIsDeadLettered
  <1>4. CASE NoticeMark(n)
    <2>1. [n EXCEPT !.at = "dlq"] \in notices' /\ [n EXCEPT !.at = "dlq"].job = n.job
      BY <1>2, <1>4 DEF NoticeMark, Notice
    <2> QED BY <1>3, <1>4, <2>1 DEF NoticeMark
  <1>5. CASE NoticeDlq(n)
    <2>1. dlq'[n.job] = dlq[n.job] + 1 /\ dlq[n.job] \in Nat
          /\ \A k \in Job : k # n.job => dlq'[k] = dlq[k]
      BY <1>2, <1>5 DEF NoticeDlq, Notice, TypeInv, TypeOK
    <2>2. notices' = notices \ {n}
      BY <1>5 DEF NoticeDlq
    <2> QED BY <1>3, <2>1, <2>2
  <1> QED BY <1>1, <1>4, <1>5

\* As long as the worker does not crash, a job that used up its attempts has a
\* dead-letter entry or a 'failed' listener that is about to add one, whatever call of
\* whatever handler failed.
THEOREM DeadAreDeadLettered == Spec => []DeadIsDeadLettered
  <1>1. Init => DeadIsDeadLettered
    BY DEF Init, DeadIsDeadLettered
  <1>2. TypeInv /\ DeadIsDeadLettered /\ [Next]_vars => DeadIsDeadLettered'
    <2> SUFFICES ASSUME TypeInv, DeadIsDeadLettered, [Next]_vars PROVE DeadIsDeadLettered'
      OBVIOUS
    <2>1. ASSUME NEW j \in Job, Work(j) PROVE DeadIsDeadLettered'
      BY <2>1, WorkSurvives, SurvivesDead, ThrowDead
    <2>2. CASE Mobile
      <3>1. Survives /\ crashes' = crashes
        BY <2>2, MobileStep DEF Survives, jobVars
      <3> QED BY <3>1, SurvivesDead
    <2>3. ASSUME NEW r \in Request, Ingest(r) \/ IngestFails(r) PROVE DeadIsDeadLettered'
      <3>1. Survives /\ crashes' = crashes
        BY <2>3 DEF Ingest, IngestInsert, IngestEnqueue, IngestMarkQueued, IngestFails,
           Survives, jobVars, dlqVars, envVars, TypeInv, TypeOK
      <3> QED BY <3>1, SurvivesDead
    <2>4. CASE Crash
      BY <2>4 DEF Crash, DeadIsDeadLettered, TypeInv, TypeOK
    <2>5. ASSUME NEW j \in Job, HandlerFails(j) PROVE DeadIsDeadLettered'
      BY <2>5, ThrowDead DEF HandlerFails, Live
    <2>6. CASE UNCHANGED vars
      BY <2>6, SurvivesDead DEF Survives, vars, jobVars, dlqVars, envVars
    <2> QED BY <2>1, <2>2, <2>3, <2>4, <2>5, <2>6, NoticeDead DEF Next, Failure
  <1> QED BY <1>1, <1>2, InitType, NextType, PTL DEF Spec

-----------------------------------------------------------------------------
(* Rows while nothing fails and nobody is erased. *)

Calm == Undisturbed /\ NobodyErased

\* Until the dispatch job creates deliveries there are none.
NoRowsYet ==
  (\A j \in Job : kind[j] = "dispatch" => step[j] \in {"waiting", "createPending"}) =>
    \A d \in Device : delivery[d] = "none"

\* Between its two statements only the immediate recipients have one.
FirstRows ==
  \A j \in Job : step[j] = "createDeferred" =>
    \A d \in Device : delivery[d] # "deferred" /\ (delivery[d] = "pending" => d \in frame[j].work)

\* A device that was never registered gets no delivery.
AbsentRows ==
  \A d \in Device : device[d] = "absent" =>
    /\ delivery[d] = "none"
    /\ \A j \in Job : step[j] \in {"createPending", "createDeferred"} =>
                        d \notin frame[j].work \union frame[j].rest

\* A phone opens the event only after a push to one of its rows.
OpenedRows ==
  \A d \in Device : delivery[d] = "opened" =>
    \E e \in Device : Owner[e] = Owner[d] /\ pushes[e] > 0

\* What is known of the rows
RowInv == PushInv /\ (Calm => NoRowsYet /\ FirstRows /\ AbsentRows /\ OpenedRows)

\* What the handlers, the routes and the phones do to devices
LEMMA DeviceSteps ==
  ASSUME TypeInv, [Next]_vars
  PROVE  /\ \A d \in Device : device'[d] = "absent" => device[d] = "absent"
         /\ \A d \in Device : device[d] = "erased" => device'[d] = "erased"
         /\ \A d \in Device : device'[d] = "active" /\ device[d] \notin {"active", "absent"} => d \in reactivated'
         /\ reactivated \subseteq reactivated'
         /\ Mobile \/ (\E j \in Job : SendInvalidate(j)) \/ UNCHANGED deviceVars
  <1>1. CASE UNCHANGED deviceVars
    BY <1>1 DEF deviceVars
  <1>2. ASSUME NEW d \in Device, RegisterDevice(d) \/ RevokeDevice(d) \/ UpsertSubscription(d)
        PROVE  /\ \A e \in Device : device'[e] = "absent" => device[e] = "absent"
               /\ \A e \in Device : device[e] = "erased" => device'[e] = "erased"
               /\ \A e \in Device : device'[e] = "active" /\ device[e] \notin {"active", "absent"} => e \in reactivated'
               /\ reactivated \subseteq reactivated'
    BY <1>2 DEF RegisterDevice, RevokeDevice, UpsertSubscription, TypeInv, TypeOK
  <1>3. ASSUME NEW p \in Phone, DeleteByAuthSubject(p) \/ MarkOpened(p)
        PROVE  /\ \A e \in Device : device'[e] = "absent" => device[e] = "absent"
               /\ \A e \in Device : device[e] = "erased" => device'[e] = "erased"
               /\ \A e \in Device : device'[e] = "active" /\ device[e] \notin {"active", "absent"} => e \in reactivated'
               /\ reactivated \subseteq reactivated'
    BY <1>3 DEF DeleteByAuthSubject, MarkOpened, deviceVars
  <1>4. ASSUME NEW j \in Job, SendInvalidate(j)
        PROVE  /\ \A e \in Device : device'[e] = "absent" => device[e] = "absent"
               /\ \A e \in Device : device[e] = "erased" => device'[e] = "erased"
               /\ \A e \in Device : device'[e] = "active" /\ device[e] \notin {"active", "absent"} => e \in reactivated'
               /\ reactivated \subseteq reactivated'
    BY <1>4 DEF SendInvalidate, TypeInv, TypeOK
  <1>5. Mobile \/ (\E j \in Job : SendInvalidate(j)) \/ UNCHANGED deviceVars
    BY DEF Next, vars, Ingest, IngestInsert, IngestEnqueue, IngestMarkQueued,
      Work, HandleDispatch, DispatchResolve, DispatchCreatePending, DispatchCreateDeferred,
      DispatchListPage, DispatchAddSend, DispatchAddPromotion, HandleSend, SendListPending,
      SendMulticast, SendMark, SendRethrow, HandlePromotion, PromoteDeferred, PromoteAddSend,
      PromoteCountDeferred, PromoteRequeue, HandleBacklog, BacklogReadPending,
      BacklogReadDeferred, BacklogWriteStatus, HandleNotice, NoticeMark, NoticeDlq,
      Failure, Crash, IngestFails, HandlerFails
  <1> QED BY <1>1, <1>2, <1>3, <1>4, <1>5 DEF Mobile

\* What was calm stays on record, and pushes are not taken back
LEMMA CalmBefore ==
  ASSUME TypeInv, [Next]_vars
  PROVE  Calm' => Calm
  BY UndisturbedBefore, DeviceSteps DEF Calm, NobodyErased

LEMMA PushesGrow ==
  ASSUME TypeInv, [Next]_vars
  PROVE  /\ \A d \in Device : pushes'[d] >= pushes[d]
         /\ UNCHANGED pushes \/ \E j \in Job : SendMulticast(j)
  <1>1. CASE UNCHANGED pushes
    BY <1>1 DEF TypeInv, TypeOK
  <1>2. ASSUME NEW j \in Job, SendMulticast(j) PROVE \A d \in Device : pushes'[d] >= pushes[d]
    <2>1. PICK S \in SUBSET Device : pushes' = [d \in Device |-> IF d \in S THEN pushes[d] + 1 ELSE pushes[d]]
      BY <1>2 DEF SendMulticast, Reached
    <2> QED BY <2>1 DEF TypeInv, TypeOK
  <1>3. UNCHANGED pushes \/ \E j \in Job : SendMulticast(j)
    BY MobileStep DEF Next, vars, Ingest, IngestInsert, IngestEnqueue, IngestMarkQueued,
      Work, HandleDispatch, DispatchResolve, DispatchCreatePending, DispatchCreateDeferred,
      DispatchListPage, DispatchAddSend, DispatchAddPromotion, HandleSend, SendListPending,
      SendMark, SendInvalidate, SendRethrow, HandlePromotion, PromoteDeferred, PromoteAddSend,
      PromoteCountDeferred, PromoteRequeue, HandleBacklog, BacklogReadPending,
      BacklogReadDeferred, BacklogWriteStatus, HandleNotice, NoticeMark, NoticeDlq,
      Failure, Crash, IngestFails, HandlerFails
  <1> QED BY <1>1, <1>2, <1>3

\* Nothing happens to job i
Rests(i) ==
  kind'[i] = kind[i] /\ step'[i] = step[i] /\ frame'[i] = frame[i] /\ ids'[i] = ids[i]

\* Job i is added
Joins(i) ==
  /\ step[i] = "unused" /\ kind[i] = "none"
  /\ step'[i] = "waiting" /\ kind'[i] # "none" /\ frame'[i] = EmptyFrame

\* Every step of a handler moves its own job, and adds another one or none
LEMMA WorkView ==
  ASSUME PushInv, NEW j \in Job, Work(j)
  PROVE  Moves(j) \/ \E rows : \E k \in Job, what \in {"send", "promote"} : Adds(j, k, what, rows)
  <1> USE DEF PushInv
  <1>1. ASSUME NEW s, NEW f, Goto(j, s, f) PROVE Moves(j)
    BY <1>1, GotoMoves
  <1>2. ASSUME Throw(j) PROVE Moves(j)
    BY <1>2, ThrowMoves
  <1>3. CASE HandleDispatch(j)
    <2>1. ASSUME NEW rows, NEW status, NEW next, CreateDeliveries(j, rows, status, next) PROVE Moves(j)
      BY <1>2, <2>1 DEF CreateDeliveries, Moves, TypeInv, TypeOK
    <2>2. CASE DispatchAddSend(j)
      <3>1. PICK k, s : k \in Job /\ AddJob(j, s, k, "send", frame[j].work)
        BY <2>2 DEF DispatchAddSend
      <3>2. step[j] # "unused" /\ \A i \in Job \ {j} : frame'[i] = frame[i]
        BY <2>2 DEF DispatchAddSend, TypeInv, TypeOK
      <3> QED BY <3>1, <3>2, AddJobAdds
    <2>3. CASE DispatchAddPromotion(j)
      <3>1. PICK k, s : k \in Job /\ AddJob(j, s, k, "promote", {})
        BY <2>3 DEF DispatchAddPromotion
      <3>2. step[j] # "unused" /\ \A i \in Job \ {j} : frame'[i] = frame[i]
        BY <2>3 DEF DispatchAddPromotion, TypeInv, TypeOK
      <3> QED BY <3>1, <3>2, AddJobAdds
    <2> QED BY <1>1, <1>2, <1>3, <2>1, <2>2, <2>3 DEF HandleDispatch, DispatchResolve,
          DispatchCreatePending, DispatchCreateDeferred, DispatchListPage
  <1>4. CASE HandleSend(j)
    <2>1. CASE SendMark(j)
      <3>1. PICK s, f : Goto(j, s, f)
        BY <2>1, Zenon DEF SendMark
      <3> QED BY <1>1, <3>1
    <2> QED BY <1>1, <1>2, <1>4, <2>1 DEF HandleSend, SendListPending, SendMulticast,
          SendInvalidate, SendRethrow
  <1>5. CASE HandlePromotion(j)
    <2>1. CASE PromoteAddSend(j)
      <3>1. PICK k, s : k \in Job /\ AddJob(j, s, k, "send", frame[j].work)
        BY <2>1 DEF PromoteAddSend
      <3>2. step[j] # "unused" /\ \A i \in Job \ {j} : frame'[i] = frame[i]
        BY <2>1 DEF PromoteAddSend, TypeInv, TypeOK
      <3> QED BY <3>1, <3>2, AddJobAdds
    <2>2. CASE PromoteRequeue(j)
      <3>1. PICK k, s : k \in Job /\ AddJob(j, s, k, "promote", {})
        BY <2>2 DEF PromoteRequeue
      <3>2. step[j] # "unused" /\ \A i \in Job \ {j} : frame'[i] = frame[i]
        BY <2>2 DEF PromoteRequeue, TypeInv, TypeOK
      <3> QED BY <3>1, <3>2, AddJobAdds
    <2> QED BY <1>1, <1>5, <2>1, <2>2 DEF HandlePromotion, PromoteDeferred, PromoteCountDeferred
  <1>6. CASE HandleBacklog(j)
    <2>1. CASE BacklogWriteStatus(j)
      BY <2>1 DEF BacklogWriteStatus, Moves, TypeInv, TypeOK
    <2> QED BY <1>1, <1>6, <2>1 DEF HandleBacklog, BacklogReadPending, BacklogReadDeferred
  <1> QED BY <1>3, <1>4, <1>5, <1>6 DEF Work

\* The handler of job i is cut short
Stops(i) ==
  /\ kind'[i] = kind[i] /\ frame'[i] = EmptyFrame
  /\ step'[i] \in {"waiting", "dead"} \/ step'[i] = step[i]
  /\ step'[i] \notin HandlerStep

\* With failures and crashes a job changes by its own steps or is cut short
LEMMA AnyStep ==
  ASSUME PushInv, [Next]_vars, NEW i \in Job
  PROVE  Rests(i) \/ Work(i) \/ Joins(i) \/ (Failure /\ Stops(i))
  <1> USE DEF PushInv
  <1>1. ASSUME NEW j \in Job, Work(j) PROVE Rests(i) \/ Work(i) \/ Joins(i)
    <2>1. CASE i = j
      BY <1>1, <2>1
    <2>2. CASE i # j /\ Moves(j)
      BY <2>2 DEF Moves, Rests
    <2>3. ASSUME i # j, NEW k \in Job, NEW what \in {"send", "promote"}, NEW rows, Adds(j, k, what, rows)
          PROVE  Rests(i) \/ Joins(i)
      BY <2>3 DEF Adds, Rests, Joins, Shape, JobsShape
    <2> QED BY <1>1, <2>1, <2>2, <2>3, WorkView
  <1>2. ASSUME NEW r \in Request, Ingest(r) PROVE Rests(i) \/ Joins(i)
    <2>1. CASE IngestEnqueue(r)
      BY <2>1 DEF IngestEnqueue, Fresh, Rests, Joins, Shape, JobsShape, TypeInv, TypeOK
    <2> QED BY <1>2, <2>1 DEF Ingest, IngestInsert, IngestMarkQueued, jobVars, Rests
  <1>3. CASE HandleNotice \/ Mobile \/ UNCHANGED vars
    BY <1>3, MobileStep DEF HandleNotice, NoticeMark, NoticeDlq, vars, jobVars, Rests
  <1>4. ASSUME Crash PROVE Stops(i)
    BY <1>4 DEF Crash, Running, Stops, TypeInv, TypeOK, QueueStep, HandlerStep
  <1>5. ASSUME NEW r \in Request, IngestFails(r) PROVE Rests(i)
    BY <1>5 DEF IngestFails, jobVars, Rests
  <1>6. ASSUME NEW j \in Job, HandlerFails(j) PROVE Rests(i) \/ Stops(i)
    <2>1. Throw(j)
      BY <1>6 DEF HandlerFails
    <2> QED BY <2>1, ThrowMoves DEF Moves, Rests, Stops, HandlerStep
  <1> QED BY <1>1, <1>2, <1>3, <1>4, <1>5, <1>6 DEF Next, Failure

\* While nothing fails, a job changes only by its own steps
LEMMA OwnStep ==
  ASSUME PushInv, PushInv', Calm', [Next]_vars, NEW i \in Job
  PROVE  Rests(i) \/ Work(i) \/ Joins(i)
  <1>1. ~Failure
    BY DEF Failure, Crash, IngestFails, HandlerFails, Calm, Undisturbed, PushInv, TypeInv, TypeOK
  <1> QED BY <1>1, AnyStep

\* Where a handler goes from each of its steps, while nothing fails
LEMMA Transitions ==
  ASSUME PushInv, PushInv', Calm', [Next]_vars, NEW j \in Job, Work(j)
  PROVE  /\ kind'[j] = kind[j]
         /\ DispatchResolve(j) => step'[j] \in {"waiting", "dead", "createPending"}
         /\ DispatchCreatePending(j) => step'[j] = "createDeferred" /\ frame'[j] = frame[j]
         /\ DispatchCreateDeferred(j) => step'[j] \in {"listPage", "addPromotion", "readPending"} /\ frame'[j] = frame[j]
         /\ DispatchListPage(j) => step'[j] \in {"addSend", "addPromotion", "readPending"}
         /\ DispatchAddSend(j) => step'[j] \in {"listPage", "addPromotion", "readPending"}
         /\ DispatchAddPromotion(j) => step'[j] = "readPending"
         /\ SendListPending(j) => step'[j] \in {"multicast", "readPending"}
         /\ SendMulticast(j) => step'[j] = "mark"
         /\ SendMark(j) => step'[j] \in {"mark", "invalidate", "rethrow", "readPending"}
         /\ SendInvalidate(j) => step'[j] \in {"mark", "rethrow", "readPending"}
         /\ SendRethrow(j) => step'[j] \in {"waiting", "dead"}
         /\ HandlePromotion(j) => step'[j] \in {"sendPromoted", "countDeferred", "requeue", "readPending"}
         /\ BacklogReadPending(j) => step'[j] = "readDeferred"
         /\ BacklogReadDeferred(j) => step'[j] = "writeStatus"
         /\ BacklogWriteStatus(j) => step'[j] = "done"
  <1> USE DEF PushInv
  <1>a. step[j] \in QueueStep \union HandlerStep
    BY DEF TypeInv, TypeOK
  <1>1. ASSUME NEW s, NEW f, Goto(j, s, f) PROVE kind' = kind /\ step'[j] = s /\ frame'[j] = f
    BY <1>1, GotoMoves DEF Moves
  <1>2. ASSUME NEW s, NEW k \in Job, NEW what, NEW rows, AddJob(j, s, k, what, rows), step[j] # "unused"
        PROVE  step'[j] = s
    BY <1>2 DEF AddJob, Fresh, TypeInv, TypeOK
  <1>3. ASSUME Throw(j) PROVE kind' = kind /\ step'[j] \in {"waiting", "dead"}
    BY <1>3, ThrowMoves DEF Moves
  <1>4. ASSUME NEW rows, NEW status, NEW next, CreateDeliveries(j, rows, status, next),
               rows \in SUBSET Device, UNCHANGED deviceVars
        PROVE  kind' = kind /\ step'[j] = next /\ frame'[j] = frame[j]
    BY <1>4 DEF CreateDeliveries, Calm, NobodyErased, deviceVars, TypeInv, TypeOK
  <1>5. frame[j].work \in SUBSET Device /\ frame[j].rest \in SUBSET Device
    BY DEF TypeInv, TypeOK, Frame
  <1>6. kind'[j] = kind[j]
    <2>1. step[j] # "unused"
      BY DEF Work, HandleDispatch, DispatchResolve, DispatchCreatePending, DispatchCreateDeferred,
      DispatchListPage, DispatchAddSend, DispatchAddPromotion, HandleSend, SendListPending,
      SendMulticast, SendMark, SendInvalidate, SendRethrow, HandlePromotion, PromoteDeferred,
      PromoteAddSend, PromoteCountDeferred, PromoteRequeue, HandleBacklog, BacklogReadPending,
      BacklogReadDeferred, BacklogWriteStatus
    <2> QED BY <2>1, WorkView DEF Moves, Adds
  <1>7. DispatchResolve(j) => step'[j] \in {"waiting", "dead", "createPending"}
    BY <1>1, <1>3 DEF DispatchResolve
  <1>8. DispatchCreatePending(j) => step'[j] = "createDeferred" /\ frame'[j] = frame[j]
    BY <1>4, <1>5 DEF DispatchCreatePending
  <1>9. DispatchCreateDeferred(j) =>
          step'[j] \in {"listPage", "addPromotion", "readPending"} /\ frame'[j] = frame[j]
    BY <1>4, <1>5 DEF DispatchCreateDeferred
  <1>10. /\ DispatchListPage(j) => step'[j] \in {"addSend", "addPromotion", "readPending"}
         /\ DispatchAddSend(j) => step'[j] \in {"listPage", "addPromotion", "readPending"}
    BY <1>1, <1>2 DEF DispatchListPage, DispatchAddSend, AfterPages
  <1>11. DispatchAddPromotion(j) => step'[j] = "readPending"
    BY <1>2 DEF DispatchAddPromotion
  <1>12. SendListPending(j) => step'[j] \in {"multicast", "readPending"}
    BY <1>1 DEF SendListPending
  <1>13. SendMulticast(j) => step'[j] = "mark"
    BY <1>1 DEF SendMulticast
  <1>14. SendMark(j) => step'[j] \in {"mark", "invalidate", "rethrow", "readPending"}
    <2>1. ASSUME SendMark(j)
          PROVE  \E s \in {"mark", "invalidate", "rethrow", "readPending"} : \E f : Goto(j, s, f)
      BY <2>1, Zenon DEF SendMark, NextMark
    <2> QED BY <1>1, <2>1
  <1>15. SendInvalidate(j) => step'[j] \in {"mark", "rethrow", "readPending"}
    BY <1>1 DEF SendInvalidate, NextMark
  <1>16. SendRethrow(j) => step'[j] \in {"waiting", "dead"}
    BY <1>3 DEF SendRethrow
  <1>17. HandlePromotion(j) => step'[j] \in {"sendPromoted", "countDeferred", "requeue", "readPending"}
    BY <1>1, <1>2 DEF HandlePromotion, PromoteDeferred, PromoteAddSend, PromoteCountDeferred,
       PromoteRequeue
  <1>18. /\ BacklogReadPending(j) => step'[j] = "readDeferred"
         /\ BacklogReadDeferred(j) => step'[j] = "writeStatus"
         /\ BacklogWriteStatus(j) => step'[j] = "done"
    BY <1>1 DEF BacklogReadPending, BacklogReadDeferred, BacklogWriteStatus, TypeInv, TypeOK
  <1> QED BY <1>6, <1>7, <1>8, <1>9, <1>10, <1>11, <1>12, <1>13, <1>14, <1>15, <1>16, <1>17, <1>18

\* How a job comes to each step of its handler, while nothing fails
LEMMA Arrivals ==
  ASSUME PushInv, PushInv', Calm', [Next]_vars, NEW i \in Job, ~Rests(i)
  PROVE  /\ step'[i] = "waiting" => Joins(i) \/ DispatchResolve(i) \/ SendRethrow(i)
         /\ step'[i] = "createPending" => DispatchResolve(i)
         /\ step'[i] = "createDeferred" => DispatchCreatePending(i)
         /\ step'[i] = "listPage" => DispatchCreateDeferred(i) \/ DispatchAddSend(i)
         /\ step'[i] = "addSend" => DispatchListPage(i)
         /\ step'[i] = "multicast" => SendListPending(i)
         /\ step'[i] = "mark" => SendMulticast(i) \/ SendMark(i) \/ SendInvalidate(i)
         /\ step'[i] = "invalidate" => SendMark(i)
         /\ step'[i] = "readDeferred" => BacklogReadPending(i)
         /\ step'[i] = "writeStatus" => BacklogReadDeferred(i)
         /\ step'[i] = "done" => BacklogWriteStatus(i)
  <1>1. CASE Joins(i)
    BY <1>1 DEF Joins
  <1>2. CASE Work(i)
    BY <1>2, Transitions DEF Work, HandleDispatch, HandleSend, HandlePromotion, HandleBacklog
  <1> QED BY <1>1, <1>2, OwnStep

\* While nothing fails, the rows change only in these steps
LEMMA RowSteps ==
  ASSUME TypeInv, [Next]_vars
  PROVE  \/ UNCHANGED delivery
         \/ \E j \in Job : DispatchCreatePending(j) \/ DispatchCreateDeferred(j)
                           \/ PromoteDeferred(j) \/ SendMark(j)
         \/ Mobile
  BY DEF Next, vars, Ingest, IngestInsert, IngestEnqueue, IngestMarkQueued,
      Work, HandleDispatch, DispatchResolve, DispatchListPage, DispatchAddSend, DispatchAddPromotion,
      HandleSend, SendListPending, SendMulticast, SendInvalidate, SendRethrow, HandlePromotion,
      PromoteAddSend, PromoteCountDeferred, PromoteRequeue, HandleBacklog, BacklogReadPending,
      BacklogReadDeferred, BacklogWriteStatus, HandleNotice, NoticeMark, NoticeDlq,
      Failure, Crash, IngestFails, HandlerFails, rowVars

\* What the four statements write
LEMMA CreateWrites ==
  ASSUME PushInv, Calm', NEW j \in Job, NEW rows \in SUBSET Device, NEW status, NEW next,
         CreateDeliveries(j, rows, status, next), UNCHANGED deviceVars
  PROVE  \A d \in Device : delivery'[d] = IF d \in rows /\ delivery[d] = "none" THEN status ELSE delivery[d]
  BY DEF CreateDeliveries, Calm, NobodyErased, deviceVars

LEMMA PromoteWrites ==
  ASSUME TypeInv, NEW j \in Job, PromoteDeferred(j)
  PROVE  \A d \in Device : IF d \in FirstOf(DeferredRows, PromotionBatch)
                          THEN delivery[d] = "deferred" /\ delivery'[d] = "pending"
                          ELSE delivery'[d] = delivery[d]
  BY FirstOfSubset DEF PromoteDeferred, DeferredRows

LEMMA MarkWrites ==
  ASSUME TypeInv, NEW j \in Job, SendMark(j)
  PROVE  \E d \in frame[j].work :
           /\ d \in Device
           /\ frame[j].result[d] \in {"ok", "invalid", "transient", "timeout", "fatal"}
           /\ delivery'[d] = IF delivery[d] = "none" THEN "none" ELSE StatusFor(frame[j].result[d])
           /\ \A e \in Device \ {d} : delivery'[e] = delivery[e]
           /\ frame'[j].work = frame[j].work \ {d}
           /\ frame'[j].flag = (frame[j].flag \/ frame[j].result[d] \in {"transient", "timeout"})
           /\ step'[j] = IF frame[j].result[d] = "invalid" THEN "invalidate"
                         ELSE NextMark(frame'[j].work, frame'[j].flag)
  <1>1. PICK d \in FirstOf(frame[j].work, 1) :
          LET outcome == frame[j].result[d]
              todo == frame[j].work \ {d}
              retry == frame[j].flag \/ outcome \in {"transient", "timeout"}
          IN  /\ delivery' = [delivery EXCEPT ![d] =
                                IF @ = "none" THEN "none" ELSE StatusFor(outcome)]
              /\ Goto(j, IF outcome = "invalid" THEN "invalidate" ELSE NextMark(todo, retry),
                      [frame[j] EXCEPT !.work = todo, !.flag = retry, !.cursor = d])
    BY DEF SendMark
  <1>2. frame[j] \in Frame /\ d \in frame[j].work /\ d \in Device
    BY FrameType, FirstOfSubset
  <1>3. frame[j].result[d] \in {"ok", "invalid", "transient", "timeout", "fatal"}
    BY <1>2, BoundAssumption DEF SendMark, TypeInv, AnswersKnown
  <1>4. /\ delivery'[d] = IF delivery[d] = "none" THEN "none" ELSE StatusFor(frame[j].result[d])
        /\ \A e \in Device \ {d} : delivery'[e] = delivery[e]
    BY <1>1, <1>2 DEF TypeInv, TypeOK
  <1> DEFINE todo == frame[j].work \ {d}
             retry == (frame[j].flag \/ frame[j].result[d] \in {"transient", "timeout"})
             f == [frame[j] EXCEPT !.work = todo, !.flag = retry, !.cursor = d]
  <1>5. f.work = todo /\ f.flag = retry
    BY <1>2 DEF Frame
  <1>6. step'[j] = (IF frame[j].result[d] = "invalid" THEN "invalidate" ELSE NextMark(todo, retry))
        /\ frame'[j] = f
    BY <1>1, GotoMoves
  <1> HIDE DEF f
  <1> QED BY <1>2, <1>3, <1>4, <1>5, <1>6

\* While nothing fails, until the rows are created the dispatch job was before it as well
LEMMA BeforeRows ==
  ASSUME RowInv, PushInv', Calm', [Next]_vars,
         \A j \in Job : kind'[j] = "dispatch" => step'[j] \in {"waiting", "createPending"}
  PROVE  \A d \in Device : delivery[d] = "none" /\ delivery'[d] = "none"
  <1> USE DEF RowInv
  <1>1. \A j \in Job : kind[j] = "dispatch" => step[j] \in {"waiting", "createPending"}
    <2> SUFFICES ASSUME NEW j \in Job, kind[j] = "dispatch"
                 PROVE  step[j] \in {"waiting", "createPending"}
      OBVIOUS
    <2>1. Rests(j) \/ Work(j)
      BY OwnStep DEF Joins
    <2>2. CASE Rests(j)
      BY <2>2 DEF Rests
    <2>3. CASE Work(j)
      <3>1. step'[j] \in {"waiting", "createPending"}
        BY <2>3, Transitions
      <3>2. CASE Rests(j)
        BY <3>2 DEF Rests
      <3>3. CASE ~Rests(j)
        <4>1. DispatchResolve(j) \/ SendRethrow(j)
          BY <3>1, <3>3, Arrivals DEF Joins
        <4> QED BY <4>1 DEF DispatchResolve, SendRethrow, PushInv, Shape, JobsShape
      <3> QED BY <3>2, <3>3, <2>2
    <2> QED BY <2>1, <2>2, <2>3
  <1>2. \A d \in Device : delivery[d] = "none"
    BY <1>1, CalmBefore DEF NoRowsYet, PushInv
  <1>3. CASE UNCHANGED delivery \/ Mobile
    BY <1>2, <1>3, MobileStep DEF PushInv
  <1>4. ASSUME NEW j \in Job, DispatchCreatePending(j) \/ DispatchCreateDeferred(j) PROVE FALSE
    <2>1. kind[j] = "dispatch" /\ Work(j)
      BY <1>4 DEF DispatchCreatePending, DispatchCreateDeferred, Work, HandleDispatch, PushInv, Shape, JobsShape
    <2>2. kind'[j] = "dispatch" /\ step'[j] \notin {"waiting", "createPending"}
      BY <1>4, <2>1, Transitions
    <2> QED BY <2>2
  <1>5. ASSUME NEW j \in Job, PromoteDeferred(j) PROVE \A d \in Device : delivery'[d] = "none"
    BY <1>2, <1>5, PromoteWrites DEF PushInv
  <1>6. ASSUME NEW j \in Job, SendMark(j) PROVE \A d \in Device : delivery'[d] = "none"
    BY <1>2, <1>6, MarkWrites DEF PushInv
  <1> QED BY <1>2, <1>3, <1>4, <1>5, <1>6, RowSteps DEF PushInv

\* The parts of RowInv, one by one
LEMMA FirstRowsKept ==
  ASSUME RowInv, PushInv', Calm', [Next]_vars
  PROVE  FirstRows'
  <1> USE DEF RowInv
  <1> SUFFICES ASSUME NEW j \in Job, step'[j] = "createDeferred", NEW d \in Device
               PROVE  delivery'[d] # "deferred" /\ (delivery'[d] = "pending" => d \in frame'[j].work)
    BY DEF FirstRows
  <1>0. Calm
    BY CalmBefore DEF PushInv
  <1>1. CASE DispatchCreatePending(j)
    <2>1. step[j] = "createPending" /\ kind[j] = "dispatch" /\ Work(j) /\ UNCHANGED deviceVars
      BY <1>1 DEF DispatchCreatePending, PushInv, Shape, JobsShape, Work, HandleDispatch
    <2>2. \A i \in Job : kind[i] = "dispatch" => i = j
      BY <2>1 DEF PushInv, Shape, OneDispatch
    <2>3. delivery[d] = "none"
      BY <1>0, <2>1, <2>2 DEF NoRowsYet
    <2>4. frame[j].work \in SUBSET Device
      BY FrameType DEF PushInv
    <2>5. delivery'[d] = IF d \in frame[j].work THEN "pending" ELSE "none"
      BY <1>1, <2>1, <2>3, <2>4, CreateWrites DEF DispatchCreatePending
    <2> QED BY <1>1, <2>1, <2>5, Transitions
  <1>2. CASE Rests(j)
    <2>1. step[j] = "createDeferred" /\ kind[j] = "dispatch" /\ frame'[j] = frame[j]
      BY <1>2 DEF Rests, PushInv, Shape, JobsShape
    <2>2. delivery[d] # "deferred" /\ (delivery[d] = "pending" => d \in frame[j].work)
      BY <1>0, <2>1 DEF FirstRows
    <2>3. \A i \in Job \ {j} : step[i] = "unused"
      BY <1>0, <2>1 DEF PushInv, Calm, Exclusive, DispatchFirst, Early
    <2>4. ASSUME NEW i \in Job, \/ DispatchCreatePending(i) \/ DispatchCreateDeferred(i)
                                \/ PromoteDeferred(i) \/ SendMark(i)
          PROVE  FALSE
      <3>1. Work(i) /\ step[i] # "unused"
        BY <2>4 DEF Work, HandleDispatch, HandlePromotion, HandleSend, DispatchCreatePending,
           DispatchCreateDeferred, PromoteDeferred, SendMark
      <3>2. i = j
        BY <2>3, <3>1
      <3>3. DispatchCreateDeferred(j)
        BY <2>1, <2>4, <3>2 DEF DispatchCreatePending, PromoteDeferred, SendMark
      <3> QED BY <1>2, <2>1, <3>1, <3>2, <3>3, Transitions DEF Rests
    <2>5. delivery'[d] \in {delivery[d], "none", "opened"}
      BY <2>4, RowSteps, MobileStep DEF PushInv
    <2> QED BY <2>1, <2>2, <2>5
  <1> QED BY <1>1, <1>2, Arrivals

LEMMA AbsentRowsKept ==
  ASSUME RowInv, PushInv', Calm', [Next]_vars
  PROVE  AbsentRows'
  <1> USE DEF RowInv
  <1> SUFFICES ASSUME NEW d \in Device, device'[d] = "absent"
               PROVE  /\ delivery'[d] = "none"
                      /\ \A j \in Job : step'[j] \in {"createPending", "createDeferred"} =>
                                         d \notin frame'[j].work \union frame'[j].rest
    BY DEF AbsentRows
  <1>0. Calm
    BY CalmBefore DEF PushInv
  <1>1. device[d] = "absent"
    BY DeviceSteps DEF PushInv
  <1>2. /\ delivery[d] = "none"
        /\ \A j \in Job : step[j] \in {"createPending", "createDeferred"} =>
                           d \notin frame[j].work \union frame[j].rest
    BY <1>0, <1>1 DEF AbsentRows
  <1>3. delivery'[d] = "none"
    <2>1. ASSUME NEW j \in Job, DispatchCreatePending(j) \/ DispatchCreateDeferred(j)
          PROVE  delivery'[d] = "none"
      <3>1. frame[j].work \in SUBSET Device /\ frame[j].rest \in SUBSET Device
        BY DEF PushInv, TypeInv, TypeOK, Frame
      <3> QED BY <1>2, <2>1, <3>1, CreateWrites DEF DispatchCreatePending, DispatchCreateDeferred
    <2>2. ASSUME NEW j \in Job, PromoteDeferred(j) \/ SendMark(j) PROVE delivery'[d] = "none"
      BY <1>2, <2>2, PromoteWrites, MarkWrites DEF PushInv
    <2> QED BY <1>2, <2>1, <2>2, RowSteps, MobileStep DEF PushInv
  <1>4. ASSUME NEW j \in Job, step'[j] \in {"createPending", "createDeferred"}
        PROVE  d \notin frame'[j].work \union frame'[j].rest
    <2>1. CASE Rests(j)
      BY <1>2, <1>4, <2>1 DEF Rests
    <2>2. CASE DispatchCreatePending(j)
      <3>1. step[j] = "createPending" /\ frame'[j] = frame[j]
        BY <2>2, Transitions DEF DispatchCreatePending, Work, HandleDispatch
      <3> QED BY <1>2, <3>1
    <2>3. CASE DispatchResolve(j) /\ step'[j] = "createPending"
      <3>1. ~Throw(j)
        BY <2>3, ThrowMoves DEF PushInv
      <3>2. PICK immediate \in SUBSET Eligible :
              Goto(j, "createPending",
                   [frame[j] EXCEPT !.work = immediate, !.rest = Eligible \ immediate])
        BY <2>3, <3>1 DEF DispatchResolve
      <3>3. frame'[j] = [frame[j] EXCEPT !.work = immediate, !.rest = Eligible \ immediate]
        BY <3>2, GotoMoves DEF PushInv
      <3>4. frame[j] \in Frame
        BY FrameType DEF PushInv
      <3>5. frame'[j].work = immediate /\ frame'[j].rest = Eligible \ immediate
        BY <3>3, <3>4 DEF Frame
      <3>6. d \notin Eligible
        BY <1>1 DEF Eligible
      <3> QED BY <3>5, <3>6
    <2> QED BY <1>4, <2>1, <2>2, <2>3, Arrivals
  <1> QED BY <1>3, <1>4

LEMMA OpenedRowsKept ==
  ASSUME RowInv, PushInv', Calm', [Next]_vars
  PROVE  OpenedRows'
  <1> USE DEF RowInv
  <1> SUFFICES ASSUME NEW d \in Device, delivery'[d] = "opened"
               PROVE  \E e \in Device : Owner[e] = Owner[d] /\ pushes'[e] > 0
    BY DEF OpenedRows
  <1>1. \A e \in Device : pushes[e] > 0 => pushes'[e] > 0
    BY PushesGrow DEF PushInv, TypeInv, TypeOK
  <1>2. CASE delivery[d] = "opened"
    BY <1>1, <1>2, CalmBefore DEF OpenedRows, PushInv
  <1>3. CASE delivery[d] # "opened"
    <2>1. ASSUME NEW j \in Job, DispatchCreatePending(j) \/ DispatchCreateDeferred(j) PROVE FALSE
      <3>1. frame[j].work \in SUBSET Device /\ frame[j].rest \in SUBSET Device
        BY DEF PushInv, TypeInv, TypeOK, Frame
      <3> QED BY <1>3, <2>1, <3>1, CreateWrites DEF DispatchCreatePending, DispatchCreateDeferred
    <2>2. ASSUME NEW j \in Job, PromoteDeferred(j) \/ SendMark(j) PROVE FALSE
      BY <1>3, <2>2, PromoteWrites, MarkWrites DEF PushInv, StatusFor
    <2>3. Mobile
      BY <1>3, <2>1, <2>2, RowSteps DEF PushInv
    <2>4. PICK p \in Phone : MarkOpened(p)
      BY <1>3, <2>3 DEF Mobile, RegisterDevice, RevokeDevice, UpsertSubscription,
         DeleteByAuthSubject, rowVars
    <2>5. Owner[d] = p /\ \E e \in Device : Owner[e] = p /\ pushes[e] > 0
      BY <1>3, <2>4 DEF MarkOpened
    <2> QED BY <1>1, <2>5
  <1> QED BY <1>2, <1>3

LEMMA NextRows == RowInv /\ [Next]_vars => RowInv'
  BY NextPush, BeforeRows, FirstRowsKept, AbsentRowsKept, OpenedRowsKept DEF RowInv, NoRowsYet

LEMMA InitRows == Init => RowInv
  BY InitPush DEF Init, RowInv, NoRowsYet, FirstRows, AbsentRows, OpenedRows

-----------------------------------------------------------------------------
(* The fan-out cap. *)

\* No promotion job has run
NoPromotion == \A j \in Job : kind[j] = "promote" => step[j] = "waiting"

\* The devices that got the alert or may get it from the jobs there are
Touched ==
  {d \in Device : \/ delivery[d] = "pending" \/ pushes[d] > 0
                  \/ \E j \in Job : d \in ids[j] \/ (step[j] = "addSend" /\ d \in frame[j].work)}

\* The dispatch job takes no more immediate recipients than the cap.
ImmediateFew ==
  \A j \in Job : step[j] = "createPending" => Cardinality(frame[j].work) <= FanoutMax

\* The inductive invariant of the cap
CapInv ==
  RowInv /\ (Calm => ImmediateFew /\ (NoPromotion => Cardinality(Touched) <= FanoutMax))

LEMMA DeviceCount ==
  ASSUME NEW S \in SUBSET Device, NEW T \in SUBSET Device
  PROVE  /\ Cardinality(S) \in Nat
         /\ S \subseteq T => Cardinality(S) <= Cardinality(T)
  BY DeviceAssumption, FS_Subset, FS_CardinalityType

\* A job is handed rows when it is added, by the handler that lists or promotes them
LEMMA IdsSteps ==
  ASSUME PushInv, PushInv', Calm', [Next]_vars, NEW i \in Job
  PROVE  \/ ids'[i] \subseteq ids[i]
         \/ Joins(i) /\ \E j \in Job : /\ DispatchAddSend(j) \/ PromoteAddSend(j)
                                       /\ ids'[i] = frame[j].work
  <1> USE DEF PushInv
  <1>1. CASE UNCHANGED ids
    BY <1>1
  <1>2. ASSUME NEW j \in Job, DispatchAddSend(j) \/ PromoteAddSend(j)
        PROVE  \/ ids'[i] \subseteq ids[i]
               \/ Joins(i) /\ ids'[i] = frame[j].work
    <2>1. PICK k, s : k \in Job /\ AddJob(j, s, k, "send", frame[j].work)
      BY <1>2 DEF DispatchAddSend, PromoteAddSend
    <2>2. step[j] # "unused" /\ \A n \in Job \ {j} : frame'[n] = frame[n]
      BY <1>2 DEF DispatchAddSend, PromoteAddSend, TypeInv, TypeOK
    <2>3. Adds(j, k, "send", frame[j].work)
      BY <2>1, <2>2, AddJobAdds
    <2> QED BY <2>3 DEF Adds, Joins, Shape, JobsShape
  <1>3. ASSUME NEW j \in Job, BacklogWriteStatus(j) PROVE ids'[i] \subseteq ids[i]
    BY <1>3 DEF BacklogWriteStatus, TypeInv, TypeOK
  <1>4. ASSUME NEW j \in Job, NEW k \in Job, NEW s, AddJob(j, s, k, "promote", {})
        PROVE  ids'[i] \subseteq ids[i]
    BY <1>4 DEF AddJob, TypeInv, TypeOK
  <1>5. ASSUME NEW j \in Job, SendMark(j) PROVE UNCHANGED ids
    BY <1>5, Zenon DEF SendMark, Goto
  <1>6. UNCHANGED ids
        \/ \E j \in Job : \/ DispatchAddSend(j) \/ PromoteAddSend(j) \/ BacklogWriteStatus(j)
                          \/ \E k, s : k \in Job /\ AddJob(j, s, k, "promote", {})
    BY <1>5, MobileStep, Zenon DEF Next, vars, jobVars, Ingest, IngestInsert, IngestEnqueue, IngestMarkQueued,
      Work, HandleDispatch, DispatchResolve, DispatchCreatePending, DispatchCreateDeferred,
      CreateDeliveries, DispatchListPage, DispatchAddPromotion, HandleSend, SendListPending,
      SendMulticast, SendInvalidate, SendRethrow, HandlePromotion, PromoteDeferred,
      PromoteCountDeferred, PromoteRequeue, HandleBacklog, BacklogReadPending,
      BacklogReadDeferred, HandleNotice, NoticeMark, NoticeDlq,
      Failure, Crash, IngestFails, HandlerFails, Goto, Throw
  <1> QED BY <1>1, <1>2, <1>3, <1>4, <1>6

\* A promotion job that has run does not wait again
LEMMA NoPromotionBefore ==
  ASSUME PushInv, PushInv', Calm', [Next]_vars, NoPromotion'
  PROVE  NoPromotion
  <1> SUFFICES ASSUME NEW j \in Job, kind[j] = "promote" PROVE step[j] = "waiting"
    BY DEF NoPromotion
  <1>1. Rests(j) \/ Work(j)
    BY OwnStep DEF Joins
  <1>2. CASE Rests(j)
    BY <1>2 DEF Rests, NoPromotion
  <1>3. CASE Work(j) /\ ~Rests(j)
    <2>1. kind'[j] = "promote" /\ step'[j] = "waiting"
      BY <1>3, Transitions DEF NoPromotion
    <2>2. DispatchResolve(j) \/ SendRethrow(j)
      BY <1>3, <2>1, Arrivals DEF Joins
    <2> QED BY <2>2 DEF DispatchResolve, SendRethrow, PushInv, Shape, JobsShape
  <1> QED BY <1>1, <1>2, <1>3

\* What DispatchResolve and DispatchListPage put in the frame
LEMMA ResolveFrame ==
  ASSUME TypeInv, NEW j \in Job, DispatchResolve(j), step'[j] = "createPending"
  PROVE  /\ frame'[j].work \in SUBSET Eligible
         /\ frame'[j].rest = Eligible \ frame'[j].work
         /\ Cardinality(frame'[j].work) = ImmediateCount
  <1>1. ~Throw(j)
    BY ThrowMoves
  <1>2. PICK immediate \in SUBSET Eligible :
          /\ Cardinality(immediate) = ImmediateCount
          /\ Goto(j, "createPending",
                  [frame[j] EXCEPT !.work = immediate, !.rest = Eligible \ immediate])
    BY <1>1 DEF DispatchResolve
  <1>3. frame'[j] = [frame[j] EXCEPT !.work = immediate, !.rest = Eligible \ immediate]
    BY <1>2, GotoMoves
  <1>4. frame'[j].work = immediate /\ frame'[j].rest = Eligible \ immediate
    BY <1>3, FrameType DEF Frame
  <1> QED BY <1>2, <1>4

LEMMA PageFrame ==
  ASSUME TypeInv, NEW j \in Job, DispatchListPage(j)
  PROVE  /\ frame'[j].work = FirstOf(PendingAfterCursor(j), PageSize)
         /\ frame'[j].flag = (PendingAfterCursor(j) # frame'[j].work)
         /\ frame'[j].cursor = frame[j].cursor /\ frame'[j].rest = frame[j].rest
         /\ frame'[j].work \subseteq PendingAfterCursor(j)
         /\ step'[j] = IF frame'[j].work = {} THEN AfterPages(j) ELSE "addSend"
         /\ ids' = ids
  <1> DEFINE page == FirstOf(PendingAfterCursor(j), PageSize)
             f == [frame[j] EXCEPT !.work = page, !.flag = (PendingAfterCursor(j) # page)]
  <1>1. /\ frame'[j] = f /\ ids' = ids
        /\ step'[j] = IF page = {} THEN AfterPages(j) ELSE "addSend"
    BY GotoMoves DEF DispatchListPage
  <1>2. /\ f.work = page /\ f.flag = (PendingAfterCursor(j) # page)
        /\ f.cursor = frame[j].cursor /\ f.rest = frame[j].rest
    BY FrameType DEF Frame
  <1>3. page \subseteq PendingAfterCursor(j)
    BY FirstOfSubset DEF PendingAfterCursor, PendingRows
  <1> QED BY <1>1, <1>2, <1>3

\* A multicast reaches rows of its job only
LEMMA MulticastWork ==
  ASSUME TypeInv, NEW j \in Job, SendMulticast(j)
  PROVE  /\ \A d \in Device : pushes'[d] # pushes[d] => d \in frame[j].work
         /\ frame'[j].work = frame[j].work /\ frame'[j].flag = frame[j].flag
         /\ step[j] = "multicast" /\ step'[j] = "mark" /\ ids' = ids /\ UNCHANGED rowVars
  <1>1. PICK result \in [Device -> Outcome] :
          /\ \A d \in Device \ frame[j].work : result[d] = "unsent"
          /\ pushes' = [d \in Device |-> IF d \in Reached(result)
                                         THEN pushes[d] + 1 ELSE pushes[d]]
          /\ Goto(j, "mark", [frame[j] EXCEPT !.result = result])
    BY BoundAssumption DEF SendMulticast, Outcome
  <1>2. \A d \in Device : pushes'[d] # pushes[d] => d \in frame[j].work
    BY <1>1 DEF Reached
  <1>3. step'[j] = "mark" /\ ids' = ids /\ frame'[j] = [frame[j] EXCEPT !.result = result]
    BY <1>1, GotoMoves
  <1> QED BY <1>2, <1>3, FrameType DEF SendMulticast, Frame

\* Only the statement that creates the pending rows touches devices
LEMMA TouchedSteps ==
  ASSUME RowInv, RowInv', Calm', [Next]_vars, NoPromotion', NEW d \in Touched'
  PROVE  d \in Touched \/ \E j \in Job : DispatchCreatePending(j) /\ d \in frame[j].work
  <1> USE DEF RowInv
  <1>0. d \in Device /\ Calm /\ TypeInv /\ Exclusive
    BY CalmBefore DEF Touched, PushInv, Calm
  <1>1. CASE delivery'[d] = "pending"
    <2>1. CASE UNCHANGED delivery \/ Mobile
      BY <1>0, <1>1, <2>1, MobileStep DEF Touched
    <2>2. ASSUME NEW j \in Job, DispatchCreatePending(j) PROVE delivery[d] = "pending" \/ d \in frame[j].work
      <3>1. frame[j].work \in SUBSET Device
        BY <1>0, FrameType
      <3> QED BY <1>0, <1>1, <2>2, <3>1, CreateWrites DEF DispatchCreatePending
    <2>3. ASSUME NEW j \in Job, DispatchCreateDeferred(j) PROVE delivery[d] = "pending"
      <3>1. frame[j].rest \in SUBSET Device
        BY <1>0 DEF TypeInv, TypeOK, Frame
      <3> QED BY <1>0, <1>1, <2>3, <3>1, CreateWrites DEF DispatchCreateDeferred
    <2>4. ASSUME NEW j \in Job, PromoteDeferred(j) PROVE FALSE
      <3>1. kind[j] = "promote" /\ Work(j) /\ HandlePromotion(j)
        BY <2>4 DEF PromoteDeferred, Work, HandlePromotion
      <3>2. kind'[j] = "promote" /\ step'[j] # "waiting"
        BY <3>1, Transitions
      <3> QED BY <3>2 DEF NoPromotion
    <2>5. ASSUME NEW j \in Job, SendMark(j) PROVE d \in Touched
      <3>1. PICK e \in frame[j].work : \A x \in Device \ {e} : delivery'[x] = delivery[x]
        BY <1>0, <2>5, MarkWrites
      <3>2. e \in ids[j]
        BY <1>0, <2>5 DEF SendMark, Exclusive, RowsHeld, Pushing
      <3> QED BY <1>0, <1>1, <3>1, <3>2 DEF Touched
    <2> QED BY <1>0, <2>1, <2>2, <2>3, <2>4, <2>5, RowSteps DEF Touched
  <1>2. CASE pushes'[d] > 0
    <2>1. CASE pushes[d] > 0
      BY <1>0, <2>1 DEF Touched
    <2>2. ASSUME NEW j \in Job, SendMulticast(j), pushes'[d] # pushes[d] PROVE d \in Touched
      <3>1. d \in frame[j].work /\ step[j] = "multicast"
        BY <1>0, <2>2, MulticastWork
      <3>2. d \in ids[j]
        BY <1>0, <3>1 DEF Exclusive, RowsHeld, Pushing
      <3> QED BY <1>0, <3>2 DEF Touched
    <2> QED BY <1>0, <1>2, <2>1, <2>2, PushesGrow
  <1>3. ASSUME NEW i \in Job, d \in ids'[i] PROVE d \in Touched
    <2>1. CASE d \in ids[i]
      BY <1>0, <2>1 DEF Touched
    <2>2. ASSUME NEW j \in Job, DispatchAddSend(j), d \in frame[j].work PROVE d \in Touched
      BY <1>0, <2>2 DEF Touched, DispatchAddSend
    <2>3. ASSUME NEW j \in Job, PromoteAddSend(j) PROVE FALSE
      <3>1. kind[j] = "promote" /\ step[j] # "waiting"
        BY <2>3 DEF PromoteAddSend, PushInv, Shape, JobsShape
      <3> QED BY <3>1, NoPromotionBefore DEF NoPromotion
    <2> QED BY <1>3, <2>1, <2>2, <2>3, IdsSteps
  <1>4. ASSUME NEW i \in Job, step'[i] = "addSend", d \in frame'[i].work PROVE d \in Touched
    <2>1. CASE Rests(i)
      BY <1>0, <1>4, <2>1 DEF Touched, Rests
    <2>2. CASE DispatchListPage(i)
      BY <1>0, <1>4, <2>2, PageFrame DEF Touched, PendingAfterCursor, PendingRows
    <2> QED BY <1>4, <2>1, <2>2, Arrivals
  <1> QED BY <1>1, <1>2, <1>3, <1>4 DEF Touched

LEMMA NextCap == CapInv /\ [Next]_vars => CapInv'
  <1> SUFFICES ASSUME CapInv, [Next]_vars, RowInv', Calm'
               PROVE  ImmediateFew' /\ (NoPromotion' => Cardinality(Touched') <= FanoutMax)
    BY NextRows DEF CapInv
  <1> USE DEF CapInv, RowInv
  <1>0. Calm /\ TypeInv
    BY CalmBefore DEF PushInv
  <1>1. ImmediateFew'
    <2> SUFFICES ASSUME NEW j \in Job, step'[j] = "createPending"
                 PROVE  Cardinality(frame'[j].work) <= FanoutMax
      BY DEF ImmediateFew
    <2>1. CASE Rests(j)
      BY <1>0, <2>1 DEF Rests, ImmediateFew
    <2>2. CASE DispatchResolve(j)
      <3>1. Cardinality(Eligible) \in Nat /\ FanoutMax \in Nat
        BY DeviceCount, BoundAssumption DEF Eligible
      <3>2. ImmediateCount <= FanoutMax
        BY <3>1 DEF ImmediateCount
      <3> QED BY <1>0, <2>2, <3>2, ResolveFrame
    <2> QED BY <2>1, <2>2, Arrivals
  <1>2. ASSUME NoPromotion' PROVE Cardinality(Touched') <= FanoutMax
    <2>1. Cardinality(Touched) <= FanoutMax
      BY <1>0, <1>2, NoPromotionBefore
    <2>2. Touched \in SUBSET Device /\ Touched' \in SUBSET Device /\ FanoutMax \in Nat
      BY BoundAssumption DEF Touched
    <2>3. CASE \A j \in Job : ~DispatchCreatePending(j)
      <3>1. Touched' \subseteq Touched
        BY <1>2, <2>3, TouchedSteps
      <3> QED BY <2>1, <2>2, <3>1, DeviceCount
    <2>4. ASSUME NEW j \in Job, DispatchCreatePending(j) PROVE Cardinality(Touched') <= FanoutMax
      <3>1. step[j] = "createPending" /\ kind[j] = "dispatch"
        BY <2>4 DEF DispatchCreatePending, PushInv, Shape, JobsShape
      <3>2. \A i \in Job \ {j} : step[i] = "unused" /\ kind[i] = "none"
        BY <1>0, <3>1 DEF PushInv, Exclusive, DispatchFirst, Early, Shape, JobsShape, Calm
      <3>3. \A d \in Device : delivery[d] = "none" /\ ~(pushes[d] > 0)
        BY <1>0, <3>1, <3>2 DEF NoRowsYet, PushInv, Exclusive, PushedOnce, Calm
      <3>4. \A i \in Job : ids[i] = {} /\ step[i] # "addSend"
        BY <3>1, <3>2 DEF PushInv, Shape, JobsShape
      <3>5. Touched = {}
        BY <3>3, <3>4 DEF Touched
      <3>6. \A i \in Job : DispatchCreatePending(i) => i = j
        BY <3>2 DEF DispatchCreatePending
      <3>7. Touched' \subseteq frame[j].work
        BY <1>2, <3>5, <3>6, TouchedSteps
      <3>8. Cardinality(frame[j].work) <= FanoutMax /\ frame[j].work \in SUBSET Device
        BY <1>0, <3>1, FrameType DEF ImmediateFew
      <3> QED BY <2>2, <3>7, <3>8, DeviceCount
    <2> QED BY <2>3, <2>4
  <1> QED BY <1>1, <1>2

\* While nothing fails, no more than FanoutMax devices get the alert before a promotion
\* job has run, however often the send jobs are retried.
THEOREM FanoutIsCapped == Spec => []FanoutCap
  <1>1. Init => CapInv
    <2> SUFFICES ASSUME Init PROVE CapInv
      OBVIOUS
    <2>1. Touched = {} /\ ImmediateFew
      BY DEF Init, Touched, ImmediateFew
    <2>2. Cardinality({}) <= FanoutMax
      BY FS_EmptySet, BoundAssumption
    <2> QED BY <2>1, <2>2, InitRows DEF CapInv
  <1>2. CapInv => FanoutCap
    <2> SUFFICES ASSUME CapInv, Calm, NoPromotion
                 PROVE  Cardinality({d \in Device : pushes[d] > 0}) <= FanoutMax
      BY DEF FanoutCap, Calm, NoPromotion
    <2>1. {d \in Device : pushes[d] > 0} \subseteq Touched /\ Touched \in SUBSET Device
      BY DEF Touched
    <2>2. Cardinality(Touched) <= FanoutMax /\ FanoutMax \in Nat
      BY BoundAssumption DEF CapInv
    <2> QED BY <2>1, <2>2, DeviceCount
  <1> QED BY <1>1, <1>2, NextCap, PTL DEF Spec

-----------------------------------------------------------------------------
(* Deferred rows keep a promoter, also through failures and crashes. A dispatch *)
(* job that is tried again finds the same recipients, or nothing failed and it  *)
(* is tried once.                                                               *)

Resolving == {"createPending", "createDeferred", "listPage", "addSend"}
Closing == {"readPending", "readDeferred", "writeStatus"}

\* Rows are deferred for want of room, as long as the recipients stay the same.
KeptInv ==
  RecipientsKept =>
    /\ DeferredRows # {} => Cardinality(Eligible) > FanoutMax
    /\ \A j \in Job : step[j] \in Resolving =>
         (frame[j].rest # {} <=> Cardinality(Eligible) > FanoutMax)

\* A dispatch job that deferred rows knows it.
RestInv ==
  Calm => \A j \in Job : step[j] \in Paging /\ DeferredRows # {} => frame[j].rest # {}

\* The inductive invariant of the deferred rows
PromoterInv == RowInv /\ KeptInv /\ RestInv /\ DeferredHasPromoter

\* While the recipients stay the same the query finds the same rows
LEMMA KeptBefore ==
  ASSUME TypeInv, [Next]_vars, RecipientsKept'
  PROVE  RecipientsKept /\ Eligible' = Eligible
  <1>1. CASE UNCHANGED deviceVars /\ churn' = churn
    BY <1>1 DEF deviceVars, RecipientsKept, Eligible
  <1>2. ASSUME NEW j \in Job, SendInvalidate(j), ~ UNCHANGED deviceVars PROVE FALSE
    <2>1. \E d \in Device : device'[d] = "invalid"
      BY <1>2 DEF SendInvalidate, deviceVars, TypeInv, TypeOK
    <2> QED BY <2>1 DEF RecipientsKept
  <1>3. ASSUME Mobile PROVE UNCHANGED deviceVars /\ churn' = churn
    <2>1. churn' = 0
      BY DEF RecipientsKept
    <2>2. \A d \in Device : ~(RegisterDevice(d) \/ RevokeDevice(d) \/ UpsertSubscription(d))
      BY <2>1 DEF RegisterDevice, RevokeDevice, UpsertSubscription, Churn, TypeInv, TypeOK
    <2>3. \A p \in Phone : ~DeleteByAuthSubject(p)
      BY <2>1 DEF DeleteByAuthSubject, Churn, TypeInv, TypeOK
    <2> QED BY <1>3, <2>2, <2>3 DEF Mobile, MarkOpened, envVars, deviceVars
  <1>4. ASSUME ~Mobile PROVE churn' = churn
    BY <1>4 DEF Next, vars, envVars, Ingest, IngestInsert, IngestEnqueue, IngestMarkQueued,
      Work, HandleDispatch, DispatchResolve, DispatchCreatePending, DispatchCreateDeferred,
      DispatchListPage, DispatchAddSend, DispatchAddPromotion, HandleSend, SendListPending,
      SendMulticast, SendMark, SendInvalidate, SendRethrow, HandlePromotion, PromoteDeferred, PromoteAddSend,
      PromoteCountDeferred, PromoteRequeue, HandleBacklog, BacklogReadPending,
      BacklogReadDeferred, BacklogWriteStatus, HandleNotice, NoticeMark, NoticeDlq,
      Failure, Crash, IngestFails, HandlerFails
  <1> QED BY <1>1, <1>2, <1>3, <1>4, DeviceSteps

\* Where a dispatch handler goes from each of its steps, when calls may fail
LEMMA DispatchTransitions ==
  ASSUME PushInv, NEW j \in Job
  PROVE  /\ DispatchResolve(j) => step'[j] \in {"waiting", "dead", "createPending"}
         /\ DispatchCreatePending(j) => Stops(j) \/ (step'[j] = "createDeferred" /\ frame'[j] = frame[j])
         /\ DispatchCreateDeferred(j) =>
              Stops(j) \/ (/\ frame'[j] = frame[j]
                           /\ step'[j] = IF frame[j].work # {} THEN "listPage"
                                         ELSE IF frame[j].rest # {} THEN "addPromotion" ELSE "readPending")
         /\ DispatchAddSend(j) =>
              /\ step'[j] = IF frame[j].flag THEN "listPage" ELSE AfterPages(j)
              /\ frame'[j].rest = frame[j].rest
  <1> USE DEF PushInv
  <1>1. ASSUME NEW s, NEW f, Goto(j, s, f) PROVE step'[j] = s
    BY <1>1, GotoMoves
  <1>2. ASSUME Throw(j) PROVE step'[j] \in {"waiting", "dead"} /\ Stops(j)
    BY <1>2, ThrowMoves DEF Moves, Stops, HandlerStep
  <1>3. ASSUME NEW rows, NEW status, NEW next, CreateDeliveries(j, rows, status, next)
        PROVE  Stops(j) \/ (step'[j] = next /\ frame'[j] = frame[j])
    BY <1>2, <1>3 DEF CreateDeliveries, TypeInv, TypeOK
  <1>4. DispatchResolve(j) => step'[j] \in {"waiting", "dead", "createPending"}
    BY <1>1, <1>2 DEF DispatchResolve
  <1>5. DispatchCreatePending(j) => Stops(j) \/ (step'[j] = "createDeferred" /\ frame'[j] = frame[j])
    BY <1>3 DEF DispatchCreatePending
  <1>6. DispatchCreateDeferred(j) =>
          Stops(j) \/ (/\ frame'[j] = frame[j]
                       /\ step'[j] = IF frame[j].work # {} THEN "listPage"
                                     ELSE IF frame[j].rest # {} THEN "addPromotion" ELSE "readPending")
    BY <1>3 DEF DispatchCreateDeferred
  <1>7. ASSUME DispatchAddSend(j)
        PROVE  /\ step'[j] = IF frame[j].flag THEN "listPage" ELSE AfterPages(j)
               /\ frame'[j].rest = frame[j].rest
    <2>1. PICK k \in Job, last \in frame[j].work :
            /\ AddJob(j, IF frame[j].flag THEN "listPage" ELSE AfterPages(j), k, "send", frame[j].work)
            /\ frame' = [frame EXCEPT ![j] = [@ EXCEPT !.work = {}, !.cursor = last]]
      BY <1>7 DEF DispatchAddSend
    <2>2. frame'[j].rest = frame[j].rest /\ \A i \in Job \ {j} : frame'[i] = frame[i]
      BY <2>1, FrameType DEF TypeInv, TypeOK, Frame
    <2>3. step[j] # "unused"
      BY <1>7 DEF DispatchAddSend
    <2> QED BY <2>1, <2>2, <2>3, AddJobAdds
  <1> QED BY <1>4, <1>5, <1>6, <1>7

\* The remaining recipients stay those that were resolved
LEMMA RestSteps ==
  ASSUME PushInv, PushInv', [Next]_vars, NEW i \in Job, step'[i] \in Resolving
  PROVE  \/ step[i] \in Resolving /\ frame'[i].rest = frame[i].rest
         \/ DispatchResolve(i) /\ step'[i] = "createPending"
  <1> USE DEF PushInv
  <1>1. CASE Rests(i)
    BY <1>1 DEF Rests
  <1>2. ~Joins(i) /\ ~Stops(i)
    BY DEF Joins, Stops, Resolving, HandlerStep
  <1>3. CASE Work(i)
    <2>1. kind'[i] = "dispatch" /\ step[i] # "unused"
      BY <1>3 DEF Shape, JobsShape, Resolving, Work, HandleDispatch, DispatchResolve,
      DispatchCreatePending, DispatchCreateDeferred, DispatchListPage, DispatchAddSend,
      DispatchAddPromotion, HandleSend, SendListPending,
      SendMulticast, SendMark, SendInvalidate, SendRethrow, HandlePromotion, PromoteDeferred, PromoteAddSend,
      PromoteCountDeferred, PromoteRequeue, HandleBacklog, BacklogReadPending,
      BacklogReadDeferred, BacklogWriteStatus
    <2>2. kind[i] = "dispatch"
      BY <1>3, <2>1, WorkView DEF Moves, Adds
    <2>3. ~HandleSend(i) /\ ~HandlePromotion(i)
      BY <2>2 DEF Shape, JobsShape, HandleSend, SendListPending,
      SendMulticast, SendMark, SendInvalidate, SendRethrow, HandlePromotion, PromoteDeferred, PromoteAddSend,
      PromoteCountDeferred, PromoteRequeue
    <2>4. ~HandleBacklog(i)
      <3>1. ASSUME HandleBacklog(i) PROVE step'[i] \in {"readDeferred", "writeStatus", "done"}
        BY <3>1, GotoMoves DEF HandleBacklog, BacklogReadPending, BacklogReadDeferred,
           BacklogWriteStatus, TypeInv, TypeOK
      <3> QED BY <3>1 DEF Resolving
    <2>5. HandleDispatch(i)
      BY <1>3, <2>3, <2>4 DEF Work
    <2>6. ~DispatchAddPromotion(i)
      <3>1. ASSUME DispatchAddPromotion(i) PROVE step'[i] = "readPending"
        <4>1. PICK k \in Job : AddJob(i, "readPending", k, "promote", {})
          BY <3>1 DEF DispatchAddPromotion
        <4> QED BY <2>1, <4>1 DEF AddJob, Fresh, TypeInv, TypeOK
      <3> QED BY <3>1 DEF Resolving
    <2>7. CASE DispatchResolve(i)
      BY <2>7, DispatchTransitions DEF Resolving
    <2>8. CASE DispatchCreatePending(i) \/ DispatchCreateDeferred(i)
      BY <1>2, <2>8, DispatchTransitions DEF Resolving, DispatchCreatePending, DispatchCreateDeferred
    <2>9. CASE DispatchListPage(i)
      BY <2>9, PageFrame DEF Resolving, DispatchListPage
    <2>10. CASE DispatchAddSend(i)
      BY <2>10, DispatchTransitions DEF Resolving, DispatchAddSend
    <2> QED BY <2>5, <2>6, <2>7, <2>8, <2>9, <2>10 DEF HandleDispatch
  <1> QED BY <1>1, <1>2, <1>3, AnyStep

\* Only the second statement of the dispatch handler defers rows
LEMMA DeferringSteps ==
  ASSUME TypeInv, [Next]_vars, NEW d \in DeferredRows', d \notin DeferredRows
  PROVE  \E j \in Job : DispatchCreateDeferred(j) /\ ~Stops(j) /\ d \in frame[j].rest
  <1>0. d \in Device /\ delivery'[d] = "deferred" /\ delivery[d] # "deferred"
    BY DEF DeferredRows
  <1>1. ~ UNCHANGED delivery /\ ~Mobile
    BY <1>0, MobileStep
  <1>2. ASSUME NEW j \in Job, DispatchCreatePending(j) PROVE FALSE
    BY <1>0, <1>2 DEF DispatchCreatePending, CreateDeliveries
  <1>3. ASSUME NEW j \in Job, PromoteDeferred(j) \/ SendMark(j) PROVE FALSE
    BY <1>0, <1>3, PromoteWrites, MarkWrites DEF StatusFor
  <1>4. ASSUME NEW j \in Job, DispatchCreateDeferred(j) PROVE ~Stops(j) /\ d \in frame[j].rest
    <2>1. d \in frame[j].rest /\ ~(delivery' = delivery)
      BY <1>0, <1>4 DEF DispatchCreateDeferred, CreateDeliveries
    <2>2. step'[j] \in {"listPage", "addPromotion", "readPending"}
      BY <1>4, <2>1 DEF DispatchCreateDeferred, CreateDeliveries, TypeInv, TypeOK
    <2> QED BY <2>1, <2>2 DEF Stops, HandlerStep
  <1> QED BY <1>1, <1>2, <1>3, <1>4, RowSteps

\* The parts of PromoterInv, one by one
LEMMA KeptStep ==
  ASSUME PromoterInv, PushInv', [Next]_vars
  PROVE  KeptInv'
  <1> USE DEF PromoterInv, RowInv
  <1> SUFFICES ASSUME RecipientsKept' PROVE KeptInv'
    BY DEF KeptInv
  <1>0. RecipientsKept /\ Eligible' = Eligible /\ TypeInv
    BY KeptBefore DEF PushInv
  <1>1. Cardinality(Eligible) \in Nat /\ FanoutMax \in Nat
    BY DeviceCount, BoundAssumption DEF Eligible
  <1>2. ASSUME DeferredRows' # {} PROVE Cardinality(Eligible) > FanoutMax
    <2>1. PICK d \in DeferredRows' : TRUE
      BY <1>2
    <2>2. CASE d \in DeferredRows
      BY <1>0, <2>2 DEF KeptInv
    <2>3. ASSUME NEW j \in Job, DispatchCreateDeferred(j), d \in frame[j].rest
          PROVE  Cardinality(Eligible) > FanoutMax
      <3>1. step[j] \in Resolving
        BY <2>3 DEF DispatchCreateDeferred, Resolving
      <3> QED BY <1>0, <2>3, <3>1 DEF KeptInv
    <2> QED BY <1>0, <2>1, <2>2, <2>3, DeferringSteps
  <1>3. ASSUME NEW j \in Job, step'[j] \in Resolving
        PROVE  frame'[j].rest # {} <=> Cardinality(Eligible) > FanoutMax
    <2>1. CASE step[j] \in Resolving /\ frame'[j].rest = frame[j].rest
      BY <1>0, <2>1 DEF KeptInv
    <2>2. CASE DispatchResolve(j) /\ step'[j] = "createPending"
      <3>1. /\ frame'[j].work \in SUBSET Eligible /\ frame'[j].rest = Eligible \ frame'[j].work
            /\ Cardinality(frame'[j].work) = ImmediateCount
        BY <1>0, <2>2, ResolveFrame
      <3>2. ASSUME frame'[j].rest = {} PROVE Cardinality(Eligible) <= FanoutMax
        <4>1. frame'[j].work = Eligible
          BY <3>1, <3>2
        <4>2. Cardinality(Eligible) = ImmediateCount
          BY <3>1, <4>1
        <4> QED BY <1>1, <4>2 DEF ImmediateCount
      <3>3. ASSUME Cardinality(Eligible) <= FanoutMax PROVE frame'[j].rest = {}
        <4>1. Cardinality(frame'[j].work) = Cardinality(Eligible)
          BY <1>1, <3>1, <3>3 DEF ImmediateCount
        <4>2. IsFiniteSet(Eligible)
          BY DeviceAssumption, FS_Subset DEF Eligible
        <4>3. frame'[j].work = Eligible
          BY <3>1, <4>1, <4>2, FS_Subset
        <4> QED BY <3>1, <4>3
      <3> QED BY <1>1, <3>2, <3>3
    <2> QED BY <1>3, <2>1, <2>2, RestSteps
  <1> QED BY <1>0, <1>2, <1>3 DEF KeptInv

LEMMA RestStep ==
  ASSUME PromoterInv, PushInv', [Next]_vars
  PROVE  RestInv'
  <1> USE DEF PromoterInv, RowInv
  <1> SUFFICES ASSUME Calm', NEW j \in Job, step'[j] \in Paging, NEW d \in DeferredRows'
               PROVE  frame'[j].rest # {}
    BY DEF RestInv
  <1>0. Calm /\ TypeInv
    BY CalmBefore DEF PushInv
  <1>1. CASE d \in DeferredRows
    <2>1. CASE step[j] \in Paging /\ frame'[j].rest = frame[j].rest
      BY <1>0, <1>1, <2>1 DEF RestInv
    <2>2. CASE DispatchCreateDeferred(j)
      BY <1>0, <1>1, <2>2 DEF DispatchCreateDeferred, FirstRows, DeferredRows
    <2>3. CASE Rests(j)
      BY <2>1, <2>3 DEF Rests
    <2>4. CASE DispatchAddSend(j)
      BY <2>1, <2>4, DispatchTransitions DEF DispatchAddSend, Paging
    <2>5. CASE DispatchListPage(j)
      BY <1>0, <2>1, <2>5, PageFrame DEF DispatchListPage, Paging
    <2> QED BY <2>2, <2>3, <2>4, <2>5, Arrivals DEF Paging
  <1>2. CASE d \notin DeferredRows
    <2>1. PICK i \in Job : DispatchCreateDeferred(i) /\ ~Stops(i) /\ d \in frame[i].rest
      BY <1>0, <1>2, DeferringSteps
    <2>2. kind[i] = "dispatch" /\ Work(i) /\ step[i] = "createDeferred"
      BY <2>1 DEF DispatchCreateDeferred, PushInv, Shape, JobsShape, Work, HandleDispatch
    <2>3. kind'[i] = "dispatch" /\ kind'[j] = "dispatch"
      BY <2>2, Transitions DEF PushInv, Shape, JobsShape, Paging
    <2>4. i = j
      BY <2>3 DEF PushInv, Shape, OneDispatch
    <2> QED BY <2>1, <2>4, DispatchTransitions
  <1> QED BY <1>1, <1>2

\* A job that has not finished its work on the deferred rows
Promoter(j) ==
  kind[j] \in {"promote", "dispatch"} /\ step[j] \notin Closing \union {"done"}

LEMMA PromoterStep ==
  ASSUME PromoterInv, PushInv', [Next]_vars
  PROVE  DeferredHasPromoter'
  <1> USE DEF PromoterInv, RowInv
  <1> SUFFICES ASSUME (RecipientsKept \/ Calm)', NEW d \in DeferredRows'
               PROVE  \E j \in Job : Promoter(j)'
    BY DEF DeferredHasPromoter, Promoter, Calm, Closing
  <1>0. (RecipientsKept \/ Calm) /\ TypeInv
    BY CalmBefore, KeptBefore DEF PushInv
  <1>1. CASE d \notin DeferredRows
    <2>1. PICK i \in Job : DispatchCreateDeferred(i) /\ ~Stops(i) /\ d \in frame[i].rest
      BY <1>0, <1>1, DeferringSteps
    <2>2. kind[i] = "dispatch" /\ Work(i)
      BY <2>1 DEF DispatchCreateDeferred, PushInv, Shape, JobsShape, Work, HandleDispatch
    <2>3. step'[i] \in {"listPage", "addPromotion"}
      BY <2>1, DispatchTransitions
    <2>4. kind'[i] = "dispatch"
      BY <2>3 DEF PushInv, Shape, JobsShape
    <2> QED BY <2>3, <2>4 DEF Promoter, Closing
  <1>2. CASE d \in DeferredRows
    <2>1. PICK j \in Job : Promoter(j)
      BY <1>0, <1>2 DEF DeferredHasPromoter, Promoter, Calm, Closing
    <2>2. CASE Rests(j)
      BY <2>1, <2>2 DEF Rests, Promoter
    <2>3. CASE Stops(j)
      BY <2>1, <2>3 DEF Stops, Promoter, Closing
    <2>4. CASE Joins(j)
      BY <2>1, <2>4 DEF Joins, Promoter
    <2>5. ASSUME step[j] \in Resolving \ {"createPending"} PROVE frame[j].rest # {}
      <3>1. CASE RecipientsKept
        BY <1>2, <2>5, <3>1 DEF KeptInv
      <3>2. CASE Calm /\ step[j] = "createDeferred"
        BY <1>2, <3>2 DEF FirstRows, DeferredRows
      <3>3. CASE Calm /\ step[j] \in Paging
        BY <1>2, <3>3 DEF RestInv
      <3> QED BY <1>0, <2>5, <3>1, <3>2, <3>3 DEF Resolving, Paging
    <2>6. ASSUME Work(j), step'[j] \notin Closing \union {"done"} PROVE Promoter(j)'
      <3>1. kind'[j] = kind[j]
        <4>1. step[j] # "unused"
          BY <2>1 DEF Promoter, PushInv, Shape, JobsShape
        <4> QED BY <2>6, <4>1, WorkView DEF Moves, Adds, PushInv
      <3> QED BY <2>1, <2>6, <3>1 DEF Promoter
    <2>7. CASE HandleDispatch(j)
      <3>1. CASE DispatchResolve(j) \/ DispatchCreatePending(j)
        BY <2>3, <2>6, <2>7, <3>1, DispatchTransitions DEF Closing, Work
      <3>2. CASE DispatchCreateDeferred(j)
        BY <2>3, <2>5, <2>6, <2>7, <3>2, DispatchTransitions DEF DispatchCreateDeferred, Resolving, Closing, Work
      <3>3. CASE DispatchListPage(j)
        BY <1>0, <2>5, <2>6, <2>7, <3>3, PageFrame DEF DispatchListPage, AfterPages, Resolving, Closing, Work
      <3>4. CASE DispatchAddSend(j)
        BY <2>5, <2>6, <2>7, <3>4, DispatchTransitions DEF DispatchAddSend, AfterPages, Resolving, Closing, Work
      <3>5. CASE DispatchAddPromotion(j)
        <4>1. PICK k \in Job : AddJob(j, "readPending", k, "promote", {})
          BY <3>5 DEF DispatchAddPromotion
        <4>2. kind'[k] = "promote" /\ step'[k] = "waiting"
          BY <1>0, <4>1 DEF AddJob, TypeInv, TypeOK
        <4> QED BY <4>2 DEF Promoter, Closing
      <3> QED BY <2>7, <3>1, <3>2, <3>3, <3>4, <3>5 DEF HandleDispatch
    <2>8. CASE HandlePromotion(j)
      <3>1. CASE PromoteDeferred(j)
        <4>1. step'[j] \in {"countDeferred", "sendPromoted"}
          BY <1>0, <3>1, GotoMoves DEF PromoteDeferred
        <4> QED BY <2>6, <2>8, <4>1 DEF Closing, Work
      <3>2. CASE PromoteAddSend(j)
        <4>1. PICK k \in Job : AddJob(j, "countDeferred", k, "send", frame[j].work)
          BY <3>2 DEF PromoteAddSend
        <4>2. step'[j] = "countDeferred"
          BY <1>0, <3>2, <4>1 DEF PromoteAddSend, AddJob, Fresh, TypeInv, TypeOK
        <4> QED BY <2>6, <2>8, <4>2 DEF Closing, Work
      <3>3. CASE PromoteCountDeferred(j)
        <4>1. step'[j] = "requeue"
          BY <1>0, <1>2, <3>3, GotoMoves DEF PromoteCountDeferred
        <4> QED BY <2>6, <2>8, <4>1 DEF Closing, Work
      <3>4. CASE PromoteRequeue(j)
        <4>1. PICK k \in Job : AddJob(j, "readPending", k, "promote", {})
          BY <3>4 DEF PromoteRequeue
        <4>2. kind'[k] = "promote" /\ step'[k] = "waiting"
          BY <1>0, <4>1 DEF AddJob, TypeInv, TypeOK
        <4> QED BY <4>2 DEF Promoter, Closing
      <3> QED BY <2>8, <3>1, <3>2, <3>3, <3>4 DEF HandlePromotion
    <2>9. ~HandleSend(j) /\ ~HandleBacklog(j)
      BY <2>1 DEF Promoter, PushInv, Shape, JobsShape, Closing, HandleSend, SendListPending,
      SendMulticast, SendMark, SendInvalidate, SendRethrow, HandleBacklog, BacklogReadPending,
      BacklogReadDeferred, BacklogWriteStatus
    <2> QED BY <2>2, <2>3, <2>4, <2>7, <2>8, <2>9, AnyStep DEF Work
  <1> QED BY <1>1, <1>2

\* Through failures, retries and crashes, rows are not left deferred with nobody to
\* promote them, as long as the recipients stay the same or the failures stay away: a
\* job that will promote them or add such a job is queued, running or dead-lettered.
THEOREM DeferredIsPromoted == Spec => []DeferredHasPromoter
  <1>1. Init => PromoterInv
    <2> SUFFICES ASSUME Init PROVE PromoterInv
      OBVIOUS
    <2>1. DeferredRows = {} /\ \A j \in Job : step[j] = "unused"
      BY DEF Init, DeferredRows
    <2> QED BY <2>1, InitRows DEF PromoterInv, KeptInv, RestInv, DeferredHasPromoter, Resolving, Paging
  <1>2. PromoterInv /\ [Next]_vars => PromoterInv'
    <2> SUFFICES ASSUME PromoterInv, [Next]_vars PROVE PromoterInv'
      OBVIOUS
    <2>1. RowInv' /\ PushInv'
      BY NextRows DEF PromoterInv, RowInv
    <2> QED BY <2>1, KeptStep, RestStep, PromoterStep DEF PromoterInv
  <1>3. PromoterInv => DeferredHasPromoter
    BY DEF PromoterInv
  <1> QED BY <1>1, <1>2, <1>3, PTL DEF Spec

-----------------------------------------------------------------------------
(* The status of the event. The two reads and the write of the status are     *)
(* separate, but what a read does not find does not come back.                *)

\* The event has no promotion job
NoPromoter == \A j \in Job : kind[j] # "promote"

\* Somebody wrote "processed", and only after the dispatch job was at work.
WrittenByJob == event = "processed" => \E j \in Job : step[j] = "done"

\* Nothing is pending for a handler that found nothing, or after "processed".
ReadPendingTrue ==
  (\/ event = "processed"
   \/ \E j \in Job : step[j] \in {"readDeferred", "writeStatus"} /\ ~frame[j].flag) =>
    \A d \in PendingRows \ reactivated : OpenedElsewhere(d)

\* Nothing is deferred for a handler that found nothing, or after "processed".
ReadDeferredTrue ==
  (\/ event = "processed"
   \/ \E j \in Job : step[j] = "writeStatus" /\ ~frame[j].flag) => DeferredRows = {}

\* The inductive invariant of the status
StatusInv ==
  RowInv /\ (Calm /\ NoPromoter => WrittenByJob /\ ReadPendingTrue /\ ReadDeferredTrue)

LEMMA NoPromoterBefore ==
  ASSUME PushInv, PushInv', Calm', [Next]_vars, NoPromoter'
  PROVE  NoPromoter
  <1> SUFFICES ASSUME NEW j \in Job, kind[j] = "promote" PROVE FALSE
    BY DEF NoPromoter
  <1>1. Rests(j) \/ Work(j)
    BY OwnStep DEF Joins
  <1>2. kind'[j] = "promote"
    BY <1>1, Transitions DEF Rests
  <1> QED BY <1>2 DEF NoPromoter

\* The last step of a handler, and the reads
LEMMA BacklogFrame ==
  ASSUME PushInv, NEW j \in Job
  PROVE  /\ BacklogReadPending(j) => frame'[j].flag = (PendingRows # {}) /\ UNCHANGED <<event, delivery, device>>
         /\ BacklogReadDeferred(j) => /\ frame'[j].flag = (frame[j].flag \/ DeferredRows # {})
                                      /\ step[j] = "readDeferred" /\ UNCHANGED <<event, delivery, device>>
         /\ BacklogWriteStatus(j) => /\ event' = IF frame[j].flag THEN "queued" ELSE "processed"
                                     /\ step[j] = "writeStatus" /\ step'[j] = "done"
                                     /\ UNCHANGED <<delivery, device>>
  <1> USE DEF PushInv
  <1>1. ASSUME BacklogReadPending(j) PROVE frame'[j].flag = (PendingRows # {})
    <2>1. frame'[j] = [EmptyFrame EXCEPT !.flag = (PendingRows # {})]
      BY <1>1, GotoMoves DEF BacklogReadPending
    <2>2. [EmptyFrame EXCEPT !.flag = (PendingRows # {})].flag = (PendingRows # {})
      BY EmptyFrameType DEF Frame
    <2> QED BY <2>1, <2>2
  <1>2. ASSUME BacklogReadDeferred(j) PROVE frame'[j].flag = (frame[j].flag \/ DeferredRows # {})
    <2>1. frame'[j] = [frame[j] EXCEPT !.flag = frame[j].flag \/ DeferredRows # {}]
      BY <1>2, GotoMoves DEF BacklogReadDeferred
    <2>2. [frame[j] EXCEPT !.flag = frame[j].flag \/ DeferredRows # {}].flag = (frame[j].flag \/ DeferredRows # {})
      BY FrameType DEF Frame
    <2> QED BY <2>1, <2>2
  <1>3. BacklogWriteStatus(j) => step'[j] = "done"
    BY DEF BacklogWriteStatus, TypeInv, TypeOK
  <1> QED BY <1>1, <1>2, <1>3 DEF BacklogReadPending, BacklogReadDeferred, BacklogWriteStatus,
        rowVars, deviceVars

\* The event is processed only by the end of a handler
LEMMA EventSteps ==
  ASSUME TypeInv, [Next]_vars, event' = "processed"
  PROVE  event = "processed" \/ \E j \in Job : BacklogWriteStatus(j)
  BY MobileStep DEF Next, vars, Ingest, IngestInsert, IngestEnqueue, IngestMarkQueued,
      Work, HandleDispatch, DispatchResolve, DispatchCreatePending, DispatchCreateDeferred,
      DispatchListPage, DispatchAddSend, DispatchAddPromotion, HandleSend, SendListPending,
      SendMulticast, SendMark, SendInvalidate, SendRethrow, HandlePromotion, PromoteDeferred, PromoteAddSend,
      PromoteCountDeferred, PromoteRequeue, HandleBacklog, BacklogReadPending,
      BacklogReadDeferred, HandleNotice, NoticeMark, NoticeDlq,
      Failure, Crash, IngestFails, HandlerFails, rowVars

\* Nothing can be created any more
LEMMA CreationOver ==
  ASSUME RowInv, Calm, NEW i \in Job, step[i] \notin Early \union {"unused"}, NEW j \in Job
  PROVE  ~DispatchCreatePending(j) /\ ~DispatchCreateDeferred(j)
  BY DEF RowInv, PushInv, Calm, Exclusive, DispatchFirst, Early, Shape, JobsShape,
     DispatchCreatePending, DispatchCreateDeferred

\* Without a creation or a promotion only rows of phones that got the alert come back
LEMMA PendingSteps ==
  ASSUME RowInv, RowInv', Calm', [Next]_vars, NoPromoter,
         \A j \in Job : ~DispatchCreatePending(j) /\ ~DispatchCreateDeferred(j)
  PROVE  /\ \A d \in (PendingRows \ reactivated)' :
              d \in PendingRows \ reactivated \/ OpenedElsewhere(d)
         /\ DeferredRows' \subseteq DeferredRows
  <1> USE DEF RowInv
  <1>0. Calm /\ TypeInv
    BY CalmBefore DEF PushInv
  <1>1. \A j \in Job : ~PromoteDeferred(j)
    BY DEF NoPromoter, PromoteDeferred
  <1>2. ASSUME NEW d \in DeferredRows' PROVE d \in DeferredRows
    <2>1. \A j \in Job : SendMark(j) => delivery[d] = "deferred"
      BY <1>0, <1>2, MarkWrites DEF DeferredRows, StatusFor
    <2> QED BY <1>0, <1>1, <1>2, <2>1, RowSteps, MobileStep DEF DeferredRows
  <1>3. ASSUME NEW d \in (PendingRows \ reactivated)', ~OpenedElsewhere(d)
        PROVE  d \in PendingRows \ reactivated
    <2>0. d \in Device /\ delivery'[d] = "pending" /\ device'[d] = "active" /\ d \notin reactivated'
      BY <1>3 DEF PendingRows
    <2>1. ASSUME NEW j \in Job, SendMark(j), delivery[d] # "pending" PROVE FALSE
      <3>1. PICK e \in frame[j].work :
              /\ e \in Device
              /\ frame[j].result[e] \in {"ok", "invalid", "transient", "timeout", "fatal"}
              /\ delivery'[e] = IF delivery[e] = "none" THEN "none" ELSE StatusFor(frame[j].result[e])
              /\ \A x \in Device \ {e} : delivery'[x] = delivery[x]
        BY <1>0, <2>1, MarkWrites
      <3>2. e = d /\ frame[j].result[d] \in {"transient", "timeout"} /\ delivery[d] # "none"
        BY <2>0, <2>1, <3>1 DEF StatusFor
      <3>3. step[j] = "mark" /\ d \in frame[j].work
        BY <2>1, <3>1, <3>2 DEF SendMark
      <3>4. delivery[d] \in {"pending", "opened", "none"} /\ pushes[d] = 0
        BY <1>0, <3>2, <3>3, MarkedRow DEF PushInv, Calm
      <3>5. PICK x \in Device : Owner[x] = Owner[d] /\ pushes[x] > 0
        BY <1>0, <2>0, <2>1, <3>2, <3>4 DEF OpenedRows
      <3>6. x # d
        BY <3>4, <3>5
      <3> QED BY <1>3, <3>5, <3>6 DEF OpenedElsewhere
    <2>2. delivery[d] = "pending"
      BY <1>0, <1>1, <2>0, <2>1, RowSteps, MobileStep DEF TypeInv
    <2>3. device[d] = "active" /\ d \notin reactivated
      BY <1>0, <2>0, <2>2, DeviceSteps DEF AbsentRows
    <2> QED BY <2>0, <2>2, <2>3 DEF PendingRows
  <1> QED BY <1>2, <1>3

\* A push is not taken back
LEMMA OpenedElsewhereStays ==
  ASSUME TypeInv, [Next]_vars, NEW d \in Device, OpenedElsewhere(d)
  PROVE  OpenedElsewhere(d)'
  <1>1. PICK e \in Device \ {d} : Owner[e] = Owner[d] /\ pushes[e] > 0
    BY DEF OpenedElsewhere
  <1>2. pushes[e] \in Nat /\ pushes'[e] \in Nat
    BY NextType DEF TypeInv, TypeOK
  <1>3. pushes'[e] >= pushes[e]
    BY PushesGrow
  <1> QED BY <1>1, <1>2, <1>3 DEF OpenedElsewhere

\* Neither the write nor a step in between makes the reads untrue
LEMMA NextStatus == StatusInv /\ [Next]_vars => StatusInv'
  <1> SUFFICES ASSUME StatusInv, [Next]_vars, RowInv', Calm', NoPromoter'
               PROVE  WrittenByJob' /\ ReadPendingTrue' /\ ReadDeferredTrue'
    BY NextRows DEF StatusInv
  <1> USE DEF StatusInv, RowInv
  <1>0. /\ Calm /\ NoPromoter /\ TypeInv
        /\ WrittenByJob /\ ReadPendingTrue /\ ReadDeferredTrue
    BY CalmBefore, NoPromoterBefore DEF PushInv
  <1>1. WrittenByJob'
    <2> SUFFICES ASSUME event' = "processed" PROVE \E j \in Job : step'[j] = "done"
      BY DEF WrittenByJob
    <2>1. ASSUME NEW j \in Job, BacklogWriteStatus(j) PROVE step'[j] = "done"
      BY <2>1, BacklogFrame
    <2>2. ASSUME NEW j \in Job, step[j] = "done" PROVE step'[j] = "done"
      <3>1. ~Work(j) /\ ~Joins(j)
        BY <2>2 DEF Joins, Work, HandleDispatch, DispatchResolve, DispatchCreatePending, DispatchCreateDeferred,
      DispatchListPage, DispatchAddSend, DispatchAddPromotion, HandleSend, SendListPending,
      SendMulticast, SendMark, SendInvalidate, SendRethrow, HandlePromotion, PromoteDeferred, PromoteAddSend,
      PromoteCountDeferred, PromoteRequeue, HandleBacklog, BacklogReadPending,
      BacklogReadDeferred, BacklogWriteStatus
      <3> QED BY <2>2, <3>1, OwnStep DEF Rests
    <2> QED BY <1>0, <2>1, <2>2, EventSteps DEF WrittenByJob
  \* Once a read found nothing, the rows only get fewer
  <1>2. ASSUME event = "processed" \/ \E j \in Job : step[j] \in Closing
        PROVE  /\ \A d \in (PendingRows \ reactivated)' :
                    d \in PendingRows \ reactivated \/ OpenedElsewhere(d)
               /\ DeferredRows' \subseteq DeferredRows
    <2>1. PICK i \in Job : step[i] \in Closing \union {"done"}
      BY <1>0, <1>2 DEF WrittenByJob
    <2>2. step[i] \notin Early \union {"unused"}
      BY <2>1 DEF Closing, Early
    <2> QED BY <1>0, <2>2, CreationOver, PendingSteps
  <1>3. ASSUME \A d \in PendingRows \ reactivated : OpenedElsewhere(d),
               event = "processed" \/ \E j \in Job : step[j] \in Closing
        PROVE  \A d \in (PendingRows \ reactivated)' : OpenedElsewhere(d)'
    <2> SUFFICES ASSUME NEW d \in (PendingRows \ reactivated)' PROVE OpenedElsewhere(d)'
      OBVIOUS
    <2>1. OpenedElsewhere(d) /\ d \in Device
      BY <1>2, <1>3 DEF PendingRows
    <2> QED BY <1>0, <2>1, OpenedElsewhereStays
  <1>4. ReadPendingTrue'
    <2>1. ASSUME event' = "processed" PROVE \A d \in (PendingRows \ reactivated)' : OpenedElsewhere(d)'
      <3>1. CASE event = "processed"
        BY <1>0, <1>3, <3>1 DEF ReadPendingTrue
      <3>2. ASSUME NEW j \in Job, BacklogWriteStatus(j), event # "processed"
            PROVE  ~frame[j].flag /\ step[j] = "writeStatus"
        BY <2>1, <3>2, BacklogFrame
      <3> QED BY <1>0, <1>3, <2>1, <3>1, <3>2, EventSteps DEF ReadPendingTrue, Closing
    <2>2. ASSUME NEW j \in Job, step'[j] \in {"readDeferred", "writeStatus"}, ~frame'[j].flag
          PROVE  \A d \in (PendingRows \ reactivated)' : OpenedElsewhere(d)'
      <3>1. CASE Rests(j)
        BY <1>0, <1>3, <2>2, <3>1 DEF ReadPendingTrue, Rests, Closing
      <3>2. CASE BacklogReadPending(j)
        <4>1. PendingRows = {} /\ UNCHANGED <<delivery, device>>
          BY <2>2, <3>2, BacklogFrame
        <4> QED BY <4>1 DEF PendingRows
      <3>3. CASE BacklogReadDeferred(j)
        <4>1. ~frame[j].flag /\ step[j] = "readDeferred"
          BY <2>2, <3>3, BacklogFrame
        <4> QED BY <1>0, <1>3, <4>1 DEF ReadPendingTrue, Closing
      <3> QED BY <2>2, <3>1, <3>2, <3>3, Arrivals
    <2> QED BY <2>1, <2>2 DEF ReadPendingTrue
  <1>5. ReadDeferredTrue'
    <2>1. ASSUME event' = "processed" PROVE DeferredRows' = {}
      <3>1. CASE event = "processed"
        BY <1>0, <1>2, <3>1 DEF ReadDeferredTrue
      <3>2. ASSUME NEW j \in Job, BacklogWriteStatus(j), event # "processed"
            PROVE  ~frame[j].flag /\ step[j] = "writeStatus"
        BY <2>1, <3>2, BacklogFrame
      <3> QED BY <1>0, <1>2, <2>1, <3>1, <3>2, EventSteps DEF ReadDeferredTrue, Closing
    <2>2. ASSUME NEW j \in Job, step'[j] = "writeStatus", ~frame'[j].flag PROVE DeferredRows' = {}
      <3>1. CASE Rests(j)
        BY <1>0, <1>2, <2>2, <3>1 DEF ReadDeferredTrue, Rests, Closing
      <3>2. CASE BacklogReadDeferred(j)
        <4>1. DeferredRows = {} /\ UNCHANGED delivery
          BY <2>2, <3>2, BacklogFrame
        <4> QED BY <4>1 DEF DeferredRows
      <3> QED BY <2>2, <3>1, <3>2, Arrivals
    <2> QED BY <2>1, <2>2 DEF ReadDeferredTrue
  <1> QED BY <1>1, <1>4, <1>5

\* While nothing fails and nobody is erased, an event without promotions that is marked
\* processed has no delivery left to do, although each handler reads the two backlogs and
\* writes the status in separate calls.
THEOREM ProcessedIsFinal == Spec => []ProcessedAtRest
  <1>1. Init => StatusInv
    BY InitRows DEF Init, StatusInv, WrittenByJob, ReadPendingTrue, ReadDeferredTrue
  <1>2. StatusInv => ProcessedAtRest
    BY DEF StatusInv, ProcessedAtRest, ReadPendingTrue, ReadDeferredTrue, Calm, NoPromoter
  <1> QED BY <1>1, <1>2, NextStatus, PTL DEF Spec

-----------------------------------------------------------------------------
(* The pages of a query. Every nonempty set of rows has a first one.          *)

LEMMA Least ==
  ASSUME NEW S \in SUBSET Nat, S # {}
  PROVE  \E x \in S : \A y \in S : x <= y
  <1> DEFINE R == {ss \in Nat \X Nat : ss[1] < ss[2]}
  <1>1. IsWellFoundedOn(R, Nat)
    BY NatLessThanWellFounded DEF OpToRel
  <1>2. \A x, y \in Nat : y < x => <<y, x>> \in R
    OBVIOUS
  <1> HIDE DEF R
  <1>3. PICK x \in S : \A y \in S : ~(<<y, x>> \in R)
    BY <1>1, WFMin, Zenon
  <1>4. \A y \in S : ~(y < x)
    BY <1>2, <1>3
  <1> QED BY <1>3, <1>4

\* The rows a page leaves out come after it
LEMMA FirstOfPrefix ==
  ASSUME NEW S \in SUBSET Device, NEW n \in Nat, NEW d \in S, d \notin FirstOf(S, n),
         NEW e \in FirstOf(S, n)
  PROVE  e < d
  <1> SUFFICES ASSUME ~(e < d) PROVE FALSE
    OBVIOUS
  <1> DEFINE Below(x) == {y \in S : y < x}
  <1>1. e \in S /\ d \in Nat /\ e \in Nat /\ S \subseteq Nat
    BY DeviceAssumption DEF FirstOf
  <1>2. Below(d) \subseteq Below(e)
    <2> SUFFICES ASSUME NEW y \in S, y < d PROVE y < e
      OBVIOUS
    <2>1. y \in Nat
      BY <1>1
    <2> QED BY <1>1, <2>1
  <1>3. Below(d) \in SUBSET Device /\ Below(e) \in SUBSET Device
    OBVIOUS
  <1>4. Cardinality(Below(d)) <= Cardinality(Below(e)) /\ Cardinality(Below(d)) \in Nat /\ Cardinality(Below(e)) \in Nat
    BY <1>2, <1>3, DeviceCount
  <1>5. Cardinality(Below(e)) < n /\ ~(Cardinality(Below(d)) < n)
    BY DEF FirstOf
  <1> HIDE DEF Below
  <1> QED BY <1>4, <1>5

\* An empty page means that there are no rows
LEMMA FirstOfEmpty ==
  ASSUME NEW S \in SUBSET Device, NEW n \in Nat \ {0}, FirstOf(S, n) = {}
  PROVE  S = {}
  <1> SUFFICES ASSUME S # {} PROVE FALSE
    OBVIOUS
  <1>1. S \subseteq Nat
    BY DeviceAssumption
  <1>2. PICK x \in S : \A y \in S : x <= y
    BY <1>1, Least
  <1>3. {y \in S : y < x} = {}
    <2> SUFFICES ASSUME NEW y \in S, y < x PROVE FALSE
      OBVIOUS
    <2>1. x \in Nat /\ y \in Nat /\ x <= y
      BY <1>1, <1>2
    <2> QED BY <2>1
  <1>4. Cardinality({y \in S : y < x}) = 0
    BY <1>3, FS_EmptySet
  <1>5. x \in FirstOf(S, n)
    BY <1>4 DEF FirstOf
  <1> QED BY <1>5

-----------------------------------------------------------------------------
(* Pending rows are carried. *)

\* The pending rows that are the jobs' to deal with
Due == PendingRows \ reactivated

\* Row d is in the hands of a send job
SendsOf(d) == \E i \in Job : kind[i] = "send" /\ d \in ids[i]

\* The rows behind the cursor are handed out; those after it are in the page or after it.
PagesCover ==
  \A j \in Job : step[j] \in Paging => \A d \in Due :
    /\ d <= frame[j].cursor => SendsOf(d)
    /\ step[j] = "addSend" /\ d > frame[j].cursor =>
         d \in frame[j].work \/ (frame[j].flag /\ \A e \in frame[j].work : e < d)

\* A send handler ends only when none of its rows is due: those it has marked pending
\* make it throw.
SendsFinish ==
  \A i \in Job : \A d \in ids[i] \intersect Due :
    /\ step[i] \notin Closing
    /\ step[i] = "multicast" => d \in frame[i].work
    /\ step[i] \in Marking => d \in frame[i].work \/ frame[i].flag

\* Every row that is due is handed out, promoted, or still before the dispatch job.
DueCarried ==
  \A d \in Due : \E j \in Job :
    \/ kind[j] = "send" /\ d \in ids[j]
    \/ kind[j] = "promote" /\ step[j] = "sendPromoted" /\ d \in frame[j].work
    \/ kind[j] = "dispatch" /\ step[j] \in Early \union Paging \union {"dead"}

\* The inductive invariant of the pending rows
CarryInv == RowInv /\ (Calm => PagesCover /\ SendsFinish /\ DueCarried)

\* How a row becomes due
LEMMA DueSteps ==
  ASSUME RowInv, RowInv', Calm', [Next]_vars, NEW d \in Due'
  PROVE  \/ d \in Due
         \/ \E j \in Job : DispatchCreatePending(j)
         \/ \E j \in Job : /\ PromoteDeferred(j) /\ delivery[d] = "deferred"
                           /\ d \in FirstOf(DeferredRows, PromotionBatch)
         \/ \E j \in Job : SendMark(j) /\ d \in frame[j].work /\ frame'[j].flag /\ d \notin frame'[j].work
  <1> USE DEF RowInv
  <1>0. Calm /\ TypeInv /\ d \in Device /\ delivery'[d] = "pending" /\ device'[d] = "active"
          /\ d \notin reactivated'
    BY CalmBefore DEF PushInv, Due, PendingRows
  <1>1. CASE delivery[d] = "pending"
    BY <1>0, <1>1, DeviceSteps DEF AbsentRows, Due, PendingRows
  <1>2. CASE delivery[d] # "pending"
    <2>1. ASSUME NEW j \in Job, DispatchCreateDeferred(j) PROVE FALSE
      <3>1. frame[j].rest \in SUBSET Device
        BY <1>0 DEF TypeInv, TypeOK, Frame
      <3> QED BY <1>0, <1>2, <2>1, <3>1, CreateWrites DEF DispatchCreateDeferred
    <2>2. ASSUME NEW j \in Job, PromoteDeferred(j)
          PROVE  delivery[d] = "deferred" /\ d \in FirstOf(DeferredRows, PromotionBatch)
      BY <1>0, <1>2, <2>2, PromoteWrites
    <2>3. ASSUME NEW j \in Job, SendMark(j)
          PROVE  d \in frame[j].work /\ frame'[j].flag /\ d \notin frame'[j].work
      BY <1>0, <1>2, <2>3, MarkWrites DEF StatusFor
    <2>4. ~ UNCHANGED delivery /\ ~Mobile
      BY <1>0, <1>2, MobileStep
    <2> QED BY <1>0, <2>1, <2>2, <2>3, <2>4, RowSteps
  <1> QED BY <1>1, <1>2

\* A job keeps its rows until its handler returns
LEMMA RowsKept ==
  ASSUME PushInv, PushInv', Calm', [Next]_vars, NEW i \in Job, step[i] # "unused"
  PROVE  ids'[i] = ids[i] \/ BacklogWriteStatus(i)
  <1> USE DEF PushInv
  <1>1. ASSUME NEW s, NEW f, Goto(i, s, f) PROVE ids'[i] = ids[i]
    BY <1>1, GotoMoves
  <1>2. ASSUME Throw(i) PROVE ids'[i] = ids[i]
    BY <1>2, ThrowMoves
  <1>3. ASSUME NEW s, NEW k \in Job, NEW what, NEW rows, AddJob(i, s, k, what, rows)
        PROVE  ids'[i] = ids[i]
    BY <1>3 DEF AddJob, Fresh, TypeInv, TypeOK
  <1>4. ASSUME SendMark(i) PROVE ids'[i] = ids[i]
    BY <1>4, Zenon DEF SendMark, Goto
  <1>5. Work(i) => ids'[i] = ids[i] \/ BacklogWriteStatus(i)
    BY <1>1, <1>2, <1>3, <1>4 DEF
      Work, HandleDispatch, DispatchResolve, DispatchCreatePending, DispatchCreateDeferred,
      CreateDeliveries, DispatchListPage, DispatchAddSend, DispatchAddPromotion, HandleSend, SendListPending,
      SendMulticast, SendInvalidate, SendRethrow, HandlePromotion, PromoteDeferred, PromoteAddSend,
      PromoteCountDeferred, PromoteRequeue, HandleBacklog, BacklogReadPending,
      BacklogReadDeferred
  <1> QED BY <1>5, OwnStep DEF Rests, Joins

\* A row that is due stays with its send job
LEMMA SendsKept ==
  ASSUME CarryInv, PushInv', Calm', [Next]_vars, NEW d \in Due',
         NEW i \in Job, kind[i] = "send", d \in ids[i]
  PROVE  kind'[i] = "send" /\ d \in ids'[i]
  <1> USE DEF CarryInv, RowInv
  <1>0. Calm /\ TypeInv /\ step[i] # "unused"
    BY CalmBefore DEF PushInv, Shape, JobsShape
  <1>1. ~BacklogWriteStatus(i)
    <2> SUFFICES ASSUME BacklogWriteStatus(i) PROVE FALSE
      OBVIOUS
    <2>1. d \in Due /\ step[i] \in Closing
      BY DEF BacklogWriteStatus, Due, PendingRows, deviceVars, Closing
    <2> QED BY <1>0, <2>1 DEF SendsFinish
  <1>2. Rests(i) \/ Work(i)
    BY <1>0, OwnStep DEF Joins
  <1> QED BY <1>0, <1>1, <1>2, RowsKept, Transitions DEF Rests

\* What a send handler has not pushed or marked keeps it going
LEMMA SendsFinishKept ==
  ASSUME CarryInv, RowInv', Calm', [Next]_vars
  PROVE  SendsFinish'
  <1> USE DEF CarryInv, RowInv
  <1> SUFFICES ASSUME NEW i \in Job, NEW d \in ids'[i], d \in Due'
               PROVE  /\ step'[i] \notin Closing
                      /\ step'[i] = "multicast" => d \in frame'[i].work
                      /\ step'[i] \in Marking => d \in frame'[i].work \/ frame'[i].flag
    BY DEF SendsFinish
  <1>0. Calm /\ TypeInv /\ Exclusive /\ SendsFinish
    BY CalmBefore DEF PushInv, Calm
  <1>1. CASE Joins(i)
    BY <1>1 DEF Joins, Closing, Marking
  <1>2. CASE ~Joins(i)
    <2>1. d \in ids[i]
      BY <1>2, IdsSteps
    <2>2. kind[i] = "send" /\ step[i] # "unused" /\ d \in Device
      BY <2>1, FrameType DEF PushInv, Shape, JobsShape, TypeInv, TypeOK
    <2>3. \A j \in Job : ~DispatchCreatePending(j)
      BY <1>0, <2>2 DEF Exclusive, DispatchFirst, Early, DispatchCreatePending, PushInv, Shape, JobsShape
    <2>4. delivery[d] # "deferred"
      BY <1>0, <2>1 DEF Exclusive, NotDeferred, Rows
    <2>5. ASSUME NEW j \in Job, SendMark(j), d \in frame[j].work PROVE i = j
      <3>1. d \in ids[j]
        BY <1>0, <2>5 DEF SendMark, Exclusive, RowsHeld, Pushing
      <3> QED BY <1>0, <2>1, <2>2, <3>1 DEF Exclusive, RowsDisjoint, Rows
    <2>6. d \in Due \/ (SendMark(i) /\ frame'[i].flag)
      BY <2>3, <2>4, <2>5, DueSteps
    <2>7. CASE SendMark(i)
      <3>1. PICK e \in frame[i].work :
              /\ e \in Device
              /\ frame[i].result[e] \in {"ok", "invalid", "transient", "timeout", "fatal"}
              /\ delivery'[e] = IF delivery[e] = "none" THEN "none" ELSE StatusFor(frame[i].result[e])
              /\ frame'[i].work = frame[i].work \ {e}
              /\ frame'[i].flag = (frame[i].flag \/ frame[i].result[e] \in {"transient", "timeout"})
              /\ step'[i] = IF frame[i].result[e] = "invalid" THEN "invalidate"
                            ELSE NextMark(frame'[i].work, frame'[i].flag)
        BY <1>0, <2>7, MarkWrites
      <3>2. d \in frame'[i].work \/ frame'[i].flag
        <4>1. CASE d = e
          BY <3>1, <4>1 DEF Due, PendingRows, StatusFor
        <4>2. CASE d # e /\ d \in Due
          BY <1>0, <2>1, <2>7, <3>1, <4>2 DEF SendsFinish, SendMark, Marking
        <4> QED BY <2>6, <4>1, <4>2
      <3> QED BY <3>1, <3>2 DEF NextMark, Closing, Marking
    <2>8. CASE ~SendMark(i)
      <3>1. /\ d \in Due /\ step[i] \notin Closing
            /\ step[i] = "multicast" => d \in frame[i].work
            /\ step[i] \in Marking => d \in frame[i].work \/ frame[i].flag
        BY <1>0, <2>1, <2>6, <2>8 DEF SendsFinish
      <3>2. CASE Rests(i)
        BY <3>1, <3>2 DEF Rests
      <3>3. CASE SendListPending(i)
        <4> DEFINE selected == ids[i] \intersect PendingRows
                   f == [frame[i] EXCEPT !.work = selected]
        <4>1. d \in selected
          BY <2>1, <3>1 DEF Due
        <4>2. step'[i] = "multicast" /\ frame'[i] = f
          BY <1>0, <3>3, <4>1, GotoMoves DEF SendListPending
        <4>3. f.work = selected
          BY <1>0, FrameType DEF Frame
        <4> HIDE DEF f
        <4> QED BY <4>1, <4>2, <4>3 DEF Closing, Marking
      <3>4. CASE SendMulticast(i)
        BY <1>0, <3>1, <3>4, MulticastWork DEF Closing, Marking
      <3>5. CASE SendInvalidate(i)
        <4>1. step'[i] = NextMark(frame[i].work, frame[i].flag) /\ frame'[i] = frame[i]
                /\ step[i] = "invalidate"
          BY <1>0, <3>5, GotoMoves DEF SendInvalidate
        <4> QED BY <3>1, <4>1 DEF NextMark, Closing, Marking
      <3>6. CASE SendRethrow(i)
        BY <1>0, <3>6, ThrowMoves DEF SendRethrow, Closing, Marking
      <3>7. CASE Work(i)
        <4>1. ~HandleDispatch(i) /\ ~HandlePromotion(i) /\ ~HandleBacklog(i)
          BY <2>2, <3>1 DEF PushInv, Shape, JobsShape, Closing, HandleDispatch, DispatchResolve,
             DispatchCreatePending, DispatchCreateDeferred, DispatchListPage, DispatchAddSend,
             DispatchAddPromotion, HandlePromotion, PromoteDeferred, PromoteAddSend,
             PromoteCountDeferred, PromoteRequeue, HandleBacklog, BacklogReadPending,
             BacklogReadDeferred, BacklogWriteStatus
        <4> QED BY <2>8, <3>3, <3>4, <3>5, <3>6, <3>7, <4>1 DEF Work, HandleSend
      <3> QED BY <1>2, <3>2, <3>7, OwnStep
    <2> QED BY <2>7, <2>8
  <1> QED BY <1>1, <1>2

\* The page that is enqueued
LEMMA AddSendWrites ==
  ASSUME PushInv, NEW j \in Job, DispatchAddSend(j)
  PROVE  /\ step[j] = "addSend" /\ kind[j] = "dispatch" /\ frame'[j].cursor \in frame[j].work
         /\ \A d \in frame[j].work : d <= frame'[j].cursor
         /\ \E k \in Job : kind'[k] = "send" /\ ids'[k] = frame[j].work
         /\ UNCHANGED <<deviceVars, delivery>>
  <1> USE DEF PushInv
  <1>1. PICK k \in Job, last \in frame[j].work :
          /\ \A d \in frame[j].work : d <= last
          /\ AddJob(j, IF frame[j].flag THEN "listPage" ELSE AfterPages(j), k, "send", frame[j].work)
          /\ frame' = [frame EXCEPT ![j] = [@ EXCEPT !.work = {}, !.cursor = last]]
    BY DEF DispatchAddSend
  <1>2. frame'[j].cursor = last
    BY <1>1, FrameType DEF TypeInv, TypeOK, Frame
  <1>3. kind'[k] = "send" /\ ids'[k] = frame[j].work
    BY <1>1 DEF AddJob, TypeInv, TypeOK
  <1> QED BY <1>1, <1>2, <1>3 DEF DispatchAddSend, Shape, JobsShape, rowVars

\* A page takes all rows up to its last one
LEMMA PagesCoverKept ==
  ASSUME CarryInv, RowInv', Calm', [Next]_vars
  PROVE  PagesCover'
  <1> USE DEF CarryInv, RowInv
  <1> SUFFICES ASSUME NEW j \in Job, step'[j] \in Paging, NEW d \in Due'
               PROVE  /\ d <= frame'[j].cursor => SendsOf(d)'
                      /\ step'[j] = "addSend" /\ d > frame'[j].cursor =>
                           d \in frame'[j].work \/ (frame'[j].flag /\ \A e \in frame'[j].work : e < d)
    BY DEF PagesCover
  <1>0. Calm /\ TypeInv /\ Exclusive /\ PagesCover /\ d \in Device /\ d \in Nat /\ d > 0
    BY CalmBefore, DeviceAssumption DEF PushInv, Calm, Due, PendingRows
  <1>1. SendsOf(d) => SendsOf(d)'
    BY SendsKept DEF SendsOf
  <1>2. CASE Rests(j)
    <2>1. step[j] \in Paging /\ kind[j] = "dispatch" /\ frame'[j] = frame[j] /\ step'[j] = step[j]
      BY <1>2 DEF Rests, PushInv, Shape, JobsShape, Paging
    <2>2. CASE d \in Due
      BY <1>0, <1>1, <2>1, <2>2 DEF PagesCover
    <2>3. \A i \in Job : ~DispatchCreatePending(i) /\ ~PromoteDeferred(i)
      BY <1>0, <2>1 DEF DispatchCreatePending, PromoteDeferred, Exclusive, DispatchFirst, PushInv,
         Shape, OneDispatch, JobsShape, Paging
    <2>4. ASSUME NEW i \in Job, SendMark(i), d \in frame[i].work
          PROVE  SendsOf(d) /\ d <= frame[j].cursor
      <3>1. d \in ids[i] /\ kind[i] = "send"
        BY <1>0, <2>4 DEF SendMark, Exclusive, RowsHeld, Pushing, PushInv, Shape, JobsShape
      <3> QED BY <1>0, <2>1, <3>1 DEF SendsOf, Exclusive, PagesBehind
    <2>5. frame[j].cursor \in Nat
      BY <1>0, FrameType
    <2>6. CASE d \notin Due
      <3>1. SendsOf(d) /\ d <= frame[j].cursor
        BY <2>3, <2>4, <2>6, DueSteps
      <3> QED BY <1>0, <1>1, <2>1, <2>5, <3>1
    <2> QED BY <2>2, <2>6
  <1>3. CASE DispatchCreateDeferred(j)
    <2>1. frame'[j] = frame[j] /\ frame[j].cursor = 0 /\ step'[j] = "listPage"
      <3>1. Work(j) /\ step[j] = "createDeferred"
        BY <1>3 DEF Work, HandleDispatch, DispatchCreateDeferred
      <3> QED BY <1>3, <3>1, Transitions DEF PushInv, Shape, JobsShape, Paging
    <2> QED BY <1>0, <2>1
  <1>4. CASE DispatchAddSend(j)
    <2>1. step'[j] = "listPage"
      <3>1. Work(j)
        BY <1>4 DEF Work, HandleDispatch
      <3> QED BY <1>4, <3>1, Transitions DEF Paging
    <2>2. d \in Due
      BY <1>4, AddSendWrites DEF Due, PendingRows, deviceVars
    <2>3. ASSUME d <= frame'[j].cursor PROVE SendsOf(d)'
      <3>1. CASE d <= frame[j].cursor
        BY <1>0, <1>1, <1>4, <2>2, <3>1, AddSendWrites DEF PagesCover, Paging
      <3>2. CASE ~(d <= frame[j].cursor)
        <4>1. frame[j].cursor \in Nat /\ frame[j].work \in SUBSET Device
          BY <1>0, FrameType
        <4>2. d > frame[j].cursor
          BY <1>0, <3>2, <4>1
        <4>3. d \in frame[j].work \/ \A e \in frame[j].work : e < d
          BY <1>0, <1>4, <2>2, <4>2, AddSendWrites DEF PagesCover, Paging
        <4>4. frame'[j].cursor \in frame[j].work /\ frame'[j].cursor \in Nat
          BY <1>4, <4>1, AddSendWrites, DeviceAssumption
        <4>5. d \in frame[j].work
          BY <1>0, <2>3, <4>3, <4>4
        <4> QED BY <1>4, <4>5, AddSendWrites DEF SendsOf
      <3> QED BY <3>1, <3>2
    <2> QED BY <2>1, <2>3
  <1>5. CASE DispatchListPage(j) /\ step'[j] = "addSend"
    <2>1. d \in Due
      BY <1>5 DEF DispatchListPage, Due, PendingRows, deviceVars, rowVars
    <2>2. frame'[j].cursor = frame[j].cursor /\ step[j] \in Paging
      BY <1>0, <1>5, PageFrame DEF DispatchListPage, Paging
    <2>3. ASSUME d > frame[j].cursor
          PROVE  d \in frame'[j].work \/ (frame'[j].flag /\ \A e \in frame'[j].work : e < d)
      <3>1. d \in PendingAfterCursor(j) /\ PendingAfterCursor(j) \in SUBSET Device
        BY <2>1, <2>3 DEF PendingAfterCursor, Due, PendingRows
      <3>2. frame'[j].work = FirstOf(PendingAfterCursor(j), PageSize)
            /\ frame'[j].flag = (PendingAfterCursor(j) # frame'[j].work)
        BY <1>0, <1>5, PageFrame
      <3> QED BY <3>1, <3>2, FirstOfPrefix, BoundAssumption
    <2> QED BY <1>0, <1>1, <2>1, <2>2, <2>3 DEF PagesCover
  <1> QED BY <1>2, <1>3, <1>4, <1>5, Arrivals DEF Paging

\* A row that is due changes hands, and is never let go
LEMMA DueCarriedKept ==
  ASSUME CarryInv, RowInv', Calm', [Next]_vars
  PROVE  DueCarried'
  <1> USE DEF CarryInv, RowInv
  <1> DEFINE Carried(d) ==
        \E j \in Job :
          \/ kind'[j] = "send" /\ d \in ids'[j]
          \/ kind'[j] = "promote" /\ step'[j] = "sendPromoted" /\ d \in frame'[j].work
          \/ kind'[j] = "dispatch" /\ step'[j] \in Early \union Paging \union {"dead"}
  <1> SUFFICES ASSUME NEW d \in Due' PROVE Carried(d)
    BY DEF DueCarried
  <1>0. Calm /\ TypeInv /\ PagesCover /\ DueCarried /\ d \in Device /\ d \in Nat
    BY CalmBefore, DeviceAssumption DEF PushInv, Due, PendingRows
  <1>1. SendsOf(d) => Carried(d)
    BY SendsKept DEF SendsOf
  <1>2. ASSUME NEW j \in Job, kind[j] = "dispatch", Work(j), step'[j] \in Early \union Paging \union {"dead"}
        PROVE  Carried(d)
    BY <1>2, Transitions
  <1>3. CASE d \in Due
    <2>1. PICK j \in Job :
            \/ kind[j] = "send" /\ d \in ids[j]
            \/ kind[j] = "promote" /\ step[j] = "sendPromoted" /\ d \in frame[j].work
            \/ kind[j] = "dispatch" /\ step[j] \in Early \union Paging \union {"dead"}
      BY <1>0, <1>3 DEF DueCarried
    <2>2. CASE kind[j] = "send"
      BY <1>1, <2>1, <2>2 DEF SendsOf
    <2>3. CASE kind[j] # "send" /\ Rests(j)
      BY <2>1, <2>3 DEF Rests
    <2>4. ~Joins(j)
      BY <2>1 DEF Joins, PushInv, Shape, JobsShape
    <2>5. CASE kind[j] = "promote" /\ Work(j)
      <3>1. step[j] = "sendPromoted" /\ d \in frame[j].work
        BY <2>1, <2>5
      <3>2. PromoteAddSend(j)
        BY <2>5, <3>1 DEF Work, HandleDispatch, DispatchResolve, DispatchCreatePending, DispatchCreateDeferred,
      DispatchListPage, DispatchAddSend, DispatchAddPromotion, HandleSend, SendListPending,
      SendMulticast, SendMark, SendInvalidate, SendRethrow, HandlePromotion, PromoteDeferred,
      PromoteCountDeferred, PromoteRequeue, HandleBacklog, BacklogReadPending,
      BacklogReadDeferred, BacklogWriteStatus
      <3>3. PICK k \in Job : AddJob(j, "countDeferred", k, "send", frame[j].work)
        BY <3>2 DEF PromoteAddSend
      <3>4. kind'[k] = "send" /\ ids'[k] = frame[j].work
        BY <1>0, <3>3 DEF AddJob, TypeInv, TypeOK
      <3> QED BY <3>1, <3>4
    <2>6. CASE kind[j] = "dispatch" /\ Work(j)
      <3>1. CASE DispatchResolve(j) \/ DispatchCreatePending(j)
        BY <1>2, <2>6, <3>1, Transitions DEF Early
      <3>2. CASE DispatchCreateDeferred(j)
        <4>1. d \in frame[j].work
          BY <1>0, <1>3, <3>2 DEF FirstRows, Due, PendingRows, DispatchCreateDeferred
        <4>2. step'[j] = "listPage"
          <5>1. step'[j] \in {"listPage", "addPromotion", "readPending"}
            BY <2>6, <3>2, Transitions
          <5> QED BY <3>2, <4>1, <5>1, DispatchTransitions DEF Stops, HandlerStep
        <4> QED BY <1>2, <2>6, <4>2 DEF Paging
      <3>3. CASE DispatchListPage(j)
        <4>1. CASE frame'[j].work # {}
          <5>1. step'[j] = "addSend"
            BY <1>0, <3>3, <4>1, PageFrame
          <5> QED BY <1>2, <2>6, <5>1 DEF Paging
        <4>2. CASE frame'[j].work = {}
          <5>1. PendingAfterCursor(j) \in SUBSET Device
            BY DEF PendingAfterCursor, PendingRows
          <5>2. PendingAfterCursor(j) = {}
            <6>1. FirstOf(PendingAfterCursor(j), PageSize) = {}
              BY <1>0, <3>3, <4>2, PageFrame
            <6>2. PageSize \in Nat \ {0}
              BY BoundAssumption
            <6> QED BY <5>1, <6>1, <6>2, FirstOfEmpty
          <5>3. ~(d > frame[j].cursor)
            BY <1>3, <5>2 DEF PendingAfterCursor, Due
          <5>4. d <= frame[j].cursor
            BY <1>0, <5>3, FrameType
          <5>5. SendsOf(d)
            BY <1>0, <1>3, <3>3, <5>4 DEF DispatchListPage, PagesCover, Paging
          <5> QED BY <1>1, <5>5
        <4> QED BY <4>1, <4>2
      <3>4. CASE DispatchAddSend(j)
        <4>1. CASE frame[j].flag
          <5>1. step'[j] = "listPage"
            BY <3>4, <4>1, DispatchTransitions
          <5> QED BY <1>2, <2>6, <5>1 DEF Paging
        <4>2. CASE ~frame[j].flag /\ d <= frame[j].cursor
          BY <1>0, <1>1, <1>3, <3>4, <4>2 DEF DispatchAddSend, PagesCover, Paging
        <4>3. CASE ~frame[j].flag /\ ~(d <= frame[j].cursor)
          <5>1. d > frame[j].cursor
            BY <1>0, <4>3, FrameType
          <5>2. d \in frame[j].work
            BY <1>0, <1>3, <3>4, <4>3, <5>1 DEF DispatchAddSend, PagesCover, Paging
          <5> QED BY <3>4, <5>2, AddSendWrites
        <4> QED BY <4>1, <4>2, <4>3
      <3>5. step[j] \in Early \union Paging \union {"dead"}
        BY <2>1, <2>6
      <3>6. ~DispatchAddPromotion(j) /\ ~HandleSend(j) /\ ~HandlePromotion(j) /\ ~HandleBacklog(j)
        BY <2>6, <3>5 DEF Early, Paging, DispatchAddPromotion, HandleSend, SendListPending,
      SendMulticast, SendMark, SendInvalidate, SendRethrow, HandlePromotion, PromoteDeferred, PromoteAddSend,
      PromoteCountDeferred, PromoteRequeue, HandleBacklog, BacklogReadPending,
      BacklogReadDeferred, BacklogWriteStatus
      <3> QED BY <2>6, <3>1, <3>2, <3>3, <3>4, <3>6 DEF Work, HandleDispatch
    <2> QED BY <2>1, <2>2, <2>3, <2>4, <2>5, <2>6, OwnStep
  <1>4. ASSUME NEW j \in Job, DispatchCreatePending(j) PROVE Carried(d)
    <2>1. kind[j] = "dispatch" /\ Work(j)
      BY <1>4 DEF DispatchCreatePending, PushInv, Shape, JobsShape, Work, HandleDispatch
    <2> QED BY <1>2, <1>4, <2>1, Transitions DEF Early
  <1>5. ASSUME NEW j \in Job, PromoteDeferred(j), d \in FirstOf(DeferredRows, PromotionBatch)
        PROVE  Carried(d)
    <2> DEFINE moved == FirstOf(DeferredRows, PromotionBatch)
               f == [frame[j] EXCEPT !.work = moved]
    <2>1. step'[j] = "sendPromoted" /\ frame'[j] = f /\ kind'[j] = "promote"
      BY <1>0, <1>5, GotoMoves DEF PromoteDeferred, Moves
    <2>2. f.work = moved
      BY <1>0, FrameType DEF Frame
    <2> QED BY <1>5, <2>1, <2>2
  <1>6. ASSUME NEW j \in Job, SendMark(j), d \in frame[j].work PROVE Carried(d)
    <2>1. d \in ids[j] /\ kind[j] = "send"
      BY <1>0, <1>6 DEF SendMark, PushInv, Calm, Exclusive, RowsHeld, Pushing, Shape, JobsShape
    <2> QED BY <1>1, <2>1 DEF SendsOf
  <1> HIDE DEF Carried
  <1> QED BY <1>3, <1>4, <1>5, <1>6, DueSteps

\* While nothing fails and nobody is erased, no pending row of a device that stayed
\* active is forgotten, although the handlers page through the rows, promote them and
\* enqueue them in separate calls while other handlers mark and phones open them.
THEOREM PendingAreCarried == Spec => []PendingIsCarried
  <1>1. Init => CarryInv
    <2> SUFFICES ASSUME Init PROVE CarryInv
      OBVIOUS
    <2>1. Due = {} /\ \A j \in Job : step[j] = "unused" /\ ids[j] = {}
      BY DEF Init, Due, PendingRows
    <2> QED BY <2>1, InitRows DEF CarryInv, PagesCover, SendsFinish, DueCarried, Paging
  <1>2. CarryInv /\ [Next]_vars => CarryInv'
    <2> SUFFICES ASSUME CarryInv, [Next]_vars PROVE CarryInv'
      OBVIOUS
    <2>1. RowInv'
      BY NextRows DEF CarryInv
    <2> QED BY <2>1, PagesCoverKept, SendsFinishKept, DueCarriedKept DEF CarryInv
  <1>3. CarryInv => PendingIsCarried
    BY DEF CarryInv, DueCarried, Due, PendingIsCarried, Calm, Carries, Early, Paging
  <1> QED BY <1>1, <1>2, <1>3, PTL DEF Spec
===============================================================================
