\* One immediate recipient and a deferred one, a transient answer and a change of a
\* device or a subscription, under the fairness of the event loops.
CONSTANTS
  Device = {1, 2}
  Phone = {"phone1", "phone2"}
  Owner <- MCOwner
  Request = {1}
  Job = {1, 2, 3, 4}
  FanoutMax = 1
  PromotionBatch = 1
  PageSize = 1
  Concurrency <- OneEach
  Attempts = 2
  Answers = {"ok", "transient"}
  RowTime = "text"
  MaxFaults = 0
  MaxTransients = 1
  MaxChurn = 1
SPECIFICATION FairSpec
PROPERTIES
  AlertReaches
CHECK_DEADLOCK FALSE
