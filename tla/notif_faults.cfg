\* One immediate recipient and a deferred one; a call that fails, a push that times out
\* or a crash of the worker, and answers that invalidate a device.
CONSTANTS
  Device = {1, 2}
  Phone = {"phone1", "phone2"}
  Owner <- MCOwner
  Request = {1}
  Job = {1, 2, 3, 4}
  FanoutMax = 1
  PromotionBatch = 1
  PageSize = 1
  Concurrency <- OneEach
  Attempts = 2
  Answers = {"ok", "invalid", "timeout"}
  RowTime = "text"
  MaxFaults = 1
  MaxTransients = 1
  MaxChurn = 0
SPECIFICATION Spec
INVARIANTS
  SentMeansPushed
  DeferredHasPromoter
CHECK_DEADLOCK FALSE
