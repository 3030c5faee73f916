\* One immediate recipient and two deferred ones, promoted one at a time by a job that
\* requeues itself; two send jobs may run at once.
CONSTANTS
  Device = {1, 2, 3}
  Phone = {"phone1", "phone2"}
  Owner <- MCOwner
  Request = {1}
  Job = {1, 2, 3, 4, 5, 6}
  FanoutMax = 1
  PromotionBatch = 1
  PageSize = 1
  Concurrency <- TwoSends
  Attempts = 2
  Answers = {"ok"}
  RowTime = "text"
  MaxFaults = 0
  MaxTransients = 0
  MaxChurn = 0
SPECIFICATION Spec
INVARIANTS
  AtMostOnePush
  PendingIsCarried
  FanoutCap
  DeferredHasPromoter
CHECK_DEADLOCK FALSE
