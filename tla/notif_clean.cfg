\* No call fails: two immediate recipients, two rows of one phone, read a page at a time,
\* every answer of the provider, enough transient ones to dead-letter a send job, and one
\* change of a device or a subscription at any moment.
CONSTANTS
  Device = {1, 3}
  Phone = {"phone1", "phone2"}
  Owner <- MCOwner
  Request = {1}
  Job = {1, 2, 3}
  FanoutMax = 2
  PromotionBatch = 1
  PageSize = 1
  Concurrency <- TwoSends
  Attempts = 2
  Answers = {"ok", "invalid", "transient", "fatal"}
  RowTime = "text"
  MaxFaults = 0
  MaxTransients = 2
  MaxChurn = 1
SPECIFICATION Spec
INVARIANTS
  TypeOK
  PendingIsCarried
  ProcessedAtRest
  DeadIsDeadLettered
PROPERTIES
  ImplementsContract
CHECK_DEADLOCK FALSE
