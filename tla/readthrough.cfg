SPECIFICATION LiveSpec
CONSTANTS
  api = api
  r1 = r1
  worker = worker
  Process = {api}
  Reader = {r1}
  Home <- MCHome
  Worker = {worker}
  Fresh = 1
  Expire = 2
  OverlayFresh = 0
  OverlayExpire = 1
  Cached = 0
  Late = 1
  Slow = 1
  MaxFaults = 1
INVARIANTS
  TypeOK
  FreshIsRecent
  OverlayIsRecent
PROPERTIES
  EndIsShown
