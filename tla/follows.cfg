\* A phone and two teams of which it may follow one, another phone, toggles and drains
\* that overlap, and a failure. Symmetry is sound: no liveness property is checked.
CONSTANTS
  Subject = {me, other}
  Me = me
  Request = {r1, r2}
  NoRequest = NoRequest
  Team = {a, b}
  Tracked = a
  MaxFollowed = 1
  Toggle = {t1, t2}
  Drain = {d1, d2}
  MaxRetries = 1
  MaxToggles = 3
  MaxFaults = 1
SPECIFICATION Spec
SYMMETRY Alike
VIEW Seen
INVARIANTS
  TypeOK
  CountIsFollowers
  CountsAgree
  ShownIsKept
  InStep
CHECK_DEADLOCK FALSE
