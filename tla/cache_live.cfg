\* Two calls of one process that may restart and lose Redis, under the fairness of
\* the event loop.
CONSTANTS
  p1 = p1
  p2 = p2
  c1 = c1
  c2 = c2
  c3 = c3
  Process = {p1}
  Caller = {c1, c2}
  Home <- MCHome
  Swr = {c2}
  Fill = {f1, f2}
  NoFill = NoFill
  NoProcess = NoProcess
  Faults = {"link", "crash", "fatal"}
SPECIFICATION FairSpec
INVARIANTS
  SingleFlight
PROPERTIES
  CallAnswered
