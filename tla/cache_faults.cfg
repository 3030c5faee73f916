\* A call in each of two processes, everything that may go wrong.
CONSTANTS
  p1 = p1
  p2 = p2
  c1 = c1
  c2 = c2
  c3 = c3
  Process = {p1, p2}
  Caller = {c2, c3}
  Home <- MCHome
  Swr = {c2}
  Fill = {f1, f2, f3}
  NoFill = NoFill
  NoProcess = NoProcess
  Faults = {"link", "expiry", "crash", "fatal"}
SPECIFICATION Spec
SYMMETRY FillSymmetry
INVARIANTS
  LockKept
  OutageHidden
