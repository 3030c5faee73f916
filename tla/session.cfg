\* Two callers of one phone, an erasure, and one disturbance; one more request than the
\* phone has under way. Two families: of a phone, at most one other is in its safety window.
\* Symmetry is sound: no liveness property is checked.
CONSTANTS
  Token = {t1, t2, t3}
  NoToken = NoToken
  Family = {f1, f2}
  NoFamily = NoFamily
  Request = {r1, r2}
  NoRequest = NoRequest
  Caller = {c1, c2}
  Eraser = {c1}
  MaxErase = 1
  MaxDisturbances = 1
SPECIFICATION Spec
SYMMETRY RequestSymmetry
INVARIANTS
  TypeOK
  AtMostOneLive
  OneLiveSession
  InStep
  AnswerIsComing
PROPERTIES
  RevocationIsFinal
