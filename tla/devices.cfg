\* Two calls at a time, a token that is renewed, an erasure, and a request given up that
\* is served late; two starts of the runtime at a time. Symmetry is sound: no liveness
\* property is checked. The view (MCDeviceRegistry) merges states that no property tells
\* apart.
CONSTANTS
  Sync = {s1, s2}
  None = None
  MaxToken = 2
  MaxErase = 1
  MaxLate = 1
  MaxStart = 2
SPECIFICATION Spec
SYMMETRY SyncSymmetry
VIEW Seen
INVARIANTS
  KeptIsServed
  OffIsHonoured
  ErasedIsGone
