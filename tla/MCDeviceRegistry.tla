---------------------------- MODULE MCDeviceRegistry ----------------------------
(* Small instances of DeviceRegistry for TLC. *)
EXTENDS DeviceRegistry, TLC

\* The calls are alike
SyncSymmetry == Permutations(Sync)

\* Whether a call has a device id
NoId(id) == IF id = None THEN None ELSE 0

\* Whether a row is served, and whose it is
ActiveFor(r) == IF r.status = "active" THEN r.who ELSE None

\* States that differ only in the device ids of calls, requests, rows and the snapshot, or
\* in the rows that are not active, are one as soon as ErasedIsGone leaves the rest of a
\* history out: no guard tells them apart, and no other property reads them. (No two
\* requests become one: at most one of them is awaited by nobody.)
Seen ==
  IF ~mixed THEN vars
  ELSE <<runtime, snapshot, identity, outlived, erasure,
         [s \in Sync |-> [sync[s] EXCEPT !.id = NoId(@)]],
         {[r EXCEPT !.id = None] : r \in wire},
         [t \in Token |-> ActiveFor(row[t])], history>>
===============================================================================
