------------------------------- MODULE BffCache -------------------------------
(***************************************************************************)
(* The response cache of the BFF for one key, shared by several API        *)
(* processes: each has a memory cache, a map of in-flight fills and a Redis *)
(* client; Redis holds the shared entry and the fill lock.                 *)
(*                                                                         *)
(* A call of withCache or withCacheStaleWhileRevalidate reads Redis, then  *)
(* its memory, and else joins the fill in flight in its process or starts  *)
(* one. A fill takes the lock, reads again, calls the producer and stores  *)
(* what it returns; without the lock it waits a while for the entry, then  *)
(* serves a stale one or calls the producer itself.                        *)
(*                                                                         *)
(* A fill slot stands for one promise of createCacheFillPromise and for    *)
(* the random token of its lock.                                           *)
(*                                                                         *)
(* Only the age of an entry is modelled, and time is: an entry may age, a  *)
(* lock may expire and a wait may end at any moment. Calls repeat forever, *)
(* so nothing has to be bounded.                                           *)
(***************************************************************************)
EXTENDS Naturals

CONSTANTS
  Process,   \* API processes
  Caller,    \* concurrent calls
  Home,      \* Home[c] is the process of call c
  Swr,       \* the calls of withCacheStaleWhileRevalidate, the others are withCache
  Fill,      \* slots for fills
  NoFill,
  NoProcess,
  Faults     \* what may go wrong: "link", "expiry", "crash", "fatal"

ASSUME HomeAssumption == Home \in [Caller -> Process]
ASSUME SwrAssumption == Swr \subseteq Caller
ASSUME NoneAssumption == NoFill \notin Fill /\ NoProcess \notin Process

VARIABLES
  ready,     \* redisReady of each process
  memory,    \* the entry of each process's memory cache
  entry,     \* the entry in Redis
  lock,      \* the fill whose token is the value of the lock in Redis
  inFlight,  \* the fill in flight of each process
  step,      \* where each fill is
  owner,     \* the process of each fill
  claim,     \* whether each fill holds its lock, or has held it
  releasing, \* the finally clause of the fill awaits the release of its lock
  result,    \* what each fill returns
  call,      \* where each call is
  joined,    \* the fill a call waits for
  covered    \* the process has had a copy in memory since the call began

callVars == <<call, joined, covered>>
fillVars == <<step, owner, claim, releasing, result>>
vars == <<ready, memory, entry, lock, inFlight, fillVars, callVars>>

-----------------------------------------------------------------------------
(* Values *)

\* An entry is served as fresh up to its expiry, as stale during the grace period
Age == {"none", "stale", "fresh"}

FillStep == {"unused", "acquire", "recheck", "poll", "lateStale",
             "fetch", "store", "fallback", "settled"}
Claim == {"no", "held", "gone"}
\* "outage": the error of an upstream that fails; "error": any other
Result == {"none", "value", "stale", "outage", "error"}
CallStep == {"idle", "missed", "askStale", "noStale", "waiting"}

-----------------------------------------------------------------------------
(* Reads of the cache *)

\* getFromRedis finds an entry of one of these ages
Redis(p, ages) == ready[p] /\ entry \in ages

\* getFreshCachedValue
Fresh(p) == Redis(p, {"fresh"}) \/ memory[p] = "fresh"

\* slip: the memory copy is forgotten
StaleInRedis(p) == Redis(p, {"fresh", "stale"})

\* getStaleCachedValue: an entry that is not beyond its grace period
Stale(p) == Redis(p, {"fresh", "stale"}) \/ memory[p] # "none"

\* A Redis command of process p fails: redisReady becomes false. After an error reply
\* on a connection that is up no 'ready' event follows, and it may stay false for ever.
CommandFails(p) ==
  /\ "link" \in Faults
  /\ ready[p]
  /\ ready' = [ready EXCEPT ![p] = FALSE]

-----------------------------------------------------------------------------
(* Calls *)

\* The calls C have returned, or are gone
End(C) ==
  /\ call' = [c \in Caller |-> IF c \in C THEN "idle" ELSE call[c]]
  /\ joined' = [c \in Caller |-> IF c \in C THEN NoFill ELSE joined[c]]
  /\ covered' = [c \in Caller |-> c \notin C /\ covered[c]]

Advance(c, where) ==
  /\ call' = [call EXCEPT ![c] = where]
  /\ UNCHANGED <<inFlight, fillVars, joined, covered>>

Join(c, f) ==
  /\ call' = [call EXCEPT ![c] = "waiting"]
  /\ joined' = [joined EXCEPT ![c] = f]
  /\ UNCHANGED covered

\* createCacheFillPromise: up to its first await, in one go with setInFlight. It skips
\* the lock when Redis is not ready.
StartFill(p, f) ==
  /\ step[f] = "unused"
  /\ step' = [step EXCEPT ![f] = IF ready[p] THEN "acquire" ELSE "fetch"]
  /\ owner' = [owner EXCEPT ![f] = p]
  /\ inFlight' = [inFlight EXCEPT ![p] = f]
  /\ UNCHANGED <<claim, releasing, result>>

\* slip: the in-flight map was read before an await
JoinOrFillLate(c) == \E f \in Fill : StartFill(Home[c], f) /\ Join(c, f)

\* The end of withCache: wait for the fill in flight, or start one
JoinOrFill(c) ==
  IF inFlight[Home[c]] # NoFill
  THEN Join(c, inFlight[Home[c]]) /\ UNCHANGED <<inFlight, fillVars>>
  ELSE \E f \in Fill : StartFill(Home[c], f) /\ Join(c, f)

\* A call begins, and Redis has no fresh entry for it. (When Redis has one the call
\* returns and nothing has changed.) The reply comes later.
Call(c) ==
  /\ call[c] = "idle"
  /\ CommandFails(Home[c]) \/ (~Redis(Home[c], {"fresh"}) /\ UNCHANGED ready)
  /\ call' = [call EXCEPT ![c] = "missed"]
  /\ covered' = [covered EXCEPT ![c] = memory[Home[c]] # "none"]
  /\ UNCHANGED <<memory, entry, lock, inFlight, fillVars, joined>>

\* The reply is there, and now the memory cache is read
ReadMemory(c) ==
  /\ call[c] = "missed"
  /\ IF memory[Home[c]] = "fresh" THEN End({c}) /\ UNCHANGED <<inFlight, fillVars>>
     ELSE IF c \in Swr THEN Advance(c, "askStale")
     ELSE JoinOrFill(c)
  /\ UNCHANGED <<ready, memory, entry, lock>>

\* The stale entry is the answer; triggerBackgroundCacheRefresh starts a fill if none
\* is in flight
AnswerStale(c) ==
  /\ End({c})
  /\ IF inFlight[Home[c]] # NoFill
     THEN UNCHANGED <<inFlight, fillVars>>
     ELSE \E f \in Fill : StartFill(Home[c], f)

\* withCacheStaleWhileRevalidate asks Redis again, now for a stale entry
ReadStaleRedis(c) ==
  /\ call[c] = "askStale"
  /\ IF Redis(Home[c], {"fresh", "stale"})
     THEN \/ AnswerStale(c) /\ UNCHANGED ready
          \/ Advance(c, "noStale") /\ CommandFails(Home[c])
     ELSE Advance(c, "noStale") /\ (UNCHANGED ready \/ CommandFails(Home[c]))
  /\ UNCHANGED <<memory, entry, lock>>

ReadStaleMemory(c) ==
  /\ call[c] = "noStale"
  /\ IF memory[Home[c]] # "none" THEN AnswerStale(c) ELSE JoinOrFill(c)
  /\ UNCHANGED <<ready, memory, entry, lock>>

-----------------------------------------------------------------------------
(* Fills: while one runs, its process's memory only ages, so the read of Redis and *)
(* the read of the memory that follows are one step.                              *)

FillTo(f, s) == step' = [step EXCEPT ![f] = s]

Settle(f, what) ==
  /\ FillTo(f, "settled")
  /\ result' = [result EXCEPT ![f] = what]

\* acquireRedisLock: SET NX. A failing command may have set the lock all the same.
FillAcquire(f) ==
  /\ step[f] = "acquire"
  /\ \/ /\ ready[owner[f]] /\ lock = NoFill
        /\ lock' = f
        /\ claim' = [claim EXCEPT ![f] = "held"]
        /\ FillTo(f, "recheck")
        /\ UNCHANGED ready
     \/ /\ ~ready[owner[f]] \/ lock # NoFill
        /\ FillTo(f, "poll")
        /\ UNCHANGED <<ready, lock, claim>>
     \/ /\ CommandFails(owner[f])
        /\ lock' \in {lock, IF lock = NoFill THEN f ELSE lock}
        /\ FillTo(f, "poll")
        /\ UNCHANGED claim
  /\ UNCHANGED <<memory, entry, inFlight, owner, releasing, result, callVars>>

\* With the lock: read again, then fetch. The producer's promise is returned, not
\* awaited, so the finally clause sends the release while the producer runs; it sends
\* nothing when Redis is not ready.
FillRecheck(f) ==
  /\ step[f] = "recheck"
  /\ CommandFails(owner[f]) \/ UNCHANGED ready
  /\ LET p == owner[f]
         hit == memory[p] = "fresh" \/ (ready' = ready /\ Redis(p, {"fresh"}))
     IN  IF hit THEN Settle(f, "value") ELSE FillTo(f, "fetch") /\ UNCHANGED result
  /\ releasing' = [releasing EXCEPT ![f] = ready'[owner[f]]]
  /\ claim' = [claim EXCEPT ![f] = IF releasing'[f] THEN @ ELSE "gone"]
  /\ UNCHANGED <<memory, entry, lock, inFlight, owner, callVars>>

\* slip: the lock is deleted whatever its token
FillReleaseAny(f) ==
  /\ releasing[f]
  /\ releasing' = [releasing EXCEPT ![f] = FALSE]
  /\ claim' = [claim EXCEPT ![f] = "gone"]
  /\ lock' = NoFill
  /\ UNCHANGED <<ready, memory, entry, inFlight, step, owner, result, callVars>>

Unlocked(f) == IF lock = f THEN NoFill ELSE lock

\* releaseRedisLock: the script deletes the lock if it still has the token of this
\* fill. When its reply is an error or never comes, it may have run or not.
FillRelease(f) ==
  /\ releasing[f]
  /\ releasing' = [releasing EXCEPT ![f] = FALSE]
  /\ CommandFails(owner[f]) \/ UNCHANGED ready
  /\ claim' = [claim EXCEPT ![f] = "gone"]
  /\ lock' = Unlocked(f) \/ (~ready'[owner[f]] /\ UNCHANGED lock)
  /\ UNCHANGED <<memory, entry, inFlight, step, owner, result, callVars>>

\* waitForFreshCacheFill: read every 50 ms until the entry is there...
FillPoll(f) ==
  /\ step[f] = "poll"
  /\ \/ /\ Fresh(owner[f])
        /\ Settle(f, "value")
        /\ UNCHANGED ready
     \/ /\ CommandFails(owner[f])
        /\ UNCHANGED <<step, result>>
  /\ UNCHANGED <<memory, entry, lock, inFlight, owner, claim, releasing, callVars>>

\* slip: a fill waits for as long as the lock is taken
FillPollWhileLocked(f) ==
  /\ step[f] = "poll"
  /\ lock = NoFill
  /\ FillTo(f, "lateStale")
  /\ UNCHANGED <<ready, memory, entry, lock, inFlight, owner, claim, releasing, result,
                 callVars>>

\* ... or the time is over
FillPollTimeout(f) ==
  /\ step[f] = "poll"
  /\ FillTo(f, "lateStale")
  /\ UNCHANGED <<ready, memory, entry, lock, inFlight, owner, claim, releasing, result,
                 callVars>>

FillLateStale(f) ==
  /\ step[f] = "lateStale"
  /\ \/ /\ IF Stale(owner[f]) THEN Settle(f, "stale") ELSE FillTo(f, "fetch") /\ UNCHANGED result
        /\ UNCHANGED ready
     \/ /\ CommandFails(owner[f])
        /\ IF memory[owner[f]] # "none"
           THEN Settle(f, "stale") ELSE FillTo(f, "fetch") /\ UNCHANGED result
  /\ UNCHANGED <<memory, entry, lock, inFlight, owner, claim, releasing, callVars>>

\* produceAndCache: the producer returns a value to cache or not to cache, or throws an
\* error of the upstream (quota, circuit, 429, 5xx) or another one
FillFetch(f) ==
  /\ step[f] = "fetch"
  /\ \/ /\ FillTo(f, "store")
        /\ memory' = [memory EXCEPT ![owner[f]] = "fresh"]
        /\ UNCHANGED result
     \/ Settle(f, "value") /\ UNCHANGED memory
     \/ FillTo(f, "fallback") /\ UNCHANGED <<memory, result>>
     \/ "fatal" \in Faults /\ ~releasing[f] /\ Settle(f, "error") /\ UNCHANGED memory
  /\ UNCHANGED <<ready, entry, lock, inFlight, owner, claim, releasing, callVars>>

\* setToRedis never throws
FillStore(f) ==
  /\ step[f] = "store"
  /\ Settle(f, "value")
  /\ \/ /\ entry' = IF ready[owner[f]] THEN "fresh" ELSE entry
        /\ UNCHANGED ready
     \/ CommandFails(owner[f]) /\ entry' \in {entry, "fresh"}
  /\ UNCHANGED <<memory, lock, inFlight, owner, claim, releasing, callVars>>

\* The read of Redis was sent after the release, and replies come in order
FillFallback(f) ==
  /\ step[f] = "fallback"
  /\ releasing[f] => ~ready[owner[f]] /\ memory[owner[f]] # "none"
  /\ \/ /\ Settle(f, IF Stale(owner[f]) THEN "stale" ELSE "outage")
        /\ UNCHANGED ready
     \/ /\ CommandFails(owner[f])
        /\ Settle(f, IF memory[owner[f]] # "none" THEN "stale" ELSE "outage")
  /\ UNCHANGED <<memory, entry, lock, inFlight, owner, claim, releasing, callVars>>

\* The slots of the fills F are free again
FreeSlots(F) ==
  /\ step' = [f \in Fill |-> IF f \in F THEN "unused" ELSE step[f]]
  /\ claim' = [f \in Fill |-> IF f \in F THEN "no" ELSE claim[f]]
  /\ releasing' = [f \in Fill |-> f \notin F /\ releasing[f]]
  /\ result' = [f \in Fill |-> IF f \in F THEN "none" ELSE result[f]]
  /\ owner' = [f \in Fill |-> IF f \in F THEN NoProcess ELSE owner[f]]

\* The promise settles once the value is there and the lock released: clearInFlight, and
\* every call that waits is answered
FillFinish(f) ==
  /\ step[f] = "settled" /\ ~releasing[f]
  /\ inFlight' = [inFlight EXCEPT ![owner[f]] = NoFill]
  /\ End({c \in Caller : joined[c] = f})
  /\ FreeSlots({f})
  /\ UNCHANGED <<ready, memory, entry, lock>>

-----------------------------------------------------------------------------
(* Time and failures *)

Older(a) == IF a = "fresh" THEN {"stale", "none"} ELSE {"none"}

\* An entry passes its expiry or its grace period, or the LRU drops it
MemoryAges(p) ==
  /\ memory[p] # "none"
  /\ \E a \in Older(memory[p]) : memory' = [memory EXCEPT ![p] = a]
  /\ covered' = [c \in Caller |-> covered[c] /\ (Home[c] = p => memory'[p] # "none")]
  /\ UNCHANGED <<ready, entry, lock, inFlight, fillVars, call, joined>>

EntryAges ==
  /\ entry # "none"
  /\ entry' \in Older(entry)
  /\ UNCHANGED <<ready, memory, lock, inFlight, fillVars, callVars>>

\* The TTL of the lock runs out
LockExpires ==
  /\ "expiry" \in Faults
  /\ lock # NoFill
  /\ claim' = [claim EXCEPT ![lock] = IF @ = "held" THEN "gone" ELSE @]
  /\ lock' = NoFill
  /\ UNCHANGED <<ready, memory, entry, inFlight, step, owner, releasing, result, callVars>>

\* The events of the Redis client
LinkLost(p) ==
  /\ CommandFails(p)
  /\ UNCHANGED <<memory, entry, lock, inFlight, fillVars, callVars>>

LinkReady(p) ==
  /\ ~ready[p]
  /\ ready' = [ready EXCEPT ![p] = TRUE]
  /\ UNCHANGED <<memory, entry, lock, inFlight, fillVars, callVars>>

\* A process ends and is started again: its memory, fills and calls are gone
Restart(p) ==
  /\ ready' = [ready EXCEPT ![p] = FALSE]
  /\ memory' = [memory EXCEPT ![p] = "none"]
  /\ inFlight' = [inFlight EXCEPT ![p] = NoFill]
  /\ FreeSlots({f \in Fill : owner[f] = p})
  /\ End({c \in Caller : Home[c] = p})
  /\ UNCHANGED entry

\* The lock of a process that ends stays in Redis
Crash(p) == "crash" \in Faults /\ Restart(p) /\ UNCHANGED lock

\* The promise of the producer is rejected while the finally clause awaits the release:
\* nobody has subscribed to it, and Node ends a process on an unhandled rejection. The
\* script may have run or not.
FillRejectsUnhandled(f) ==
  /\ releasing[f]
  /\ \/ step[f] = "fetch" /\ "fatal" \in Faults
     \/ step[f] = "fallback" /\ ~ready[owner[f]] /\ memory[owner[f]] = "none"
  /\ Restart(owner[f])
  /\ lock' \in {lock, Unlocked(f)}

-----------------------------------------------------------------------------
(* Specification *)

Init ==
  /\ ready = [p \in Process |-> FALSE]
  /\ memory = [p \in Process |-> "none"]
  /\ entry = "none"
  /\ lock = NoFill
  /\ inFlight = [p \in Process |-> NoFill]
  /\ step = [f \in Fill |-> "unused"]
  /\ owner = [f \in Fill |-> NoProcess]
  /\ claim = [f \in Fill |-> "no"]
  /\ releasing = [f \in Fill |-> FALSE]
  /\ result = [f \in Fill |-> "none"]
  /\ call = [c \in Caller |-> "idle"]
  /\ joined = [c \in Caller |-> NoFill]
  /\ covered = [c \in Caller |-> FALSE]

\* The steps of a call that has begun
Proceed(c) == ReadMemory(c) \/ ReadStaleRedis(c) \/ ReadStaleMemory(c)

RunFill(f) ==
  \/ FillAcquire(f) \/ FillRecheck(f) \/ FillPollTimeout(f)
  \/ FillLateStale(f) \/ FillFetch(f) \/ FillStore(f) \/ FillFallback(f)

Next ==
  \/ \E c \in Caller : Call(c) \/ Proceed(c)
  \/ \E f \in Fill : RunFill(f) \/ FillPoll(f) \/ FillRelease(f) \/ FillFinish(f)
                      \/ FillRejectsUnhandled(f)
  \/ \E p \in Process : MemoryAges(p) \/ LinkLost(p) \/ LinkReady(p) \/ Crash(p)
  \/ EntryAges
  \/ LockExpires

\* Replies, timers and the producer's timeout all arrive; nobody has to call, and neither
\* a lock nor a link has to come back.
Fairness ==
  /\ \A c \in Caller : WF_vars(Proceed(c))
  /\ \A f \in Fill : WF_vars(RunFill(f)) /\ WF_vars(FillRelease(f)) /\ WF_vars(FillFinish(f))

Spec == Init /\ [][Next]_vars
FairSpec == Spec /\ Fairness

-----------------------------------------------------------------------------
(* Properties *)

\* The values the entries, the lock, the fills and the calls can hold.
TypeOK ==
  /\ ready \in [Process -> BOOLEAN]
  /\ memory \in [Process -> Age]
  /\ entry \in Age
  /\ lock \in Fill \union {NoFill}
  /\ inFlight \in [Process -> Fill \union {NoFill}]
  /\ step \in [Fill -> FillStep]
  /\ owner \in [Fill -> Process \union {NoProcess}]
  /\ claim \in [Fill -> Claim]
  /\ releasing \in [Fill -> BOOLEAN]
  /\ result \in [Fill -> Result]
  /\ call \in [Caller -> CallStep]
  /\ joined \in [Caller -> Fill \union {NoFill}]
  /\ covered \in [Caller -> BOOLEAN]

\* A process runs one fill of a key at a time, the one its in-flight map knows, and the
\* map keeps none that is over: withCache reads the map and writes it without an await
\* between, and the finally handler deletes the entry whatever became of the fill.
SingleFlight ==
  \A p \in Process, f \in Fill : inFlight[p] = f <=> owner[f] = p

\* Nobody but Redis takes a lock from the fill that holds it: a fill that overran the
\* TTL of its lock does not release the lock of the next one.
LockKept == \A f \in Fill : claim[f] = "held" => lock = f

\* When the upstream fails (quota, circuit, 429, 5xx), a call whose process has had a
\* copy in memory all along is not answered with the error, whatever Redis does.
OutageHidden ==
  \A c \in Caller, f \in Fill : joined[c] = f /\ result[f] = "outage" => ~covered[c]

\* A call is answered, or its process ended: it waits neither for a lock somebody left
\* behind nor for a Redis that went away.
CallAnswered ==
  \A c \in Caller : call[c] # "idle" ~> call[c] = "idle"
===============================================================================
