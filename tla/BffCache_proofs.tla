---------------------------- MODULE BffCache_proofs ----------------------------
(* Theorems about BffCache, for every value of its constants: any number of *)
(* processes, calls and fills, whatever may go wrong.                       *)
EXTENDS BffCache, TLAPS

\* A slot is owned exactly while it is in use, and only then releases a lock
Owned ==
  \A f \in Fill : /\ owner[f] = NoProcess <=> step[f] = "unused"
                  /\ releasing[f] => step[f] # "unused"

\* The inductive invariant. TypeOK needs Owned because a fill looks up the redisReady of
\* its owner; SingleFlight needs it because a new fill takes a slot that is not in use.
CacheInv == TypeOK /\ Owned /\ SingleFlight /\ LockKept

-----------------------------------------------------------------------------
(* What the helpers of the actions preserve *)

\* The part of the invariant about calls
CallsOK ==
  /\ call \in [Caller -> CallStep]
  /\ joined \in [Caller -> Fill \union {NoFill}]
  /\ covered \in [Caller -> BOOLEAN]

\* The part about fills
FillsOK ==
  /\ inFlight \in [Process -> Fill \union {NoFill}]
  /\ step \in [Fill -> FillStep]
  /\ owner \in [Fill -> Process \union {NoProcess}]
  /\ claim \in [Fill -> Claim]
  /\ releasing \in [Fill -> BOOLEAN]
  /\ result \in [Fill -> Result]
  /\ Owned
  /\ SingleFlight

\* The part about the data and Redis
DataOK ==
  /\ ready \in [Process -> BOOLEAN]
  /\ memory \in [Process -> Age]
  /\ entry \in Age
  /\ lock \in Fill \union {NoFill}

LEMMA InvSplit ==
  /\ CacheInv <=> CallsOK /\ FillsOK /\ DataOK /\ LockKept
  /\ CacheInv' <=> CallsOK' /\ FillsOK' /\ DataOK' /\ LockKept'
  BY DEF CacheInv, TypeOK, CallsOK, FillsOK, DataOK

LEMMA EndCalls == ASSUME CallsOK, NEW C \in SUBSET Caller, End(C) PROVE CallsOK'
  BY DEF CallsOK, End, CallStep

LEMMA JoinCalls == ASSUME CallsOK, NEW c \in Caller, NEW f \in Fill, Join(c, f) PROVE CallsOK'
  BY DEF CallsOK, Join, CallStep

LEMMA CallsUnchanged == ASSUME CallsOK, UNCHANGED callVars PROVE CallsOK'
  BY DEF CallsOK, callVars

LEMMA FillsUnchanged == ASSUME FillsOK, UNCHANGED <<inFlight, fillVars>> PROVE FillsOK'
  BY DEF FillsOK, fillVars, Owned, SingleFlight

LEMMA LockUnchanged == ASSUME LockKept, UNCHANGED <<lock, claim>> PROVE LockKept'
  BY DEF LockKept

\* A fill starts in a slot that is free, in a process that has no fill in flight
LEMMA StartFills ==
  ASSUME FillsOK, LockKept, NEW p \in Process, NEW f \in Fill, inFlight[p] = NoFill,
         StartFill(p, f), UNCHANGED lock
  PROVE  FillsOK' /\ LockKept'
  <1>1. Owned'
    BY NoneAssumption DEF FillsOK, Owned, StartFill, FillStep
  <1>2. SingleFlight'
    BY NoneAssumption DEF FillsOK, Owned, SingleFlight, StartFill
  <1>3. LockKept'
    BY DEF LockKept, StartFill
  <1> QED BY <1>1, <1>2, <1>3 DEF FillsOK, StartFill, FillStep

\* A fill in use goes on, in the same process
LEMMA StepFills ==
  ASSUME FillsOK, NEW f \in Fill, step[f] # "unused", NEW s \in FillStep \ {"unused"},
         FillTo(f, s), UNCHANGED <<inFlight, owner>>,
         claim' \in [Fill -> Claim], releasing' \in [Fill -> BOOLEAN],
         \A g \in Fill \ {f} : releasing'[g] = releasing[g],
         result' \in [Fill -> Result]
  PROVE  FillsOK'
  BY DEF FillsOK, Owned, SingleFlight, FillTo

\* The fills of a process are over, and it has none in flight
LEMMA FreeFills ==
  ASSUME FillsOK, NEW p \in Process, NEW F \in SUBSET Fill,
         \A f \in Fill : owner[f] = p <=> f \in F,
         FreeSlots(F), inFlight' = [inFlight EXCEPT ![p] = NoFill]
  PROVE  FillsOK'
  <1>1. Owned'
    BY DEF FillsOK, Owned, FreeSlots
  <1>2. SingleFlight'
    BY NoneAssumption DEF FillsOK, SingleFlight, FreeSlots
  <1>3. claim' \in [Fill -> Claim] /\ result' \in [Fill -> Result]
    BY DEF FillsOK, FreeSlots, Claim, Result
  <1>4. step' \in [Fill -> FillStep] /\ owner' \in [Fill -> Process \union {NoProcess}]
    BY DEF FillsOK, FreeSlots, FillStep
  <1>5. releasing' \in [Fill -> BOOLEAN] /\ inFlight' \in [Process -> Fill \union {NoFill}]
    BY DEF FillsOK, FreeSlots
  <1> QED BY <1>1, <1>2, <1>3, <1>4, <1>5 DEF FillsOK

LEMMA OwnerInUse ==
  ASSUME FillsOK, NEW f \in Fill, step[f] # "unused"
  PROVE  owner[f] \in Process /\ inFlight[owner[f]] = f
  BY DEF FillsOK, Owned, SingleFlight

-----------------------------------------------------------------------------
(* Initial states *)

LEMMA InitInv == Init => CacheInv
  <1> SUFFICES ASSUME Init PROVE CacheInv
    OBVIOUS
  <1>1. TypeOK
    BY DEF Init, TypeOK, Age, FillStep, Claim, Result, CallStep
  <1>2. Owned /\ SingleFlight /\ LockKept
    BY NoneAssumption DEF Init, Owned, SingleFlight, LockKept
  <1> QED BY <1>1, <1>2 DEF CacheInv

-----------------------------------------------------------------------------
(* Calls *)

LEMMA FailsReady == \A p \in Process : DataOK /\ CommandFails(p) => ready' \in [Process -> BOOLEAN]
  BY DEF DataOK, CommandFails

LEMMA JoinOrFillInv ==
  ASSUME CallsOK, FillsOK, LockKept, NEW c \in Caller, JoinOrFill(c), UNCHANGED lock
  PROVE  CallsOK' /\ FillsOK' /\ LockKept'
  <1>1. Home[c] \in Process
    BY HomeAssumption
  <1>2. CASE inFlight[Home[c]] # NoFill
    <2>1. inFlight[Home[c]] \in Fill
      BY <1>1, <1>2 DEF FillsOK
    <2>2. Join(c, inFlight[Home[c]]) /\ UNCHANGED <<inFlight, fillVars>>
      BY <1>2 DEF JoinOrFill
    <2> QED BY <2>1, <2>2, JoinCalls, FillsUnchanged, LockUnchanged DEF fillVars
  <1>3. CASE inFlight[Home[c]] = NoFill
    <2>1. PICK f \in Fill : StartFill(Home[c], f) /\ Join(c, f)
      BY <1>3 DEF JoinOrFill
    <2> QED BY <1>1, <1>3, <2>1, JoinCalls, StartFills
  <1> QED BY <1>2, <1>3

LEMMA AnswerStaleInv ==
  ASSUME CallsOK, FillsOK, LockKept, NEW c \in Caller, AnswerStale(c), UNCHANGED lock
  PROVE  CallsOK' /\ FillsOK' /\ LockKept'
  <1>1. Home[c] \in Process
    BY HomeAssumption
  <1>2. CallsOK'
    BY EndCalls DEF AnswerStale
  <1>3. CASE inFlight[Home[c]] # NoFill
    BY <1>2, <1>3, FillsUnchanged, LockUnchanged DEF AnswerStale, fillVars
  <1>4. CASE inFlight[Home[c]] = NoFill
    <2>1. PICK f \in Fill : StartFill(Home[c], f)
      BY <1>4 DEF AnswerStale
    <2> QED BY <1>1, <1>2, <1>4, <2>1, StartFills
  <1> QED BY <1>3, <1>4

LEMMA AdvanceInv ==
  ASSUME CallsOK, FillsOK, LockKept, NEW c \in Caller, NEW s \in CallStep, Advance(c, s),
         UNCHANGED lock
  PROVE  CallsOK' /\ FillsOK' /\ LockKept'
  BY FillsUnchanged, LockUnchanged DEF Advance, CallsOK, fillVars

LEMMA CallInv ==
  ASSUME CacheInv, NEW c \in Caller, Call(c) \/ Proceed(c)
  PROVE  CacheInv'
  <1> USE InvSplit
  <1>1. Home[c] \in Process
    BY HomeAssumption
  <1>2. "missed" \in CallStep /\ "askStale" \in CallStep /\ "noStale" \in CallStep
    BY DEF CallStep
  <1>3. CASE Call(c)
    <2>1. CallsOK'
      BY <1>1, <1>2, <1>3 DEF Call, CallsOK
    <2>2. DataOK'
      BY <1>1, <1>3, FailsReady DEF Call, DataOK
    <2> QED BY <1>3, <2>1, <2>2, FillsUnchanged, LockUnchanged DEF Call, fillVars
  <1>4. CASE ReadMemory(c)
    <2>1. DataOK' /\ UNCHANGED lock
      BY <1>4 DEF ReadMemory, DataOK
    <2>2. CASE memory[Home[c]] = "fresh"
      BY <1>4, <2>1, <2>2, EndCalls, FillsUnchanged, LockUnchanged DEF ReadMemory, fillVars
    <2>3. CASE memory[Home[c]] # "fresh" /\ c \in Swr
      BY <1>2, <1>4, <2>1, <2>3, AdvanceInv DEF ReadMemory
    <2>4. CASE memory[Home[c]] # "fresh" /\ c \notin Swr
      BY <1>4, <2>1, <2>4, JoinOrFillInv DEF ReadMemory
    <2> QED BY <2>2, <2>3, <2>4
  <1>5. CASE ReadStaleRedis(c)
    <2>1. DataOK' /\ UNCHANGED lock
      BY <1>1, <1>5, FailsReady DEF ReadStaleRedis, DataOK
    <2>2. AnswerStale(c) \/ Advance(c, "noStale")
      BY <1>5 DEF ReadStaleRedis
    <2> QED BY <1>2, <2>1, <2>2, AnswerStaleInv, AdvanceInv
  <1>6. CASE ReadStaleMemory(c)
    <2>1. DataOK' /\ UNCHANGED lock
      BY <1>6 DEF ReadStaleMemory, DataOK
    <2>2. AnswerStale(c) \/ JoinOrFill(c)
      BY <1>6 DEF ReadStaleMemory
    <2> QED BY <2>1, <2>2, AnswerStaleInv, JoinOrFillInv
  <1> QED BY <1>3, <1>4, <1>5, <1>6 DEF Proceed

-----------------------------------------------------------------------------
(* Fills *)

LEMMA FillMovesInv ==
  ASSUME CacheInv, NEW f \in Fill,
         FillPollTimeout(f) \/ FillLateStale(f) \/ FillFetch(f) \/ FillStore(f)
           \/ FillFallback(f) \/ FillPoll(f)
  PROVE  CacheInv'
  <1> USE InvSplit
  <1>1. /\ step[f] # "unused"
        /\ UNCHANGED <<lock, inFlight, owner, claim, releasing, callVars>>
    BY DEF FillPollTimeout, FillLateStale, FillFetch, FillStore, FillFallback, FillPoll
  <1>2. owner[f] \in Process
    BY <1>1, OwnerInUse
  <1>3. DataOK'
    <2>1. CommandFails(owner[f]) => ready' \in [Process -> BOOLEAN]
      BY <1>2, FailsReady
    <2>2. ready' \in [Process -> BOOLEAN]
      BY <2>1 DEF FillPollTimeout, FillLateStale, FillFetch, FillStore, FillFallback,
                  FillPoll, DataOK
    <2>3. memory' \in [Process -> Age] /\ entry' \in Age
      BY DEF FillPollTimeout, FillLateStale, FillFetch, FillStore, FillFallback,
             FillPoll, DataOK, Age
    <2> QED BY <1>1, <2>2, <2>3 DEF DataOK
  <1>4. FillsOK'
    <2>1. \/ \E s \in FillStep \ {"unused"} : FillTo(f, s)
          \/ UNCHANGED step
      BY DEF FillPollTimeout, FillLateStale, FillFetch, FillStore, FillFallback,
             FillPoll, Settle, FillStep
    <2>2. result' \in [Fill -> Result]
      BY DEF FillPollTimeout, FillLateStale, FillFetch, FillStore, FillFallback,
             FillPoll, Settle, Result, FillsOK
    <2>3. claim' \in [Fill -> Claim] /\ releasing' \in [Fill -> BOOLEAN]
      BY <1>1 DEF FillsOK
    <2>4. CASE UNCHANGED step
      BY <1>1, <2>2, <2>3, <2>4 DEF FillsOK, Owned, SingleFlight
    <2>5. CASE \E s \in FillStep \ {"unused"} : FillTo(f, s)
      BY <1>1, <2>2, <2>3, <2>5, StepFills
    <2> QED BY <2>1, <2>4, <2>5
  <1> QED BY <1>1, <1>3, <1>4, CallsUnchanged, LockUnchanged

LEMMA FillAcquireInv ==
  ASSUME CacheInv, NEW f \in Fill, FillAcquire(f)
  PROVE  CacheInv'
  <1> USE InvSplit
  <1>1. owner[f] \in Process
    BY OwnerInUse DEF FillAcquire
  <1>2. DataOK'
    BY <1>1, FailsReady DEF FillAcquire, DataOK
  <1>3. FillsOK'
    <2>1. claim' \in [Fill -> Claim] /\ releasing' \in [Fill -> BOOLEAN]
            /\ result' \in [Fill -> Result]
      BY DEF FillAcquire, FillsOK, Claim
    <2>2. FillTo(f, "recheck") \/ FillTo(f, "poll")
      BY DEF FillAcquire
    <2> QED BY <2>1, <2>2, StepFills DEF FillAcquire, FillStep
  <1>4. LockKept'
    <2>1. CASE lock = NoFill
      BY <2>1, NoneAssumption DEF LockKept, FillAcquire, FillsOK
    <2>2. CASE lock # NoFill
      BY <2>2 DEF LockKept, FillAcquire
    <2> QED BY <2>1, <2>2
  <1> QED BY <1>2, <1>3, <1>4, CallsUnchanged DEF FillAcquire

LEMMA FillRecheckInv ==
  ASSUME CacheInv, NEW f \in Fill, FillRecheck(f)
  PROVE  CacheInv'
  <1> USE InvSplit
  <1>1. owner[f] \in Process
    BY OwnerInUse DEF FillRecheck
  <1>2. DataOK'
    BY <1>1, FailsReady DEF FillRecheck, DataOK
  <1>3. claim' \in [Fill -> Claim] /\ releasing' \in [Fill -> BOOLEAN]
    BY <1>1, <1>2 DEF FillRecheck, FillsOK, DataOK, Claim
  <1>4. result' \in [Fill -> Result]
    BY DEF FillRecheck, FillsOK, Settle, Result
  <1>5. FillTo(f, "settled") \/ FillTo(f, "fetch")
    BY DEF FillRecheck, Settle
  <1>6. FillsOK'
    <2>1. \A g \in Fill \ {f} : releasing'[g] = releasing[g]
      BY DEF FillRecheck, FillsOK
    <2> QED BY <1>3, <1>4, <1>5, <2>1, StepFills DEF FillRecheck, FillStep
  <1>7. LockKept'
    BY DEF LockKept, FillRecheck, FillsOK
  <1> QED BY <1>2, <1>6, <1>7, CallsUnchanged DEF FillRecheck

LEMMA FillReleaseInv ==
  ASSUME CacheInv, NEW f \in Fill, FillRelease(f)
  PROVE  CacheInv'
  <1> USE InvSplit
  <1>1. owner[f] \in Process
    BY OwnerInUse DEF FillRelease, FillsOK, Owned
  <1>2. DataOK'
    BY <1>1, FailsReady DEF FillRelease, DataOK, Unlocked
  <1>3. FillsOK'
    BY DEF FillRelease, FillsOK, Claim, Owned, SingleFlight
  <1>4. LockKept'
    BY DEF LockKept, FillRelease, Unlocked, FillsOK
  <1> QED BY <1>2, <1>3, <1>4, CallsUnchanged DEF FillRelease

LEMMA FillFinishInv ==
  ASSUME CacheInv, NEW f \in Fill, FillFinish(f)
  PROVE  CacheInv'
  <1> USE InvSplit
  <1>1. owner[f] \in Process /\ inFlight[owner[f]] = f
    BY OwnerInUse DEF FillFinish
  <1>2. \A g \in Fill : owner[g] = owner[f] <=> g \in {f}
    BY <1>1 DEF FillsOK, SingleFlight
  <1>3. FillsOK'
    BY <1>1, <1>2, FreeFills DEF FillFinish
  <1>4. CallsOK'
    BY EndCalls DEF FillFinish
  <1>5. LockKept'
    BY DEF LockKept, FillFinish, FreeSlots
  <1> QED BY <1>3, <1>4, <1>5 DEF FillFinish, DataOK

-----------------------------------------------------------------------------
(* Time and failures *)

LEMMA RestartInv ==
  ASSUME CacheInv, NEW p \in Process, Restart(p), lock' \in Fill \union {NoFill},
         \A f \in Fill : owner[f] # p /\ lock = f => lock' = f
  PROVE  CacheInv'
  <1> USE InvSplit
  <1>1. FillsOK'
    BY FreeFills DEF Restart
  <1>2. CallsOK'
    BY EndCalls DEF Restart
  <1>3. DataOK'
    BY DEF Restart, DataOK, Age
  <1>4. LockKept'
    BY DEF LockKept, Restart, FreeSlots
  <1> QED BY <1>1, <1>2, <1>3, <1>4

LEMMA TimeInv ==
  ASSUME CacheInv, NEW p \in Process, MemoryAges(p) \/ LinkLost(p) \/ LinkReady(p) \/ EntryAges
  PROVE  CacheInv'
  <1> USE InvSplit
  <1>1. UNCHANGED <<lock, inFlight, fillVars>>
    BY DEF MemoryAges, LinkLost, LinkReady, EntryAges
  <1>2. DataOK'
    <2>1. ready' \in [Process -> BOOLEAN]
      BY FailsReady DEF MemoryAges, LinkLost, LinkReady, EntryAges, DataOK
    <2>2. memory' \in [Process -> Age] /\ entry' \in Age
      BY DEF MemoryAges, LinkLost, LinkReady, EntryAges, DataOK, Age, Older
    <2> QED BY <1>1, <2>1, <2>2 DEF DataOK
  <1>3. CallsOK'
    BY DEF MemoryAges, LinkLost, LinkReady, EntryAges, CallsOK, callVars
  <1> QED BY <1>1, <1>2, <1>3, FillsUnchanged, LockUnchanged DEF fillVars

LEMMA LockExpiresInv ==
  ASSUME CacheInv, LockExpires
  PROVE  CacheInv'
  <1> USE InvSplit
  <1>1. lock \in Fill
    BY DEF LockExpires, DataOK
  <1>2. LockKept'
    BY <1>1 DEF LockKept, LockExpires, FillsOK
  <1>3. FillsOK'
    BY <1>1 DEF FillsOK, LockExpires, Owned, SingleFlight, Claim
  <1> QED BY <1>2, <1>3, CallsUnchanged DEF LockExpires, DataOK

LEMMA RejectsUnhandledInv ==
  ASSUME CacheInv, NEW f \in Fill, FillRejectsUnhandled(f)
  PROVE  CacheInv'
  <1> USE InvSplit
  <1>1. owner[f] \in Process
    BY OwnerInUse DEF FillRejectsUnhandled
  <1>2. lock' \in Fill \union {NoFill}
    BY DEF FillRejectsUnhandled, Unlocked, DataOK
  <1>3. \A g \in Fill : owner[g] # owner[f] /\ lock = g => lock' = g
    BY DEF FillRejectsUnhandled, Unlocked
  <1> QED BY <1>1, <1>2, <1>3, RestartInv DEF FillRejectsUnhandled

LEMMA CrashInv ==
  ASSUME CacheInv, NEW p \in Process, Crash(p)
  PROVE  CacheInv'
  <1>1. lock' \in Fill \union {NoFill}
    BY DEF Crash, CacheInv, TypeOK
  <1> QED BY <1>1, RestartInv DEF Crash

-----------------------------------------------------------------------------
(* Theorems *)

LEMMA NextInv == CacheInv /\ [Next]_vars => CacheInv'
  <1> SUFFICES ASSUME CacheInv, [Next]_vars PROVE CacheInv'
    OBVIOUS
  <1>1. ASSUME NEW c \in Caller, Call(c) \/ Proceed(c) PROVE CacheInv'
    BY <1>1, CallInv
  <1>2. ASSUME NEW f \in Fill, RunFill(f) PROVE CacheInv'
    BY <1>2, FillAcquireInv, FillRecheckInv, FillMovesInv DEF RunFill
  <1>3. ASSUME NEW f \in Fill,
               FillPoll(f) \/ FillRelease(f) \/ FillFinish(f) \/ FillRejectsUnhandled(f)
        PROVE  CacheInv'
    BY <1>3, FillMovesInv, FillReleaseInv, FillFinishInv, RejectsUnhandledInv
  <1>4. ASSUME NEW p \in Process, MemoryAges(p) \/ LinkLost(p) \/ LinkReady(p) \/ Crash(p)
        PROVE  CacheInv'
    BY <1>4, TimeInv, CrashInv
  <1>5. CASE EntryAges
    <2>1. DataOK'
      BY <1>5, InvSplit DEF EntryAges, DataOK, Age, Older
    <2> QED BY <1>5, <2>1, InvSplit, CallsUnchanged, FillsUnchanged, LockUnchanged
            DEF EntryAges, fillVars
  <1>6. CASE LockExpires
    BY <1>6, LockExpiresInv
  <1>7. CASE UNCHANGED vars
    BY <1>7 DEF vars, fillVars, callVars, CacheInv, TypeOK, Owned, SingleFlight, LockKept
  <1> QED BY <1>1, <1>2, <1>3, <1>4, <1>5, <1>6, <1>7 DEF Next

\* Every variable keeps its type.
THEOREM TypeCorrect == Spec => []TypeOK
  <1>1. CacheInv => TypeOK
    BY DEF CacheInv
  <1> QED BY <1>1, InitInv, NextInv, PTL DEF Spec

\* However calls, lost connections, restarts and failing producers interleave, a process
\* runs one fill of the key at a time and its in-flight map knows exactly that one.
THEOREM OneFillPerProcess == Spec => []SingleFlight
  <1>1. CacheInv => SingleFlight
    BY DEF CacheInv
  <1> QED BY <1>1, InitInv, NextInv, PTL DEF Spec

\* Only its own TTL takes the lock from the fill that holds it.
THEOREM LockIsKept == Spec => []LockKept
  <1>1. CacheInv => LockKept
    BY DEF CacheInv
  <1> QED BY <1>1, InitInv, NextInv, PTL DEF Spec

-----------------------------------------------------------------------------
(* A failing upstream is hidden from calls whose process has a copy *)

\* While a call is covered its process has a copy
Covering == \A c \in Caller : covered[c] => memory[Home[c]] # "none"

\* A call waits for a fill of its own process
JoinedHere == \A c \in Caller, f \in Fill : joined[c] = f => owner[f] = Home[c]

\* A fill returns the error of the upstream only when its process has no copy, and has none
\* as long as the fill is in flight
OutageBare ==
  \A f \in Fill : result[f] = "outage" => step[f] = "settled" /\ memory[owner[f]] = "none"

OutageParts == Covering /\ JoinedHere /\ OutageBare

\* The inductive invariant. OutageHidden is not inductive: a call that joins a fill which has
\* already failed must not be covered.
OutageInv == CacheInv /\ OutageParts

\* A call ends, goes on, or waits for a fill of its process, and the fills are where they were
LEMMA CallsMove ==
  ASSUME OutageInv, UNCHANGED <<memory, step, owner, result>>,
         \A c \in Caller : /\ \/ joined'[c] \in {joined[c], NoFill}
                              \/ joined'[c] \in Fill /\ owner[joined'[c]] = Home[c]
                           /\ covered'[c] => covered[c] \/ memory[Home[c]] # "none"
  PROVE  OutageParts'
  BY NoneAssumption DEF OutageInv, OutageParts, Covering, JoinedHere, OutageBare

\* A fill starts, and a call may wait for it
LEMMA FillStarts ==
  ASSUME OutageInv, NEW p \in Process, NEW f \in Fill, StartFill(p, f), UNCHANGED memory,
         \A c \in Caller : /\ joined'[c] \in {joined[c], NoFill} \/ (joined'[c] = f /\ Home[c] = p)
                           /\ covered'[c] => covered[c]
  PROVE  OutageParts'
  <1>1. /\ step[f] = "unused" /\ owner[f] = NoProcess
        /\ owner' = [owner EXCEPT ![f] = p] /\ owner \in [Fill -> Process \union {NoProcess}]
        /\ step \in [Fill -> FillStep]
        /\ step' = [step EXCEPT ![f] = IF ready[p] THEN "acquire" ELSE "fetch"]
        /\ result' = result
    BY DEF StartFill, OutageInv, CacheInv, TypeOK, Owned
  <1>2. \A c \in Caller : joined[c] # f
    BY <1>1, HomeAssumption, NoneAssumption DEF OutageInv, OutageParts, JoinedHere
  <1>3. Covering'
    BY DEF OutageInv, OutageParts, Covering
  <1>4. JoinedHere'
    BY <1>1, <1>2, NoneAssumption DEF OutageInv, OutageParts, JoinedHere
  <1>5. OutageBare'
    BY <1>1 DEF OutageInv, OutageParts, OutageBare
  <1> QED BY <1>3, <1>4, <1>5 DEF OutageParts

\* A fill goes on
LEMMA FillMoves ==
  ASSUME OutageInv, NEW f \in Fill, step[f] # "unused",
         UNCHANGED <<owner, joined, covered>>,
         \A g \in Fill \ {f} : step'[g] = step[g] /\ result'[g] = result[g],
         result'[f] = "outage" => step'[f] = "settled" /\ memory'[owner[f]] = "none",
         \A p \in Process : memory'[p] = memory[p] \/ (p = owner[f] /\ memory'[p] = "fresh")
  PROVE  OutageParts'
  <1>1. \A g \in Fill \ {f} : owner[g] # owner[f]
    BY OwnerInUse, InvSplit DEF OutageInv, CacheInv, SingleFlight
  <1>2. \A g \in Fill : step[g] # "unused" => owner[g] \in Process
    BY OwnerInUse, InvSplit DEF OutageInv
  <1>3. Covering'
    BY HomeAssumption DEF OutageInv, OutageParts, Covering
  <1>4. JoinedHere'
    BY DEF OutageInv, OutageParts, JoinedHere
  <1>5. OutageBare'
    BY <1>1, <1>2 DEF OutageInv, OutageParts, OutageBare
  <1> QED BY <1>3, <1>4, <1>5 DEF OutageParts

\* Fills are over, with the calls that wait for them
LEMMA FillsEnd ==
  ASSUME OutageInv, NEW F \in SUBSET Fill, NEW C \in SUBSET Caller, FreeSlots(F), End(C),
         \A c \in Caller, f \in F : joined[c] = f => c \in C,
         \A p \in Process : memory'[p] = memory[p] \/ (memory'[p] = "none" /\ \A c \in Caller : Home[c] = p => c \in C)
  PROVE  OutageParts'
  <1>1. /\ \A f \in Fill \ F : step'[f] = step[f] /\ owner'[f] = owner[f] /\ result'[f] = result[f]
        /\ \A f \in F : result'[f] = "none"
        /\ \A c \in C : joined'[c] = NoFill
        /\ \A c \in Caller \ C : joined'[c] = joined[c]
        /\ \A c \in Caller : covered'[c] => c \notin C /\ covered[c]
    BY DEF FreeSlots, End
  <1>2. \A f \in Fill : step[f] # "unused" => owner[f] \in Process
    BY OwnerInUse, InvSplit DEF OutageInv
  <1>3. Covering'
    BY <1>1, HomeAssumption DEF OutageInv, OutageParts, Covering
  <1>4. JoinedHere'
    BY <1>1, NoneAssumption DEF OutageInv, OutageParts, JoinedHere
  <1>5. OutageBare'
    BY <1>1, <1>2 DEF OutageInv, OutageParts, OutageBare
  <1> QED BY <1>3, <1>4, <1>5 DEF OutageParts

\* The steps of a call keep the parts
LEMMA CallOutage ==
  ASSUME OutageInv, NEW c \in Caller, Call(c) \/ Proceed(c)
  PROVE  OutageParts'
  <1>1. /\ Home[c] \in Process
        /\ call \in [Caller -> CallStep] /\ joined \in [Caller -> Fill \union {NoFill}]
        /\ covered \in [Caller -> BOOLEAN]
    BY HomeAssumption DEF OutageInv, CacheInv, TypeOK
  <1>2. CASE Call(c)
    <2>1. /\ UNCHANGED <<memory, step, owner, result, joined>>
          /\ covered' = [covered EXCEPT ![c] = memory[Home[c]] # "none"]
      BY <1>2 DEF Call, fillVars
    <2>2. \A d \in Caller : covered'[d] => covered[d] \/ memory[Home[d]] # "none"
      BY <1>1, <2>1
    <2> QED BY <2>1, <2>2, CallsMove
  <1>3. ASSUME End({c}), UNCHANGED <<memory, inFlight, fillVars>> PROVE OutageParts'
    BY <1>3, CallsMove DEF End, fillVars
  <1>4. ASSUME NEW s, Advance(c, s), UNCHANGED memory PROVE OutageParts'
    BY <1>4, CallsMove DEF Advance, fillVars
  <1>5. ASSUME JoinOrFill(c), UNCHANGED memory PROVE OutageParts'
    <2>1. CASE inFlight[Home[c]] # NoFill
      <3>1. Join(c, inFlight[Home[c]]) /\ UNCHANGED <<inFlight, fillVars>>
        BY <1>5, <2>1 DEF JoinOrFill
      <3>2. inFlight[Home[c]] \in Fill /\ owner[inFlight[Home[c]]] = Home[c]
        BY <1>1, <2>1 DEF OutageInv, CacheInv, TypeOK, SingleFlight
      <3> QED BY <1>1, <1>5, <3>1, <3>2, CallsMove DEF Join, fillVars
    <2>2. CASE inFlight[Home[c]] = NoFill
      <3>1. PICK f \in Fill : StartFill(Home[c], f) /\ Join(c, f)
        BY <1>5, <2>2 DEF JoinOrFill
      <3> QED BY <1>1, <1>5, <3>1, FillStarts DEF Join
    <2> QED BY <2>1, <2>2
  <1>6. ASSUME AnswerStale(c), UNCHANGED memory PROVE OutageParts'
    <2>1. CASE UNCHANGED <<inFlight, fillVars>>
      BY <1>3, <1>6, <2>1 DEF AnswerStale
    <2>2. ASSUME NEW f \in Fill, StartFill(Home[c], f) PROVE OutageParts'
      BY <1>1, <1>6, <2>2, FillStarts DEF AnswerStale, End
    <2> QED BY <1>6, <2>1, <2>2 DEF AnswerStale
  <1> QED BY <1>2, <1>3, <1>4, <1>5, <1>6 DEF Proceed, ReadMemory, ReadStaleRedis, ReadStaleMemory

\* And the steps of a fill
LEMMA FillOutage ==
  ASSUME OutageInv, NEW f \in Fill,
         FillAcquire(f) \/ FillRecheck(f) \/ FillPoll(f) \/ FillPollTimeout(f) \/ FillLateStale(f)
           \/ FillFetch(f) \/ FillStore(f) \/ FillFallback(f) \/ FillRelease(f)
  PROVE  OutageParts'
  <1>1. /\ step \in [Fill -> FillStep] /\ result \in [Fill -> Result] /\ memory \in [Process -> Age]
        /\ step[f] # "settled" => result[f] # "outage"
        /\ step[f] # "unused" /\ owner[f] \in Process
    <2>1. step[f] # "unused"
      BY DEF FillAcquire, FillRecheck, FillPoll, FillPollTimeout, FillLateStale,
         FillFetch, FillStore, FillFallback, FillRelease, OutageInv, CacheInv, Owned
    <2> QED BY <2>1, OwnerInUse, InvSplit DEF OutageInv, OutageParts, OutageBare, CacheInv, TypeOK
  <1>2. UNCHANGED <<owner, joined, covered>>
    BY DEF FillAcquire, FillRecheck, FillPoll, FillPollTimeout, FillLateStale,
       FillFetch, FillStore, FillFallback, FillRelease, callVars
  <1>3. CASE FillRelease(f)
    BY <1>3, CallsMove DEF FillRelease, callVars
  <1>4. CASE FillFetch(f)
    <2>1. \A g \in Fill \ {f} : step'[g] = step[g] /\ result'[g] = result[g]
      BY <1>1, <1>4 DEF FillFetch, FillTo, Settle
    <2>2. result'[f] # "outage"
      BY <1>1, <1>4 DEF FillFetch, FillTo, Settle
    <2>3. \A p \in Process : memory'[p] = memory[p] \/ (p = owner[f] /\ memory'[p] = "fresh")
      BY <1>1, <1>4 DEF FillFetch
    <2> QED BY <1>1, <1>2, <2>1, <2>2, <2>3, FillMoves
  <1>5. CASE FillFallback(f)
    <2>1. /\ \A g \in Fill \ {f} : step'[g] = step[g] /\ result'[g] = result[g]
          /\ step'[f] = "settled" /\ memory' = memory
          /\ result'[f] = "outage" => memory[owner[f]] = "none"
      BY <1>1, <1>5 DEF FillFallback, FillTo, Settle, Stale
    <2> QED BY <1>1, <1>2, <2>1, FillMoves
  <1>6. CASE FillAcquire(f) \/ FillRecheck(f) \/ FillPoll(f) \/ FillPollTimeout(f) \/ FillLateStale(f) \/ FillStore(f)
    <2>1. /\ \A g \in Fill \ {f} : step'[g] = step[g] /\ result'[g] = result[g]
          /\ memory' = memory
          /\ result'[f] # "outage"
      BY <1>1, <1>6 DEF FillAcquire, FillRecheck, FillPoll, FillPollTimeout, FillLateStale, FillStore, FillTo, Settle
    <2> QED BY <1>1, <1>2, <2>1, FillMoves
  <1> QED BY <1>3, <1>4, <1>5, <1>6

\* The invariant is inductive
LEMMA NextOutage == ASSUME OutageInv, [Next]_vars PROVE OutageInv'
  <1>1. CacheInv'
    BY NextInv DEF OutageInv
  <1>2. ASSUME NEW c \in Caller, Call(c) \/ Proceed(c) PROVE OutageParts'
    BY <1>2, CallOutage
  <1>3. ASSUME NEW f \in Fill, RunFill(f) \/ FillPoll(f) \/ FillRelease(f) PROVE OutageParts'
    BY <1>3, FillOutage DEF RunFill
  <1>4. ASSUME NEW f \in Fill, FillFinish(f) PROVE OutageParts'
    BY <1>4, FillsEnd DEF FillFinish
  <1>5. ASSUME NEW p \in Process, Restart(p) PROVE OutageParts'
    <2>1. /\ FreeSlots({f \in Fill : owner[f] = p}) /\ End({c \in Caller : Home[c] = p})
          /\ \A q \in Process : memory'[q] = memory[q] \/ (memory'[q] = "none" /\ q = p)
      BY <1>5 DEF Restart, OutageInv, CacheInv, TypeOK
    <2> QED BY <2>1, FillsEnd DEF OutageInv, OutageParts, JoinedHere
  <1>6. ASSUME NEW p \in Process, MemoryAges(p) PROVE OutageParts'
    <2>1. /\ UNCHANGED <<step, owner, result, joined>>
          /\ \A q \in Process : memory'[q] = memory[q] \/ (q = p /\ memory[q] # "none")
          /\ \A c \in Caller : covered'[c] => covered[c] /\ (Home[c] = p => memory'[p] # "none")
      BY <1>6 DEF MemoryAges, fillVars, OutageInv, CacheInv, TypeOK
    <2>2. Covering' /\ JoinedHere'
      BY <2>1, HomeAssumption DEF OutageInv, OutageParts, Covering, JoinedHere
    <2>3. \A f \in Fill : step[f] # "unused" => owner[f] \in Process
      BY OwnerInUse, InvSplit DEF OutageInv
    <2>4. OutageBare'
      BY <2>1, <2>3 DEF OutageInv, OutageParts, OutageBare
    <2> QED BY <2>2, <2>4 DEF OutageParts
  <1>7. ASSUME UNCHANGED <<memory, step, owner, result, joined, covered>> PROVE OutageParts'
    BY <1>7, CallsMove
  <1>8. ASSUME NEW p \in Process, LinkLost(p) \/ LinkReady(p) \/ Crash(p) PROVE OutageParts'
    BY <1>5, <1>7, <1>8 DEF LinkLost, LinkReady, Crash, fillVars, callVars
  <1>9. ASSUME NEW f \in Fill, FillRejectsUnhandled(f) PROVE OutageParts'
    <2>1. owner[f] \in Process
      BY <1>9, OwnerInUse, InvSplit DEF FillRejectsUnhandled, OutageInv
    <2> QED BY <1>5, <1>9, <2>1 DEF FillRejectsUnhandled
  <1>10. ASSUME EntryAges \/ LockExpires \/ UNCHANGED vars PROVE OutageParts'
    BY <1>7, <1>10 DEF EntryAges, LockExpires, vars, fillVars, callVars
  <1>11. OutageParts'
    BY <1>2, <1>3, <1>4, <1>6, <1>8, <1>9, <1>10 DEF Next
  <1> QED BY <1>1, <1>11 DEF OutageInv

\* And holds at the start
LEMMA InitOutage == ASSUME Init PROVE OutageInv
  <1>1. OutageParts
    BY NoneAssumption DEF Init, OutageParts, Covering, JoinedHere, OutageBare
  <1> QED BY <1>1, InitInv DEF OutageInv

\* When the upstream fails, no call whose process has had a copy in memory all along is
\* answered with the error: neither the one whose fill failed nor one that joins it later.
THEOREM OutagesAreHidden == Spec => []OutageHidden
  <1>1. OutageInv => OutageHidden
    BY HomeAssumption DEF OutageInv, OutageParts, Covering, JoinedHere, OutageBare, OutageHidden
  <1> QED BY <1>1, InitOutage, NextOutage, PTL DEF Spec
===============================================================================
