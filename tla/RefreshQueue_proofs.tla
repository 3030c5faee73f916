-------------------------- MODULE RefreshQueue_proofs --------------------------
(* Theorems about RefreshQueue, for every value of its constants: any number of *)
(* tasks and workers, any size of a batch.                                      *)
EXTENDS RefreshQueue, FiniteSetTheorems, SequenceTheorems, TLAPS

\* The part of TypeOK that is about leases and batches
LeaseType ==
  /\ lease \in [Task -> Worker \cup {NoWorker}]
  /\ batch \in [Worker -> SUBSET Task]
  /\ job \in [Worker -> Task \cup {NoTask}]
  /\ step \in [Worker -> WorkerStep]

\* A worker refreshes a task of its batch: what it settles, it holds
JobClaimed == \A w \in Worker : step[w] \in {"fetch", "fail"} => job[w] \in batch[w]

\* The inductive invariant. Settle clears the lease of a task whoever has it: by
\* JobClaimed and LeaseHonoured that is the worker's own lease, or the task is overrun.
LeaseInv == LeaseType /\ JobClaimed /\ LeaseHonoured

-----------------------------------------------------------------------------

LEMMA InitLease == Init => LeaseInv
  BY DEF Init, LeaseInv, LeaseType, JobClaimed, LeaseHonoured, WorkerStep

LEMMA LeaseUnchanged ==
  ASSUME LeaseInv, UNCHANGED <<lease, batch, job, step, overrun>>
  PROVE  LeaseInv'
  BY DEF LeaseInv, LeaseType, JobClaimed, LeaseHonoured

\* A worker moves to a step at which it has no job
LEMMA StepMoves ==
  ASSUME LeaseInv, NEW w \in Worker, NEW s \in {"loop", "plan", "work"},
         step' = [step EXCEPT ![w] = s], UNCHANGED <<lease, batch, job, overrun>>
  PROVE  LeaseInv'
  BY DEF LeaseInv, LeaseType, JobClaimed, LeaseHonoured, WorkerStep

\* The rows a worker claims are leased to no one, so whoever holds one has overrun it
LEMMA ClaimLease == ASSUME LeaseInv, NEW w \in Worker, Claim(w) PROVE LeaseInv'
  <1>1. Candidates \subseteq Task /\ \A t \in Candidates : lease[t] = NoWorker
    BY DEF Candidates, Ready, Due
  <1>2. LeaseType'
    BY <1>1 DEF LeaseInv, LeaseType, Claim, WorkerStep
  <1>3. JobClaimed'
    BY <1>1 DEF LeaseInv, LeaseType, JobClaimed, Claim
  <1>4. LeaseHonoured'
    <2> SUFFICES ASSUME NEW v \in Worker, NEW t \in batch'[v], t \notin overrun'
                 PROVE  lease'[t] = v
      BY DEF LeaseHonoured
    <2>1. batch'[v] = IF v = w THEN Candidates ELSE batch[v]
      BY DEF Claim, LeaseInv, LeaseType
    <2>2. t \in Task
      BY <1>1, <2>1 DEF LeaseInv, LeaseType
    <2>3. CASE v = w
      BY <2>1, <2>2, <2>3 DEF Claim
    <2>4. CASE v # w
      <3>1. lease[t] = v
        BY <2>1, <2>4 DEF LeaseInv, LeaseHonoured, Claim
      <3>2. t \notin Candidates
        BY <1>1, <3>1, NoneAssumption
      <3> QED BY <2>2, <3>1, <3>2 DEF Claim
    <2> QED BY <2>3, <2>4
  <1> QED BY <1>2, <1>3, <1>4 DEF LeaseInv

LEMMA BeginLease == ASSUME LeaseInv, NEW w \in Worker, Begin(w) PROVE LeaseInv'
  <1>1. PICK t \in batch[w] : job' = [job EXCEPT ![w] = t]
    BY DEF Begin
  <1>2. t \in Task
    BY DEF LeaseInv, LeaseType
  <1>3. LeaseType'
    BY <1>1, <1>2 DEF LeaseInv, LeaseType, Begin, rowVars, WorkerStep
  <1>4. JobClaimed'
    BY <1>1 DEF LeaseInv, LeaseType, JobClaimed, Begin
  <1>5. LeaseHonoured'
    BY DEF LeaseInv, LeaseHonoured, Begin, rowVars
  <1> QED BY <1>3, <1>4, <1>5 DEF LeaseInv

\* Letting go of tasks keeps what is typed and what is claimed
LEMMA DropLease ==
  ASSUME LeaseInv, NEW w \in Worker, NEW T \in SUBSET Task, Drop(w, T),
         lease' \in [Task -> Worker \cup {NoWorker}]
  PROVE  LeaseType' /\ JobClaimed'
  <1>1. LeaseType'
    BY DEF LeaseInv, LeaseType, Drop, WorkerStep
  <1>2. JobClaimed'
    BY DEF LeaseInv, LeaseType, JobClaimed, Drop
  <1> QED BY <1>1, <1>2

\* A task that a worker still holds after a Drop was held before, and it was overrun
\* exactly when it is now
LEMMA DropHolds ==
  ASSUME LeaseInv, NEW w \in Worker, NEW T \in SUBSET Task, Drop(w, T),
         NEW v \in Worker, NEW t \in batch'[v], t \notin overrun'
  PROVE  t \in batch[v] /\ lease[t] = v /\ (v = w => t \notin T)
  <1>1. batch'[v] = IF v = w THEN batch[w] \ T ELSE batch[v]
    BY DEF Drop, LeaseInv, LeaseType
  <1>2. t \notin overrun
    BY DEF Drop
  <1> QED BY <1>1, <1>2 DEF LeaseInv, LeaseHonoured

LEMMA SettleLease ==
  ASSUME LeaseInv, NEW w \in Worker, step[w] \in {"fetch", "fail"}, Settle(w)
  PROVE  LeaseInv'
  <1>1. job[w] \in batch[w] /\ job[w] \in Task
    BY DEF LeaseInv, LeaseType, JobClaimed
  <1>2. Drop(w, {job[w]}) /\ lease' = [lease EXCEPT ![job[w]] = NoWorker]
    BY DEF Settle
  <1>3. LeaseType' /\ JobClaimed'
    <2>1. lease' \in [Task -> Worker \cup {NoWorker}]
      BY <1>2 DEF LeaseInv, LeaseType
    <2> QED BY <1>1, <1>2, <2>1, DropLease
  <1>4. LeaseHonoured'
    <2> SUFFICES ASSUME NEW v \in Worker, NEW t \in batch'[v], t \notin overrun'
                 PROVE  lease'[t] = v
      BY DEF LeaseHonoured
    <2>1. t \in batch[v] /\ lease[t] = v /\ (v = w => t # job[w])
      BY <1>1, <1>2, DropHolds
    <2>2. t # job[w]
      <3> SUFFICES ASSUME t = job[w] PROVE FALSE
        OBVIOUS
      <3>1. t \in overrun => t \in overrun'
        BY <1>2 DEF Drop
      <3>2. lease[t] = w
        BY <1>1, <3>1 DEF LeaseInv, LeaseHonoured
      <3> QED BY <2>1, <3>2
    <2>3. t \in Task
      BY <2>1 DEF LeaseInv, LeaseType
    <2> QED BY <1>2, <2>1, <2>2, <2>3 DEF LeaseInv, LeaseType
  <1> QED BY <1>3, <1>4 DEF LeaseInv

\* A worker is gone, or gives its batch up: the leases stay
LEMMA AbandonLease ==
  ASSUME LeaseInv, NEW w \in Worker, Drop(w, batch[w]), UNCHANGED lease
  PROVE  LeaseInv'
  <1>1. batch[w] \in SUBSET Task
    BY DEF LeaseInv, LeaseType
  <1>2. LeaseType' /\ JobClaimed'
    BY <1>1, DropLease DEF LeaseInv, LeaseType
  <1>3. LeaseHonoured'
    BY <1>1, DropHolds DEF LeaseHonoured
  <1> QED BY <1>2, <1>3 DEF LeaseInv

LEMMA LapseLease == ASSUME LeaseInv, NEW t \in Task, LeaseLapses(t) PROVE LeaseInv'
  <1>1. LeaseType' /\ JobClaimed'
    BY DEF LeaseInv, LeaseType, JobClaimed, LeaseLapses, workerVars
  <1>2. LeaseHonoured'
    BY DEF LeaseInv, LeaseType, LeaseHonoured, LeaseLapses, workerVars
  <1> QED BY <1>1, <1>2 DEF LeaseInv

-----------------------------------------------------------------------------

LEMMA LoopLease == ASSUME LeaseInv, NEW w \in Worker, Loop(w) PROVE LeaseInv'
  <1>1. CASE ReadCalendar(w)
    BY <1>1, StepMoves DEF ReadCalendar, rowVars
  <1>2. CASE Schedule(w)
    BY <1>2, LeaseUnchanged DEF Schedule, Put
  <1>3. CASE Claim(w)
    BY <1>3, ClaimLease
  <1>4. CASE Begin(w)
    BY <1>4, BeginLease
  <1>5. CASE Complete(w)
    BY <1>5, SettleLease DEF Complete
  <1>6. CASE RefreshFails(w)
    BY <1>6 DEF RefreshFails, LeaseInv, LeaseType, JobClaimed, LeaseHonoured, WorkerStep, rowVars
  <1>7. CASE Fail(w)
    BY <1>7, SettleLease DEF Fail
  <1> QED BY <1>1, <1>2, <1>3, <1>4, <1>5, <1>6, <1>7 DEF Loop

LEMMA NextLease == LeaseInv /\ [Next]_vars => LeaseInv'
  <1> SUFFICES ASSUME LeaseInv, [Next]_vars PROVE LeaseInv'
    OBVIOUS
  <1>1. CASE UNCHANGED vars
    BY <1>1, LeaseUnchanged DEF vars, rowVars, workerVars
  <1>2. ASSUME NEW t \in Task, Ask(t) \/ FallDue(t) PROVE LeaseInv'
    BY <1>2, LeaseUnchanged DEF Ask, FallDue, Put, workerVars
  <1>3. ASSUME NEW t \in Task, LeaseLapses(t) PROVE LeaseInv'
    BY <1>3, LapseLease
  <1>4. ASSUME NEW m \in Match, MatchGoesOn(m) PROVE LeaseInv'
    BY <1>4, LeaseUnchanged DEF MatchGoesOn, rowVars, workerVars
  <1>5. ASSUME NEW w \in Worker, Loop(w) PROVE LeaseInv'
    BY <1>5, LoopLease
  <1>6. ASSUME NEW w \in Worker, ScheduleFails(w) PROVE LeaseInv'
    BY <1>6, LeaseUnchanged DEF ScheduleFails, rowVars
  <1>7. ASSUME NEW w \in Worker, FailFails(w) \/ Crash(w) PROVE LeaseInv'
    BY <1>7, AbandonLease DEF FailFails, Crash, rowVars
  <1> QED BY <1>1, <1>2, <1>3, <1>4, <1>5, <1>6, <1>7 DEF Next

\* What a worker has claimed is leased to it alone until the lease lapses in its hands
\* (leaseRefreshTasks against markRefreshTaskSuccess, markRefreshTaskFailure, crashes).
THEOREM LeaseIsHonoured == Spec => []LeaseHonoured
  <1>1. LeaseInv => LeaseHonoured
    BY DEF LeaseInv
  <1> QED BY <1>1, InitLease, NextLease, PTL DEF Spec

-----------------------------------------------------------------------------
(* The types, and the line *)

LineType == line \in Seq(Task) /\ \A i, j \in DOMAIN line : line[i] = line[j] => i = j

\* A row that is not due yet gets in line last
LEMMA GetsInLine ==
  ASSUME LineType, NEW t \in Task, t \notin Due, line' = Append(line, t)
  PROVE  LineType'
  <1>1. line \in Seq(Task) /\ Len(line) \in Nat /\ DOMAIN line = 1 .. Len(line)
    BY DEF LineType
  <1>2. /\ line' \in Seq(Task) /\ Len(line') = Len(line) + 1
        /\ DOMAIN line' = 1 .. (Len(line) + 1)
        /\ \A i \in 1 .. Len(line) : line'[i] = line[i]
        /\ line'[Len(line) + 1] = t
    BY <1>1
  <1>3. \A i \in 1 .. Len(line) : line[i] # t
    BY <1>1 DEF Due, Contains
  <1>4. \A i \in 1 .. (Len(line) + 1) : i \in 1 .. Len(line) \/ i = Len(line) + 1
    BY <1>1
  <1>5. \A i, j \in DOMAIN line' : line'[i] = line'[j] => i = j
    BY <1>1, <1>2, <1>3, <1>4 DEF LineType
  <1> QED BY <1>2, <1>5 DEF LineType

\* The members that stay move up by one behind the one that is taken out
LEMMA TakenOut ==
  ASSUME NEW S, NEW s \in Seq(S), NEW k \in 1 .. Len(s)
  PROVE  /\ RemoveAt(s, k) \in Seq(S) /\ Len(RemoveAt(s, k)) = Len(s) - 1
         /\ \A i \in 1 .. (Len(s) - 1) : RemoveAt(s, k)[i] = s[IF i < k THEN i ELSE i + 1]
  <1> DEFINE a == SubSeq(s, 1, k - 1)
             b == SubSeq(s, k + 1, Len(s))
  <1>0. Len(s) \in Nat /\ k \in Int
    OBVIOUS
  <1>1. a \in Seq(S) /\ Len(a) = k - 1 /\ \A i \in 1 .. (k - 1) : a[i] = s[i]
    <2>1. \A i \in 1 .. (k - 1) : s[i] \in S /\ 1 + i - 1 = i
      BY <1>0
    <2> QED BY <1>0, <2>1, SubSeqProperties
  <1>2. b \in Seq(S) /\ Len(b) = Len(s) - k /\ \A i \in 1 .. (Len(s) - k) : b[i] = s[i + k]
    <2>1. \A i \in (k + 1) .. Len(s) : s[i] \in S
      BY <1>0
    <2>2. b \in Seq(S) /\ Len(b) = (IF k + 1 <= Len(s) THEN Len(s) - (k + 1) + 1 ELSE 0)
          /\ \A i \in 1 .. (Len(s) - (k + 1) + 1) : b[i] = s[(k + 1) + i - 1]
      BY <1>0, <2>1, SubSeqProperties
    <2> HIDE DEF b
    <2>3. Len(b) = Len(s) - k /\ Len(s) - (k + 1) + 1 = Len(s) - k
      BY <1>0, <2>2
    <2>4. \A i \in 1 .. (Len(s) - k) : (k + 1) + i - 1 = i + k
      BY <1>0
    <2> QED BY <2>2, <2>3, <2>4
  <1> HIDE DEF a, b
  <1> DEFINE c == a \o b
  <1>3. c \in Seq(S) /\ Len(c) = Len(a) + Len(b)
        /\ \A i \in 1 .. (Len(a) + Len(b)) : c[i] = IF i <= Len(a) THEN a[i] ELSE b[i - Len(a)]
    BY <1>1, <1>2, ConcatProperties
  <1> HIDE DEF c
  <1>4. Len(c) = Len(s) - 1
    BY <1>0, <1>1, <1>2, <1>3
  <1>5. ASSUME NEW i \in 1 .. (Len(s) - 1)
        PROVE  c[i] = s[IF i < k THEN i ELSE i + 1]
    <2>0. c[i] = IF i <= k - 1 THEN a[i] ELSE b[i - (k - 1)]
      BY <1>0, <1>1, <1>2, <1>3
    <2>1. CASE i < k
      BY <1>0, <1>1, <2>0, <2>1
    <2>2. CASE ~(i < k)
      <3>1. i - (k - 1) \in 1 .. (Len(s) - k) /\ (i - (k - 1)) + k = i + 1 /\ ~(i <= k - 1)
        BY <1>0, <2>2
      <3> QED BY <1>2, <2>0, <2>2, <3>1
    <2> QED BY <2>1, <2>2
  <1>6. RemoveAt(s, k) = c
    BY DEF RemoveAt, a, b, c
  <1> QED BY <1>3, <1>4, <1>5, <1>6

\* A row that is put off leaves it, and the others keep their order
LEMMA LeavesLine ==
  ASSUME LineType, NEW t, line' = OutOfLine(t)
  PROVE  LineType' /\ \A i \in DOMAIN line' : line'[i] # t
  <1>1. line \in Seq(Task) /\ Len(line) \in Nat /\ DOMAIN line = 1 .. Len(line)
    BY DEF LineType
  <1>2. CASE t \notin Due
    <2>1. \A i \in 1 .. Len(line) : line[i] # t
      BY <1>1, <1>2 DEF Due, Contains
    <2>2. line' = line
      BY <1>2 DEF OutOfLine
    <2> QED BY <1>1, <2>1, <2>2 DEF LineType
  <1>3. CASE t \in Due
    <2> DEFINE k == CHOOSE i \in DOMAIN line : line[i] = t
               m == Len(line)
    <2>1. k \in 1 .. m /\ line[k] = t
      BY <1>1, <1>3 DEF Due, Contains
    <2>2. line' = RemoveAt(line, k)
      BY <1>3 DEF OutOfLine
    <2> HIDE DEF k
    <2> DEFINE from(i) == IF i < k THEN i ELSE i + 1
    <2>6. /\ line' \in Seq(Task) /\ Len(line') = m - 1 /\ DOMAIN line' = 1 .. (m - 1)
          /\ \A i \in 1 .. (m - 1) : line'[i] = line[from(i)]
      <3>1. /\ line' \in Seq(Task) /\ Len(line') = m - 1
            /\ \A i \in 1 .. (m - 1) : line'[i] = line[IF i < k THEN i ELSE i + 1]
        BY <1>1, <2>1, <2>2, TakenOut
      <3>2. DOMAIN line' = 1 .. (m - 1)
        BY <1>1, <3>1
      <3> QED BY <3>1, <3>2
    <2>7. \A i \in 1 .. (m - 1) : from(i) \in 1 .. m /\ from(i) # k
      BY <1>1, <2>1
    <2>8. \A i, j \in 1 .. (m - 1) : from(i) = from(j) => i = j
      BY <1>1, <2>1
    <2> HIDE DEF from, m
    <2>9. \A i, j \in 1 .. m : line[i] = line[j] => i = j
      BY <1>1 DEF LineType, m
    <2>10. \A i, j \in DOMAIN line' : line'[i] = line'[j] => i = j
      BY <2>6, <2>7, <2>8, <2>9
    <2>11. \A i \in DOMAIN line' : line'[i] # t
      BY <2>1, <2>6, <2>7, <2>9
    <2> QED BY <2>6, <2>10, <2>11 DEF LineType
  <1> QED BY <1>2, <1>3

\* Where a row is in line is one place
LEMMA LineOrders ==
  ASSUME LineType
  PROVE  /\ Due \subseteq Task
         /\ \A t, u, v \in Due : Earlier(t, u) /\ Earlier(u, v) => Earlier(t, v)
         /\ \A t \in Due : ~Earlier(t, t)
         /\ \A t, u \in Due : t # u => Earlier(t, u) \/ Earlier(u, t)
  <1>1. line \in Seq(Task) /\ Len(line) \in Nat /\ DOMAIN line = 1 .. Len(line)
    BY DEF LineType
  <1>2. \A t \in Due : t \in Task /\ \E i \in DOMAIN line : line[i] = t
    BY <1>1 DEF Due, Contains
  <1>3. \A i, j \in DOMAIN line : line[i] = line[j] => i = j
    BY DEF LineType
  <1>4. \A i \in DOMAIN line : i \in Nat
    BY <1>1
  <1>5. \A t, u, v \in Due : Earlier(t, u) /\ Earlier(u, v) => Earlier(t, v)
    <2> SUFFICES ASSUME NEW t, NEW u, NEW v, Earlier(t, u), Earlier(u, v)  PROVE Earlier(t, v)
      OBVIOUS
    <2>1. PICK i, j \in DOMAIN line : i < j /\ line[i] = t /\ line[j] = u
      BY DEF Earlier
    <2>2. PICK k, l \in DOMAIN line : k < l /\ line[k] = u /\ line[l] = v
      BY DEF Earlier
    <2>3. j = k
      BY <1>3, <2>1, <2>2
    <2>4. i < l
      BY <1>4, <2>1, <2>2, <2>3
    <2> QED BY <2>1, <2>2, <2>4 DEF Earlier
  <1>6. \A t \in Due : ~Earlier(t, t)
    BY <1>3, <1>4 DEF Earlier
  <1>7. \A t, u \in Due : t # u => Earlier(t, u) \/ Earlier(u, t)
    <2> SUFFICES ASSUME NEW t \in Due, NEW u \in Due, t # u  PROVE Earlier(t, u) \/ Earlier(u, t)
      OBVIOUS
    <2>1. PICK i, j \in DOMAIN line : line[i] = t /\ line[j] = u
      BY <1>2
    <2>2. i < j \/ j < i
      BY <1>4, <2>1
    <2> QED BY <2>1, <2>2 DEF Earlier
  <1> QED BY <1>2, <1>5, <1>6, <1>7

\* The line is finite, and so are the rows in it
LEMMA DueIsFinite == ASSUME LineType PROVE IsFiniteSet(Due)
  <1>1. line \in Seq(Task) /\ Len(line) \in Nat /\ DOMAIN line = 1 .. Len(line)
    BY DEF LineType
  <1> DEFINE f == [i \in 1 .. Len(line) |-> line[i]]
  <1>2. IsFiniteSet(1 .. Len(line))
    BY <1>1, FS_Interval
  <1>3. Due \subseteq {line[i] : i \in 1 .. Len(line)}
    BY <1>1 DEF Due, Contains
  <1>4. IsFiniteSet({line[i] : i \in 1 .. Len(line)})
    <2>1. f \in Surjection(1 .. Len(line), {line[i] : i \in 1 .. Len(line)})
      BY DEF Surjection
    <2> QED BY <1>2, <2>1, FS_Surjection
  <1> QED BY <1>3, <1>4, FS_Subset

\* A worker claims no more rows than it may: each of them has a rank of its own
LEMMA CandidatesCapped ==
  ASSUME LineType, priority \in [Task -> Nat]
  PROVE  IsFiniteSet(Candidates) /\ Cardinality(Candidates) <= ClaimLimit
  <1> DEFINE ahead(t) == {u \in Ready : Precedes(u, t)}
             rank == [t \in Candidates |-> Cardinality(ahead(t))]
  <1>1. Ready \subseteq Due /\ Candidates \subseteq Ready /\ Due \subseteq Task
    BY DEF Ready, Candidates, Due
  <1>2. IsFiniteSet(Ready)
    BY <1>1, DueIsFinite, FS_Subset
  <1>3. \A t \in Ready : /\ IsFiniteSet(ahead(t)) /\ Cardinality(ahead(t)) \in Nat
    <2> SUFFICES ASSUME NEW t \in Ready  PROVE IsFiniteSet(ahead(t)) /\ Cardinality(ahead(t)) \in Nat
      OBVIOUS
    <2>1. ahead(t) \subseteq Ready
      OBVIOUS
    <2>2. IsFiniteSet(ahead(t))
      BY <1>2, <2>1, FS_Subset
    <2> QED BY <2>2, FS_CardinalityType
  <1>4. \A t \in Ready : priority[t] \in Nat
    BY <1>1
  <1>5. \A t, u, v \in Ready : Precedes(t, u) /\ Precedes(u, v) => Precedes(t, v)
    BY <1>1, <1>4, LineOrders DEF Precedes
  <1>6. \A t, u \in Ready : t # u => Precedes(t, u) \/ Precedes(u, t)
    BY <1>1, <1>4, LineOrders DEF Precedes
  <1>7. \A t \in Ready : ~Precedes(t, t)
    BY <1>1, <1>4, LineOrders DEF Precedes
  <1>8. ASSUME NEW t \in Ready, NEW u \in Ready, Precedes(t, u)
        PROVE  Cardinality(ahead(t)) # Cardinality(ahead(u))
    <2>1. ahead(t) \subseteq ahead(u) /\ t \in ahead(u) /\ t \notin ahead(t)
      BY <1>5, <1>7, <1>8
    <2>2. ahead(t) # ahead(u)
      BY <2>1
    <2> QED BY <1>3, <2>1, <2>2, FS_Subset
  <1>9. \A t \in Candidates : Cardinality(ahead(t)) \in 0 .. (ClaimLimit - 1)
    <2> SUFFICES ASSUME NEW t \in Candidates
                 PROVE  Cardinality(ahead(t)) \in 0 .. (ClaimLimit - 1)
      OBVIOUS
    <2>1. Cardinality(ahead(t)) \in Nat
      BY <1>1, <1>3
    <2>2. Cardinality(ahead(t)) < ClaimLimit
      BY DEF Candidates
    <2> QED BY <2>1, <2>2, BoundAssumption
  <1>10. rank \in Injection(Candidates, 0 .. (ClaimLimit - 1))
    <2>1. rank \in [Candidates -> 0 .. (ClaimLimit - 1)]
      BY <1>9
    <2>2. \A t, u \in Candidates : rank[t] = rank[u] => t = u
      BY <1>1, <1>6, <1>8
    <2> QED BY <2>1, <2>2 DEF Injection, IsInjective
  <1>11. IsFiniteSet(0 .. (ClaimLimit - 1)) /\ Cardinality(0 .. (ClaimLimit - 1)) = ClaimLimit
    BY BoundAssumption, FS_Interval
  <1>12. IsFiniteSet(Candidates) /\ Cardinality(Candidates) <= Cardinality(0 .. (ClaimLimit - 1))
    BY <1>10, <1>11, FS_Injection
  <1> QED BY <1>11, <1>12

-----------------------------------------------------------------------------
(* The types *)

\* A calendar cycle enqueues tasks there are, with the priorities of its switch
LEMMA EntriesType ==
  ASSUME phase \in [Match -> Phase], NEW m \in Match, NEW soon \in BOOLEAN
  PROVE  Entries(m, soon) \in SUBSET Enqueue
  <1>1. m \in Task /\ Teams[m] \subseteq Task /\ {100, 150, 200, 250} \subseteq Priorities
    BY TaskAssumption DEF Priorities
  <1>2. \A t \in Task, p \in {100, 150, 200, 250}, now \in BOOLEAN :
          [task |-> t, priority |-> p, now |-> now, match |-> m] \in Enqueue
    BY <1>1 DEF Enqueue
  <1> DEFINE of(p) == {[task |-> t, priority |-> p, now |-> TRUE, match |-> m] : t \in Teams[m]}
  <1>3. of(100) \subseteq Enqueue /\ of(150) \subseteq Enqueue
    <2> SUFFICES ASSUME NEW p \in {100, 150}, NEW e \in of(p)  PROVE e \in Enqueue
      OBVIOUS
    <2>1. PICK t \in Teams[m] : e = [task |-> t, priority |-> p, now |-> TRUE, match |-> m]
      OBVIOUS
    <2>2. t \in Task /\ p \in {100, 150, 200, 250} /\ TRUE \in BOOLEAN
      BY <1>1
    <2> QED BY <1>2, <2>1, <2>2
  <1>4. phase[m] \in Phase
    OBVIOUS
  <1>5. CASE phase[m] = "pre_match"
    <2>1. Entries(m, soon) = {[task |-> m, priority |-> 150, now |-> soon, match |-> m]}
      BY <1>5 DEF Entries
    <2>2. [task |-> m, priority |-> 150, now |-> soon, match |-> m] \in Enqueue
      BY <1>1 DEF Enqueue
    <2> HIDE DEF of
    <2> QED BY <2>1, <2>2
  <1>6. CASE phase[m] = "imminent"
    <2>1. Entries(m, soon)
            = {[task |-> m, priority |-> 200, now |-> soon, match |-> m]} \cup of(150)
      BY <1>6 DEF Entries
    <2>2. [task |-> m, priority |-> 200, now |-> soon, match |-> m] \in Enqueue
      BY <1>1 DEF Enqueue
    <2> HIDE DEF of
    <2> QED BY <1>3, <2>1, <2>2
  <1>7. CASE phase[m] = "live"
    <2>1. Entries(m, soon) = {[task |-> m, priority |-> 250, now |-> TRUE, match |-> m]}
      BY <1>7 DEF Entries
    <2>2. [task |-> m, priority |-> 250, now |-> TRUE, match |-> m] \in Enqueue
      BY <1>1 DEF Enqueue
    <2> HIDE DEF of
    <2> QED BY <2>1, <2>2
  <1>8. CASE phase[m] = "post_match"
    <2>1. Entries(m, soon)
            = {[task |-> m, priority |-> 100, now |-> TRUE, match |-> m]} \cup of(100)
      BY <1>8 DEF Entries
    <2>2. [task |-> m, priority |-> 100, now |-> TRUE, match |-> m] \in Enqueue
      BY <1>1 DEF Enqueue
    <2> HIDE DEF of
    <2> QED BY <1>3, <2>1, <2>2
  <1>9. CASE phase[m] = "settled"
    BY <1>9 DEF Entries
  <1> QED BY <1>4, <1>5, <1>6, <1>7, <1>8, <1>9 DEF Phase

\* An enqueue keeps the row once in line
LEMMA PutType ==
  ASSUME LineType, priority \in [Task -> Priorities], asked \subseteq Task,
         NEW t \in Task, NEW p \in Priorities, NEW now \in BOOLEAN, Put(t, p, now)
  PROVE  LineType' /\ priority' \in [Task -> Priorities] /\ asked' \subseteq Task
  <1>1. LineType'
    <2>1. CASE now /\ t \notin Due
      BY <2>1, GetsInLine DEF Put
    <2>2. CASE ~(now /\ t \notin Due)
      BY <2>2 DEF Put, LineType
    <2> QED BY <2>1, <2>2
  <1>2. Higher(priority[t], p) \in Priorities
    BY DEF Higher
  <1> QED BY <1>1, <1>2 DEF Put

\* What the steps of a refresh have in common
LEMMA DropType ==
  ASSUME LeaseType, overrun \subseteq Task, NEW w \in Worker, NEW T, Drop(w, T)
  PROVE  /\ batch' \in [Worker -> SUBSET Task] /\ job' \in [Worker -> Task \cup {NoTask}]
         /\ step' \in [Worker -> WorkerStep] /\ overrun' \subseteq Task
  BY DEF Drop, LeaseType, WorkerStep

\* The types of what is not about leases and batches
RestType ==
  /\ phase \in [Match -> Phase]
  /\ LineType
  /\ priority \in [Task -> Priorities]
  /\ plan \in [Worker -> SUBSET Enqueue]
  /\ faults \in 0 .. MaxFaults
  /\ asked \subseteq Task
  /\ overrun \subseteq Task

\* Leases and batches were typed above
LEMMA TypeParts == TypeOK <=> LeaseType /\ RestType
  BY DEF TypeOK, LeaseType, RestType, LineType

\* Faults are bounded
LEMMA FaultType == ASSUME faults \in 0 .. MaxFaults, Fault PROVE faults' \in 0 .. MaxFaults
  BY BoundAssumption DEF Fault

\* What a calendar cycle has to enqueue
LEMMA PlanType ==
  ASSUME phase \in [Match -> Phase], plan \in [Worker -> SUBSET Enqueue], NEW w \in Worker,
         ReadCalendar(w)
  PROVE  plan' \in [Worker -> SUBSET Enqueue]
  <1>1. PICK today \in SUBSET Match, soon \in [Match -> BOOLEAN] :
          plan' = [plan EXCEPT ![w] = UNION {Entries(m, soon[m]) : m \in today}]
    BY DEF ReadCalendar
  <1>2. \A m \in today : Entries(m, soon[m]) \in SUBSET Enqueue
    BY EntriesType
  <1> DEFINE read == UNION {Entries(m, soon[m]) : m \in today}
  <1>3. read \in SUBSET Enqueue
    BY <1>2
  <1> HIDE DEF read
  <1>4. plan' = [plan EXCEPT ![w] = read]
    BY <1>1 DEF read
  <1> QED BY <1>3, <1>4

\* The steps of a worker
LEMMA LoopType ==
  ASSUME LeaseInv, RestType, NEW w \in Worker,
         Loop(w) \/ ScheduleFails(w) \/ FailFails(w) \/ Crash(w)
  PROVE  RestType'
  <1>0. LeaseType
    BY DEF LeaseInv
  <1>1. CASE ReadCalendar(w)
    BY <1>1, PlanType DEF RestType, LineType, ReadCalendar, rowVars
  <1>2. CASE Schedule(w)
    <2>1. PICK e \in plan[w] : /\ Put(e.task, e.priority, e.now)
                               /\ plan' = [plan EXCEPT ![w] = @ \ {e}]
                               /\ UNCHANGED <<phase, faults, overrun>>
      BY <1>2 DEF Schedule
    <2>2. e.task \in Task /\ e.priority \in Priorities /\ e.now \in BOOLEAN
      BY <2>1 DEF RestType, Enqueue
    <2>3. LineType' /\ priority' \in [Task -> Priorities] /\ asked' \subseteq Task
      BY <2>1, <2>2, PutType DEF RestType
    <2> QED BY <2>1, <2>3 DEF RestType
  <1>3. CASE Claim(w)
    BY <1>3 DEF Claim, RestType, LineType
  <1>4. CASE Begin(w)
    BY <1>4 DEF Begin, RestType, LineType, rowVars
  <1>5. CASE Settle(w)
    <2>1. LineType'
      BY <1>5, LeavesLine DEF Settle, RestType
    <2> QED BY <1>0, <1>5, <2>1, DropType DEF Settle, RestType
  <1>6. CASE RefreshFails(w)
    BY <1>6 DEF RefreshFails, RestType, LineType, rowVars
  <1>7. CASE ScheduleFails(w)
    BY <1>7, FaultType DEF ScheduleFails, RestType, LineType, rowVars
  <1>8. CASE FailFails(w)
    BY <1>0, <1>8, FaultType, DropType DEF FailFails, RestType, LineType, rowVars
  <1>9. CASE Crash(w)
    BY <1>0, <1>9, FaultType, DropType DEF Crash, RestType, LineType, rowVars
  <1> QED BY <1>1, <1>2, <1>3, <1>4, <1>5, <1>6, <1>7, <1>8, <1>9 DEF Loop, Complete, Fail

\* The types are inductive, with the invariant on the leases
LEMMA NextType == LeaseInv /\ RestType /\ [Next]_vars => RestType'
  <1> SUFFICES ASSUME LeaseInv, RestType, [Next]_vars  PROVE RestType'
    OBVIOUS
  <1>1. CASE UNCHANGED vars
    BY <1>1 DEF vars, rowVars, workerVars, RestType, LineType
  <1>2. ASSUME NEW t \in Task, Ask(t)  PROVE RestType'
    <2>1. Put(t, AskPriority[t], TRUE) /\ UNCHANGED <<phase, plan, faults, overrun>>
      BY <1>2 DEF Ask, workerVars
    <2>2. AskPriority[t] \in Priorities
      BY DEF Priorities
    <2>3. LineType' /\ priority' \in [Task -> Priorities] /\ asked' \subseteq Task
      BY <2>1, <2>2, PutType DEF RestType
    <2> QED BY <2>1, <2>3 DEF RestType
  <1>3. ASSUME NEW t \in Task, FallDue(t)  PROVE RestType'
    <2>1. LineType'
      BY <1>3, GetsInLine DEF FallDue, RestType
    <2> QED BY <1>3, <2>1 DEF FallDue, RestType, workerVars
  <1>4. ASSUME NEW t \in Task, LeaseLapses(t)  PROVE RestType'
    BY <1>4 DEF LeaseLapses, RestType, LineType, workerVars
  <1>5. ASSUME NEW m \in Match, MatchGoesOn(m)  PROVE RestType'
    <2>1. phase' \in [Match -> Phase]
      BY <1>5 DEF MatchGoesOn, Follows, Phase, RestType
    <2> QED BY <1>5, <2>1 DEF MatchGoesOn, RestType, LineType, rowVars, workerVars
  <1>6. ASSUME NEW w \in Worker, Loop(w) \/ ScheduleFails(w) \/ FailFails(w) \/ Crash(w)
        PROVE  RestType'
    BY <1>6, LoopType
  <1> QED BY <1>1, <1>2, <1>3, <1>4, <1>5, <1>6 DEF Next

\* At first there are no rows
LEMMA InitType == Init => LeaseInv /\ RestType
  <1> SUFFICES ASSUME Init  PROVE RestType
    BY InitLease
  <1>1. line = << >> /\ LineType
    BY DEF Init, LineType
  <1> QED BY <1>1, BoundAssumption DEF Init, RestType, Phase, Priorities

\* Both invariants hold
LEMMA QueueTyped == Spec => [](LeaseInv /\ RestType)
  BY InitType, NextLease, NextType, PTL DEF Spec

\* The rows, their order and what the workers hold stay in their types: however enqueues,
\* claims, completions and failures interleave, a row is in line at most once
\* (enqueueRefreshTask, markRefreshTaskSuccess, markRefreshTaskFailure).
THEOREM QueueIsTyped == Spec => []TypeOK
  <1>1. LeaseInv /\ RestType => TypeOK
    BY TypeParts DEF LeaseInv
  <1> QED BY <1>1, QueueTyped, PTL

-----------------------------------------------------------------------------
(* The size of a batch *)

BatchCap == \A w \in Worker : IsFiniteSet(batch[w]) /\ Cardinality(batch[w]) <= ClaimLimit

\* Tasks that are let go
LEMMA CapShrinks ==
  ASSUME BatchCap, \A v \in Worker : batch'[v] \subseteq batch[v]
  PROVE  BatchCap'
  <1> SUFFICES ASSUME NEW v \in Worker
               PROVE  IsFiniteSet(batch'[v]) /\ Cardinality(batch'[v]) <= ClaimLimit
    BY DEF BatchCap
  <1>1. IsFiniteSet(batch[v]) /\ Cardinality(batch[v]) <= ClaimLimit
    BY DEF BatchCap
  <1>2. IsFiniteSet(batch'[v]) /\ Cardinality(batch'[v]) <= Cardinality(batch[v])
    BY <1>1, FS_Subset
  <1>3. Cardinality(batch'[v]) \in Nat /\ Cardinality(batch[v]) \in Nat
    BY <1>1, <1>2, FS_CardinalityType
  <1> QED BY <1>1, <1>2, <1>3, BoundAssumption

\* Only a claim adds to a batch, and it fills it anew
LEMMA NextCap == LeaseInv /\ RestType /\ BatchCap /\ [Next]_vars => BatchCap'
  <1> SUFFICES ASSUME LeaseInv, RestType, BatchCap, [Next]_vars  PROVE BatchCap'
    OBVIOUS
  <1>0. batch \in [Worker -> SUBSET Task]
    BY DEF LeaseInv, LeaseType
  <1>1. ASSUME batch' = batch  PROVE BatchCap'
    BY <1>1 DEF BatchCap
  <1>2. ASSUME NEW w \in Worker, NEW T, Drop(w, T)  PROVE BatchCap'
    <2>1. \A v \in Worker : batch'[v] \subseteq batch[v]
      BY <1>0, <1>2 DEF Drop
    <2> QED BY <2>1, CapShrinks
  <1>3. ASSUME NEW w \in Worker, Claim(w)  PROVE BatchCap'
    <2>1. priority \in [Task -> Nat]
      <3>1. Priorities \subseteq Nat
        BY TaskAssumption DEF Priorities
      <3> QED BY <3>1 DEF RestType
    <2>2. IsFiniteSet(Candidates) /\ Cardinality(Candidates) <= ClaimLimit
      BY <2>1, CandidatesCapped DEF RestType
    <2>3. \A v \in Worker : batch'[v] = IF v = w THEN Candidates ELSE batch[v]
      BY <1>0, <1>3 DEF Claim
    <2> HIDE DEF Candidates
    <2> QED BY <2>2, <2>3 DEF BatchCap
  <1>4. ASSUME NEW t \in Task, Ask(t) \/ FallDue(t) \/ LeaseLapses(t)  PROVE BatchCap'
    BY <1>1, <1>4 DEF Ask, FallDue, LeaseLapses, workerVars
  <1>5. ASSUME NEW m \in Match, MatchGoesOn(m)  PROVE BatchCap'
    BY <1>1, <1>5 DEF MatchGoesOn, workerVars
  <1>6. ASSUME NEW w \in Worker, Loop(w) \/ ScheduleFails(w) \/ FailFails(w) \/ Crash(w)
        PROVE  BatchCap'
    <2>1. CASE ReadCalendar(w) \/ Schedule(w) \/ Begin(w) \/ RefreshFails(w) \/ ScheduleFails(w)
      BY <1>1, <2>1 DEF ReadCalendar, Schedule, Begin, RefreshFails, ScheduleFails
    <2>2. CASE Complete(w) \/ Fail(w) \/ FailFails(w) \/ Crash(w)
      BY <1>2, <2>2 DEF Complete, Fail, Settle, FailFails, Crash
    <2> QED BY <1>3, <1>6, <2>1, <2>2 DEF Loop
  <1>7. CASE UNCHANGED vars
    BY <1>1, <1>7 DEF vars, workerVars
  <1> QED BY <1>4, <1>5, <1>6, <1>7 DEF Next

\* A worker never holds more tasks than it may lease at once, however many rows are due,
\* asked again or lapsed meanwhile: the order by priority and time that leaseRefreshTasks
\* cuts off at READ_STORE_REFRESH_CLAIM_LIMIT is total on the rows that are ready.
THEOREM BatchesAreCapped == Spec => []BatchCap
  <1>1. Init => BatchCap
    BY FS_EmptySet, BoundAssumption DEF Init, BatchCap
  <1> QED BY <1>1, QueueTyped, NextCap, PTL DEF Spec

===============================================================================
