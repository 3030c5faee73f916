----------------------------- MODULE RefreshQueue -----------------------------
(***************************************************************************)
(* The refresh queue of the read store: the table snapshot_refresh_queue,   *)
(* the API readers and the calendar scheduler that ask for refreshes, and   *)
(* the maintenance loops of several workers, which lease due tasks in       *)
(* batches and refresh them one after the other.                            *)
(*                                                                         *)
(* A row is due when next_refresh_at has passed. The due rows are kept in   *)
(* line, by next_refresh_at; the clocks of the processes agree on that      *)
(* order. Otherwise time is abstract: a row may fall due and a lease may    *)
(* lapse at any moment, also while its worker is still busy with the batch. *)
(*                                                                         *)
(* What is fetched and stored for a task is left out.                       *)
(***************************************************************************)
EXTENDS Naturals, FiniteSets, SequencesExt

CONSTANTS
  Task,        \* the targets that may have a row, by task_key
  Match,       \* the match_full tasks; the calendar follows these matches
  Teams,       \* Teams[m]: the team_full tasks of the two teams of match m
  AskPriority, \* the priority with which the API asks for each task
  Worker,
  NoWorker,
  NoTask,
  ClaimLimit,  \* READ_STORE_REFRESH_CLAIM_LIMIT
  MaxFaults    \* failed updates of the queue and crashes of workers, together

ASSUME TaskAssumption ==
  /\ Match \subseteq Task
  /\ Teams \in [Match -> SUBSET Task]
  /\ AskPriority \in [Task -> Nat \ {0}]
ASSUME NoneAssumption == NoWorker \notin Worker /\ NoTask \notin Task
ASSUME BoundAssumption == ClaimLimit \in Nat \ {0} /\ MaxFaults \in Nat

VARIABLES
  phase,    \* where each match is in its life
  line,     \* the rows that are due, by next_refresh_at
  priority, \* the priority of each row; 0: there is no row
  lease,    \* the worker whose lease of each row has not lapsed
  step,     \* where each worker is in its loop
  plan,     \* the enqueues each worker's calendar cycle has left to do
  batch,    \* the tasks each worker has claimed and not finished
  job,      \* the task each worker refreshes
  faults,
  asked,    \* history: rows asked for at once, and not fetched since
  overrun   \* history: rows whose lease has lapsed in the hands of a worker

rowVars == <<line, priority, lease>>
workerVars == <<step, plan, batch, job>>
vars == <<phase, rowVars, workerVars, faults, asked, overrun>>

-----------------------------------------------------------------------------
(* Values *)

\* lifecycleState
Phase == {"pre_match", "imminent", "live", "post_match", "settled"}

\* resolveFixtureLifecycle. The two hours of post_match count from the kickoff: a match
\* with extra time is settled as soon as it has finished.
Follows(p) ==
  CASE p = "pre_match"  -> {"imminent"}
    [] p = "imminent"   -> {"live"}
    [] p = "live"       -> {"post_match", "settled"}
    [] p = "post_match" -> {"settled"}
    [] p = "settled"    -> {}

Priorities == {0, 100, 150, 200, 250} \cup {AskPriority[t] : t \in Task}
WorkerStep == {"loop", "plan", "work", "fetch", "fail"}

Enqueue == [task : Task, priority : Priorities, now : BOOLEAN, match : Match]

\* The values the rows, their order and the workers' locals can hold: a row is in line once.
TypeOK ==
  /\ phase \in [Match -> Phase]
  /\ line \in Seq(Task) /\ \A i, j \in DOMAIN line : line[i] = line[j] => i = j
  /\ priority \in [Task -> Priorities]
  /\ lease \in [Task -> Worker \cup {NoWorker}]
  /\ step \in [Worker -> WorkerStep]
  /\ plan \in [Worker -> SUBSET Enqueue]
  /\ batch \in [Worker -> SUBSET Task]
  /\ job \in [Worker -> Task \cup {NoTask}]
  /\ faults \in 0 .. MaxFaults
  /\ asked \subseteq Task
  /\ overrun \subseteq Task

Init ==
  /\ phase = [m \in Match |-> "pre_match"]
  /\ line = << >>
  /\ priority = [t \in Task |-> 0]
  /\ lease = [t \in Task |-> NoWorker]
  /\ step = [w \in Worker |-> "loop"]
  /\ plan = [w \in Worker |-> {}]
  /\ batch = [w \in Worker |-> {}]
  /\ job = [w \in Worker |-> NoTask]
  /\ faults = 0
  /\ asked = {}
  /\ overrun = {}

\* The rows that are due
Due == {t \in Task : Contains(line, t)}

Fault ==
  /\ faults < MaxFaults
  /\ faults' = faults + 1

-----------------------------------------------------------------------------
(* Asking for a refresh *)

\* slip: the priority is added to the one of the row
HigherSum(p, q) == p + q

\* GREATEST
Higher(p, q) == IF p >= q THEN p ELSE q

\* enqueueRefreshTask: the row is inserted, or keeps the higher priority and the earlier
\* time: a row that is due keeps its place. The lease of a row is left alone.
Put(t, p, now) ==
  /\ priority' = [priority EXCEPT ![t] = Higher(@, p)]
  /\ line' = IF now /\ t \notin Due THEN Append(line, t) ELSE line
  /\ asked' = IF now THEN asked \cup {t} ELSE asked
  /\ UNCHANGED lease

\* An API process finds the snapshot of the task stale, or missing
Ask(t) ==
  /\ Put(t, AskPriority[t], TRUE)
  /\ UNCHANGED <<phase, workerVars, faults, overrun>>

\* The switch of runCalendarScheduleCycle for match m. A match that is not on yet is to
\* be refreshed some time before its kickoff, and at once when that is soon.
Entries(m, soon) ==
  LET entry(t, p, when) == [task |-> t, priority |-> p, now |-> when, match |-> m]
      teams(p) == {entry(t, p, TRUE) : t \in Teams[m]}
  IN CASE phase[m] = "pre_match"  -> {entry(m, 150, soon)}
       [] phase[m] = "imminent"   -> {entry(m, 200, soon)} \cup teams(150)
       [] phase[m] = "live"       -> {entry(m, 250, TRUE)}
       [] phase[m] = "post_match" -> {entry(m, 100, TRUE)} \cup teams(100)
       [] phase[m] = "settled"    -> {}

\* A calendar cycle is due: the worker reads the fixtures of the day, or fails to. A match
\* that is played past midnight is no longer among them. The phases the worker has seen
\* may be over when it comes to their enqueues.
ReadCalendar(w) ==
  /\ step[w] = "loop"
  /\ \E today \in SUBSET Match, soon \in [Match -> BOOLEAN] :
       plan' = [plan EXCEPT ![w] = UNION {Entries(m, soon[m]) : m \in today}]
  /\ step' = [step EXCEPT ![w] = "plan"]
  /\ UNCHANGED <<phase, rowVars, batch, job, faults, asked, overrun>>

Schedule(w) ==
  \E e \in plan[w] :
    /\ Put(e.task, e.priority, e.now)
    /\ plan' = [plan EXCEPT ![w] = @ \ {e}]
    /\ UNCHANGED <<phase, step, batch, job, faults, overrun>>

\* An enqueue fails, and the other enqueues for the match are skipped
ScheduleFails(w) ==
  \E e \in plan[w] :
    /\ Fault
    /\ plan' = [plan EXCEPT ![w] = {f \in @ : f.match # e.match}]
    /\ UNCHANGED <<phase, rowVars, step, batch, job, asked, overrun>>

-----------------------------------------------------------------------------
(* Leasing tasks *)

\* slip: the leases are not looked at
ReadyAnyLease == Due

\* WHERE next_refresh_at <= now AND (lease_until IS NULL OR lease_until < now)
Ready == {t \in Due : lease[t] = NoWorker}

Earlier(t, u) == \E i, j \in DOMAIN line : i < j /\ line[i] = t /\ line[j] = u

\* slip: the newest first
PrecedesNewest(t, u) ==
  \/ priority[t] > priority[u]
  \/ priority[t] = priority[u] /\ Earlier(u, t)

\* ORDER BY priority DESC, next_refresh_at ASC
Precedes(t, u) ==
  \/ priority[t] > priority[u]
  \/ priority[t] = priority[u] /\ Earlier(t, u)

\* The rows that leaseRefreshTasks picks
Candidates == {t \in Ready : Cardinality({u \in Ready : Precedes(u, t)}) < ClaimLimit}

\* leaseRefreshTasks, one transaction: rows locked by another one are skipped, as they
\* would be after it. A worker gets there when no calendar cycle is due, or after it.
Claim(w) ==
  /\ step[w] = "loop" \/ (step[w] = "plan" /\ plan[w] = {})
  /\ batch' = [batch EXCEPT ![w] = Candidates]
  /\ lease' = [t \in Task |-> IF t \in Candidates THEN w ELSE lease[t]]
  /\ step' = [step EXCEPT ![w] = IF Candidates = {} THEN "loop" ELSE "work"]
  /\ UNCHANGED <<phase, line, priority, plan, job, faults, asked, overrun>>

-----------------------------------------------------------------------------
(* Refreshing them *)

\* The worker turns to a task of its batch, and fetches it
Begin(w) ==
  /\ step[w] = "work"
  /\ \E t \in batch[w] :
       /\ job' = [job EXCEPT ![w] = t]
       /\ asked' = asked \ {t}
  /\ step' = [step EXCEPT ![w] = "fetch"]
  /\ UNCHANGED <<phase, rowVars, plan, batch, faults, overrun>>

\* The worker lets go of these tasks
Drop(w, T) ==
  /\ batch' = [batch EXCEPT ![w] = @ \ T]
  /\ job' = [job EXCEPT ![w] = NoTask]
  /\ step' = [step EXCEPT ![w] = IF batch[w] \subseteq T THEN "loop" ELSE "work"]
  /\ overrun' = {t \in overrun : \E v \in Worker : t \in batch'[v]}

\* The rows that stay in line when one is put off
OutOfLine(t) ==
  IF t \in Due THEN RemoveAt(line, CHOOSE i \in DOMAIN line : line[i] = t) ELSE line

\* markRefreshTaskSuccess (five minutes later) and markRefreshTaskFailure (one minute
\* later): next_refresh_at is overwritten, also with what was asked meanwhile, and the
\* lease is cleared, whoever holds it
Settle(w) ==
  /\ line' = OutOfLine(job[w])
  /\ lease' = [lease EXCEPT ![job[w]] = NoWorker]
  /\ Drop(w, {job[w]})
  /\ UNCHANGED <<phase, priority, plan, faults, asked>>

\* refreshSnapshotForJob returns
Complete(w) ==
  /\ step[w] = "fetch"
  /\ Settle(w)

\* It throws, or completeRefreshJob does, inside the same try
RefreshFails(w) ==
  /\ step[w] = "fetch"
  /\ step' = [step EXCEPT ![w] = "fail"]
  /\ UNCHANGED <<phase, rowVars, plan, batch, job, faults, asked, overrun>>

Fail(w) ==
  /\ step[w] = "fail"
  /\ Settle(w)

\* failRefreshJob throws: the cycle ends, and the leases stay until they lapse
FailFails(w) ==
  /\ step[w] = "fail"
  /\ Fault
  /\ Drop(w, batch[w])
  /\ UNCHANGED <<phase, rowVars, plan, asked>>

Crash(w) ==
  /\ step[w] # "loop"
  /\ Fault
  /\ Drop(w, batch[w])
  /\ plan' = [plan EXCEPT ![w] = {}]
  /\ UNCHANGED <<phase, rowVars, asked>>

-----------------------------------------------------------------------------
(* Time *)

\* next_refresh_at passes
FallDue(t) ==
  /\ priority[t] # 0
  /\ t \notin Due
  /\ line' = Append(line, t)
  /\ UNCHANGED <<phase, priority, lease, workerVars, faults, asked, overrun>>

\* lease_until passes
LeaseLapses(t) ==
  /\ lease[t] # NoWorker
  /\ lease' = [lease EXCEPT ![t] = NoWorker]
  /\ overrun' = IF \E w \in Worker : t \in batch[w] THEN overrun \cup {t} ELSE overrun
  /\ UNCHANGED <<phase, line, priority, workerVars, faults, asked>>

MatchGoesOn(m) ==
  /\ \E p \in Follows(phase[m]) : phase' = [phase EXCEPT ![m] = p]
  /\ UNCHANGED <<rowVars, workerVars, faults, asked, overrun>>

-----------------------------------------------------------------------------

\* The maintenance loop of a worker
Loop(w) ==
  \/ ReadCalendar(w)
  \/ Schedule(w)
  \/ Claim(w)
  \/ Begin(w)
  \/ Complete(w)
  \/ RefreshFails(w)
  \/ Fail(w)

Next ==
  \/ \E t \in Task : Ask(t) \/ FallDue(t) \/ LeaseLapses(t)
  \/ \E m \in Match : MatchGoesOn(m)
  \/ \E w \in Worker : Loop(w) \/ ScheduleFails(w) \/ FailFails(w) \/ Crash(w)

Spec == Init /\ [][Next]_vars

\* Some worker keeps looping (the others may hang, with what they have claimed), and time
\* passes
FairSpec ==
  /\ Spec
  /\ WF_vars(\E w \in Worker : Loop(w))
  /\ \A t \in Task : WF_vars(FallDue(t)) /\ WF_vars(LeaseLapses(t))

-----------------------------------------------------------------------------
(* Properties *)

\* A task that a worker has claimed is leased to it, and so to no other worker, unless
\* the batch has outlived the lease: markRefreshTaskSuccess clears the lease of any
\* owner, and only the claim keeps two workers off one row.
LeaseHonoured ==
  \A w \in Worker : \A t \in batch[w] : lease[t] = w \/ t \in overrun

\* A task that was asked for is fetched after that, also when it was asked for during a
\* fetch whose completion puts it off, and when its worker has gone; unless so many
\* tasks have a higher priority that they may fill every batch.
AskedIsServed ==
  \A t \in Task :
    t \in asked ~>
      \/ t \notin asked
      \/ Cardinality({u \in Task : priority[u] > priority[t]}) >= ClaimLimit
===============================================================================
