----------------------------- MODULE UpstreamCircuit -----------------------------
(***************************************************************************)
(* The circuit breaker of the client of API-Football, for one family of     *)
(* routes, in several processes.                                            *)
(*                                                                         *)
(* Every process keeps the state of the circuit, publishes its changes to   *)
(* Redis without waiting, and before a call adopts what is published there  *)
(* if it opens the circuit for longer. Any command to Redis may fail, and   *)
(* is then left out. The budget of requests (UpstreamQuota) may refuse an   *)
(* attempt at any time.                                                     *)
(*                                                                         *)
(* A time until which a circuit is open is told by the ticks that are left: *)
(* Never (the 0 of the code), Past, or Past + n. Of two times in the past   *)
(* it does not matter which is later. The code compares the time at which a *)
(* call begins; here it is the time at which Redis has answered it, later   *)
(* by less, so that a call may be let through that the code still stops.    *)
(***************************************************************************)
EXTENDS Naturals, Sequences

CONSTANTS
  Process,
  Call,        \* calls of apiFootballGet
  Home,        \* the process of each call
  Window,      \* ticks for which a circuit opens
  MaxRetries,  \* env.apiMaxRetries
  FailureThreshold,   \* CIRCUIT_FAILURE_THRESHOLD
  RateLimitThreshold, \* CIRCUIT_RATE_LIMIT_THRESHOLD
  MaxOutbox    \* publications of a process under way; more are lost

ASSUME HomeAssumption == Home \in [Call -> Process]
ASSUME BoundAssumption ==
  /\ Window \in Nat \ {0} /\ MaxRetries \in Nat /\ MaxOutbox \in Nat
  /\ FailureThreshold \in Nat \ {0} /\ RateLimitThreshold \in Nat \ {0}

VARIABLES
  circuit,   \* circuitStateByFamily of each process
  remote,    \* the state in Redis
  outbox,    \* publications of each process on their way to Redis
  step,      \* where each call is
  attempt,   \* the attempt it is at
  read,      \* the state it has read from Redis
  since      \* history: ticks since a failure was recorded, up to Window

calls == <<step, attempt, read>>
vars == <<circuit, remote, outbox, calls, since>>

-----------------------------------------------------------------------------
(* Values *)

Never == 0
Past == 1

\* Counters matter up to their thresholds. A process that has not met the family has no
\* state, nor has Redis without the key.
CircuitState ==
  [known : BOOLEAN, until : Never .. Past + Window, failures : 0 .. FailureThreshold,
   rateLimits : 0 .. RateLimitThreshold]

Unknown == [known |-> FALSE, until |-> Never, failures |-> 0, rateLimits |-> 0]
Closed == [known |-> TRUE, until |-> Never, failures |-> 0, rateLimits |-> 0]

Open(s) == s.until > Past

\* The values the state can hold.
TypeOK ==
  /\ circuit \in [Process -> CircuitState]
  /\ remote \in CircuitState
  /\ outbox \in [Process -> Seq(CircuitState)]
  /\ step \in [Call -> {"idle", "adopting", "fetching"}]
  /\ attempt \in [Call -> 0 .. MaxRetries]
  /\ read \in [Call -> CircuitState]
  /\ since \in 0 .. Window

Init ==
  /\ circuit = [p \in Process |-> Unknown]
  /\ remote = Unknown
  /\ outbox = [p \in Process |-> <<>>]
  /\ step = [c \in Call |-> "idle"]
  /\ attempt = [c \in Call |-> 0]
  /\ read = [c \in Call |-> Unknown]
  /\ since = Window

-----------------------------------------------------------------------------
(* Redis *)

\* publishCircuitStateToRedis: nobody waits for it, and it may fail
Publish(p, s) ==
  \/ Len(outbox[p]) < MaxOutbox /\ outbox' = [outbox EXCEPT ![p] = Append(@, s)]
  \/ UNCHANGED outbox

Arrives(p) ==
  /\ outbox[p] # <<>>
  /\ remote' = Head(outbox[p])
  /\ outbox' = [outbox EXCEPT ![p] = Tail(@)]
  /\ UNCHANGED <<circuit, calls, since>>

\* The connection of p ends
Lost(p) ==
  /\ outbox[p] # <<>>
  /\ outbox' = [outbox EXCEPT ![p] = <<>>]
  /\ UNCHANGED <<circuit, remote, calls, since>>

\* The key expires, long after the circuit has closed
KeyExpires ==
  /\ remote.known /\ ~Open(remote)
  /\ remote' = Unknown
  /\ UNCHANGED <<circuit, outbox, calls, since>>

-----------------------------------------------------------------------------
(* Calls *)

\* A call begins: the GET of syncCircuitStateFromRedis is answered, after what the
\* process has published before, or fails
Begin(c) ==
  /\ step[c] = "idle"
  /\ \/ outbox[Home[c]] = <<>> /\ read' = [read EXCEPT ![c] = remote]
     \/ UNCHANGED read
  /\ step' = [step EXCEPT ![c] = "adopting"]
  /\ UNCHANGED <<circuit, remote, outbox, attempt, since>>

\* A call ends, with an answer or an error
Ends(c) ==
  /\ step' = [step EXCEPT ![c] = "idle"]
  /\ attempt' = [attempt EXCEPT ![c] = 0]
  /\ read' = [read EXCEPT ![c] = Unknown]

\* slip: a published state is used by a process that has none, and only by that
WinsOnce(published, local) == published.known /\ ~local.known

\* The published state wins if it opens the circuit for longer
Wins(published, local) ==
  published.known /\ (~local.known \/ published.until > local.until)

\* slip: an opening that is adopted lasts a window from now
Renewed(s) == IF s.until = Never THEN s ELSE [s EXCEPT !.until = Past + Window]

Copied(s) == s

\* The state of c's process once c has read Redis
Synced(c) ==
  LET local == circuit[Home[c]] IN
  IF Wins(read[c], local) THEN Copied(read[c]) ELSE [local EXCEPT !.known = TRUE]

\* isCircuitOpen: the state read is adopted, and the circuit is looked at, once for all
\* attempts
Adopt(c) ==
  /\ step[c] = "adopting"
  /\ circuit' = [circuit EXCEPT ![Home[c]] = Synced(c)]
  /\ \/ Ends(c)  \* an open circuit, or no budget
     \/ /\ ~Open(Synced(c))
        /\ step' = [step EXCEPT ![c] = "fetching"]
        /\ UNCHANGED <<attempt, read>>
  /\ UNCHANGED <<remote, outbox, since>>

UpTo(n, max) == IF n > max THEN max ELSE n

\* The state with the counters after a failure
Counted(s, rateLimit) ==
  [known |-> TRUE, until |-> s.until, failures |-> UpTo(s.failures + 1, FailureThreshold),
   rateLimits |-> IF rateLimit THEN UpTo(s.rateLimits + 1, RateLimitThreshold) ELSE 0]

Opens(s) == s.failures = FailureThreshold \/ s.rateLimits = RateLimitThreshold

\* recordCircuitFailure
RecordFailure(p, rateLimit) ==
  LET s == Counted(circuit[p], rateLimit)
      opened == [s EXCEPT !.until = Past + Window]
  IN \/ /\ Opens(s)
        /\ circuit' = [circuit EXCEPT ![p] = opened]
        /\ Publish(p, opened)
     \/ /\ ~Opens(s)
        /\ circuit' = [circuit EXCEPT ![p] = s]
        /\ UNCHANGED outbox

\* recordCircuitSuccess, also for a request sent before the circuit opened
Succeeds(c) ==
  /\ step[c] = "fetching"
  /\ circuit' = [circuit EXCEPT ![Home[c]] = Closed]
  /\ Publish(Home[c], Closed)
  /\ Ends(c)
  /\ UNCHANGED <<remote, since>>

\* slip: the number of retries counts the first attempt out
RetriesOnceMore(c) == attempt[c] <= MaxRetries

MayRetry(c) == attempt[c] < MaxRetries

\* HTTP 429 or 5xx, an error in the answer that speaks of a limit, no answer in time: a
\* failure counts, and the attempt is repeated if it may be, and if there is budget
Fails(c) ==
  /\ step[c] = "fetching"
  /\ \E rateLimit \in BOOLEAN : RecordFailure(Home[c], rateLimit)
  /\ since' = 0
  /\ \/ /\ MayRetry(c)
        /\ attempt' = [attempt EXCEPT ![c] = @ + 1]
        /\ UNCHANGED <<step, read>>
     \/ Ends(c)
  /\ UNCHANGED remote

\* Another error of the upstream says nothing of the circuit and is not retried
Refused(c) ==
  /\ step[c] = "fetching"
  /\ Ends(c)
  /\ UNCHANGED <<circuit, remote, outbox, since>>

-----------------------------------------------------------------------------
(* Time *)

Sooner(s) == IF Open(s) THEN [s EXCEPT !.until = @ - 1] ELSE s

Tick ==
  /\ circuit' = [p \in Process |-> Sooner(circuit[p])]
  /\ remote' = Sooner(remote)
  /\ outbox' = [p \in Process |-> [i \in DOMAIN outbox[p] |-> Sooner(outbox[p][i])]]
  /\ read' = [c \in Call |-> Sooner(read[c])]
  /\ since' = UpTo(since + 1, Window)
  /\ UNCHANGED <<step, attempt>>

Next ==
  \/ \E c \in Call : Begin(c) \/ Adopt(c) \/ Succeeds(c) \/ Fails(c) \/ Refused(c)
  \/ \E p \in Process : Arrives(p) \/ Lost(p)
  \/ KeyExpires \/ Tick

Spec == Init /\ [][Next]_vars

-----------------------------------------------------------------------------
(* Properties *)

\* However states are published, delayed and adopted, nobody holds a circuit open for
\* longer than a window after the last failure anybody recorded: a stale opening that
\* comes back does not last longer for it.
Bounded(s) == Open(s) => s.until + since <= Past + Window

OpeningIsBounded ==
  /\ \A p \in Process : Bounded(circuit[p])
  /\ \A p \in Process : \A i \in DOMAIN outbox[p] : Bounded(outbox[p][i])
  /\ Bounded(remote)
  /\ \A c \in Call : Bounded(read[c])

\* A call that finds a circuit in Redis that is open and stays open sends nothing,
\* whatever becomes of the state of its process in the meantime.
OpenIsHeeded == \A c \in Call : Open(read[c]) => step[c] # "fetching"
===============================================================================
