------------------------ MODULE UpstreamCircuit_proofs ------------------------
(* Theorems about UpstreamCircuit, for any number of processes and calls, and   *)
(* any window, thresholds and number of retries.                                *)
EXTENDS UpstreamCircuit, TLAPS

\* What holds of every state of the circuit, wherever it is, n ticks after a failure: it
\* is open only if it is a state at all, and for no longer than is left of the window.
Sound(s, n) ==
  /\ s \in CircuitState
  /\ Open(s) => s.known /\ s.until + n <= Past + Window

AllSound ==
  /\ \A p \in Process : Sound(circuit[p], since)
  /\ \A p \in Process : \A i \in DOMAIN outbox[p] : Sound(outbox[p][i], since)
  /\ Sound(remote, since)
  /\ \A c \in Call : Sound(read[c], since)

\* The inductive invariant
Inv == TypeOK /\ AllSound /\ OpenIsHeeded

-----------------------------------------------------------------------------
(* States of the circuit *)

LEMMA UpToInRange ==
  ASSUME NEW n \in Nat, NEW max \in Nat PROVE UpTo(n, max) \in 0 .. max
  BY DEF UpTo

LEMMA ClosedSound == ASSUME NEW n \in Nat PROVE Sound(Closed, n) /\ ~Open(Closed)
  BY BoundAssumption DEF Sound, Closed, CircuitState, Open, Never, Past

LEMMA UnknownSound == ASSUME NEW n \in Nat PROVE Sound(Unknown, n) /\ ~Open(Unknown)
  BY BoundAssumption DEF Sound, Unknown, CircuitState, Open, Never, Past

LEMMA CountedState ==
  ASSUME NEW s \in CircuitState, NEW rateLimit \in BOOLEAN
  PROVE  Counted(s, rateLimit) \in CircuitState /\ Counted(s, rateLimit).known
  <1>1. s.failures \in Nat /\ s.rateLimits \in Nat /\ s.until \in Never .. Past + Window
    BY BoundAssumption DEF CircuitState
  <1>2. /\ UpTo(s.failures + 1, FailureThreshold) \in 0 .. FailureThreshold
        /\ UpTo(s.rateLimits + 1, RateLimitThreshold) \in 0 .. RateLimitThreshold
    <2>1. s.failures + 1 \in Nat /\ s.rateLimits + 1 \in Nat
      BY <1>1
    <2> QED BY <2>1, UpToInRange, BoundAssumption
  <1> DEFINE f == UpTo(s.failures + 1, FailureThreshold)
             r == IF rateLimit THEN UpTo(s.rateLimits + 1, RateLimitThreshold) ELSE 0
  <1>3. f \in 0 .. FailureThreshold /\ r \in 0 .. RateLimitThreshold
    BY <1>2, BoundAssumption
  <1>4. Counted(s, rateLimit)
          = [known |-> TRUE, until |-> s.until, failures |-> f, rateLimits |-> r]
    BY DEF Counted
  <1> HIDE DEF f, r
  <1> QED BY <1>1, <1>3, <1>4 DEF CircuitState

\* A state recorded at a failure opens the circuit for a window at most
LEMMA FailureSound ==
  ASSUME NEW s \in CircuitState, s.known
  PROVE  Sound(s, 0) /\ Sound([s EXCEPT !.until = Past + Window], 0)
  BY BoundAssumption DEF Sound, CircuitState, Open, Never, Past

\* A failure after the one that counts leaves more of the window
LEMMA SoundSince ==
  ASSUME NEW s, NEW n \in Nat, Sound(s, n) PROVE Sound(s, 0)
  BY BoundAssumption DEF Sound, CircuitState, Open, Never, Past

LEMMA SoonerSound ==
  ASSUME NEW s, NEW n \in 0 .. Window, Sound(s, n)
  PROVE  Sound(Sooner(s), UpTo(n + 1, Window)) /\ (Open(Sooner(s)) => Open(s))
  <1>1. s \in CircuitState /\ s.until \in Nat
    BY BoundAssumption DEF Sound, CircuitState, Never, Past
  <1>2. CASE ~Open(s)
    BY <1>2 DEF Sound, Sooner
  <1>3. CASE Open(s)
    <2> DEFINE t == [s EXCEPT !.until = s.until - 1]
    <2>1. n + 1 <= Window /\ UpTo(n + 1, Window) = n + 1
      BY <1>1, <1>3, BoundAssumption DEF Sound, UpTo, Open, Past
    <2>2. t \in CircuitState /\ t.until = s.until - 1 /\ t.known = s.known
      BY <1>1, <1>3, BoundAssumption DEF CircuitState, Open, Never, Past
    <2>3. Sooner(s) = t
      BY <1>3 DEF Sooner
    <2>4. Sound(t, n + 1)
      BY <1>1, <1>3, <2>2, BoundAssumption DEF Sound, Open, Past
    <2> QED BY <1>3, <2>1, <2>3, <2>4
  <1> QED BY <1>2, <1>3

-----------------------------------------------------------------------------
(* Publications *)

LEMMA PublishSound ==
  ASSUME NEW p \in Process, NEW s, NEW n \in Nat, Publish(p, s), Sound(s, n),
         outbox \in [Process -> Seq(CircuitState)],
         \A q \in Process : \A i \in DOMAIN outbox[q] : Sound(outbox[q][i], n)
  PROVE  /\ outbox' \in [Process -> Seq(CircuitState)]
         /\ \A q \in Process : \A i \in DOMAIN outbox'[q] : Sound(outbox'[q][i], n)
  <1>1. CASE UNCHANGED outbox
    BY <1>1
  <1>2. CASE outbox' = [outbox EXCEPT ![p] = Append(@, s)]
    <2>1. s \in CircuitState
      BY DEF Sound
    <2>2. outbox' \in [Process -> Seq(CircuitState)]
      BY <1>2, <2>1
    <2>3. ASSUME NEW q \in Process, NEW i \in DOMAIN outbox'[q]
          PROVE  Sound(outbox'[q][i], n)
      <3>1. CASE q # p
        BY <1>2, <3>1
      <3>2. CASE q = p
        <4> DEFINE o == outbox[p]
        <4>1. o \in Seq(CircuitState) /\ outbox'[q] = Append(o, s)
          BY <1>2, <3>2
        <4>2. CASE i \in DOMAIN o
          BY <3>2, <4>1, <4>2
        <4>3. CASE i \notin DOMAIN o
          BY <4>1, <4>3, <2>1
        <4> QED BY <4>2, <4>3
      <3> QED BY <3>1, <3>2
    <2> QED BY <2>2, <2>3
  <1> QED BY <1>1, <1>2 DEF Publish

\* One publication less on its way
LEMMA OutboxTail ==
  ASSUME Inv, NEW p \in Process, outbox[p] # <<>>
  PROVE  /\ Sound(Head(outbox[p]), since) /\ Head(outbox[p]) \in CircuitState
         /\ LET shorter == [outbox EXCEPT ![p] = Tail(@)] IN
              /\ shorter \in [Process -> Seq(CircuitState)]
              /\ \A q \in Process : \A i \in DOMAIN shorter[q] : Sound(shorter[q][i], since)
  <1> DEFINE o == outbox[p]
             shorter == [outbox EXCEPT ![p] = Tail(@)]
  <1>1. o \in Seq(CircuitState) /\ o # <<>> /\ outbox \in [Process -> Seq(CircuitState)]
    BY DEF Inv, TypeOK
  <1>2. 1 \in DOMAIN o /\ Head(o) = o[1]
    BY <1>1
  <1>3. Sound(Head(o), since)
    BY <1>2 DEF Inv, AllSound
  <1>4. shorter \in [Process -> Seq(CircuitState)]
    BY <1>1
  <1>5. ASSUME NEW q \in Process, NEW i \in DOMAIN shorter[q]
        PROVE  Sound(shorter[q][i], since)
    <2>1. CASE q # p
      BY <1>1, <1>5, <2>1 DEF Inv, AllSound
    <2>2. CASE q = p
      <3>1. shorter[q] = Tail(o)
        BY <1>1, <2>2
      <3>2. i + 1 \in DOMAIN o /\ shorter[q][i] = o[i + 1]
        BY <1>1, <1>5, <3>1
      <3> QED BY <2>2, <3>2 DEF Inv, AllSound
    <2> QED BY <2>1, <2>2
  <1> QED BY <1>2, <1>3, <1>4, <1>5 DEF Sound

\* The calls when one of them ends
LEMMA EndsCalls ==
  ASSUME Inv, NEW c \in Call, Ends(c)
  PROVE  /\ step' \in [Call -> {"idle", "adopting", "fetching"}]
         /\ attempt' \in [Call -> 0 .. MaxRetries]
         /\ read' \in [Call -> CircuitState]
         /\ \A d \in Call : Sound(read'[d], since)
         /\ \A d \in Call : Open(read'[d]) => step'[d] # "fetching"
  <1>1. Sound(Unknown, since) /\ ~Open(Unknown) /\ Unknown \in CircuitState
    BY UnknownSound, BoundAssumption DEF Inv, TypeOK, Sound
  <1> QED BY <1>1, BoundAssumption DEF Inv, TypeOK, AllSound, OpenIsHeeded, Ends

-----------------------------------------------------------------------------
(* Actions *)

LEMMA InitInv == Init => Inv
  <1> SUFFICES ASSUME Init PROVE Inv
    OBVIOUS
  <1>1. Window \in Nat /\ Sound(Unknown, Window) /\ ~Open(Unknown) /\ Unknown \in CircuitState
    BY UnknownSound, BoundAssumption DEF Sound
  <1>2. TypeOK
    BY <1>1, BoundAssumption DEF Init, TypeOK
  <1>3. AllSound
    BY <1>1 DEF Init, AllSound
  <1> QED BY <1>1, <1>2, <1>3 DEF Init, Inv, OpenIsHeeded

LEMMA BeginInv == ASSUME Inv, NEW c \in Call, Begin(c) PROVE Inv'
  <1>1. read' \in [Call -> CircuitState] /\ \A d \in Call : Sound(read'[d], since)
    BY DEF Inv, TypeOK, AllSound, Begin
  <1>2. TypeOK'
    BY <1>1 DEF Inv, TypeOK, Begin
  <1>3. AllSound'
    BY <1>1 DEF Inv, AllSound, Begin
  <1>4. OpenIsHeeded'
    BY DEF Inv, TypeOK, OpenIsHeeded, Begin
  <1> QED BY <1>2, <1>3, <1>4 DEF Inv

\* The state of a process that has read Redis, which is open if the one read is
LEMMA SyncedSound ==
  ASSUME Inv, NEW c \in Call
  PROVE  Sound(Synced(c), since) /\ (Open(read[c]) => Open(Synced(c)))
  <1> DEFINE local == circuit[Home[c]]
             known == [local EXCEPT !.known = TRUE]
  <1>1. Home[c] \in Process
    BY HomeAssumption
  <1>2. Sound(local, since) /\ Sound(read[c], since) /\ local \in CircuitState
    BY <1>1 DEF Inv, AllSound, Sound
  <1>3. known \in CircuitState /\ known.until = local.until /\ known.known
    BY <1>2 DEF CircuitState
  <1>4. CASE Wins(read[c], local)
    BY <1>2, <1>4 DEF Synced, Copied
  <1>5. CASE ~Wins(read[c], local)
    <2>1. Synced(c) = known
      BY <1>5 DEF Synced
    <2>2. Sound(known, since)
      BY <1>2, <1>3 DEF Sound, Open
    <2>3. Open(read[c]) => Open(known)
      <3>1. read[c].until \in Nat /\ local.until \in Nat
        BY <1>2, BoundAssumption DEF Sound, CircuitState, Never, Past
      <3> QED BY <1>2, <1>3, <1>5, <3>1 DEF Wins, Sound, Open, Past
    <2> QED BY <2>1, <2>2, <2>3
  <1> QED BY <1>4, <1>5

LEMMA AdoptInv == ASSUME Inv, NEW c \in Call, Adopt(c) PROVE Inv'
  <1> DEFINE s == Synced(c)
  <1>1. Sound(s, since) /\ s \in CircuitState /\ (Open(read[c]) => Open(s))
    BY SyncedSound DEF Sound
  <1>2. circuit' = [circuit EXCEPT ![Home[c]] = s]
    BY DEF Adopt
  <1> HIDE DEF s
  <1>3. /\ circuit' \in [Process -> CircuitState]
        /\ \A p \in Process : Sound(circuit'[p], since)
    BY <1>1, <1>2 DEF Inv, TypeOK, AllSound
  <1>4. /\ step' \in [Call -> {"idle", "adopting", "fetching"}]
        /\ attempt' \in [Call -> 0 .. MaxRetries]
        /\ read' \in [Call -> CircuitState]
        /\ \A d \in Call : Sound(read'[d], since)
        /\ \A d \in Call : Open(read'[d]) => step'[d] # "fetching"
    <2>1. CASE Ends(c)
      BY <2>1, EndsCalls
    <2>2. CASE ~Open(s) /\ step' = [step EXCEPT ![c] = "fetching"] /\ UNCHANGED <<attempt, read>>
      BY <1>1, <2>2 DEF Inv, TypeOK, AllSound, OpenIsHeeded
    <2> QED BY <2>1, <2>2 DEF Adopt, s
  <1>5. TypeOK'
    BY <1>3, <1>4 DEF Inv, TypeOK, Adopt
  <1>6. AllSound'
    BY <1>3, <1>4 DEF Inv, AllSound, Adopt
  <1>7. OpenIsHeeded'
    BY <1>4 DEF OpenIsHeeded
  <1> QED BY <1>5, <1>6, <1>7 DEF Inv

LEMMA SucceedsInv == ASSUME Inv, NEW c \in Call, Succeeds(c) PROVE Inv'
  <1> DEFINE p == Home[c]
  <1>1. p \in Process /\ since \in Nat
    BY HomeAssumption, BoundAssumption DEF Inv, TypeOK
  <1>2. Sound(Closed, since) /\ Closed \in CircuitState
    BY <1>1, ClosedSound DEF Sound
  <1>3. /\ circuit' \in [Process -> CircuitState]
        /\ \A q \in Process : Sound(circuit'[q], since)
    BY <1>2 DEF Inv, TypeOK, AllSound, Succeeds
  <1>4. /\ outbox' \in [Process -> Seq(CircuitState)]
        /\ \A q \in Process : \A i \in DOMAIN outbox'[q] : Sound(outbox'[q][i], since)
    <2>1. Publish(p, Closed)
      BY DEF Succeeds
    <2> QED BY <1>1, <1>2, <2>1, PublishSound DEF Inv, TypeOK, AllSound
  <1>5. Ends(c)
    BY DEF Succeeds
  <1>6. TypeOK'
    BY <1>3, <1>4, <1>5, EndsCalls DEF Inv, TypeOK, Succeeds
  <1>7. AllSound'
    BY <1>3, <1>4, <1>5, EndsCalls DEF Inv, AllSound, Succeeds
  <1>8. OpenIsHeeded'
    BY <1>5, EndsCalls DEF OpenIsHeeded
  <1> QED BY <1>6, <1>7, <1>8 DEF Inv

\* The failure of c is counted, and time is told from it
LEMMA FailsInv == ASSUME Inv, NEW c \in Call, Fails(c) PROVE Inv'
  <1> DEFINE p == Home[c]
  <1>1. p \in Process /\ circuit[p] \in CircuitState /\ since \in Nat /\ since' = 0
    BY HomeAssumption, BoundAssumption DEF Inv, TypeOK, Fails
  <1>2. PICK rateLimit \in BOOLEAN : RecordFailure(p, rateLimit)
    BY DEF Fails
  <1> DEFINE s == Counted(circuit[p], rateLimit)
             opened == [s EXCEPT !.until = Past + Window]
  <1>3. Sound(s, 0) /\ Sound(opened, 0)
    BY <1>1, CountedState, FailureSound
  <1>4. \/ circuit' = [circuit EXCEPT ![p] = opened] /\ Publish(p, opened)
        \/ circuit' = [circuit EXCEPT ![p] = s] /\ UNCHANGED outbox
    BY <1>2 DEF RecordFailure
  <1> HIDE DEF s, opened
  <1>5. /\ \A q \in Process : Sound(circuit[q], 0)
        /\ \A q \in Process : \A i \in DOMAIN outbox[q] : Sound(outbox[q][i], 0)
        /\ Sound(remote, 0)
        /\ \A d \in Call : Sound(read[d], 0)
    BY <1>1, SoundSince DEF Inv, AllSound
  <1>6. /\ circuit' \in [Process -> CircuitState]
        /\ \A q \in Process : Sound(circuit'[q], 0)
    BY <1>3, <1>4, <1>5 DEF Inv, TypeOK, Sound
  <1>7. /\ outbox' \in [Process -> Seq(CircuitState)]
        /\ \A q \in Process : \A i \in DOMAIN outbox'[q] : Sound(outbox'[q][i], 0)
    <2>1. CASE Publish(p, opened)
      BY <1>1, <1>3, <1>5, <2>1, PublishSound DEF Inv, TypeOK
    <2>2. CASE UNCHANGED outbox
      BY <1>5, <2>2 DEF Inv, TypeOK
    <2> QED BY <1>4, <2>1, <2>2
  <1>8. /\ step' \in [Call -> {"idle", "adopting", "fetching"}]
        /\ attempt' \in [Call -> 0 .. MaxRetries]
        /\ read' \in [Call -> CircuitState]
        /\ \A d \in Call : Sound(read'[d], 0)
        /\ \A d \in Call : Open(read'[d]) => step'[d] # "fetching"
    <2>1. CASE Ends(c)
      <3>1. \A d \in Call : Sound(read'[d], since)
        BY <2>1, EndsCalls
      <3>2. \A d \in Call : Sound(read'[d], 0)
        BY <1>1, <3>1, SoundSince
      <3> QED BY <2>1, <3>2, EndsCalls
    <2>2. CASE /\ MayRetry(c)
               /\ attempt' = [attempt EXCEPT ![c] = @ + 1]
               /\ UNCHANGED <<step, read>>
      <3>1. attempt[c] + 1 \in 0 .. MaxRetries
        BY <2>2, BoundAssumption DEF Inv, TypeOK, MayRetry
      <3> QED BY <1>5, <2>2, <3>1 DEF Inv, TypeOK, OpenIsHeeded
    <2> QED BY <2>1, <2>2 DEF Fails
  <1>9. TypeOK'
    BY <1>1, <1>6, <1>7, <1>8, BoundAssumption DEF Inv, TypeOK, Fails
  <1>10. AllSound'
    BY <1>1, <1>5, <1>6, <1>7, <1>8 DEF AllSound, Fails
  <1>11. OpenIsHeeded'
    BY <1>8 DEF OpenIsHeeded
  <1> QED BY <1>9, <1>10, <1>11 DEF Inv

LEMMA RefusedInv == ASSUME Inv, NEW c \in Call, Refused(c) PROVE Inv'
  <1>1. Ends(c)
    BY DEF Refused
  <1>2. TypeOK'
    BY <1>1, EndsCalls DEF Inv, TypeOK, Refused
  <1>3. AllSound'
    BY <1>1, EndsCalls DEF Inv, AllSound, Refused
  <1>4. OpenIsHeeded'
    BY <1>1, EndsCalls DEF OpenIsHeeded
  <1> QED BY <1>2, <1>3, <1>4 DEF Inv

LEMMA ArrivesInv == ASSUME Inv, NEW p \in Process, Arrives(p) PROVE Inv'
  <1>1. TypeOK'
    BY OutboxTail DEF Inv, TypeOK, Arrives, calls
  <1>2. AllSound'
    BY OutboxTail DEF Inv, AllSound, Arrives, calls
  <1> QED BY <1>1, <1>2 DEF Inv, OpenIsHeeded, Arrives, calls

LEMMA LostInv == ASSUME Inv, NEW p \in Process, Lost(p) PROVE Inv'
  <1>1. TypeOK'
    BY DEF Inv, TypeOK, Lost, calls
  <1>2. AllSound'
    BY DEF Inv, TypeOK, AllSound, Lost, calls
  <1> QED BY <1>1, <1>2 DEF Inv, OpenIsHeeded, Lost, calls

LEMMA KeyExpiresInv == ASSUME Inv, KeyExpires PROVE Inv'
  <1>1. Sound(Unknown, since) /\ Unknown \in CircuitState
    BY UnknownSound, BoundAssumption DEF Inv, TypeOK, Sound
  <1> QED BY <1>1 DEF Inv, TypeOK, AllSound, OpenIsHeeded, KeyExpires, calls

LEMMA TickInv == ASSUME Inv, Tick PROVE Inv'
  <1> DEFINE now == UpTo(since + 1, Window)
             older == [p \in Process |-> [i \in DOMAIN outbox[p] |-> Sooner(outbox[p][i])]]
  <1>1. since \in 0 .. Window /\ since' = now /\ now \in 0 .. Window
    BY UpToInRange, BoundAssumption DEF Inv, TypeOK, Tick
  <1> HIDE DEF now
  <1>2. ASSUME NEW s, Sound(s, since)
        PROVE  Sound(Sooner(s), now) /\ Sooner(s) \in CircuitState
               /\ (Open(Sooner(s)) => Open(s))
    BY <1>1, <1>2, SoonerSound DEF Sound, now
  <1>3. /\ circuit' \in [Process -> CircuitState]
        /\ \A p \in Process : Sound(circuit'[p], now)
    BY <1>2 DEF Inv, TypeOK, AllSound, Tick
  <1>4. remote' \in CircuitState /\ Sound(remote', now)
    BY <1>2 DEF Inv, AllSound, Tick
  <1>5. /\ read' \in [Call -> CircuitState]
        /\ \A c \in Call : Sound(read'[c], now) /\ (Open(read'[c]) => Open(read[c]))
    BY <1>2 DEF Inv, TypeOK, AllSound, Tick
  <1>6. ASSUME NEW p \in Process
        PROVE  /\ older[p] \in Seq(CircuitState)
               /\ \A i \in DOMAIN older[p] : Sound(older[p][i], now)
    <2>1. outbox[p] \in Seq(CircuitState) /\ \A i \in DOMAIN outbox[p] : Sound(outbox[p][i], since)
      BY <1>6 DEF Inv, TypeOK, AllSound
    <2>2. PICK n \in Nat : DOMAIN outbox[p] = 1 .. n
      BY <2>1
    <2>3. older[p] = [i \in 1 .. n |-> Sooner(outbox[p][i])]
      BY <2>2
    <2>4. \A i \in 1 .. n : Sound(Sooner(outbox[p][i]), now) /\ Sooner(outbox[p][i]) \in CircuitState
      BY <1>2, <2>1, <2>2
    <2> QED BY <2>3, <2>4
  <1>7. /\ outbox' \in [Process -> Seq(CircuitState)]
        /\ \A p \in Process : \A i \in DOMAIN outbox'[p] : Sound(outbox'[p][i], now)
    BY <1>6 DEF Tick
  <1>8. TypeOK'
    BY <1>1, <1>3, <1>4, <1>5, <1>7 DEF Inv, TypeOK, Tick
  <1>9. AllSound'
    BY <1>1, <1>3, <1>4, <1>5, <1>7 DEF AllSound
  <1>10. OpenIsHeeded'
    BY <1>5 DEF Inv, OpenIsHeeded, Tick
  <1> QED BY <1>8, <1>9, <1>10 DEF Inv

LEMMA StepInv == Inv /\ [Next]_vars => Inv'
  <1> SUFFICES ASSUME Inv, [Next]_vars PROVE Inv'
    OBVIOUS
  <1>1. CASE \E c \in Call : Begin(c) \/ Adopt(c) \/ Succeeds(c) \/ Fails(c) \/ Refused(c)
    BY <1>1, BeginInv, AdoptInv, SucceedsInv, FailsInv, RefusedInv
  <1>2. CASE \E p \in Process : Arrives(p) \/ Lost(p)
    BY <1>2, ArrivesInv, LostInv
  <1>3. CASE KeyExpires \/ Tick
    BY <1>3, KeyExpiresInv, TickInv
  <1>4. CASE UNCHANGED vars
    BY <1>4 DEF vars, calls, Inv, TypeOK, AllSound, OpenIsHeeded
  <1> QED BY <1>1, <1>2, <1>3, <1>4 DEF Next

-----------------------------------------------------------------------------
(* Theorems *)

LEMMA InvAlways == Spec => []Inv
  BY InitInv, StepInv, PTL DEF Spec

\* The state of the module keeps its types: no call has more attempts than it may.
THEOREM TypeIsKept == Spec => []TypeOK
  <1>1. Inv => TypeOK
    BY DEF Inv
  <1> QED BY <1>1, InvAlways, PTL

\* The circuits of all processes close a window after the last failure, whatever states
\* go round between them.
THEOREM OpeningsEnd == Spec => []OpeningIsBounded
  <1>1. Inv => OpeningIsBounded
    BY DEF Inv, AllSound, Sound, OpeningIsBounded, Bounded
  <1> QED BY <1>1, InvAlways, PTL

\* A call that reads an open circuit in Redis sends nothing while it is open.
THEOREM OpenStopsCalls == Spec => []OpenIsHeeded
  <1>1. Inv => OpenIsHeeded
    BY DEF Inv
  <1> QED BY <1>1, InvAlways, PTL
===============================================================================
