--------------------------- MODULE OutboundProofs ---------------------------
(***************************************************************************)
(* The requests that leave the program: those to a model's provider, and   *)
(* those to an MCP server.                                                 *)
(*                                                                         *)
(* CircuitBreaker, for every set of providers and streams and every        *)
(* threshold, cooldown, TTL and retry count: the breaker is type correct, a*)
(* half-open phase lets one request through, a trip keeps the provider     *)
(* quiet for the cooldown unless a success comes in after it, and a closed *)
(* breaker opens on failures that no success has come after.               *)
(*                                                                         *)
(* McpCalls, whatever the calls, processes and stops: Matched and Heard are*)
(* invariants.  The inductive invariant has two halves.  Sound says that a *)
(* request is the only one of its number while it is anywhere between the  *)
(* call and the answer, that it is registered only while its call is at it,*)
(* and that a future is open only while its request is registered.         *)
(* Listening says who starts the server, which is who has the start lock,  *)
(* and that the reader is fed by a thread or is about to be told of the    *)
(* end.                                                                    *)
(***************************************************************************)
EXTENDS CircuitBreaker, McpCalls, FiniteSetTheorems, TLAPS

-----------------------------------------------------------------------------
(* The circuit breaker.                                                    *)

\* RecordSuccess, also the body of reset, keeps the breaker's types.
LEMMA RecordSuccessType ==
  ASSUME TypeOK, NEW p \in Providers, RecordSuccess(p)
  PROVE  /\ state' \in [Providers -> States]
         /\ failures' \in [Providers -> [Ages -> Nat]]
         /\ openAge' \in [Providers -> 0 .. Cooldown]
         /\ inFlight' \in [Providers -> BOOLEAN]
  BY BreakerAssumption DEF TypeOK, RecordSuccess, States, Ages

\* So does RecordFailure, whether or not it trips the breaker.
LEMMA RecordFailureType ==
  ASSUME TypeOK, NEW p \in Providers, RecordFailure(p)
  PROVE  /\ state' \in [Providers -> States]
         /\ failures' \in [Providers -> [Ages -> Nat]]
         /\ openAge' \in [Providers -> 0 .. Cooldown]
         /\ inFlight' \in [Providers -> BOOLEAN]
  <1> DEFINE counted == [failures[p] EXCEPT ![0] = @ + 1]
  <1>1. counted \in [Ages -> Nat]
    BY BreakerAssumption DEF TypeOK, Ages
  <1>2. Trip(p) => /\ state' \in [Providers -> States]
                   /\ openAge' \in [Providers -> 0 .. Cooldown]
                   /\ inFlight' \in [Providers -> BOOLEAN]
    BY BreakerAssumption DEF TypeOK, Trip, States
  <1>3. UNCHANGED <<state, openAge, inFlight>> =>
                   /\ state' \in [Providers -> States]
                   /\ openAge' \in [Providers -> 0 .. Cooldown]
                   /\ inFlight' \in [Providers -> BOOLEAN]
    BY DEF TypeOK
  <1>4. CASE SeenState(p) = "HALF_OPEN"
    BY <1>2, <1>4 DEF RecordFailure, TypeOK
  <1>5. CASE SeenState(p) # "HALF_OPEN"
    <2>1. failures' = [failures EXCEPT ![p] = counted]
      BY <1>5 DEF RecordFailure
    <2>2. failures' \in [Providers -> [Ages -> Nat]]
      BY <1>1, <2>1 DEF TypeOK
    <2>3. Trip(p) \/ UNCHANGED <<state, openAge, inFlight>>
      BY <1>5 DEF RecordFailure
    <2> QED BY <1>2, <1>3, <2>2, <2>3
  <1> QED BY <1>4, <1>5

\* A read of the state stores a state.
LEMMA SeenStateType ==
  ASSUME TypeOK, NEW p \in Providers
  PROVE  SeenState(p) \in States /\ SeenInFlight(p) \in BOOLEAN
  BY DEF TypeOK, SeenState, SeenInFlight, States

\* Every step keeps the type invariant; Resume needs the retry budget for it.
LEMMA TypeStep == TypeOK /\ RetryBudget /\ [BreakerNext]_breakerVars => TypeOK'
  <1> SUFFICES ASSUME TypeOK, RetryBudget, [BreakerNext]_breakerVars PROVE TypeOK'
    OBVIOUS
  <1> USE BreakerAssumption
  <1>1. ASSUME NEW s \in Streams, NEW p \in Providers, Start(s, p)
        PROVE  TypeOK'
    <2>1. state' \in [Providers -> States] /\ inFlight' \in [Providers -> BOOLEAN]
      BY <1>1, SeenStateType DEF Start, TakeSlot, TypeOK
    <2>2. admitted' \in [Providers -> Nat]
      BY <1>1 DEF Start, TypeOK
    <2>3. /\ pc' \in [Streams -> Phases]
          /\ provider' \in [Streams -> Providers]
          /\ attempt' \in [Streams -> 1 .. (MaxRetries + 1)]
          /\ hinted' \in [Streams -> BOOLEAN]
      BY <1>1 DEF Start, TypeOK, Phases
    <2> QED BY <1>1, <2>1, <2>2, <2>3 DEF Start, TypeOK
  <1>2. ASSUME NEW s \in Streams, NEW p \in Providers, Refuse(s, p)
        PROVE  TypeOK'
    BY <1>2 DEF Refuse, TypeOK, Phases, breaker, breakerHistory
  <1>3. ASSUME NEW s \in Streams, ReadRemaining(s)
        PROVE  TypeOK'
    <2>1. provider[s] \in Providers
      BY DEF TypeOK
    <2>2. state' \in [Providers -> States] /\ inFlight' \in [Providers -> BOOLEAN]
      BY <1>3, <2>1, SeenStateType DEF ReadRemaining, ReadState, TypeOK
    <2>3. admitted' \in [Providers -> Nat] /\ pc' \in [Streams -> Phases]
      BY <1>3, <2>1 DEF ReadRemaining, TypeOK, Phases
    <2> QED BY <1>3, <2>2, <2>3 DEF ReadRemaining, TypeOK
  <1>4. ASSUME NEW s \in Streams, Retry(s)
        PROVE  TypeOK'
    BY <1>4 DEF Retry, TypeOK, Phases, breaker, breakerHistory
  <1>5. ASSUME NEW s \in Streams, Resume(s)
        PROVE  TypeOK'
    BY <1>5 DEF Resume, RetryBudget, TypeOK, Phases, breaker, breakerHistory
  <1>6. ASSUME NEW s \in Streams, Succeed(s)
        PROVE  TypeOK'
    <2>1. provider[s] \in Providers
      BY DEF TypeOK
    <2>2. /\ sinceOk' \in [Providers -> 0 .. Threshold]
          /\ sinceTrip' \in [Providers -> 0 .. Cooldown]
          /\ dropped' \in [Providers -> BOOLEAN]
          /\ pc' \in [Streams -> Phases]
      BY <1>6, <2>1 DEF Succeed, TypeOK, Phases
    <2> QED BY <1>6, <2>1, <2>2, RecordSuccessType DEF Succeed, TypeOK
  <1>7. ASSUME NEW s \in Streams, Fail(s)
        PROVE  TypeOK'
    <2>1. provider[s] \in Providers
      BY DEF TypeOK
    <2>2. /\ sinceOk' \in [Providers -> 0 .. Threshold]
          /\ sinceTrip' \in [Providers -> 0 .. Cooldown]
          /\ dropped' \in [Providers -> BOOLEAN]
          /\ pc' \in [Streams -> Phases]
      BY <1>7, <2>1 DEF Fail, TypeOK, Phases, Capped
    <2> QED BY <1>7, <2>1, <2>2, RecordFailureType DEF Fail, TypeOK
  <1>8. ASSUME NEW s \in Streams, CancelStream(s)
        PROVE  TypeOK'
    <2>1. provider[s] \in Providers
      BY DEF TypeOK
    <2>2. dropped' \in [Providers -> BOOLEAN]
      BY <1>8, <2>1 DEF CancelStream, TypeOK
    <2> QED BY <1>8, <2>2 DEF CancelStream, TypeOK, Phases, breaker
  <1>9. ASSUME NEW p \in Providers, Reset(p)
        PROVE  TypeOK'
    <2>1. /\ sinceOk' \in [Providers -> 0 .. Threshold]
          /\ sinceTrip' \in [Providers -> 0 .. Cooldown]
          /\ dropped' \in [Providers -> BOOLEAN]
      BY <1>9 DEF Reset, TypeOK
    <2> QED BY <1>9, <2>1, RecordSuccessType DEF Reset, TypeOK, stream
  <1>10. ASSUME Tick
         PROVE  TypeOK'
    <2>1. ASSUME NEW p \in Providers
          PROVE  [a \in Ages |-> IF a = 0 THEN 0 ELSE failures[p][a - 1]]
                   \in [Ages -> Nat]
      BY DEF TypeOK, Ages
    <2>2. failures' \in [Providers -> [Ages -> Nat]]
      BY <1>10, <2>1 DEF Tick
    <2>3. openAge' \in [Providers -> 0 .. Cooldown]
      BY <1>10 DEF Tick, TypeOK
    <2>4. sinceTrip' \in [Providers -> 0 .. Cooldown]
      BY <1>10 DEF Tick, TypeOK
    <2> QED BY <1>10, <2>2, <2>3, <2>4 DEF Tick, TypeOK, stream
  <1>11. CASE UNCHANGED breakerVars
    BY <1>11 DEF TypeOK, breakerVars, breaker, stream, breakerHistory
  <1>12. ASSUME NEW s \in Streams, RetryWithHints(s)
         PROVE  TypeOK'
    <2>1. attempt[s] <= MaxRetries
      BY <1>12 DEF RetryWithHints, RetryBudget, TypeOK
    <2>2. attempt' \in [Streams -> 1 .. (MaxRetries + 1)]
      BY <1>12, <2>1 DEF RetryWithHints, TypeOK
    <2>3. hinted' \in [Streams -> BOOLEAN]
      BY <1>12 DEF RetryWithHints, TypeOK
    <2> QED BY <1>12, <2>2, <2>3 DEF RetryWithHints, TypeOK, breaker, breakerHistory
  <1> QED
    BY <1>1, <1>2, <1>3, <1>4, <1>5, <1>6, <1>7, <1>8, <1>9, <1>10, <1>11, <1>12
    DEF BreakerNext, Proceed

\* Every step keeps the retry budget.
LEMMA RetryBudgetStep == TypeOK /\ RetryBudget /\ [BreakerNext]_breakerVars => RetryBudget'
  <1> SUFFICES ASSUME TypeOK, RetryBudget, [BreakerNext]_breakerVars, NEW r \in Streams
               PROVE  /\ pc'[r] = "backoff" => attempt'[r] < MaxRetries
                      /\ attempt'[r] > MaxRetries => hinted'[r] = TRUE
    BY DEF RetryBudget
  <1> DEFINE Budget == /\ pc[r] = "backoff" => attempt[r] < MaxRetries
                       /\ attempt[r] > MaxRetries => hinted[r] = TRUE
  <1> USE BreakerAssumption DEF TypeOK
  <1>1. Budget
    BY DEF RetryBudget
  <1>2. ASSUME NEW s \in Streams, NEW p \in Providers, Start(s, p) \/ Refuse(s, p)
        PROVE  Budget'
    BY <1>1, <1>2 DEF Start, Refuse
  <1>3. ASSUME NEW s \in Streams, Retry(s)
        PROVE  Budget'
    <2>1. attempt'[r] = attempt[r] /\ hinted'[r] = hinted[r]
      BY <1>3 DEF Retry
    <2>2. pc'[r] = "backoff" => attempt[r] < MaxRetries
      BY <1>1, <1>3 DEF Retry
    <2> QED BY <1>1, <2>1, <2>2
  <1>8. ASSUME NEW s \in Streams, Resume(s)
        PROVE  Budget'
    <2>1. CASE s = r
      <3>1. pc'[r] = "attempting" /\ attempt'[r] <= MaxRetries
        BY <1>1, <1>8, <2>1 DEF Resume
      <3>2. ~ (attempt'[r] > MaxRetries) /\ pc'[r] # "backoff"
        BY <3>1, <1>8, <2>1 DEF Resume
      <3> QED BY ONLY <3>2, Zenon
    <2>2. CASE s # r
      <3>1. attempt'[r] = attempt[r] /\ hinted'[r] = hinted[r] /\ pc'[r] = pc[r]
        BY <1>8, <2>2 DEF Resume
      <3> QED BY <1>1, <3>1
    <2> QED BY <2>1, <2>2
  <1>9. ASSUME NEW s \in Streams,
               Succeed(s) \/ Fail(s) \/ ReadRemaining(s) \/ CancelStream(s)
        PROVE  Budget'
    <2>1. /\ attempt' = attempt
          /\ hinted' = hinted
          /\ pc' = [pc EXCEPT ![s] = "idle"]
      BY <1>9 DEF Succeed, Fail, ReadRemaining, CancelStream
    <2>2. pc'[r] = "backoff" => pc[r] = "backoff"
      BY <2>1
    <2> QED BY <1>1, <2>1, <2>2
  <1>4. ASSUME NEW s \in Streams, RetryWithHints(s)
        PROVE  Budget'
    <2>1. CASE s = r
      BY <1>4, <2>1 DEF RetryWithHints
    <2>2. CASE s # r
      BY <1>1, <1>4, <2>2 DEF RetryWithHints
    <2> QED BY <2>1, <2>2
  <1>5. ASSUME UNCHANGED stream
        PROVE  Budget'
    BY <1>1, <1>5 DEF stream
  <1>6. ASSUME NEW p \in Providers, Reset(p)
        PROVE  UNCHANGED stream
    BY <1>6 DEF Reset
  <1>7. ASSUME Tick \/ UNCHANGED breakerVars
        PROVE  UNCHANGED stream
    BY <1>7 DEF Tick, breakerVars
  <1> QED
    BY <1>2, <1>3, <1>4, <1>5, <1>6, <1>7, <1>8, <1>9 DEF BreakerNext, Proceed

\* Retries stay within MaxRetries, in every behaviour, and with them the types.
THEOREM TypeCorrect == BreakerSpec => [](TypeOK /\ RetryBudget)
  <1>1. BreakerInit => TypeOK /\ RetryBudget
    BY BreakerAssumption DEF BreakerInit, TypeOK, RetryBudget, States, Ages, Phases
  <1> QED BY <1>1, TypeStep, RetryBudgetStep, PTL DEF BreakerSpec

\* The probe slot: an inductive form of SingleProbe needs only the types.
LEMMA SingleProbeStep == TypeOK /\ SingleProbe /\ [BreakerNext]_breakerVars => SingleProbe'
  <1> SUFFICES ASSUME TypeOK, SingleProbe, [BreakerNext]_breakerVars,
                      NEW q \in Providers, state'[q] = "HALF_OPEN"
               PROVE  admitted'[q] <= 1 /\ (admitted'[q] = 1 => inFlight'[q])
    BY DEF SingleProbe
  <1> USE BreakerAssumption DEF TypeOK
  <1>1. state[q] = "HALF_OPEN" =>
          admitted[q] <= 1 /\ (admitted[q] = 1 => inFlight[q])
    BY DEF SingleProbe
  <1>2. ASSUME NEW s \in Streams, NEW p \in Providers, Start(s, p)
        PROVE  admitted'[q] <= 1 /\ (admitted'[q] = 1 => inFlight'[q])
    <2>1. CASE p # q
      BY <1>1, <1>2, <2>1 DEF Start, TakeSlot
    <2>2. CASE p = q
      <3>1. SeenState(q) = "HALF_OPEN" /\ ~ SeenInFlight(q)
        BY <1>2, <2>2 DEF Start, TakeSlot, Allows
      <3>2. inFlight'[q] = TRUE
        BY <1>2, <2>2, <3>1 DEF Start, TakeSlot
      <3>3. admitted'[q] = IF CooledDown(q) THEN 1 ELSE admitted[q] + 1
        BY <1>2, <2>2, <3>1 DEF Start
      <3>4. CASE CooledDown(q)
        BY <3>2, <3>3, <3>4
      <3>5. CASE ~ CooledDown(q)
        <4>1. state[q] = "HALF_OPEN" /\ ~ inFlight[q]
          BY <3>1, <3>5 DEF SeenState, SeenInFlight
        <4>2. admitted[q] # 1
          BY ONLY <4>1, <1>1, Zenon
        <4>3. admitted[q] <= 1 /\ admitted[q] \in Nat
          BY <4>1, <1>1
        <4>4. admitted'[q] = admitted[q] + 1
          BY ONLY <3>3, <3>5, Zenon
        <4>5. admitted[q] = 0
          BY ONLY <4>2, <4>3
        <4> QED BY ONLY <3>2, <4>4, <4>5
      <3> QED BY <3>4, <3>5
    <2> QED BY <2>1, <2>2
  <1>3. ASSUME NEW s \in Streams, ReadRemaining(s)
        PROVE  admitted'[q] <= 1 /\ (admitted'[q] = 1 => inFlight'[q])
    BY <1>1, <1>3 DEF ReadRemaining, ReadState, SeenState, SeenInFlight, CooledDown
  <1>4. ASSUME NEW s \in Streams, Succeed(s)
        PROVE  admitted'[q] <= 1 /\ (admitted'[q] = 1 => inFlight'[q])
    BY <1>1, <1>4 DEF Succeed, RecordSuccess
  <1>5. ASSUME NEW s \in Streams, Fail(s)
        PROVE  admitted'[q] <= 1 /\ (admitted'[q] = 1 => inFlight'[q])
    BY <1>1, <1>5 DEF Fail, RecordFailure, Trip
  <1>6. ASSUME NEW p \in Providers, Reset(p)
        PROVE  admitted'[q] <= 1 /\ (admitted'[q] = 1 => inFlight'[q])
    BY <1>1, <1>6 DEF Reset, RecordSuccess
  <1>7. ASSUME UNCHANGED <<state, inFlight, admitted>>
        PROVE  admitted'[q] <= 1 /\ (admitted'[q] = 1 => inFlight'[q])
    BY <1>1, <1>7
  <1>8. ASSUME NEW s \in Streams, NEW p \in Providers, Refuse(s, p)
        PROVE  UNCHANGED <<state, inFlight, admitted>>
    BY <1>8 DEF Refuse, breaker, breakerHistory
  <1>9. ASSUME UNCHANGED breakerVars
        PROVE  UNCHANGED <<state, inFlight, admitted>>
    BY <1>9 DEF breakerVars, breaker, breakerHistory
  <1>10. ASSUME Tick
         PROVE  UNCHANGED <<state, inFlight, admitted>>
    BY <1>10 DEF Tick
  <1>11. ASSUME NEW s \in Streams,
               Retry(s) \/ Resume(s) \/ RetryWithHints(s) \/ CancelStream(s)
         PROVE  UNCHANGED <<state, inFlight, admitted>>
    BY <1>11 DEF Retry, Resume, RetryWithHints, CancelStream, breaker, breakerHistory
  <1> QED
    BY <1>2, <1>3, <1>4, <1>5, <1>6, <1>7, <1>8, <1>9, <1>10, <1>11
    DEF BreakerNext, Proceed

\* A half-open phase lets at most one request through.
THEOREM SingleProbeHolds == BreakerSpec => []SingleProbe
  <1>1. BreakerInit => SingleProbe
    BY DEF BreakerInit, SingleProbe
  <1> QED BY <1>1, SingleProbeStep, TypeCorrect, PTL DEF BreakerSpec

\* The stamp _opened_at is that of the latest trip while the breaker is open, and
\* a breaker that is not open has waited for its cooldown or heard of a success.
StampIsTrip ==
  \A p \in Providers :
    sinceTrip[p] = IF state[p] = "OPEN" THEN openAge[p] ELSE Cooldown

\* Every step keeps that: a late failure that opens the breaker again renews the
\* stamp, and an open breaker becomes half-open by age alone.
LEMMA StampStep == TypeOK /\ StampIsTrip /\ [BreakerNext]_breakerVars => StampIsTrip'
  <1> SUFFICES ASSUME TypeOK, StampIsTrip, [BreakerNext]_breakerVars, NEW q \in Providers
               PROVE  sinceTrip'[q] = IF state'[q] = "OPEN" THEN openAge'[q] ELSE Cooldown
    BY DEF StampIsTrip
  <1> DEFINE Stamp == sinceTrip[q] = IF state[q] = "OPEN" THEN openAge[q] ELSE Cooldown
  <1> USE BreakerAssumption DEF TypeOK
  <1>1. Stamp
    BY DEF StampIsTrip
  <1>2. ASSUME NEW p \in Providers, state' = [state EXCEPT ![p] = SeenState(p)],
               UNCHANGED <<openAge, sinceTrip>>
        PROVE  Stamp'
    <2>1. openAge[q] \in 0 .. Cooldown /\ state[q] \in States
      OBVIOUS
    <2>2. state'[q] = state[q] \/ (state'[q] = "HALF_OPEN" /\ CooledDown(q))
      BY <1>2, <2>1 DEF SeenState
    <2>3. CASE CooledDown(q) /\ state'[q] = "HALF_OPEN"
      <3>1. state[q] = "OPEN" /\ openAge[q] = Cooldown
        BY ONLY <2>1, <2>3, BreakerAssumption DEF CooledDown
      <3>2. sinceTrip[q] = Cooldown
        BY ONLY <1>1, <3>1
      <3>3. sinceTrip'[q] = Cooldown /\ state'[q] # "OPEN"
        BY ONLY <1>2, <2>3, <3>2
      <3> QED BY ONLY <3>3
    <2>4. CASE state'[q] = state[q]
      BY <1>1, <1>2, <2>4
    <2> QED BY <2>2, <2>3, <2>4
  <1>3. ASSUME NEW s \in Streams, NEW p \in Providers, Start(s, p)
        PROVE  Stamp'
    BY <1>2, <1>3 DEF Start, TakeSlot
  <1>4. ASSUME NEW s \in Streams, ReadRemaining(s)
        PROVE  Stamp'
    BY <1>2, <1>4 DEF ReadRemaining, ReadState
  <1>5. ASSUME NEW s \in Streams, Succeed(s)
        PROVE  Stamp'
    BY <1>1, <1>5 DEF Succeed, RecordSuccess
  <1>6. ASSUME NEW s \in Streams, Fail(s)
        PROVE  Stamp'
    <2> DEFINE p == provider[s]
    <2>1. p \in Providers
      OBVIOUS
    <2>2. CASE Trips(p)
      <3>1. Trip(p)
        BY <1>6, <2>2 DEF Fail, RecordFailure, Trips
      <3>2. sinceTrip' = [sinceTrip EXCEPT ![p] = 0]
        BY <1>6, <2>2 DEF Fail
      <3> QED BY <1>1, <2>1, <3>1, <3>2 DEF Trip
    <2>3. CASE ~ Trips(p)
      <3>1. UNCHANGED <<state, openAge, inFlight>>
        BY <1>6, <2>3 DEF Fail, RecordFailure, Trips
      <3>2. sinceTrip' = sinceTrip
        BY <1>6, <2>3 DEF Fail
      <3> QED BY <1>1, <3>1, <3>2
    <2> QED BY <2>2, <2>3
  <1>7. ASSUME NEW p \in Providers, Reset(p)
        PROVE  Stamp'
    BY <1>1, <1>7 DEF Reset, RecordSuccess
  <1>8. ASSUME Tick
        PROVE  Stamp'
    BY <1>1, <1>8 DEF Tick
  <1>9. ASSUME UNCHANGED <<state, openAge, sinceTrip>>
        PROVE  Stamp'
    BY <1>1, <1>9
  <1>10. ASSUME NEW s \in Streams, NEW p \in Providers, Refuse(s, p)
         PROVE  UNCHANGED <<state, openAge, sinceTrip>>
    BY <1>10 DEF Refuse, breaker, breakerHistory
  <1>11. ASSUME NEW s \in Streams,
               Retry(s) \/ Resume(s) \/ RetryWithHints(s) \/ CancelStream(s)
         PROVE  UNCHANGED <<state, openAge, sinceTrip>>
    BY <1>11 DEF Retry, Resume, RetryWithHints, CancelStream, breaker, breakerHistory
  <1>12. ASSUME UNCHANGED breakerVars
         PROVE  UNCHANGED <<state, openAge, sinceTrip>>
    BY <1>12 DEF breakerVars, breaker, breakerHistory
  <1> QED
    BY <1>3, <1>4, <1>5, <1>6, <1>7, <1>8, <1>9, <1>10, <1>11, <1>12
    DEF BreakerNext, Proceed

\* After a trip no request starts for Cooldown ticks, unless a success came in.
THEOREM CooldownHolds == BreakerSpec => CooldownIsQuiet
  <1> DEFINE Quiet(s) == pc[s] = "idle" /\ pc'[s] = "attempting" =>
                           sinceTrip[provider'[s]] = Cooldown
  <1>1. ASSUME TypeOK, StampIsTrip, [BreakerNext]_breakerVars, NEW s \in Streams,
               pc[s] = "idle", pc'[s] = "attempting"
        PROVE  sinceTrip[provider'[s]] = Cooldown
    <2> USE <1>1
    <2>1. PICK p \in Providers : Start(s, p)
      <3>1. ASSUME NEW r \in Streams, NEW p \in Providers, Start(r, p)
            PROVE  r = s
        BY <3>1 DEF Start, TypeOK
      <3>2. ASSUME NEW r \in Streams, NEW p \in Providers,
                   Refuse(r, p) \/ Proceed(r) \/ CancelStream(r)
            PROVE  FALSE
        BY <3>2 DEF Refuse, Proceed, Retry, Resume, RetryWithHints, Succeed,
                    Fail, ReadRemaining, CancelStream, TypeOK, Phases
      <3>3. ASSUME UNCHANGED pc PROVE FALSE
        BY <3>3
      <3>4. ASSUME Tick \/ UNCHANGED breakerVars PROVE UNCHANGED pc
        BY <3>4 DEF Tick, breakerVars, stream
      <3>5. ASSUME NEW p \in Providers, Reset(p) PROVE UNCHANGED pc
        BY <3>5 DEF Reset, stream
      <3>6. provider[s] \in Providers
        BY DEF TypeOK
      <3> QED BY <3>1, <3>2, <3>3, <3>4, <3>5, <3>6 DEF BreakerNext
    <2>2. provider'[s] = p /\ Allows(p)
      BY <2>1 DEF Start, TypeOK
    <2>3. state[p] # "OPEN" \/ openAge[p] = Cooldown
      <3>1. openAge[p] \in 0 .. Cooldown
        BY DEF TypeOK
      <3>2. state[p] # "OPEN" \/ CooledDown(p)
        BY <2>2 DEF Allows, SeenState
      <3> QED BY <3>1, <3>2, BreakerAssumption DEF CooledDown
    <2>4. sinceTrip[p] = IF state[p] = "OPEN" THEN openAge[p] ELSE Cooldown
      BY DEF StampIsTrip
    <2> QED BY <2>2, <2>3, <2>4
  <1>2. TypeOK /\ StampIsTrip /\ [BreakerNext]_breakerVars
          => [\A s \in Streams : Quiet(s)]_breakerVars
    BY <1>1
  <1>3. BreakerInit => StampIsTrip
    BY DEF BreakerInit, StampIsTrip
  <1> QED BY <1>2, <1>3, StampStep, TypeCorrect, PTL DEF BreakerSpec, CooldownIsQuiet

-----------------------------------------------------------------------------
(* The failures that are counted.                                          *)

\* Induction over the natural numbers, as a fact about a set: a number that is
\* missing from it would have a least one beside it, by the well-foundedness of
\* the intervals 1 .. n.
LEMMA SetInduction ==
  ASSUME NEW S, 0 \in S, \A n \in Nat : n \in S => n + 1 \in S
  PROVE  Nat \subseteq S
  <1> DEFINE Missing == Nat \ S
             T == {1 .. n : n \in Missing}
  <1> SUFFICES ASSUME Missing # {} PROVE FALSE
    OBVIOUS
  <1>1. T \subseteq FiniteSubsetsOf(Nat) /\ T # {}
    <2>1. ASSUME NEW n \in Missing PROVE 1 .. n \in SUBSET Nat /\ IsFiniteSet(1 .. n)
      <3>1. n \in Int /\ 1 \in Int
        OBVIOUS
      <3> QED BY <3>1, FS_Interval
    <2> QED BY <2>1 DEF FiniteSubsetsOf
  <1>2. PICK x \in T : \A y \in T : ~ (<<y, x>> \in StrictSubsetOrdering(Nat))
    BY <1>1, FS_StrictSubsetOrderingWellFounded, WFMin
  <1>3. PICK m \in Missing : x = 1 .. m
    BY <1>2
  <1>4. m - 1 \in Missing
    BY <1>3
  <1>5. 1 .. (m - 1) \in T /\ 1 .. (m - 1) \in SUBSET Nat /\ 1 .. m \in SUBSET Nat
    BY <1>4
  <1>6. 1 .. (m - 1) \subseteq 1 .. m /\ m \in 1 .. m /\ m \notin 1 .. (m - 1)
    BY <1>4
  <1>7. <<1 .. (m - 1), 1 .. m>> \in StrictSubsetOrdering(Nat)
    BY <1>5, <1>6 DEF StrictSubsetOrdering
  <1> QED BY <1>2, <1>3, <1>5, <1>7

\* g has, for each age, how many failures of f are as young.
IsSum(g, f, n) == g = [a \in 0 .. n |-> f[a] + IF a = 0 THEN 0 ELSE g[a - 1]]

\* There are such sums,
LEMMA SumExists == ASSUME NEW f, NEW n \in Nat PROVE \E g : IsSum(g, f, n)
  <1> DEFINE S == {m \in Nat : \E g : IsSum(g, f, m)}
  <1>1. 0 \in S
    <2>1. IsSum([a \in 0 .. 0 |-> f[a] + 0], f, 0)
      BY DEF IsSum
    <2> QED BY <2>1
  <1>2. ASSUME NEW m \in Nat, m \in S PROVE m + 1 \in S
    <2>1. PICK g : IsSum(g, f, m)
      BY <1>2
    <2> DEFINE h == [a \in 0 .. m + 1 |-> IF a = m + 1 THEN f[a] + g[m] ELSE g[a]]
    <2>2. \A a \in 0 .. m + 1 : h[a] = f[a] + IF a = 0 THEN 0 ELSE h[a - 1]
      BY <2>1 DEF IsSum
    <2>3. IsSum(h, f, m + 1)
      BY <2>2 DEF IsSum
    <2> QED BY <2>3
  <1> HIDE DEF S
  <1>3. n \in S
    BY <1>1, <1>2, SetInduction
  <1> QED BY <1>3 DEF S

\* and Count is the last of them.
LEMMA CountIsSum == ASSUME NEW f PROVE \E g : IsSum(g, f, Ttl) /\ Count(f) = g[Ttl]
  <1> DEFINE sum == CHOOSE g : IsSum(g, f, Ttl)
  <1>1. IsSum(sum, f, Ttl)
    BY SumExists, BreakerAssumption
  <1>2. Count(f) = sum[Ttl]
    BY DEF Count, IsSum, Ages
  <1> QED BY <1>1, <1>2

\* Failures as the breaker keeps them, and what becomes of them.
Stamps == [Ages -> Nat]
OneMore(f) == [f EXCEPT ![0] = @ + 1]
Older(f) == [a \in Ages |-> IF a = 0 THEN 0 ELSE f[a - 1]]

\* No failure is no failure.
LEMMA NoneCounted == Count([a \in Ages |-> 0]) = 0
  <1> DEFINE f == [a \in Ages |-> 0]
  <1>1. PICK g : IsSum(g, f, Ttl) /\ Count(f) = g[Ttl]
    BY CountIsSum
  <1> DEFINE S == {n \in Nat : n <= Ttl => g[n] = 0}
  <1>2. 0 \in S
    BY <1>1, BreakerAssumption DEF IsSum, Ages
  <1>3. ASSUME NEW n \in Nat, n \in S PROVE n + 1 \in S
    BY <1>1, <1>3, BreakerAssumption DEF IsSum, Ages
  <1> HIDE DEF S
  <1>4. Ttl \in S
    BY <1>2, <1>3, SetInduction, BreakerAssumption
  <1> QED BY <1>1, <1>4, BreakerAssumption DEF S

\* One failure more is counted as one, and as time passes their count does not
\* grow.
LEMMA Counted ==
  ASSUME NEW f \in Stamps
  PROVE  /\ Count(f) \in Nat
         /\ Count(OneMore(f)) = Count(f) + 1
         /\ Count(Older(f)) \in Nat /\ Count(Older(f)) <= Count(f)
  <1>1. PICK g : IsSum(g, f, Ttl) /\ Count(f) = g[Ttl]
    BY CountIsSum
  <1>2. PICK h : IsSum(h, OneMore(f), Ttl) /\ Count(OneMore(f)) = h[Ttl]
    BY CountIsSum
  <1>3. PICK k : IsSum(k, Older(f), Ttl) /\ Count(Older(f)) = k[Ttl]
    BY CountIsSum
  <1> DEFINE S == {n \in Nat : n <= Ttl => /\ g[n] \in Nat
                                           /\ h[n] = g[n] + 1
                                           /\ k[n] = IF n = 0 THEN 0 ELSE g[n - 1]}
  <1> USE BreakerAssumption DEF Ages, Stamps
  <1>4. 0 \in S
    BY <1>1, <1>2, <1>3 DEF IsSum, OneMore, Older
  <1>5. ASSUME NEW n \in Nat, n \in S, n + 1 <= Ttl PROVE n + 1 \in S
    <2>1. n \in 0 .. Ttl /\ n + 1 \in 0 .. Ttl /\ f[n + 1] \in Nat /\ f[n] \in Nat
      BY <1>5
    <2>2. g[n] \in Nat /\ h[n] = g[n] + 1 /\ k[n] = IF n = 0 THEN 0 ELSE g[n - 1]
      BY <1>5
    <2>3. g[n + 1] = f[n + 1] + g[n]
      BY <1>1, <2>1 DEF IsSum
    <2>4. h[n + 1] = f[n + 1] + h[n]
      BY <1>2, <2>1 DEF IsSum, OneMore
    <2>5. k[n + 1] = f[n] + k[n]
      BY <1>3, <2>1 DEF IsSum, Older
    <2>6. g[n] = f[n] + IF n = 0 THEN 0 ELSE g[n - 1]
      BY <1>1, <2>1 DEF IsSum
    <2>7. k[n + 1] = g[n]
      BY <2>2, <2>5, <2>6
    <2> QED BY <2>1, <2>2, <2>3, <2>4, <2>7
  <1>6. ASSUME NEW n \in Nat, n \in S PROVE n + 1 \in S
    BY <1>5, <1>6
  <1> HIDE DEF S
  <1>7. 0 .. Ttl \subseteq S
    <2>1. Nat \subseteq S
      BY <1>4, <1>6, SetInduction
    <2> QED BY <2>1
  <1>8. g[Ttl] \in Nat /\ h[Ttl] = g[Ttl] + 1 /\ k[Ttl] = IF Ttl = 0 THEN 0 ELSE g[Ttl - 1]
    BY <1>7 DEF S
  <1>9. Ttl # 0 => g[Ttl - 1] \in Nat /\ g[Ttl] = f[Ttl] + g[Ttl - 1] /\ f[Ttl] \in Nat
    <2> HAVE Ttl # 0
    <2>1. Ttl - 1 \in 0 .. Ttl /\ Ttl \in 0 .. Ttl
      OBVIOUS
    <2>2. g[Ttl - 1] \in Nat
      BY <1>7, <2>1 DEF S
    <2> QED BY <1>1, <2>1, <2>2 DEF IsSum
  <1> QED BY <1>1, <1>2, <1>3, <1>8, <1>9

\* What is counted has failed since the last success.
Fresh ==
  \A p \in Providers : Count(failures[p]) <= sinceOk[p] \/ sinceOk[p] = Threshold

\* A failure that is counted and trips the breaker makes the Threshold full.
LEMMA FailIsFresh ==
  ASSUME TypeOK, Fresh, NEW s \in Streams, Fail(s)
  PROVE  /\ Fresh'
         /\ \A p \in Providers :
              state[p] = "CLOSED" /\ state'[p] = "OPEN" => sinceOk'[p] = Threshold
  <1> DEFINE q == provider[s]
  <1> USE BreakerAssumption DEF TypeOK
  <1>1. /\ q \in Providers /\ failures[q] \in Stamps /\ sinceOk[q] \in 0 .. Threshold
        /\ Count(failures[q]) \in Nat
        /\ Count(OneMore(failures[q])) = Count(failures[q]) + 1
    BY Counted DEF Stamps
  <1>2. /\ sinceOk' = [sinceOk EXCEPT ![q] = Capped(@ + 1)]
        /\ RecordFailure(q)
    BY DEF Fail
  <1>3. /\ sinceOk'[q] \in Nat
        /\ \/ sinceOk'[q] = Threshold
           \/ Count(OneMore(failures[q])) <= sinceOk'[q] /\ sinceOk'[q] < Threshold
    <2>1. sinceOk'[q] = Capped(sinceOk[q] + 1)
      BY <1>1, <1>2
    <2>2. Count(failures[q]) <= sinceOk[q] \/ sinceOk[q] = Threshold
      BY <1>1 DEF Fresh
    <2> QED BY ONLY <1>1, <2>1, <2>2, BreakerAssumption DEF Capped
  <1>4. ASSUME NEW p \in Providers, p # q
        PROVE  /\ failures'[p] = failures[p] /\ sinceOk'[p] = sinceOk[p]
               /\ state'[p] = state[p]
    BY <1>2, <1>4 DEF RecordFailure, Trip
  <1>5. \/ failures'[q] = failures[q]
        \/ failures'[q] = OneMore(failures[q])
    BY <1>1, <1>2 DEF RecordFailure, OneMore
  <1>6. Count(failures'[q]) <= sinceOk'[q] \/ sinceOk'[q] = Threshold
    <2>1. CASE failures'[q] = failures[q]
      <3>1. Count(failures'[q]) = Count(failures[q])
        BY <2>1, Zenon
      <3> QED BY <1>1, <1>3, <3>1
    <2>2. CASE failures'[q] = OneMore(failures[q])
      <3>1. Count(failures'[q]) = Count(OneMore(failures[q]))
        BY <2>2
      <3> QED BY <1>3, <3>1
    <2> QED BY <1>5, <2>1, <2>2
  <1>7. ASSUME state[q] = "CLOSED", state'[q] = "OPEN" PROVE sinceOk'[q] = Threshold
    <2>1. Count(OneMore(failures[q])) >= Threshold
      <3>1. SeenState(q) # "HALF_OPEN" /\ state' # state
        BY <1>7 DEF SeenState, CooledDown
      <3>2. Count([failures[q] EXCEPT ![0] = @ + 1]) >= Threshold
        BY <1>2, <3>1, Zenon DEF RecordFailure
      <3> QED BY <3>2, Zenon DEF OneMore
    <2> QED BY <1>1, <1>3, <2>1
  <1>8. Fresh'
    BY <1>4, <1>6 DEF Fresh
  <1> QED BY <1>4, <1>7, <1>8

\* A success forgets the failures before it.
LEMMA SuccessIsFresh ==
  ASSUME TypeOK, Fresh, NEW p \in Providers, RecordSuccess(p),
         sinceOk' = [sinceOk EXCEPT ![p] = 0]
  PROVE  /\ Fresh'
         /\ \A q \in Providers : ~ (state[q] = "CLOSED" /\ state'[q] = "OPEN")
  <1> USE BreakerAssumption DEF TypeOK
  <1>1. failures'[p] = [a \in Ages |-> 0] /\ sinceOk'[p] = 0 /\ state'[p] = "CLOSED"
    BY DEF RecordSuccess
  <1>2. Count(failures'[p]) = 0
    BY <1>1, NoneCounted
  <1>3. ASSUME NEW q \in Providers, q # p
        PROVE  failures'[q] = failures[q] /\ sinceOk'[q] = sinceOk[q] /\ state'[q] = state[q]
    BY <1>3 DEF RecordSuccess
  <1>4. Fresh'
    BY <1>1, <1>2, <1>3 DEF Fresh
  <1> QED BY <1>1, <1>3, <1>4

\* Every step keeps what is counted fresh, and only a failure opens a closed breaker.
LEMMA FreshStep ==
  ASSUME TypeOK, Fresh, [BreakerNext]_breakerVars
  PROVE  /\ Fresh'
         /\ \A p \in Providers :
              state[p] = "CLOSED" /\ state'[p] = "OPEN" => sinceOk'[p] = Threshold
  <1> USE BreakerAssumption
  <1> DEFINE Goal == /\ Fresh'
                     /\ \A p \in Providers :
                          state[p] = "CLOSED" /\ state'[p] = "OPEN" => sinceOk'[p] = Threshold
  <1>1. ASSUME NEW s \in Streams, Fail(s) PROVE Goal
    BY <1>1, FailIsFresh
  <1>2. ASSUME NEW s \in Streams, Succeed(s) PROVE Goal
    <2>1. provider[s] \in Providers
      BY DEF TypeOK
    <2> QED BY <1>2, <2>1, SuccessIsFresh DEF Succeed
  <1>3. ASSUME NEW p \in Providers, Reset(p) PROVE Goal
    BY <1>3, SuccessIsFresh DEF Reset
  <1>4. CASE Tick
    <2>1. sinceOk' = sinceOk /\ state' = state
      BY <1>4 DEF Tick, breakerHistory
    <2>2. ASSUME NEW p \in Providers
          PROVE  /\ failures[p] \in Stamps /\ failures'[p] = Older(failures[p])
                 /\ sinceOk[p] \in 0 .. Threshold
      BY <1>4 DEF Tick, TypeOK, Stamps, Older
    <2>3. ASSUME NEW p \in Providers
          PROVE  Count(failures'[p]) <= sinceOk[p] \/ sinceOk[p] = Threshold
      BY <2>2, Counted DEF Fresh
    <2> QED BY <2>1, <2>3 DEF Fresh
  <1>5. ASSUME UNCHANGED <<failures, sinceOk>>,
               \A p \in Providers : state'[p] \in {state[p], "HALF_OPEN"}
        PROVE  Goal
    BY <1>5 DEF Fresh
  <1>6. ASSUME NEW s \in Streams, NEW p \in Providers, Start(s, p) \/ Refuse(s, p) PROVE Goal
    <2>1. UNCHANGED <<failures, sinceOk>>
      BY <1>6 DEF Start, Refuse, breaker, breakerHistory
    <2>2. \A q \in Providers : state'[q] \in {state[q], "HALF_OPEN"}
      BY <1>6 DEF Start, TakeSlot, Refuse, SeenState, breaker, TypeOK
    <2> QED BY <1>5, <2>1, <2>2
  <1>7. ASSUME NEW s \in Streams,
               Retry(s) \/ Resume(s) \/ RetryWithHints(s) \/ CancelStream(s) \/ ReadRemaining(s)
        PROVE  Goal
    <2>1. UNCHANGED <<failures, sinceOk>>
      BY <1>7 DEF Retry, Resume, RetryWithHints, CancelStream, ReadRemaining, breaker, breakerHistory
    <2>2. \A q \in Providers : state'[q] \in {state[q], "HALF_OPEN"}
      BY <1>7 DEF Retry, Resume, RetryWithHints, CancelStream, ReadRemaining, ReadState,
                  SeenState, breaker, TypeOK
    <2> QED BY <1>5, <2>1, <2>2
  <1>8. CASE UNCHANGED breakerVars
    BY <1>5, <1>8 DEF breakerVars, breaker, breakerHistory
  <1> QED
    BY <1>1, <1>2, <1>3, <1>4, <1>6, <1>7, <1>8 DEF BreakerNext, Proceed

\* A closed breaker opens only on failures that no success has come after,
\* however old they are and whoever reports them.
THEOREM TripsHold == BreakerSpec => TripsOnFreshFailures
  <1>1. BreakerInit => Fresh
    <2> SUFFICES ASSUME BreakerInit, NEW p \in Providers
                 PROVE  Count(failures[p]) <= sinceOk[p]
      BY DEF Fresh
    <2>1. failures[p] = [a \in Ages |-> 0] /\ sinceOk[p] = 0
      BY DEF BreakerInit
    <2>2. Count(failures[p]) = 0
      BY <2>1, NoneCounted
    <2> QED BY <2>1, <2>2
  <1>2. TypeOK /\ Fresh /\ [BreakerNext]_breakerVars =>
          [\A p \in Providers :
             state[p] = "CLOSED" /\ state'[p] = "OPEN" => sinceOk'[p] = Threshold]_breakerVars
    BY FreshStep
  <1>3. TypeOK /\ Fresh /\ [BreakerNext]_breakerVars => Fresh'
    BY FreshStep
  <1> QED BY <1>1, <1>2, <1>3, TypeCorrect, PTL DEF BreakerSpec, TripsOnFreshFailures

-----------------------------------------------------------------------------
(* Requests to an MCP server.                                              *)

\* Requests that have been sent, and what a call, an answer or none may name.
Req == [by : Calls, kind : {"init", "call"}, id : Nat \ {0}]
AnyReq == [by : Calls \cup {None}, kind : {"none", "init", "call"}, id : Nat]
Records ==
    [pc : {"idle", "starting", "spawning", "locking", "writing", "waiting", "done"},
     req : AnyReq, fut : {"none", "open", "answered", "failed"}, got : AnyReq,
     ack : {"none", "ok", "failed"}]

USE CallsAssumption DEF Procs, serverVars, readVars, stopVars, history

-----------------------------------------------------------------------------
(* Sequences and the sets of their elements.                               *)

\* A queue holds its head and what its tail holds.
LEMMA TailSet ==
  ASSUME NEW S, NEW q \in Seq(S), q # <<>>
  PROVE  /\ Tail(q) \in Seq(S) /\ Head(q) \in S /\ Head(q) \in ToSet(q)
         /\ ToSet(q) = ToSet(Tail(q)) \cup {Head(q)}
<1>1. /\ Len(q) \in Nat \ {0} /\ DOMAIN q = 1 .. Len(q) /\ DOMAIN Tail(q) = 1 .. Len(q) - 1
      /\ Tail(q) \in Seq(S) /\ Head(q) = q[1]
      /\ \A i \in 1 .. Len(q) - 1 : Tail(q)[i] = q[i + 1]
      /\ \A i \in 1 .. Len(q) : q[i] \in S
  OBVIOUS
<1>2. ASSUME NEW x \in ToSet(q), x # Head(q) PROVE x \in ToSet(Tail(q))
  <2>1. PICK i \in 1 .. Len(q) : x = q[i]
    BY <1>1 DEF ToSet
  <2>2. i - 1 \in 1 .. Len(q) - 1 /\ Tail(q)[i - 1] = x
    BY <1>1, <1>2, <2>1
  <2> QED
    BY <1>1, <2>2 DEF ToSet
<1>3. ASSUME NEW x \in ToSet(Tail(q)) PROVE x \in ToSet(q)
  BY <1>1 DEF ToSet
<1>4. Head(q) \in ToSet(q)
  BY <1>1 DEF ToSet
<1> QED
  BY <1>1, <1>2, <1>3, <1>4

\* An appended element is added.
LEMMA AppendSet ==
  ASSUME NEW S, NEW q \in Seq(S), NEW x \in S
  PROVE  Append(q, x) \in Seq(S) /\ ToSet(Append(q, x)) = ToSet(q) \cup {x}
<1>1. /\ Len(q) \in Nat /\ DOMAIN q = 1 .. Len(q) /\ DOMAIN Append(q, x) = 1 .. Len(q) + 1
      /\ Append(q, x) \in Seq(S) /\ Append(q, x)[Len(q) + 1] = x
      /\ \A i \in 1 .. Len(q) : Append(q, x)[i] = q[i]
  OBVIOUS
<1>2. ASSUME NEW y \in ToSet(q) PROVE y \in ToSet(Append(q, x))
  BY <1>1 DEF ToSet
<1>3. ASSUME NEW y \in ToSet(Append(q, x)), y # x PROVE y \in ToSet(q)
  BY <1>1, <1>3 DEF ToSet
<1>4. x \in ToSet(Append(q, x))
  BY <1>1 DEF ToSet
<1> QED
  BY <1>1, <1>2, <1>3, <1>4

\* A concatenation holds what its parts hold.
LEMMA ConcatSet ==
  ASSUME NEW S, NEW q \in Seq(S), NEW r \in Seq(S)
  PROVE  q \o r \in Seq(S) /\ ToSet(q \o r) = ToSet(q) \cup ToSet(r)
<1>1. /\ Len(q) \in Nat /\ Len(r) \in Nat /\ DOMAIN q = 1 .. Len(q) /\ DOMAIN r = 1 .. Len(r)
      /\ q \o r \in Seq(S) /\ DOMAIN (q \o r) = 1 .. Len(q) + Len(r)
      /\ \A i \in 1 .. Len(q) : (q \o r)[i] = q[i]
      /\ \A i \in 1 .. Len(q) + Len(r) : i > Len(q) => (q \o r)[i] = r[i - Len(q)]
  OBVIOUS
<1>2. ASSUME NEW y \in ToSet(q) PROVE y \in ToSet(q \o r)
  BY <1>1 DEF ToSet
<1>3. ASSUME NEW y \in ToSet(r) PROVE y \in ToSet(q \o r)
  <2>1. PICK i \in 1 .. Len(r) : y = r[i]
    BY <1>1 DEF ToSet
  <2>2. Len(q) + i \in 1 .. Len(q) + Len(r) /\ (q \o r)[Len(q) + i] = y
    BY <1>1, <2>1
  <2> QED
    BY <1>1, <2>2 DEF ToSet
<1>4. ASSUME NEW y \in ToSet(q \o r) PROVE y \in ToSet(q) \cup ToSet(r)
  <2>1. PICK i \in 1 .. Len(q) + Len(r) : y = (q \o r)[i]
    BY <1>1 DEF ToSet
  <2>2. CASE i <= Len(q)
    BY <1>1, <2>1, <2>2 DEF ToSet
  <2>3. CASE i > Len(q)
    <3>1. i - Len(q) \in 1 .. Len(r) /\ y = r[i - Len(q)]
      BY <1>1, <2>1, <2>3
    <3> QED
      BY <1>1, <3>1 DEF ToSet
  <2> QED
    BY <1>1, <2>2, <2>3
<1> QED
  BY <1>1, <1>2, <1>3, <1>4

-----------------------------------------------------------------------------
(* What the requests keep to.                                              *)

RequestsOK ==
    /\ nextId \in Nat
    /\ pending \subseteq Req
    /\ inbox \in [Procs -> SUBSET Req] /\ outbox \in [Procs -> Seq(Req)]
    /\ lines \in Seq(Req \cup {Eof}) /\ writes \in Seq(Req)
    /\ call \in [Calls -> Records]

\* The request waits, is kept by a call, or is on its way there or back.
Flying(r) ==
    \/ r \in pending
    \/ \E c \in Calls : call[c].fut # "none" /\ call[c].req = r
    \/ \E p \in Procs : r \in inbox[p] \/ r \in ToSet(outbox[p])
    \/ r \in ToSet(lines) \/ r \in ToSet(writes)

\* An id has been given to one request only.
Numbered ==
    /\ \A r \in Req : Flying(r) => r.id <= nextId
    /\ \A q, r \in Req : Flying(q) /\ Flying(r) /\ q.id = r.id => q = r

Sent(c) == call[c].pc \in {"writing", "waiting"}

\* What is registered belongs to a call that waits, but for leaked handshakes.
Owned == \A r \in pending : r \in leaked \/ \E c \in Calls : Sent(c) /\ call[c].req = r

\* The future of a call: there is one when its request is sent, it is open only
\* while it is registered, and it is answered by the answer.
Future(c) ==
    /\ call[c].fut # "none" <=> Sent(c)
    /\ IF Sent(c) THEN call[c].req \in Req /\ call[c].req.by = c ELSE call[c].req.id = 0
    /\ call[c].fut = "open" => call[c].req \in pending
    /\ call[c].fut = "answered" => call[c].req \notin pending /\ call[c].got = call[c].req
    /\ call[c].pc = "locking" => Kind(c) \in {"init", "call"}

Sound == RequestsOK /\ Numbered /\ Owned /\ \A c \in Calls : Future(c)

\* Requests that are gone leave the numbers of the others apart.
LEMMA FewerNumbered ==
  ASSUME Numbered, UNCHANGED nextId, \A r \in Req : Flying(r)' => Flying(r)
  PROVE  Numbered'
BY DEF Numbered

\* The new number is above those in flight.
LEMMA OneMoreNumbered ==
  ASSUME Numbered, nextId \in Nat, nextId' = nextId + 1, NEW new \in Req, new.id = nextId + 1,
         \A r \in Req : Flying(r)' => Flying(r) \/ r = new
  PROVE  Numbered'
<1>1. \A r \in Req : Flying(r)' => r.id <= nextId + 1 /\ (Flying(r) => r.id <= nextId)
  BY DEF Numbered, Req
<1>2. ASSUME NEW q \in Req, NEW r \in Req, Flying(q)', Flying(r)', q.id = r.id PROVE q = r
  <2>1. \A s \in Req : s.id \in Nat
    BY DEF Req
  <2>2. CASE Flying(q) /\ Flying(r)
    BY <1>2, <2>2 DEF Numbered
  <2>3. CASE ~Flying(q) \/ ~Flying(r)
    <3>1. ~(Flying(q) /\ r = new) /\ ~(Flying(r) /\ q = new)
      BY <1>1, <1>2, <2>1
    <3> QED
      BY <1>2, <2>3, <3>1
  <2> QED
    BY <2>2, <2>3
<1> QED
  BY <1>1, <1>2 DEF Numbered

\* Nothing of a call changes but that its future fails or its write is acknowledged.
Quiet(c) ==
    /\ call'[c].pc = call[c].pc /\ call'[c].req = call[c].req /\ call'[c].got = call[c].got
    /\ \/ call'[c].fut = call[c].fut
       \/ call[c].fut = "open" /\ call'[c].fut = "failed"

\* Its future has failed, if it was open.
Closed(c) == Quiet(c) /\ call'[c].fut # "open"

\* The call is over, or has not sent anything.
Unsent(c) ==
    /\ ~Sent(c)' /\ call'[c].fut = "none" /\ call'[c].req.id = 0
    /\ call'[c].pc = "locking" => Kind(c)' \in {"init", "call"}

\* A call that is left alone keeps its future, if what is registered fits it.
LEMMA QuietFuture ==
  ASSUME NEW c \in Calls, Future(c), Quiet(c),
         call'[c].fut = "open" => call[c].req \in pending',
         call'[c].fut = "answered" => call[c].req \notin pending'
  PROVE  Future(c)'
BY DEF Future, Quiet, Sent, Kind

\* A call that has sent nothing has no future.
LEMMA UnsentFuture == ASSUME NEW c \in Calls, Unsent(c) PROVE Future(c)'
BY DEF Future, Unsent, Sent

\* _fail_pending_futures leaves no future open.
LEMMA FailedCloses ==
  ASSUME RequestsOK, \A c \in Calls : Future(c)
  PROVE  /\ Failed(call) \in [Calls -> Records]
         /\ \A c \in Calls : /\ Failed(call)[c].pc = call[c].pc /\ Failed(call)[c].req = call[c].req
                             /\ Failed(call)[c].got = call[c].got /\ Failed(call)[c].ack = call[c].ack
                             /\ Failed(call)[c].fut = IF call[c].fut = "open" THEN "failed" ELSE call[c].fut
<1> DEFINE F(c) == IF call[c].req \in pending /\ call[c].fut = "open"
                   THEN [call[c] EXCEPT !.fut = "failed"] ELSE call[c]
<1>1. ASSUME NEW c \in Calls
      PROVE  /\ F(c) \in Records /\ F(c).pc = call[c].pc /\ F(c).req = call[c].req
             /\ F(c).got = call[c].got /\ F(c).ack = call[c].ack
             /\ F(c).fut = IF call[c].fut = "open" THEN "failed" ELSE call[c].fut
  BY DEF RequestsOK, Future, Records
<1>2. Failed(call) = [c \in Calls |-> F(c)]
  BY DEF Failed
<1> HIDE DEF F
<1> QED
  BY <1>1, <1>2

-----------------------------------------------------------------------------
(* Every step keeps the requests sound.                                    *)

\* No request has been sent yet.
LEMMA InitSound == Init => Sound
<1> SUFFICES ASSUME Init PROVE Sound
  OBVIOUS
<1>1. RequestsOK
  BY DEF Init, RequestsOK, Records, AnyReq, Idle, NoRequest, Request
<1>2. Numbered
  BY DEF Init, Numbered, Flying, Idle, ToSet
<1>3. Owned /\ \A c \in Calls : Future(c)
  BY DEF Init, Owned, Future, Sent, Idle, NoRequest, Request
<1> QED
  BY <1>1, <1>2, <1>3 DEF Sound

\* A thread hands on what it reads, or the end.
LEMMA ThreadSound ==
  ASSUME Sound, NEW p \in Procs, ThreadReads(p) \/ ThreadEnds(p) PROVE Sound'
<1>0. RequestsOK /\ Numbered /\ Owned /\ \A c \in Calls : Future(c)
  BY DEF Sound
<1>1. PICK items \in Seq(Req \cup {Eof}) :
        /\ Delivered(items)
        /\ \A r \in Req : r \in ToSet(items) => r \in ToSet(outbox[p])
        /\ outbox' \in [Procs -> Seq(Req)]
        /\ \A q \in Procs : ToSet(outbox'[q]) \subseteq ToSet(outbox[q])
  <2>1. CASE ThreadReads(p)
    <3>1. /\ Head(outbox[p]) \in Req /\ Head(outbox[p]) \in ToSet(outbox[p])
          /\ Tail(outbox[p]) \in Seq(Req)
          /\ ToSet(Tail(outbox[p])) \subseteq ToSet(outbox[p])
      BY <1>0, <2>1, TailSet DEF RequestsOK, ThreadReads
    <3>2. /\ outbox' \in [Procs -> Seq(Req)]
          /\ \A q \in Procs : ToSet(outbox'[q]) \subseteq ToSet(outbox[q])
      BY <1>0, <2>1, <3>1 DEF RequestsOK, ThreadReads
    <3>3. Eof \notin Req
      BY DEF Eof, Request, Req
    <3>4. /\ <<Head(outbox[p])>> \in Seq(Req \cup {Eof})
          /\ <<Head(outbox[p]), Eof>> \in Seq(Req \cup {Eof})
          /\ ToSet(<<Head(outbox[p])>>) = {Head(outbox[p])}
          /\ ToSet(<<Head(outbox[p]), Eof>>) = {Head(outbox[p]), Eof}
      BY <3>1 DEF ToSet
    <3>5. Delivered(<<Head(outbox[p])>>) \/ Delivered(<<Head(outbox[p]), Eof>>)
      BY <2>1 DEF ThreadReads
    <3> QED
      BY <3>1, <3>2, <3>3, <3>4, <3>5
  <2>2. CASE ThreadEnds(p)
    <3>1. <<Eof>> \in Seq(Req \cup {Eof}) /\ ToSet(<<Eof>>) = {Eof} /\ Eof \notin Req
      BY DEF ToSet, Eof, Request, Req
    <3> QED
      BY <1>0, <2>2, <3>1 DEF RequestsOK, ThreadEnds
  <2> QED
    BY <2>1, <2>2
<1>2. /\ lines' \in Seq(Req \cup {Eof})
      /\ \A r \in Req : r \in ToSet(lines') => r \in ToSet(lines) \/ r \in ToSet(outbox[p])
  <2>1. lines' = lines \/ lines' = lines \o items
    BY <1>1 DEF Delivered
  <2>2. lines \in Seq(Req \cup {Eof})
    BY <1>0 DEF RequestsOK
  <2>3. /\ lines \o items \in Seq(Req \cup {Eof})
        /\ ToSet(lines \o items) = ToSet(lines) \cup ToSet(items)
    BY <2>2, ConcatSet
  <2> QED
    BY <1>1, <2>1, <2>2, <2>3
<1>3. UNCHANGED <<inbox, call, nextId, pending, writes, leaked>>
  BY DEF ThreadReads, ThreadEnds
<1>4. RequestsOK'
  BY <1>0, <1>1, <1>2, <1>3 DEF RequestsOK
<1>5. Numbered'
  <2>1. \A r \in Req : Flying(r)' => Flying(r)
    BY <1>1, <1>2, <1>3 DEF Flying
  <2> QED
    BY <1>0, <1>3, <2>1, FewerNumbered
<1>6. Owned' /\ \A c \in Calls : Future(c)'
  BY <1>0, <1>3 DEF Owned, Future, Sent, Kind
<1> QED
  BY <1>4, <1>5, <1>6 DEF Sound

\* The server answers a request it has read.
LEMMA AnswersSound ==
  ASSUME Sound, NEW p \in Procs, NEW r \in inbox[p], Answers(p, r) PROVE Sound'
<1>0. RequestsOK /\ Numbered /\ Owned /\ \A c \in Calls : Future(c)
  BY DEF Sound
<1>1. /\ inbox' \in [Procs -> SUBSET Req] /\ outbox' \in [Procs -> Seq(Req)]
      /\ \A q \in Procs : inbox'[q] \subseteq inbox[q]
      /\ \A q \in Procs : \A s \in ToSet(outbox'[q]) : s \in ToSet(outbox[q]) \/ s = r
  <2>1. r \in Req /\ outbox[p] \in Seq(Req)
    BY <1>0 DEF RequestsOK
  <2>2. /\ Append(outbox[p], r) \in Seq(Req)
        /\ ToSet(Append(outbox[p], r)) = ToSet(outbox[p]) \cup {r}
    BY <2>1, AppendSet
  <2> QED
    BY <1>0, <2>2 DEF RequestsOK, Answers
<1>2. UNCHANGED <<call, nextId, pending, writes, lines, leaked>>
  BY DEF Answers
<1>3. RequestsOK'
  BY <1>0, <1>1, <1>2 DEF RequestsOK
<1>4. Numbered'
  <2>1. \A s \in Req : Flying(s)' => Flying(s)
    BY <1>1, <1>2 DEF Flying
  <2> QED
    BY <1>0, <1>2, <2>1, FewerNumbered
<1>5. Owned' /\ \A c \in Calls : Future(c)'
  BY <1>0, <1>2 DEF Owned, Future, Sent, Kind
<1> QED
  BY <1>3, <1>4, <1>5 DEF Sound

\* The same requests.
LEMMA StillSound ==
  ASSUME Sound, UNCHANGED <<inbox, outbox, call, nextId, pending, writes, lines, leaked>>
  PROVE  Sound'
<1>1. RequestsOK'
  BY DEF Sound, RequestsOK
<1>2. Numbered'
  BY DEF Sound, Numbered, Flying
<1>3. Owned' /\ \A c \in Calls : Future(c)'
  BY DEF Sound, Owned, Future, Sent, Kind
<1> QED
  BY <1>1, <1>2, <1>3 DEF Sound

\* Every future is failed and nothing stays registered.
LEMMA AllFailSound ==
  ASSUME Sound, call' = Failed(call), pending' = {}, lines' \in {lines, <<>>},
         UNCHANGED <<inbox, outbox, nextId, writes, leaked>>
  PROVE  Sound'
<1>0. RequestsOK /\ Numbered /\ Owned /\ \A c \in Calls : Future(c)
  BY DEF Sound
<1>1. /\ call' \in [Calls -> Records]
      /\ \A c \in Calls : Quiet(c) /\ call'[c].fut # "open"
  BY <1>0, FailedCloses DEF Quiet
<1>2. RequestsOK'
  <2>1. lines \in Seq(Req \cup {Eof}) /\ <<>> \in Seq(Req \cup {Eof})
    BY <1>0 DEF RequestsOK
  <2>2. lines' \in Seq(Req \cup {Eof})
    BY <2>1
  <2> QED
    BY <1>0, <1>1, <2>2 DEF RequestsOK
<1>3. Numbered'
  <2>1. ToSet(lines') \subseteq ToSet(lines)
    BY DEF ToSet
  <2>2. \A s \in Req : Flying(s)' => Flying(s)
    BY <1>1, <2>1 DEF Flying, Quiet
  <2> QED
    BY <1>0, <2>2, FewerNumbered
<1>4. Owned'
  BY DEF Owned
<1>5. ASSUME NEW c \in Calls PROVE Future(c)'
  BY <1>0, <1>1, QuietFuture
<1> QED
  BY <1>2, <1>3, <1>4, <1>5 DEF Sound

\* A line is read: the future registered under its id gets it.
LEMMA ReaderReadsSound == ASSUME Sound, ReaderReads PROVE Sound'
<1>0. RequestsOK /\ Numbered /\ Owned /\ \A c \in Calls : Future(c)
  BY DEF Sound
<1>1. CASE Head(lines) = Eof
  BY <1>1, AllFailSound DEF ReaderReads
<1>2. CASE Head(lines) # Eof
  <2> DEFINE r == Head(lines)
  <2>1. /\ r \in Req /\ r \in ToSet(lines) /\ lines' = Tail(lines)
        /\ lines' \in Seq(Req \cup {Eof}) /\ ToSet(lines') \subseteq ToSet(lines)
    <3>1. lines \in Seq(Req \cup {Eof}) /\ lines # <<>> /\ lines' = Tail(lines)
      BY <1>0, <1>2 DEF RequestsOK, ReaderReads
    <3>2. /\ Tail(lines) \in Seq(Req \cup {Eof}) /\ Head(lines) \in Req \cup {Eof}
          /\ Head(lines) \in ToSet(lines)
          /\ ToSet(lines) = ToSet(Tail(lines)) \cup {Head(lines)}
      BY <3>1, TailSet
    <3> QED
      BY <1>2, <3>1, <3>2
  <2>2. UNCHANGED <<inbox, outbox, nextId, writes, leaked>> /\ Answer(r)
    BY <1>2 DEF ReaderReads
  <2>3. \A q \in Req : Flying(q) /\ q.id = r.id => q = r
    BY <1>0, <2>1 DEF Numbered, Flying
  <2> HIDE DEF r
  <2>4. pending' = pending \ {r}
    BY <1>0, <2>2, <2>3 DEF Answer, RequestsOK, Flying
  <2>5. ASSUME NEW c \in Calls
        PROVE  /\ call'[c] \in Records
               /\ call'[c].pc = call[c].pc /\ call'[c].req = call[c].req
               /\ IF call[c].fut = "open" /\ call[c].req = r
                  THEN call'[c].fut = "answered" /\ call'[c].got = r
                  ELSE call'[c] = call[c]
    <3>1. (call[c].fut = "open" /\ \E q \in pending : q.id = r.id /\ q = call[c].req)
            <=> (call[c].fut = "open" /\ call[c].req = r)
      BY <1>0, <2>3 DEF Future, RequestsOK, Flying
    <3>2. call'[c] = IF call[c].fut = "open" /\ call[c].req = r
                     THEN [call[c] EXCEPT !.fut = "answered", !.got = r] ELSE call[c]
      BY <2>2, <3>1 DEF Answer
    <3>3. call[c] \in Records /\ r \in AnyReq
      BY <1>0, <2>1 DEF RequestsOK, Req, AnyReq
    <3> QED
      BY <3>2, <3>3 DEF Records
  <2>6. RequestsOK'
    <3>1. call' \in [Calls -> Records]
      BY <2>2, <2>5 DEF Answer
    <3> QED
      BY <1>0, <2>1, <2>2, <2>4, <3>1 DEF RequestsOK
  <2>7. Numbered'
    <3>1. \A s \in Req : Flying(s)' => Flying(s)
      BY <2>1, <2>2, <2>4, <2>5 DEF Flying
    <3> QED
      BY <1>0, <2>2, <3>1, FewerNumbered
  <2>8. Owned'
    BY <1>0, <2>2, <2>4, <2>5 DEF Owned, Sent
  <2>9. ASSUME NEW c \in Calls PROVE Future(c)'
    BY <1>0, <2>4, <2>5 DEF Future, Sent, Kind
  <2> QED
    BY <2>6, <2>7, <2>8, <2>9 DEF Sound
<1> QED
  BY <1>1, <1>2

\* What was still to be written is acknowledged, or nothing is.
LEMMA AcknowledgedFacts ==
  ASSUME NEW cs \in [Calls -> Records], NEW some, NEW c \in Calls
  PROVE  /\ Acknowledged(cs, some)[c] \in Records
         /\ Acknowledged(cs, some)[c].pc = cs[c].pc /\ Acknowledged(cs, some)[c].req = cs[c].req
         /\ Acknowledged(cs, some)[c].got = cs[c].got /\ Acknowledged(cs, some)[c].fut = cs[c].fut
<1>1. Acknowledged(cs, some)[c] = IF cs[c].req \in some THEN [cs[c] EXCEPT !.ack = "ok"] ELSE cs[c]
  BY DEF Acknowledged
<1> QED
  BY <1>1 DEF Records

\* A step that does not touch what is pending and leaves the calls quiet.
LEMMA QuietSound ==
  ASSUME Sound, call' \in [Calls -> Records], \A c \in Calls : Quiet(c) /\ call'[c].fut = call[c].fut,
         inbox' \in [Procs -> SUBSET Req], writes' \in Seq(Req), lines' = lines,
         ToSet(writes') \subseteq ToSet(writes),
         \A p \in Procs : \A r \in inbox'[p] : r \in inbox[p] \/ r \in ToSet(writes),
         UNCHANGED <<outbox, nextId, pending, leaked>>
  PROVE  Sound'
<1>0. RequestsOK /\ Numbered /\ Owned /\ \A c \in Calls : Future(c)
  BY DEF Sound
<1>1. RequestsOK'
  BY <1>0 DEF RequestsOK
<1>2. Numbered'
  <2>1. \A s \in Req : Flying(s)' => Flying(s)
    BY DEF Flying, Quiet
  <2> QED
    BY <1>0, <2>1, FewerNumbered
<1>3. Owned'
  BY <1>0 DEF Owned, Quiet, Sent
<1>4. ASSUME NEW c \in Calls PROVE Future(c)'
  BY <1>0, QuietFuture DEF Future
<1> QED
  BY <1>1, <1>2, <1>3, <1>4 DEF Sound

\* stop() comes to its end.
LEMMA PoolStoppedSound == ASSUME Sound, PoolStopped PROVE Sound'
<1>0. call \in [Calls -> Records] /\ inbox \in [Procs -> SUBSET Req]
  BY DEF Sound, RequestsOK
<1>1. PICK some : call' = Acknowledged(call, some)
  BY DEF PoolStopped
<1>2. call' \in [Calls -> Records]
  BY <1>0, <1>1, AcknowledgedFacts DEF Acknowledged
<1>3. \A c \in Calls : Quiet(c) /\ call'[c].fut = call[c].fut
  BY <1>0, <1>1, AcknowledgedFacts DEF Quiet
<1>4. writes' = <<>> /\ UNCHANGED <<inbox, outbox, nextId, pending, lines, leaked>>
  BY DEF PoolStopped, Forgotten
<1>5. writes' \in Seq(Req) /\ ToSet(writes') \subseteq ToSet(writes)
  BY <1>4 DEF ToSet
<1> QED
  BY <1>0, <1>2, <1>3, <1>4, <1>5, QuietSound

\* The writer's thread writes a request.
LEMMA WriterSound == ASSUME Sound, WriterWrites PROVE Sound'
<1> DEFINE r == Head(writes)
<1>0. call \in [Calls -> Records] /\ inbox \in [Procs -> SUBSET Req] /\ writes \in Seq(Req)
  BY DEF Sound, RequestsOK
<1>1. /\ writes' = Tail(writes) /\ writes' \in Seq(Req) /\ r \in Req /\ r \in ToSet(writes)
      /\ ToSet(writes') \subseteq ToSet(writes)
  BY <1>0, TailSet DEF WriterWrites
<1>2. PICK ack \in {"ok", "failed"} :
        call' = [c \in Calls |-> IF call[c].req = r THEN [call[c] EXCEPT !.ack = ack] ELSE call[c]]
  BY DEF WriterWrites
<1>3. UNCHANGED <<outbox, nextId, pending, lines, leaked>>
  BY DEF WriterWrites
<1>4. inbox' = inbox \/ inbox' = [inbox EXCEPT ![process] = @ \cup {r}]
  BY DEF WriterWrites
<1> HIDE DEF r
<1>5. /\ inbox' \in [Procs -> SUBSET Req]
      /\ \A p \in Procs : \A q \in inbox'[p] : q \in inbox[p] \/ q \in ToSet(writes)
  BY <1>0, <1>1, <1>4
<1>6. ASSUME NEW c \in Calls
      PROVE  call'[c] \in Records /\ Quiet(c) /\ call'[c].fut = call[c].fut
  <2>1. call'[c] = call[c] \/ call'[c] = [call[c] EXCEPT !.ack = ack]
    BY <1>2
  <2> QED
    BY <1>0, <2>1 DEF Records, Quiet
<1>7. call' \in [Calls -> Records]
  BY <1>2, <1>6
<1> QED
  BY <1>1, <1>3, <1>5, <1>6, <1>7, QuietSound

\* One call moves: its future is as it was, or it is over and its request taken
\* back, or left behind.
LEMMA OneMovesSound ==
  ASSUME Sound, NEW c \in Calls, call' \in [Calls -> Records],
         \A d \in Calls \ {c} : call'[d] = call[d],
         \/ call'[c].req = call[c].req /\ call'[c].fut = call[c].fut /\ Sent(c) /\ Sent(c)'
            /\ call'[c].got = call[c].got /\ UNCHANGED pending
         \/ Unsent(c) /\ \/ pending' = pending \ {call[c].req}
                         \/ pending' = pending /\ call[c].fut = "answered"
                         \/ pending' = pending /\ call[c].req \in leaked',
         leaked \subseteq leaked',
         UNCHANGED <<inbox, outbox, nextId, writes, lines>>
  PROVE  Sound'
<1>0. RequestsOK /\ Numbered /\ Owned /\ \A d \in Calls : Future(d)
  BY DEF Sound
<1>1. RequestsOK'
  BY <1>0 DEF RequestsOK
<1>2. Numbered'
  <2>1. \A s \in Req : Flying(s)' => Flying(s)
    BY <1>0 DEF Flying, Unsent
  <2> QED
    BY <1>0, <2>1, FewerNumbered
<1>3. ASSUME NEW r \in pending' PROVE r \in leaked' \/ \E d \in Calls : Sent(d)' /\ call'[d].req = r
  <2>1. r \in pending
    OBVIOUS
  <2>2. CASE r \in leaked
    BY <2>2
  <2>3. CASE \E d \in Calls : Sent(d) /\ call[d].req = r
    <3>1. PICK d \in Calls : Sent(d) /\ call[d].req = r
      BY <2>3
    <3>2. CASE d # c
      BY <3>1, <3>2 DEF Sent
    <3>3. CASE d = c
      BY <1>0, <2>1, <3>1, <3>3 DEF Future, Sent
    <3> QED
      BY <3>2, <3>3
  <2> QED
    BY <1>0, <2>1, <2>2, <2>3 DEF Owned
<1>4. ASSUME NEW d \in Calls PROVE Future(d)'
  <2>1. CASE d # c
    <3>1. call[d].fut = "open" => call[d].req \in pending'
      BY <1>0, <2>1 DEF Future, Sent, Req
    <3> QED
      BY <1>0, <2>1, <3>1 DEF Future, Sent, Kind
  <2>2. CASE d = c
    BY <1>0, <2>2, UnsentFuture DEF Future, Sent, Kind
  <2> QED
    BY <2>1, <2>2
<1> QED
  BY <1>1, <1>2, <1>3, <1>4 DEF Sound, Owned

\* The client is stopped by the call that could not start it.
LEMMA GivesUpSound == ASSUME Sound, NEW c \in Calls, GivesUp(c) PROVE Sound'
<1>0. RequestsOK /\ Numbered /\ Owned /\ \A d \in Calls : Future(d)
  BY DEF Sound
<1> DEFINE cs == Failed(call)
<1>1. /\ cs \in [Calls -> Records]
      /\ \A d \in Calls : /\ cs[d].pc = call[d].pc /\ cs[d].req = call[d].req
                          /\ cs[d].got = call[d].got
                          /\ cs[d].fut = IF call[d].fut = "open" THEN "failed" ELSE call[d].fut
  BY <1>0, FailedCloses
<1>2. /\ call' = [Acknowledged(cs, ToSet(writes)) EXCEPT ![c] = Done]
      /\ pending' = {} /\ lines' = <<>> /\ writes' = <<>>
      /\ UNCHANGED <<inbox, outbox, nextId, leaked>>
  BY DEF GivesUp, Told, Forgotten
<1> HIDE DEF cs
<1>3. \A d \in Calls : /\ Acknowledged(cs, ToSet(writes))[d] \in Records
                       /\ Acknowledged(cs, ToSet(writes))[d].pc = cs[d].pc
                       /\ Acknowledged(cs, ToSet(writes))[d].req = cs[d].req
                       /\ Acknowledged(cs, ToSet(writes))[d].got = cs[d].got
                       /\ Acknowledged(cs, ToSet(writes))[d].fut = cs[d].fut
  BY <1>1, AcknowledgedFacts
<1>4. Done \in Records /\ Done.pc = "done" /\ Done.fut = "none" /\ Done.req.id = 0
  BY DEF Done, Idle, Records, AnyReq, NoRequest, Request
<1>5. DOMAIN Acknowledged(cs, ToSet(writes)) = Calls
  BY DEF Acknowledged
<1>6. ASSUME NEW d \in Calls
      PROVE  call'[d] = IF d = c THEN Done ELSE Acknowledged(cs, ToSet(writes))[d]
  BY <1>2, <1>5
<1>7. call' \in [Calls -> Records]
  <2>1. call' = [d \in Calls |-> IF d = c THEN Done ELSE Acknowledged(cs, ToSet(writes))[d]]
    BY <1>2, <1>5
  <2> QED
    BY <1>3, <1>4, <2>1
<1>8. \A d \in Calls : IF d = c THEN Unsent(d) ELSE Quiet(d) /\ call'[d].fut # "open"
  BY <1>1, <1>3, <1>4, <1>6 DEF Unsent, Quiet, Sent
<1>9. RequestsOK'
  <2>1. <<>> \in Seq(Req) /\ <<>> \in Seq(Req \cup {Eof})
    OBVIOUS
  <2> QED
    BY <1>0, <1>2, <1>7, <2>1 DEF RequestsOK
<1>10. Numbered'
  <2>1. \A s \in Req : Flying(s)' => Flying(s)
    BY <1>2, <1>8 DEF Flying, Quiet, Unsent, ToSet
  <2> QED
    BY <1>0, <1>2, <2>1, FewerNumbered
<1>11. Owned'
  BY <1>2 DEF Owned
<1>12. ASSUME NEW d \in Calls PROVE Future(d)'
  BY <1>0, <1>2, <1>8, QuietFuture, UnsentFuture
<1> QED
  BY <1>9, <1>10, <1>11, <1>12 DEF Sound

\* A request gets its number: the call is sent, unless its reader finds the
\* client stopped.
LEMMA RegisterSound ==
  ASSUME Sound, NEW c \in Calls, NEW kind \in {"init", "call"}, NEW able \in BOOLEAN,
         NEW lost \in BOOLEAN, NEW queue, Register(c, kind, able, lost, queue),
         call[c].fut \in {"none", "answered"}, lines' \in {lines, <<>>},
         UNCHANGED <<inbox, outbox, leaked>>
  PROVE  Sound'
<1>0. RequestsOK /\ Numbered /\ Owned /\ \A d \in Calls : Future(d)
  BY DEF Sound
<1> DEFINE r == Request(c, kind, nextId + 1)
           cs == IF lost THEN Failed(call) ELSE call
           new == [Idle EXCEPT !.pc = IF able THEN "writing" ELSE "waiting",
                               !.req = r, !.fut = IF lost THEN "failed" ELSE "open"]
<1>1. /\ cs \in [Calls -> Records]
      /\ \A d \in Calls : /\ cs[d].pc = call[d].pc /\ cs[d].req = call[d].req
                          /\ cs[d].got = call[d].got
                          /\ cs[d].fut = IF lost /\ call[d].fut = "open" THEN "failed" ELSE call[d].fut
  BY <1>0, FailedCloses DEF RequestsOK
<1>2. r \in Req /\ r.by = c /\ r.id = nextId + 1 /\ r \in AnyReq /\ NoRequest \in AnyReq
  BY <1>0 DEF RequestsOK, Request, Req, AnyReq, NoRequest
<1>3. /\ nextId' = nextId + 1
      /\ pending' = IF lost THEN {} ELSE pending \cup {r}
      /\ call' = [cs EXCEPT ![c] = new]
      /\ writes' = IF able THEN Append(writes, r) ELSE writes
  BY DEF Register
<1>4. new \in Records
  BY <1>2 DEF Records, Idle
<1>5. /\ new.pc \in {"writing", "waiting"} /\ new.req = r
      /\ new.fut = IF lost THEN "failed" ELSE "open"
  BY DEF Idle
<1> HIDE DEF cs, new, r
<1>6. /\ call' \in [Calls -> Records] /\ call'[c] = new
      /\ \A d \in Calls \ {c} : call'[d] = cs[d]
  BY <1>1, <1>3, <1>4
<1>7. writes' \in Seq(Req) /\ ToSet(writes') \subseteq ToSet(writes) \cup {r}
  BY <1>0, <1>2, <1>3, AppendSet DEF RequestsOK
<1>8. RequestsOK'
  <2>1. lines \in Seq(Req \cup {Eof}) /\ <<>> \in Seq(Req \cup {Eof})
    BY <1>0 DEF RequestsOK
  <2>2. lines' \in Seq(Req \cup {Eof})
    BY <2>1
  <2>3. nextId' \in Nat /\ pending' \subseteq Req
    BY <1>0, <1>2, <1>3 DEF RequestsOK
  <2> QED
    BY <1>0, <1>6, <1>7, <2>2, <2>3 DEF RequestsOK
<1>9. Numbered'
  <2>1. ToSet(lines') \subseteq ToSet(lines)
    BY DEF ToSet
  <2>2. \A s \in Req : Flying(s)' => Flying(s) \/ s = r
    BY <1>1, <1>3, <1>5, <1>6, <1>7, <2>1 DEF Flying
  <2> QED
    BY <1>0, <1>2, <1>3, <2>2, OneMoreNumbered DEF RequestsOK
<1>10. \A q \in pending : q # r
  BY <1>0, <1>2 DEF Numbered, Flying, RequestsOK, Req
<1>11. Owned'
  <2>1. Sent(c)' /\ call'[c].req = r
    BY <1>5, <1>6 DEF Sent
  <2>2. ASSUME NEW q \in pending, ~lost, q \notin leaked
        PROVE  \E d \in Calls : Sent(d)' /\ call'[d].req = q
    <3>1. PICK d \in Calls : Sent(d) /\ call[d].req = q
      BY <1>0, <2>2 DEF Owned
    <3>2. d # c
      BY <1>0, <3>1 DEF Future, Sent
    <3> QED
      BY <1>1, <1>6, <3>1, <3>2 DEF Sent
  <2> QED
    BY <1>3, <2>1, <2>2 DEF Owned
<1>12. ASSUME NEW d \in Calls PROVE Future(d)'
  <2>1. CASE d = c
    BY <1>2, <1>3, <1>5, <1>6, <2>1 DEF Future, Sent
  <2>2. CASE d # c
    <3>1. Quiet(d)
      BY <1>1, <1>6, <2>2 DEF Quiet
    <3>2. call'[d].fut = "open" => call[d].req \in pending'
      BY <1>0, <1>1, <1>3, <1>6, <2>2 DEF Future
    <3>3. call'[d].fut = "answered" => call[d].req \notin pending'
      <4>1. call'[d].fut = "answered" => call[d].req # r /\ call[d].req \notin pending
        BY <1>0, <1>1, <1>2, <1>6, <2>2 DEF Future
      <4> QED
        BY <1>3, <4>1
    <3> QED
      BY <1>0, <3>1, <3>2, <3>3, QuietFuture
  <2> QED
    BY <2>1, <2>2
<1> QED
  BY <1>8, <1>9, <1>11, <1>12 DEF Sound

\* A request waits for the lock of the calls, or is sent at once.
LEMMA SendsSound ==
  ASSUME Sound, NEW c \in Calls, NEW kind \in {"init", "call"}, NEW proc, NEW halted \in BOOLEAN,
         Sends(c, kind, proc, halted),
         call[c].fut \in {"none", "answered"}, reader \in BOOLEAN,
         UNCHANGED <<inbox, outbox, leaked>>
  PROVE  Sound'
<1> DEFINE lost == halted /\ ~reader
<1>0. RequestsOK /\ Numbered /\ Owned /\ \A d \in Calls : Future(d)
  BY DEF Sound
<1>1. lines' \in {lines, <<>>}
  BY DEF Sends, StartReader
<1>2. lost \in BOOLEAN
  OBVIOUS
<1>3. CASE callLock = <<>>
  <2>1. Register(c, kind, ~halted /\ proc # 0, lost, <<>>)
    BY <1>3 DEF Sends
  <2>2. (~halted /\ proc # 0) \in BOOLEAN
    OBVIOUS
  <2> HIDE DEF lost
  <2> QED
    BY <1>1, <1>2, <2>1, <2>2, RegisterSound
<1>4. CASE callLock # <<>>
  <2> DEFINE cs == IF lost THEN Failed(call) ELSE call
             new == [Idle EXCEPT !.pc = "locking", !.req = Request(c, kind, 0)]
  <2>1. /\ cs \in [Calls -> Records]
        /\ \A d \in Calls : /\ cs[d].pc = call[d].pc /\ cs[d].req = call[d].req
                            /\ cs[d].got = call[d].got
                            /\ cs[d].fut = IF lost /\ call[d].fut = "open" THEN "failed" ELSE call[d].fut
    BY <1>0, FailedCloses DEF RequestsOK
  <2>2. /\ call' = [cs EXCEPT ![c] = new]
        /\ pending' = IF lost THEN {} ELSE pending
        /\ UNCHANGED <<nextId, writes>>
    BY <1>4 DEF Sends
  <2>3. /\ new \in Records /\ new.pc = "locking" /\ new.fut = "none" /\ new.req.id = 0
        /\ new.req.kind = kind
    BY DEF Records, AnyReq, NoRequest, Request, Idle
  <2> HIDE DEF cs, new, lost
  <2>4. /\ call' \in [Calls -> Records] /\ call'[c] = new
        /\ \A d \in Calls \ {c} : call'[d] = cs[d]
    BY <2>1, <2>2, <2>3
  <2>5. RequestsOK'
    <3>1. lines \in Seq(Req \cup {Eof}) /\ <<>> \in Seq(Req \cup {Eof})
      BY <1>0 DEF RequestsOK
    <3>2. lines' \in Seq(Req \cup {Eof})
      BY <1>1, <3>1
    <3> QED
      BY <1>0, <2>2, <2>4, <3>2 DEF RequestsOK
  <2>6. Unsent(c) /\ \A d \in Calls \ {c} : Quiet(d)
    BY <2>1, <2>3, <2>4 DEF Unsent, Quiet, Sent, Kind
  <2>7. Numbered'
    <3>1. ToSet(lines') \subseteq ToSet(lines)
      BY <1>1 DEF ToSet
    <3>2. \A s \in Req : Flying(s)' => Flying(s)
      BY <2>2, <2>6, <3>1 DEF Flying, Quiet, Unsent
    <3> QED
      BY <1>0, <2>2, <3>2, FewerNumbered
  <2>8. Owned'
    <3>1. ASSUME NEW q \in pending, ~lost, q \notin leaked
          PROVE  \E d \in Calls : Sent(d)' /\ call'[d].req = q
      <4>1. PICK d \in Calls : Sent(d) /\ call[d].req = q
        BY <1>0, <3>1 DEF Owned
      <4>2. d # c
        BY <1>0, <3>1, <4>1 DEF Future, Sent
      <4> QED
        BY <2>6, <4>1, <4>2 DEF Sent, Quiet
    <3> QED
      BY <2>2, <3>1 DEF Owned
  <2>9. ASSUME NEW d \in Calls PROVE Future(d)'
    <3>1. CASE d = c
      BY <2>6, <3>1, UnsentFuture
    <3>2. CASE d # c
      <4>1. call'[d].fut = "open" => call[d].req \in pending'
        BY <1>0, <2>1, <2>2, <2>4, <3>2 DEF Future
      <4>2. call'[d].fut = "answered" => call[d].req \notin pending'
        BY <1>0, <2>1, <2>2, <2>4, <3>2 DEF Future
      <4> QED
        BY <1>0, <2>6, <3>2, <4>1, <4>2, QuietFuture
    <3> QED
      BY <3>1, <3>2
  <2> QED
    BY <2>5, <2>7, <2>8, <2>9 DEF Sound
<1> QED
  BY <1>3, <1>4

-----------------------------------------------------------------------------
(* The steps of a call.                                                    *)

\* The record of a call that moves.
LEMMA MovesSound ==
  ASSUME Sound, NEW c \in Calls, NEW where \in {"starting", "spawning", "waiting"},
         call' = [call EXCEPT ![c].pc = where], Sent(c) <=> where = "waiting",
         UNCHANGED <<inbox, outbox, nextId, pending, writes, lines, leaked>>
  PROVE  Sound'
<1>0. RequestsOK /\ Future(c)
  BY DEF Sound
<1>1. /\ call' \in [Calls -> Records] /\ \A d \in Calls \ {c} : call'[d] = call[d]
      /\ call'[c].pc = where /\ call'[c].req = call[c].req /\ call'[c].fut = call[c].fut
      /\ call'[c].got = call[c].got
  BY <1>0 DEF RequestsOK, Records
<1>2. CASE Sent(c)
  BY <1>0, <1>1, <1>2, OneMovesSound DEF Sent
<1>3. CASE ~Sent(c)
  <2>1. Unsent(c) /\ pending' = pending \ {call[c].req}
    BY <1>0, <1>1, <1>3 DEF Unsent, Future, Sent, RequestsOK, Req
  <2> QED
    BY <1>1, <2>1, OneMovesSound
<1> QED
  BY <1>2, <1>3

\* The call is over.
LEMMA EndsSound ==
  ASSUME Sound, NEW c \in Calls, call' = [call EXCEPT ![c] = Done],
         \/ pending' = pending \ {call[c].req}
         \/ pending' = pending /\ call[c].fut = "answered"
         \/ pending' = pending /\ call[c].req \in leaked',
         leaked \subseteq leaked',
         UNCHANGED <<inbox, outbox, nextId, writes, lines>>
  PROVE  Sound'
<1>1. Done \in Records /\ Done.pc = "done" /\ Done.fut = "none" /\ Done.req.id = 0
  BY DEF Done, Idle, Records, AnyReq, NoRequest, Request
<1>2. /\ call' \in [Calls -> Records] /\ call'[c] = Done
      /\ \A d \in Calls \ {c} : call'[d] = call[d]
  BY <1>1 DEF Sound, RequestsOK
<1>3. Unsent(c)
  BY <1>1, <1>2 DEF Unsent, Sent
<1> QED
  BY <1>2, <1>3, OneMovesSound

\* A call sends its request, or wants the server started.
LEMMA BeginSound ==
  ASSUME Sound, reader \in BOOLEAN, stopped \in BOOLEAN, NEW c \in Calls, Begin(c)
  PROVE  Sound'
<1>0. ~Sent(c) /\ Future(c) /\ call \in [Calls -> Records]
  BY DEF Sound, RequestsOK, Begin, At, Sent
<1>1. UNCHANGED <<inbox, outbox, leaked>>
  BY DEF Begin
<1>2. CASE Sends(c, "call", process, stopped)
  <2>1. call[c].fut = "none"
    BY <1>0 DEF Future
  <2> QED
    BY <1>1, <1>2, <2>1, SendsSound
<1>3. CASE call' = [call EXCEPT ![c].pc = "starting"] /\ UNCHANGED <<nextId, pending, writes, lines>>
  BY <1>0, <1>1, <1>3, MovesSound
<1> QED
  BY <1>2, <1>3 DEF Begin

\* It finds the server started meanwhile, or starts it.
LEMMA StartEntersSound ==
  ASSUME Sound, reader \in BOOLEAN, NEW c \in Calls, StartEnters(c) PROVE Sound'
<1>0. At(c, "starting") /\ ~Sent(c) /\ Future(c)
  BY DEF Sound, StartEnters, At, Sent
<1>1. UNCHANGED <<inbox, outbox, leaked>>
  BY DEF StartEnters
<1>2. CASE Sends(c, "call", process, FALSE)
  <2>1. call[c].fut = "none"
    BY <1>0 DEF Future
  <2> QED
    BY <1>1, <1>2, <2>1, SendsSound
<1>3. CASE call' = [call EXCEPT ![c].pc = "spawning"] /\ UNCHANGED <<nextId, pending, writes, lines>>
  BY <1>0, <1>1, <1>3, MovesSound
<1> QED
  BY <1>2, <1>3 DEF StartEnters

\* The handshake is sent, or waits for the call lock.
LEMMA SpawnedSound ==
  ASSUME Sound, reader \in BOOLEAN, stopped \in BOOLEAN, NEW c \in Calls, Spawned(c) PROVE Sound'
<1>1. call[c].fut = "none"
  BY DEF Sound, Future, Spawned, At, Sent
<1> QED
  BY <1>1, SendsSound DEF Spawned

\* The lock of the calls is there.
LEMMA LockedSound ==
  ASSUME Sound, stopped \in BOOLEAN, NEW c \in Calls, Locked(c) PROVE Sound'
<1>1. call[c].fut = "none" /\ Kind(c) \in {"init", "call"}
  BY DEF Sound, Future, Locked, At, Sent
<1>2. (~stopped /\ process # 0) \in BOOLEAN
  OBVIOUS
<1>3. /\ Register(c, Kind(c), ~stopped /\ process # 0, FALSE, Tail(callLock))
      /\ UNCHANGED <<inbox, outbox, leaked, lines>>
  BY DEF Locked
<1> QED
  BY <1>1, <1>2, <1>3, RegisterSound

\* A call whose write is over waits, or ends with an error.
LEMMA AckedSound == ASSUME Sound, NEW c \in Calls, Acked(c) \/ AckTimesOut(c) PROVE Sound'
<1>1. Sent(c)
  BY DEF Acked, AckTimesOut, At, Sent
<1>2. CASE /\ call' = [call EXCEPT ![c].pc = "waiting"]
           /\ UNCHANGED <<inbox, outbox, nextId, pending, writes, lines, leaked>>
  BY <1>1, <1>2, MovesSound
<1>3. CASE GivesUp(c)
  BY <1>3, GivesUpSound
<1>4. CASE /\ call' = [call EXCEPT ![c] = Done] /\ pending' = pending \ {call[c].req}
           /\ UNCHANGED <<inbox, outbox, nextId, writes, lines, leaked>>
  BY <1>4, EndsSound
<1> QED
  BY <1>2, <1>3, <1>4 DEF Acked, AckTimesOut

\* The answer to the handshake lets the request go; that to the request ends it.
LEMMA AnsweredSound ==
  ASSUME Sound, reader \in BOOLEAN, stopped \in BOOLEAN, NEW c \in Calls, Answered(c) PROVE Sound'
<1>1. call[c].fut = "answered" /\ UNCHANGED <<inbox, outbox, leaked>>
  BY DEF Answered
<1>2. CASE Sends(c, "call", process, stopped)
  BY <1>1, <1>2, SendsSound
<1>3. CASE call' = [call EXCEPT ![c] = Done] /\ UNCHANGED <<nextId, pending, writes, lines>>
  BY <1>1, <1>3, EndsSound
<1> QED
  BY <1>2, <1>3 DEF Answered

\* A call that has had no answer takes its request back.
LEMMA NoAnswerSound == ASSUME Sound, NEW c \in Calls, NoAnswer(c) PROVE Sound'
<1>1. CASE GivesUp(c)
  BY <1>1, GivesUpSound
<1>2. CASE /\ call' = [call EXCEPT ![c] = Done] /\ pending' = pending \ {call[c].req}
           /\ UNCHANGED <<inbox, outbox, nextId, writes, lines, leaked>>
  BY <1>2, EndsSound
<1> QED
  BY <1>1, <1>2 DEF NoAnswer

\* A cancelled call takes its request back, or leaves a handshake behind.
LEMMA CancelSound == ASSUME Sound, NEW c \in Calls, Cancel(c) PROVE Sound'
<1>1. /\ call' = [call EXCEPT ![c] = Done] /\ leaked \subseteq leaked'
      /\ UNCHANGED <<inbox, outbox, nextId, writes, lines>>
      /\ \/ pending' = pending \ {call[c].req}
         \/ pending' = pending /\ call[c].req \in leaked'
  BY DEF Cancel
<1> QED
  BY <1>1, EndsSound

-----------------------------------------------------------------------------
(* Who starts the server, and who reads it.                                *)

ClientOK ==
    /\ process \in {0} \cup Procs /\ born \in 0 .. MaxProcs
    /\ reader \in BOOLEAN /\ stopped \in BOOLEAN /\ crossed \in BOOLEAN
    /\ startLock \in Seq(Calls)

\* A call that starts the server, or waits for the answer to its handshake.
Shakes(c) == At(c, "spawning") \/ Kind(c) = "init"

\* It has the start lock; who wants to start the server waits for the lock.
Locks(c) ==
    /\ Shakes(c) => startLock # <<>> /\ Head(startLock) = c
    /\ At(c, "starting") => c \in ToSet(startLock)
    /\ call[c].pc \in {"idle", "starting", "spawning"} => Kind(c) # "init"

\* The handshake has a process, unless the client has been stopped.
Backed(c) == Kind(c) = "init" /\ ~stopped /\ ~crossed => process # 0

\* An open future has a reader.
Open(c) == call[c].fut = "open" => reader \/ call[c].req \in unread

\* The reader is fed, or about to be told of the end; nobody starts the client
\* again while stop() is under way.
Fed ==
    ~crossed => /\ stopping # "no" => stopped
                /\ reader => threads # {} \/ Eof \in ToSet(lines)

Listening == ClientOK /\ Fed /\ \A c \in Calls : Locks(c) /\ Backed(c) /\ Open(c)

IInv == Sound /\ Listening

\* The call stands where it stood, and no future has opened.
Stays(c) ==
    /\ call'[c].pc = call[c].pc /\ call'[c].req = call[c].req
    /\ call'[c].fut = "open" => call[c].fut = "open"

\* No server has been started yet.
LEMMA InitListening == Init => Listening
<1> SUFFICES ASSUME Init PROVE Listening
  OBVIOUS
<1>1. ClientOK /\ Fed
  <2>1. 0 \in 0 .. MaxProcs /\ <<>> \in Seq(Calls)
    OBVIOUS
  <2> QED
    BY <2>1 DEF Init, ClientOK, Fed
<1>2. ASSUME NEW c \in Calls PROVE Locks(c) /\ Backed(c) /\ Open(c)
  <2>1. call[c].pc = "idle" /\ call[c].fut = "none" /\ call[c].req.kind = "none"
    BY DEF Init, Idle, NoRequest, Request
  <2> QED
    BY <2>1 DEF Locks, Backed, Open, Shakes, At, Kind
<1> QED
  BY <1>1, <1>2 DEF Listening

\* A step that moves no call, lock or process only has to keep the reader fed.
LEMMA StayListening ==
  ASSUME Listening, \A c \in Calls : Stays(c), Fed',
         UNCHANGED <<startLock, process, born, reader, stopped, crossed, unread>>
  PROVE  Listening'
BY DEF Listening, ClientOK, Locks, Backed, Open, Shakes, At, Kind, Stays

\* With every future failed the reader may go, and the client may be stopped.
LEMMA AllFailListening ==
  ASSUME Sound, Listening, call' = Failed(call), Fed', reader' \in BOOLEAN,
         stopped' \in {stopped, TRUE}, UNCHANGED <<startLock, process, born, crossed>>
  PROVE  Listening'
<1>1. \A c \in Calls : Stays(c) /\ call'[c].fut # "open"
  BY FailedCloses DEF Sound, Stays
<1> QED
  BY <1>1 DEF Listening, ClientOK, Locks, Backed, Open, Shakes, At, Kind, Stays

\* A thread that ends says so to the reader.
LEMMA ThreadListening ==
  ASSUME IInv, NEW p \in Procs, ThreadReads(p) \/ ThreadEnds(p) PROVE Listening'
<1>1. /\ lines \in Seq(Req \cup {Eof}) /\ Eof \notin Req /\ reader \in BOOLEAN
      /\ ThreadReads(p) => Head(outbox[p]) \in Req
  BY TailSet DEF IInv, Sound, RequestsOK, Listening, ClientOK, ThreadReads, Eof, Request, Req
<1>2. \/ threads' = threads /\ \E items \in Seq(Req \cup {Eof}) : Delivered(items)
      \/ threads' = threads \ {p}
         /\ \E items \in Seq(Req \cup {Eof}) : Eof \in ToSet(items) /\ Delivered(items)
  <2>1. CASE ThreadReads(p)
    <3>1. /\ <<Head(outbox[p])>> \in Seq(Req \cup {Eof})
          /\ <<Head(outbox[p]), Eof>> \in Seq(Req \cup {Eof})
          /\ Eof \in ToSet(<<Head(outbox[p]), Eof>>)
      BY <1>1, <2>1 DEF ToSet
    <3> QED
      BY <2>1, <3>1 DEF ThreadReads
  <2>2. CASE ThreadEnds(p)
    <3>1. <<Eof>> \in Seq(Req \cup {Eof}) /\ Eof \in ToSet(<<Eof>>)
      BY DEF ToSet
    <3> QED
      BY <2>2, <3>1 DEF ThreadEnds
  <2> QED
    BY <2>1, <2>2
<1>3. UNCHANGED <<call, startLock, process, born, reader, stopped, stopping, crossed, unread>>
  BY DEF ThreadReads, ThreadEnds
<1>4. \A items \in Seq(Req \cup {Eof}) :
        Delivered(items) /\ reader => ToSet(lines') = ToSet(lines) \cup ToSet(items)
  BY <1>1, ConcatSet DEF Delivered
<1>5. Fed'
  BY <1>2, <1>3, <1>4 DEF IInv, Listening, Fed
<1> QED
  BY <1>3, <1>5, StayListening DEF IInv, Stays

\* A reader that is told of the end fails every future before it goes.
LEMMA ReaderReadsListening == ASSUME IInv, ReaderReads PROVE Listening'
<1>0. /\ UNCHANGED <<startLock, process, born, stopped, stopping, crossed, unread, threads>>
      /\ lines \in Seq(Req \cup {Eof}) /\ lines # <<>>
  BY DEF ReaderReads, IInv, Sound, RequestsOK
<1>1. CASE Head(lines) = Eof
  <2>1. call' = Failed(call) /\ reader' = FALSE
    BY <1>1 DEF ReaderReads
  <2>2. Fed'
    BY <1>0, <2>1 DEF IInv, Listening, Fed
  <2> QED
    BY <1>0, <2>1, <2>2, AllFailListening DEF IInv
<1>2. CASE Head(lines) # Eof
  <2>1. reader' = reader /\ lines' = Tail(lines) /\ Answer(Head(lines))
    BY <1>2 DEF ReaderReads
  <2>2. ToSet(lines) = ToSet(lines') \cup {Head(lines)}
    BY <1>0, <2>1, TailSet
  <2>3. Fed'
    BY <1>0, <1>2, <2>1, <2>2 DEF IInv, Listening, Fed
  <2>4. ASSUME NEW c \in Calls PROVE Stays(c)
    <3>1. call[c] \in Records
      BY DEF IInv, Sound, RequestsOK
    <3>2. call'[c] = call[c] \/ call'[c] = [call[c] EXCEPT !.fut = "answered", !.got = Head(lines)]
      BY <2>1 DEF Answer
    <3> QED
      BY <3>1, <3>2 DEF Stays, Records
  <2> QED
    BY <1>0, <2>1, <2>3, <2>4, StayListening DEF IInv
<1> QED
  BY <1>1, <1>2

\* The server, the writer and the rest of stop() leave the lock and the reader.
LEMMA OutsideListening ==
  ASSUME IInv,
         \/ WriterWrites \/ PoolKills \/ \E p \in Procs : Exits(p) \/ ChildEnds(p)
         \/ \E p \in Procs : \E r \in inbox[p] : Answers(p, r)
  PROVE  Listening'
<1>1. UNCHANGED <<startLock, process, born, reader, stopped, crossed, unread, threads, lines>>
  BY DEF WriterWrites, PoolKills, Exits, ChildEnds, Answers
<1>2. stopping' = stopping \/ (stopping # "no" /\ stopping' # "no")
  BY DEF WriterWrites, PoolKills, Exits, ChildEnds, Answers
<1>3. Fed'
  BY <1>1, <1>2 DEF IInv, Listening, Fed
<1>4. ASSUME NEW c \in Calls PROVE Stays(c)
  <2>1. call[c] \in Records
    BY DEF IInv, Sound, RequestsOK
  <2>2. call'[c] = call[c] \/ \E ack : call'[c] = [call[c] EXCEPT !.ack = ack]
    BY DEF WriterWrites, PoolKills, Exits, ChildEnds, Answers
  <2> QED
    BY <2>1, <2>2 DEF Stays, Records
<1> QED
  BY <1>1, <1>3, <1>4, StayListening DEF IInv

\* The client is stopped before its process is forgotten.
LEMMA PoolListening ==
  ASSUME IInv, ReaderDies \/ PoolStops \/ PoolStopped
  PROVE  Listening'
<1>1. CASE ReaderDies
  <2>1. Fed'
    BY <1>1 DEF IInv, Listening, Fed, ReaderDies
  <2> QED
    BY <1>1, <2>1, AllFailListening DEF IInv, Listening, ClientOK, ReaderDies
<1>2. CASE PoolStops
  <2>1. Fed'
    BY <1>2 DEF IInv, Listening, Fed, PoolStops, Told
  <2> QED
    BY <1>2, <2>1, AllFailListening DEF IInv, PoolStops, Told
<1>3. CASE PoolStopped
  <2>1. PICK some : call' = Acknowledged(call, some)
    BY <1>3 DEF PoolStopped
  <2>2. \A c \in Calls : Stays(c)
    <3>1. call \in [Calls -> Records]
      BY DEF IInv, Sound, RequestsOK
    <3> QED
      BY <2>1, <3>1, AcknowledgedFacts DEF Stays
  <2>3. /\ UNCHANGED <<startLock, born, reader, stopped, crossed, unread, threads, lines>>
        /\ process' = 0 /\ stopping # "no" /\ stopping' = "no"
    BY <1>3 DEF PoolStopped, Forgotten
  <2>4. crossed \/ stopped
    BY <2>3 DEF IInv, Listening, Fed
  <2> QED
    BY <2>2, <2>3, <2>4 DEF IInv, Listening, Fed, ClientOK, Locks, Backed, Open, Shakes,
       At, Kind, Stays
<1> QED
  BY <1>1, <1>2, <1>3

-----------------------------------------------------------------------------
(* The steps of a call, and the start lock.                                *)

\* What a call does to the start lock.
Queues(c) ==
    \/ startLock' = startLock
    \/ startLock' = Append(startLock, c)
    \/ startLock # <<>> /\ Head(startLock) = c /\ startLock' = Tail(startLock)
    \/ startLock' = Left(startLock, c)

\* Who leaves a lock leaves the others in their order, and the holder in place.
LEMMA LeftFacts ==
  ASSUME NEW q \in Seq(Calls), NEW c \in Calls, NEW d \in Calls \ {c}
  PROVE  /\ Left(q, c) \in Seq(Calls)
         /\ d \in ToSet(q) => d \in ToSet(Left(q, c))
         /\ q # <<>> /\ Head(q) = d => Left(q, c) # <<>> /\ Head(Left(q, c)) = d
<1>1. CASE c \notin ToSet(q)
  BY <1>1 DEF Left
<1>2. CASE c \in ToSet(q)
  <2> DEFINE i == CHOOSE j \in DOMAIN q : q[j] = c
             a == SubSeq(q, 1, i - 1)
             b == SubSeq(q, i + 1, Len(q))
  <2>1. i \in 1 .. Len(q) /\ q[i] = c /\ Len(q) \in Nat
    BY <1>2 DEF ToSet
  <2>2. Left(q, c) = a \o b
    BY <1>2 DEF Left, RemoveAt
  <2> HIDE DEF i
  <2>3. /\ a \in Seq(Calls) /\ Len(a) = i - 1 /\ \A j \in 1 .. i - 1 : a[j] = q[j]
        /\ b \in Seq(Calls) /\ Len(b) = Len(q) - i /\ \A j \in 1 .. Len(q) - i : b[j] = q[i + j]
    BY <2>1
  <2> HIDE DEF a, b
  <2>4. a \o b \in Seq(Calls) /\ ToSet(a \o b) = ToSet(a) \cup ToSet(b)
    BY <2>3, ConcatSet
  <2>5. ASSUME d \in ToSet(q) PROVE d \in ToSet(a \o b)
    <3>1. PICK j \in 1 .. Len(q) : q[j] = d
      BY <2>5 DEF ToSet
    <3>2. CASE j < i
      <4>1. j \in 1 .. Len(a) /\ a[j] = d
        BY <2>1, <2>3, <3>1, <3>2
      <4> QED
        BY <2>3, <2>4, <4>1 DEF ToSet
    <3>3. CASE j > i
      <4>1. PICK k \in 1 .. Len(q) - i : j = i + k
        <5>1. j - i \in 1 .. Len(q) - i /\ j = i + (j - i)
          BY <2>1, <3>1, <3>3
        <5> QED
          BY <5>1
      <4>2. k \in 1 .. Len(b) /\ b[k] = d
        BY <2>3, <3>1, <4>1
      <4>3. DOMAIN b = 1 .. Len(b)
        BY <2>3
      <4> QED
        BY <2>4, <4>2, <4>3 DEF ToSet
    <3> QED
      BY <2>1, <3>1, <3>2, <3>3
  <2>6. ASSUME q # <<>>, Head(q) = d PROVE a \o b # <<>> /\ Head(a \o b) = d
    <3>1. i > 1 /\ q[1] = d
      BY <2>1, <2>6
    <3>2. 1 \in 1 .. Len(a) /\ a[1] = d
      BY <2>1, <2>3, <3>1
    <3>3. Len(a \o b) = Len(a) + Len(b) /\ (a \o b)[1] = a[1]
      BY <2>3, <3>2
    <3> QED
      BY <2>1, <2>3, <2>4, <3>2, <3>3
  <2> QED
    BY <2>2, <2>4, <2>5, <2>6
<1> QED
  BY <1>1, <1>2

\* The start lock is a queue of calls.
LEMMA QueuesTyped ==
  ASSUME startLock \in Seq(Calls), NEW c \in Calls, Queues(c)
  PROVE  startLock' \in Seq(Calls)
<1>1. CASE startLock' = Left(startLock, c)
  <2>1. CASE c \notin ToSet(startLock)
    BY <1>1, <2>1 DEF Left
  <2>2. CASE c \in ToSet(startLock)
    <3>1. PICK i \in 1 .. Len(startLock) : startLock' = RemoveAt(startLock, i)
      <4> DEFINE j == CHOOSE k \in DOMAIN startLock : startLock[k] = c
      <4>1. j \in 1 .. Len(startLock)
        BY <2>2 DEF ToSet
      <4>2. startLock' = RemoveAt(startLock, j)
        BY <1>1, <2>2 DEF Left
      <4> QED
        BY <4>1, <4>2
    <3>2. /\ SubSeq(startLock, 1, i - 1) \in Seq(Calls)
          /\ SubSeq(startLock, i + 1, Len(startLock)) \in Seq(Calls)
      OBVIOUS
    <3> QED
      BY <3>1, <3>2 DEF RemoveAt
  <2> QED
    BY <2>1, <2>2
<1>2. CASE startLock' = Append(startLock, c)
  BY <1>2, AppendSet
<1>3. CASE startLock # <<>> /\ Head(startLock) = c /\ startLock' = Tail(startLock)
  BY <1>3, TailSet
<1> QED
  BY <1>1, <1>2, <1>3 DEF Queues

\* The others still have or wait for the lock.
LEMMA QueuesLocks ==
  ASSUME startLock \in Seq(Calls), NEW c \in Calls, Queues(c), NEW d \in Calls \ {c},
         Stays(d), Locks(d)
  PROVE  startLock' \in Seq(Calls) /\ Locks(d)'
<1> DEFINE Kept == /\ startLock' \in Seq(Calls)
                   /\ d \in ToSet(startLock) => d \in ToSet(startLock')
                   /\ startLock # <<>> /\ Head(startLock) = d => startLock' # <<>> /\ Head(startLock') = d
<1>1. Kept
  <2>1. CASE startLock' = startLock
    BY <2>1
  <2>2. CASE startLock' = Append(startLock, c)
    BY <2>2, AppendSet
  <2>3. CASE startLock # <<>> /\ Head(startLock) = c /\ startLock' = Tail(startLock)
    BY <2>3, TailSet
  <2>4. CASE startLock' = Left(startLock, c)
    BY <2>4, LeftFacts
  <2> QED
    BY <2>1, <2>2, <2>3, <2>4 DEF Queues
<1> HIDE DEF Kept
<1>2. (Shakes(d)' => Shakes(d)) /\ (At(d, "starting")' => At(d, "starting"))
  BY DEF Stays, Shakes, At, Kind
<1>3. call'[d].pc \in {"idle", "starting", "spawning"} => Kind(d)' # "init"
  BY DEF Stays, Locks, Kind
<1> QED
  BY <1>1, <1>2, <1>3 DEF Kept, Locks

\* The process goes only from a client that is stopped, and who leaves that
\* state has the lock.
Starts(c) ==
    \/ UNCHANGED <<process, stopped>> \/ process' # 0 \/ stopped'
    \/ startLock # <<>> /\ Head(startLock) = c

\* A step of one call has to keep the reader fed, and its own part.
LEMMA CallListening ==
  ASSUME Listening, NEW c \in Calls, \A d \in Calls \ {c} : Stays(d),
         Queues(c), Starts(c), ClientOK', Fed', Locks(c)', Backed(c)', Open(c)',
         crossed => crossed', unread \subseteq unread',
         \A d \in Calls \ {c} : call'[d].fut = "open" => reader' = reader \/ reader'
  PROVE  Listening'
<1>1. ASSUME NEW d \in Calls \ {c} PROVE Locks(d)'
  BY QueuesLocks DEF Listening, ClientOK
<1>2. ASSUME NEW d \in Calls \ {c} PROVE Backed(d)'
  <2>1. CASE startLock # <<>> /\ Head(startLock) = c
    <3>1. ~Shakes(d)
      BY <2>1 DEF Listening, Locks
    <3> QED
      BY <3>1 DEF Shakes, Backed, Kind, Stays
  <2>2. CASE UNCHANGED <<process, stopped>> \/ process' # 0 \/ stopped'
    BY <2>2 DEF Listening, Backed, Kind, Stays
  <2> QED
    BY <2>1, <2>2 DEF Starts
<1>3. ASSUME NEW d \in Calls \ {c} PROVE Open(d)'
  BY DEF Listening, Open, Stays
<1> QED
  BY <1>1, <1>2, <1>3 DEF Listening

\* What sending a request does to the calls and the reader.
LEMMA SendsFacts ==
  ASSUME Sound, NEW c \in Calls, NEW kind \in {"init", "call"}, NEW proc, NEW halted \in BOOLEAN,
         reader \in BOOLEAN, Sends(c, kind, proc, halted)
  PROVE  /\ \A d \in Calls \ {c} : Stays(d)
         /\ call'[c].pc \in {"locking", "writing", "waiting"} /\ Kind(c)' = kind
         /\ call'[c].fut = "open" => reader' \/ call'[c].req \in unread'
         /\ reader' \in BOOLEAN /\ (reader => reader') /\ unread \subseteq unread'
         /\ \/ reader' = reader /\ UNCHANGED <<lines, threads>>
            \/ ~reader /\ ~halted /\ (proc = 0 \/ threads' # {})
<1> DEFINE lost == halted /\ ~reader
           cs == IF lost THEN Failed(call) ELSE call
<1>1. /\ cs \in [Calls -> Records]
      /\ \A d \in Calls : /\ cs[d].pc = call[d].pc /\ cs[d].req = call[d].req
                          /\ cs[d].fut = "open" => call[d].fut = "open"
  BY FailedCloses DEF Sound, RequestsOK
<1>2. /\ reader' \in BOOLEAN /\ (reader => reader')
      /\ \/ reader' = reader /\ UNCHANGED <<lines, threads>>
         \/ ~reader /\ ~halted /\ (proc = 0 \/ threads' # {})
  BY DEF Sends, StartReader
<1>3. CASE callLock = <<>>
  <2> DEFINE able == ~halted /\ proc # 0
             r == Request(c, kind, nextId + 1)
             new == [Idle EXCEPT !.pc = IF able THEN "writing" ELSE "waiting",
                                 !.req = r, !.fut = IF lost THEN "failed" ELSE "open"]
  <2>1. /\ call' = [cs EXCEPT ![c] = new]
        /\ unread' = IF reader' \/ lost THEN unread ELSE unread \cup {r}
    BY <1>3 DEF Sends, Register
  <2>2. /\ new.pc \in {"writing", "waiting"} /\ new.req = r /\ r.kind = kind
        /\ new.fut = "open" => ~lost
    BY DEF Idle, Request
  <2> HIDE DEF cs, new, r, lost
  <2> QED
    BY <1>1, <1>2, <2>1, <2>2 DEF Stays, Kind
<1>4. CASE callLock # <<>>
  <2> DEFINE new == [Idle EXCEPT !.pc = "locking", !.req = Request(c, kind, 0)]
  <2>1. call' = [cs EXCEPT ![c] = new] /\ UNCHANGED unread
    BY <1>4 DEF Sends
  <2>2. new.pc = "locking" /\ new.req.kind = kind /\ new.fut = "none"
    BY DEF Idle, Request
  <2> HIDE DEF cs, new
  <2> QED
    BY <1>1, <1>2, <2>1, <2>2 DEF Stays, Kind
<1> QED
  BY <1>3, <1>4

\* A request of a client that runs, or whose handshake was answered.
LEMMA SendsListening ==
  ASSUME IInv, NEW c \in Calls, NEW kind \in {"init", "call"}, NEW proc, NEW halted \in BOOLEAN,
         Sends(c, kind, proc, halted), Queues(c), Starts(c),
         process' \in {0} \cup Procs, born' \in 0 .. MaxProcs, stopped' \in BOOLEAN,
         crossed' \in {crossed, TRUE}, ~crossed' /\ stopping' # "no" => stopped',
         ~crossed' /\ ~halted /\ ~reader => proc # 0,
         kind = "init" => process' # 0 /\ startLock' = startLock /\ At(c, "spawning")
  PROVE  Listening'
<1>0. Sound /\ Listening /\ ClientOK /\ Fed /\ Locks(c)
  BY DEF IInv, Listening
<1>1. /\ \A d \in Calls \ {c} : Stays(d)
      /\ call'[c].pc \in {"locking", "writing", "waiting"} /\ Kind(c)' = kind
      /\ call'[c].fut = "open" => reader' \/ call'[c].req \in unread'
      /\ reader' \in BOOLEAN /\ (reader => reader') /\ unread \subseteq unread'
      /\ \/ reader' = reader /\ UNCHANGED <<lines, threads>>
         \/ ~reader /\ ~halted /\ (proc = 0 \/ threads' # {})
  BY <1>0, SendsFacts DEF ClientOK
<1>2. startLock' \in Seq(Calls)
  BY <1>0, QueuesTyped DEF ClientOK
<1>3. ClientOK'
  <2>1. crossed' \in BOOLEAN
    BY <1>0 DEF ClientOK
  <2>2. halted \in BOOLEAN /\ born' \in 0 .. MaxProcs /\ reader' \in BOOLEAN
    BY <1>1
  <2> QED
    BY <1>1, <1>2, <2>1, <2>2 DEF ClientOK
<1>4. Fed'
  BY <1>0, <1>1 DEF Fed
<1>5. Locks(c)' /\ Backed(c)' /\ Open(c)'
  BY <1>0, <1>1 DEF Locks, Backed, Open, Shakes, At, Kind
<1>6. \A d \in Calls \ {c} : call'[d].fut = "open" => reader' = reader \/ reader'
  BY <1>0, <1>1 DEF ClientOK
<1> QED
  <2>1. crossed => crossed'
    OBVIOUS
  <2> QED
    BY <1>0, <1>1, <1>3, <1>4, <1>5, <1>6, <2>1, CallListening

\* A call goes on without sending: its request is as it was, or it has none.
LEMMA MovesListening ==
  ASSUME IInv, NEW c \in Calls, NEW new \in Records, call' = [call EXCEPT ![c] = new],
         Queues(c), Locks(c)',
         \/ new.req = call[c].req /\ new.fut = call[c].fut
         \/ new.req.kind # "init" /\ new.fut = "none",
         stopped' \in BOOLEAN, crossed' \in {crossed, TRUE},
         Starts(c), ~crossed' /\ stopping' # "no" => stopped',
         stopped' = stopped \/ new.req.kind # "init",
         UNCHANGED <<process, born, reader, lines, threads, unread>>
  PROVE  Listening'
<1>0. Listening /\ ClientOK /\ Fed /\ Backed(c) /\ Open(c) /\ call \in [Calls -> Records]
  BY DEF IInv, Listening, Sound, RequestsOK
<1>1. call'[c] = new /\ \A d \in Calls \ {c} : Stays(d)
  BY <1>0 DEF Stays
<1>2. ClientOK'
  BY <1>0, QueuesTyped DEF ClientOK
<1>3. Fed'
  BY <1>0 DEF Fed
<1>4. Backed(c)' /\ Open(c)'
  BY <1>0, <1>1 DEF Backed, Open, Kind
<1>5. crossed => crossed'
  OBVIOUS
<1> QED
  BY <1>0, <1>1, <1>2, <1>3, <1>4, <1>5, CallListening

\* A call that held the start lock stops the client.
LEMMA GivesUpListening ==
  ASSUME IInv, NEW c \in Calls, Shakes(c), GivesUp(c) PROVE Listening'
<1>0. Listening /\ ClientOK /\ Fed /\ startLock # <<>> /\ Head(startLock) = c
  BY DEF IInv, Listening, Locks
<1> DEFINE cs == Failed(call)
<1>1. /\ cs \in [Calls -> Records]
      /\ \A d \in Calls : /\ cs[d].pc = call[d].pc /\ cs[d].req = call[d].req /\ cs[d].fut # "open"
  BY FailedCloses DEF IInv, Sound
<1>2. /\ call' = [Acknowledged(cs, ToSet(writes)) EXCEPT ![c] = Done]
      /\ startLock' = Tail(startLock) /\ reader' = FALSE /\ stopped' = TRUE /\ process' = 0
      /\ UNCHANGED <<born, stopping, crossed, unread>>
  BY DEF GivesUp, Told, Forgotten
<1> HIDE DEF cs
<1>3. DOMAIN Acknowledged(cs, ToSet(writes)) = Calls
  BY DEF Acknowledged
<1>4. \A d \in Calls \ {c} : Stays(d) /\ call'[d].fut # "open"
  BY <1>1, <1>2, <1>3, AcknowledgedFacts DEF Stays
<1>5. call'[c] = Done /\ Done.pc = "done" /\ Done.fut = "none" /\ Done.req.kind = "none"
  BY <1>2, <1>3 DEF Done, Idle, NoRequest, Request
<1>6. Queues(c) /\ Starts(c)
  BY <1>0, <1>2 DEF Queues, Starts
<1>7. ClientOK' /\ Fed'
  BY <1>0, <1>2, <1>6, QueuesTyped DEF ClientOK, Fed
<1>8. Locks(c)' /\ Backed(c)' /\ Open(c)'
  BY <1>5 DEF Locks, Backed, Open, Shakes, At, Kind
<1> QED
  BY <1>0, <1>2, <1>4, <1>6, <1>7, <1>8, CallListening

\* A call sends its request, or queues up to start the server.
LEMMA BeginListening == ASSUME IInv, NEW c \in Calls, Begin(c) PROVE Listening'
<1>0. /\ Listening /\ ClientOK /\ Fed /\ Locks(c) /\ call \in [Calls -> Records] /\ At(c, "idle")
      /\ UNCHANGED <<process, born, stopped, stopping, crossed>>
  BY DEF IInv, Listening, Sound, RequestsOK, Begin
<1>1. Starts(c) /\ (~crossed' /\ stopping' # "no" => stopped') /\ process' \in {0} \cup Procs
      /\ born' \in 0 .. MaxProcs /\ stopped' \in BOOLEAN /\ crossed' \in {crossed, TRUE}
  BY <1>0 DEF Starts, Fed, ClientOK
<1>2. CASE Live
  <2>1. /\ Sends(c, "call", process, stopped) /\ startLock' = startLock /\ process # 0
        /\ stopped \in BOOLEAN
    BY <1>0, <1>2 DEF Begin, Live, ClientOK
  <2> QED
    BY <1>1, <2>1, SendsListening DEF Queues
<1>3. CASE ~Live
  <2> DEFINE new == [call[c] EXCEPT !.pc = "starting"]
  <2>1. /\ new \in Records /\ new.pc = "starting" /\ new.req = call[c].req /\ new.fut = call[c].fut
        /\ Kind(c) # "init"
    BY <1>0 DEF Records, Locks, At
  <2>2. /\ call' = [call EXCEPT ![c] = new] /\ startLock' = Append(startLock, c)
        /\ UNCHANGED <<reader, lines, threads, unread>>
    BY <1>3 DEF Begin
  <2> HIDE DEF new
  <2>3. Locks(c)'
    BY <1>0, <2>1, <2>2, AppendSet DEF Locks, Shakes, At, Kind, ClientOK
  <2> QED
    BY <1>0, <1>1, <2>1, <2>2, <2>3, MovesListening DEF Queues
<1> QED
  BY <1>2, <1>3

\* Who holds the start lock sends its request, or starts the server.
LEMMA StartEntersListening ==
  ASSUME IInv, NEW c \in Calls, StartEnters(c)
  PROVE  Listening'
<1>0. /\ Listening /\ ClientOK /\ Fed /\ Locks(c) /\ call \in [Calls -> Records]
      /\ At(c, "starting") /\ Head(startLock) = c
      /\ stopped' = FALSE /\ UNCHANGED <<process, born, stopping>>
  BY DEF IInv, Listening, Sound, RequestsOK, StartEnters
<1>1. startLock # <<>>
  <2>1. c \in ToSet(startLock)
    BY <1>0 DEF Locks
  <2> QED
    BY <2>1 DEF ToSet
<1>2. /\ crossed' \in {crossed, TRUE} /\ (~crossed' => stopping' = "no") /\ stopped' \in BOOLEAN
      /\ process' \in {0} \cup Procs /\ born' \in 0 .. MaxProcs
      /\ Starts(c)
  BY <1>0, <1>1 DEF ClientOK, StartEnters, Starts
<1>3. CASE Live
  <2>1. Sends(c, "call", process, FALSE) /\ startLock' = Tail(startLock) /\ process # 0
    BY <1>3 DEF StartEnters, Live
  <2>2. Queues(c)
    BY <1>0, <1>1, <2>1 DEF Queues
  <2> QED
    BY <1>2, <2>1, <2>2, SendsListening
<1>4. CASE ~Live
  <2> DEFINE new == [call[c] EXCEPT !.pc = "spawning"]
  <2>1. /\ new \in Records /\ new.pc = "spawning" /\ new.req = call[c].req /\ new.fut = call[c].fut
        /\ Kind(c) # "init"
    BY <1>0 DEF Records, Locks, At
  <2>2. /\ call' = [call EXCEPT ![c] = new] /\ startLock' = startLock
        /\ UNCHANGED <<reader, lines, threads, unread>>
    BY <1>4 DEF StartEnters
  <2> HIDE DEF new
  <2>3. Locks(c)'
    BY <1>0, <1>1, <2>1, <2>2 DEF Locks, Shakes, At, Kind
  <2> QED
    BY <1>0, <1>2, <2>1, <2>2, <2>3, MovesListening DEF Queues, Kind
<1> QED
  BY <1>3, <1>4

\* The handshake goes to the process just started.
LEMMA SpawnedListening == ASSUME IInv, NEW c \in Calls, Spawned(c) PROVE Listening'
<1>0. /\ ClientOK /\ Fed /\ At(c, "spawning") /\ Sends(c, "init", born + 1, stopped)
      /\ born' = born + 1 /\ process' = born + 1 /\ born < MaxProcs
      /\ UNCHANGED <<startLock, stopped, stopping, crossed>>
  BY DEF IInv, Listening, Spawned
<1>1. /\ born + 1 # 0 /\ process' \in {0} \cup Procs /\ born' \in 0 .. MaxProcs /\ process' # 0
  BY <1>0 DEF ClientOK
<1>2. /\ stopped \in BOOLEAN /\ stopped' \in BOOLEAN /\ crossed' \in {crossed, TRUE}
      /\ ~crossed' /\ stopping' # "no" => stopped'
  BY <1>0 DEF ClientOK, Fed
<1>3. Queues(c) /\ Starts(c)
  BY <1>0, <1>1 DEF Queues, Starts
<1> QED
  BY <1>0, <1>1, <1>2, <1>3, SendsListening

\* The call lock is there: the reader may have ended since it was looked at.
LEMMA LockedListening == ASSUME IInv, NEW c \in Calls, Locked(c) PROVE Listening'
<1>0. /\ Listening /\ ClientOK /\ Fed /\ Locks(c) /\ Backed(c) /\ call \in [Calls -> Records]
      /\ UNCHANGED <<process, born, startLock, reader, lines, threads, stopped, stopping, crossed>>
  BY DEF IInv, Listening, Sound, RequestsOK, Locked
<1> DEFINE able == ~stopped /\ process # 0
           r == Request(c, Kind(c), nextId + 1)
           new == [Idle EXCEPT !.pc = IF able THEN "writing" ELSE "waiting", !.req = r, !.fut = "open"]
<1>1. /\ call' = [call EXCEPT ![c] = new]
      /\ unread' = IF reader' THEN unread ELSE unread \cup {r}
  BY DEF Locked, Register
<1>2. new.pc \in {"writing", "waiting"} /\ new.req = r /\ r.kind = Kind(c)
  BY DEF Idle, Request
<1> HIDE DEF new, r
<1>3. \A d \in Calls \ {c} : Stays(d)
  BY <1>0, <1>1 DEF Stays
<1>4. Locks(c)' /\ Backed(c)' /\ Open(c)'
  BY <1>0, <1>1, <1>2 DEF Locks, Backed, Open, Shakes, At, Kind
<1>5. ClientOK' /\ Fed' /\ Queues(c) /\ Starts(c)
  BY <1>0 DEF ClientOK, Fed, Queues, Starts
<1> QED
  BY <1>0, <1>1, <1>3, <1>4, <1>5, CallListening

\* The call waits for its answer ...
LEMMA WaitsListening ==
  ASSUME IInv, NEW c \in Calls, At(c, "writing"), call' = [call EXCEPT ![c].pc = "waiting"],
         UNCHANGED <<process, born, startLock, reader, lines, threads, stopped, stopping, crossed, unread>>
  PROVE  Listening'
<1> DEFINE new == [call[c] EXCEPT !.pc = "waiting"]
<1>0. /\ Listening /\ ClientOK /\ Fed /\ Locks(c) /\ call \in [Calls -> Records]
  BY DEF IInv, Listening, Sound, RequestsOK
<1>1. new \in Records /\ new.pc = "waiting" /\ new.req = call[c].req /\ new.fut = call[c].fut
  BY <1>0 DEF Records
<1>2. call' = [call EXCEPT ![c] = new]
  OBVIOUS
<1> HIDE DEF new
<1>3. Locks(c)'
  BY <1>0, <1>1, <1>2 DEF Locks, Shakes, At, Kind
<1>4. Queues(c) /\ Starts(c) /\ stopped' \in BOOLEAN /\ (~crossed' /\ stopping' # "no" => stopped')
  BY <1>0 DEF Queues, Starts, ClientOK, Fed
<1> QED
  BY <1>1, <1>2, <1>3, <1>4, MovesListening

\* ... or it is over.
LEMMA EndsListening ==
  ASSUME IInv, NEW c \in Calls, call' = [call EXCEPT ![c] = Done], Queues(c),
         UNCHANGED <<process, born, reader, lines, threads, stopped, stopping, crossed, unread>>
  PROVE  Listening'
<1>0. ClientOK /\ Fed /\ call \in [Calls -> Records]
  BY DEF IInv, Listening, Sound, RequestsOK
<1>1. Done \in Records /\ Done.pc = "done" /\ Done.fut = "none" /\ Done.req.kind = "none"
  BY DEF Done, Idle, NoRequest, Request, Records, AnyReq
<1>2. Locks(c)'
  BY <1>0, <1>1 DEF Locks, Shakes, At, Kind
<1>3. Starts(c) /\ stopped' \in BOOLEAN /\ (~crossed' /\ stopping' # "no" => stopped')
  BY <1>0 DEF Starts, ClientOK, Fed
<1> QED
  BY <1>1, <1>2, <1>3, MovesListening

\* A call whose write is over waits, or ends with an error.
LEMMA AckedListening ==
  ASSUME IInv, NEW c \in Calls, Acked(c) \/ AckTimesOut(c)
  PROVE  Listening'
<1>1. CASE call[c].ack = "ok" \/ AckTimesOut(c)
  BY <1>1, WaitsListening DEF Acked, AckTimesOut
<1>2. CASE Acked(c) /\ call[c].ack # "ok" /\ Kind(c) = "init"
  BY <1>2, GivesUpListening DEF Acked, Shakes
<1>3. CASE Acked(c) /\ call[c].ack # "ok" /\ Kind(c) # "init"
  BY <1>3, EndsListening DEF Acked, Queues
<1> QED
  BY <1>1, <1>2, <1>3

\* The answer to the handshake frees the start lock.
LEMMA AnsweredListening == ASSUME IInv, NEW c \in Calls, Answered(c) PROVE Listening'
<1>0. /\ ClientOK /\ Fed /\ Locks(c) /\ Backed(c)
      /\ UNCHANGED <<process, born, stopped, stopping, crossed>>
  BY DEF IInv, Listening, Answered
<1>1. CASE Kind(c) = "init"
  <2>1. /\ Sends(c, "call", process, stopped) /\ startLock' = Tail(startLock)
        /\ startLock # <<>> /\ Head(startLock) = c
    BY <1>0, <1>1 DEF Answered, Locks, Shakes
  <2>2. Queues(c) /\ Starts(c)
    BY <1>0, <2>1 DEF Queues, Starts
  <2>3. /\ process' \in {0} \cup Procs /\ born' \in 0 .. MaxProcs
        /\ stopped \in BOOLEAN /\ stopped' \in BOOLEAN /\ crossed' \in {crossed, TRUE}
        /\ ~crossed' /\ stopping' # "no" => stopped'
        /\ ~crossed' /\ ~stopped => process # 0
    BY <1>0, <1>1 DEF ClientOK, Fed, Backed
  <2> QED
    BY <2>1, <2>2, <2>3, SendsListening
<1>2. CASE Kind(c) # "init"
  BY <1>0, <1>2, EndsListening DEF Answered, Queues
<1> QED
  BY <1>1, <1>2

\* A handshake without an answer stops the client, on the loop.
LEMMA NoAnswerListening ==
  ASSUME IInv, NEW c \in Calls, NoAnswer(c) \/ SpawnFails(c) PROVE Listening'
<1>1. CASE SpawnFails(c)
  BY <1>1, GivesUpListening DEF SpawnFails, Shakes
<1>2. CASE NoAnswer(c) /\ Kind(c) = "init"
  BY <1>2, GivesUpListening DEF NoAnswer, Shakes
<1>3. CASE NoAnswer(c) /\ Kind(c) # "init"
  BY <1>3, EndsListening DEF NoAnswer, Queues
<1> QED
  BY <1>1, <1>2, <1>3

\* A cancelled call leaves the locks.
LEMMA CancelListening == ASSUME IInv, NEW c \in Calls, Cancel(c) PROVE Listening'
BY EndsListening DEF Cancel, Queues

-----------------------------------------------------------------------------

\* Every step keeps the invariant.
LEMMA NextKeeps == IInv /\ [Next]_vars => IInv'
<1> SUFFICES ASSUME IInv, [Next]_vars PROVE IInv'
  OBVIOUS
<1>0. Sound /\ reader \in BOOLEAN /\ stopped \in BOOLEAN
  BY DEF IInv, Listening, ClientOK
<1>1. ASSUME NEW c \in Calls, Begin(c) \/ StartEnters(c) \/ Spawned(c) \/ Locked(c) PROVE IInv'
  BY <1>0, <1>1, BeginSound, BeginListening, StartEntersSound, StartEntersListening,
     SpawnedSound,
     SpawnedListening, LockedSound, LockedListening DEF IInv
<1>2. ASSUME NEW c \in Calls, Acked(c) \/ AckTimesOut(c) \/ Answered(c) \/ Cancel(c) PROVE IInv'
  BY <1>0, <1>2, AckedSound, AckedListening, AnsweredSound, AnsweredListening, CancelSound,
     CancelListening DEF IInv
<1>3. ASSUME NEW c \in Calls, NoAnswer(c) \/ SpawnFails(c) PROVE IInv'
  BY <1>0, <1>3, NoAnswerSound, GivesUpSound, NoAnswerListening DEF IInv, SpawnFails
<1>4. CASE ReaderReads
  BY <1>0, <1>4, ReaderReadsSound, ReaderReadsListening DEF IInv
<1>5. CASE ReaderDies \/ PoolStops \/ PoolStopped
  <2>1. CASE ReaderDies \/ PoolStops
    <3>1. /\ call' = Failed(call) /\ pending' = {} /\ lines' \in {lines, <<>>}
          /\ UNCHANGED <<inbox, outbox, nextId, writes, leaked>>
      BY <2>1 DEF ReaderDies, PoolStops, Told
    <3> QED
      BY <1>0, <2>1, <3>1, AllFailSound, PoolListening DEF IInv
  <2>2. CASE PoolStopped
    BY <1>0, <2>2, PoolStoppedSound, PoolListening DEF IInv
  <2> QED
    BY <1>5, <2>1, <2>2
<1>6. CASE WriterWrites
  BY <1>0, <1>6, WriterSound, OutsideListening DEF IInv
<1>7. CASE PoolKills \/ \E p \in Procs : Exits(p) \/ ChildEnds(p)
  <2>1. UNCHANGED <<inbox, outbox, call, nextId, pending, writes, lines, leaked>>
    BY <1>7 DEF PoolKills, Exits, ChildEnds
  <2> QED
    BY <1>0, <1>7, <2>1, StillSound, OutsideListening DEF IInv
<1>8. ASSUME NEW p \in Procs, ThreadReads(p) \/ ThreadEnds(p) PROVE IInv'
  BY <1>0, <1>8, ThreadSound, ThreadListening DEF IInv
<1>9. ASSUME NEW p \in Procs, NEW r \in inbox[p], Answers(p, r) PROVE IInv'
  BY <1>0, <1>9, AnswersSound, OutsideListening DEF IInv
<1>10. CASE UNCHANGED vars
  <2>1. Sound'
    BY <1>0, <1>10, StillSound DEF vars
  <2>2. \A c \in Calls : Stays(c)
    BY <1>10 DEF vars, Stays
  <2>3. Fed'
    BY <1>10 DEF vars, IInv, Listening, Fed
  <2> QED
    BY <1>10, <2>1, <2>2, <2>3, StayListening DEF vars, IInv
<1> QED
  BY <1>1, <1>2, <1>3, <1>4, <1>5, <1>6, <1>7, <1>8, <1>9, <1>10 DEF Next, Proceeds

\* IInv holds in every reachable state: requests are told apart by their numbers,
\* and an open future is registered and has a reader.
THEOREM Invariance == Spec => []IInv
<1>1. Init => IInv
  BY InitSound, InitListening DEF IInv
<1>2. IInv /\ [Next]_vars => IInv'
  BY NextKeeps
<1> QED
  BY <1>1, <1>2, PTL DEF Spec

\* Who sends a request gets the answer to it and to no other, whatever restarts
\* and comes too late, and a cancelled call leaves nothing registered (client.py).
THEOREM AnswersAreMatched == Spec => []Matched
<1>1. ASSUME IInv PROVE Matched
  <2>1. \A c \in Calls : call[c].fut = "answered" => call[c].got = call[c].req
    BY <1>1 DEF IInv, Sound, Future
  <2>2. ASSUME NEW r \in pending, r \notin leaked
        PROVE  r \in {call[c].req : c \in {d \in Calls : call[d].pc \in {"writing", "waiting"}}}
    BY <1>1, <2>2 DEF IInv, Sound, Owned, Sent
  <2> QED
    BY <2>1, <2>2 DEF Matched
<1> QED
  BY <1>1, Invariance, PTL

\* A server that answers is heard, or the call is told that it failed.
THEOREM ServersAreHeard == Spec => []Heard
<1>1. ASSUME IInv PROVE Heard
  <2>1. ASSUME NEW c \in Calls, AnswerInPipe(c), call[c].req \notin unread, ~crossed
        PROVE  reader /\ (threads # {} \/ Eof \in ToSet(lines))
    BY <1>1, <2>1 DEF IInv, Listening, Open, Fed, AnswerInPipe
  <2> QED
    BY <2>1 DEF Heard
<1> QED
  BY <1>1, Invariance, PTL

=============================================================================
