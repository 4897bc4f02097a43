--------------------------- MODULE CircuitBreaker ---------------------------
(***************************************************************************)
(* The per-provider circuit breaker of core/infrastructure/runtime and the *)
(* request streams of core/infrastructure/llm/base/stream_loop.py that use *)
(* it.  Each public method runs under the breaker's lock, so each call is  *)
(* one atomic step; the streams run on one event loop and interleave at    *)
(* their awaits.  A stream asks allow_request before a request, retries    *)
(* inside it, and reports exactly one outcome, unless its task is          *)
(* cancelled: then it reports nothing.                                     *)
(*                                                                         *)
(* Time is counted in ticks.  Instead of absolute stamps the model keeps   *)
(* ages: openAge of _opened_at, and for the failure stamps the number of   *)
(* failures of each age up to the TTL.                                     *)
(***************************************************************************)
EXTENDS Integers

CONSTANTS
  Providers,     \* provider keys
  Streams,       \* concurrent turns: the main agent's and the subagents'
  Threshold,     \* failure_threshold (settings: at least 1)
  Cooldown,      \* cooldown_seconds, in ticks (settings: at least 0)
  Ttl,           \* failure_ttl_seconds, in ticks
  MaxRetries     \* attempts a stream makes at one request

ASSUME BreakerAssumption ==
  /\ Threshold \in Nat \ {0}
  /\ Cooldown \in Nat
  /\ Ttl \in Nat
  /\ MaxRetries \in Nat \ {0}

VARIABLES
  state,      \* _state
  failures,   \* _failures and _failure_timestamps: how many of each age
  openAge,    \* now - _opened_at, saturated at Cooldown
  inFlight,   \* _half_open_in_flight
  pc,         \* where each stream is
  provider,   \* pkey of the stream's latest request
  attempt,    \* attempt, in _stream_attempts
  hinted,     \* the request's images were replaced after a vision error
  admitted,   \* history: requests let through in the current HALF_OPEN phase
  sinceOk,    \* history: failures reported since the last success or reset
  sinceTrip,  \* history: ticks since the latest trip, up to Cooldown; Cooldown
              \* also once a success was reported after it
  dropped     \* history: a request, the probe or an earlier one, was cancelled
              \* in the HALF_OPEN phase

breaker == <<state, failures, openAge, inFlight>>
stream == <<pc, provider, attempt, hinted>>
breakerHistory == <<admitted, sinceOk, sinceTrip, dropped>>
breakerVars == <<breaker, stream, breakerHistory>>

States == {"CLOSED", "OPEN", "HALF_OPEN"}
Phases == {"idle", "attempting", "backoff", "refused"}
Ages   == 0 .. Ttl

TypeOK ==
  /\ state \in [Providers -> States]
  /\ failures \in [Providers -> [Ages -> Nat]]
  /\ openAge \in [Providers -> 0 .. Cooldown]
  /\ inFlight \in [Providers -> BOOLEAN]
  /\ pc \in [Streams -> Phases]
  /\ provider \in [Streams -> Providers]
  /\ attempt \in [Streams -> 1 .. (MaxRetries + 1)]
  /\ hinted \in [Streams -> BOOLEAN]
  /\ admitted \in [Providers -> Nat]
  /\ sinceOk \in [Providers -> 0 .. Threshold]
  /\ sinceTrip \in [Providers -> 0 .. Cooldown]
  /\ dropped \in [Providers -> BOOLEAN]

BreakerInit ==
  /\ state = [p \in Providers |-> "CLOSED"]
  /\ failures = [p \in Providers |-> [a \in Ages |-> 0]]
  /\ openAge = [p \in Providers |-> 0]
  /\ inFlight = [p \in Providers |-> FALSE]
  /\ pc = [s \in Streams |-> "idle"]
  /\ provider \in [Streams -> Providers]
  /\ attempt = [s \in Streams |-> 1]
  /\ hinted = [s \in Streams |-> FALSE]
  /\ admitted = [p \in Providers |-> 0]
  /\ sinceOk = [p \in Providers |-> 0]
  /\ sinceTrip = [p \in Providers |-> Cooldown]
  /\ dropped = [p \in Providers |-> FALSE]

-----------------------------------------------------------------------------
(* The breaker's methods                                                   *)

\* len(_failures): the failures of every age.
Count(f) ==
  LET sum[a \in Ages] == f[a] + IF a = 0 THEN 0 ELSE sum[a - 1]
  IN sum[Ttl]

Capped(n) == IF n < Threshold THEN n ELSE Threshold

CooledDown(p) == state[p] = "OPEN" /\ openAge[p] >= Cooldown

\* _get_state_locked: the state as a call sees it, after OPEN has lapsed.
SeenState(p) == IF CooledDown(p) THEN "HALF_OPEN" ELSE state[p]

\* The probe slot as a call sees it: it is cleared on the way to HALF_OPEN.
SeenInFlight(p) == ~ CooledDown(p) /\ inFlight[p]

\* allow_request would return True.
Allows(p) ==
  \/ SeenState(p) = "CLOSED"
  \/ SeenState(p) = "HALF_OPEN" /\ ~ SeenInFlight(p)

\* What reading the state writes back.
ReadState(p) ==
  /\ state' = [state EXCEPT ![p] = SeenState(p)]
  /\ inFlight' = [inFlight EXCEPT ![p] = SeenInFlight(p)]

\* Mutant: the probe leaves the slot free.
TakeSlot_slotFree(p) == ReadState(p)

\* allow_request when it returns True: a half-open probe takes the slot.
TakeSlot(p) ==
  /\ state' = [state EXCEPT ![p] = SeenState(p)]
  /\ inFlight' = [inFlight EXCEPT
                    ![p] = IF SeenState(p) = "HALF_OPEN" THEN TRUE ELSE @]

\* Mutant: a success leaves the old failures counted.
RecordSuccess_keepsFailures(p) ==
  /\ UNCHANGED failures
  /\ state' = [state EXCEPT ![p] = "CLOSED"]
  /\ openAge' = [openAge EXCEPT ![p] = 0]
  /\ inFlight' = [inFlight EXCEPT ![p] = FALSE]

RecordSuccess(p) ==
  /\ failures' = [failures EXCEPT ![p] = [a \in Ages |-> 0]]
  /\ state' = [state EXCEPT ![p] = "CLOSED"]
  /\ openAge' = [openAge EXCEPT ![p] = 0]
  /\ inFlight' = [inFlight EXCEPT ![p] = FALSE]

Trip(p) ==
  /\ state' = [state EXCEPT ![p] = "OPEN"]
  /\ openAge' = [openAge EXCEPT ![p] = 0]
  /\ inFlight' = [inFlight EXCEPT ![p] = FALSE]

\* Mutant: a failed probe opens the breaker again but keeps the old stamp.
RecordFailure_oldStamp(p) ==
  LET counted == [failures[p] EXCEPT ![0] = @ + 1]
  IN IF SeenState(p) = "HALF_OPEN"
       THEN /\ state' = [state EXCEPT ![p] = "OPEN"]
            /\ inFlight' = [inFlight EXCEPT ![p] = FALSE]
            /\ UNCHANGED <<failures, openAge>>
       ELSE /\ failures' = [failures EXCEPT ![p] = counted]
            /\ IF Count(counted) >= Threshold
                 THEN Trip(p)
                 ELSE UNCHANGED <<state, openAge, inFlight>>

\* Mutant: a failed probe changes nothing, its slot stays taken.
RecordFailure_keepsProbe(p) ==
  LET counted == [failures[p] EXCEPT ![0] = @ + 1]
  IN IF SeenState(p) = "HALF_OPEN"
       THEN UNCHANGED breaker
       ELSE /\ failures' = [failures EXCEPT ![p] = counted]
            /\ IF Count(counted) >= Threshold
                 THEN Trip(p)
                 ELSE UNCHANGED <<state, openAge, inFlight>>

RecordFailure(p) ==
  LET counted == [failures[p] EXCEPT ![0] = @ + 1]
  IN IF SeenState(p) = "HALF_OPEN"
       THEN Trip(p) /\ UNCHANGED failures
       ELSE /\ failures' = [failures EXCEPT ![p] = counted]
            /\ IF Count(counted) >= Threshold
                 THEN Trip(p)
                 ELSE UNCHANGED <<state, openAge, inFlight>>

-----------------------------------------------------------------------------
(* The streams                                                             *)

\* stream_steps asks before a request; the answer True starts the attempts.
Start(s, p) ==
  /\ pc[s] = "idle"
  /\ Allows(p)
  /\ TakeSlot(p)
  /\ pc' = [pc EXCEPT ![s] = "attempting"]
  /\ provider' = [provider EXCEPT ![s] = p]
  /\ attempt' = [attempt EXCEPT ![s] = 1]
  /\ hinted' = [hinted EXCEPT ![s] = FALSE]
  /\ admitted' = [admitted EXCEPT
                    ![p] = IF SeenState(p) = "CLOSED" THEN 0
                           ELSE IF CooledDown(p) THEN 1 ELSE @ + 1]
  /\ UNCHANGED <<failures, openAge, sinceOk, sinceTrip, dropped>>

\* The answer False: the stream is about to raise CircuitBreakerOpenError.
Refuse(s, p) ==
  /\ pc[s] = "idle"
  /\ ~ Allows(p)
  /\ pc' = [pc EXCEPT ![s] = "refused"]
  /\ provider' = [provider EXCEPT ![s] = p]
  /\ UNCHANGED <<breaker, attempt, hinted, breakerHistory>>

\* remaining_cooldown, called for the error's text, reads the state once more.
ReadRemaining(s) ==
  LET p == provider[s]
  IN /\ pc[s] = "refused"
     /\ pc' = [pc EXCEPT ![s] = "idle"]
     /\ ReadState(p)
     /\ admitted' = [admitted EXCEPT ![p] = IF CooledDown(p) THEN 0 ELSE @]
     /\ UNCHANGED <<failures, openAge, provider, attempt, hinted>>
     /\ UNCHANGED <<sinceOk, sinceTrip, dropped>>

\* A retryable error with attempts left: the stream sleeps, then tries again.  An
\* answer cut by the token limit is retried alike, with a higher limit.
Retry(s) ==
  /\ pc[s] = "attempting"
  /\ attempt[s] < MaxRetries
  /\ pc' = [pc EXCEPT ![s] = "backoff"]
  /\ UNCHANGED <<breaker, provider, attempt, hinted, breakerHistory>>

Resume(s) ==
  /\ pc[s] = "backoff"
  /\ pc' = [pc EXCEPT ![s] = "attempting"]
  /\ attempt' = [attempt EXCEPT ![s] = @ + 1]
  /\ UNCHANGED <<breaker, provider, hinted, breakerHistory>>

\* A vision error: the images are replaced by hints, which can change the messages
\* once, and the stream tries again whatever attempts are left.
RetryWithHints(s) ==
  /\ pc[s] = "attempting"
  /\ ~ hinted[s]
  /\ hinted' = [hinted EXCEPT ![s] = TRUE]
  /\ attempt' = [attempt EXCEPT ![s] = @ + 1]
  /\ UNCHANGED <<breaker, pc, provider, breakerHistory>>

Succeed(s) ==
  /\ pc[s] = "attempting"
  /\ RecordSuccess(provider[s])
  /\ pc' = [pc EXCEPT ![s] = "idle"]
  /\ sinceOk' = [sinceOk EXCEPT ![provider[s]] = 0]
  /\ sinceTrip' = [sinceTrip EXCEPT ![provider[s]] = Cooldown]
  /\ dropped' = [dropped EXCEPT ![provider[s]] = FALSE]
  /\ UNCHANGED <<provider, attempt, hinted, admitted>>

\* The failure of a probe, or one failure too many: it (re)opens the breaker.
Trips(p) ==
  \/ SeenState(p) = "HALF_OPEN"
  \/ Count([failures[p] EXCEPT ![0] = @ + 1]) >= Threshold

Fail(s) ==
  /\ pc[s] = "attempting"
  /\ RecordFailure(provider[s])
  /\ pc' = [pc EXCEPT ![s] = "idle"]
  /\ sinceOk' = [sinceOk EXCEPT ![provider[s]] = Capped(@ + 1)]
  /\ sinceTrip' = [sinceTrip EXCEPT
                     ![provider[s]] = IF Trips(provider[s]) THEN 0 ELSE @]
  /\ dropped' = [dropped EXCEPT ![provider[s]] = FALSE]
  /\ UNCHANGED <<provider, attempt, hinted, admitted>>

\* The task is cancelled in the request or in the backoff sleep: CancelledError
\* is not an Exception, so neither outcome is reported.
CancelStream(s) ==
  /\ pc[s] \in {"attempting", "backoff"}
  /\ pc' = [pc EXCEPT ![s] = "idle"]
  /\ dropped' = [dropped EXCEPT
                   ![provider[s]] = IF state[provider[s]] = "HALF_OPEN"
                                       THEN TRUE ELSE @]
  /\ UNCHANGED <<breaker, provider, attempt, hinted, admitted, sinceOk, sinceTrip>>

\* reset(provider_key).  No code of the application calls it.
Reset(p) ==
  /\ RecordSuccess(p)
  /\ sinceOk' = [sinceOk EXCEPT ![p] = 0]
  /\ sinceTrip' = [sinceTrip EXCEPT ![p] = Cooldown]
  /\ dropped' = [dropped EXCEPT ![p] = FALSE]
  /\ UNCHANGED <<stream, admitted>>

\* The clock: stamps older than the TTL are those _prune_failures_locked drops.
Tick ==
  /\ failures' = [p \in Providers |->
                    [a \in Ages |-> IF a = 0 THEN 0 ELSE failures[p][a - 1]]]
  /\ openAge' = [p \in Providers |->
                   IF openAge[p] < Cooldown THEN openAge[p] + 1 ELSE Cooldown]
  /\ sinceTrip' = [p \in Providers |->
                     IF sinceTrip[p] < Cooldown THEN sinceTrip[p] + 1 ELSE Cooldown]
  /\ UNCHANGED <<state, inFlight, stream, admitted, sinceOk, dropped>>

\* What a running stream does next unless it is cancelled.
Proceed(s) ==
  \/ Retry(s) \/ Resume(s) \/ RetryWithHints(s)
  \/ Succeed(s) \/ Fail(s) \/ ReadRemaining(s)

BreakerNext ==
  \/ \E s \in Streams, p \in Providers : Start(s, p) \/ Refuse(s, p)
  \/ \E s \in Streams : Proceed(s) \/ CancelStream(s)
  \/ \E p \in Providers : Reset(p)
  \/ Tick

\* Time passes, and the transport's timeouts end every attempt; nobody is bound
\* to start a request, to cancel one or to reset the breaker.
Fairness ==
  /\ WF_breakerVars(Tick)
  /\ \A s \in Streams : WF_breakerVars(Proceed(s))

BreakerSpec == BreakerInit /\ [][BreakerNext]_breakerVars /\ Fairness

-----------------------------------------------------------------------------
(* Properties                                                              *)

\* A stream sleeps before a retry only while it has an attempt left, and makes one
\* attempt over MaxRetries only after its images were replaced.
RetryBudget ==
  \A s \in Streams :
    /\ pc[s] = "backoff" => attempt[s] < MaxRetries
    /\ attempt[s] > MaxRetries => hinted[s]

\* The half-open phase lets one request through: the slot is taken by the first
\* and every later one is refused until an outcome ends the phase.
SingleProbe ==
  \A p \in Providers :
    state[p] = "HALF_OPEN" =>
      /\ admitted[p] <= 1
      /\ admitted[p] = 1 => inFlight[p]

\* A closed breaker opens only after Threshold failures were reported since the
\* last success: a success forgets the failures before it.
TripsOnFreshFailures ==
  [][\A p \in Providers :
       state[p] = "CLOSED" /\ state'[p] = "OPEN" => sinceOk'[p] = Threshold]_breakerVars

\* A trip, the first one, one by a late failure and one by a failed probe alike,
\* keeps the provider quiet for Cooldown ticks, whatever the streams that were
\* already running do: a request starts earlier only if one of them reported a
\* success after that trip, which closes the breaker at once.
CooldownIsQuiet ==
  [][\A s \in Streams :
       pc[s] = "idle" /\ pc'[s] = "attempting" =>
         sinceTrip[provider'[s]] = Cooldown]_breakerVars

\* A breaker that opened comes back to letting requests through, unless a request,
\* the probe or an earlier one, was cancelled in the half-open phase: a cancelled
\* probe keeps the slot.
RecoversUnlessDropped ==
  \A p \in Providers : []<>(Allows(p) \/ dropped[p])

=============================================================================
