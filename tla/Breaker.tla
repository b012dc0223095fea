------------------------------ MODULE Breaker ------------------------------
(***************************************************************************)
(* resilient_call (src/jim/net/resilience.py): the timeout, retry and      *)
(* circuit-breaker regime every outbound call of the agent runs under, for *)
(* the concurrent calls of one process to one host.                        *)
(*                                                                         *)
(* Each step is the code between two awaits of resilient_call, which is    *)
(* what asyncio runs without interleaving: admission up to the first dial, *)
(* the end of one dial, the end of one backoff sleep.  The clock is the    *)
(* time since opened_at, in ticks, saturating at ResetTicks: the code only *)
(* asks whether it is below breaker_reset_seconds.  The failure count      *)
(* saturates at FailureCap for the same reason.                            *)
(***************************************************************************)
EXTENDS Integers

CONSTANTS
  Callers,     \* concurrent calls to the host
  Retries,     \* policy.retries
  Threshold,   \* policy.breaker_failure_threshold
  ResetTicks,  \* policy.breaker_reset_seconds, in ticks
  FailureCap,  \* bound of the failure counter
  None         \* opened_at is None: the breaker is closed

ASSUME RetriesAssumption    == Retries \in Nat
ASSUME ThresholdAssumption  == Threshold \in Nat \ {0}
ASSUME ResetTicksAssumption == ResetTicks \in Nat \ {0}
ASSUME FailureCapAssumption == FailureCap \in Nat /\ FailureCap >= Threshold
ASSUME NoneAssumption       == None \notin Nat

VARIABLES
  failures,   \* _BreakerState.failures
  openedAge,  \* None, or the ticks since _BreakerState.opened_at
  stage,      \* per call: "idle", "dialing" (await fn()), "backoff" (_sleep)
  attempt,    \* per call: the loop variable
  up,         \* does the host answer within policy.timeout_seconds?
  stray       \* history: dials per call since the breaker is cooling down

vars == <<failures, openedAge, stage, attempt, up, stray>>

Stage == {"idle", "dialing", "backoff"}

TypeOK ==
  /\ failures \in 0..FailureCap
  /\ openedAge \in {None} \cup 0..ResetTicks
  /\ stage \in [Callers -> Stage]
  /\ attempt \in [Callers -> 0..Retries]
  /\ up \in BOOLEAN
  /\ stray \in [Callers -> Nat]

Init ==
  /\ failures = 0
  /\ openedAge = None
  /\ stage = [c \in Callers |-> "idle"]
  /\ attempt = [c \in Callers |-> 0]
  /\ up = TRUE
  /\ stray = [c \in Callers |-> 0]

Cooling(age) == age # None /\ age # ResetTicks

Dialing  == {c \in Callers : stage[c] = "dialing"}
Backoff  == {c \in Callers : stage[c] = "backoff"}
InFlight == Dialing \cup Backoff

\* The history of dials is kept for as long as the breaker cools down.
KeepStray == stray' = IF Cooling(openedAge') THEN stray ELSE [c \in Callers |-> 0]

---------------------------------------------------------------------------
(* resilient_call *)

\* Mutant of Call: the breaker is not asked.
CallUnasked(c) ==
  /\ stage[c] = "idle"
  /\ stage' = [stage EXCEPT ![c] = "dialing"]
  /\ attempt' = [attempt EXCEPT ![c] = 0]
  /\ stray' = IF Cooling(openedAge) THEN [stray EXCEPT ![c] = @ + 1] ELSE stray
  /\ UNCHANGED <<failures, openedAge, up>>

\* Entry, breaker closed or cooldown elapsed: the first attempt dials the host.
\* An open breaker that is still cooling raises CircuitOpen: nothing changes.
Call(c) ==
  /\ stage[c] = "idle"
  /\ ~Cooling(openedAge)
  /\ stage' = [stage EXCEPT ![c] = "dialing"]
  /\ attempt' = [attempt EXCEPT ![c] = 0]
  /\ UNCHANGED <<failures, openedAge, up, stray>>

\* The call ended: returned, raised or was cancelled.
Ends(c) ==
  /\ stage' = [stage EXCEPT ![c] = "idle"]
  /\ attempt' = [attempt EXCEPT ![c] = 0]

\* Mutant of Answer: opened_at is not cleared.
AnswerKeepsStamp(c) ==
  /\ stage[c] = "dialing"
  /\ up
  /\ failures' = 0
  /\ UNCHANGED <<openedAge, up>>
  /\ Ends(c)
  /\ KeepStray

\* The host answered, with a result or a semantic error: the breaker closes.
Answer(c) ==
  /\ stage[c] = "dialing"
  /\ up
  /\ failures' = 0
  /\ openedAge' = None
  /\ Ends(c)
  /\ KeepStray
  /\ UNCHANGED up

\* Mutant of CountFailure: an open breaker is not stamped again.
CountFailureOnce ==
  /\ failures' = IF failures < FailureCap THEN failures + 1 ELSE FailureCap
  /\ openedAge' = IF failures + 1 = Threshold THEN 0 ELSE openedAge

\* A transport failure is counted, and at the threshold the breaker is stamped
\* open, or stamped again.
CountFailure ==
  /\ failures' = IF failures < FailureCap THEN failures + 1 ELSE FailureCap
  /\ openedAge' = IF failures + 1 >= Threshold THEN 0 ELSE openedAge

\* Mutant of FailAndBackOff: one retry too many.
FailAndBackOffOnceMore(c) ==
  /\ stage[c] = "dialing"
  /\ ~up
  /\ CountFailure
  /\ attempt[c] <= Retries
  /\ stage' = [stage EXCEPT ![c] = "backoff"]
  /\ KeepStray
  /\ UNCHANGED <<attempt, up>>

\* A transport failure or the wall-clock timeout with attempts left: back off.
FailAndBackOff(c) ==
  /\ stage[c] = "dialing"
  /\ ~up
  /\ CountFailure
  /\ attempt[c] < Retries
  /\ stage' = [stage EXCEPT ![c] = "backoff"]
  /\ KeepStray
  /\ UNCHANGED <<attempt, up>>

\* The same on the last attempt: the exception is raised.
FailAndRaise(c) ==
  /\ stage[c] = "dialing"
  /\ ~up
  /\ CountFailure
  /\ attempt[c] >= Retries
  /\ Ends(c)
  /\ KeepStray
  /\ UNCHANGED up

\* Mutant of Redial: the attempts are not counted.
RedialUncounted(c) ==
  /\ stage[c] = "backoff"
  /\ stage' = [stage EXCEPT ![c] = "dialing"]
  /\ stray' = IF Cooling(openedAge) THEN [stray EXCEPT ![c] = @ + 1] ELSE stray
  /\ UNCHANGED <<failures, openedAge, attempt, up>>

\* The sleep is over: the next attempt dials.  The breaker is not read again.
Redial(c) ==
  /\ stage[c] = "backoff"
  /\ stage' = [stage EXCEPT ![c] = "dialing"]
  /\ attempt' = [attempt EXCEPT ![c] = @ + 1]
  /\ stray' = IF Cooling(openedAge) THEN [stray EXCEPT ![c] = @ + 1] ELSE stray
  /\ UNCHANGED <<failures, openedAge, up>>

\* CancelledError passes both except clauses: the breaker is left as it is.
Cancel(c) ==
  /\ stage[c] # "idle"
  /\ Ends(c)
  /\ UNCHANGED <<failures, openedAge, up, stray>>

---------------------------------------------------------------------------
(* The environment *)

Tick ==
  /\ Cooling(openedAge)
  /\ openedAge' = openedAge + 1
  /\ KeepStray
  /\ UNCHANGED <<failures, stage, attempt, up>>

HostFlips ==
  /\ up' = ~up
  /\ UNCHANGED <<failures, openedAge, stage, attempt, stray>>

CallStep(c) ==
  \/ Call(c)
  \/ Answer(c)
  \/ FailAndBackOff(c)
  \/ FailAndRaise(c)
  \/ Redial(c)
  \/ Cancel(c)

Next == (\E c \in Callers : CallStep(c)) \/ Tick \/ HostFlips

Spec == Init /\ [][Next]_vars

\* asyncio.timeout ends every dial, asyncio wakes every sleeper, time passes.
Fairness ==
  /\ WF_vars(Tick)
  /\ \A c \in Callers :
       /\ WF_vars(Answer(c) \/ FailAndBackOff(c) \/ FailAndRaise(c))
       /\ WF_vars(Redial(c))

FairSpec == Spec /\ Fairness

---------------------------------------------------------------------------
(* Properties *)

\* The two fields of _BreakerState never disagree: opened_at is set exactly
\* while at least Threshold consecutive transport failures are counted, also
\* when late answers and late failures of several calls cross.
StampMatchesCount == (openedAge # None) <=> (failures >= Threshold)

\* A host declared down is not hammered: from the moment the breaker opens
\* until its cooldown has elapsed, or an answer closes it, no call dials more
\* than Retries times, however often stragglers stamp the breaker again.
StrayBound == \A c \in Callers : stray[c] <= Retries

Mode ==
  IF openedAge = None THEN "closed"
  ELSE IF Cooling(openedAge) THEN "open" ELSE "half"

Abs == INSTANCE CircuitBreaker WITH mode <- Mode, trying <- Dialing, resting <- Backoff

\* resilient_call is a circuit breaker: no call is admitted while it cools
\* down, an answer closes it, a failed probe opens it for a whole cooldown.
ImplementsCircuitBreaker == Abs!Spec

\* Every call ends (retries are bounded, dials time out), whatever the host
\* and the other calls do.
CallTerminates == \A c \in Callers : (stage[c] # "idle") ~> (stage[c] = "idle")

\* A cancellation that no answer explains as well.
Cancels == \E c \in Callers : Cancel(c) /\ ~Answer(c)

\* A host that is back is used again: if it stays up, callers keep calling and
\* are not cancelled, the breaker closes, and for good.
Recovery ==
  (/\ <>[]up
   /\ <>[][~Cancels]_vars
   /\ []<>(InFlight # {} \/ openedAge = None))
    => <>[](openedAge = None)
=============================================================================
