---------------------------- MODULE Procurement ----------------------------
(***************************************************************************)
(* Buying data (src/jim/sources/, research/budget.py, buyer/client.py):    *)
(* concurrent research runs, each with its own budget cap, gather from a   *)
(* crew of x402 sources - the primary first, then the peers - through one  *)
(* shared purchase cache and one shared trust ledger.                      *)
(*                                                                         *)
(* A step is the code between two awaits: of the store, of the pre-flight, *)
(* of the paying request.  Dollars are small integers; the TTL of a cached *)
(* datum is an Expire that may come at any time; the circuit breaker of    *)
(* resilient_call is Breaker's, here it may be open at any first dial.     *)
(***************************************************************************)
EXTENDS Integers, Sequences, FiniteSets

CONSTANTS
  Runs,          \* research runs of the process; each gathers once
  MaxActive,     \* bound: how many of them run at the same time
  Sources,       \* the sources' names
  Crew,          \* the sources a run gathers from, in order
  Peers,         \* those of them that are peer agents
  Ceiling,       \* settings.per_query_budget_usd
  Estimate,      \* price_estimate_usd of each source
  Prices,        \* the prices a 402 may name (0: not a 402, or no header)
  Repricing,     \* may the second 402 name another price than the first?
  Retries,       \* settings.resilience_retries
  Faults,        \* how an attempt may fail: subset of Fault
  Replies,       \* what a paid response may be: subset of Reply
  TrustFloor,    \* settings.peer_trust_floor, in percent
  TrustMinEvents \* settings.peer_trust_min_events

Fault == {"transport",  \* httpx.TransportError, httpx.TimeoutException
          "clock",      \* TimeoutError: the wall clock of resilient_call
          "open",       \* CircuitOpen, or a call chain too deep: before the first dial
          "unlisted",   \* any other exception of pay: a 402 header with no list of
                        \* accepts (TypeError), a payment the x402 client cannot
                        \* make, no key (ValueError), httpx's other errors
          "store"}      \* a call of the store that raises

\* Payloads worth keeping, and responses that raise before the budget commits.
Payload == {"good",       \* facts that parse
            "unusable",   \* JSON without usable facts: ProcurementError
            "misshapen"}  \* JSON the parser trips over: no object (AttributeError),
                        \* a unit that is a list (TypeError)
Reply   == Payload \cup {"refused"}  \* not a 200, or not JSON: ProcurementError

NoDatum == "none"
Datum   == Payload \cup {NoDatum}

ASSUME CrewAssumption ==
  /\ Crew \in Seq(Sources) /\ Crew # <<>>
  /\ Peers \subseteq Sources
ASSUME MoneyAssumption ==
  /\ Ceiling \in Nat
  /\ Prices \subseteq Nat
  /\ Estimate \in [Sources -> Nat]
  /\ Repricing \in BOOLEAN
ASSUME OutcomeAssumption ==
  /\ Retries \in Nat
  /\ MaxActive \in Nat \ {0}
  /\ Faults \subseteq Fault
  /\ Replies \subseteq Reply
ASSUME TrustAssumption == TrustFloor \in 0..100 /\ TrustMinEvents \in Nat

Stage == {"idle",       \* not begun
          "trusting",   \* PeerSource._check_trust awaits trust_scores
          "checking",   \* procure awaits get_cached_purchase
          "quoting",    \* pay awaits the pre-flight
          "paying",     \* pay awaits the paying request
          "recording",  \* procure awaits record_purchase
          "debiting",   \* PeerSource.gather awaits record_trust_event
          "gathered",   \* gather returned
          "done",       \* the gate's outcome is attributed
          "failed"}     \* gather raised

VARIABLES
  cache,    \* per source: the unexpired datum of the latest purchase, or NoDatum
  trust,    \* per source: its ok and fail events
  run,      \* per run: where its gather stands
  spent,    \* per run: BudgetCap.spent_usd
  paid,     \* per run: what its paying requests settled, the money that moved
  lost,     \* history: of that, what the answer was lost or refused for
  amid,     \* history, per source: the runs that were buying its datum when the
            \* one in the cache entered an empty cache
  unwarned  \* history, per peer: the runs past their look at its score when it
            \* fell below the floor, or that could not look

vars == <<cache, trust, run, spent, paid, lost, amid, unwarned>>

Fresh == [stage |-> "idle", at |-> 1, attempt |-> 0, quote |-> 0, charged |-> 0,
          payload |-> NoDatum, cost |-> 0, used |-> {}]

Run == [stage : Stage, at : 1..Len(Crew), attempt : 0..Retries,
        quote : Nat,            \* pay.cost_in_usd: the advertised price
        charged : Nat,          \* what this attempt's request settled
        payload : Datum,        \* the datum being recorded
        cost : Nat,             \* GatherResult.cost_in_usd so far
        used : SUBSET Sources]  \* the sources with facts in the snapshot

TypeOK ==
  /\ cache \in [Sources -> Datum]
  /\ trust \in [Sources -> [ok : Nat, fail : Nat]]
  /\ run \in [Runs -> Run]
  /\ spent \in [Runs -> Nat]
  /\ paid \in [Runs -> Nat]
  /\ lost \in [Runs -> Nat]
  /\ amid \in [Sources -> SUBSET Runs]
  /\ unwarned \in [Peers -> SUBSET Runs]

Init ==
  /\ cache = [s \in Sources |-> NoDatum]
  /\ trust = [s \in Sources |-> [ok |-> 0, fail |-> 0]]
  /\ run = [r \in Runs |-> Fresh]
  /\ spent = [r \in Runs |-> 0]
  /\ paid = [r \in Runs |-> 0]
  /\ lost = [r \in Runs |-> 0]
  /\ amid = [s \in Sources |-> {}]
  /\ unwarned = [s \in Peers |-> {}]

At(r)        == Crew[run[r].at]
Active       == {r \in Runs : run[r].stage \notin {"idle", "done", "failed"}}
Remaining(r) == Ceiling - spent[r]

\* laplace_score(ok, fail) < peer_trust_floor, after peer_trust_min_events; a
\* source without a row in the ledger is trusted.
Below(row) ==
  /\ row.ok + row.fail > 0
  /\ row.ok + row.fail >= TrustMinEvents
  /\ 100 * (row.ok + 1) < TrustFloor * (row.ok + row.fail + 2)

BelowFloor(s) == Below(trust[s])

\* The runs that have asked the cache for the datum of s, and found none; those
\* that have looked at its score.
Buying(s) == {r \in Runs : At(r) = s /\ run[r].stage \in {"quoting", "paying"}}
Past(s)   == {r \in Runs : At(r) = s /\ run[r].stage \in {"checking", "quoting", "paying"}}

---------------------------------------------------------------------------
(* How a source's gather ends; each gives the run's next record *)

\* Where the gather of source number n starts.
Ask(n) == IF Crew[n] \in Peers THEN "trusting" ELSE "checking"

\* CompositeSource.gather: on to the next peer, or the gather returns.
Advanced(j) ==
  LET next == [j EXCEPT !.attempt = 0, !.quote = 0, !.charged = 0, !.payload = NoDatum]
  IN IF j.at = Len(Crew) THEN [next EXCEPT !.stage = "gathered"]
     ELSE [next EXCEPT !.stage = Ask(j.at + 1), !.at = @ + 1]

\* An exception gather does not catch: the run fails, its costs are forgotten.
Failed(j) == [Fresh EXCEPT !.stage = "failed", !.at = j.at]

\* run_research is through with what the gather returned.
Done(j) == [Fresh EXCEPT !.stage = "done", !.at = j.at]

\* ProcurementError, BudgetExceeded, CircuitOpen, a transport failure: fatal
\* from the primary, a note from a peer.
Skipped(j) == IF Crew[j.at] \in Peers THEN Advanced(j) ELSE Failed(j)

\* procure returned: the payload is parsed into facts.  Garbage of a peer is
\* debited first.
Parsed(j, payload, cost) ==
  CASE payload = "good" ->
         Advanced([j EXCEPT !.cost = @ + cost, !.used = @ \cup {Crew[j.at]}])
    [] payload = "unusable" ->
         IF Crew[j.at] \in Peers THEN [j EXCEPT !.stage = "debiting"] ELSE Skipped(j)
    [] payload = "misshapen" -> Failed(j)

\* Mutants of Retried: one dial too many; a transport failure is not caught; the
\* attempts are not counted.
RetriedOnceMore(j, fault) ==
  IF j.attempt <= Retries
    THEN [j EXCEPT !.stage = "quoting", !.attempt = @ + 1, !.quote = 0, !.charged = 0]
  ELSE IF fault = "clock" THEN Failed(j)
  ELSE Skipped(j)

RetriedUncaught(j, fault) ==
  IF j.attempt < Retries
    THEN [j EXCEPT !.stage = "quoting", !.attempt = @ + 1, !.quote = 0, !.charged = 0]
  ELSE Failed(j)

RetriedForever(j, fault) ==
  [j EXCEPT !.stage = "quoting", !.quote = 0, !.charged = 0]

\* An attempt ended in a transport failure or ran out of time: back off and
\* dial again from the pre-flight, or raise.  The gather catches
\* httpx.TimeoutException, the wall clock's TimeoutError is another class.
Retried(j, fault) ==
  IF j.attempt < Retries
    THEN [j EXCEPT !.stage = "quoting", !.attempt = @ + 1, !.quote = 0, !.charged = 0]
  ELSE IF fault = "clock" THEN Failed(j)
  ELSE Skipped(j)

SetRun(r, j) == run' = [run EXCEPT ![r] = j]

\* The trust ledger holds these events; who was past the look at a score that
\* falls below the floor by them is noted.
Holds(rows) ==
  /\ trust' = rows
  /\ unwarned' = [s \in Peers |->
       IF Below(rows[s]) /\ ~BelowFloor(s) THEN Past(s) ELSE unwarned[s]]

---------------------------------------------------------------------------
(* PeerSource.gather, procure and pay *)

\* run_research starts with a budget of its own.
Begin(r) ==
  /\ run[r].stage = "idle"
  /\ Cardinality(Active) < MaxActive
  /\ SetRun(r, [Fresh EXCEPT !.stage = Ask(1)])
  /\ UNCHANGED <<cache, trust, spent, paid, lost, amid, unwarned>>

\* Mutant of CheckTrust: the score is not compared.
CheckTrustNever(r) ==
  /\ run[r].stage = "trusting"
  /\ SetRun(r, [run[r] EXCEPT !.stage = "checking"])
  /\ UNCHANGED <<cache, trust, spent, paid, lost, amid, unwarned>>

\* PeerSource._check_trust: a peer below the floor is not paid.  A ledger that
\* cannot be read does not block the buy.
CheckTrust(r) ==
  /\ run[r].stage = "trusting"
  /\ \/ /\ SetRun(r, IF BelowFloor(At(r)) THEN Skipped(run[r])
                      ELSE [run[r] EXCEPT !.stage = "checking"])
        /\ UNCHANGED unwarned
     \/ /\ "store" \in Faults
        /\ SetRun(r, [run[r] EXCEPT !.stage = "checking"])
        /\ unwarned' = [unwarned EXCEPT ![At(r)] = @ \cup {r}]
  /\ UNCHANGED <<cache, trust, spent, paid, lost, amid>>

\* procure: a cached datum costs nothing.
CacheHit(r) ==
  /\ run[r].stage = "checking"
  /\ cache[At(r)] # NoDatum
  /\ SetRun(r, Parsed(run[r], cache[At(r)], 0))
  /\ UNCHANGED <<cache, trust, spent, paid, lost, amid, unwarned>>

\* Mutant of CacheMiss: the cache is not asked.
CacheMissAlways(r) ==
  /\ run[r].stage = "checking"
  /\ SetRun(r, IF Estimate[At(r)] > Remaining(r) THEN Skipped(run[r])
               ELSE [run[r] EXCEPT !.stage = "quoting"])
  /\ UNCHANGED <<cache, trust, spent, paid, lost, amid, unwarned>>

\* A miss: the estimate is proposed to the budget, then resilient_call dials.
CacheMiss(r) ==
  /\ run[r].stage = "checking"
  /\ cache[At(r)] = NoDatum
  /\ \/ SetRun(r, IF Estimate[At(r)] > Remaining(r) THEN Skipped(run[r])
                  ELSE [run[r] EXCEPT !.stage = "quoting"])
     \/ "open" \in Faults /\ SetRun(r, Skipped(run[r]))
  /\ UNCHANGED <<cache, trust, spent, paid, lost, amid, unwarned>>

\* Mutant of Quote: the cap is the ceiling, not what is left of it.
QuoteUnderCeiling(r) ==
  /\ run[r].stage = "quoting"
  /\ \E price \in Prices :
       SetRun(r, IF price > Ceiling THEN Skipped(run[r])
                 ELSE [run[r] EXCEPT !.stage = "paying", !.quote = price])
  /\ UNCHANGED <<cache, trust, spent, paid, lost, amid, unwarned>>

\* pay: the pre-flight names a price; one above the remaining budget is refused
\* (PriceCapExceeded), else the paying request goes out.
Quote(r) ==
  /\ run[r].stage = "quoting"
  /\ \E price \in Prices :
       SetRun(r, IF price > Remaining(r) THEN Skipped(run[r])
                 ELSE [run[r] EXCEPT !.stage = "paying", !.quote = price])
  /\ UNCHANGED <<cache, trust, spent, paid, lost, amid, unwarned>>

\* The seller answers the paying request with a 402 of its own, the x402 client
\* signs what it names, and the payment settles.
Settle(r) ==
  /\ run[r].stage = "paying"
  /\ run[r].charged = 0
  /\ \E price \in (IF Repricing THEN Prices ELSE {run[r].quote}) \ {0} :
       /\ SetRun(r, [run[r] EXCEPT !.charged = price])
       /\ paid' = [paid EXCEPT ![r] = @ + price]
  /\ UNCHANGED <<cache, trust, spent, lost, amid, unwarned>>

\* The response of the paying request: the advertised price is committed to the
\* budget if there is a settlement, whatever that settled; nothing is if the
\* resource turned out to be free.
Committed(r) == IF run[r].charged = 0 THEN 0 ELSE run[r].quote

\* Mutant of Respond: the estimate is committed.
RespondEstimated(r) ==
  /\ run[r].stage = "paying"
  /\ \E payload \in Replies \cap Payload :
       SetRun(r, [run[r] EXCEPT !.stage = "recording", !.payload = payload])
  /\ spent' = [spent EXCEPT ![r] = @ + Estimate[At(r)]]
  /\ UNCHANGED <<cache, trust, paid, lost, amid, unwarned>>

Respond(r) ==
  /\ run[r].stage = "paying"
  /\ \E payload \in Replies \cap Payload :
       SetRun(r, [run[r] EXCEPT !.stage = "recording", !.payload = payload])
  /\ spent' = [spent EXCEPT ![r] = @ + Committed(r)]
  /\ UNCHANGED <<cache, trust, paid, lost, amid, unwarned>>

\* A status other than 200, or no JSON: raised before the budget commits.
Refuse(r) ==
  /\ "refused" \in Replies
  /\ run[r].stage = "paying"
  /\ SetRun(r, Skipped(run[r]))
  /\ lost' = [lost EXCEPT ![r] = @ + run[r].charged]
  /\ UNCHANGED <<cache, trust, spent, paid, amid, unwarned>>

\* The pre-flight or the paying request is lost, or its answer is too late.
Lose(r) ==
  /\ run[r].stage \in {"quoting", "paying"}
  /\ \E fault \in Faults \ {"open"} : SetRun(r, Retried(run[r], fault))
  /\ lost' = [lost EXCEPT ![r] = @ + run[r].charged]
  /\ UNCHANGED <<cache, trust, spent, paid, amid, unwarned>>

\* An exception of pay that resilient_call does not retry and CompositeSource
\* does not list: the run fails, from a peer too.
Break(r) ==
  /\ "unlisted" \in Faults
  /\ run[r].stage \in {"quoting", "paying"}
  /\ SetRun(r, Failed(run[r]))
  /\ lost' = [lost EXCEPT ![r] = @ + run[r].charged]
  /\ UNCHANGED <<cache, trust, spent, paid, amid, unwarned>>

\* procure's calls of the store are guarded by nobody: get_cached_purchase before
\* the purchase, record_purchase after the budget committed it.
StoreFails(r) ==
  /\ "store" \in Faults
  /\ run[r].stage \in {"checking", "recording"}
  /\ SetRun(r, Failed(run[r]))
  /\ UNCHANGED <<cache, trust, spent, paid, lost, amid, unwarned>>

\* record_purchase: the datum is cached, whatever it is worth.
Record(r) ==
  /\ run[r].stage = "recording"
  /\ cache' = [cache EXCEPT ![At(r)] = run[r].payload]
  /\ amid' = [amid EXCEPT ![At(r)] = IF cache[At(r)] = NoDatum THEN Buying(At(r)) ELSE @]
  /\ SetRun(r, Parsed(run[r], run[r].payload, Committed(r)))
  /\ UNCHANGED <<trust, spent, paid, lost, unwarned>>

\* A peer's garbage, bought or cached, costs it trust; an event the store does
\* not take is let go.
Debit(r) ==
  /\ run[r].stage = "debiting"
  /\ \/ Holds([trust EXCEPT ![At(r)].fail = @ + 1])
     \/ "store" \in Faults /\ UNCHANGED <<trust, unwarned>>
  /\ SetRun(r, Skipped(run[r]))
  /\ UNCHANGED <<cache, spent, paid, lost, amid>>

\* run_research after the gate (attribute_gate_outcome): a pass credits every
\* source used, a fail debits those its violations cite; again, but for the
\* events the store does not take.
Attribute(r) ==
  /\ run[r].stage = "gathered"
  /\ \/ \E credited \in SUBSET run[r].used :
          /\ "store" \in Faults \/ credited = run[r].used
          /\ Holds([s \in Sources |->
               IF s \in credited THEN [trust[s] EXCEPT !.ok = @ + 1] ELSE trust[s]])
     \/ \E blamed \in SUBSET run[r].used :
          Holds([s \in Sources |->
            IF s \in blamed THEN [trust[s] EXCEPT !.fail = @ + 1] ELSE trust[s]])
  /\ SetRun(r, Done(run[r]))
  /\ UNCHANGED <<cache, spent, paid, lost, amid>>

\* The datum outlives settings.purchase_cache_ttl_seconds.
Expire(s) ==
  /\ cache[s] # NoDatum
  /\ cache' = [cache EXCEPT ![s] = NoDatum]
  /\ amid' = [amid EXCEPT ![s] = {}]
  /\ UNCHANGED <<trust, run, spent, paid, lost, unwarned>>

RunStep(r) ==
  \/ CheckTrust(r) \/ CacheHit(r) \/ CacheMiss(r) \/ Quote(r) \/ Settle(r)
  \/ Respond(r) \/ Refuse(r) \/ Lose(r) \/ Break(r) \/ StoreFails(r) \/ Record(r)
  \/ Debit(r) \/ Attribute(r)

Next ==
  \/ \E r \in Runs : Begin(r) \/ RunStep(r)
  \/ \E s \in Sources : Expire(s)

Spec == Init /\ [][Next]_vars

\* Every await of a run returns: the store answers, resilient_call times out.
FairSpec == Spec /\ \A r \in Runs : WF_vars(RunStep(r))

---------------------------------------------------------------------------
(* Properties *)

\* What the budget has committed never exceeds the run's ceiling, whatever the
\* sellers advertise and however attempts fail: each pre-flight is held to what
\* the purchases before it left over.
CommittedWithinCeiling == \A r \in Runs : spent[r] <= Ceiling

\* "deterministic code holds a hard ceiling on data spend per query"
\* (research/budget.py, lines 5-6).
PaidWithinCeiling == \A r \in Runs : paid[r] <= Ceiling

\* The books: where sellers settle what they advertise, the budget counts every
\* dollar that moved, but for the request in flight and those whose answer never
\* came or was refused.
InFlight(j)  == IF j.stage = "paying" THEN j.charged ELSE 0
BooksBalance ==
  ~Repricing => \A r \in Runs : paid[r] = spent[r] + lost[r] + InFlight(run[r])

\* So the ceiling is one on real dollars up to the answers that went missing.
OutlayBounded == ~Repricing => \A r \in Runs : paid[r] <= Ceiling + lost[r]

\* "A peer that fails ... is skipped with a note, never fatal": only the primary
\* can fail a run.
PeersNeverFatal == \A r \in Runs : run[r].stage = "failed" => At(r) \notin Peers

Pays(r) == paid'[r] # paid[r]

\* "re-buy a datum at most once/day" (purchase_cache_ttl_seconds): what the cache
\* holds is paid for again only by a run that was buying it already when it
\* entered the empty cache; whoever asks later is served.
RebuyNeedsOverlap ==
  [][\A r \in Runs : Pays(r) /\ cache[At(r)] # NoDatum => r \in amid[At(r)]]_vars

\* "below the trust floor ... refusing to pay": money moves to a peer below the
\* floor only from a run that was past its look at the score when it fell, or
\* whose look the store did not answer.
DistrustedUnpaid ==
  [][\A r \in Runs : Pays(r) /\ At(r) \in Peers /\ BelowFloor(At(r))
                     => r \in unwarned[At(r)]]_vars

\* Every gather ends: retries and crews are bounded, every attempt times out.
GatherEnds ==
  \A r \in Runs : (run[r].stage # "idle") ~> (run[r].stage \in {"done", "failed"})
=============================================================================
