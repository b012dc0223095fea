----------------------------- MODULE MCServices -----------------------------
(***************************************************************************)
(* The instance TLC checks of the parts of the agent that share no state:  *)
(* the circuit breaker, the call chain, the webhooks, the watch crew, the  *)
(* sourcing gate, the two stores, the evaluation harness and the processes *)
(* of a deployment.  A behaviour picks one part and is a behaviour of it,  *)
(* the others stay as they began.                                          *)
(***************************************************************************)
EXTENDS Breaker, CallChain, Webhooks, Crew, Sourcing, Store, Eval, Serving, TLC

VARIABLE part

\* CallChain: the foreign agent strips the header.
McHeaders == {<<>>}

\* Crew: the price with or without its moving averages, a tie of the averages,
\* a filing; crews by default, by hand, by description.
Averages == {"50-day moving average", "200-day moving average"}

McLabels == OwnLabels \cup {"Revenue"}

Reads(metrics, accessions, as_of) ==
  [metrics |-> metrics, accessions |-> accessions, as_of |-> as_of]

Priced(price, fast) ==
  [l \in {"Price"} \cup Averages |->
     CASE l = "Price" -> price [] l = "50-day moving average" -> fast [] OTHER -> 40000]

McSnapshots ==
  {Reads([l \in {"Price"} |-> 30000], <<1>>, 1), Reads(Priced(33000, 40000), <<2, 1>>, 2)}
    \cup {Reads(Priced(30000, fast), <<1>>, 1) : fast \in {39000, 40000, 41000}}

Asks(watch, described, proposal, floor) ==
  [watch |-> watch, described |-> described, product |-> "fundamentals", words |-> {"price", "filing"},
   pcts |-> <<20>>, metrics |-> <<"Revenue">>, proposal |-> proposal, floor |-> floor]

McWatch(head, label, num, other) == [head |-> head, label |-> label, num |-> num, other |-> other]

McRequests == {
  Asks(<<>>, FALSE, <<>>, "info"),
  Asks(<<>>, FALSE, <<>>, "critical"),
  Asks(<<>>, TRUE, <<[PriceSpec("Price", 0) EXCEPT !.abs = {}], [MetricSpec(<<>>, 300) EXCEPT !.abs = {2000}],
                     AvgSpec, [Blank EXCEPT !.kind = "unknown"]>>, "notable"),
  Asks(<<McWatch("price", "", {0}, {}), McWatch("threshold", "Price", {31000}, {11500}),
         McWatch("metric", "Price", {}, {}), McWatch("price", "", {100}, {})>>, FALSE, <<>>, "info")}

\* Sourcing: a primary with or without a price, two peers, a row in an unknown unit.
McFiled == {[l \in {"Revenue", "Net income"} |-> IF l = "Revenue" THEN 100000 ELSE net] : net \in {0, 20000}}

McFeed == {<<>>, [l \in {"Price"} |-> 50000]}

McRow(value, unit) == [label |-> "TVL", unit |-> unit, value |-> value]

McPeerRows ==
  {<<McRow(20000, "%"), McRow(7000, "bytes")>>, <<McRow(7000, "USD")>>, <<McRow(7000, "bytes")>>}

McSegments ==
  {[figures |-> {[value |-> figure[1], kind |-> figure[2]]}, cites |-> cites] :
     figure \in {<<7000, "cur">>, <<20000, "pct">>}, cites \in {{}, {1}, {2}, {4}, {5}, {2, 5}}}
    \cup {[figures |-> {}, cites |-> {9}]}

\* Store: two rows of each table, on one key.
McBought   == {[key |-> "k", cost |-> 2, ttl |-> ttl] : ttl \in {0, 2}}
McBooked   == {[status |-> status, price |-> 50, data |-> 2, inference |-> 3, hit |-> FALSE] :
                 status \in {"ok", "rejected"}}
McSettled  == {[payer |-> {[address |-> "0xa", checksummed |-> c]}, amount |-> 50, product |-> {}, success |-> c] :
                 c \in BOOLEAN}
McInsights == {[key |-> "k", text |-> text] : text \in {"near", "far"}}
McMemos    == {[key |-> "k", fingerprint |-> f] : f \in 1..2}
McEvents   == {[source |-> "peer", ok |-> ok] : ok \in BOOLEAN}
McWatches  == {[id |-> "m", created |-> 0, enabled |-> e, wait |-> {}] : e \in BOOLEAN}
                \cup {[id |-> "n", created |-> 1, enabled |-> TRUE, wait |-> {d}] : d \in 0..1}
McRuns     == {[id |-> "m", status |-> status, price |-> 50, data |-> 2, inference |-> 3] :
                 status \in {"material", "quiet"}}
McNearness == [text \in {"near", "far"} |-> IF text = "near" THEN 9 ELSE 1]

\* Eval: one case a suite, both live variants, three faithful and two unfaithful
\* notes for the judge, whose repeats agree or straddle the threshold.
McOfflineCases == [suite \in OfflineSuites |-> {"case"}]
McLiveCases    == {[name |-> "KO", variant |-> variant] : variant \in Variants}
McLiveResults  == {[status |-> "ok", rubric |-> {90}, latency |-> 10, cost |-> 4, gate |-> TRUE, faithfulness |-> {95}],
                   [status |-> "raises", latency |-> 30]}
McJudgeCases   == [c \in {"t1", "t2", "t3", "l1", "l2"} |->
                     IF c \in {"l1", "l2"} THEN [family |-> "lie", faithful |-> FALSE]
                     ELSE [family |-> "faithful", faithful |-> TRUE]]
McJudgeScores  == [c \in DOMAIN McJudgeCases |->
                     CASE c = "t1" -> {<<>>, <<50, 90>>, <<90, 90>>}
                       [] c \in {"t2", "t3"} -> {<<90, 90>>}
                       [] c = "l1" -> {<<50>>, <<50, 90>>}
                       [] OTHER -> {<<50>>}]

\* Serving: testnet; mainnet with both, one or none of the CDP variables; a login
\* beside the key; a live data leg with no key to pay; a mode that is not one.
McTestnet == [mode |-> "", key |-> TRUE, sdk |-> TRUE, login |-> "seen", cdp |-> {}, facilitator |-> "testnet",
              mainnet |-> FALSE, address |-> TRUE, wallet |-> TRUE, cheap |-> FALSE,
              graphLive |-> FALSE, graphKey |-> FALSE]

McMainnet == [McTestnet EXCEPT !.mainnet = TRUE, !.mode = "auto", !.graphLive = TRUE]

McSettings ==
  {[McTestnet EXCEPT !.mode = "subscription", !.login = "hidden", !.address = FALSE],
   [McMainnet EXCEPT !.wallet = FALSE, !.cdp = {"id", "secret"}],
   [McMainnet EXCEPT !.facilitator = "own", !.mode = "claude"]}
    \cup {[McMainnet EXCEPT !.cdp = cdp] : cdp \in {{"id", "secret"}, {"id"}}}

ServicesInit ==
  /\ part \in {"breaker", "chain", "hooks", "crew", "sourcing", "store", "eval", "serving"}
  /\ Init /\ ChainInit /\ HookInit /\ CrewInit /\ SourcingInit /\ StoreInit /\ EvalInit
  /\ ServingInit
  /\ part # "hooks" => skew = 0
  /\ part # "serving" => env = CHOOSE s \in McSettings : TRUE

ServicesNext ==
  /\ UNCHANGED part
  /\ \/ part = "breaker" /\ Next
        /\ UNCHANGED <<call, hookVars, crewVars, sourcingVars, storeVars, evalVars, servingVars>>
     \/ part = "chain" /\ ChainNext
        /\ UNCHANGED <<vars, hookVars, crewVars, sourcingVars, storeVars, evalVars, servingVars>>
     \/ part = "hooks" /\ HookNext
        /\ UNCHANGED <<vars, call, crewVars, sourcingVars, storeVars, evalVars, servingVars>>
     \/ part = "crew" /\ CrewNext
        /\ UNCHANGED <<vars, call, hookVars, sourcingVars, storeVars, evalVars, servingVars>>
     \/ part = "sourcing" /\ SourcingNext
        /\ UNCHANGED <<vars, call, hookVars, crewVars, storeVars, evalVars, servingVars>>
     \/ part = "store" /\ StoreNext
        /\ UNCHANGED <<vars, call, hookVars, crewVars, sourcingVars, evalVars, servingVars>>
     \/ part = "eval" /\ EvalNext
        /\ UNCHANGED <<vars, call, hookVars, crewVars, sourcingVars, storeVars, servingVars>>
     \/ part = "serving" /\ ServingNext
        /\ UNCHANGED <<vars, call, hookVars, crewVars, sourcingVars, storeVars, evalVars>>

ServicesSpec ==
  /\ ServicesInit
  /\ [][ServicesNext]_<<part, vars, call, hookVars, crewVars, sourcingVars, storeVars, evalVars,
                     servingVars>>
  /\ Fairness
=============================================================================
