------------------------------ MODULE Research ------------------------------
(***************************************************************************)
(* The research pipeline and its sale (src/jim/research/engine.py,         *)
(* seller/app.py, seller/audit.py): concurrent requests for one memo key   *)
(* {product}:{identifier}:{mode}.  Each gathers a snapshot, takes the memo *)
(* of the memo cache or writes one - debate, synthesis, the sourcing gate  *)
(* with its retries, the judge -, books the query in the margin ledger,    *)
(* stores the memo, and is delivered and settled, or refused.              *)
(*                                                                         *)
(* A step is the code between two awaits.  The store is SqlStore: an       *)
(* upsert selects in one await and commits in another, and its UPDATE      *)
(* carries the changed columns only.  Facts are abstracted to the version  *)
(* of the data they were gathered from, a memo to the version it quotes    *)
(* and whether it quotes it well.                                          *)
(***************************************************************************)
EXTENDS Integers, FiniteSets

CONSTANTS
  Runs,         \* requests for the key, each executed once
  MaxActive,    \* bound: how many of them run at the same time
  Paid,         \* those that come through the paywall; the others are previews
  Versions,     \* versions of the underlying data
  Fingerprint,  \* Snapshot.fingerprint of each version
  Covers,       \* <<v, w>>: a memo that quotes v well passes the gate against w
  MaxAttempts,  \* settings.research_max_attempts
  EnableDebate, \* settings.enable_debate
  EnableJudge,  \* settings.enable_judge, with a model to judge
  DataCosts,    \* what gathering may cost
  PriceOut,     \* the product's price
  MaxCrashes,   \* bound of the crashes
  None

ASSUME DataAssumption ==
  /\ Fingerprint \in [Versions -> Nat]
  /\ Covers \subseteq Versions \X Versions
  /\ DataCosts \subseteq Nat
ASSUME PolicyAssumption ==
  /\ MaxAttempts \in Nat \ {0}
  /\ MaxActive \in Nat \ {0}
  /\ PriceOut \in Nat
  /\ MaxCrashes \in Nat
  /\ EnableDebate \in BOOLEAN
  /\ EnableJudge \in BOOLEAN
ASSUME RunsAssumption == Paid \subseteq Runs /\ None \notin Runs /\ None \notin Versions

\* A memo: who wrote it (None: a run before these), from which version, whether
\* its figures are that version's, and - history - whether a judge passed it.
Memo == [by : Runs \cup {None}, of : Versions, sourced : BOOLEAN, judged : BOOLEAN]

\* A row of memo_cache: fresh until memo_cache_ttl_seconds.
Entry == [print : Nat, memo : Memo, fresh : BOOLEAN]

ASSUME NoneAssumption == None \notin Entry

\* A row of query_records.
Query == [status : {"ok", "rejected"}, price : Nat, data : Nat]

Stage == {"idle",
          "gathering",        \* source.gather
          "looking",          \* get_cached_memo
          "debating",         \* run_debate
          "writing",          \* synthesize, then the gate
          "judging",          \* judge_faithfulness
          "booking",          \* record_query
          "finding insight",  \* upsert_insight: select
          "saving insight",   \* upsert_insight: commit
          "finding memo",     \* put_cached_memo: select
          "saving memo",      \* put_cached_memo: commit
          "settling",         \* a 2xx response in the payment middleware
          "auditing",         \* record_receipt
          "delivered",        \* the response with the memo is out
          "refused"}          \* a response without the memo, or none

VARIABLES
  world,     \* the version a gather sees now
  cache,     \* memo_cache: the row of the key, or None
  insight,   \* is there a row of insights for the key?
  run,       \* per run: where it stands
  ledger,    \* per run: its row of query_records, or None
  spent,     \* per run: what its gathering really cost
  settled,   \* the runs whose payment was captured
  receipts,  \* the runs with a row in payment_receipts
  crashes    \* number of crashes so far

vars == <<world, cache, insight, run, ledger, spent, settled, receipts, crashes>>

Fresh == [stage |-> "idle", snap |-> None, memo |-> None, attempts |-> 0,
          cached |-> FALSE, status |-> "rejected", data |-> 0, found |-> None]

Run == [stage : Stage,
        snap : Versions \cup {None},
        memo : Memo \cup {None},
        attempts : 0..MaxAttempts,
        cached : BOOLEAN,             \* served_from_cache
        status : {"ok", "rejected"},
        data : Nat,                   \* cost_in_data
        found : Entry \cup {None}]    \* what an upsert's select returned

TypeOK ==
  /\ world \in Versions
  /\ cache \in Entry \cup {None}
  /\ insight \in BOOLEAN
  /\ run \in [Runs -> Run]
  /\ ledger \in [Runs -> Query \cup {None}]
  /\ spent \in [Runs -> Nat]
  /\ settled \subseteq Runs
  /\ receipts \subseteq Runs
  /\ crashes \in 0..MaxCrashes

\* The cache may hold what an earlier run left: a memo of some version.
Inherited == [print : {Fingerprint[v] : v \in Versions}, fresh : BOOLEAN,
              memo : [by : {None}, of : Versions, sourced : {TRUE}, judged : {EnableJudge}]]

Init ==
  /\ world \in Versions
  /\ cache \in {None} \cup {e \in Inherited : e.print = Fingerprint[e.memo.of]}
  /\ insight = (cache # None)
  /\ run = [r \in Runs |-> Fresh]
  /\ ledger = [r \in Runs |-> None]
  /\ spent = [r \in Runs |-> 0]
  /\ settled = {}
  /\ receipts = {}
  /\ crashes = 0

Ended  == {"idle", "delivered", "refused"}
Active == {r \in Runs : run[r].stage \notin Ended}

SetRun(r, j)  == run' = [run EXCEPT ![r] = j]
Moves(r, a, b) == run[r].stage = a /\ SetRun(r, [run[r] EXCEPT !.stage = b])

\* check_sourcing: every figure of the memo matches a fact of the snapshot.
Passes(memo, version) == memo.sourced /\ <<memo.of, version>> \in Covers

---------------------------------------------------------------------------
(* The graph: gather, memo_cache, debate, synthesize and gate, judge *)

\* A response without the memo, or none; the locals of the run are gone.
Refused == [Fresh EXCEPT !.stage = "refused"]

\* An exception in the graph, or a listed one of gather: an error run is not
\* booked, whatever its data cost (_deliver_or_refuse: 422).
ErrorRun == Refused

\* run_research: an identifier that canonicalize rejects ends here.
Begin(r) ==
  /\ run[r].stage = "idle"
  /\ Cardinality(Active) < MaxActive
  /\ \/ SetRun(r, [run[r] EXCEPT !.stage = "gathering"])
     \/ SetRun(r, ErrorRun)
  /\ UNCHANGED <<world, cache, insight, ledger, spent, settled, receipts, crashes>>

\* Source.gather answers with a snapshot of now, or raises; either way the
\* money it spent is gone.
Gather(r) ==
  /\ run[r].stage = "gathering"
  /\ \E cost \in DataCosts :
       /\ spent' = [spent EXCEPT ![r] = cost]
       /\ \/ SetRun(r, [run[r] EXCEPT !.stage = "looking", !.snap = world, !.data = cost])
          \/ SetRun(r, ErrorRun)
  /\ UNCHANGED <<world, cache, insight, ledger, settled, receipts, crashes>>

\* A miss: _route_after_cache.
Missed(j) == [j EXCEPT !.stage = IF EnableDebate THEN "debating" ELSE "writing"]

\* Mutant of LookUp: the gate is not asked again about a cached memo.
LookUpUnchecked(r) ==
  /\ run[r].stage = "looking"
  /\ SetRun(r,
       IF cache # None /\ cache.fresh /\ cache.print = Fingerprint[run[r].snap]
       THEN [run[r] EXCEPT !.stage = "booking", !.memo = cache.memo,
                           !.cached = TRUE, !.status = "ok"]
       ELSE Missed(run[r]))
  /\ UNCHANGED <<world, cache, insight, ledger, spent, settled, receipts, crashes>>

\* _memo_cache: a fresh entry with this snapshot's fingerprint is served if the
\* gate passes it against this snapshot.
LookUp(r) ==
  /\ run[r].stage = "looking"
  /\ SetRun(r,
       IF /\ cache # None /\ cache.fresh /\ cache.print = Fingerprint[run[r].snap]
          /\ Passes(cache.memo, run[r].snap)
       THEN [run[r] EXCEPT !.stage = "booking", !.memo = cache.memo,
                           !.cached = TRUE, !.status = "ok"]
       ELSE Missed(run[r]))
  /\ UNCHANGED <<world, cache, insight, ledger, spent, settled, receipts, crashes>>

\* _debate: three model calls over the facts.
Debate(r) ==
  /\ Moves(r, "debating", "writing")
  /\ UNCHANGED <<world, cache, insight, ledger, spent, settled, receipts, crashes>>

\* Mutant of Gated: one attempt too many.
GatedOnceMore(j) ==
  IF Passes(j.memo, j.snap) THEN [j EXCEPT !.stage = "judging"]
  ELSE IF j.attempts <= MaxAttempts THEN [j EXCEPT !.stage = "writing"]
  ELSE [j EXCEPT !.stage = "booking"]

\* _gate and _route_after_gate: on to the judge, once more, or rejected.
Gated(j) ==
  IF Passes(j.memo, j.snap) THEN [j EXCEPT !.stage = "judging"]
  ELSE IF j.attempts < MaxAttempts THEN [j EXCEPT !.stage = "writing"]
  ELSE [j EXCEPT !.stage = "booking"]

\* _synthesize: the model quotes the snapshot, well or not.
Synthesize(r) ==
  /\ run[r].stage = "writing"
  /\ \E well \in BOOLEAN :
       LET memo == [by |-> r, of |-> run[r].snap, sourced |-> well, judged |-> FALSE]
       IN SetRun(r, Gated([run[r] EXCEPT !.memo = memo, !.attempts = @ + 1]))
  /\ UNCHANGED <<world, cache, insight, ledger, spent, settled, receipts, crashes>>

\* _judge: passes (a disabled judge always does), or fails the run.
Judge(r) ==
  /\ run[r].stage = "judging"
  /\ \/ SetRun(r, [run[r] EXCEPT !.stage = "booking", !.status = "ok",
                                 !.memo.judged = EnableJudge])
     \/ EnableJudge /\ SetRun(r, [run[r] EXCEPT !.stage = "booking"])
  /\ UNCHANGED <<world, cache, insight, ledger, spent, settled, receipts, crashes>>

\* The store or a model call raises inside the graph.
NodeFails(r) ==
  /\ run[r].stage \in {"looking", "debating", "writing", "judging"}
  /\ SetRun(r, ErrorRun)
  /\ UNCHANGED <<world, cache, insight, ledger, spent, settled, receipts, crashes>>

---------------------------------------------------------------------------
(* After the graph: the ledger, the insight, the memo cache *)

\* run_research returned, and _deliver_or_refuse answers: 200, or 502 for a
\* rejected run.  A 200 behind the paywall is settled before it goes out; of
\* the run's locals the response carries the memo and the facts beside it.
Answered(r, j) ==
  IF j.status = "ok"
  THEN [Fresh EXCEPT !.stage = IF r \in Paid THEN "settling" ELSE "delivered",
                     !.memo = j.memo, !.snap = j.snap]
  ELSE Refused

\* Mutant of Book: rejected runs go on to the caches like the others.
BookAndStore(r) ==
  /\ run[r].stage = "booking"
  /\ ledger' = [ledger EXCEPT ![r] =
       [status |-> run[r].status, data |-> run[r].data,
        price |-> IF run[r].status = "ok" THEN PriceOut ELSE 0]]
  /\ SetRun(r, IF run[r].cached THEN Answered(r, run[r])
               ELSE [run[r] EXCEPT !.stage = "finding insight"])
  /\ UNCHANGED <<world, cache, insight, spent, settled, receipts, crashes>>

\* Mutant of Book: a run served from the cache is not booked.
BookWritten(r) ==
  /\ run[r].stage = "booking"
  /\ ledger' = IF run[r].cached THEN ledger ELSE
       [ledger EXCEPT ![r] =
         [status |-> run[r].status, data |-> run[r].data,
          price |-> IF run[r].status = "ok" THEN PriceOut ELSE 0]]
  /\ SetRun(r, IF run[r].status = "ok" /\ ~run[r].cached
               THEN [run[r] EXCEPT !.stage = "finding insight"]
               ELSE Answered(r, run[r]))
  /\ UNCHANGED <<world, cache, insight, spent, settled, receipts, crashes>>

\* record_query: the sale is booked before it is made; a fresh memo is stored,
\* a cached one already is.
Book(r) ==
  /\ run[r].stage = "booking"
  /\ ledger' = [ledger EXCEPT ![r] =
       [status |-> run[r].status, data |-> run[r].data,
        price |-> IF run[r].status = "ok" THEN PriceOut ELSE 0]]
  /\ SetRun(r, IF run[r].status = "ok" /\ ~run[r].cached
               THEN [run[r] EXCEPT !.stage = "finding insight"]
               ELSE Answered(r, run[r]))
  /\ UNCHANGED <<world, cache, insight, spent, settled, receipts, crashes>>

\* A failed statement leaves run_research: 500, which is not settled.
ServerError == Refused

\* The select of upsert_insight; the update of a row found writes what nothing
\* here reads.
FindInsight(r) ==
  /\ run[r].stage = "finding insight"
  /\ SetRun(r, IF insight THEN [run[r] EXCEPT !.stage = "finding memo"]
               ELSE [run[r] EXCEPT !.stage = "saving insight"])
  /\ UNCHANGED <<world, cache, insight, ledger, spent, settled, receipts, crashes>>

\* The insert, unless another run inserted the unique key meanwhile.
SaveInsight(r) ==
  /\ run[r].stage = "saving insight"
  /\ insight' = TRUE
  /\ SetRun(r, IF insight THEN ServerError ELSE [run[r] EXCEPT !.stage = "finding memo"])
  /\ UNCHANGED <<world, cache, ledger, spent, settled, receipts, crashes>>

\* The select of put_cached_memo.
FindMemo(r) ==
  /\ run[r].stage = "finding memo"
  /\ SetRun(r, [run[r] EXCEPT !.stage = "saving memo", !.found = cache])
  /\ UNCHANGED <<world, cache, insight, ledger, spent, settled, receipts, crashes>>

\* The entry after an UPDATE of the columns whose value differs from the select's.
Updated(old, j) ==
  [fresh |-> TRUE,
   print |-> IF j.found.print # Fingerprint[j.snap] THEN Fingerprint[j.snap] ELSE old.print,
   memo  |-> IF j.found.memo # j.memo THEN j.memo ELSE old.memo]

\* put_cached_memo: INSERT where the select found nothing, else UPDATE.
SaveMemo(r) ==
  /\ run[r].stage = "saving memo"
  /\ LET j    == run[r]
         sold == Answered(r, j)
     IN \/ /\ j.found # None
           /\ cache' = Updated(cache, j)
           /\ SetRun(r, sold)
        \/ /\ j.found = None /\ cache = None
           /\ cache' = [fresh |-> TRUE, print |-> Fingerprint[j.snap], memo |-> j.memo]
           /\ SetRun(r, sold)
        \/ /\ j.found = None /\ cache # None
           /\ cache' = cache
           /\ SetRun(r, ServerError)
  /\ UNCHANGED <<world, insight, ledger, spent, settled, receipts, crashes>>

\* The store raises after the graph.
StoreFails(r) ==
  /\ run[r].stage \in {"booking", "finding insight", "saving insight",
                       "finding memo", "saving memo"}
  /\ SetRun(r, ServerError)
  /\ UNCHANGED <<world, cache, insight, ledger, spent, settled, receipts, crashes>>

---------------------------------------------------------------------------
(* The payment middleware and the audit *)

\* The facilitator captures the payment of a 2xx, or fails: no memo then.
Settle(r) ==
  /\ run[r].stage = "settling"
  /\ \/ settled' = settled \cup {r} /\ SetRun(r, [run[r] EXCEPT !.stage = "auditing"])
     \/ settled' = settled /\ SetRun(r, Refused)
  /\ UNCHANGED <<world, cache, insight, ledger, spent, receipts, crashes>>

\* PaymentAuditMiddleware: record_receipt, or a logged failure.
Audit(r) ==
  /\ Moves(r, "auditing", "delivered")
  /\ receipts' \in {receipts, receipts \cup {r}}
  /\ UNCHANGED <<world, cache, insight, ledger, spent, settled, crashes>>

---------------------------------------------------------------------------
(* The environment *)

WorldMoves ==
  /\ world' \in Versions \ {world}
  /\ UNCHANGED <<cache, insight, run, ledger, spent, settled, receipts, crashes>>

\* The entry outlives memo_cache_ttl_seconds.
Expire ==
  /\ cache # None /\ cache.fresh
  /\ cache' = [cache EXCEPT !.fresh = FALSE]
  /\ UNCHANGED <<world, insight, run, ledger, spent, settled, receipts, crashes>>

\* The process stops: no response to the requests under way.
Crash ==
  /\ crashes < MaxCrashes
  /\ crashes' = crashes + 1
  /\ run' = [r \in Runs |-> IF r \in Active THEN Refused ELSE run[r]]
  /\ UNCHANGED <<world, cache, insight, ledger, spent, settled, receipts>>

RunStep(r) ==
  \/ Begin(r) \/ Gather(r) \/ LookUp(r) \/ Debate(r) \/ Synthesize(r) \/ Judge(r)
  \/ NodeFails(r) \/ Book(r) \/ FindInsight(r) \/ SaveInsight(r) \/ FindMemo(r)
  \/ SaveMemo(r) \/ StoreFails(r) \/ Settle(r) \/ Audit(r)

Next == (\E r \in Runs : RunStep(r)) \/ WorldMoves \/ Expire \/ Crash

Spec == Init /\ [][Next]_vars

---------------------------------------------------------------------------
(* Properties *)

\* The memo of a run is out, or on its way through the payment.
Ships(r) == run[r].stage \in {"settling", "auditing", "delivered"}

\* "the cached memo only ships if it's still fully sourced against this
\* snapshot" (_memo_cache): what ships passes the gate against the facts its own
\* run gathered, also when concurrent upserts leave the fingerprint of one run
\* beside the memo of another.
ShippedIsSourced == \A r \in Runs : Ships(r) => Passes(run[r].memo, run[r].snap)

\* What ships was passed by a judge, in its own run or in the run that left it
\* in the cache: no error, retry, rejection or crash brings an unjudged memo
\* into the memo cache.
ShippedIsJudged == EnableJudge => \A r \in Runs : Ships(r) => run[r].memo.judged

\* "rejected research is never billed" (_deliver_or_refuse), and the three books
\* agree: a receipt is for a captured payment, a captured payment for a run the
\* margin ledger has as a sale at the product's price, with its memo on its way.
BilledIsBooked ==
  /\ receipts \subseteq settled
  /\ \A r \in settled :
       /\ r \in Paid
       /\ ledger[r] \in Query /\ ledger[r].status = "ok" /\ ledger[r].price = PriceOut
       /\ run[r].stage \in {"auditing", "delivered"} \/ crashes > 0

\* "Rejected/errored runs are refused (never settled), so they earn $0 - the
\* margin ledger must show the loss, not phantom revenue" (engine.py, lines
\* 309-310): a refused run that cost something is in the ledger, at no revenue.
LedgerShowsTheLoss ==
  \A r \in Runs :
    (run[r].stage = "refused" /\ r \notin settled /\ spent[r] > 0)
      => (ledger[r] # None /\ ledger[r].price = 0 /\ ledger[r].data = spent[r])
=============================================================================
