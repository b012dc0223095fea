-------------------------------- MODULE Eval --------------------------------
(***************************************************************************)
(* The evaluation harness (src/jim/eval/: metrics.py, runner.py,           *)
(* calibrate.py, storage.py, compare.py, cli.py): `jim-eval` commands that *)
(* run suites, keep each run as a file, compare it with a promoted         *)
(* baseline and calibrate the judge.                                       *)
(*                                                                         *)
(* Runners are processes: a run starts, takes time, picks an id that no    *)
(* file has, and writes its file, each in a step of its own.  Rates are in *)
(* ten-thousandths, scores in hundredths, an optional value is a set of at *)
(* most one, <<>> stands for None in a rate.                               *)
(***************************************************************************)
EXTENDS Integers, Sequences, FiniteSets
Ext == INSTANCE SequencesExt

CONSTANTS
  Runners,      \* processes that run `jim-eval`
  Shas,         \* commits that may be checked out
  OfflineCases, \* [suite -> set of case names] for gate, guards, scenarios
  LiveCases,    \* set of [name, variant]
  LiveResults,  \* what one live case may come to, see CaseOf
  JudgeCases,   \* [name -> [family, faithful]]
  JudgeScores,  \* [name -> score sequences the repeats of that case may give]
  Requested,    \* values of --suite
  JudgeThreshold, MinBalanced, MaxFalseReject,      \* settings, judge
  GateDrop, RubricDrop, CostIncrease, LatencyIncrease, \* settings, compare
  MaxCommands, MaxClock,   \* bounds: commands that write a run, and seconds
  Idle          \* a runner that runs nothing

\* The judge's dataset is a list in a module; the floors are numbers.
ASSUME JudgeAssumption == IsFiniteSet(DOMAIN JudgeCases) /\ {MinBalanced, MaxFalseReject} \subseteq Int

VARIABLES
  clock,     \* seconds
  runner,    \* [Runners -> Idle, or the run in flight, or its document under its id]
  files,     \* EVAL_RUNS_DIR: run id -> document
  baseline,  \* the BASELINE file
  printed,   \* what the last command printed and its exit code
  amid,      \* history: run id -> the runners that, when it was written, had picked an
             \* id and have not saved since
  commands   \* runs started so far

evalVars == <<clock, runner, files, baseline, printed, amid, commands>>

OfflineSuites == {"gate", "guards", "scenarios"}
Variants == {"single_pass", "debate"}
Silent == [exit |-> 0, samples |-> <<>>, report |-> <<>>]

EvalInit ==
  /\ clock = 0
  /\ runner = [r \in Runners |-> Idle]
  /\ files = <<>>
  /\ baseline = {}
  /\ printed = Silent
  /\ amid = <<>>
  /\ commands = 0

-----------------------------------------------------------------------------
(* metrics.py *)

Rate(k, n) == (20000 * k + n) \div (2 * n)

SumOf(Of(_), S) == Ext!FoldSet(LAMBDA x, n : n + Of(x), 0, S)

Percentile(values, pct) ==
  IF values = <<>> THEN 0
  ELSE LET sorted == Ext!SortSeq(values, <)
           rank   == pct * (Len(sorted) - 1)
           lo     == sorted[1 + rank \div 100]
           hi     == sorted[1 + (rank + 99) \div 100]
       IN (lo * (100 - (rank % 100)) + hi * (rank % 100)) \div 100

\* Cases are a function from names to [passed, score, latency, cost].
Aggregate(cases) ==
  LET names  == DOMAIN cases
      n      == Cardinality(names)
      scored == {c \in names : cases[c].score # {}}
      passed == Cardinality({c \in names : cases[c].passed})
      cost   == SumOf(LAMBDA c : cases[c].cost, names)
      order  == Ext!SetToSeq(names)
  IN [cases |-> n, passed |-> passed,
      passRate |-> IF n = 0 THEN <<>> ELSE <<Rate(passed, n)>>,
      score |-> IF scored = {} THEN <<>>
                ELSE <<(SumOf(LAMBDA c : Ext!Max(cases[c].score), scored) * 100) \div Cardinality(scored)>>,
      p95 |-> Percentile([i \in DOMAIN order |-> cases[order[i]].latency], 95),
      cost |-> cost, meanCost |-> IF n = 0 THEN 0 ELSE cost \div n]

SuiteBlock(cases) == [aggregate |-> Aggregate(cases), cases |-> cases]

-----------------------------------------------------------------------------
(* runner.py: the suites. *)

OfflineCase(correct) == [passed |-> correct, score |-> {}, latency |-> 1, cost |-> 0]

\* A gate or scenario case passes when the verdict is the expected one; a
\* guard or scenario that raises is a failing case, a gate that raises ends
\* the command.
GateSuite(verdict) ==
  IF \E c \in DOMAIN verdict : verdict[c] = "raises" THEN <<>>
  ELSE <<SuiteBlock([c \in DOMAIN verdict |-> OfflineCase(verdict[c] = "expected")])>>

GuardSuite(verdict) ==
  <<SuiteBlock([c \in DOMAIN verdict |-> OfflineCase(verdict[c] = "expected")])>>

\* One live case: the engine's result, or what it raised.
CaseOf(result) ==
  IF result.status = "raises"
  THEN [passed |-> FALSE, score |-> {}, latency |-> result.latency, cost |-> 0,
        gate |-> FALSE, faithfulness |-> {}]
  ELSE [passed |-> result.status = "ok", score |-> result.rubric, latency |-> result.latency,
        cost |-> result.cost, gate |-> result.gate, faithfulness |-> result.faithfulness]

LiveRollup(cases) ==
  LET n     == Cardinality(DOMAIN cases)
      faith == {c \in DOMAIN cases : cases[c].faithfulness # {}}
  IN [aggregate |-> Aggregate(cases),
      gateRate |-> IF n = 0 THEN <<>>
                   ELSE <<Rate(Cardinality({c \in DOMAIN cases : cases[c].gate}), n)>>,
      faithfulness |-> IF faith = {} THEN <<>>
                       ELSE <<SumOf(LAMBDA c : Ext!Max(cases[c].faithfulness), faith) \div Cardinality(faith)>>]

Lift(a, b) == IF a = <<>> \/ b = <<>> THEN <<>> ELSE <<b[1] - a[1]>>

LiveLift(rollup) ==
  [pass |-> Lift(rollup["single_pass"].aggregate.passRate, rollup["debate"].aggregate.passRate),
   gate |-> Lift(rollup["single_pass"].gateRate, rollup["debate"].gateRate),
   score |-> Lift(rollup["single_pass"].aggregate.score, rollup["debate"].aggregate.score),
   cost |-> rollup["debate"].aggregate.meanCost - rollup["single_pass"].aggregate.meanCost]

LiveSuite(result) ==
  LET cases  == [c \in DOMAIN result |-> CaseOf(result[c])]
      rollup == [v \in Variants |->
                  LiveRollup([c \in {x \in DOMAIN cases : x.variant = v} |-> cases[c]])]
  IN <<[aggregate |-> Aggregate(cases), cases |-> cases, rollup |-> LiveRollup(cases),
        variants |-> rollup, lift |-> LiveLift(rollup)]>>

Suite(name, results) ==
  CASE name = "gate" -> GateSuite(results["gate"])
    [] name \in {"guards", "scenarios"} -> GuardSuite(results[name])
    [] OTHER -> LiveSuite(results["live"])

\* run_suites and _summarize: the whole document, or nothing if a suite raised.
RunSuites(names, results, run) ==
  LET suites  == [n \in names |-> Suite(n, results)]
      offline == names \cap OfflineSuites
      cases   == SumOf(LAMBDA n : suites[n][1].aggregate.cases, offline)
      passed  == SumOf(LAMBDA n : suites[n][1].aggregate.passed, offline)
  IN IF \E n \in names : suites[n] = <<>> THEN {}
     ELSE {[started |-> run.started, sha |-> run.sha,
            suites |-> [n \in names |-> suites[n][1]],
            offlineCases |-> cases, offlinePassed |-> passed,
            allOfflinePassed |-> cases > 0 /\ passed = cases,
            cost |-> SumOf(LAMBDA n : suites[n][1].aggregate.cost, names)]}

-----------------------------------------------------------------------------
(* calibrate.py: samples are [name -> score sequence], none of them empty. *)

\* Twice the median, in hundredths.
Median2(scores) ==
  LET sorted == Ext!SortSeq(scores, <)
      n      == Len(sorted)
  IN sorted[(n + 1) \div 2] + sorted[n \div 2 + 1]

Flagged(scores, t) == Median2(scores) < 2 * t

ConfusionAt(samples, t) ==
  LET Count(faithful, flagged) ==
        Cardinality({c \in DOMAIN samples : JudgeCases[c].faithful = faithful
                                             /\ Flagged(samples[c], t) = flagged})
      tp == Count(FALSE, TRUE)   fn == Count(FALSE, FALSE)
      fp == Count(TRUE, TRUE)    tn == Count(TRUE, FALSE)
  IN [threshold |-> t, tp |-> tp, fp |-> fp, tn |-> tn, fn |-> fn,
      balanced |-> IF tp + fn = 0 \/ fp + tn = 0 THEN <<>>
                   ELSE <<(Rate(tp, tp + fn) + Rate(tn, fp + tn)) \div 2>>,
      falseReject |-> IF fp + tn = 0 THEN <<>> ELSE <<Rate(fp, fp + tn)>>]

PerFamily(samples, t) ==
  [fam \in {JudgeCases[c].family : c \in DOMAIN samples} |->
     LET its == {c \in DOMAIN samples : JudgeCases[c].family = fam}
     IN Rate(Cardinality({c \in its : Flagged(samples[c], t) = ~JudgeCases[c].faithful}),
             Cardinality(its))]

FlipRate(samples, t) ==
  LET multi == {c \in DOMAIN samples : Len(samples[c]) > 1}
      flips == {c \in multi : \E i, j \in DOMAIN samples[c] : samples[c][i] < t /\ samples[c][j] >= t}
  IN IF multi = {} THEN <<>> ELSE <<Rate(Cardinality(flips), Cardinality(multi))>>

SweepThresholds == {50 + 5 * i : i \in 0..9}

Sweep(samples) == {ConfusionAt(samples, t) : t \in SweepThresholds}

WithinCap(row) == row.falseReject # <<>> /\ row.falseReject[1] <= MaxFalseReject

MeetsFloor(row) == row.balanced # <<>> /\ row.balanced[1] >= MinBalanced /\ WithinCap(row)

Chosen(pool) ==
  LET best == CHOOSE row \in pool : \A other \in pool :
                \/ other.balanced[1] < row.balanced[1]
                \/ other.balanced[1] = row.balanced[1] /\ other.threshold >= row.threshold
  IN {[threshold |-> best.threshold, floorMet |-> MeetsFloor(best)]}

\* A bug: the best balanced accuracy outright, cap or no cap.
ChooseUncapped(sweep) ==
  LET scored == {row \in sweep : row.balanced # <<>>}
  IN IF scored = {} THEN {} ELSE Chosen(scored)

ChooseThreshold(sweep) ==
  LET scored == {row \in sweep : row.balanced # <<>>}
      capped == {row \in scored : WithinCap(row)}
  IN IF scored = {} THEN {} ELSE Chosen(IF capped = {} THEN scored ELSE capped)

CalibrationReport(samples) ==
  [cases |-> Cardinality(DOMAIN samples), at |-> ConfusionAt(samples, JudgeThreshold),
   flips |-> FlipRate(samples, JudgeThreshold), families |-> PerFamily(samples, JudgeThreshold),
   chosen |-> ChooseThreshold(Sweep(samples))]

\* run_suite_judge: a skipped or failed call leaves no score; a case without
\* a score is not a sample.
Samples(scores) ==
  [c \in {x \in DOMAIN scores : scores[x] # <<>>} |-> scores[c]]

-----------------------------------------------------------------------------
(* storage.py: an id is <<stamp, sha>>, or <<stamp, sha, n>> from n = 2. *)

\* A bug: no look at what is already there.
BareRunId(stamp, sha) == <<stamp, sha>>

NewRunId(stamp, sha) ==
  IF <<stamp, sha>> \notin DOMAIN files THEN <<stamp, sha>>
  ELSE <<stamp, sha, CHOOSE n \in 2 .. Cardinality(DOMAIN files) + 2 :
           /\ <<stamp, sha, n>> \notin DOMAIN files
           /\ \A k \in 2 .. n - 1 : <<stamp, sha, k>> \in DOMAIN files>>

\* Text order of two ids (below ten of one base).
Precedes(a, b) ==
  \/ a[1] < b[1]
  \/ a[1] = b[1] /\ a[2] < b[2]
  \/ a[1] = b[1] /\ a[2] = b[2] /\ (IF Len(a) = 2 THEN 1 ELSE a[3]) < (IF Len(b) = 2 THEN 1 ELSE b[3])

ResolveRunId(ref) ==
  LET ids     == DOMAIN files
      matches == {i \in ids : Ext!IsPrefix(ref.prefix, i)}
  IN IF ref.kind = "latest" THEN {i \in ids : \A j \in ids \ {i} : Precedes(j, i)}
     ELSE IF ref.kind = "baseline" THEN baseline
     ELSE IF ref.prefix \in ids THEN {ref.prefix}
     ELSE IF Cardinality(matches) = 1 THEN matches ELSE {}

Refs == [kind : {"latest", "baseline"}, prefix : {<<>>}]
          \cup [kind : {"id"}, prefix : {SubSeq(i, 1, 1) : i \in DOMAIN files} \cup DOMAIN files]

-----------------------------------------------------------------------------
(* compare.py *)

\* The verdicts of the offline suites both runs have, as [<<suite, case>> -> passed].
Verdicts(doc, suites) ==
  [p \in UNION {{s} \X DOMAIN doc.suites[s].cases : s \in suites} |->
     doc.suites[p[1]].cases[p[2]].passed]

OfflineDiff(base, cand) ==
  LET both == DOMAIN base.suites \cap DOMAIN cand.suites \cap OfflineSuites
      a    == Verdicts(base, both)
      b    == Verdicts(cand, both)
  IN [failing |-> {p \in DOMAIN b : ~b[p] /\ (p \in DOMAIN a => a[p])},
      fixed   |-> {p \in DOMAIN b \cap DOMAIN a : b[p] /\ ~a[p]}]

RateStatus(a, b, drop) ==
  IF a = <<>> \/ b = <<>> THEN "n/a"
  ELSE IF b[1] - a[1] < -drop THEN "regressed"
  ELSE IF b[1] > a[1] THEN "improved" ELSE "flat"

CostStatus(a, b, increase) ==
  IF (IF a = 0 THEN b > 0 /\ 100 > increase ELSE (b - a) * 100 > increase * a) THEN "regressed"
  ELSE IF b < a THEN "improved" ELSE "flat"

LiveDiff(base, cand) ==
  IF "live" \notin DOMAIN base.suites \cap DOMAIN cand.suites THEN {}
  ELSE LET a == base.suites["live"].rollup  b == cand.suites["live"].rollup
       IN {RateStatus(a.gateRate, b.gateRate, GateDrop),
           RateStatus(a.aggregate.score, b.aggregate.score, RubricDrop),
           CostStatus(a.aggregate.meanCost, b.aggregate.meanCost, CostIncrease),
           CostStatus(a.aggregate.p95, b.aggregate.p95, LatencyIncrease)}

CompareRuns(base, cand) ==
  LET offline == OfflineDiff(base, cand)  live == LiveDiff(base, cand)
  IN IF offline.failing # {} \/ "regressed" \in live THEN "regressed"
     ELSE IF offline.fixed # {} \/ "improved" \in live THEN "improved"
     ELSE "flat"

-----------------------------------------------------------------------------
(* cli.py: the commands. *)

RunNames(suite, credential) ==
  LET asked == CASE suite = "offline" -> OfflineSuites
                 [] suite = "all" -> OfflineSuites \cup {"live"}
                 [] OTHER -> {suite}
  IN IF credential THEN asked ELSE asked \ {"live"}

Exits(code) == printed' = [Silent EXCEPT !.exit = code]

Underway(r) == runner[r] # Idle /\ "names" \in DOMAIN runner[r]

\* The run has its id and its document, and has not written it.
Saving(r) == runner[r] # Idle /\ "doc" \in DOMAIN runner[r]

Begin(r, names, sha, compare, save) ==
  runner' = [runner EXCEPT ![r] = [names |-> names, started |-> clock, sha |-> sha,
                                   compare |-> compare, save |-> save]]

StartRun(r) == \E suite \in Requested, credential, compare, save \in BOOLEAN, sha \in Shas :
  LET names == RunNames(suite, credential)
  IN /\ runner[r] = Idle
     /\ commands < MaxCommands
     /\ commands' = commands + 1
     /\ IF names = {} THEN Exits(2) /\ UNCHANGED runner
        ELSE Begin(r, names, sha, compare, save) /\ UNCHANGED printed
     /\ UNCHANGED <<clock, files, baseline, amid>>

\* `judge-calibrate` runs the judge's suite alone.
JudgeCalibrate(r) == \E save \in BOOLEAN, sha \in Shas :
  /\ runner[r] = Idle
  /\ commands < MaxCommands
  /\ commands' = commands + 1
  /\ Begin(r, {"judge"}, sha, FALSE, save)
  /\ UNCHANGED <<clock, files, baseline, printed, amid>>

\* What the suites of a run may come to.
Results(names) ==
  [gate : [OfflineCases["gate"] -> IF "gate" \in names THEN {"expected", "wrong", "raises"} ELSE {"expected"}],
   guards : [OfflineCases["guards"] -> IF "guards" \in names THEN {"expected", "wrong"} ELSE {"expected"}],
   scenarios : [OfflineCases["scenarios"] -> IF "scenarios" \in names THEN {"expected", "wrong"} ELSE {"expected"}],
   live : IF "live" \in names THEN [LiveCases -> LiveResults]
          ELSE {[c \in LiveCases |-> CHOOSE x \in LiveResults : TRUE]}]

Saved(id, doc) == [i \in DOMAIN files \cup {id} |-> IF i = id THEN doc ELSE files[i]]

\* run_suites returns: the run has a document and an id that no file has.
Finished(r, doc, out) ==
  runner' = [runner EXCEPT ![r] = [id |-> NewRunId(@.started, @.sha), doc |-> doc, out |-> out,
                                   compare |-> @.compare, save |-> @.save]]

FinishRun(r) == Underway(r) /\ runner[r].names # {"judge"} /\ \E results \in Results(runner[r].names) :
  LET docs == RunSuites(runner[r].names, results, runner[r])
  IN /\ IF docs = {} THEN Exits(1) /\ runner' = [runner EXCEPT ![r] = Idle]
        ELSE /\ \E doc \in docs :
                  Finished(r, doc, [Silent EXCEPT !.exit = IF doc.allOfflinePassed THEN 0 ELSE 1])
             /\ UNCHANGED printed
     /\ UNCHANGED <<clock, files, baseline, amid, commands>>

FinishJudge(r) == Underway(r) /\ runner[r].names = {"judge"}
  /\ \E scores \in [DOMAIN JudgeCases -> UNION {JudgeScores[c] : c \in DOMAIN JudgeCases}] :
       LET samples == Samples(scores)
           report  == CalibrationReport(samples)
       IN /\ \A c \in DOMAIN scores : scores[c] \in JudgeScores[c]
          /\ Finished(r, [started |-> runner[r].started, sha |-> runner[r].sha, suites |-> <<>>,
                          chosen |-> report.chosen],
                      [exit |-> IF \E c \in report.chosen : c.floorMet THEN 0 ELSE 1,
                       samples |-> samples, report |-> report])
  /\ UNCHANGED <<clock, files, baseline, printed, amid, commands>>

\* The file is written, whether or not there is one by now; the baseline is read
\* after that.
SaveRun(r) == Saving(r) /\
  LET run   == runner[r]
      after == IF run.save THEN Saved(run.id, run.doc) ELSE files
      worse == run.compare /\ \E b \in baseline : CompareRuns(after[b], run.doc) = "regressed"
  IN /\ runner' = [runner EXCEPT ![r] = Idle]
     /\ files' = after
     /\ amid' = [i \in DOMAIN after |-> IF run.save /\ i = run.id THEN {q \in Runners \ {r} : Saving(q)}
                                        ELSE amid[i] \ {r}]
     /\ printed' = IF worse THEN [run.out EXCEPT !.exit = 1] ELSE run.out
     /\ UNCHANGED <<clock, baseline, commands>>

BaselineSet == \E ref \in Refs :
  LET ids == ResolveRunId(ref)
  IN /\ IF ids = {} THEN Exits(2) /\ UNCHANGED baseline
        ELSE Exits(0) /\ baseline' = ids
     /\ UNCHANGED <<clock, runner, files, amid, commands>>

BaselineClear ==
  /\ baseline' = {}
  /\ Exits(0)
  /\ UNCHANGED <<clock, runner, files, amid, commands>>

\* `compare` and `show` only read.
Compare == \E base, cand \in Refs :
  LET b == ResolveRunId(base)  c == ResolveRunId(cand)
  IN /\ IF b = {} \/ c = {} THEN Exits(2)
        ELSE Exits(IF \E x \in b, y \in c : CompareRuns(files[x], files[y]) = "regressed" THEN 1 ELSE 0)
     /\ UNCHANGED <<clock, runner, files, baseline, amid, commands>>

SecondPasses ==
  /\ clock < MaxClock
  /\ clock' = clock + 1
  /\ UNCHANGED <<runner, files, baseline, printed, amid, commands>>

EvalNext ==
  \/ \E r \in Runners :
       StartRun(r) \/ JudgeCalibrate(r) \/ FinishRun(r) \/ FinishJudge(r) \/ SaveRun(r)
  \/ BaselineSet \/ BaselineClear \/ Compare \/ SecondPasses

EvalSpec == EvalInit /\ [][EvalNext]_evalVars

-----------------------------------------------------------------------------
(* storage.py:10 "a BASELINE marker file names the run future runs are     *)
(* judged against": while an id is the promoted one its document changes   *)
(* only by a run that had picked its id, the same one, and not yet saved,  *)
(* when that document was written.  A run that picks its id later, in the  *)
(* same second or not, never replaces it.                                  *)
PromotedRunStands ==
  [][\A b \in baseline : files'[b] # files[b] => \E r \in amid[b] : SaveRun(r)]_evalVars

(* calibrate.py:130 "a judge that can't meet the floor at ANY threshold    *)
(* must not co-decide": the report of the last calibration says the floor  *)
(* is met if and only if some point of its sweep meets it.                 *)
FloorMetIffAttainable ==
  printed.report # <<>> =>
    ((\E c \in printed.report.chosen : c.floorMet) <=> \E row \in Sweep(printed.samples) : MeetsFloor(row))

=============================================================================
