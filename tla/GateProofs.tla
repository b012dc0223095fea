----------------------------- MODULE GateProofs -----------------------------
(***************************************************************************)
(* Proofs about the two gates: the evaluation that a policy must pass      *)
(* before it is promoted (Eval), and the sourcing gate that a brief must   *)
(* pass before it is sold (Sourcing).                                      *)
(***************************************************************************)
EXTENDS Eval, Sourcing, DataLemmas

-----------------------------------------------------------------------------
(* The evaluation gate.                                                    *)

\* The files are finitely many and the promoted id is one of them; a run that has
\* picked an id and not saved, and finds a file of that name by now, was there when
\* the file was written.
BaselineIsKept ==
  /\ IsFiniteSet(DOMAIN files)
  /\ baseline \subseteq DOMAIN files
  /\ DOMAIN amid = DOMAIN files
  /\ DOMAIN runner = Runners
  /\ \A r \in Runners : Saving(r) /\ runner[r].id \in DOMAIN files => r \in amid[runner[r].id]

\* What is printed of a calibration was computed from the samples beside it.
IsReport(out) ==
  /\ out = [exit |-> out.exit, samples |-> out.samples, report |-> out.report]
  /\ out.report # <<>> =>
       /\ DOMAIN out.samples \subseteq DOMAIN JudgeCases
       /\ out.report = CalibrationReport(out.samples)

\* So is what will be printed, once the run is saved.
ReportIsOfSamples ==
  /\ IsReport(printed)
  /\ DOMAIN runner = Runners
  /\ \A r \in Runners : Saving(r) => IsReport(runner[r].out)

\* The inductive invariant of the evaluation.
EvalInv == BaselineIsKept /\ ReportIsOfSamples

\* storage.py new_run_id: the loop ends on a name that no file has, whatever
\* files there are.
LEMMA NewRunIdIsNew ==
  ASSUME IsFiniteSet(DOMAIN files), NEW stamp, NEW sha
  PROVE  NewRunId(stamp, sha) \notin DOMAIN files
<1> DEFINE D == DOMAIN files
           m == Cardinality(D) + 2
           Free == {n \in 2 .. m : <<stamp, sha, n>> \notin D}
           first == CHOOSE n \in 2 .. m : /\ <<stamp, sha, n>> \notin D
                                          /\ \A k \in 2 .. n - 1 : <<stamp, sha, k>> \in D
<1>1. Cardinality(D) \in Nat BY FS_CardinalityType
<1>2. Free # {}
  <2>1. SUFFICES ASSUME \A n \in 2 .. m : <<stamp, sha, n>> \in D PROVE FALSE OBVIOUS
  <2> DEFINE f == [n \in 2 .. m |-> <<stamp, sha, n>>]
  <2>2. f \in [2 .. m -> D] BY <2>1
  <2>3. IsFiniteSet(2 .. m) /\ Cardinality(2 .. m) = Cardinality(D) + 1
    <3>1. m \in Int /\ 2 \in Int /\ ~(2 > m) /\ m - 2 + 1 = Cardinality(D) + 1 BY <1>1
    <3> HIDE DEF m
    <3> QED BY <3>1, FS_Interval
  <2>4. Cardinality(D) < Cardinality(2 .. m) BY <2>3, <1>1
  <2>5. \E x, y \in 2 .. m : x # y /\ f[x] = f[y]
    <3> HIDE DEF f, m, D
    <3>1. IsFiniteSet(D) BY DEF D
    <3> QED BY <2>2, <2>3, <2>4, <3>1, FS_PigeonHole
  <2> QED BY <2>5
<1>3. PICK n \in Free : \A k \in Free : n <= k
  <2>1. Free \in SUBSET Nat BY <1>1
  <2> HIDE DEF Free
  <2> QED BY <1>2, <2>1, LeastOf
<1>4. \A k \in 2 .. n - 1 : <<stamp, sha, k>> \in D
  <2>1. SUFFICES ASSUME NEW k \in 2 .. n - 1, <<stamp, sha, k>> \notin D PROVE FALSE OBVIOUS
  <2>2. k \in Free /\ k < n BY <2>1, <1>1, <1>3
  <2> QED BY <2>2, <1>3, <1>1
<1>5. <<stamp, sha, first>> \notin D BY <1>3, <1>4
<1> QED BY <1>5 DEF NewRunId

\* Whatever a reference resolves to is a run on disk.
LEMMA ResolvesToFiles ==
  ASSUME BaselineIsKept, NEW ref
  PROVE  ResolveRunId(ref) \subseteq DOMAIN files
BY DEF ResolveRunId, BaselineIsKept

\* A run that is begun, or ends with nothing to save, is not saving.
LEMMA NotSaving ==
  ASSUME NEW r \in Runners, DOMAIN runner = Runners,
         \/ runner' = [runner EXCEPT ![r] = Idle]
         \/ \E names, sha, compare, save : Begin(r, names, sha, compare, save)
  PROVE  /\ DOMAIN runner' = Runners /\ ~Saving(r)'
         /\ \A q \in Runners \ {r} : runner'[q] = runner[q]
<1>1. CASE runner' = [runner EXCEPT ![r] = Idle]
  BY <1>1 DEF Saving
<1>2. ASSUME NEW names, NEW sha, NEW compare, NEW save, Begin(r, names, sha, compare, save)
      PROVE  /\ DOMAIN runner' = Runners /\ ~Saving(r)'
             /\ \A q \in Runners \ {r} : runner'[q] = runner[q]
  <2> DEFINE run == [names |-> names, started |-> clock, sha |-> sha, compare |-> compare, save |-> save]
  <2>1. "doc" \notin DOMAIN run
    OBVIOUS
  <2>2. runner' = [runner EXCEPT ![r] = run]
    BY <1>2 DEF Begin
  <2> HIDE DEF run
  <2> QED
    BY <2>1, <2>2 DEF Saving
<1> QED
  BY <1>1, <1>2

\* A run that finishes has an id that no file has, and will print this.
LEMMA FinishedIsNew ==
  ASSUME BaselineIsKept, NEW r \in Runners, NEW doc, NEW out, Finished(r, doc, out)
  PROVE  /\ DOMAIN runner' = Runners /\ runner'[r].id \notin DOMAIN files /\ runner'[r].out = out
         /\ \A q \in Runners \ {r} : runner'[q] = runner[q]
<1>1. /\ DOMAIN runner' = Runners /\ runner'[r].id = NewRunId(runner[r].started, runner[r].sha)
      /\ runner'[r].out = out /\ \A q \in Runners \ {r} : runner'[q] = runner[q]
  BY DEF Finished, BaselineIsKept
<1> QED
  BY <1>1, NewRunIdIsNew DEF BaselineIsKept

\* The invariant stays when nothing is written, a runner or none begins or
\* finishes, and the baseline stays among the files.
LEMMA NothingWritten ==
  ASSUME BaselineIsKept, UNCHANGED <<files, amid>>, baseline' \subseteq DOMAIN files,
         DOMAIN runner' = Runners, NEW R \in SUBSET Runners,
         \A q \in Runners \ R : runner'[q] = runner[q],
         \A r \in R : ~Saving(r)' \/ runner'[r].id \notin DOMAIN files
  PROVE  BaselineIsKept'
<1>1. ASSUME NEW q \in Runners, Saving(q)', runner'[q].id \in DOMAIN files
      PROVE  q \in amid'[runner'[q].id]
  <2>1. q \notin R /\ runner'[q] = runner[q]
    BY <1>1
  <2>2. Saving(q)
    BY <1>1, <2>1 DEF Saving
  <2> QED
    BY <1>1, <2>1, <2>2 DEF BaselineIsKept
<1> QED
  BY <1>1 DEF BaselineIsKept

\* A save keeps the invariant: whoever is left with the id that was written was
\* saving then.
LEMMA SaveKeeps ==
  ASSUME BaselineIsKept, NEW r \in Runners, SaveRun(r)
  PROVE  BaselineIsKept'
<1> DEFINE run == runner[r]
           after == IF run.save THEN Saved(run.id, run.doc) ELSE files
           others == {q \in Runners \ {r} : Saving(q)}
<1>1. /\ runner' = [runner EXCEPT ![r] = Idle] /\ files' = after /\ baseline' = baseline
      /\ amid' = [i \in DOMAIN after |-> IF run.save /\ i = run.id THEN others ELSE amid[i] \ {r}]
  BY DEF SaveRun
<1>2. DOMAIN runner' = Runners /\ ~Saving(r)' /\ \A q \in Runners \ {r} : runner'[q] = runner[q]
  BY <1>1, NotSaving DEF BaselineIsKept
<1>3. DOMAIN after = IF run.save THEN DOMAIN files \cup {run.id} ELSE DOMAIN files
  BY DEF Saved
<1> HIDE DEF after
<1>4. IsFiniteSet(DOMAIN files') /\ baseline' \subseteq DOMAIN files' /\ DOMAIN amid' = DOMAIN files'
  BY <1>1, <1>3, FS_AddElement DEF BaselineIsKept
<1>5. ASSUME NEW q \in Runners, Saving(q)', runner'[q].id \in DOMAIN files'
      PROVE  q \in amid'[runner'[q].id]
  <2>1. q # r /\ runner'[q] = runner[q]
    BY <1>2, <1>5
  <2>2. Saving(q)
    BY <1>5, <2>1 DEF Saving
  <2>3. q \in others
    BY <2>1, <2>2
  <2>4. CASE run.save /\ runner[q].id = run.id
    BY <1>1, <1>5, <2>1, <2>3, <2>4
  <2>5. CASE ~(run.save /\ runner[q].id = run.id)
    <3>1. runner[q].id \in DOMAIN files
      BY <1>1, <1>3, <1>5, <2>1, <2>5
    <3>2. q \in amid[runner[q].id]
      BY <2>2, <3>1 DEF BaselineIsKept
    <3> QED
      BY <1>1, <1>5, <2>1, <2>5, <3>2
  <2> QED
    BY <2>4, <2>5
<1> QED
  BY <1>2, <1>4, <1>5 DEF BaselineIsKept

\* Every step of the evaluation keeps the invariant.
LEMMA BaselineInductive ==
  ASSUME BaselineIsKept, [EvalNext]_evalVars
  PROVE  BaselineIsKept'
<1>1. ASSUME NEW r \in Runners, StartRun(r) \/ JudgeCalibrate(r) PROVE BaselineIsKept'
  <2>1. UNCHANGED <<files, amid, baseline>>
    BY <1>1 DEF StartRun, JudgeCalibrate
  <2>2. UNCHANGED runner \/ \E names, sha, compare, save : Begin(r, names, sha, compare, save)
    BY <1>1 DEF StartRun, JudgeCalibrate
  <2>3. CASE UNCHANGED runner
    BY <2>1, <2>3 DEF BaselineIsKept, Saving
  <2>4. CASE \E names, sha, compare, save : Begin(r, names, sha, compare, save)
    <3>1. /\ DOMAIN runner' = Runners /\ ~Saving(r)'
          /\ \A q \in Runners \ {r} : runner'[q] = runner[q]
      BY <2>4, NotSaving DEF BaselineIsKept
    <3>2. baseline' \subseteq DOMAIN files /\ {r} \in SUBSET Runners
      BY <2>1 DEF BaselineIsKept
    <3> QED
      BY <2>1, <3>1, <3>2, NothingWritten
  <2> QED
    BY <2>2, <2>3, <2>4
<1>2. ASSUME NEW r \in Runners, FinishRun(r) \/ FinishJudge(r) PROVE BaselineIsKept'
  <2>1. UNCHANGED <<files, amid, baseline>>
    BY <1>2 DEF FinishRun, FinishJudge
  <2>2. runner' = [runner EXCEPT ![r] = Idle] \/ \E doc, out : Finished(r, doc, out)
    BY <1>2 DEF FinishRun, FinishJudge
  <2>3. /\ DOMAIN runner' = Runners /\ (~Saving(r)' \/ runner'[r].id \notin DOMAIN files)
        /\ \A q \in Runners \ {r} : runner'[q] = runner[q]
    <3>1. CASE runner' = [runner EXCEPT ![r] = Idle]
      BY <3>1, NotSaving DEF BaselineIsKept
    <3>2. CASE \E doc, out : Finished(r, doc, out)
      BY <3>2, FinishedIsNew
    <3> QED
      BY <2>2, <3>1, <3>2
  <2>4. baseline' \subseteq DOMAIN files /\ {r} \in SUBSET Runners
    BY <2>1 DEF BaselineIsKept
  <2> QED
    BY <2>1, <2>3, <2>4, NothingWritten
<1>3. ASSUME NEW r \in Runners, SaveRun(r) PROVE BaselineIsKept'
  BY <1>3, SaveKeeps
<1>4. CASE BaselineSet
  <2>1. UNCHANGED <<files, amid, runner>>
    BY <1>4 DEF BaselineSet
  <2>2. UNCHANGED baseline \/ \E ref : baseline' = ResolveRunId(ref)
    BY <1>4 DEF BaselineSet
  <2>3. baseline' \subseteq DOMAIN files
    BY <2>2, ResolvesToFiles DEF BaselineIsKept
  <2> QED
    BY <2>1, <2>3 DEF BaselineIsKept, Saving
<1>5. CASE BaselineClear
  BY <1>5 DEF BaselineClear, BaselineIsKept, Saving
<1>6. CASE Compare \/ SecondPasses \/ UNCHANGED evalVars
  BY <1>6 DEF Compare, SecondPasses, evalVars, BaselineIsKept, Saving
<1> QED
  BY <1>1, <1>2, <1>3, <1>4, <1>5, <1>6 DEF EvalNext

\* Only a save writes, and only under the id that was picked: a document it
\* replaces was written while it held that id.
LEMMA OnlyAmidReplaces ==
  ASSUME BaselineIsKept, [EvalNext]_evalVars, NEW b \in baseline, files'[b] # files[b]
  PROVE  \E r \in amid[b] : SaveRun(r)
<1>1. ~UNCHANGED files
  OBVIOUS
<1>2. PICK r \in Runners : SaveRun(r)
  BY <1>1 DEF EvalNext, evalVars, StartRun, JudgeCalibrate, FinishRun, FinishJudge, BaselineSet,
     BaselineClear, Compare, SecondPasses
<1>3. Saving(r) /\ files' = Saved(runner[r].id, runner[r].doc)
  BY <1>1, <1>2 DEF SaveRun
<1>4. b \in DOMAIN files
  BY DEF BaselineIsKept
<1>5. b = runner[r].id
  BY <1>3, <1>4 DEF Saved
<1> QED
  BY <1>2, <1>3, <1>4, <1>5 DEF BaselineIsKept

\* A rate over a group that is not empty is a number.
LEMMA RateIsNumber ==
  ASSUME NEW k \in Nat, NEW n \in Nat, n # 0
  PROVE  Rate(k, n) \in Int
BY DEF Rate

\* The balanced accuracy of a row is missing or a number, and its threshold
\* is one of the sweep's.
LEMMA RowsAreNumbers ==
  ASSUME NEW samples, DOMAIN samples \subseteq DOMAIN JudgeCases, NEW row \in Sweep(samples)
  PROVE  /\ row.threshold \in 50 .. 95
         /\ row.balanced # <<>> => row.balanced[1] \in Int
<1> DEFINE Group(faithful, flagged, t) ==
             {c \in DOMAIN samples : JudgeCases[c].faithful = faithful
                                      /\ Flagged(samples[c], t) = flagged}
           Count(faithful, flagged, t) == Cardinality(Group(faithful, flagged, t))
<1>1. IsFiniteSet(DOMAIN samples) BY JudgeAssumption, FS_Subset
<1>2. PICK t \in SweepThresholds : row = ConfusionAt(samples, t) BY DEF Sweep
<1>3. t \in 50 .. 95 BY <1>2 DEF SweepThresholds
<1>4. \A faithful, flagged : Count(faithful, flagged, t) \in Nat
  <2>1. \A faithful, flagged : Group(faithful, flagged, t) \in SUBSET DOMAIN samples OBVIOUS
  <2> HIDE DEF Group
  <2> QED BY <2>1, <1>1, CountIsNumber
<1> DEFINE tp == Count(FALSE, TRUE, t)
           fn == Count(FALSE, FALSE, t)
           fp == Count(TRUE, TRUE, t)
           tn == Count(TRUE, FALSE, t)
<1>5. /\ row.threshold = t
      /\ row.balanced = IF tp + fn = 0 \/ fp + tn = 0 THEN <<>>
                        ELSE <<(Rate(tp, tp + fn) + Rate(tn, fp + tn)) \div 2>>
  BY <1>2 DEF ConfusionAt
<1>6. tp \in Nat /\ fn \in Nat /\ fp \in Nat /\ tn \in Nat BY <1>4
<1>7. CASE tp + fn = 0 \/ fp + tn = 0
  <2>1. row.balanced = <<>> BY <1>5, <1>7
  <2> QED BY <2>1, <1>3, <1>5
<1>8. CASE ~(tp + fn = 0 \/ fp + tn = 0)
  <2> HIDE DEF tp, fn, fp, tn
  <2>1. Rate(tp, tp + fn) \in Int /\ Rate(tn, fp + tn) \in Int
    BY <1>6, <1>8, RateIsNumber
  <2>2. row.balanced[1] = (Rate(tp, tp + fn) + Rate(tn, fp + tn)) \div 2 BY <1>5, <1>8
  <2>3. row.balanced[1] \in Int BY <2>1, <2>2
  <2> QED BY <2>3, <1>3, <1>5
<1> QED BY <1>7, <1>8

\* One number orders rows by accuracy first and by threshold then.
Accuracy(row) == row.balanced[1]
\* select_operating_point's order, as one number: accuracy first, then the
\* lower threshold.
Rank(row) == 1000 * Accuracy(row) - row.threshold

Outranks(row, other) ==
  \/ Accuracy(other) < Accuracy(row)
  \/ Accuracy(other) = Accuracy(row) /\ other.threshold >= row.threshold

\* Two rows of a sweep compare as their ranks do: thresholds lie less than
\* 1000 apart.
LEMMA RankOrders ==
  ASSUME NEW row, NEW other, {Accuracy(row), Accuracy(other)} \subseteq Int,
         {row.threshold, other.threshold} \subseteq 50 .. 95
  PROVE  /\ Rank(row) \in Int
         /\ Rank(other) <= Rank(row) => Outranks(row, other)
BY DEF Rank, Outranks

\* A sweep has one row per threshold, and so a row of highest rank.
LEMMA SweepIsFinite ==
  ASSUME NEW samples
  PROVE  IsFiniteSet(Sweep(samples))
<1> DEFINE f == [i \in 0 .. 9 |-> ConfusionAt(samples, 50 + 5 * i)]
<1>1. Sweep(samples) = {f[i] : i \in 0 .. 9} BY Zenon DEF Sweep, SweepThresholds
<1>2. IsFiniteSet(0 .. 9)
  <2>1. 0 \in Int /\ 9 \in Int OBVIOUS
  <2> QED BY <2>1, FS_Interval
<1> HIDE DEF f
<1> QED BY <1>1, <1>2, ImageIsFinite

\* calibrate.py choose_threshold: what is best of a pool exists, and no row of
\* the pool is more accurate.
LEMMA BestOfPool ==
  ASSUME NEW samples, DOMAIN samples \subseteq DOMAIN JudgeCases,
         NEW pool \in SUBSET Sweep(samples), pool # {}, \A row \in pool : row.balanced # <<>>
  PROVE  \E best \in pool :
           /\ \A row \in pool : row.balanced[1] <= best.balanced[1]
           /\ Chosen(pool) = {[threshold |-> best.threshold, floorMet |-> MeetsFloor(best)]}
<1> DEFINE f == [row \in pool |-> Rank(row)]
           best == CHOOSE row \in pool : \A other \in pool :
                     \/ other.balanced[1] < row.balanced[1]
                     \/ other.balanced[1] = row.balanced[1] /\ other.threshold >= row.threshold
<1>1. ASSUME NEW row \in pool PROVE row.threshold \in 50 .. 95 /\ Accuracy(row) \in Int
  BY RowsAreNumbers DEF Accuracy
<1>2. f \in [pool -> Int]
  <2>1. ASSUME NEW row \in pool PROVE Rank(row) \in Int BY <1>1, RankOrders
  <2> QED BY <2>1
<1>3. IsFiniteSet(pool) BY SweepIsFinite, FS_Subset
<1>4. PICK top \in pool : \A row \in pool : f[row] <= f[top]
  <2> HIDE DEF f
  <2> QED BY <1>2, <1>3, GreatestAt
<1>5. \A other \in pool : Outranks(top, other)
  <2>1. SUFFICES ASSUME NEW other \in pool PROVE Outranks(top, other) OBVIOUS
  <2>2. Rank(other) <= Rank(top) BY <1>4
  <2> QED BY <2>2, <1>1, RankOrders
<1>6. best \in pool /\ \A other \in pool : Outranks(best, other) BY <1>5, Zenon DEF Outranks, Accuracy
<1>7. Chosen(pool) = {[threshold |-> best.threshold, floorMet |-> MeetsFloor(best)]} BY Zenon DEF Chosen
<1> HIDE DEF best
<1>8. ASSUME NEW row \in pool PROVE Accuracy(row) <= Accuracy(best)
  BY <1>6, <1>1 DEF Outranks
<1> QED BY <1>6, <1>7, <1>8 DEF Accuracy

\* The floor is met by the chosen threshold exactly when some threshold meets it.
LEMMA ChosenMeetsFloor ==
  ASSUME NEW samples, DOMAIN samples \subseteq DOMAIN JudgeCases
  PROVE  (\E c \in ChooseThreshold(Sweep(samples)) : c.floorMet)
           <=> \E row \in Sweep(samples) : MeetsFloor(row)
<1> DEFINE scored == {row \in Sweep(samples) : row.balanced # <<>>}
           capped == {row \in scored : WithinCap(row)}
<1>1. CASE scored = {}
  <2>1. ChooseThreshold(Sweep(samples)) = {} BY <1>1 DEF ChooseThreshold
  <2>2. \A row \in Sweep(samples) : ~MeetsFloor(row) BY <1>1 DEF MeetsFloor
  <2> QED BY <2>1, <2>2
<1>2. CASE scored # {} /\ capped = {}
  <2>1. PICK best \in scored : Chosen(scored) = {[threshold |-> best.threshold, floorMet |-> MeetsFloor(best)]}
    <3>1. scored \in SUBSET Sweep(samples) /\ \A row \in scored : row.balanced # <<>> OBVIOUS
    <3> HIDE DEF scored
    <3> QED BY <3>1, <1>2, BestOfPool
  <2>2. ChooseThreshold(Sweep(samples)) = Chosen(scored) BY <1>2 DEF ChooseThreshold
  <2>3. \A row \in Sweep(samples) : ~MeetsFloor(row) BY <1>2 DEF MeetsFloor
  <2> QED BY <2>1, <2>2, <2>3
<1>3. CASE capped # {}
  <2>1. PICK best \in capped :
          /\ \A row \in capped : row.balanced[1] <= best.balanced[1]
          /\ Chosen(capped) = {[threshold |-> best.threshold, floorMet |-> MeetsFloor(best)]}
    <3>1. capped \in SUBSET Sweep(samples) /\ \A row \in capped : row.balanced # <<>> OBVIOUS
    <3> HIDE DEF capped
    <3> QED BY <3>1, <1>3, BestOfPool
  <2>2. ChooseThreshold(Sweep(samples)) = Chosen(capped) BY <1>3 DEF ChooseThreshold
  <2>3. ASSUME NEW row \in Sweep(samples), MeetsFloor(row) PROVE MeetsFloor(best)
    <3>1. row \in capped BY <2>3 DEF MeetsFloor
    <3>2. row.balanced[1] \in Int /\ best.balanced[1] \in Int BY <3>1, <2>1, RowsAreNumbers
    <3>3. row.balanced[1] >= MinBalanced BY <2>3 DEF MeetsFloor
    <3>4. best.balanced[1] >= MinBalanced BY <3>1, <3>2, <3>3, <2>1, JudgeAssumption
    <3> QED BY <3>4, <2>1 DEF MeetsFloor
  <2>4. (\E c \in ChooseThreshold(Sweep(samples)) : c.floorMet) <=> MeetsFloor(best)
    <3> HIDE DEF capped
    <3> QED BY <2>1, <2>2
  <2>5. best \in Sweep(samples) BY <2>1
  <2> QED BY <2>3, <2>4, <2>5, Zenon
<1> QED BY <1>1, <1>2, <1>3

\* Silence is a report of nothing.
LEMMA SilenceReports ==
  ASSUME NEW code
  PROVE  IsReport([Silent EXCEPT !.exit = code])
BY DEF Silent, IsReport

\* A report stays the report of the samples it was computed from, until it is
\* printed and after.
LEMMA ReportInductive ==
  ASSUME BaselineIsKept, ReportIsOfSamples, [EvalNext]_evalVars
  PROVE  ReportIsOfSamples'
<1>1. ASSUME NEW code, Exits(code) PROVE IsReport(printed)'
  BY <1>1, SilenceReports DEF Exits
<1>2. ASSUME UNCHANGED printed PROVE IsReport(printed)'
  BY <1>2 DEF ReportIsOfSamples
<1>3. ASSUME NEW r \in Runners, IsReport(printed)', DOMAIN runner' = Runners,
             \A q \in Runners \ {r} : runner'[q] = runner[q],
             ~Saving(r)' \/ IsReport(runner'[r].out)
      PROVE  ReportIsOfSamples'
  <2>1. ASSUME NEW q \in Runners, Saving(q)' PROVE IsReport(runner'[q].out)
    <3>1. CASE q = r
      BY <1>3, <2>1, <3>1
    <3>2. CASE q # r
      <4>1. Saving(q) /\ runner'[q] = runner[q]
        BY <1>3, <2>1, <3>2 DEF Saving
      <4> QED
        BY <4>1 DEF ReportIsOfSamples
    <3> QED
      BY <3>1, <3>2
  <2> QED
    BY <1>3, <2>1 DEF ReportIsOfSamples
<1>4. ASSUME UNCHANGED runner, IsReport(printed)' PROVE ReportIsOfSamples'
  BY <1>4 DEF ReportIsOfSamples, Saving
<1>5. ASSUME NEW r \in Runners, StartRun(r) \/ JudgeCalibrate(r) PROVE ReportIsOfSamples'
  <2>1. IsReport(printed)'
    BY <1>1, <1>2, <1>5 DEF StartRun, JudgeCalibrate
  <2>2. UNCHANGED runner \/ \E names, sha, compare, save : Begin(r, names, sha, compare, save)
    BY <1>5 DEF StartRun, JudgeCalibrate
  <2>3. CASE UNCHANGED runner
    BY <1>4, <2>1, <2>3
  <2>4. CASE \E names, sha, compare, save : Begin(r, names, sha, compare, save)
    <3>1. /\ DOMAIN runner' = Runners /\ ~Saving(r)'
          /\ \A q \in Runners \ {r} : runner'[q] = runner[q]
      BY <2>4, NotSaving DEF ReportIsOfSamples
    <3> QED
      BY <1>3, <2>1, <3>1
  <2> QED
    BY <2>2, <2>3, <2>4
<1>6. ASSUME NEW r \in Runners, FinishRun(r) PROVE ReportIsOfSamples'
  <2>1. IsReport(printed)'
    BY <1>1, <1>2, <1>6 DEF FinishRun
  <2>2. \/ runner' = [runner EXCEPT ![r] = Idle]
        \/ \E doc, code : Finished(r, doc, [Silent EXCEPT !.exit = code])
    BY <1>6, Zenon DEF FinishRun
  <2>3. CASE runner' = [runner EXCEPT ![r] = Idle]
    <3>1. /\ DOMAIN runner' = Runners /\ ~Saving(r)'
          /\ \A q \in Runners \ {r} : runner'[q] = runner[q]
      BY <2>3, NotSaving DEF ReportIsOfSamples
    <3> QED
      BY <1>3, <2>1, <3>1
  <2>4. ASSUME NEW doc, NEW code, Finished(r, doc, [Silent EXCEPT !.exit = code])
        PROVE  ReportIsOfSamples'
    <3> DEFINE out == [Silent EXCEPT !.exit = code]
    <3>1. IsReport(out) /\ Finished(r, doc, out)
      BY <2>4, SilenceReports
    <3> HIDE DEF out
    <3>2. /\ DOMAIN runner' = Runners /\ runner'[r].out = out
          /\ \A q \in Runners \ {r} : runner'[q] = runner[q]
      BY <3>1, FinishedIsNew
    <3> QED
      BY <1>3, <2>1, <3>1, <3>2
  <2> QED
    BY <2>2, <2>3, <2>4
<1>7. ASSUME NEW r \in Runners, FinishJudge(r) PROVE ReportIsOfSamples'
  <2>1. IsReport(printed)'
    BY <1>2, <1>7 DEF FinishJudge
  <2>2. PICK scores, doc, code :
          DOMAIN scores = DOMAIN JudgeCases /\
          Finished(r, doc, [exit |-> code, samples |-> Samples(scores),
                            report |-> CalibrationReport(Samples(scores))])
    BY <1>7, Zenon DEF FinishJudge
  <2> DEFINE samples == Samples(scores)
             report == CalibrationReport(samples)
             out == [exit |-> code, samples |-> samples, report |-> report]
  <2>3. DOMAIN samples \subseteq DOMAIN JudgeCases
    BY <2>2 DEF Samples
  <2>4. report = CalibrationReport(samples)
    OBVIOUS
  <2>5. Finished(r, doc, out)
    BY <2>2
  <2> HIDE DEF samples, report
  <2>6. IsReport(out)
    BY <2>3, <2>4 DEF IsReport
  <2> HIDE DEF out
  <2>7. /\ DOMAIN runner' = Runners /\ runner'[r].out = out
        /\ \A q \in Runners \ {r} : runner'[q] = runner[q]
    BY <2>5, FinishedIsNew
  <2> QED
    BY <1>3, <2>1, <2>6, <2>7
<1>8. ASSUME NEW r \in Runners, SaveRun(r) PROVE ReportIsOfSamples'
  <2>1. /\ Saving(r) /\ runner' = [runner EXCEPT ![r] = Idle]
        /\ printed' = runner[r].out \/ printed' = [runner[r].out EXCEPT !.exit = 1]
    BY <1>8 DEF SaveRun
  <2>2. IsReport(runner[r].out)
    BY <2>1 DEF ReportIsOfSamples
  <2>3. IsReport(printed)'
    BY <2>1, <2>2, Zenon DEF IsReport
  <2>4. /\ DOMAIN runner' = Runners /\ ~Saving(r)'
        /\ \A q \in Runners \ {r} : runner'[q] = runner[q]
    BY <2>1, NotSaving DEF ReportIsOfSamples
  <2> QED
    BY <1>3, <2>3, <2>4
<1>9. CASE BaselineSet \/ BaselineClear \/ Compare
  BY <1>1, <1>4, <1>9 DEF BaselineSet, BaselineClear, Compare
<1>10. CASE SecondPasses \/ UNCHANGED evalVars
  BY <1>2, <1>4, <1>10 DEF SecondPasses, evalVars
<1> QED
  BY <1>5, <1>6, <1>7, <1>8, <1>9, <1>10 DEF EvalNext

\* There is no file, no run and no report at first.
LEMMA EvalInitial == EvalInit => EvalInv
BY FS_EmptySet DEF EvalInit, EvalInv, BaselineIsKept, ReportIsOfSamples, IsReport, Saving, Silent

\* storage.py: the document under the promoted id is replaced only by a run that
\* had picked that id, and not yet saved, when the document was written; for any
\* number of runners, commits and seconds.
THEOREM PromotedRunStandsAlways == EvalSpec => PromotedRunStands
<1>1. EvalInit => BaselineIsKept
  BY EvalInitial DEF EvalInv
<1>2. BaselineIsKept /\ [EvalNext]_evalVars => BaselineIsKept'
  BY BaselineInductive
<1>3. BaselineIsKept /\ [EvalNext]_evalVars
        => [\A b \in baseline : files'[b] # files[b] => \E r \in amid[b] : SaveRun(r)]_evalVars
  BY OnlyAmidReplaces
<1> QED
  BY <1>1, <1>2, <1>3, PTL DEF EvalSpec, PromotedRunStands

\* calibrate.py: the floor is reported as met if and only if some threshold
\* of the sweep meets it, for any dataset, scores and floors.
THEOREM FloorMetIffAttainableAlways == EvalSpec => []FloorMetIffAttainable
<1>1. EvalInit => EvalInv BY EvalInitial
<1>2. EvalInv /\ [EvalNext]_evalVars => EvalInv' BY BaselineInductive, ReportInductive DEF EvalInv
<1>3. EvalInv => FloorMetIffAttainable
  <2>1. SUFFICES ASSUME ReportIsOfSamples, printed.report # <<>>
                 PROVE  (\E c \in printed.report.chosen : c.floorMet)
                          <=> \E row \in Sweep(printed.samples) : MeetsFloor(row)
    BY DEF FloorMetIffAttainable, EvalInv
  <2>2. printed.report.chosen = ChooseThreshold(Sweep(printed.samples))
    BY <2>1 DEF ReportIsOfSamples, IsReport, CalibrationReport
  <2> QED BY <2>1, <2>2, ChosenMeetsFloor DEF ReportIsOfSamples, IsReport
<1> QED BY <1>1, <1>2, <1>3, PTL DEF EvalSpec

-----------------------------------------------------------------------------
(* The sourcing gate.                                                      *)

\* A fact comes from the source its origin names.
Traced(f) ==
  /\ f.id \in Nat
  /\ f.id \in DOMAIN origins
  /\ \E row \in supplied[origins[f.id]] : f = Fact(row, f.id)

FactsAreTraced ==
  /\ IsFiniteSet(facts)
  /\ DOMAIN supplied = Sources
  /\ unbought \subseteq PeerSources
  /\ \A i \in DOMAIN origins : origins[i] \in Sources \ unbought
  /\ \A f \in facts : Traced(f)

\* The snapshot's origins are true: the ids that lead to a source are those
\* under which its own rows entered.
OriginsAreTrue ==
  /\ DOMAIN entered = Sources
  /\ \A s \in Sources : entered[s] = {i \in Ids : origins[i] = s}

\* A garbled answer brought no facts and is not asked for again.
GarbledIsOut ==
  /\ garbled \subseteq PeerSources \ unbought
  /\ \A p \in garbled : entered[p] = {}

\* The verdict is the gate's over the memo and the facts as they stand.
VerdictStands ==
  /\ memo # {} => facts # {}
  /\ verdict # Undecided =>
       /\ memo # {}
       /\ verdict.stage = (IF Violations(memo, facts) = {} THEN "passed" ELSE "failed")
       /\ verdict.credited = (IF Violations(memo, facts) = {} THEN {origins[i] : i \in Ids} ELSE {})
       /\ verdict.debited = (IF Violations(memo, facts) = {} THEN {} ELSE Blamed(Violations(memo, facts)))

\* The inductive invariant of the sourcing gate.
SourcingInv == FactsAreTraced /\ OriginsAreTrue /\ GarbledIsOut /\ VerdictStands

\* peer.py: next_n is above every id of the snapshot.
LEMMA NextIdIsNew ==
  ASSUME FactsAreTraced
  PROVE  /\ NextId \in Nat
         /\ \A f \in facts : f.id < NextId
<1> DEFINE g == [f \in facts |-> f.id]
           S == Ids \cup {0}
           top == CHOOSE m \in S : \A i \in Ids : i <= m
           h == [i \in S |-> i]
<1>1. Ids = {g[f] : f \in facts} BY DEF Ids
<1>2. IsFiniteSet(Ids) BY <1>1, ImageIsFinite DEF FactsAreTraced
<1>3. IsFiniteSet(S) BY <1>2, FS_AddElement
<1>4. Ids \subseteq Nat BY DEF Ids, FactsAreTraced, Traced
<1>5. \E m \in S : \A i \in S : i <= m
  <2>1. h \in [S -> Int] BY <1>4
  <2>2. \E m \in S : \A i \in S : h[i] <= h[m]
    <3> HIDE DEF h
    <3> QED BY <2>1, <1>3, GreatestAt
  <2> QED BY <2>2
<1>6. top \in S /\ \A i \in Ids : i <= top BY <1>5
<1>7. NextId = 1 + top BY DEF NextId
<1> HIDE DEF top
<1>8. top \in Nat BY <1>4, <1>6
<1>9. ASSUME NEW f \in facts PROVE f.id < 1 + top
  <2>1. f.id \in Ids BY DEF Ids
  <2>2. f.id \in Nat /\ f.id <= top BY <2>1, <1>4, <1>6, Zenon
  <2> HIDE DEF S
  <2> QED BY <2>2, <1>8
<1> QED BY <1>7, <1>8, <1>9

\* A set of three is finite.
LEMMA ThreeAreFinite ==
  ASSUME NEW a, NEW b, NEW c
  PROVE  IsFiniteSet({a, b, c})
<1>1. IsFiniteSet({a}) BY FS_Singleton
<1>2. IsFiniteSet({a} \cup {b}) BY <1>1, FS_AddElement
<1>3. IsFiniteSet({a} \cup {b} \cup {c}) BY <1>2, FS_AddElement
<1>4. {a, b, c} = {a} \cup {b} \cup {c} OBVIOUS
<1> QED BY <1>3, <1>4

\* A set of six is finite.
LEMMA SixAreFinite ==
  ASSUME NEW a, NEW b, NEW c, NEW d, NEW e, NEW f
  PROVE  IsFiniteSet({a, b, c, d, e, f})
<1>1. {a, b, c, d, e, f} = {a, b, c} \cup {d, e, f} OBVIOUS
<1>2. IsFiniteSet({a, b, c}) /\ IsFiniteSet({d, e, f}) BY ThreeAreFinite
<1> QED BY <1>1, <1>2, FS_Union

\* What the primary hands over is finite.
LEMMA PrimaryRowsAreFinite ==
  ASSUME NEW filed \in Filed, NEW feed \in PriceFeed
  PROVE  IsFiniteSet(PrimaryRows(filed, feed))
<1> DEFINE both == [l \in DOMAIN filed \cup DOMAIN feed |->
                      IF l \in DOMAIN feed THEN feed[l] ELSE filed[l]]
           values == WithCap(both)
           priced == IF "Price" \in DOMAIN feed THEN Computable(PricedRatios, values) ELSE {}
           A == RowsOf(values)
           C == {RatioRow(r, filed) : r \in Computable(FiledRatios, filed)}
           D == {RatioRow(r, values) : r \in priced}
<1>1. IsFiniteSet(DOMAIN both) BY RowsAssumption, FS_Union
<1>2. IsFiniteSet(DOMAIN values)
  <2>1. DOMAIN values = DOMAIN both \/ DOMAIN values = DOMAIN both \cup {"Market cap"}
    BY DEF WithCap
  <2> HIDE DEF values, both
  <2> QED BY <1>1, <2>1, FS_AddElement
<1>3. IsFiniteSet(A)
  <2> DEFINE f == [l \in DOMAIN values |-> [label |-> l, unit |-> UnitOf(l), value |-> values[l]]]
  <2>1. A = {f[l] : l \in DOMAIN values} BY DEF RowsOf
  <2> HIDE DEF f, values
  <2> QED BY <1>2, <2>1, ImageIsFinite
<1>4. IsFiniteSet(Earned(filed)) BY FS_EmptySet, FS_Singleton DEF Earned
<1>5. IsFiniteSet(FiledRatios) /\ IsFiniteSet(PricedRatios)
  BY SixAreFinite, ThreeAreFinite DEF FiledRatios, PricedRatios
<1>6. IsFiniteSet(C)
  <2> DEFINE f == [r \in Computable(FiledRatios, filed) |-> RatioRow(r, filed)]
  <2>1. C = {f[r] : r \in Computable(FiledRatios, filed)} OBVIOUS
  <2>2. IsFiniteSet(Computable(FiledRatios, filed)) BY <1>5, FS_Subset DEF Computable
  <2> HIDE DEF f
  <2> QED BY <2>1, <2>2, ImageIsFinite
<1>7. IsFiniteSet(D)
  <2> DEFINE f == [r \in priced |-> RatioRow(r, values)]
  <2>1. D = {f[r] : r \in priced} OBVIOUS
  <2>2. priced \subseteq PricedRatios BY DEF Computable
  <2>3. IsFiniteSet(priced) BY <1>5, <2>2, FS_Subset
  <2> HIDE DEF f, priced
  <2> QED BY <2>1, <2>3, ImageIsFinite
<1>8. PrimaryRows(filed, feed) = A \cup Earned(filed) \cup C \cup D BY DEF PrimaryRows
<1> HIDE DEF A, C, D
<1>9. IsFiniteSet(A \cup Earned(filed)) BY <1>3, <1>4, FS_Union
<1>10. IsFiniteSet(A \cup Earned(filed) \cup C) BY <1>9, <1>6, FS_Union
<1>11. IsFiniteSet(A \cup Earned(filed) \cup C \cup D) BY <1>10, <1>7, FS_Union
<1> QED BY <1>8, <1>11

\* Rows that are finitely many can be numbered from 1.
LEMMA NumberingExists ==
  ASSUME NEW rows, IsFiniteSet(rows)
  PROVE  \E n \in Numberings(rows, 1) : TRUE
<1> DEFINE c == Cardinality(rows)
<1>1. c \in Nat /\ ExistsBijection(1..c, rows) BY FS_CardinalityType
<1>2. PICK b \in Bijection(1..c, rows) : TRUE BY <1>1 DEF ExistsBijection
<1> DEFINE n == [r \in rows |-> CHOOSE i \in 1..c : b[i] = r]
<1>3. \A r \in rows : n[r] \in 1..c /\ b[n[r]] = r
  BY <1>2, Zenon DEF Bijection, Surjection
<1>4. 1..(1 + c - 1) = 1..c BY <1>1
<1>5. n \in Numberings(rows, 1)
  <2>1. n \in [rows -> 1..c] BY <1>3
  <2>2. \A r, s \in rows : n[r] = n[s] => r = s BY <1>3
  <2> HIDE DEF n
  <2> QED BY <2>1, <2>2, <1>4 DEF Numberings
<1> QED BY <1>5

\* The numbering of the primary's facts.
LEMMA FirstNumbering ==
  ASSUME NEW rows, IsFiniteSet(rows), NEW number,
         number = CHOOSE n \in Numberings(rows, 1) : TRUE
  PROVE  \A r \in rows : number[r] \in 1..Cardinality(rows)
<1>1. number \in Numberings(rows, 1) BY NumberingExists
<1>2. Cardinality(rows) \in Nat BY FS_CardinalityType
<1>3. number \in [rows -> 1..(1 + Cardinality(rows) - 1)] BY <1>1 DEF Numberings
<1> QED BY <1>2, <1>3

\* Gathering replaces the facts by numbered primary rows, each with the seller
\* it was read from.
LEMMA GatherKeeps ==
  ASSUME SourcingInv, NEW filed \in Filed, NEW feed \in PriceFeed, GatherFacts(filed, feed)
  PROVE  SourcingInv'
<1> DEFINE rows == PrimaryRows(filed, feed)
           number == CHOOSE n \in Numberings(rows, 1) : TRUE
<1>1. /\ facts = {} /\ rows # {}
      /\ facts' = Numbered(rows, number)
      /\ origins' = [i \in 1..Cardinality(rows) |-> Primary]
      /\ supplied' = [supplied EXCEPT ![Primary] = rows]
      /\ entered' = [entered EXCEPT ![Primary] = {f.id : f \in facts'}]
      /\ UNCHANGED <<unbought, garbled, memo, verdict>>
  BY DEF GatherFacts
<1>2. IsFiniteSet(rows) BY PrimaryRowsAreFinite
<1>3. \A r \in rows : number[r] \in 1..Cardinality(rows) BY <1>2, FirstNumbering
<1>4. Cardinality(rows) \in Nat BY <1>2, FS_CardinalityType
<1> HIDE DEF rows, number
<1>5. IsFiniteSet(facts')
  <2> DEFINE f == [r \in rows |-> Fact(r, number[r])]
  <2>1. facts' = {f[r] : r \in rows} BY <1>1 DEF Numbered
  <2> HIDE DEF f
  <2> QED BY <2>1, <1>2, ImageIsFinite
<1>6. DOMAIN supplied' = Sources /\ supplied'[Primary] = rows
  BY <1>1 DEF SourcingInv, FactsAreTraced, Sources
<1>7. \A i \in DOMAIN origins' : origins'[i] \in Sources \ unbought'
  BY <1>1, SourceAssumption DEF SourcingInv, FactsAreTraced, Sources
<1>8. ASSUME NEW f \in facts' PROVE Traced(f)'
  <2>1. PICK r \in rows : f = Fact(r, number[r]) BY <1>1 DEF Numbered
  <2>2. f.id \in 1..Cardinality(rows) BY <2>1, <1>3 DEF Fact
  <2>3. f.id \in Nat /\ origins'[f.id] = Primary BY <2>2, <1>1, <1>4
  <2>4. f = Fact(r, f.id) BY <2>1 DEF Fact
  <2> QED BY <2>1, <2>2, <2>3, <2>4, <1>1, <1>6 DEF Traced
<1>9. FactsAreTraced' BY <1>1, <1>5, <1>6, <1>7, <1>8 DEF SourcingInv, FactsAreTraced
<1>10. OriginsAreTrue'
  <2>1. Ids = {} /\ Ids' = {f.id : f \in facts'} BY <1>1 DEF Ids
  <2>2. \A i \in Ids' : origins'[i] = Primary
    <3>1. SUFFICES ASSUME NEW f \in facts' PROVE origins'[f.id] = Primary BY <2>1
    <3>2. PICK r \in rows : f = Fact(r, number[r]) BY <1>1 DEF Numbered
    <3>3. f.id \in 1..Cardinality(rows) BY <3>2, <1>3 DEF Fact
    <3> QED BY <3>3, <1>1
  <2>3. /\ DOMAIN entered' = Sources /\ entered'[Primary] = Ids'
        /\ \A s \in Sources : s # Primary => entered'[s] = {}
    BY <1>1, <2>1 DEF SourcingInv, OriginsAreTrue, Sources
  <2> QED BY <2>2, <2>3 DEF OriginsAreTrue
<1>11. GarbledIsOut' BY <1>1, SourceAssumption DEF SourcingInv, GarbledIsOut
<1>12. VerdictStands' BY <1>1 DEF SourcingInv, VerdictStands
<1> QED BY <1>9, <1>10, <1>11, <1>12 DEF SourcingInv

\* The place of a row among the usable ones starts at 1.
LEMMA PlaceIsPositive ==
  ASSUME NEW rows \in PeerRows, NEW i \in Usable(rows)
  PROVE  Place(rows, i) \in Nat \ {0}
<1> DEFINE before == {j \in Usable(rows) : j <= i}
<1>1. IsFiniteSet(DOMAIN rows) BY RowsAssumption
<1>2. before \in SUBSET DOMAIN rows BY DEF Usable
<1> HIDE DEF before
<1>3. IsFiniteSet(before) /\ Cardinality(before) \in Nat BY <1>1, <1>2, CountIsNumber
<1>4. i \in before
  <2>1. i \in DOMAIN rows /\ DOMAIN rows \subseteq Int BY RowsAssumption DEF Usable
  <2> QED BY <2>1 DEF before
<1>5. Cardinality(before) # 0 BY <1>3, <1>4, FS_EmptySet
<1>6. Place(rows, i) = Cardinality(before) BY DEF Place, before
<1> QED BY <1>3, <1>5, <1>6

\* Buying from a peer adds rows numbered past the last, each with the peer for
\* its seller.
LEMMA BuyKeeps ==
  ASSUME SourcingInv, NEW p \in PeerSources, NEW rows \in PeerRows, BuyPeer(p, rows)
  PROVE  SourcingInv'
<1> DEFINE added == Renumbered(rows)
           ids   == {f.id : f \in added}
<1>1. /\ facts # {} /\ p \in unbought /\ memo = {}
      /\ facts' = facts \cup added
      /\ origins' = [i \in DOMAIN origins \cup ids |-> IF i \in ids THEN p ELSE origins[i]]
      /\ supplied' = [supplied EXCEPT ![p] = {rows[i] : i \in Usable(rows)}]
      /\ entered' = [entered EXCEPT ![p] = ids]
      /\ unbought' = unbought \ {p}
      /\ UNCHANGED <<garbled, memo, verdict>>
  BY DEF BuyPeer
<1>2. NextId \in Nat /\ \A f \in facts : f.id < NextId BY NextIdIsNew DEF SourcingInv
<1>3. ASSUME NEW f \in added
      PROVE  \E i \in Usable(rows) : f = Fact(rows[i], f.id) /\ f.id \in Nat /\ f.id >= NextId
  <2>1. PICK i \in Usable(rows) : f = Fact(rows[i], NextId + Place(rows, i) - 1) BY DEF Renumbered
  <2>2. f.id = NextId + Place(rows, i) - 1 BY <2>1 DEF Fact
  <2>3. f.id \in Nat /\ f.id >= NextId BY <2>2, <1>2, PlaceIsPositive
  <2> QED BY <2>1, <2>2, <2>3
<1>4. IsFiniteSet(facts')
  <2> DEFINE g == [i \in Usable(rows) |-> Fact(rows[i], NextId + Place(rows, i) - 1)]
  <2>1. added = {g[i] : i \in Usable(rows)} BY DEF Renumbered
  <2>2. IsFiniteSet(Usable(rows)) BY RowsAssumption, FS_Subset DEF Usable
  <2> HIDE DEF g
  <2>3. IsFiniteSet(added) BY <2>1, <2>2, ImageIsFinite
  <2> QED BY <2>3, <1>1, FS_Union DEF SourcingInv, FactsAreTraced
<1> HIDE DEF added
<1>5. /\ DOMAIN supplied' = Sources
      /\ supplied'[p] = {rows[i] : i \in Usable(rows)}
      /\ \A s \in Sources : s # p => supplied'[s] = supplied[s]
  BY <1>1 DEF SourcingInv, FactsAreTraced, Sources
<1>6. \A i \in DOMAIN origins' : origins'[i] \in Sources \ unbought'
  BY <1>1 DEF SourcingInv, FactsAreTraced, Sources
<1>12. \A f \in facts : f.id \notin ids
  <2>1. SUFFICES ASSUME NEW f \in facts PROVE f.id \notin ids OBVIOUS
  <2>2. f.id \in Nat /\ f.id < NextId BY <1>2, <2>1 DEF SourcingInv, FactsAreTraced, Traced
  <2>3. \A i \in ids : i \in Nat /\ i >= NextId BY <1>3
  <2> QED BY <2>2, <2>3, <1>2
<1>7. ASSUME NEW f \in facts' PROVE Traced(f)'
  <2>1. CASE f \in added
    <3>1. f.id \in ids /\ origins'[f.id] = p /\ f.id \in DOMAIN origins' BY <2>1, <1>1
    <3> QED BY <3>1, <2>1, <1>3, <1>5 DEF Traced
  <2>2. CASE f \in facts
    <3>1. Traced(f) BY <2>2 DEF SourcingInv, FactsAreTraced
    <3>2. f.id \notin ids BY <2>2, <1>12
    <3> HIDE DEF ids
    <3>3. f.id \in DOMAIN origins /\ f.id \in DOMAIN origins' /\ origins'[f.id] = origins[f.id]
      BY <3>1, <3>2, <1>1 DEF Traced
    <3>4. origins[f.id] # p /\ origins[f.id] \in Sources
      BY <3>3, <1>1 DEF SourcingInv, FactsAreTraced
    <3> QED BY <3>1, <3>3, <3>4, <1>5 DEF Traced
  <2> QED BY <2>1, <2>2, <1>1
<1>8. FactsAreTraced' BY <1>1, <1>4, <1>5, <1>6, <1>7 DEF SourcingInv, FactsAreTraced
<1>9. VerdictStands'
  <2>1. verdict = Undecided BY <1>1 DEF SourcingInv, VerdictStands
  <2> QED BY <2>1, <1>1 DEF VerdictStands
<1>10. OriginsAreTrue'
  <2>1. Ids' = Ids \cup ids BY <1>1 DEF Ids
  <2>2. Ids \cap ids = {} BY <1>12 DEF Ids
  <2>3. Ids \subseteq DOMAIN origins BY DEF SourcingInv, FactsAreTraced, Traced, Ids
  <2>4. \A i \in Ids : origins[i] # p BY <1>1, <2>3 DEF SourcingInv, FactsAreTraced
  <2> HIDE DEF ids
  <2>5. \A i \in Ids : origins'[i] = origins[i] BY <1>1, <2>2, <2>3
  <2>6. \A i \in ids : origins'[i] = p BY <1>1
  <2>7. /\ DOMAIN entered' = Sources /\ entered'[p] = ids
        /\ \A s \in Sources : s # p => entered'[s] = entered[s]
    BY <1>1 DEF SourcingInv, OriginsAreTrue, Sources
  <2>8. ASSUME NEW s \in Sources PROVE entered'[s] = {i \in Ids' : origins'[i] = s}
    <3>1. CASE s = p BY <3>1, <2>1, <2>4, <2>5, <2>6, <2>7
    <3>2. CASE s # p
      <4>1. entered'[s] = {i \in Ids : origins[i] = s} BY <3>2, <2>7 DEF SourcingInv, OriginsAreTrue
      <4> QED BY <4>1, <3>2, <2>1, <2>5, <2>6
    <3> QED BY <3>1, <3>2
  <2> QED BY <2>7, <2>8 DEF OriginsAreTrue
<1>11. GarbledIsOut'
  <2>1. p \notin garbled /\ garbled \subseteq PeerSources BY <1>1 DEF SourcingInv, GarbledIsOut
  <2>2. \A q \in garbled : entered'[q] = entered[q]
    BY <1>1, <2>1 DEF SourcingInv, OriginsAreTrue, Sources
  <2> QED BY <1>1, <2>1, <2>2 DEF SourcingInv, GarbledIsOut
<1> QED BY <1>8, <1>9, <1>10, <1>11 DEF SourcingInv

\* A step that leaves the facts, their sellers and what was derived from them
\* alone keeps what is known of them.
LEMMA SnapshotKept ==
  ASSUME SourcingInv, UNCHANGED <<facts, origins, supplied, entered>>,
         unbought' \subseteq unbought
  PROVE  /\ FactsAreTraced' /\ OriginsAreTrue' /\ Ids' = Ids
         /\ Violations(memo, facts)' = Violations(memo', facts)
<1>1. FactsAreTraced' BY DEF SourcingInv, FactsAreTraced, Traced
<1>2. Ids' = Ids BY DEF Ids
<1>3. OriginsAreTrue' BY <1>2 DEF SourcingInv, OriginsAreTrue
<1> QED BY <1>1, <1>2, <1>3

\* The gate reads the facts and the memo and records its verdict on them.
LEMMA GateKeeps ==
  ASSUME SourcingInv, GateMemo
  PROVE  SourcingInv'
<1>1. /\ memo # {}
      /\ UNCHANGED <<facts, origins, supplied, entered, unbought, garbled, memo>>
      /\ verdict'.stage = IF Violations(memo, facts) = {} THEN "passed" ELSE "failed"
      /\ verdict'.credited = IF Violations(memo, facts) = {} THEN {origins[i] : i \in Ids} ELSE {}
      /\ verdict'.debited = IF Violations(memo, facts) = {} THEN {} ELSE Blamed(Violations(memo, facts))
  BY DEF GateMemo
<1>2. FactsAreTraced' /\ OriginsAreTrue' /\ Ids' = Ids BY <1>1, SnapshotKept
<1>3. GarbledIsOut' BY <1>1 DEF SourcingInv, GarbledIsOut
<1>4. {origins'[i] : i \in Ids'} = {origins[i] : i \in Ids} BY <1>1, <1>2
<1>5. Violations(memo, facts)' = Violations(memo, facts) BY <1>1
<1>6. Blamed(Violations(memo, facts))' = Blamed(Violations(memo, facts)) BY <1>1, <1>2, <1>5 DEF Blamed
<1>7. VerdictStands' BY <1>1, <1>4, <1>5, <1>6 DEF SourcingInv, VerdictStands
<1> QED BY <1>2, <1>3, <1>7 DEF SourcingInv

\* Every step keeps the inductive invariant.
LEMMA SourcingInductive ==
  ASSUME SourcingInv, [SourcingNext]_sourcingVars
  PROVE  SourcingInv'
<1>1. ASSUME NEW filed \in Filed, NEW feed \in PriceFeed, GatherFacts(filed, feed) PROVE SourcingInv'
  BY <1>1, GatherKeeps
<1>2. ASSUME NEW p \in PeerSources, NEW rows \in PeerRows, BuyPeer(p, rows) PROVE SourcingInv'
  BY <1>2, BuyKeeps
<1>3. ASSUME NEW p \in PeerSources, NEW rows \in PeerRows, BuyGarbage(p, rows) PROVE SourcingInv'
  <2>1. FactsAreTraced' /\ OriginsAreTrue' BY <1>3, SnapshotKept DEF BuyGarbage
  <2>2. entered[p] = {}
    <3>1. \A i \in Ids : origins[i] # p
      BY <1>3 DEF BuyGarbage, SourcingInv, FactsAreTraced, Traced, Ids
    <3> QED BY <3>1 DEF SourcingInv, OriginsAreTrue, Sources
  <2>3. GarbledIsOut' BY <1>3, <2>2 DEF BuyGarbage, SourcingInv, GarbledIsOut, FactsAreTraced
  <2>4. verdict = Undecided /\ verdict' = Undecided /\ memo' = {}
    BY <1>3 DEF BuyGarbage, SourcingInv, VerdictStands
  <2> QED BY <2>1, <2>3, <2>4 DEF SourcingInv, VerdictStands
<1>4. ASSUME NEW p \in PeerSources, SkipPeer(p) PROVE SourcingInv'
  <2>1. FactsAreTraced' /\ OriginsAreTrue' BY <1>4, SnapshotKept DEF SkipPeer
  <2>2. GarbledIsOut' BY <1>4 DEF SkipPeer, SourcingInv, GarbledIsOut
  <2>3. verdict = Undecided /\ verdict' = Undecided /\ memo' = {}
    BY <1>4 DEF SkipPeer, SourcingInv, VerdictStands
  <2> QED BY <2>1, <2>2, <2>3 DEF SourcingInv, VerdictStands
<1>5. ASSUME NEW seg \in Segments, WriteSegment(seg) PROVE SourcingInv'
  <2>1. FactsAreTraced' /\ OriginsAreTrue' BY <1>5, SnapshotKept DEF WriteSegment
  <2>2. GarbledIsOut' BY <1>5 DEF WriteSegment, SourcingInv, GarbledIsOut
  <2>3. verdict' = Undecided /\ facts' # {} BY <1>5 DEF WriteSegment
  <2> QED BY <2>1, <2>2, <2>3 DEF SourcingInv, VerdictStands
<1>6. CASE GateMemo BY <1>6, GateKeeps
<1>7. CASE UNCHANGED sourcingVars
  <2>1. FactsAreTraced' /\ OriginsAreTrue' /\ Ids' = Ids BY <1>7, SnapshotKept DEF sourcingVars
  <2>2. GarbledIsOut' BY <1>7 DEF sourcingVars, SourcingInv, GarbledIsOut
  <2>3. {origins'[i] : i \in Ids'} = {origins[i] : i \in Ids} BY <1>7, <2>1 DEF sourcingVars
  <2>4. Blamed(Violations(memo, facts))' = Blamed(Violations(memo, facts)) BY <1>7, <2>1 DEF Blamed, sourcingVars
  <2>5. VerdictStands' BY <1>7, <2>3, <2>4 DEF sourcingVars, SourcingInv, VerdictStands
  <2> QED BY <2>1, <2>2, <2>5 DEF SourcingInv
<1> QED BY <1>1, <1>2, <1>3, <1>4, <1>5, <1>6, <1>7 DEF SourcingNext

\* Without facts there is nothing to trace, and no verdict.
LEMMA SourcingInitial == SourcingInit => SourcingInv
BY FS_EmptySet
DEF SourcingInit, SourcingInv, FactsAreTraced, OriginsAreTrue, GarbledIsOut, VerdictStands, Ids

\* A figure cited from a traced fact is the figure of that seller.
LEMMA FiguresTrace == SourcingInv => FiguresTraceToSeller
<1>1. SUFFICES ASSUME SourcingInv, verdict # Undecided, verdict.stage = "passed", NEW seg \in memo
               PROVE  /\ seg.cites \subseteq DOMAIN origins
                      /\ \A fig \in seg.figures : \E i \in seg.cites : \E row \in supplied[origins[i]] :
                           /\ UnitOk(fig.kind, row.unit)
                           /\ \/ Within(fig.value, row.value)
                              \/ row.value < 0 /\ Within(Magnitude(fig.value), Magnitude(row.value))
  BY DEF FiguresTraceToSeller
<1>2. Violations(memo, facts) = {} BY <1>1 DEF SourcingInv, VerdictStands
<1>3. seg.cites \subseteq {f.id : f \in facts} BY <1>1, <1>2 DEF Violations, Phantoms
<1>4. \A f \in facts : Traced(f) BY <1>1 DEF SourcingInv, FactsAreTraced
<1>5. seg.cites \subseteq DOMAIN origins BY <1>3, <1>4 DEF Traced
<1>6. ASSUME NEW fig \in seg.figures
      PROVE  \E i \in seg.cites : \E row \in supplied[origins[i]] :
               /\ UnitOk(fig.kind, row.unit)
               /\ \/ Within(fig.value, row.value)
                  \/ row.value < 0 /\ Within(Magnitude(fig.value), Magnitude(row.value))
  <2>1. PICK f \in CitedFacts(seg, facts) : Matches(fig, f) BY <1>1, <1>2 DEF Violations, Unmatched
  <2>2. f \in facts /\ f.id \in seg.cites BY <2>1 DEF CitedFacts
  <2>3. PICK row \in supplied[origins[f.id]] : f = Fact(row, f.id) BY <2>2, <1>4 DEF Traced
  <2>4. f.unit = row.unit /\ f.value = row.value BY <2>3 DEF Fact
  <2> QED BY <2>1, <2>2, <2>3, <2>4 DEF Matches
<1> QED BY <1>5, <1>6

\* The citations of the violations are those of the segments that fail.
LEMMA ViolationsAreFailures ==
  /\ \A v \in Violations(memo, facts) : \E seg \in memo : Fails(seg) /\ v.cites = seg.cites
  /\ \A seg \in memo : Fails(seg) => \E v \in Violations(memo, facts) : v.cites = seg.cites
<1>1. ASSUME NEW v \in Violations(memo, facts)
      PROVE  \E seg \in memo : Fails(seg) /\ v.cites = seg.cites
  <2>1. CASE v \in Phantoms(memo, facts)
    <3>1. PICK seg \in memo : ~(seg.cites \subseteq Ids) /\ v = [reason |-> "phantom citation", cites |-> seg.cites]
      BY <2>1 DEF Phantoms, Ids
    <3> QED BY <3>1 DEF Fails
  <2>2. CASE v \in Unmatched(memo, facts)
    <3>1. PICK seg \in memo :
            /\ \E fig \in seg.figures : ~\E f \in CitedFacts(seg, facts) : Matches(fig, f)
            /\ v = [reason |-> IF CitedFacts(seg, facts) = {} THEN "uncited" ELSE "value mismatch",
                    cites |-> seg.cites]
      BY <2>2, Zenon DEF Unmatched
    <3>2. v.cites = seg.cites BY <3>1
    <3> QED BY <3>1, <3>2 DEF Fails
  <2> QED BY <2>1, <2>2, <1>1 DEF Violations
<1>2. ASSUME NEW seg \in memo, Fails(seg)
      PROVE  \E v \in Violations(memo, facts) : v.cites = seg.cites
  <2>1. CASE ~(seg.cites \subseteq Ids)
    <3> DEFINE v == [reason |-> "phantom citation", cites |-> seg.cites]
    <3>1. v \in Phantoms(memo, facts) BY <2>1, <1>2 DEF Phantoms, Ids
    <3>2. v.cites = seg.cites OBVIOUS
    <3> HIDE DEF v
    <3> QED BY <3>1, <3>2 DEF Violations
  <2>2. CASE \E fig \in seg.figures : \A f \in CitedFacts(seg, facts) : ~Matches(fig, f)
    <3> DEFINE v == [reason |-> IF CitedFacts(seg, facts) = {} THEN "uncited" ELSE "value mismatch",
                     cites |-> seg.cites]
    <3>1. v \in Unmatched(memo, facts) BY <2>2, <1>2, Zenon DEF Unmatched
    <3>2. v.cites = seg.cites OBVIOUS
    <3> HIDE DEF v
    <3> QED BY <3>1, <3>2 DEF Violations
  <2> QED BY <2>1, <2>2, <1>2 DEF Fails
<1> QED BY <1>1, <1>2

\* With true origins, whom the verdict names are those whose own rows it is about.
LEMMA BlameStands == SourcingInv => BlameIsJust
<1> SUFFICES ASSUME SourcingInv, verdict # Undecided PROVE
        /\ verdict.credited = {s \in Sources : verdict.stage = "passed" /\ entered[s] # {}}
        /\ verdict.debited =
             {s \in Sources : \E seg \in memo : Fails(seg) /\ entered[s] \cap seg.cites # {}}
        /\ garbled \cap (verdict.credited \cup verdict.debited) = {}
  BY DEF BlameIsJust
<1> DEFINE V == Violations(memo, facts)
<1>1. /\ verdict.stage = (IF V = {} THEN "passed" ELSE "failed")
      /\ verdict.credited = (IF V = {} THEN {origins[i] : i \in Ids} ELSE {})
      /\ verdict.debited = (IF V = {} THEN {} ELSE Blamed(V))
  BY DEF SourcingInv, VerdictStands
<1>2. \A i \in Ids : origins[i] \in Sources BY DEF SourcingInv, FactsAreTraced, Traced, Ids
<1>3. \A s \in Sources : entered[s] = {i \in Ids : origins[i] = s} BY DEF SourcingInv, OriginsAreTrue
<1>4. verdict.credited = {s \in Sources : verdict.stage = "passed" /\ entered[s] # {}}
  BY <1>1, <1>2, <1>3
<1>5. Blamed(V) = {s \in Sources : \E seg \in memo : Fails(seg) /\ entered[s] \cap seg.cites # {}}
  <2>1. ASSUME NEW s \in Blamed(V)
        PROVE  s \in Sources /\ \E seg \in memo : Fails(seg) /\ entered[s] \cap seg.cites # {}
    <3>1. PICK v \in V : \E i \in v.cites \cap Ids : s = origins[i] BY <2>1 DEF Blamed
    <3>2. PICK i \in v.cites \cap Ids : s = origins[i] BY <3>1
    <3>3. PICK seg \in memo : Fails(seg) /\ v.cites = seg.cites BY <3>1, ViolationsAreFailures
    <3> QED BY <3>2, <3>3, <1>2, <1>3
  <2>2. ASSUME NEW s \in Sources, NEW seg \in memo, Fails(seg), entered[s] \cap seg.cites # {}
        PROVE  s \in Blamed(V)
    <3>1. PICK i \in Ids : i \in seg.cites /\ origins[i] = s BY <2>2, <1>3
    <3>2. PICK v \in V : v.cites = seg.cites BY <2>2, ViolationsAreFailures
    <3> QED BY <3>1, <3>2 DEF Blamed
  <2> HIDE DEF V
  <2> QED BY <2>1, <2>2
<1>6. V = {} => Blamed(V) = {} BY DEF Blamed
<1>7. verdict.debited = Blamed(V) BY <1>1, <1>6
<1>8. garbled \subseteq Sources /\ \A p \in garbled : entered[p] = {}
  BY DEF SourcingInv, GarbledIsOut, Sources
<1> HIDE DEF V
<1> QED BY <1>4, <1>5, <1>7, <1>8

\* Every figure of a memo that passed is beside a citation whose seller handed
\* over such a value, for any sources, rows, memos and numberings.
THEOREM FiguresTraceToSellerAlways == SourcingSpec => []FiguresTraceToSeller
BY SourcingInitial, SourcingInductive, FiguresTrace, PTL DEF SourcingSpec

\* A verdict credits and debits exactly the sources whose own rows it is about,
\* whatever the sources hand over and however the merge numbers it.
THEOREM BlameIsJustAlways == SourcingSpec => []BlameIsJust
BY SourcingInitial, SourcingInductive, BlameStands, PTL DEF SourcingSpec

=============================================================================
