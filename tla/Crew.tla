-------------------------------- MODULE Crew --------------------------------
(***************************************************************************)
(* What a monitor says (src/jim/monitors/: triggers.py, diff.py,           *)
(* materiality.py, nl.py, create.py, update.py, models.py, cli.py): the    *)
(* deterministic crew of triggers over the difference between the stored   *)
(* baseline and a fresh snapshot, the materiality gate, the update note.   *)
(*                                                                         *)
(* One monitor, driven from the CLI, the API or the scheduler, one run at  *)
(* a time; MonitorFleet has the concurrent runs.  Values are in            *)
(* thousandths, percentages in tenths.  A snapshot's metrics are a partial *)
(* function from labels; an optional value is a set of at most one.  A     *)
(* stamp is its age, which saturates at the cooldown.                      *)
(***************************************************************************)
EXTENDS Figures, Sequences, FiniteSets
Seqs == INSTANCE SequencesExt

CONSTANTS
  Labels,      \* what metrics are called, and "" for no label
  Snapshots,   \* what a gather may return
  Requests,    \* what `add` may be asked: records, see NewTriggers
  Keyed,       \* is anthropic_api_key set?
  Quiet,       \* cooldown_seconds, in hours
  NoMonitor    \* the store holds no row

\* The labels jim itself names (create.py, nl.py, models.py).
OwnLabels ==
  {"", "Price", "Price (USD)", "RSI (14-day)", "50-day moving average", "200-day moving average",
   "Liquidity / TVL (USD)", "Cumulative volume (USD)", "Diluted EPS", "Net income"}

\* TriggerKind; a proposal may also name a kind there is not.
Kinds == {"price_move", "metric_change", "threshold", "ma_cross", "new_filing"}

\* models.py TriggerSpec, with the parameters of every kind; what --watch gives.
TriggerSpecs ==
  [kind : Kinds \cup {"unknown"}, label : Labels, labels : Seq(Labels), pct : Int,
   abs : SUBSET Int, above : SUBSET Int, below : SUBSET Int, fast : Labels, slow : Labels]

WatchSpecs ==
  [head : {"price", "rsi", "ma", "filing", "metric", "threshold", "unknown"}, label : Labels,
   num : SUBSET Int, other : SUBSET Int]

ASSUME LabelAssumption == OwnLabels \subseteq Labels

ASSUME QuietAssumption == Quiet \in Nat

ASSUME SnapshotAssumption ==
  \A snap \in Snapshots : /\ IsFiniteSet(DOMAIN snap.metrics) /\ DOMAIN snap.metrics \subseteq Labels
                          /\ \A l \in DOMAIN snap.metrics : snap.metrics[l] \in Int
                          /\ snap.as_of \in Nat

\* A description holds percentages without a sign; a proposal is what the model
\* filled into the schema.
ASSUME RequestAssumption ==
  \A req \in Requests : /\ req.watch \in Seq(WatchSpecs)
                        /\ req.pcts \in Seq(Nat) /\ req.metrics \in Seq(Labels)
                        /\ req.proposal \in Seq(TriggerSpecs)
                        /\ req.floor \in {"info", "notable", "critical"}

VARIABLES
  monitor,    \* the stored row, or NoMonitor
  report,     \* what the last run found and said, until time passes
  heard,      \* history: how long ago the feed last published each signal key
  crosses     \* history: the last two polls that raised a cross of the default
              \* averages, since both have been present, as sets of directions

crewVars == <<monitor, report, heard, crosses>>

NoReport == [status |-> "none", raised |-> <<>>, published |-> <<>>, gated |-> TRUE, same |-> FALSE]

Nothing == [metrics |-> <<>>, accessions |-> <<>>, as_of |-> 0]

CrewInit ==
  /\ monitor = NoMonitor
  /\ report = NoReport
  /\ heard = <<>>
  /\ crosses = <<>>

The(option) == CHOOSE x \in option : TRUE

---------------------------------------------------------------------------
(* diff.py *)

Old(base, label) == IF label \in DOMAIN base.metrics THEN {base.metrics[label]} ELSE {}

\* SnapshotDiff.get: the delta of a label of the fresh snapshot.
Delta(base, snap, label) == [label |-> label, old |-> Old(base, label), new |-> snap.metrics[label]]

Has(snap, label) == label \in DOMAIN snap.metrics

Change(d) == d.new - The(d.old)

\* |pct_change| >= pct, where pct_change is not None.
MovedBy(d, pct) ==
  /\ d.old # {} /\ The(d.old) # 0
  /\ 1000 * Magnitude(Change(d)) >= pct * Magnitude(The(d.old))

\* Where the snapshot names filings the baseline does not.
NewAccessions(base, snap) ==
  {i \in DOMAIN snap.accessions : \A j \in DOMAIN base.accessions : base.accessions[j] # snap.accessions[i]}

\* as_of_advanced, both dates known (0: none).
Advanced(base, snap) == base.as_of # 0 /\ snap.as_of > base.as_of

\* is_first_run: no baseline, or one without facts.
FirstRun(base) == DOMAIN base.metrics = {}

---------------------------------------------------------------------------
(* triggers.py *)

Signal(key, severity, direction, cites) ==
  [key |-> key, severity |-> severity, direction |-> direction, cites |-> cites]

\* _severity, with the magnitude replaced by pct where there is no pct_change.
SeverityOf(d, pct) == IF pct > 0 /\ MovedBy(d, 2 * pct) THEN "critical" ELSE "notable"

Direction(d) == IF Change(d) > 0 THEN "up" ELSE "down"

If(condition, sig) == IF condition THEN <<sig>> ELSE <<>>

PriceMove(spec, base, snap) ==
  IF ~Has(snap, spec.label) THEN <<>> ELSE
  LET d == Delta(base, snap, spec.label)
  IN  IF ~MovedBy(d, spec.pct) THEN <<>> ELSE
      <<Signal(<<"price_move", d.label>>, SeverityOf(d, spec.pct), Direction(d), <<d.label>>)>>

\* The labels given, or every label of the snapshot.
MetricChange(spec, base, snap) ==
  LET labels  == IF spec.labels = <<>> THEN Seqs!SetToSeq(DOMAIN snap.metrics) ELSE spec.labels
      big(d)  == \/ MovedBy(d, spec.pct)
                 \/ spec.abs # {} /\ Magnitude(Change(d)) >= The(spec.abs)
      fires(l) == Has(snap, l) /\ Old(base, l) # {} /\ big(Delta(base, snap, l))
      sig(l)  == LET d == Delta(base, snap, l)
                 IN  Signal(<<"metric_change", l>>, SeverityOf(d, spec.pct), Direction(d), <<l>>)
  IN  Seqs!FlattenSeq([i \in DOMAIN labels |-> If(fires(labels[i]), sig(labels[i]))])

\* Only the crossing fires; a metric without a baseline value counts as crossing.
LevelCross(spec, base, snap) ==
  IF ~Has(snap, spec.label) THEN <<>> ELSE
  LET d     == Delta(base, snap, spec.label)
      above == spec.above # {} /\ d.new >= The(spec.above)
               /\ (d.old = {} \/ The(d.old) < The(spec.above))
      below == spec.below # {} /\ d.new <= The(spec.below)
               /\ (d.old = {} \/ The(d.old) > The(spec.below))
  IN  If(above, Signal(<<"threshold", d.label, "above">>, "notable", "cross_up", <<d.label>>))
      \o If(below, Signal(<<"threshold", d.label, "below">>, "notable", "cross_down", <<d.label>>))

\* Mutant of Crossing: a tie does not count as below.
CrossingStrict(f, s) ==
  LET below == The(f.old) < The(s.old)
      above == f.new > s.new
  IN  IF below /\ above THEN "golden" ELSE IF ~below /\ ~above THEN "death" ELSE "none"

Crossing(f, s) ==
  LET below == The(f.old) <= The(s.old)
      above == f.new > s.new
  IN  IF below /\ above THEN "golden" ELSE IF ~below /\ ~above THEN "death" ELSE "none"

Averaged(spec, base, snap) ==
  \A l \in {spec.fast, spec.slow} : Has(snap, l) /\ Old(base, l) # {}

MaCross(spec, base, snap) ==
  IF ~Averaged(spec, base, snap) THEN <<>> ELSE
  LET cross == Crossing(Delta(base, snap, spec.fast), Delta(base, snap, spec.slow))
  IN  If(cross # "none",
         Signal(<<"ma_cross", spec.fast, spec.slow, cross>>, "notable", cross, <<spec.fast, spec.slow>>))

NewFiling(base, snap) ==
  LET fresh == NewAccessions(base, snap)
      key   == IF fresh # {} THEN <<"accession", snap.accessions[Seqs!Min(fresh)]>> ELSE <<"as_of", snap.as_of>>
  IN  If(fresh # {} \/ Advanced(base, snap),
         Signal(<<"new_filing", key>>, "notable", "new", <<>>))

\* EVALUATORS; an unknown kind says nothing.
Evaluate(spec, base, snap) ==
  CASE spec.kind = "price_move"    -> PriceMove(spec, base, snap)
    [] spec.kind = "metric_change" -> MetricChange(spec, base, snap)
    [] spec.kind = "threshold"     -> LevelCross(spec, base, snap)
    [] spec.kind = "ma_cross"      -> MaCross(spec, base, snap)
    [] spec.kind = "new_filing"    -> NewFiling(base, snap)
    [] OTHER                       -> <<>>

EvaluateAll(specs, base, snap) ==
  Seqs!FlattenSeq([i \in DOMAIN specs |-> Evaluate(specs[i], base, snap)])

---------------------------------------------------------------------------
(* materiality.py *)

Rank == [info |-> 0, notable |-> 1, critical |-> 2]

Recent(stamps, key) == key \in DOMAIN stamps /\ stamps[key] < Quiet

Stamped(stamps, keys) ==
  [k \in DOMAIN stamps \cup keys |-> IF k \in keys THEN 0 ELSE stamps[k]]

\* Mutant of Weigh: the stamp is written before the floor is looked at.
WeighStamping(sig, verdict, floor) ==
  LET held == Rank[sig.severity] < Rank[floor] \/ Recent(verdict.stamps, sig.key)
  IN  [published |-> IF held THEN verdict.published ELSE Append(verdict.published, sig),
       stamps    |-> Stamped(verdict.stamps, {sig.key})]

\* One signal of assess: below the floor or within its cooldown it is
\* suppressed, otherwise published and stamped.
Weigh(sig, verdict, floor) ==
  LET held == Rank[sig.severity] < Rank[floor] \/ Recent(verdict.stamps, sig.key)
  IN  [published |-> IF held THEN verdict.published ELSE Append(verdict.published, sig),
       stamps    |-> IF held THEN verdict.stamps ELSE Stamped(verdict.stamps, {sig.key})]

Assess(signals, floor, stamps) ==
  LET upto[i \in 0..Len(signals)] ==
        IF i = 0 THEN [published |-> <<>>, stamps |-> stamps]
        ELSE Weigh(signals[i], upto[i - 1], floor)
  IN  upto[Len(signals)]

---------------------------------------------------------------------------
(* create.py, nl.py, default_triggers: where a crew comes from *)

Blank == [kind |-> "unknown", label |-> "", labels |-> <<>>, pct |-> 0, abs |-> {}, above |-> {},
          below |-> {}, fast |-> "50-day moving average", slow |-> "200-day moving average"]

PriceLabel(product) == IF product = "token" THEN "Price (USD)" ELSE "Price"

PriceSpec(label, pct)   == [Blank EXCEPT !.kind = "price_move", !.label = label, !.pct = pct]
MetricSpec(labels, pct) == [Blank EXCEPT !.kind = "metric_change", !.labels = labels, !.pct = pct]
LevelSpec(label, above, below) ==
  [Blank EXCEPT !.kind = "threshold", !.label = label, !.above = above, !.below = below]
RsiSpec    == LevelSpec("RSI (14-day)", {70000}, {30000})
AvgSpec    == [Blank EXCEPT !.kind = "ma_cross"]
FilingSpec == [Blank EXCEPT !.kind = "new_filing"]

DefaultTriggers(product) ==
  IF product = "token"
    THEN <<PriceSpec(PriceLabel(product), 50),
           MetricSpec(<<"Liquidity / TVL (USD)", "Cumulative volume (USD)">>, 100)>>
    ELSE <<PriceSpec(PriceLabel(product), 50), RsiSpec, AvgSpec,
           MetricSpec(<<"Diluted EPS", "Net income">>, 100), FilingSpec>>

\* parse_watch_spec: a mini-spec [head, label, num, other]; unrecognized, none.
ParsedWatch(w, product) ==
  LET or(option, default) == IF option = {} THEN default ELSE The(option)
  IN  CASE w.head = "price"     -> <<PriceSpec(PriceLabel(product), or(w.num, 50))>>
        [] w.head = "rsi"       -> <<LevelSpec("RSI (14-day)", {or(w.num, 70000)}, {or(w.other, 30000)})>>
        [] w.head = "ma"        -> <<AvgSpec>>
        [] w.head = "filing"    -> <<FilingSpec>>
        [] w.head = "metric"    -> <<MetricSpec(<<w.label>>, or(w.num, 100))>>
        [] w.head = "threshold" -> <<LevelSpec(w.label, w.num, w.other)>>
        [] OTHER                -> <<>>

OrDefault(specs, product) == IF specs = <<>> THEN DefaultTriggers(product) ELSE specs

WatchTriggers(watch, product) ==
  OrDefault(Seqs!FlattenSeq([i \in DOMAIN watch |-> ParsedWatch(watch[i], product)]), product)

\* deterministic_triggers: keywords to kinds, the first percentage for the
\* price, the last for the metrics; or the default crew.
KeywordTriggers(words, pcts, metrics, product) ==
  OrDefault(
    Seqs!FlattenSeq(<<
      If("price" \in words, PriceSpec(PriceLabel(product), IF pcts = <<>> THEN 50 ELSE Head(pcts))),
      If("rsi" \in words, RsiSpec),
      If("ma" \in words, AvgSpec),
      If("filing" \in words, FilingSpec),
      If(metrics # <<>>, MetricSpec(metrics, IF pcts = <<>> THEN 100 ELSE pcts[Len(pcts)]))>>),
    product)

\* Mutant of Clamp: the model's number is taken as it is.
ClampNot(pct) == pct

Clamp(pct) == IF pct < 1 THEN 1 ELSE IF pct > 10000 THEN 10000 ELSE pct

\* validate_triggers: unknown kinds and thresholds without a label or a level
\* are dropped, percentages clamped to 0.1..1000; nothing else is bounded.
Disposed(raw) ==
  LET valid(s) == /\ s.kind \in Kinds
                  /\ s.kind = "threshold" => s.label # "" /\ (s.above # {} \/ s.below # {})
      clamped(s) == IF s.kind \in {"price_move", "metric_change"} THEN [s EXCEPT !.pct = Clamp(@)] ELSE s
  IN  Seqs!FlattenSeq([i \in DOMAIN raw |-> If(valid(raw[i]), clamped(raw[i]))])

\* propose_triggers: the model's proposal if any of it survives, else, and when
\* there is no key or the call fails, the keyword parser.
ProposedTriggers(req) ==
  LET keyword == KeywordTriggers(req.words, req.pcts, req.metrics, req.product)
      disposed == Disposed(req.proposal)
  IN  IF ~Keyed THEN {keyword}
      ELSE {keyword, IF disposed = <<>> THEN keyword ELSE disposed}

\* create_monitor: watch before describe before the default crew.
NewTriggers(req) ==
  IF req.watch # <<>> THEN {WatchTriggers(req.watch, req.product)}
  ELSE IF req.described THEN ProposedTriggers(req)
  ELSE {DefaultTriggers(req.product)}

---------------------------------------------------------------------------
(* update.py *)

\* _fallback_memo against the gate: each signal is a line that quotes the first
\* fact it cites as _fmt_value renders it; a line without a fact has no figure.
FallbackPasses(snap, published) ==
  \A i \in DOMAIN published : published[i].cites # <<>> =>
    LET l == Head(published[i].cites)
        f == [value |-> snap.metrics[l], unit |-> UnitOf(l)]
    IN  \A fig \in Rendered(f.value, f.unit) : Matches(fig, f)

\* synthesize_update: whether the gate passed the note that ships.  Two attempts
\* of the model, each accepted, rejected (by the gate or the impersonal guard)
\* or failed; the fallback ships whatever the gate says.
NoteVerdicts(snap, published) ==
  (IF Keyed THEN {TRUE} ELSE {}) \cup {FallbackPasses(snap, published)}

---------------------------------------------------------------------------
(* engine.py, cli.py, and the routes of seller/app.py *)

Stored == monitor # NoMonitor

\* add: create_monitor and save_monitor.
Add(req) ==
  /\ ~Stored
  /\ \E triggers \in NewTriggers(req) :
       monitor' = [watched |-> req.watch # <<>>, pcts |-> req.pcts, triggers |-> triggers,
                   floor |-> req.floor, baseline |-> Nothing, stamps |-> <<>>]
  /\ report' = NoReport
  /\ heard' = <<>>
  /\ crosses' = <<>>

\* A gather that fails: recorded and rescheduled, the baseline kept.
FailedRun ==
  /\ Stored
  /\ report' = [NoReport EXCEPT !.status = "error"]
  /\ UNCHANGED <<monitor, heard, crosses>>

\* run_monitor_once on the first snapshot, or after an empty one.
FirstReading(snap) ==
  /\ Stored
  /\ FirstRun(monitor.baseline)
  /\ monitor' = [monitor EXCEPT !.baseline = snap]
  /\ report' = [NoReport EXCEPT !.status = "baseline"]
  /\ crosses' = <<>>
  /\ UNCHANGED heard

\* The directions in which signals say the default averages crossed.
CrossesIn(signals) ==
  {c \in {"golden", "death"} :
     \E i \in DOMAIN signals : signals[i].key = <<"ma_cross", AvgSpec.fast, AvgSpec.slow, c>>}

LastTwo(s) == IF Len(s) <= 2 THEN s ELSE SubSeq(s, Len(s) - 1, Len(s))

\* run_monitor_once with a baseline: diff, crew, materiality gate, note, roll.
Reading(snap) ==
  /\ Stored
  /\ ~FirstRun(monitor.baseline)
  /\ LET base    == monitor.baseline
         signals == EvaluateAll(monitor.triggers, base, snap)
         verdict == Assess(signals, monitor.floor, monitor.stamps)
         keys    == {verdict.published[i].key : i \in DOMAIN verdict.published}
     IN  /\ monitor' = [monitor EXCEPT !.baseline = snap, !.stamps = verdict.stamps]
         /\ \E gated \in IF keys = {} THEN {TRUE} ELSE NoteVerdicts(snap, verdict.published) :
              report' = [status    |-> IF keys = {} THEN "quiet" ELSE "material",
                         raised    |-> signals,
                         published |-> verdict.published,
                         gated     |-> gated,
                         same      |-> snap = base]
         /\ heard' = Stamped(heard, keys)
         /\ crosses' = IF ~Averaged(AvgSpec, base, snap) THEN <<>>
                       ELSE IF CrossesIn(signals) = {} THEN crosses
                       ELSE LastTwo(Append(crosses, CrossesIn(signals)))

Older(stamps) == [k \in DOMAIN stamps |-> IF stamps[k] < Quiet THEN stamps[k] + 1 ELSE Quiet]

HourPasses ==
  /\ Stored
  /\ monitor' = [monitor EXCEPT !.stamps = Older(@)]
  /\ heard' = Older(heard)
  /\ report' = NoReport
  /\ UNCHANGED crosses

\* A run by hand, or by the scheduler when the monitor is due; a preview
\* changes nothing.
CrewNext ==
  \/ \E req \in Requests : Add(req)
  \/ FailedRun
  \/ \E snap \in Snapshots : FirstReading(snap)
  \/ \E snap \in Snapshots : Reading(snap)
  \/ HourPasses

CrewSpec == CrewInit /\ [][CrewNext]_crewVars

---------------------------------------------------------------------------
(* Properties *)

\* A poll that finds nothing changed says nothing, whatever crew the model
\* proposed.  (The code does not clamp a crew given by hand with --watch, an
\* absolute floor, or a percentage the description names: zeros are left out.)
QuietPollIsQuiet ==
  /\ Stored /\ report.same
  /\ ~monitor.watched /\ \A i \in DOMAIN monitor.pcts : monitor.pcts[i] # 0
  /\ \A i \in DOMAIN monitor.triggers : \A floor \in monitor.triggers[i].abs : floor > 0
  => report.published = <<>>

\* Golden and death crosses of the averages alternate over any series of polls
\* in which both are present, ties included, whatever crew watches them: no
\* cross is raised by two polls in a row, and no poll raises both.
CrossesAlternate ==
  /\ \A i \in DOMAIN crosses : crosses[i] # {"golden", "death"}
  /\ Len(crosses) = 2 => crosses[1] # crosses[2]

\* No signal at or above the floor is swallowed: the run that raises it
\* publishes its key, or the feed did less than a cooldown before that run.
EverySignalIsHeard ==
  \A i \in DOMAIN report.raised :
    LET sig == report.raised[i]
    IN  Rank[sig.severity] >= Rank[monitor.floor] =>
          /\ sig.key \in DOMAIN heard
          /\ heard[sig.key] = 0 \/ heard[sig.key] < Quiet

\* update.py says the fallback note passes the gate by construction: what a
\* material run ships is sourced.
NoteIsSourced == report.status = "material" => report.gated
=============================================================================
