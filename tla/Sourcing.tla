------------------------------ MODULE Sourcing ------------------------------
(***************************************************************************)
(* Facts, the sourcing gate and the blame (src/jim/research/facts.py,      *)
(* completeness.py, sources/peer.py, interop/trust.py; gate.py in          *)
(* Figures): a primary source and the peers composed with it hand over     *)
(* rows of data, which become numbered facts of one snapshot; a memo       *)
(* quotes them; the gate checks every figure; the outcome credits or       *)
(* debits the sellers.                                                     *)
(*                                                                         *)
(* A fact's id "C#" is its number #.                                       *)
(***************************************************************************)
EXTENDS Figures, Sequences, FiniteSets

CONSTANTS
  Primary,        \* the product's own source
  PeerSources,    \* the peers of its CompositeSource
  Filed,          \* what the primary may hand over: label -> value, partial
  PriceFeed,      \* what the price feed may hand over, likewise
  PeerRows,       \* what a peer may hand over: sequences of rows
  Segments,       \* what a memo may say in one segment
  MaxSegments,    \* bound of a memo's length
  FloorPercent    \* material_floor of check_completeness, in percent

ASSUME SourceAssumption  == Primary \notin PeerSources
ASSUME RowsAssumption    == /\ \A values \in Filed \cup PriceFeed : IsFiniteSet(DOMAIN values)
                            /\ \A rows \in PeerRows : DOMAIN rows \subseteq Nat /\ IsFiniteSet(DOMAIN rows)
ASSUME SegmentAssumption == MaxSegments \in Nat /\ FloorPercent \in 0..100

VARIABLES
  facts,     \* Snapshot.facts, a set
  origins,   \* Snapshot.origins, id -> source
  supplied,  \* history: the values each source handed over or derived
  entered,   \* history: the ids under which each source's rows entered the snapshot
  unbought,  \* the peers not yet gathered from
  garbled,   \* the peers debited at once, for an answer without a usable row
  memo,      \* the segments written
  verdict    \* "none", or the gate's outcome with its attribution

sourcingVars == <<facts, origins, supplied, entered, unbought, garbled, memo, verdict>>

Undecided == [stage |-> "none"]

Sources == {Primary} \cup PeerSources

SourcingInit ==
  /\ facts = {}
  /\ origins = <<>>
  /\ supplied = [s \in Sources |-> {}]
  /\ entered = [s \in Sources |-> {}]
  /\ unbought = PeerSources
  /\ garbled = {}
  /\ memo = {}
  /\ verdict = Undecided

---------------------------------------------------------------------------
(* facts.py, fundamentals_source.py: facts from rows *)

\* What compute_derived and enrich_with_prices compute, from which labels.
Ratio(label, unit, over, under) ==
  [label |-> label, unit |-> unit, over |-> over, under |-> under]

FiledRatios == {
  Ratio("Gross margin", "%", "Gross profit", "Revenue"),
  Ratio("Operating margin", "%", "Operating income", "Revenue"),
  Ratio("Net margin", "%", "Net income", "Revenue"),
  Ratio("Return on equity", "%", "Net income", "Stockholders' equity"),
  Ratio("Return on assets", "%", "Net income", "Total assets"),
  Ratio("Debt-to-equity", "x", "Total liabilities", "Stockholders' equity")}

PricedRatios == {
  Ratio("P/E (TTM)", "x", "Price", "Diluted EPS"),
  Ratio("P/B", "x", "Market cap", "Stockholders' equity"),
  Ratio("Dividend yield", "%", "Dividends per share", "Price")}

\* An input that is missing or a zero denominator: the metric is skipped.
Computable(ratios, values) ==
  {r \in ratios : /\ {r.over, r.under} \subseteq DOMAIN values
                  /\ values[r.under] # 0}

RatioValue(r, values) ==
  LET over  == values[r.over] * (IF r.unit = "%" THEN 100000 ELSE 1000)
      under == values[r.under]
  IN  IF under > 0 THEN over \div under ELSE (-over) \div (-under)

RatioRow(r, values) == [label |-> r.label, unit |-> r.unit, value |-> RatioValue(r, values)]

RowsOf(values) == {[label |-> l, unit |-> UnitOf(l), value |-> values[l]] : l \in DOMAIN values}

Numberings(rows, first) ==
  {f \in [rows -> first..(first + Cardinality(rows) - 1)] :
     \A r, s \in rows : f[r] = f[s] => r = s}

Fact(row, id) == [id |-> id, label |-> row.label, unit |-> row.unit, value |-> row.value]

Numbered(rows, number) == {Fact(r, number[r]) : r \in rows}

Ids == {f.id : f \in facts}

NextId == 1 + (CHOOSE m \in Ids \cup {0} : \A i \in Ids : i <= m)

Earned(values) ==
  IF {"Operating income", "Depreciation & amortization"} \subseteq DOMAIN values
    THEN {[label |-> "EBITDA", unit |-> "USD",
           value |-> values["Operating income"] + values["Depreciation & amortization"]]}
    ELSE {}

WithCap(values) ==
  IF {"Price", "Shares outstanding"} \subseteq DOMAIN values
    THEN [l \in DOMAIN values \cup {"Market cap"} |->
            IF l = "Market cap" THEN (values["Price"] * values["Shares outstanding"]) \div 1000
            ELSE values[l]]
    ELSE values

\* What the primary hands over: filings and derived metrics, then, when the
\* feed answers, the price and the metrics that need it; compute_derived's sum.
PrimaryRows(filed, feed) ==
  LET values == WithCap([l \in DOMAIN filed \cup DOMAIN feed |->
                           IF l \in DOMAIN feed THEN feed[l] ELSE filed[l]])
      priced == IF "Price" \in DOMAIN feed THEN Computable(PricedRatios, values) ELSE {}
  IN  RowsOf(values) \cup Earned(filed)
        \cup {RatioRow(r, filed) : r \in Computable(FiledRatios, filed)}
        \cup {RatioRow(r, values) : r \in priced}

\* The primary's gather.
GatherFacts(filed, feed) ==
  LET rows   == PrimaryRows(filed, feed)
      number == CHOOSE n \in Numberings(rows, 1) : TRUE
  IN  /\ facts = {} /\ rows # {}
      /\ facts' = Numbered(rows, number)
      /\ origins' = [i \in 1..Cardinality(rows) |-> Primary]
      /\ supplied' = [supplied EXCEPT ![Primary] = rows]
      /\ entered' = [entered EXCEPT ![Primary] = {f.id : f \in facts'}]
      /\ UNCHANGED <<unbought, garbled, memo, verdict>>

---------------------------------------------------------------------------
(* peer.py: composing a peer's facts *)

AllowedUnits == {"USD", "USD/shares", "shares", "%", "x", "count", "index"}

\* _facts_from_payload: the indices of the rows with a label, a number and a
\* known unit, and the place of such a row among them.
Usable(rows) == {i \in DOMAIN rows : rows[i].unit \in AllowedUnits}

Place(rows, i) == Cardinality({j \in Usable(rows) : j <= i})

\* Mutant of Renumbered: the peer's own ids, which start at C1, are kept.
Kept(rows) == {Fact(rows[i], Place(rows, i)) : i \in Usable(rows)}

\* CompositeSource.gather: new ids after the highest one in the snapshot.
Renumbered(rows) == {Fact(rows[i], NextId + Place(rows, i) - 1) : i \in Usable(rows)}

BuyPeer(p, rows) ==
  LET added == Renumbered(rows)
      ids   == {f.id : f \in added}
  IN  /\ facts # {} /\ p \in unbought /\ memo = {}
      /\ Usable(rows) # {}
      /\ facts' = facts \cup added
      /\ origins' = [i \in DOMAIN origins \cup ids |-> IF i \in ids THEN p ELSE origins[i]]
      /\ supplied' = [supplied EXCEPT ![p] = {rows[i] : i \in Usable(rows)}]
      /\ entered' = [entered EXCEPT ![p] = ids]
      /\ unbought' = unbought \ {p}
      /\ UNCHANGED <<garbled, memo, verdict>>

\* PeerSource.gather: an answer, bought or cached, without a usable row debits
\* the peer before CompositeSource skips it.
BuyGarbage(p, rows) ==
  /\ facts # {} /\ p \in unbought /\ memo = {}
  /\ Usable(rows) = {}
  /\ garbled' = garbled \cup {p}
  /\ unbought' = unbought \ {p}
  /\ UNCHANGED <<facts, origins, supplied, entered, memo, verdict>>

\* A peer that fails in any other of the listed ways: refused, down or too dear.
SkipPeer(p) ==
  /\ facts # {} /\ p \in unbought /\ memo = {}
  /\ unbought' = unbought \ {p}
  /\ UNCHANGED <<facts, origins, supplied, entered, garbled, memo, verdict>>

---------------------------------------------------------------------------
(* completeness.py *)

MaterialLabels == {"Revenue", "Gross profit", "Operating income", "Net income", "Diluted EPS",
  "Basic EPS", "Total assets", "Total liabilities", "Stockholders' equity", "Net margin",
  "Operating margin", "Return on equity", "Price (USD)", "Market cap (USD)",
  "Liquidity / TVL (USD)", "Cumulative volume (USD)"}

\* check_completeness: a signal, never a reason to refuse.
Complete(text, fs) ==
  LET material == {f \in fs : f.label \in MaterialLabels}
      cited    == UNION {s.cites : s \in text}
      covered  == {f \in material : f.id \in cited}
  IN  100 * Cardinality(covered) >= FloorPercent * Cardinality(material)

---------------------------------------------------------------------------
(* The memo, the gate and the attribution *)

WriteSegment(seg) ==
  /\ facts # {} /\ unbought = {}
  /\ verdict = Undecided
  /\ Cardinality(memo) < MaxSegments
  /\ memo' = memo \cup {seg}
  /\ UNCHANGED <<facts, origins, supplied, entered, unbought, garbled, verdict>>

\* attribute_gate_outcome of a failed gate: who sold the facts that a violation cites.
Blamed(violations) ==
  {origins[i] : i \in (UNION {v.cites : v \in violations}) \cap Ids}

\* _gate: a pass credits every contributor, a failure debits the implicated.
GateMemo ==
  LET violations == Violations(memo, facts)
  IN  /\ memo # {} /\ verdict = Undecided
      /\ verdict' = [stage    |-> IF violations = {} THEN "passed" ELSE "failed",
                     credited |-> IF violations = {} THEN {origins[i] : i \in Ids} ELSE {},
                     debited  |-> IF violations = {} THEN {} ELSE Blamed(violations),
                     complete |-> Complete(memo, facts)]
      /\ UNCHANGED <<facts, origins, supplied, entered, unbought, garbled, memo>>

SourcingNext ==
  \/ \E filed \in Filed, feed \in PriceFeed : GatherFacts(filed, feed)
  \/ \E p \in PeerSources, rows \in PeerRows : BuyPeer(p, rows)
  \/ \E p \in PeerSources, rows \in PeerRows : BuyGarbage(p, rows)
  \/ \E p \in PeerSources : SkipPeer(p)
  \/ \E seg \in Segments : WriteSegment(seg)
  \/ GateMemo

SourcingSpec == SourcingInit /\ [][SourcingNext]_sourcingVars

---------------------------------------------------------------------------
(* Properties *)

\* A planted figure is blocked, in the terms of the sellers: in a memo that
\* passes, every figure is next to a citation whose seller, by the snapshot's
\* origins, handed over (or let jim derive) such a value in such a unit, or a
\* loss of that size, and no citation is empty.  Merging, renumbering and
\* matching stand in between.
FiguresTraceToSeller ==
  verdict # Undecided /\ verdict.stage = "passed" =>
    \A seg \in memo :
      /\ seg.cites \subseteq DOMAIN origins
      /\ \A fig \in seg.figures : \E i \in seg.cites : \E row \in supplied[origins[i]] :
           /\ UnitOk(fig.kind, row.unit)
           /\ \/ Within(fig.value, row.value)
              \/ row.value < 0 /\ Within(Magnitude(fig.value), Magnitude(row.value))

\* A segment fails: it cites what is not there, or a figure of it is not matched.
Fails(seg) ==
  \/ ~(seg.cites \subseteq Ids)
  \/ \E fig \in seg.figures : \A f \in CitedFacts(seg, facts) : ~Matches(fig, f)

\* Reputation is just, whatever the merge did to the ids: a failure debits the
\* sources whose own rows a failing segment cites, all of them and no other; a
\* pass credits every source whose rows are in the snapshot and no other; a peer
\* debited for a garbled answer has no part in the verdict.
BlameIsJust ==
  verdict # Undecided =>
    /\ verdict.credited =
         {s \in Sources : verdict.stage = "passed" /\ entered[s] # {}}
    /\ verdict.debited =
         {s \in Sources : \E seg \in memo : Fails(seg) /\ entered[s] \cap seg.cites # {}}
    /\ garbled \cap (verdict.credited \cup verdict.debited) = {}
=============================================================================
