------------------------------ MODULE Figures ------------------------------
(***************************************************************************)
(* Facts as figures (src/jim/research/facts.py, gate.py): how a fact is    *)
(* rendered, which figure of a memo matches which fact, and the verdict of *)
(* the sourcing gate.  No state and no model in the loop.                  *)
(*                                                                         *)
(* Values are in thousandths.  A memo is a set of segments (sentences),    *)
(* each with the figures and the citations that the regular expressions of *)
(* gate.py find in it: [figures, cites], a figure being [value, kind].     *)
(***************************************************************************)
EXTENDS Integers

Magnitude(v) == IF v < 0 THEN -v ELSE v

\* The unit tag jim gives a metric.
UnitOf(label) ==
  CASE label \in {"Diluted EPS", "Dividends per share"} -> "USD/shares"
    [] label = "Shares outstanding" -> "shares"
    [] label \in {"RSI (14-day)", "MACD", "MACD signal"} -> "index"
    [] label = "Volume (latest session)" -> "count"
    [] OTHER -> "USD"

---------------------------------------------------------------------------
(* facts.py *)

\* _fmt_value: the figure a reader, or the gate, finds in a rendered fact, if
\* any (a short whole number is none); n rounded to a multiple of d, half to even.
RoundTo(n, d) ==
  LET q == n \div d
      r == n % d
  IN  IF 2 * r < d \/ (2 * r = d /\ q % 2 = 0) THEN d * q ELSE d * (q + 1)

Million == 1000000000

Figure(value, kind) == {[value |-> value, kind |-> kind]}

\* A minus sign after the dollar, or before an x, is no part of the figure found.
RenderedDollars(value) ==
  CASE value >= Million     -> Figure(RoundTo(value, Million \div 100), "cur")
    [] 0 <= value /\ value < Million -> Figure(RoundTo(value, 1000), "cur")
    [] value <= -Million    -> Figure(RoundTo(value, Million \div 100), "bare")
    [] -Million < value /\ value <= -1000000 -> Figure(RoundTo(-value, 1000), "bare")
    [] OTHER                -> {}

RenderedCount(value) ==
  IF value >= 1000000 THEN Figure(RoundTo(value, 1000), "bare") ELSE {}

Rendered(value, unit) ==
  CASE unit = "USD"                  -> RenderedDollars(value)
    [] unit = "USD/shares"           -> Figure(RoundTo(value, 10), IF value < 0 THEN "anchored" ELSE "cur")
    [] unit \in {"shares", "count"} -> RenderedCount(value)
    [] unit = "%"                    -> Figure(RoundTo(value, 100), "pct")
    [] unit = "x"                    -> Figure(RoundTo(Magnitude(value), 10), "mult")
    [] OTHER                         -> Figure(RoundTo(value, 100), "anchored")

---------------------------------------------------------------------------
(* gate.py *)

BareUnits == {"shares", "count", "USD", "USD/shares"}

\* _unit_ok; "bare" stands for sci, wordscale, num, sufnum and bigint.
UnitOk(kind, unit) ==
  \/ kind = "pct" /\ unit = "%"
  \/ kind = "mult" /\ unit = "x"
  \/ kind = "cur" /\ unit \in {"USD", "USD/shares"}
  \/ kind = "anchored"
  \/ kind = "bare" /\ unit \in BareUnits

\* 2 % of the fact, or 0.05.
Within(a, b) ==
  LET tolerance == IF 2 * Magnitude(b) > 5000 THEN 2 * Magnitude(b) ELSE 5000
  IN  100 * Magnitude(a - b) <= tolerance

\* _matches: the value, or the magnitude of a negative fact.
Matches(fig, f) ==
  /\ UnitOk(fig.kind, f.unit)
  /\ \/ Within(fig.value, f.value)
     \/ f.value < 0 /\ Within(Magnitude(fig.value), Magnitude(f.value))

CitedFacts(seg, fs) == {f \in fs : f.id \in seg.cites}

\* check_sourcing: the violations of a memo against a snapshot.
Phantoms(text, fs) ==
  {[reason |-> "phantom citation", cites |-> s.cites] :
     s \in {t \in text : ~(t.cites \subseteq {f.id : f \in fs})}}

Unmatched(text, fs) ==
  {[reason |-> IF CitedFacts(s, fs) = {} THEN "uncited" ELSE "value mismatch", cites |-> s.cites] :
     s \in {t \in text : \E fig \in t.figures : ~\E f \in CitedFacts(t, fs) : Matches(fig, f)}}

Violations(text, fs) == Phantoms(text, fs) \cup Unmatched(text, fs)
=============================================================================
