------------------------------ MODULE CrewProofs ------------------------------
(***************************************************************************)
(* Proofs about Crew, for any labels, snapshots and requests: what each    *)
(* trigger can say (EvaluateSays), that a poll without news says nothing,  *)
(* that two averages cross by turns, and that what is raised is heard or   *)
(* cooling down.                                                           *)
(***************************************************************************)
EXTENDS Crew, DataLemmas

\* The fold of FlattenSeq exists, whatever its parts.
LEMMA FlattenExists ==
  ASSUME NEW parts, NEW n \in Nat
  PROVE  \E f : f = [i \in 1..n |-> IF i = 1 THEN parts[i] ELSE f[i - 1] \o parts[i]]
<1> DEFINE Is(f, m) == f = [i \in 1..m |-> IF i = 1 THEN parts[i] ELSE f[i - 1] \o parts[i]]
           N == {m \in Nat : \E f : Is(f, m)}
<1>1. 0 \in N
  <2>1. Is(<<>>, 0) OBVIOUS
  <2> QED BY <2>1
<1>2. ASSUME NEW m \in Nat, m \in N PROVE m + 1 \in N
  <2>1. PICK f : Is(f, m) BY <1>2
  <2> DEFINE g == [i \in 1..(m + 1) |-> IF i \in 1..m THEN f[i]
                                        ELSE IF i = 1 THEN parts[i] ELSE f[i - 1] \o parts[i]]
  <2>2. \A i \in 1..m : g[i] = f[i] OBVIOUS
  <2>3. \A i \in 1..(m + 1) : g[i] = IF i = 1 THEN parts[i] ELSE g[i - 1] \o parts[i]
    <3>1. SUFFICES ASSUME NEW i \in 1..(m + 1)
                   PROVE  g[i] = IF i = 1 THEN parts[i] ELSE g[i - 1] \o parts[i]
      OBVIOUS
    <3>2. CASE i = 1
      <4>1. g[i] = parts[i] BY <2>1, <3>2
      <4> QED BY <4>1, <3>2
    <3>3. CASE i # 1
      <4>1. i - 1 \in 1..m /\ g[i - 1] = f[i - 1] BY <3>3, <2>2
      <4>2. g[i] = f[i - 1] \o parts[i] BY <2>1, <3>3
      <4> QED BY <4>1, <4>2, <3>3
    <3> QED BY <3>2, <3>3
  <2>4. Is(g, m + 1)
    <3>1. g = [i \in 1..(m + 1) |-> g[i]] OBVIOUS
    <3> HIDE DEF g
    <3> QED BY <2>3, <3>1
  <2> HIDE DEF g, Is
  <2> QED BY <2>4
<1>3. Nat \subseteq N
  <2> HIDE DEF N
  <2> QED BY <1>1, <1>2, NatSets
<1> QED BY <1>3

\* FlattenSeq holds what its parts hold, and nothing else.
LEMMA FlattenHolds ==
  ASSUME NEW V, NEW parts \in Seq(Seq(V))
  PROVE  /\ Seqs!FlattenSeq(parts) \in Seq(V)
         /\ Elements(Seqs!FlattenSeq(parts)) = UNION {Elements(parts[i]) : i \in DOMAIN parts}
<1> DEFINE n == Len(parts)
           f == CHOOSE g : g = [i \in 1..n |-> IF i = 1 THEN parts[i] ELSE g[i - 1] \o parts[i]]
           Upto(m) == UNION {Elements(parts[i]) : i \in 1..m}
           N == {m \in Nat : m \in 1..n => f[m] \in Seq(V) /\ Elements(f[m]) = Upto(m)}
<1>1. n \in Nat /\ DOMAIN parts = 1..n OBVIOUS
<1>2. f = [i \in 1..n |-> IF i = 1 THEN parts[i] ELSE f[i - 1] \o parts[i]]
  <2> HIDE DEF n
  <2> QED BY <1>1, FlattenExists
<1>3. Seqs!FlattenSeq(parts) = IF n = 0 THEN parts ELSE f[n] BY DEF Seqs!FlattenSeq
<1> HIDE DEF f
<1>4. 0 \in N OBVIOUS
<1>5. ASSUME NEW m \in Nat, m \in N PROVE m + 1 \in N
  <2>1. SUFFICES ASSUME m + 1 \in 1..n
                 PROVE  f[m + 1] \in Seq(V) /\ Elements(f[m + 1]) = Upto(m + 1)
    OBVIOUS
  <2>2. parts[m + 1] \in Seq(V) BY <2>1
  <2>3. CASE m = 0
    <3>1. f[m + 1] = parts[m + 1] BY <1>2, <2>1, <2>3
    <3>2. 1..(m + 1) = {m + 1} BY <2>3
    <3> QED BY <3>1, <3>2, <2>2
  <2>4. CASE m # 0
    <3>0. m \in 1..n /\ m + 1 # 1 /\ (m + 1) - 1 = m BY <1>1, <2>1, <2>4
    <3>1. m \in 1..n /\ f[m + 1] = f[m] \o parts[m + 1]
      <4>1. f[m + 1] = IF m + 1 = 1 THEN parts[m + 1] ELSE f[(m + 1) - 1] \o parts[m + 1]
        BY <1>2, <2>1
      <4> QED BY <4>1, <3>0
    <3>2. f[m] \in Seq(V) /\ Elements(f[m]) = Upto(m) BY <1>5, <3>1
    <3>3. 1..(m + 1) = 1..m \cup {m + 1} OBVIOUS
    <3>4. Upto(m + 1) = Upto(m) \cup Elements(parts[m + 1]) BY <3>3
    <3> HIDE DEF Upto
    <3>5. f[m] \o parts[m + 1] \in Seq(V)
          /\ Elements(f[m] \o parts[m + 1]) = Elements(f[m]) \cup Elements(parts[m + 1])
      BY <3>2, <2>2, ConcatenationHolds
    <3> QED BY <3>1, <3>2, <3>4, <3>5
  <2> QED BY <2>3, <2>4
<1>6. Nat \subseteq N
  <2> HIDE DEF N
  <2> QED BY <1>4, <1>5, NatSets
<1>7. CASE n = 0
  <2>1. Seqs!FlattenSeq(parts) = <<>> /\ DOMAIN parts = {} BY <1>1, <1>3, <1>7
  <2> QED BY <2>1 DEF Elements
<1>8. CASE n # 0
  <2>1. n \in 1..n /\ n \in N
    <3> HIDE DEF n, N
    <3> QED BY <1>1, <1>6, <1>8
  <2>2. f[n] \in Seq(V) /\ Elements(f[n]) = Upto(n) BY <2>1
  <2> QED BY <2>2, <1>1, <1>3, <1>8
<1> QED BY <1>7, <1>8

\* A signal map that is a function.
IsStamps(stamps) == stamps = [k \in DOMAIN stamps |-> stamps[k]]

\* The keys that signals speak for.
KeysOf(signals) == {signals[i].key : i \in DOMAIN signals}

\* What Assess has weighed after the first i signals.
Weighed(f, signals, floor, stamps, n) ==
  f = [i \in 0..n |-> IF i = 0 THEN [published |-> <<>>, stamps |-> stamps]
                      ELSE Weigh(signals[i], f[i - 1], floor)]

\* The recursion of Assess is a function, whatever the signals.
LEMMA WeighingExists ==
  ASSUME NEW signals, NEW floor, NEW stamps, NEW n \in Nat
  PROVE  \E f : Weighed(f, signals, floor, stamps, n)
<1> DEFINE N == {m \in Nat : \E f : Weighed(f, signals, floor, stamps, m)}
<1>1. 0 \in N
  <2> DEFINE f == [i \in 0..0 |-> [published |-> <<>>, stamps |-> stamps]]
  <2>1. Weighed(f, signals, floor, stamps, 0) BY DEF Weighed
  <2> QED BY <2>1
<1>2. ASSUME NEW m \in Nat, m \in N PROVE m + 1 \in N
  <2>1. PICK f : Weighed(f, signals, floor, stamps, m) BY <1>2
  <2> DEFINE g == [i \in 0..(m + 1) |-> IF i \in 0..m THEN f[i] ELSE Weigh(signals[i], f[i - 1], floor)]
             start == [published |-> <<>>, stamps |-> stamps]
  <2>2. ASSUME NEW i \in 0..(m + 1)
        PROVE  g[i] = IF i = 0 THEN start ELSE Weigh(signals[i], g[i - 1], floor)
    <3>1. CASE i = 0 BY <2>1, <3>1 DEF Weighed
    <3>2. CASE i # 0
      <4>1. i - 1 \in 0..m /\ g[i - 1] = f[i - 1] BY <3>2
      <4>2. g[i] = Weigh(signals[i], f[i - 1], floor)
        <5> HIDE DEF start
        <5> QED BY <2>1, <3>2 DEF Weighed
      <4> HIDE DEF g
      <4> QED BY <4>1, <4>2, <3>2
    <3> HIDE DEF g, start
    <3> QED BY <3>1, <3>2
  <2>3. g = [i \in 0..(m + 1) |-> g[i]] OBVIOUS
  <2> HIDE DEF g
  <2>4. Weighed(g, signals, floor, stamps, m + 1) BY <2>2, <2>3 DEF Weighed
  <2> QED BY <2>4
<1>3. Nat \subseteq N
  <2> HIDE DEF N
  <2> QED BY <1>1, <1>2, NatSets
<1> QED BY <1>3

\* What a signal that was weighed has got: its key was published now, or less
\* than a cooldown ago.
Heard(sig, floor, stamps) ==
  Rank[sig.severity] >= Rank[floor] =>
    sig.key \in DOMAIN stamps /\ (stamps[sig.key] = 0 \/ stamps[sig.key] < Quiet)

\* The stamps after an assessment are the stamps before it and the keys of what
\* it published, and no signal at or above the floor went unheard.
LEMMA AssessHears ==
  ASSUME NEW V, NEW signals \in Seq(V), \A v \in V : v.severity \in DOMAIN Rank,
         NEW floor \in DOMAIN Rank, NEW stamps, IsStamps(stamps)
  PROVE  LET verdict == Assess(signals, floor, stamps)
         IN  /\ verdict.published \in Seq(V)
             /\ signals = <<>> => verdict.published = <<>>
             /\ verdict.stamps = Stamped(stamps, KeysOf(verdict.published))
             /\ \A i \in DOMAIN signals : Heard(signals[i], floor, verdict.stamps)
<1> DEFINE n == Len(signals)
           f == CHOOSE g : Weighed(g, signals, floor, stamps, n)
<1>1. n \in Nat /\ DOMAIN signals = 1..n OBVIOUS
<1>2. Weighed(f, signals, floor, stamps, n) BY <1>1, WeighingExists
<1>3. Assess(signals, floor, stamps) = f[n] BY DEF Assess, Weighed
<1> HIDE DEF f
<1> DEFINE Good(i) == /\ f[i].published \in Seq(V)
                      /\ i = 0 => f[i].published = <<>>
                      /\ f[i].stamps = Stamped(stamps, KeysOf(f[i].published))
                      /\ \A j \in 1..i : Heard(signals[j], floor, f[i].stamps)
           N == {i \in Nat : i \in 0..n => Good(i)}
<1>4. 0 \in N
  <2>1. f[0] = [published |-> <<>>, stamps |-> stamps] BY <1>1, <1>2 DEF Weighed
  <2>2. Stamped(stamps, KeysOf(<<>>)) = stamps
    <3>1. KeysOf(<<>>) = {} BY DEF KeysOf
    <3>2. Stamped(stamps, {}) = [k \in DOMAIN stamps |-> stamps[k]] BY DEF Stamped
    <3> QED BY <3>1, <3>2 DEF IsStamps
  <2>3. Good(0) BY <2>1, <2>2
  <2> QED BY <2>3
<1>5. ASSUME NEW i \in Nat, i \in N PROVE i + 1 \in N
  <2>1. SUFFICES ASSUME i + 1 \in 0..n PROVE Good(i + 1) OBVIOUS
  <2>2. Good(i) /\ i + 1 \in 1..n BY <1>1, <1>5, <2>1
  <2> DEFINE sig == signals[i + 1]
             held == Rank[sig.severity] < Rank[floor] \/ Recent(f[i].stamps, sig.key)
  <2>3. f[i + 1] = Weigh(sig, f[i], floor) BY <1>2, <2>1 DEF Weighed
  <2>4. sig \in V /\ sig.severity \in DOMAIN Rank BY <1>1, <2>2
  <2>5. CASE held
    <3>1. f[i + 1].published = f[i].published /\ f[i + 1].stamps = f[i].stamps BY <2>3, <2>5 DEF Weigh
    <3>2. Heard(sig, floor, f[i].stamps)
      <4>1. Rank[sig.severity] \in Int /\ Rank[floor] \in Int BY <2>4 DEF Rank
      <4> QED BY <4>1, <2>5 DEF Heard, Recent
    <3>3. 1..(i + 1) = 1..i \cup {i + 1} OBVIOUS
    <3> QED BY <3>1, <3>2, <3>3, <2>2
  <2>6. CASE ~held
    <3>1. f[i + 1].published = Append(f[i].published, sig)
          /\ f[i + 1].stamps = Stamped(f[i].stamps, {sig.key}) BY <2>3, <2>6 DEF Weigh
    <3> DEFINE pub == f[i].published
    <3>2. Append(pub, sig) \in Seq(V) /\ KeysOf(Append(pub, sig)) = KeysOf(pub) \cup {sig.key}
      <4>1. Append(pub, sig) \in Seq(V) /\ Len(Append(pub, sig)) = Len(pub) + 1 /\ Len(pub) \in Nat BY <2>2, <2>4
      <4>2. \A j \in 1..Len(pub) : Append(pub, sig)[j] = pub[j] BY <2>2, <2>4
      <4>3. Append(pub, sig)[Len(pub) + 1] = sig BY <2>2, <2>4
      <4>4. 1..(Len(pub) + 1) = 1..Len(pub) \cup {Len(pub) + 1} BY <4>1
      <4>5. DOMAIN Append(pub, sig) = 1..(Len(pub) + 1) /\ DOMAIN pub = 1..Len(pub) BY <4>1, <2>2
      <4> HIDE DEF sig, pub
      <4> QED BY <4>1, <4>2, <4>3, <4>4, <4>5 DEF KeysOf
    <3>3. f[i + 1].stamps = Stamped(stamps, KeysOf(f[i + 1].published))
      <4>1. f[i + 1].stamps = Stamped(Stamped(stamps, KeysOf(pub)), {sig.key}) BY <3>1, <2>2
      <4>2. KeysOf(f[i + 1].published) = KeysOf(pub) \cup {sig.key} BY <3>1, <3>2
      <4> HIDE DEF pub, sig
      <4>3. Stamped(Stamped(stamps, KeysOf(pub)), {sig.key}) = Stamped(stamps, KeysOf(pub) \cup {sig.key})
        BY DEF Stamped
      <4> QED BY <4>1, <4>2, <4>3
    <3>4. \A j \in 1..i : Heard(signals[j], floor, f[i + 1].stamps)
      <4>1. \A k \in DOMAIN f[i].stamps : k \in DOMAIN f[i + 1].stamps
              /\ (f[i + 1].stamps[k] = f[i].stamps[k] \/ f[i + 1].stamps[k] = 0) BY <3>1 DEF Stamped
      <4>2. \A j \in 1..i : Heard(signals[j], floor, f[i].stamps) BY <2>2
      <4> QED BY <4>1, <4>2 DEF Heard
    <3>5. Heard(sig, floor, f[i + 1].stamps) BY <3>1 DEF Heard, Stamped
    <3>6. 1..(i + 1) = 1..i \cup {i + 1} OBVIOUS
    <3>7. f[i + 1].published \in Seq(V) /\ i + 1 # 0 BY <3>1, <3>2
    <3>8. \A j \in 1..(i + 1) : Heard(signals[j], floor, f[i + 1].stamps) BY <3>4, <3>5, <3>6
    <3> QED BY <3>3, <3>7, <3>8
  <2> HIDE DEF held, Good
  <2> QED BY <2>5, <2>6
<1>6. Nat \subseteq N
  <2> HIDE DEF N
  <2> QED BY <1>4, <1>5, NatSets
<1>7. Good(n) /\ (signals = <<>> => n = 0)
  <2>1. n \in 0..n /\ n \in N BY <1>1, <1>6
  <2> QED BY <2>1
<1> QED BY <1>1, <1>3, <1>7

\* A finite set, as a sequence.
LEMMA SetToSeqHolds ==
  ASSUME NEW S, IsFiniteSet(S)
  PROVE  Seqs!SetToSeq(S) \in Seq(S)
<1> DEFINE c == Cardinality(S)
<1>1. c \in Nat /\ ExistsBijection(1..c, S) BY FS_CardinalityType
<1>2. PICK b \in Bijection(1..c, S) : TRUE BY <1>1 DEF ExistsBijection
<1>3. b \in [1..c -> S] /\ \A i, j \in 1..c : b[i] = b[j] => i = j
  BY <1>2, Zenon DEF Bijection, Injection, IsInjective
<1>4. Seqs!IsInjective(b) BY <1>3 DEF Seqs!IsInjective
<1>5. Seqs!Cardinality(S) = c BY DEF Seqs!Cardinality, Cardinality
<1>6. Seqs!SetToSeq(S) \in [1..c -> S]
  <2> HIDE DEF c
  <2> QED BY <1>3, <1>4, <1>5 DEF Seqs!SetToSeq
<1> QED BY <1>1, <1>6

Severities == {"notable", "critical"}

Citations == Seq(Labels)

Directions == {"up", "down", "cross_up", "cross_down", "golden", "death", "new"}

\* What an evaluator says: signals with these keys.
Signals(keys) ==
  [key : keys, severity : Severities, direction : Directions, cites : Citations]

\* A signal is one of the signals of its key.
LEMMA SignalType ==
  ASSUME NEW keys, NEW k \in keys, NEW s \in Severities, NEW d \in Directions, NEW c \in Citations
  PROVE  Signal(k, s, d, c) \in Signals(keys)
BY DEF Signal, Signals

\* A change has a severity and a direction.
LEMMA SeverityType ==
  ASSUME NEW d, NEW pct
  PROVE  SeverityOf(d, pct) \in Severities /\ Direction(d) \in Directions
<1>1. SeverityOf(d, pct) \in Severities BY DEF SeverityOf, Severities
<1>2. Direction(d) \in Directions BY DEF Direction, Directions
<1> QED BY <1>1, <1>2

\* A price move speaks for its spec alone.
LEMMA PriceMoveSays ==
  ASSUME NEW spec \in TriggerSpecs, NEW base, NEW snap
  PROVE  PriceMove(spec, base, snap) \in Seq(Signals({<<"price_move", spec.label>>}))
<1> DEFINE d == Delta(base, snap, spec.label)
           sig == Signal(<<"price_move", d.label>>, SeverityOf(d, spec.pct), Direction(d), <<d.label>>)
<1>1. PriceMove(spec, base, snap) \in {<<>>, <<sig>>} BY DEF PriceMove
<1>2. d.label = spec.label BY DEF Delta
<1>3. spec.label \in Labels BY DEF TriggerSpecs
<1>4. SeverityOf(d, spec.pct) \in Severities /\ Direction(d) \in Directions BY SeverityType
<1>10. <<"price_move", d.label>> \in {<<"price_move", spec.label>>} BY <1>2
<1>8. <<d.label>> \in Citations BY <1>2, <1>3, SingleHolds DEF Citations
<1> HIDE DEF d
<1>5. sig \in Signals({<<"price_move", spec.label>>}) BY <1>4, <1>8, <1>10, SignalType
<1> DEFINE V == Signals({<<"price_move", spec.label>>})
<1> HIDE DEF sig, V
<1>6. sig \in V BY <1>5 DEF V
<1>9. <<sig>> \in Seq(V) /\ <<>> \in Seq(V) BY <1>6, SingleHolds
<1>7. PriceMove(spec, base, snap) \in Seq(V) BY <1>1, <1>9
<1> QED BY <1>7 DEF V

\* A part of a crew's answer is empty or the one signal.
LEMMA IfSays ==
  ASSUME NEW V, NEW condition, NEW sig, condition => sig \in V
  PROVE  If(condition, sig) \in Seq(V) /\ (~condition => If(condition, sig) = <<>>)
BY DEF If

\* A metric change speaks for the metrics it watches.
LEMMA MetricChangeSays ==
  ASSUME NEW spec \in TriggerSpecs, NEW base, NEW snap \in Snapshots
  PROVE  MetricChange(spec, base, snap) \in Seq(Signals({<<"metric_change", l>> : l \in Labels}))
<1> DEFINE labels == IF spec.labels = <<>> THEN Seqs!SetToSeq(DOMAIN snap.metrics) ELSE spec.labels
           big(d)  == \/ MovedBy(d, spec.pct)
                      \/ spec.abs # {} /\ Magnitude(Change(d)) >= The(spec.abs)
           fires(l) == Has(snap, l) /\ Old(base, l) # {} /\ big(Delta(base, snap, l))
           sig(l)  == LET d == Delta(base, snap, l)
                      IN  Signal(<<"metric_change", l>>, SeverityOf(d, spec.pct), Direction(d), <<l>>)
           parts == [i \in DOMAIN labels |-> If(fires(labels[i]), sig(labels[i]))]
           V == Signals({<<"metric_change", l>> : l \in Labels})
<1>1. MetricChange(spec, base, snap) = Seqs!FlattenSeq(parts) BY DEF MetricChange
<1>2. labels \in Seq(Labels)
  <2>1. IsFiniteSet(DOMAIN snap.metrics) /\ DOMAIN snap.metrics \subseteq Labels BY SnapshotAssumption
  <2>2. spec.labels \in Seq(Labels) BY DEF TriggerSpecs
  <2>3. Seqs!SetToSeq(DOMAIN snap.metrics) \in Seq(DOMAIN snap.metrics) BY <2>1, SetToSeqHolds
  <2> QED BY <2>1, <2>2, <2>3
<1>3. ASSUME NEW l \in Labels PROVE sig(l) \in V
  <2> DEFINE d == Delta(base, snap, l)
  <2>1. SeverityOf(d, spec.pct) \in Severities /\ Direction(d) \in Directions BY SeverityType
  <2> HIDE DEF d
  <2>3. <<"metric_change", l>> \in {<<"metric_change", k>> : k \in Labels} OBVIOUS
  <2>4. <<l>> \in Citations BY SingleHolds DEF Citations
  <2>2. Signal(<<"metric_change", l>>, SeverityOf(d, spec.pct), Direction(d), <<l>>) \in V BY <2>1, <2>3, <2>4, SignalType
  <2> QED BY <2>2 DEF d
<1>4. \A l : fires(l) \in BOOLEAN BY DEF Has
<1> HIDE DEF labels, fires, sig, V
<1>5. parts \in Seq(Seq(V))
  <2>1. ASSUME NEW i \in DOMAIN labels PROVE If(fires(labels[i]), sig(labels[i])) \in Seq(V)
    <3>1. labels[i] \in Labels BY <1>2
    <3>2. sig(labels[i]) \in V /\ fires(labels[i]) \in BOOLEAN BY <3>1, <1>3, <1>4
    <3> QED BY <3>2, IfSays
  <2>2. DOMAIN labels = 1..Len(labels) /\ Len(labels) \in Nat BY <1>2
  <2> QED BY <2>1, <2>2
<1> HIDE DEF parts
<1>6. MetricChange(spec, base, snap) \in Seq(V) BY <1>1, <1>5, FlattenHolds
<1> QED BY <1>6 DEF V

\* A level speaks for its upper and its lower line.
LEMMA LevelCrossSays ==
  ASSUME NEW spec \in TriggerSpecs, NEW base, NEW snap
  PROVE  LevelCross(spec, base, snap)
           \in Seq(Signals({<<"threshold", spec.label, side>> : side \in {"above", "below"}}))
<1> DEFINE d == Delta(base, snap, spec.label)
           above == spec.above # {} /\ d.new >= The(spec.above)
                    /\ (d.old = {} \/ The(d.old) < The(spec.above))
           below == spec.below # {} /\ d.new <= The(spec.below)
                    /\ (d.old = {} \/ The(d.old) > The(spec.below))
           up == Signal(<<"threshold", d.label, "above">>, "notable", "cross_up", <<d.label>>)
           down == Signal(<<"threshold", d.label, "below">>, "notable", "cross_down", <<d.label>>)
           V == Signals({<<"threshold", spec.label, side>> : side \in {"above", "below"}})
<1>1. LevelCross(spec, base, snap) \in {<<>>, If(above, up) \o If(below, down)} BY DEF LevelCross
<1>2. d.label = spec.label BY DEF Delta
<1>3. spec.label \in Labels BY DEF TriggerSpecs
<1>4. above \in BOOLEAN /\ below \in BOOLEAN OBVIOUS
<1>5. <<d.label>> \in Citations BY <1>2, <1>3, SingleHolds DEF Citations
<1> HIDE DEF d, above, below
<1>6. up \in V
  <2>1. <<"threshold", d.label, "above">> \in {<<"threshold", spec.label, side>> : side \in {"above", "below"}}
    BY <1>2
  <2>2. "notable" \in Severities /\ "cross_up" \in Directions BY DEF Severities, Directions
  <2> QED BY <2>1, <2>2, <1>5, SignalType
<1>7. down \in V
  <2>1. <<"threshold", d.label, "below">> \in {<<"threshold", spec.label, side>> : side \in {"above", "below"}}
    BY <1>2
  <2>2. "notable" \in Severities /\ "cross_down" \in Directions BY DEF Severities, Directions
  <2> QED BY <2>1, <2>2, <1>5, SignalType
<1> HIDE DEF up, down, V
<1>8. If(above, up) \in Seq(V) /\ If(below, down) \in Seq(V) BY <1>4, <1>6, <1>7, IfSays
<1>9. If(above, up) \o If(below, down) \in Seq(V) BY <1>8, ConcatenationHolds
<1>10. LevelCross(spec, base, snap) \in Seq(V)
  <2>1. <<>> \in Seq(V) OBVIOUS
  <2> QED BY <1>1, <1>9, <2>1
<1> QED BY <1>10 DEF V

\* The crossing of the averages of a trigger.
Crossed(spec, base, snap) == Crossing(Delta(base, snap, spec.fast), Delta(base, snap, spec.slow))

\* Two averages speak at most once, for the way they crossed, and only if they
\* did.
LEMMA MaCrossSays ==
  ASSUME NEW spec \in TriggerSpecs, NEW base, NEW snap
  PROVE  LET key == <<"ma_cross", spec.fast, spec.slow, Crossed(spec, base, snap)>>
             says == Averaged(spec, base, snap) /\ Crossed(spec, base, snap) # "none"
         IN  /\ MaCross(spec, base, snap) \in Seq(Signals({key}))
             /\ MaCross(spec, base, snap) # <<>> <=> says
             /\ says => \E v : MaCross(spec, base, snap) = <<v>> /\ v.key = key
<1> DEFINE c == Crossed(spec, base, snap)
           key == <<"ma_cross", spec.fast, spec.slow, c>>
           sig == Signal(key, "notable", c, <<spec.fast, spec.slow>>)
           V == Signals({key})
<1>1. MaCross(spec, base, snap) = IF ~Averaged(spec, base, snap) THEN <<>> ELSE If(c # "none", sig)
  BY DEF MaCross, Crossed
<1>2. c \in {"golden", "death", "none"} BY DEF Crossed, Crossing
<1>3. spec.fast \in Labels /\ spec.slow \in Labels BY DEF TriggerSpecs
<1> HIDE DEF c
<1>4. <<spec.fast, spec.slow>> \in Citations BY <1>3, PairHolds DEF Citations
<1>5. c # "none" => sig \in V
  <2>1. SUFFICES ASSUME c # "none" PROVE sig \in V OBVIOUS
  <2>2. "notable" \in Severities /\ c \in Directions /\ key \in {key} BY <2>1, <1>2 DEF Severities, Directions
  <2> HIDE DEF key
  <2> QED BY <2>2, <1>4, SignalType
<1>6. sig.key = key BY DEF Signal
<1> HIDE DEF sig, key, V
<1>7. If(c # "none", sig) \in Seq(V) BY <1>5, IfSays
<1>8. MaCross(spec, base, snap) \in Seq(V) BY <1>1, <1>7
<1>9. If(c # "none", sig) = IF c # "none" THEN <<sig>> ELSE <<>> BY DEF If
<1>10. <<sig>> # <<>> OBVIOUS
<1> QED BY <1>1, <1>6, <1>8, <1>9, <1>10 DEF c, key, V

\* The keys a new filing may be signalled under.
FilingKeys(base, snap) ==
  {<<"new_filing", k>> :
     k \in {<<"accession", snap.accessions[Seqs!Min(NewAccessions(base, snap))]>>, <<"as_of", snap.as_of>>}}

\* New filings speak for the newest of them.
LEMMA NewFilingSays ==
  ASSUME NEW base, NEW snap
  PROVE  NewFiling(base, snap) \in Seq(Signals(FilingKeys(base, snap)))
<1> DEFINE fresh == NewAccessions(base, snap)
           key == IF fresh # {} THEN <<"accession", snap.accessions[Seqs!Min(fresh)]>> ELSE <<"as_of", snap.as_of>>
           says == fresh # {} \/ Advanced(base, snap)
           sig == Signal(<<"new_filing", key>>, "notable", "new", <<>>)
           V == Signals(FilingKeys(base, snap))
<1>1. NewFiling(base, snap) = If(says, sig) BY DEF NewFiling
<1>2. <<"new_filing", key>> \in FilingKeys(base, snap) BY DEF FilingKeys
<1>3. says \in BOOLEAN BY DEF Advanced
<1>4. "notable" \in Severities /\ "new" \in Directions /\ <<>> \in Citations
  BY DEF Severities, Directions, Citations
<1> HIDE DEF key, says
<1>5. sig \in V BY <1>2, <1>4, SignalType
<1> HIDE DEF sig, V
<1>6. NewFiling(base, snap) \in Seq(V) BY <1>1, <1>3, <1>5, IfSays
<1> QED BY <1>6 DEF V

\* Evaluators say signals under keys of their own kind.
KindKeys(spec, base, snap) ==
  CASE spec.kind = "price_move"    -> {<<"price_move", spec.label>>}
    [] spec.kind = "metric_change" -> {<<"metric_change", l>> : l \in Labels}
    [] spec.kind = "threshold"     -> {<<"threshold", spec.label, side>> : side \in {"above", "below"}}
    [] spec.kind = "ma_cross"      -> {<<"ma_cross", spec.fast, spec.slow, Crossed(spec, base, snap)>>}
    [] spec.kind = "new_filing"    -> FilingKeys(base, snap)
    [] OTHER                       -> {}

\* A spec speaks for the keys of its kind, and for no other.
LEMMA EvaluateSays ==
  ASSUME NEW spec \in TriggerSpecs, NEW base, NEW snap \in Snapshots
  PROVE  Evaluate(spec, base, snap) \in Seq(Signals(KindKeys(spec, base, snap)))
<1> DEFINE says == Evaluate(spec, base, snap)
           V == Signals(KindKeys(spec, base, snap))
<1>1. CASE spec.kind = "price_move" BY <1>1, PriceMoveSays DEF Evaluate, KindKeys
<1>2. CASE spec.kind = "metric_change" BY <1>2, MetricChangeSays DEF Evaluate, KindKeys
<1>3. CASE spec.kind = "threshold" BY <1>3, LevelCrossSays DEF Evaluate, KindKeys
<1>4. CASE spec.kind = "ma_cross" BY <1>4, MaCrossSays DEF Evaluate, KindKeys
<1>5. CASE spec.kind = "new_filing" BY <1>5, NewFilingSays DEF Evaluate, KindKeys
<1>6. CASE spec.kind \notin {"price_move", "metric_change", "threshold", "ma_cross", "new_filing"}
  <2>1. says = <<>> BY <1>6 DEF Evaluate
  <2>2. <<>> \in Seq(V) OBVIOUS
  <2> QED BY <2>1, <2>2
<1> QED BY <1>1, <1>2, <1>3, <1>4, <1>5, <1>6

\* What a crew may say.
Said(specs, base, snap) == UNION {Signals(KindKeys(specs[i], base, snap)) : i \in DOMAIN specs}

\* What all the specs say is what each of them says, together.
LEMMA EvaluateAllSays ==
  ASSUME NEW specs \in Seq(TriggerSpecs), NEW base, NEW snap \in Snapshots
  PROVE  /\ EvaluateAll(specs, base, snap) \in Seq(Said(specs, base, snap))
         /\ Elements(EvaluateAll(specs, base, snap))
              = UNION {Elements(Evaluate(specs[i], base, snap)) : i \in DOMAIN specs}
<1> DEFINE parts == [i \in DOMAIN specs |-> Evaluate(specs[i], base, snap)]
           V == Said(specs, base, snap)
<1>1. EvaluateAll(specs, base, snap) = Seqs!FlattenSeq(parts) BY DEF EvaluateAll
<1>2. ASSUME NEW i \in DOMAIN specs PROVE Evaluate(specs[i], base, snap) \in Seq(V)
  <2>1. specs[i] \in TriggerSpecs OBVIOUS
  <2> DEFINE U == Signals(KindKeys(specs[i], base, snap))
  <2>2. Evaluate(specs[i], base, snap) \in Seq(U) BY <2>1, EvaluateSays
  <2>3. U \subseteq V BY DEF Said
  <2> HIDE DEF U, V
  <2> QED BY <2>2, <2>3, SequencesGrow
<1> HIDE DEF V
<1>3. parts \in Seq(Seq(V))
  <2>1. DOMAIN specs = 1..Len(specs) /\ Len(specs) \in Nat OBVIOUS
  <2> QED BY <2>1, <1>2
<1>4. DOMAIN parts = DOMAIN specs /\ \A i \in DOMAIN specs : parts[i] = Evaluate(specs[i], base, snap) OBVIOUS
<1> HIDE DEF parts
<1>5. Seqs!FlattenSeq(parts) \in Seq(V)
      /\ Elements(Seqs!FlattenSeq(parts)) = UNION {Elements(parts[i]) : i \in DOMAIN parts}
  BY <1>3, FlattenHolds
<1> QED BY <1>1, <1>4, <1>5 DEF V

\* Does a crew watch the default averages cross?
Watches(specs) ==
  \E i \in DOMAIN specs :
    specs[i].kind = "ma_cross" /\ specs[i].fast = AvgSpec.fast /\ specs[i].slow = AvgSpec.slow

\* The crosses a crew raises are the cross there is, if it watches for it.
LEMMA CrossesRaised ==
  ASSUME NEW specs \in Seq(TriggerSpecs), NEW base, NEW snap \in Snapshots,
         Averaged(AvgSpec, base, snap)
  PROVE  CrossesIn(EvaluateAll(specs, base, snap))
           = IF Watches(specs) /\ Crossed(AvgSpec, base, snap) # "none"
               THEN {Crossed(AvgSpec, base, snap)} ELSE {}
<1> DEFINE signals == EvaluateAll(specs, base, snap)
           cross == Crossed(AvgSpec, base, snap)
           key(c) == <<"ma_cross", AvgSpec.fast, AvgSpec.slow, c>>
<1>1. Elements(signals) = UNION {Elements(Evaluate(specs[i], base, snap)) : i \in DOMAIN specs}
  BY EvaluateAllSays
<1>2. cross \in {"golden", "death", "none"} BY DEF Crossed, Crossing
<1>3. CrossesIn(signals) = {c \in {"golden", "death"} : \E v \in Elements(signals) : v.key = key(c)}
  BY DEF CrossesIn, Elements
<1>4. ASSUME NEW i \in DOMAIN specs, specs[i].fast = AvgSpec.fast, specs[i].slow = AvgSpec.slow
      PROVE  Crossed(specs[i], base, snap) = cross /\ Averaged(specs[i], base, snap)
  BY <1>4 DEF Crossed, Averaged
<1>5. ASSUME NEW c \in {"golden", "death"}, NEW v \in Elements(signals), v.key = key(c)
      PROVE  Watches(specs) /\ c = cross
  <2>1. PICK i \in DOMAIN specs : v \in Elements(Evaluate(specs[i], base, snap)) BY <1>1
  <2> DEFINE spec == specs[i]
             U == Signals(KindKeys(spec, base, snap))
  <2>2. spec \in TriggerSpecs OBVIOUS
  <2>3. Evaluate(spec, base, snap) \in Seq(U) BY <2>2, EvaluateSays
  <2>4. v \in U
    <3> HIDE DEF U, spec
    <3> QED BY <2>1, <2>3 DEF Elements, spec
  <2>5. v.key \in KindKeys(spec, base, snap) BY <2>4 DEF Signals
  <2>6. key(c)[1] = "ma_cross" OBVIOUS
  <2>7. spec.kind = "ma_cross" /\ key(c) = <<"ma_cross", spec.fast, spec.slow, Crossed(spec, base, snap)>>
    BY <1>5, <2>5 DEF KindKeys, FilingKeys
  <2>8. spec.fast = AvgSpec.fast /\ spec.slow = AvgSpec.slow /\ c = Crossed(spec, base, snap) BY <2>7
  <2>9. Watches(specs) BY <2>7, <2>8 DEF Watches
  <2> QED BY <2>8, <2>9, <1>4
<1>6. ASSUME Watches(specs), cross # "none" PROVE \E v \in Elements(signals) : v.key = key(cross)
  <2>1. PICK i \in DOMAIN specs :
          specs[i].kind = "ma_cross" /\ specs[i].fast = AvgSpec.fast /\ specs[i].slow = AvgSpec.slow
    BY <1>6 DEF Watches
  <2>2. specs[i] \in TriggerSpecs OBVIOUS
  <2>3. Crossed(specs[i], base, snap) = cross /\ Averaged(specs[i], base, snap) BY <1>4, <2>1
  <2>4. Evaluate(specs[i], base, snap) = MaCross(specs[i], base, snap) BY <2>1 DEF Evaluate
  <2>5. PICK v : MaCross(specs[i], base, snap) = <<v>>
                 /\ v.key = <<"ma_cross", specs[i].fast, specs[i].slow, Crossed(specs[i], base, snap)>>
    BY <2>2, <2>3, <1>6, MaCrossSays
  <2>6. v \in Elements(<<v>>) BY DEF Elements
  <2>7. v \in Elements(signals) BY <2>4, <2>5, <2>6, <1>1
  <2> QED BY <2>1, <2>3, <2>5, <2>7
<1> HIDE DEF signals, cross, key
<1>7. CASE Watches(specs) /\ cross # "none"
  <2>1. cross \in {"golden", "death"} BY <1>2, <1>7
  <2>2. CrossesIn(signals) = {cross} BY <1>3, <1>5, <1>6, <1>7, <2>1
  <2> QED BY <2>2, <1>7 DEF signals, cross
<1>8. CASE ~(Watches(specs) /\ cross # "none")
  <2>1. CrossesIn(signals) = {}
    <3>1. SUFFICES ASSUME NEW c \in CrossesIn(signals) PROVE FALSE OBVIOUS
    <3>2. c \in {"golden", "death"} /\ \E v \in Elements(signals) : v.key = key(c) BY <1>3
    <3>3. Watches(specs) /\ c = cross BY <1>5, <3>2
    <3> QED BY <1>8, <3>2, <3>3
  <2> QED BY <2>1, <1>8 DEF signals, cross
<1> QED BY <1>7, <1>8

---------------------------------------------------------------------------
(* Where a crew comes from *)

\* Triggers whose percentage, where the kind has one, is at least least.
SpecsFrom(least) ==
  {s \in TriggerSpecs : s.kind \in {"price_move", "metric_change"} => s.pct >= least}

\* A record of the columns of a spec is a spec.
LEMMA SpecType ==
  ASSUME NEW k \in Kinds \cup {"unknown"}, NEW l \in Labels, NEW ls \in Seq(Labels), NEW p \in Int,
         NEW a \in SUBSET Int, NEW u \in SUBSET Int, NEW d \in SUBSET Int, NEW f \in Labels, NEW s \in Labels
  PROVE  [kind |-> k, label |-> l, labels |-> ls, pct |-> p, abs |-> a, above |-> u, below |-> d,
          fast |-> f, slow |-> s] \in TriggerSpecs
BY DEF TriggerSpecs

\* The blank spec is a spec.
LEMMA BlankType == Blank \in TriggerSpecs
<1>1. <<>> \in Seq(Labels) /\ {} \in SUBSET Int /\ 0 \in Int OBVIOUS
<1>2. "" \in Labels /\ "50-day moving average" \in Labels /\ "200-day moving average" \in Labels
  BY LabelAssumption DEF OwnLabels
<1>3. "unknown" \in Kinds \cup {"unknown"} OBVIOUS
<1> QED BY <1>1, <1>2, <1>3, SpecType, Zenon DEF Blank

\* A price spec is a spec of the percentage asked for.
LEMMA PriceSpecType ==
  ASSUME NEW l \in Labels, NEW p \in Int
  PROVE  PriceSpec(l, p) \in TriggerSpecs /\ PriceSpec(l, p).pct = p
<1>1. Blank \in TriggerSpecs BY BlankType
<1> QED BY <1>1 DEF PriceSpec, TriggerSpecs, Kinds

\* A metric spec is a spec of the percentage asked for.
LEMMA MetricSpecType ==
  ASSUME NEW l \in Seq(Labels), NEW p \in Int
  PROVE  MetricSpec(l, p) \in TriggerSpecs /\ MetricSpec(l, p).pct = p
<1>1. Blank \in TriggerSpecs BY BlankType
<1> QED BY <1>1 DEF MetricSpec, TriggerSpecs, Kinds

\* A level is a spec, whichever of its lines it has.
LEMMA LevelSpecType ==
  ASSUME NEW l \in Labels, NEW a \in SUBSET Int, NEW b \in SUBSET Int
  PROVE  LevelSpec(l, a, b) \in TriggerSpecs /\ LevelSpec(l, a, b).kind = "threshold"
<1>1. Blank \in TriggerSpecs BY BlankType
<1> QED BY <1>1 DEF LevelSpec, TriggerSpecs, Kinds

\* A level with both lines is a spec.
LEMMA LevelsType ==
  ASSUME NEW l \in Labels, NEW x \in Int, NEW y \in Int
  PROVE  LevelSpec(l, {x}, {y}) \in TriggerSpecs /\ LevelSpec(l, {x}, {y}).kind = "threshold"
<1> DEFINE a == {x}
           b == {y}
<1>1. a \in SUBSET Int /\ b \in SUBSET Int OBVIOUS
<1> HIDE DEF a, b
<1>2. LevelSpec(l, a, b) \in TriggerSpecs /\ LevelSpec(l, a, b).kind = "threshold" BY <1>1, LevelSpecType
<1> QED BY <1>2 DEF a, b

\* The specs without a percentage are specs of at least one per cent.
LEMMA PlainSpecsType ==
  /\ RsiSpec \in SpecsFrom(1) /\ AvgSpec \in SpecsFrom(1) /\ FilingSpec \in SpecsFrom(1)
<1>1. Blank \in TriggerSpecs BY BlankType
<1>2. AvgSpec \in TriggerSpecs /\ AvgSpec.kind = "ma_cross" BY <1>1 DEF AvgSpec, TriggerSpecs, Kinds
<1>3. FilingSpec \in TriggerSpecs /\ FilingSpec.kind = "new_filing" BY <1>1 DEF FilingSpec, TriggerSpecs, Kinds
<1>4. RsiSpec \in TriggerSpecs /\ RsiSpec.kind = "threshold" 
  <2> DEFINE l == "RSI (14-day)"
             x == 70000
             y == 30000
  <2>1. l \in Labels BY LabelAssumption DEF OwnLabels
  <2>2. x \in Int /\ y \in Int OBVIOUS
  <2>3. RsiSpec = LevelSpec(l, {x}, {y}) BY DEF RsiSpec
  <2> HIDE DEF l, x, y
  <2> QED BY <2>1, <2>2, <2>3, LevelsType
<1> QED BY <1>2, <1>3, <1>4 DEF SpecsFrom

\* The default crew is tuned.
LEMMA DefaultsAreTuned ==
  ASSUME NEW product
  PROVE  DefaultTriggers(product) \in Seq(SpecsFrom(1)) /\ DefaultTriggers(product) # <<>>
<1> DEFINE V == SpecsFrom(1)
           price == PriceSpec(PriceLabel(product), 50)
           flows == MetricSpec(<<"Liquidity / TVL (USD)", "Cumulative volume (USD)">>, 100)
           earnings == MetricSpec(<<"Diluted EPS", "Net income">>, 100)
<1>1. price \in V
  <2>1. PriceLabel(product) \in Labels BY LabelAssumption DEF PriceLabel, OwnLabels
  <2> QED BY <2>1, PriceSpecType DEF SpecsFrom
<1>2. flows \in V
  <2> DEFINE two == <<"Liquidity / TVL (USD)", "Cumulative volume (USD)">>
  <2>1. two \in Seq(Labels) BY PairHolds, LabelAssumption DEF OwnLabels
  <2> HIDE DEF two
  <2>2. MetricSpec(two, 100) \in TriggerSpecs /\ MetricSpec(two, 100).pct = 100 BY <2>1, MetricSpecType
  <2>3. MetricSpec(two, 100) \in SpecsFrom(1) BY <2>2 DEF SpecsFrom
  <2> QED BY <2>3, Zenon DEF two
<1>3. earnings \in V
  <2> DEFINE two == <<"Diluted EPS", "Net income">>
  <2>1. two \in Seq(Labels) BY PairHolds, LabelAssumption DEF OwnLabels
  <2> HIDE DEF two
  <2>2. MetricSpec(two, 100) \in TriggerSpecs /\ MetricSpec(two, 100).pct = 100 BY <2>1, MetricSpecType
  <2>3. MetricSpec(two, 100) \in SpecsFrom(1) BY <2>2 DEF SpecsFrom
  <2> QED BY <2>3, Zenon DEF two
<1>4. RsiSpec \in V /\ AvgSpec \in V /\ FilingSpec \in V BY PlainSpecsType
<1>5. DefaultTriggers(product) \in {<<price, flows>>, <<price, RsiSpec, AvgSpec, earnings, FilingSpec>>}
  BY DEF DefaultTriggers
<1> HIDE DEF V, price, flows, earnings
<1>6. <<price, flows>> \in Seq(V) /\ <<price, RsiSpec, AvgSpec, earnings, FilingSpec>> \in Seq(V)
  BY <1>1, <1>2, <1>3, <1>4, PairHolds, FiveHold
<1>7. <<price, flows>> # <<>> /\ <<price, RsiSpec, AvgSpec, earnings, FilingSpec>> # <<>> OBVIOUS
<1>8. DefaultTriggers(product) \in Seq(V) /\ DefaultTriggers(product) # <<>> BY <1>5, <1>6, <1>7
<1> QED BY <1>8 DEF V

\* What --watch gives is a crew, of whatever percentages.
LEMMA WatchedIsCrew ==
  ASSUME NEW watch \in Seq(WatchSpecs), NEW product
  PROVE  WatchTriggers(watch, product) \in Seq(TriggerSpecs)
<1> DEFINE V == TriggerSpecs
           parts == [i \in DOMAIN watch |-> ParsedWatch(watch[i], product)]
<1>1. ASSUME NEW w \in WatchSpecs PROVE ParsedWatch(w, product) \in Seq(V)
  <2> DEFINE or(option, default) == IF option = {} THEN default ELSE The(option)
  <2>1. ASSUME NEW o \in SUBSET Int, NEW n \in Int PROVE or(o, n) \in Int BY DEF The
  <2>2. w.num \in SUBSET Int /\ w.other \in SUBSET Int /\ w.label \in Labels BY DEF WatchSpecs
  <2>3. or(w.num, 50) \in Int /\ or(w.num, 70000) \in Int /\ or(w.other, 30000) \in Int /\ or(w.num, 100) \in Int
    BY <2>1, <2>2
  <2>4. <<w.label>> \in Seq(Labels) BY <2>2, SingleHolds
  <2>5. PriceLabel(product) \in Labels BY LabelAssumption DEF PriceLabel, OwnLabels
  <2> DEFINE price  == PriceSpec(PriceLabel(product), or(w.num, 50))
             rsi    == LevelSpec("RSI (14-day)", {or(w.num, 70000)}, {or(w.other, 30000)})
             metric == MetricSpec(<<w.label>>, or(w.num, 100))
             level  == LevelSpec(w.label, w.num, w.other)
  <2>6. ParsedWatch(w, product)
          \in {<<price>>, <<rsi>>, <<AvgSpec>>, <<FilingSpec>>, <<metric>>, <<level>>, <<>>}
    BY DEF ParsedWatch
  <2> HIDE DEF or
  <2>7. price \in V BY <2>3, <2>5, PriceSpecType
  <2>8. rsi \in V
    <3> DEFINE l == "RSI (14-day)"
               x == or(w.num, 70000)
               y == or(w.other, 30000)
    <3>1. l \in Labels BY LabelAssumption DEF OwnLabels
    <3>2. x \in Int /\ y \in Int BY <2>3
    <3>3. rsi = LevelSpec(l, {x}, {y}) OBVIOUS
    <3> HIDE DEF l, x, y, rsi
    <3> QED BY <3>1, <3>2, <3>3, LevelsType
  <2>9. metric \in V
    <3> DEFINE one == <<w.label>>
    <3>1. one \in Seq(Labels) BY <2>4
    <3> HIDE DEF one
    <3>2. MetricSpec(one, or(w.num, 100)) \in TriggerSpecs BY <3>1, <2>3, MetricSpecType
    <3> QED BY <3>2 DEF one
  <2>10. level \in V BY <2>2, LevelSpecType
  <2>11. AvgSpec \in V /\ FilingSpec \in V BY PlainSpecsType DEF SpecsFrom
  <2> HIDE DEF V, price, rsi, metric, level
  <2>12. /\ <<price>> \in Seq(V) /\ <<rsi>> \in Seq(V) /\ <<metric>> \in Seq(V) /\ <<level>> \in Seq(V)
         /\ <<AvgSpec>> \in Seq(V) /\ <<FilingSpec>> \in Seq(V) /\ <<>> \in Seq(V)
    BY <2>7, <2>8, <2>9, <2>10, <2>11, SingleHolds
  <2> QED BY <2>6, <2>12
<1> HIDE DEF V
<1>2. parts \in Seq(Seq(V))
  <2>1. DOMAIN watch = 1..Len(watch) /\ Len(watch) \in Nat OBVIOUS
  <2>2. \A i \in DOMAIN watch : watch[i] \in WatchSpecs OBVIOUS
  <2> QED BY <2>1, <2>2, <1>1
<1>3. Seqs!FlattenSeq(parts) \in Seq(V)
  <2> HIDE DEF parts
  <2> QED BY <1>2, FlattenHolds
<1>4. DefaultTriggers(product) \in Seq(V)
  <2>1. SpecsFrom(1) \subseteq V BY DEF SpecsFrom, V
  <2> QED BY <2>1, DefaultsAreTuned, SequencesGrow
<1>5. WatchTriggers(watch, product) \in Seq(V)
  <2>1. WatchTriggers(watch, product) \in {Seqs!FlattenSeq(parts), DefaultTriggers(product)}
    BY DEF WatchTriggers, OrDefault
  <2> HIDE DEF parts
  <2> QED BY <2>1, <1>3, <1>4
<1> QED BY <1>5 DEF V

\* What the keyword parser makes is a crew, tuned if the percentages of the
\* description are not zero.
LEMMA KeywordsAreTuned ==
  ASSUME NEW words, NEW pcts \in Seq(Nat), NEW metrics \in Seq(Labels), NEW product,
         NEW least \in {0, 1}, \A i \in DOMAIN pcts : pcts[i] >= least
  PROVE  KeywordTriggers(words, pcts, metrics, product) \in Seq(SpecsFrom(least))
<1> DEFINE V == SpecsFrom(least)
           first == IF pcts = <<>> THEN 50 ELSE Head(pcts)
           last == IF pcts = <<>> THEN 100 ELSE pcts[Len(pcts)]
           price == If("price" \in words, PriceSpec(PriceLabel(product), first))
           rsi == If("rsi" \in words, RsiSpec)
           avg == If("ma" \in words, AvgSpec)
           filing == If("filing" \in words, FilingSpec)
           metric == If(metrics # <<>>, MetricSpec(metrics, last))
           parts == <<price, rsi, avg, filing, metric>>
<1>1. first \in Int /\ first >= least /\ last \in Int /\ last >= least
  <2>1. CASE pcts = <<>> BY <2>1
  <2>2. CASE pcts # <<>>
    <3>1. Head(pcts) = pcts[1] /\ 1 \in DOMAIN pcts /\ Len(pcts) \in DOMAIN pcts BY <2>2
    <3> QED BY <2>2, <3>1
  <2> QED BY <2>1, <2>2
<1>2. PriceLabel(product) \in Labels BY LabelAssumption DEF PriceLabel, OwnLabels
<1> HIDE DEF first, last
<1>3. PriceSpec(PriceLabel(product), first) \in V BY <1>1, <1>2, PriceSpecType DEF SpecsFrom
<1>4. MetricSpec(metrics, last) \in V BY <1>1, MetricSpecType DEF SpecsFrom
<1>5. SpecsFrom(1) \subseteq V BY DEF SpecsFrom, TriggerSpecs
<1>6. RsiSpec \in V /\ AvgSpec \in V /\ FilingSpec \in V BY <1>5, PlainSpecsType
<1> HIDE DEF V
<1>7. /\ price \in Seq(V) /\ rsi \in Seq(V) /\ avg \in Seq(V) /\ filing \in Seq(V) /\ metric \in Seq(V)
  <2>1. price \in Seq(V) BY <1>3, IfSays, Zenon
  <2>2. rsi \in Seq(V) /\ avg \in Seq(V) /\ filing \in Seq(V) BY <1>6, IfSays, Zenon
  <2>3. metric \in Seq(V)
    <3> DEFINE given == metrics # <<>>
    <3>1. given \in BOOLEAN OBVIOUS
    <3> HIDE DEF given
    <3>2. If(given, MetricSpec(metrics, last)) \in Seq(V) BY <3>1, <1>4, IfSays
    <3> QED BY <3>2 DEF given
  <2> QED BY <2>1, <2>2, <2>3
<1> HIDE DEF price, rsi, avg, filing, metric
<1>8. parts \in Seq(Seq(V)) BY <1>7, FiveHold
<1>9. KeywordTriggers(words, pcts, metrics, product)
        \in {Seqs!FlattenSeq(parts), DefaultTriggers(product)}
  BY DEF KeywordTriggers, OrDefault, price, rsi, avg, filing, metric, first, last
<1> HIDE DEF parts
<1>10. Seqs!FlattenSeq(parts) \in Seq(V) BY <1>8, FlattenHolds
<1>11. DefaultTriggers(product) \in Seq(V) BY <1>5, DefaultsAreTuned, SequencesGrow
<1>12. KeywordTriggers(words, pcts, metrics, product) \in Seq(V) BY <1>9, <1>10, <1>11
<1> QED BY <1>12 DEF V

\* What is left of a proposal is tuned, whatever the model proposed.
LEMMA DisposedIsTuned ==
  ASSUME NEW raw \in Seq(TriggerSpecs)
  PROVE  Disposed(raw) \in Seq(SpecsFrom(1))
<1> DEFINE V == SpecsFrom(1)
           valid(s) == /\ s.kind \in Kinds
                       /\ s.kind = "threshold" => s.label # "" /\ (s.above # {} \/ s.below # {})
           clamped(s) == IF s.kind \in {"price_move", "metric_change"} THEN [s EXCEPT !.pct = Clamp(@)] ELSE s
           parts == [i \in DOMAIN raw |-> If(valid(raw[i]), clamped(raw[i]))]
<1>1. Disposed(raw) = Seqs!FlattenSeq(parts) BY DEF Disposed
<1>2. ASSUME NEW s \in TriggerSpecs PROVE clamped(s) \in V
  <2>1. s.pct \in Int BY DEF TriggerSpecs
  <2>2. Clamp(s.pct) \in Int /\ Clamp(s.pct) >= 1 BY <2>1 DEF Clamp
  <2>3. CASE s.kind \in {"price_move", "metric_change"}
    <3>1. clamped(s) = [s EXCEPT !.pct = Clamp(s.pct)] BY <2>3
    <3>2. [s EXCEPT !.pct = Clamp(s.pct)] \in TriggerSpecs BY <2>2 DEF TriggerSpecs
    <3>3. [s EXCEPT !.pct = Clamp(s.pct)].pct >= 1 BY <2>2 DEF TriggerSpecs
    <3> QED BY <3>1, <3>2, <3>3 DEF SpecsFrom
  <2>4. CASE s.kind \notin {"price_move", "metric_change"} BY <2>4 DEF SpecsFrom
  <2> QED BY <2>3, <2>4
<1>3. \A s : valid(s) \in BOOLEAN OBVIOUS
<1> HIDE DEF V, valid, clamped
<1>4. parts \in Seq(Seq(V))
  <2>1. ASSUME NEW i \in DOMAIN raw PROVE If(valid(raw[i]), clamped(raw[i])) \in Seq(V)
    <3>1. raw[i] \in TriggerSpecs OBVIOUS
    <3>2. clamped(raw[i]) \in V /\ valid(raw[i]) \in BOOLEAN BY <3>1, <1>2, <1>3
    <3> QED BY <3>2, IfSays
  <2>2. DOMAIN raw = 1..Len(raw) /\ Len(raw) \in Nat OBVIOUS
  <2> QED BY <2>1, <2>2
<1> HIDE DEF parts
<1>5. Disposed(raw) \in Seq(V) BY <1>1, <1>4, FlattenHolds
<1> QED BY <1>5 DEF V

\* Every crew the code makes is a sequence of triggers, and tuned unless it was
\* given by hand or its description names a zero.
LEMMA NewCrewIsTuned ==
  ASSUME NEW req \in Requests, NEW triggers \in NewTriggers(req)
  PROVE  /\ triggers \in Seq(TriggerSpecs)
         /\ req.watch = <<>> /\ (\A i \in DOMAIN req.pcts : req.pcts[i] # 0) => triggers \in Seq(SpecsFrom(1))
<1>1. /\ req.watch \in Seq(WatchSpecs) /\ req.pcts \in Seq(Nat) /\ req.metrics \in Seq(Labels)
      /\ req.proposal \in Seq(TriggerSpecs)
  BY RequestAssumption
<1>2. \A least : SpecsFrom(least) \subseteq TriggerSpecs BY DEF SpecsFrom
<1> DEFINE keyword == KeywordTriggers(req.words, req.pcts, req.metrics, req.product)
           unnamed == \A i \in DOMAIN req.pcts : req.pcts[i] # 0
<1>3. keyword \in Seq(TriggerSpecs) /\ (unnamed => keyword \in Seq(SpecsFrom(1)))
  <2>1. \A i \in DOMAIN req.pcts : req.pcts[i] \in Nat BY <1>1
  <2>2. keyword \in Seq(SpecsFrom(0))
    <3>1. \A i \in DOMAIN req.pcts : req.pcts[i] >= 0 BY <2>1
    <3> HIDE DEF keyword
    <3> QED BY <1>1, <3>1, KeywordsAreTuned DEF keyword
  <2>3. ASSUME unnamed PROVE keyword \in Seq(SpecsFrom(1))
    <3>1. \A i \in DOMAIN req.pcts : req.pcts[i] >= 1 BY <2>1, <2>3
    <3> QED BY <1>1, <3>1, KeywordsAreTuned
  <2> HIDE DEF keyword, unnamed
  <2> QED BY <2>2, <2>3, <1>2, SequencesGrow
<1>4. Disposed(req.proposal) \in Seq(SpecsFrom(1)) BY <1>1, DisposedIsTuned
<1>5. DefaultTriggers(req.product) \in Seq(SpecsFrom(1)) BY DefaultsAreTuned
<1>6. WatchTriggers(req.watch, req.product) \in Seq(TriggerSpecs) BY <1>1, WatchedIsCrew
<1>7. \/ req.watch # <<>> /\ triggers = WatchTriggers(req.watch, req.product)
      \/ triggers \in {keyword, Disposed(req.proposal), DefaultTriggers(req.product)}
  BY DEF NewTriggers, ProposedTriggers
<1> HIDE DEF keyword
<1>8. \A s \in Seq(SpecsFrom(1)) : s \in Seq(TriggerSpecs) BY <1>2, SequencesGrow
<1> QED BY <1>3, <1>4, <1>5, <1>6, <1>7, <1>8

---------------------------------------------------------------------------
(* A poll that finds nothing changed *)

\* The member of a singleton.
LEMMA TheOnly == ASSUME NEW m PROVE The({m}) = m
BY DEF The

\* A label that has not moved has not moved by any percentage above zero.
LEMMA UnmovedStays ==
  ASSUME NEW snap \in Snapshots, NEW l \in DOMAIN snap.metrics
  PROVE  LET d == Delta(snap, snap, l)
         IN  /\ d.new \in Int /\ d.old = {d.new} /\ The(d.old) = d.new
             /\ Magnitude(Change(d)) = 0
             /\ \A p \in Int : p >= 1 => ~MovedBy(d, p)
<1> DEFINE d == Delta(snap, snap, l)
           m == snap.metrics[l]
<1>1. m \in Int BY SnapshotAssumption
<1>2. d.new = m /\ d.old = {m} BY DEF Delta, Old
<1>3. The(d.old) = m BY <1>2, TheOnly
<1> HIDE DEF d
<1>4. Change(d) = 0 BY <1>1, <1>2, <1>3 DEF Change
<1>5. Magnitude(Change(d)) = 0 BY <1>4 DEF Magnitude
<1>6. ASSUME NEW p \in Int, p >= 1 PROVE ~MovedBy(d, p)
  <2>1. SUFFICES ASSUME m # 0, 1000 * 0 >= p * Magnitude(m) PROVE FALSE BY <1>3, <1>5 DEF MovedBy
  <2>2. Magnitude(m) \in Int /\ Magnitude(m) >= 1 BY <1>1, <2>1 DEF Magnitude
  <2>3. ASSUME NEW a \in Int, NEW b \in Int, a >= 1, b >= 1 PROVE a * b >= 1 BY <2>3
  <2>4. p * Magnitude(m) >= 1 /\ p * Magnitude(m) \in Int BY <1>6, <2>2, <2>3
  <2> QED BY <2>1, <2>4
<1>7. d.new \in Int /\ d.old = {d.new} /\ The(d.old) = d.new BY <1>1, <1>2, <1>3
<1> QED BY <1>5, <1>6, <1>7 DEF d

\* No trigger that is tuned fires on a snapshot equal to the baseline.
LEMMA TunedStaysQuiet ==
  ASSUME NEW spec \in SpecsFrom(1), \A floor \in spec.abs : floor > 0, NEW snap \in Snapshots
  PROVE  Evaluate(spec, snap, snap) = <<>>
<1>1. /\ spec.pct \in Int /\ spec.abs \in SUBSET Int /\ spec.above \in SUBSET Int /\ spec.below \in SUBSET Int
      /\ spec.labels \in Seq(Labels)
      /\ spec.kind \in {"price_move", "metric_change"} => spec.pct >= 1
  BY DEF SpecsFrom, TriggerSpecs
<1>2. ASSUME spec.kind = "price_move" PROVE PriceMove(spec, snap, snap) = <<>>
  <2>1. CASE Has(snap, spec.label) BY <1>1, <1>2, <2>1, UnmovedStays DEF PriceMove, Has
  <2>2. CASE ~Has(snap, spec.label) BY <2>2 DEF PriceMove
  <2> QED BY <2>1, <2>2
<1>3. ASSUME spec.kind = "metric_change" PROVE MetricChange(spec, snap, snap) = <<>>
  <2> DEFINE labels == IF spec.labels = <<>> THEN Seqs!SetToSeq(DOMAIN snap.metrics) ELSE spec.labels
             big(d)  == \/ MovedBy(d, spec.pct)
                        \/ spec.abs # {} /\ Magnitude(Change(d)) >= The(spec.abs)
             fires(l) == Has(snap, l) /\ Old(snap, l) # {} /\ big(Delta(snap, snap, l))
             sig(l)  == LET d == Delta(snap, snap, l)
                        IN  Signal(<<"metric_change", l>>, SeverityOf(d, spec.pct), Direction(d), <<l>>)
             parts == [i \in DOMAIN labels |-> If(fires(labels[i]), sig(labels[i]))]
  <2>1. MetricChange(spec, snap, snap) = Seqs!FlattenSeq(parts) BY DEF MetricChange
  <2>2. labels \in Seq(Labels)
    <3>1. IsFiniteSet(DOMAIN snap.metrics) /\ DOMAIN snap.metrics \subseteq Labels BY SnapshotAssumption
    <3>2. Seqs!SetToSeq(DOMAIN snap.metrics) \in Seq(DOMAIN snap.metrics) BY <3>1, SetToSeqHolds
    <3> QED BY <1>1, <3>1, <3>2
  <2>3. ASSUME NEW l PROVE ~fires(l)
    <3>1. SUFFICES ASSUME l \in DOMAIN snap.metrics, big(Delta(snap, snap, l)) PROVE FALSE BY DEF Has
    <3> DEFINE d == Delta(snap, snap, l)
    <3>2. Magnitude(Change(d)) = 0 /\ ~MovedBy(d, spec.pct) BY <1>1, <1>3, <3>1, UnmovedStays
    <3>3. spec.abs # {} => The(spec.abs) \in spec.abs BY DEF The
    <3> QED BY <1>1, <3>1, <3>2, <3>3
  <2> HIDE DEF labels, fires, sig
  <2>4. parts \in Seq(Seq({}))
    <3>1. \A i \in DOMAIN labels : parts[i] = <<>> BY <2>3 DEF If
    <3>2. DOMAIN labels = 1..Len(labels) /\ Len(labels) \in Nat BY <2>2
    <3> DEFINE U == Seq({})
    <3>3. <<>> \in U OBVIOUS
    <3>4. DOMAIN parts = 1..Len(labels) BY <3>2
    <3>5. parts = [i \in 1..Len(labels) |-> <<>>] BY <3>1, <3>2
    <3> HIDE DEF U, parts
    <3>6. parts \in Seq(U) BY <3>2, <3>3, <3>5
    <3> QED BY <3>6 DEF U
  <2> HIDE DEF parts
  <2>5. Seqs!FlattenSeq(parts) \in Seq({}) BY <2>4, FlattenHolds
  <2>6. \A s \in Seq({}) : s = <<>> OBVIOUS
  <2> QED BY <2>1, <2>5, <2>6
<1>4. LevelCross(spec, snap, snap) = <<>>
  <2>1. CASE Has(snap, spec.label)
    <3> DEFINE d == Delta(snap, snap, spec.label)
    <3>1. d.new \in Int /\ d.old = {d.new} /\ The(d.old) = d.new BY <2>1, UnmovedStays DEF Has
    <3>2. spec.above # {} => The(spec.above) \in Int BY <1>1 DEF The
    <3>3. spec.below # {} => The(spec.below) \in Int BY <1>1 DEF The
    <3> DEFINE above == spec.above # {} /\ d.new >= The(spec.above)
                        /\ (d.old = {} \/ The(d.old) < The(spec.above))
               below == spec.below # {} /\ d.new <= The(spec.below)
                        /\ (d.old = {} \/ The(d.old) > The(spec.below))
    <3>4. ~above /\ ~below BY <3>1, <3>2, <3>3
    <3>5. LevelCross(spec, snap, snap)
            = If(above, Signal(<<"threshold", d.label, "above">>, "notable", "cross_up", <<d.label>>))
              \o If(below, Signal(<<"threshold", d.label, "below">>, "notable", "cross_down", <<d.label>>))
      BY <2>1 DEF LevelCross
    <3> HIDE DEF above, below, d
    <3>6. LevelCross(spec, snap, snap) = <<>> \o <<>> BY <3>4, <3>5 DEF If
    <3> QED BY <3>6
  <2>2. CASE ~Has(snap, spec.label) BY <2>2 DEF LevelCross
  <2> QED BY <2>1, <2>2
<1>5. MaCross(spec, snap, snap) = <<>>
  <2>1. CASE Averaged(spec, snap, snap)
    <3>1. spec.fast \in DOMAIN snap.metrics /\ spec.slow \in DOMAIN snap.metrics BY <2>1 DEF Averaged, Has
    <3> DEFINE f == Delta(snap, snap, spec.fast)
               s == Delta(snap, snap, spec.slow)
    <3>2. f.new \in Int /\ The(f.old) = f.new BY <3>1, UnmovedStays
    <3>3. s.new \in Int /\ The(s.old) = s.new BY <3>1, UnmovedStays
    <3> HIDE DEF f, s
    <3>4. Crossing(f, s) = "none" BY <3>2, <3>3 DEF Crossing
    <3> QED BY <2>1, <3>4 DEF MaCross, If, f, s
  <2>2. CASE ~Averaged(spec, snap, snap) BY <2>2 DEF MaCross
  <2> QED BY <2>1, <2>2
<1>6. NewFiling(snap, snap) = <<>>
  <2>1. NewAccessions(snap, snap) = {} BY DEF NewAccessions
  <2>2. ~Advanced(snap, snap)
    <3>1. snap.as_of \in Nat BY SnapshotAssumption
    <3> QED BY <3>1 DEF Advanced
  <2> QED BY <2>1, <2>2 DEF NewFiling, If
<1>7. CASE spec.kind = "price_move" BY <1>2, <1>7 DEF Evaluate
<1>8. CASE spec.kind = "metric_change" BY <1>3, <1>8 DEF Evaluate
<1>9. CASE spec.kind = "threshold" BY <1>4, <1>9 DEF Evaluate
<1>10. CASE spec.kind = "ma_cross" BY <1>5, <1>10 DEF Evaluate
<1>11. CASE spec.kind = "new_filing" BY <1>6, <1>11 DEF Evaluate
<1>12. CASE spec.kind \notin Kinds BY <1>12 DEF Evaluate, Kinds
<1> QED BY <1>7, <1>8, <1>9, <1>10, <1>11, <1>12 DEF Kinds

\* Neither does a crew of such triggers.
LEMMA CrewStaysQuiet ==
  ASSUME NEW specs \in Seq(SpecsFrom(1)), NEW snap \in Snapshots,
         \A i \in DOMAIN specs : \A floor \in specs[i].abs : floor > 0
  PROVE  EvaluateAll(specs, snap, snap) = <<>>
<1> DEFINE signals == EvaluateAll(specs, snap, snap)
<1>1. specs \in Seq(TriggerSpecs)
  <2>1. SpecsFrom(1) \subseteq TriggerSpecs BY DEF SpecsFrom
  <2> QED BY <2>1, SequencesGrow
<1>2. \A i \in DOMAIN specs : Evaluate(specs[i], snap, snap) = <<>>
  <2>1. SUFFICES ASSUME NEW i \in DOMAIN specs PROVE Evaluate(specs[i], snap, snap) = <<>> OBVIOUS
  <2>2. specs[i] \in SpecsFrom(1) OBVIOUS
  <2> QED BY <2>2, TunedStaysQuiet
<1>3. signals \in Seq(Said(specs, snap, snap))
      /\ Elements(signals) = UNION {Elements(Evaluate(specs[i], snap, snap)) : i \in DOMAIN specs}
  BY <1>1, EvaluateAllSays
<1>4. Elements(<<>>) = {} BY DEF Elements
<1>5. Elements(signals) = {} BY <1>2, <1>3, <1>4
<1> HIDE DEF signals
<1>6. ASSUME signals # <<>> PROVE FALSE
  <2>1. 1 \in DOMAIN signals BY <1>3, <1>6
  <2>2. signals[1] \in Elements(signals) BY <2>1 DEF Elements
  <2> QED BY <1>5, <2>2
<1> QED BY <1>6 DEF signals

---------------------------------------------------------------------------
(* The inductive invariant *)

\* Not given by hand, and no zero named by its description.
Tuned(m) == ~m.watched /\ \A i \in DOMAIN m.pcts : m.pcts[i] # 0

\* A stored row: its crew is a sequence of triggers, tuned unless it was given
\* by hand, and its baseline is a snapshot, or none.
IsRow(m) ==
  /\ m = [watched |-> m.watched, pcts |-> m.pcts, triggers |-> m.triggers, floor |-> m.floor,
          baseline |-> m.baseline, stamps |-> m.stamps]
  /\ m.triggers \in Seq(TriggerSpecs)
  /\ Tuned(m) => m.triggers \in Seq(SpecsFrom(1))
  /\ m.floor \in DOMAIN Rank
  /\ m.baseline \in Snapshots \cup {Nothing}

\* The side on which a snapshot has the averages, as the cross that led there.
Side(snap) == IF snap.metrics[AvgSpec.fast] > snap.metrics[AvgSpec.slow] THEN {"golden"} ELSE {"death"}

\* The last cross raised led to the side on which the baseline has the averages,
\* and the crew that raised it is still there to see the next.
CrossesFollow ==
  /\ crosses \in Seq({{"golden"}, {"death"}}) /\ Len(crosses) <= 2
  /\ Len(crosses) = 2 => crosses[1] # crosses[2]
  /\ Stored /\ crosses # <<>> =>
       /\ Watches(monitor.triggers)
       /\ AvgSpec.fast \in DOMAIN monitor.baseline.metrics
       /\ AvgSpec.slow \in DOMAIN monitor.baseline.metrics
       /\ crosses[Len(crosses)] = Side(monitor.baseline)

\* The stamps of the row are the history of what was heard.
RowKept ==
  /\ IsStamps(heard)
  /\ Stored => IsRow(monitor) /\ monitor.stamps = heard

\* The inductive invariant of the crew.
CrewInv == RowKept /\ CrossesFollow /\ QuietPollIsQuiet /\ EverySignalIsHeard

\* Nothing raised, nothing to have heard; nothing compared, nothing to be quiet.
LEMMA SilentReport ==
  ASSUME report' = [NoReport EXCEPT !.status = "error"] \/ report' = [NoReport EXCEPT !.status = "baseline"]
           \/ report' = NoReport
  PROVE  QuietPollIsQuiet' /\ EverySignalIsHeard'
<1>1. report'.raised = <<>> /\ report'.same = FALSE BY DEF NoReport
<1>2. QuietPollIsQuiet' BY <1>1 DEF QuietPollIsQuiet
<1>3. EverySignalIsHeard' BY <1>1 DEF EverySignalIsHeard
<1> QED BY <1>2, <1>3

\* Nobody watches at first, and nothing was heard.
LEMMA CrewInitial == CrewInit => CrewInv
<1> SUFFICES ASSUME CrewInit PROVE CrewInv OBVIOUS
<1>1. /\ monitor = NoMonitor /\ report = NoReport /\ heard = <<>> /\ crosses = <<>> BY DEF CrewInit
<1>2. IsStamps(<<>>) BY DEF IsStamps
<1>3. report.raised = <<>> /\ report.same = FALSE BY <1>1 DEF NoReport
<1>4. <<>> \in Seq({{"golden"}, {"death"}}) /\ Len(<<>>) = 0 OBVIOUS
<1>5. CrossesFollow BY <1>1, <1>4 DEF CrossesFollow
<1>6. RowKept BY <1>1, <1>2 DEF RowKept, Stored
<1>7. QuietPollIsQuiet BY <1>3 DEF QuietPollIsQuiet
<1>8. EverySignalIsHeard BY <1>3 DEF EverySignalIsHeard
<1> QED BY <1>5, <1>6, <1>7, <1>8 DEF CrewInv

\* A created crew is tuned unless it was given by hand, and nothing has been
\* read, heard or crossed.
LEMMA AddKeeps ==
  ASSUME CrewInv, NEW req \in Requests, Add(req)
  PROVE  CrewInv'
<1>1. PICK triggers \in NewTriggers(req) :
        monitor' = [watched |-> req.watch # <<>>, pcts |-> req.pcts, triggers |-> triggers,
                    floor |-> req.floor, baseline |-> Nothing, stamps |-> <<>>]
  BY DEF Add
<1>2. report' = NoReport /\ heard' = <<>> /\ crosses' = <<>> BY DEF Add
<1>3. /\ triggers \in Seq(TriggerSpecs)
      /\ req.watch = <<>> /\ (\A i \in DOMAIN req.pcts : req.pcts[i] # 0) => triggers \in Seq(SpecsFrom(1))
  BY NewCrewIsTuned
<1>4. req.floor \in DOMAIN Rank BY RequestAssumption DEF Rank
<1>5. IsRow(monitor') BY <1>1, <1>3, <1>4 DEF IsRow, Tuned
<1>6. IsStamps(<<>>) BY DEF IsStamps
<1>7. RowKept' BY <1>1, <1>2, <1>5, <1>6 DEF RowKept
<1>8. <<>> \in Seq({{"golden"}, {"death"}}) /\ Len(<<>>) = 0 OBVIOUS
<1>9. CrossesFollow' BY <1>2, <1>8 DEF CrossesFollow
<1>10. QuietPollIsQuiet' /\ EverySignalIsHeard' BY <1>2, SilentReport
<1> QED BY <1>7, <1>9, <1>10 DEF CrewInv

\* The first reading is the baseline; nothing is evaluated and nothing cools
\* down.
LEMMA FirstReadingKeeps ==
  ASSUME CrewInv, NEW snap \in Snapshots, FirstReading(snap)
  PROVE  CrewInv'
<1>1. /\ Stored /\ monitor' = [monitor EXCEPT !.baseline = snap]
      /\ report' = [NoReport EXCEPT !.status = "baseline"] /\ crosses' = <<>> /\ heard' = heard
  BY DEF FirstReading
<1>2. IsRow(monitor) /\ monitor.stamps = heard /\ IsStamps(heard) BY <1>1 DEF CrewInv, RowKept
<1>3. IsRow(monitor') /\ monitor'.stamps = heard BY <1>1, <1>2 DEF IsRow, Tuned
<1>4. RowKept' BY <1>1, <1>2, <1>3 DEF RowKept
<1>5. <<>> \in Seq({{"golden"}, {"death"}}) /\ Len(<<>>) = 0 OBVIOUS
<1>6. CrossesFollow' BY <1>1, <1>5 DEF CrossesFollow
<1>7. QuietPollIsQuiet' /\ EverySignalIsHeard' BY <1>1, SilentReport
<1> QED BY <1>4, <1>6, <1>7 DEF CrewInv

\* A failed run leaves the baseline and the cooldowns alone.
LEMMA FailedRunKeeps ==
  ASSUME CrewInv, FailedRun
  PROVE  CrewInv'
<1>1. report' = [NoReport EXCEPT !.status = "error"] /\ UNCHANGED <<monitor, heard, crosses>> BY DEF FailedRun
<1>2. RowKept' /\ CrossesFollow' BY <1>1 DEF CrewInv, RowKept, CrossesFollow, Stored
<1>3. QuietPollIsQuiet' /\ EverySignalIsHeard' BY <1>1, SilentReport
<1> QED BY <1>2, <1>3 DEF CrewInv

\* An hour ages the stamps of the row and of the history alike.
LEMMA HourKeeps ==
  ASSUME CrewInv, HourPasses
  PROVE  CrewInv'
<1>1. /\ Stored /\ monitor' = [monitor EXCEPT !.stamps = Older(monitor.stamps)]
      /\ heard' = Older(heard) /\ report' = NoReport /\ crosses' = crosses
  BY DEF HourPasses
<1>2. IsRow(monitor) /\ monitor.stamps = heard BY <1>1 DEF CrewInv, RowKept
<1>3. IsRow(monitor') /\ monitor'.stamps = heard' BY <1>1, <1>2 DEF IsRow, Tuned
<1>4. IsStamps(heard') BY <1>1 DEF IsStamps, Older
<1>5. RowKept' BY <1>3, <1>4 DEF RowKept
<1>6. monitor'.triggers = monitor.triggers /\ monitor'.baseline = monitor.baseline BY <1>1, <1>2 DEF IsRow
<1>7. CrossesFollow' BY <1>1, <1>6 DEF CrewInv, CrossesFollow, Side
<1>8. QuietPollIsQuiet' /\ EverySignalIsHeard' BY <1>1, SilentReport
<1> QED BY <1>5, <1>7, <1>8 DEF CrewInv

\* The crosses that are kept are the last two: still alternating, when the one
\* appended differs from the last.
LEMMA LastTwoAlternate ==
  ASSUME NEW V, NEW s \in Seq(V), NEW x \in V
  PROVE  LET t == LastTwo(Append(s, x))
         IN  Len(s) <= 2 /\ (Len(s) = 2 => s[1] # s[2]) /\ (Len(s) # 0 => s[Len(s)] # x) =>
               /\ t \in Seq(V) /\ Len(t) <= 2
               /\ Len(t) = 2 => t[1] # t[2]
               /\ t[Len(t)] = x
<1> DEFINE n == Len(s)
           a == Append(s, x)
           t == LastTwo(a)
<1>1. n \in Nat /\ \A i \in 1..n : s[i] \in V OBVIOUS
<1>2. a \in Seq(V) /\ Len(a) = n + 1 /\ a[n + 1] = x /\ \A i \in 1..n : a[i] = s[i] OBVIOUS
<1>3. t = IF Len(a) <= 2 THEN a ELSE SubSeq(a, Len(a) - 1, Len(a)) BY DEF LastTwo
<1>4. SUFFICES ASSUME n <= 2, n = 2 => s[1] # s[2], n # 0 => s[n] # x
               PROVE  /\ t \in Seq(V) /\ Len(t) <= 2
                      /\ Len(t) = 2 => t[1] # t[2]
                      /\ t[Len(t)] = x
  OBVIOUS
<1> HIDE DEF n, a, t
<1>5. n = 0 \/ n = 1 \/ n = 2 BY <1>1, <1>4
<1>6. CASE n = 0
  <2>1. t = a /\ Len(a) = 1 /\ a[1] = x BY <1>2, <1>3, <1>6
  <2>2. t \in Seq(V) /\ Len(t) = 1 /\ t[1] = x BY <1>2, <2>1
  <2> QED BY <2>2
<1>7. CASE n = 1
  <2>1. t = a /\ Len(a) = 2 /\ a[2] = x /\ a[1] = s[1] BY <1>2, <1>3, <1>7
  <2>2. t \in Seq(V) /\ Len(t) = 2 /\ t[1] = s[1] /\ t[2] = x BY <1>2, <2>1
  <2>3. s[1] # x BY <1>4, <1>7
  <2> QED BY <2>2, <2>3
<1>8. CASE n = 2
  <2>1. t = SubSeq(a, 2, 3) /\ Len(a) = 3 BY <1>2, <1>3, <1>8
  <2>2. a[2] = s[2] /\ a[3] = x BY <1>2, <1>8
  <2>3. t \in Seq(V) /\ Len(t) = 2
    <3>1. s[2] \in V BY <1>1, <1>8
    <3>2. \A i \in 2..3 : i = 2 \/ i = 3 OBVIOUS
    <3>3. \A i \in 2..3 : a[i] \in V BY <2>2, <3>1, <3>2
    <3> QED BY <1>2, <2>1, <3>3
  <2>4. t[1] = a[2] /\ t[2] = a[3] BY <1>2, <2>1
  <2>5. s[2] # x BY <1>4, <1>8
  <2> QED BY <2>2, <2>3, <2>4, <2>5
<1> QED BY <1>5, <1>6, <1>7, <1>8

\* Where the averages did not cross they are on the side they were on; where
\* they did, they left it.
LEMMA CrossingChangesSide ==
  ASSUME NEW base \in Snapshots \cup {Nothing}, NEW snap \in Snapshots, Averaged(AvgSpec, base, snap)
  PROVE  LET c == Crossed(AvgSpec, base, snap)
         IN  /\ c = "none" => Side(snap) = Side(base)
             /\ c # "none" => c \in {"golden", "death"} /\ {c} = Side(snap) /\ Side(base) # {c}
<1> DEFINE F == AvgSpec.fast
           S == AvgSpec.slow
           f == Delta(base, snap, F)
           s == Delta(base, snap, S)
<1>1. F \in DOMAIN base.metrics /\ S \in DOMAIN base.metrics /\ F \in DOMAIN snap.metrics /\ S \in DOMAIN snap.metrics
  BY DEF Averaged, Old, Has
<1>2. base \in Snapshots
  <2>1. DOMAIN Nothing.metrics = {} BY DEF Nothing
  <2> QED BY <1>1, <2>1
<1>3. /\ base.metrics[F] \in Int /\ base.metrics[S] \in Int
      /\ snap.metrics[F] \in Int /\ snap.metrics[S] \in Int
  BY <1>1, <1>2, SnapshotAssumption
<1>4. f.new = snap.metrics[F] /\ The(f.old) = base.metrics[F]
  <2>1. f.new = snap.metrics[F] /\ f.old = {base.metrics[F]} BY <1>1 DEF Delta, Old
  <2> HIDE DEF f
  <2> QED BY <2>1, TheOnly
<1>5. s.new = snap.metrics[S] /\ The(s.old) = base.metrics[S]
  <2>1. s.new = snap.metrics[S] /\ s.old = {base.metrics[S]} BY <1>1 DEF Delta, Old
  <2> HIDE DEF s
  <2> QED BY <2>1, TheOnly
<1>6. Crossed(AvgSpec, base, snap) = Crossing(f, s) BY DEF Crossed
<1> HIDE DEF f, s
<1>7. Crossing(f, s)
        = IF base.metrics[F] <= base.metrics[S] /\ snap.metrics[F] > snap.metrics[S] THEN "golden"
          ELSE IF ~(base.metrics[F] <= base.metrics[S]) /\ ~(snap.metrics[F] > snap.metrics[S]) THEN "death"
          ELSE "none"
  BY <1>4, <1>5 DEF Crossing
<1>8. {"golden"} # {"death"} OBVIOUS
<1> QED BY <1>3, <1>6, <1>7, <1>8 DEF Side

\* A reading: the row and the history are stamped with the same keys, and the
\* last cross raised led to the side of the new baseline.
LEMMA ReadingKeeps ==
  ASSUME CrewInv, NEW snap \in Snapshots, Reading(snap)
  PROVE  CrewInv'
<1> DEFINE base    == monitor.baseline
           signals == EvaluateAll(monitor.triggers, base, snap)
           verdict == Assess(signals, monitor.floor, monitor.stamps)
           keys    == KeysOf(verdict.published)
<1>1. /\ Stored
      /\ monitor' = [monitor EXCEPT !.baseline = snap, !.stamps = verdict.stamps]
      /\ heard' = Stamped(heard, keys)
      /\ report'.raised = signals /\ report'.published = verdict.published /\ report'.same = (snap = base)
      /\ crosses' = IF ~Averaged(AvgSpec, base, snap) THEN <<>>
                    ELSE IF CrossesIn(signals) = {} THEN crosses
                    ELSE LastTwo(Append(crosses, CrossesIn(signals)))
  BY DEF Reading, KeysOf
<1>2. IsRow(monitor) /\ monitor.stamps = heard /\ IsStamps(heard) BY <1>1 DEF CrewInv, RowKept
<1>3. /\ monitor.triggers \in Seq(TriggerSpecs) /\ monitor.floor \in DOMAIN Rank
      /\ base \in Snapshots \cup {Nothing}
  BY <1>2 DEF IsRow
<1>4. signals \in Seq(Said(monitor.triggers, base, snap)) BY <1>3, EvaluateAllSays
<1>5. \A v \in Said(monitor.triggers, base, snap) : v.severity \in DOMAIN Rank
  BY DEF Said, Signals, Severities, Rank
<1>6. /\ signals = <<>> => verdict.published = <<>>
      /\ verdict.stamps = Stamped(heard, keys)
      /\ \A i \in DOMAIN signals : Heard(signals[i], monitor.floor, verdict.stamps)
  <2> HIDE DEF signals
  <2> QED BY <1>2, <1>3, <1>4, <1>5, AssessHears
<1> HIDE DEF signals, verdict, keys
<1>7. /\ monitor'.stamps = verdict.stamps /\ monitor'.baseline = snap
      /\ monitor'.triggers = monitor.triggers /\ monitor'.floor = monitor.floor
      /\ monitor'.watched = monitor.watched /\ monitor'.pcts = monitor.pcts
  BY <1>1, <1>2 DEF IsRow
<1>8. RowKept'
  <2>1. IsRow(monitor') BY <1>1, <1>2, <1>7 DEF IsRow, Tuned
  <2>2. IsStamps(heard') BY <1>1 DEF IsStamps, Stamped
  <2> QED BY <1>1, <1>6, <1>7, <2>1, <2>2 DEF RowKept
<1>9. CrossesFollow'
  <2>1. crosses \in Seq({{"golden"}, {"death"}}) /\ Len(crosses) <= 2 /\ (Len(crosses) = 2 => crosses[1] # crosses[2])
    BY DEF CrewInv, CrossesFollow
  <2>2. CASE ~Averaged(AvgSpec, base, snap)
    <3>1. crosses' = <<>> BY <1>1, <2>2
    <3>2. <<>> \in Seq({{"golden"}, {"death"}}) /\ Len(<<>>) = 0 OBVIOUS
    <3> QED BY <3>1, <3>2 DEF CrossesFollow
  <2>3. CASE Averaged(AvgSpec, base, snap)
    <3> DEFINE c == Crossed(AvgSpec, base, snap)
    <3>1. /\ c = "none" => Side(snap) = Side(base)
          /\ c # "none" => c \in {"golden", "death"} /\ {c} = Side(snap) /\ Side(base) # {c}
      BY <1>3, <2>3, CrossingChangesSide
    <3>2. CrossesIn(signals) = IF Watches(monitor.triggers) /\ c # "none" THEN {c} ELSE {}
      BY <1>3, <2>3, CrossesRaised DEF signals
    <3>3. AvgSpec.fast \in DOMAIN snap.metrics /\ AvgSpec.slow \in DOMAIN snap.metrics BY <2>3 DEF Averaged, Has
    <3>4. crosses # <<>> => Watches(monitor.triggers) /\ crosses[Len(crosses)] = Side(base)
      BY <1>1 DEF CrewInv, CrossesFollow
    <3> HIDE DEF c
    <3>5. CASE Watches(monitor.triggers) /\ c # "none"
      <4>1. {c} \in {{"golden"}, {"death"}} /\ (crosses # <<>> => crosses[Len(crosses)] # {c})
        BY <3>1, <3>4, <3>5
      <4>2. CrossesIn(signals) = {c} BY <3>2, <3>5
      <4>3. crosses' = LastTwo(Append(crosses, {c})) BY <1>1, <2>3, <4>2
      <4>4. /\ crosses' \in Seq({{"golden"}, {"death"}}) /\ Len(crosses') <= 2
            /\ Len(crosses') = 2 => crosses'[1] # crosses'[2]
            /\ crosses'[Len(crosses')] = {c}
        <5> DEFINE V == {{"golden"}, {"death"}}
                   x == {c}
        <5>1. crosses \in Seq(V) /\ x \in V BY <2>1, <4>1
        <5>2. Len(crosses) # 0 => crosses[Len(crosses)] # x BY <4>1, <5>1
        <5>3. crosses' = LastTwo(Append(crosses, x)) BY <4>3
        <5> HIDE DEF V, x
        <5>4. crosses' \in Seq(V) /\ Len(crosses') <= 2 /\ (Len(crosses') = 2 => crosses'[1] # crosses'[2])
              /\ crosses'[Len(crosses')] = x
          BY <2>1, <5>1, <5>2, <5>3, LastTwoAlternate
        <5> QED BY <5>4 DEF V, x
      <4> QED BY <4>4, <3>1, <3>3, <3>5, <1>7 DEF CrossesFollow
    <3>6. CASE ~(Watches(monitor.triggers) /\ c # "none")
      <4>1. crosses' = crosses BY <1>1, <2>3, <3>2, <3>6
      <4>2. crosses # <<>> => Watches(monitor.triggers) /\ crosses[Len(crosses)] = Side(snap)
        BY <3>1, <3>4, <3>6
      <4> QED BY <2>1, <4>1, <4>2, <3>3, <1>7 DEF CrossesFollow
    <3> QED BY <3>5, <3>6
  <2> QED BY <2>2, <2>3
<1>10. QuietPollIsQuiet'
  <2>1. SUFFICES ASSUME Stored', report'.same, Tuned(monitor'),
                        \A i \in DOMAIN monitor'.triggers : \A floor \in monitor'.triggers[i].abs : floor > 0
                 PROVE  report'.published = <<>>
    BY DEF QuietPollIsQuiet, Tuned
  <2>2. snap = base BY <1>1, <2>1
  <2>3. monitor.triggers \in Seq(SpecsFrom(1)) BY <1>2, <1>7, <2>1 DEF IsRow, Tuned
  <2>4. EvaluateAll(monitor.triggers, snap, snap) = <<>> BY <1>7, <2>1, <2>3, CrewStaysQuiet
  <2> QED BY <1>1, <1>6, <2>2, <2>4 DEF signals
<1>11. EverySignalIsHeard'
  <2>1. heard' = verdict.stamps BY <1>1, <1>6
  <2>2. \A i \in DOMAIN signals : Heard(signals[i], monitor.floor, heard') BY <1>6, <2>1
  <2> QED BY <1>1, <1>7, <2>2 DEF EverySignalIsHeard, Heard
<1> QED BY <1>8, <1>9, <1>10, <1>11 DEF CrewInv

\* Every step keeps the inductive invariant.
LEMMA CrewInductive == CrewInv /\ [CrewNext]_crewVars => CrewInv'
<1> SUFFICES ASSUME CrewInv, [CrewNext]_crewVars PROVE CrewInv' OBVIOUS
<1>1. ASSUME NEW req \in Requests, Add(req) PROVE CrewInv' BY <1>1, AddKeeps
<1>2. CASE FailedRun BY <1>2, FailedRunKeeps
<1>3. ASSUME NEW snap \in Snapshots, FirstReading(snap) PROVE CrewInv' BY <1>3, FirstReadingKeeps
<1>4. ASSUME NEW snap \in Snapshots, Reading(snap) PROVE CrewInv' BY <1>4, ReadingKeeps
<1>5. CASE HourPasses BY <1>5, HourKeeps
<1>6. CASE UNCHANGED crewVars
  BY <1>6 DEF crewVars, CrewInv, RowKept, CrossesFollow, QuietPollIsQuiet, EverySignalIsHeard, Stored
<1> QED BY <1>1, <1>2, <1>3, <1>4, <1>5, <1>6 DEF CrewNext

\* At every moment a poll that finds nothing changed has said nothing, unless
\* the crew was given by hand, its description names a zero, or an absolute
\* floor is not positive (triggers.py, nl.py).
THEOREM QuietPollIsQuietAlways == CrewSpec => []QuietPollIsQuiet
<1>1. CrewInv => QuietPollIsQuiet BY DEF CrewInv
<1> QED BY CrewInitial, CrewInductive, <1>1, PTL DEF CrewSpec

\* Golden and death crosses alternate, whatever the crew and the readings.
THEOREM CrossesAlternateAlways == CrewSpec => []CrossesAlternate
<1>1. CrewInv => CrossesAlternate
  <2>1. SUFFICES ASSUME CrewInv PROVE CrossesAlternate OBVIOUS
  <2>2. crosses \in Seq({{"golden"}, {"death"}}) /\ (Len(crosses) = 2 => crosses[1] # crosses[2])
    BY <2>1 DEF CrewInv, CrossesFollow
  <2>3. \A i \in DOMAIN crosses : crosses[i] \in {{"golden"}, {"death"}} BY <2>2
  <2>4. {"golden"} # {"golden", "death"} /\ {"death"} # {"golden", "death"} OBVIOUS
  <2> QED BY <2>2, <2>3, <2>4 DEF CrossesAlternate
<1> QED BY CrewInitial, CrewInductive, <1>1, PTL DEF CrewSpec

\* Every signal at or above the floor is published by the run that raises it, or
\* was less than a cooldown before it (materiality.py).
THEOREM EverySignalIsHeardAlways == CrewSpec => []EverySignalIsHeard
<1>1. CrewInv => EverySignalIsHeard BY DEF CrewInv
<1> QED BY CrewInitial, CrewInductive, <1>1, PTL DEF CrewSpec
=============================================================================
