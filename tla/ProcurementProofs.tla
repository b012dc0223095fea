------------------------- MODULE ProcurementProofs -------------------------
(***************************************************************************)
(* Proofs about Procurement, for every number of runs, every crew, every   *)
(* budget and whatever the sellers and the transport do.                   *)
(***************************************************************************)
EXTENDS Procurement, TLAPS

\* A paying request goes out for a price the remaining budget covers.
QuoteFits == \A r \in Runs : run[r].stage = "paying" => run[r].quote <= Remaining(r)

\* What is being recorded is a datum.
RecordsADatum == \A r \in Runs : run[r].stage = "recording" => run[r].payload \in Payload

\* A charge belongs to a paying request, and is then for what was quoted.
Honest(j) ==
  /\ j.stage \notin {"paying", "recording", "debiting"} => j.charged = 0
  /\ ~Repricing /\ j.stage = "paying" => j.charged \in {0, j.quote}

ChargesAreHonest == \A r \in Runs : Honest(run[r])

\* A record a run may be given: between two purchases, or in one that fits.
Quiet(j) == j \in Run /\ j.stage \notin {"paying", "recording"} /\ Honest(j)

Fits(r, j) ==
  /\ j \in Run
  /\ j.stage = "paying" => j.quote <= Remaining(r)
  /\ j.stage = "recording" => j.payload \in Payload
  /\ Honest(j)

\* What the runs share has its types, and what is noted about it.
SharedOK ==
  /\ cache \in [Sources -> Datum]
  /\ trust \in [Sources -> [ok : Nat, fail : Nat]]
  /\ amid \in [Sources -> SUBSET Runs]
  /\ unwarned \in [Peers -> SUBSET Runs]

\* The inductive invariant of the procurement.
IInv ==
  /\ TypeOK /\ CommittedWithinCeiling
  /\ QuoteFits /\ RecordsADatum /\ ChargesAreHonest /\ BooksBalance

\* The crew is a sequence of sources, and not empty.
LEMMA CrewLemma ==
  /\ Len(Crew) \in Nat /\ Len(Crew) >= 1
  /\ \A n \in 1..Len(Crew) : Crew[n] \in Sources
BY CrewAssumption

\* What the bounds are assumed to be.
LEMMA ConstantsLemma ==
  /\ Ceiling \in Nat
  /\ Prices \subseteq Nat
  /\ Retries \in Nat
  /\ Replies \subseteq Reply
BY MoneyAssumption, OutcomeAssumption

\* A run that was never begun is a run.
LEMMA FreshLemma == Fresh \in Run
BY CrewLemma, ConstantsLemma DEF Fresh, Run, Stage, Datum, NoDatum

---------------------------------------------------------------------------
(* How a source's gather may end: never in the middle of a payment. *)

\* A run that goes on to its next source is quiet.
LEMMA AdvancedLemma ==
  ASSUME NEW j \in Run
  PROVE  Quiet(Advanced(j))
<1> DEFINE next == [j EXCEPT !.attempt = 0, !.quote = 0, !.charged = 0, !.payload = NoDatum]
<1>1. next \in Run /\ next.at = j.at /\ next.charged = 0
  <2>1. 0 \in 0..Retries /\ 0 \in Nat /\ NoDatum \in Datum
    BY ConstantsLemma DEF Datum
  <2> QED
    BY <2>1 DEF Run
<1>2. CASE j.at = Len(Crew)
  <2>1. Advanced(j) = [next EXCEPT !.stage = "gathered"]
    BY <1>2 DEF Advanced
  <2> QED
    BY <1>1, <2>1 DEF Quiet, Honest, Run, Stage
<1>3. CASE j.at # Len(Crew)
  <2>1. Advanced(j) = [next EXCEPT !.stage = Ask(j.at + 1), !.at = @ + 1]
    BY <1>3 DEF Advanced
  <2>2. j.at + 1 \in 1..Len(Crew)
    BY <1>3, CrewLemma DEF Run
  <2>3. Ask(j.at + 1) \in Stage \ {"paying", "recording"}
    BY DEF Ask, Stage
  <2> QED
    BY <1>1, <2>1, <2>2, <2>3 DEF Quiet, Honest, Run
<1> QED
  BY <1>2, <1>3

\* So is a run that failed.
LEMMA FailedLemma ==
  ASSUME NEW j \in Run
  PROVE  Quiet(Failed(j))
BY FreshLemma DEF Quiet, Honest, Failed, Fresh, Run, Stage

\* And one that is over.
LEMMA DoneLemma ==
  ASSUME NEW j \in Run
  PROVE  Quiet(Done(j))
BY FreshLemma DEF Quiet, Honest, Done, Fresh, Run, Stage

\* So is a run that skips a source.
LEMMA SkippedLemma ==
  ASSUME NEW j \in Run
  PROVE  Quiet(Skipped(j))
BY AdvancedLemma, FailedLemma DEF Skipped

\* So is a run that took an answer.
LEMMA ParsedLemma ==
  ASSUME NEW j \in Run, NEW payload \in Payload, NEW cost \in Nat
  PROVE  Quiet(Parsed(j, payload, cost))
<1>1. CASE payload = "good"
  <2> DEFINE k == [j EXCEPT !.cost = @ + cost, !.used = @ \cup {Crew[j.at]}]
  <2>1. k \in Run
    <3>1. j.cost + cost \in Nat
      BY DEF Run
    <3>2. j.used \cup {Crew[j.at]} \in SUBSET Sources
      BY CrewLemma DEF Run
    <3> QED
      BY <3>1, <3>2 DEF Run
  <2>2. Parsed(j, payload, cost) = Advanced(k)
    BY <1>1 DEF Parsed
  <2> QED
    BY <2>1, <2>2, AdvancedLemma
<1>2. CASE payload = "unusable" /\ Crew[j.at] \in Peers
  <2>1. Parsed(j, payload, cost) = [j EXCEPT !.stage = "debiting"]
    BY <1>2 DEF Parsed
  <2> QED
    BY <2>1 DEF Quiet, Honest, Run, Stage
<1>3. CASE payload = "unusable" /\ Crew[j.at] \notin Peers
  <2>1. Parsed(j, payload, cost) = Skipped(j)
    BY <1>3 DEF Parsed
  <2> QED
    BY <2>1, SkippedLemma
<1>4. CASE payload = "misshapen"
  <2>1. Parsed(j, payload, cost) = Failed(j)
    BY <1>4 DEF Parsed
  <2> QED
    BY <2>1, FailedLemma
<1> QED
  BY <1>1, <1>2, <1>3, <1>4 DEF Payload

\* So is a run that tries again.
LEMMA RetriedLemma ==
  ASSUME NEW j \in Run, NEW fault
  PROVE  Quiet(Retried(j, fault))
<1>1. CASE j.attempt < Retries
  <2>1. Retried(j, fault)
          = [j EXCEPT !.stage = "quoting", !.attempt = @ + 1, !.quote = 0, !.charged = 0]
    BY <1>1 DEF Retried
  <2>2. j.attempt + 1 \in 0..Retries
    BY <1>1, ConstantsLemma DEF Run
  <2>3. 0 \in Nat /\ "quoting" \in Stage \ {"paying", "recording"}
    BY DEF Stage
  <2> QED
    BY <2>1, <2>2, <2>3 DEF Quiet, Honest, Run
<1>2. CASE ~(j.attempt < Retries)
  BY <1>2, FailedLemma, SkippedLemma DEF Retried
<1> QED
  BY <1>1, <1>2

---------------------------------------------------------------------------
(* The invariant *)

\* No run has begun at first.
LEMMA InitInv == Init => IInv
<1> SUFFICES ASSUME Init PROVE IInv
  OBVIOUS
<1>1. TypeOK
  BY FreshLemma DEF Init, TypeOK, Datum
<1>2. CommittedWithinCeiling
  BY ConstantsLemma DEF Init, CommittedWithinCeiling
<1>3. QuoteFits /\ RecordsADatum /\ ChargesAreHonest
  BY DEF Init, QuoteFits, RecordsADatum, ChargesAreHonest, Honest, Fresh
<1>4. BooksBalance
  BY DEF Init, BooksBalance, InFlight, Fresh
<1> QED
  BY <1>1, <1>2, <1>3, <1>4 DEF IInv

\* A quiet record fits the run it is given to.
LEMMA QuietFits ==
  ASSUME NEW r, NEW j, Quiet(j)
  PROVE  Fits(r, j)
BY DEF Quiet, Fits

\* A step that gives one run a fitting record, commits nothing, and keeps the
\* run's books.
LEMMA SetRunLemma ==
  ASSUME IInv, NEW r \in Runs, NEW j, Fits(r, j), SetRun(r, j), spent' = spent,
         SharedOK',
         NEW p \in Nat, paid' = [paid EXCEPT ![r] = p],
         NEW l \in Nat, lost' = [lost EXCEPT ![r] = l],
         ~Repricing => p = spent[r] + l + InFlight(j)
  PROVE  IInv'
<1>1. TypeOK'
  BY DEF IInv, TypeOK, SharedOK, SetRun, Fits
<1>2. CommittedWithinCeiling'
  BY DEF IInv, CommittedWithinCeiling
<1>3. QuoteFits' /\ RecordsADatum'
  BY DEF IInv, TypeOK, QuoteFits, RecordsADatum, SetRun, Fits, Remaining
<1>4. ChargesAreHonest'
  BY DEF IInv, TypeOK, ChargesAreHonest, SetRun, Fits, Honest
<1>5. BooksBalance'
  BY DEF IInv, TypeOK, BooksBalance, SetRun, InFlight
<1> QED
  BY <1>1, <1>2, <1>3, <1>4, <1>5 DEF IInv

\* A step outside of payments that moves no money.
LEMMA QuietStep ==
  ASSUME IInv, NEW r \in Runs, NEW j, Quiet(j), SetRun(r, j),
         run[r].stage # "paying",
         SharedOK',
         UNCHANGED <<spent, paid, lost>>
  PROVE  IInv'
<1>1. /\ paid[r] \in Nat /\ paid' = [paid EXCEPT ![r] = paid[r]]
      /\ lost[r] \in Nat /\ lost' = [lost EXCEPT ![r] = lost[r]]
  BY DEF IInv, TypeOK
<1>2. ~Repricing => paid[r] = spent[r] + lost[r] + InFlight(j)
  BY DEF IInv, BooksBalance, InFlight, Quiet
<1> QED
  BY <1>1, <1>2, QuietFits, SetRunLemma

\* What the ledger holds after more events, and what is noted of them.
LEMMA HoldsLemma ==
  ASSUME TypeOK, NEW rows \in [Sources -> [ok : Nat, fail : Nat]], Holds(rows)
  PROVE  /\ trust' \in [Sources -> [ok : Nat, fail : Nat]]
         /\ unwarned' \in [Peers -> SUBSET Runs]
BY DEF Holds, TypeOK, Past

\* A payment whose answer is refused or lost, or a pre-flight that is.
LEMMA LossStep ==
  ASSUME IInv, NEW r \in Runs, NEW j, Quiet(j), SetRun(r, j),
         run[r].stage \in {"quoting", "paying"},
         lost' = [lost EXCEPT ![r] = @ + run[r].charged],
         UNCHANGED <<cache, trust, spent, paid, amid, unwarned>>
  PROVE  IInv'
<1>1. /\ paid[r] \in Nat /\ paid' = [paid EXCEPT ![r] = paid[r]]
      /\ lost[r] \in Nat /\ spent[r] \in Nat /\ run[r].charged \in Nat
      /\ SharedOK'
  BY DEF IInv, TypeOK, SharedOK, Run
<1> DEFINE l == lost[r] + run[r].charged
<1>2. l \in Nat /\ lost' = [lost EXCEPT ![r] = l]
  BY <1>1 DEF IInv, TypeOK
<1>3. InFlight(run[r]) = run[r].charged
  BY DEF IInv, ChargesAreHonest, Honest, InFlight
<1>4. ~Repricing => paid[r] = spent[r] + l + InFlight(j)
  BY <1>1, <1>3 DEF IInv, BooksBalance, InFlight, Quiet
<1> QED
  BY <1>1, <1>2, <1>4, QuietFits, SetRunLemma

\* Every step keeps the inductive invariant.
LEMMA StepInv == IInv /\ [Next]_vars => IInv'
<1> SUFFICES ASSUME IInv, [Next]_vars PROVE IInv'
  OBVIOUS
<1>i. TypeOK /\ CommittedWithinCeiling /\ QuoteFits /\ RecordsADatum
  BY DEF IInv
<1>h. ChargesAreHonest /\ BooksBalance
  BY DEF IInv
<1>j. \A r \in Runs : run[r] \in Run /\ At(r) \in Sources
  BY <1>i, CrewLemma DEF TypeOK, At, Run
<1>1. ASSUME NEW r \in Runs, Begin(r)
      PROVE  IInv'
  <2>1. Quiet([Fresh EXCEPT !.stage = Ask(1)])
    BY FreshLemma DEF Quiet, Honest, Ask, Fresh, Run, Stage
  <2> QED
    BY <1>i, <1>1, <2>1, QuietStep DEF Begin, TypeOK, SharedOK
<1>2. ASSUME NEW r \in Runs, CheckTrust(r)
      PROVE  IInv'
  <2>1. PICK j : SetRun(r, j) /\ j \in {Skipped(run[r]), [run[r] EXCEPT !.stage = "checking"]}
    BY <1>2 DEF CheckTrust
  <2>2. Quiet([run[r] EXCEPT !.stage = "checking"])
    BY <1>h, <1>j, <1>2 DEF CheckTrust, ChargesAreHonest, Quiet, Honest, Run, Stage
  <2>3. Quiet(j)
    BY <1>j, <2>1, <2>2, SkippedLemma
  <2>4. SharedOK'
    <3>1. unwarned' \in [Peers -> SUBSET Runs]
      BY <1>i, <1>2 DEF CheckTrust, TypeOK
    <3> QED
      BY <1>i, <1>2, <3>1 DEF CheckTrust, TypeOK, SharedOK
  <2> QED
    BY <1>i, <1>2, <2>1, <2>3, <2>4, QuietStep DEF CheckTrust, TypeOK
<1>3. ASSUME NEW r \in Runs, CacheHit(r)
      PROVE  IInv'
  <2>1. cache[At(r)] \in Payload
    BY <1>i, <1>j, <1>3 DEF CacheHit, TypeOK, Datum
  <2>2. Quiet(Parsed(run[r], cache[At(r)], 0))
    BY <1>j, <2>1, ParsedLemma
  <2> QED
    BY <1>i, <1>3, <2>2, QuietStep DEF CacheHit, TypeOK, SharedOK
<1>4. ASSUME NEW r \in Runs, CacheMiss(r)
      PROVE  IInv'
  <2>1. PICK j : SetRun(r, j) /\ j \in {Skipped(run[r]), [run[r] EXCEPT !.stage = "quoting"]}
    BY <1>4 DEF CacheMiss
  <2>2. Quiet([run[r] EXCEPT !.stage = "quoting"])
    BY <1>h, <1>j, <1>4 DEF CacheMiss, ChargesAreHonest, Quiet, Honest, Run, Stage
  <2>3. Quiet(j)
    BY <1>j, <2>1, <2>2, SkippedLemma
  <2> QED
    BY <1>i, <1>4, <2>1, <2>3, QuietStep DEF CacheMiss, TypeOK, SharedOK
<1>5. ASSUME NEW r \in Runs, Quote(r)
      PROVE  IInv'
  <2>1. PICK price \in Prices :
          SetRun(r, IF price > Remaining(r) THEN Skipped(run[r])
                    ELSE [run[r] EXCEPT !.stage = "paying", !.quote = price])
    BY <1>5 DEF Quote
  <2>2. CASE price > Remaining(r)
    <3>1. Quiet(Skipped(run[r]))
      BY <1>j, SkippedLemma
    <3> QED
      BY <1>i, <1>5, <2>1, <2>2, <3>1, QuietStep DEF Quote, TypeOK, SharedOK
  <2>3. CASE ~(price > Remaining(r))
    <3> DEFINE j == [run[r] EXCEPT !.stage = "paying", !.quote = price]
    <3>1. price \in Nat /\ price <= Remaining(r)
      BY <1>i, <2>3, ConstantsLemma DEF TypeOK, Remaining
    <3>2. "paying" \in Stage
      BY DEF Stage
    <3>3. j \in Run /\ j.stage = "paying" /\ j.quote = price /\ j.charged = 0
      BY <1>h, <1>j, <1>5, <3>1, <3>2 DEF Quote, ChargesAreHonest, Honest, Run
    <3>4. SetRun(r, j) /\ Fits(r, j)
      BY <2>1, <2>3, <3>1, <3>3 DEF Fits, Honest
    <3>5. ~Repricing => paid[r] = spent[r] + lost[r] + InFlight(j)
      BY <1>h, <1>5, <3>3 DEF Quote, BooksBalance, InFlight
    <3>6. /\ paid[r] \in Nat /\ paid' = [paid EXCEPT ![r] = paid[r]]
          /\ lost[r] \in Nat /\ lost' = [lost EXCEPT ![r] = lost[r]]
          /\ SharedOK'
          /\ spent' = spent
      BY <1>i, <1>5 DEF Quote, TypeOK, SharedOK
    <3> QED
      BY <3>4, <3>5, <3>6, SetRunLemma
  <2> QED
    BY <2>2, <2>3
<1>6. ASSUME NEW r \in Runs, Settle(r)
      PROVE  IInv'
  <2>1. PICK price \in (IF Repricing THEN Prices ELSE {run[r].quote}) \ {0} :
          /\ SetRun(r, [run[r] EXCEPT !.charged = price])
          /\ paid' = [paid EXCEPT ![r] = @ + price]
    BY <1>6 DEF Settle
  <2>2. price \in Nat
    BY <1>j, <2>1, ConstantsLemma DEF Run
  <2> DEFINE j == [run[r] EXCEPT !.charged = price]
  <2>3. j \in Run /\ j.quote = run[r].quote /\ j.stage = "paying" /\ j.charged = price
    BY <1>j, <1>6, <2>2 DEF Settle, Run
  <2>4. Fits(r, j)
    BY <1>i, <1>6, <2>1, <2>3 DEF Settle, QuoteFits, Fits, Honest
  <2> DEFINE p == paid[r] + price
  <2>5. p \in Nat /\ paid' = [paid EXCEPT ![r] = p]
    BY <1>i, <2>1, <2>2 DEF TypeOK
  <2>6. ~Repricing => p = spent[r] + lost[r] + InFlight(j)
    <3>1. paid[r] \in Nat /\ spent[r] \in Nat /\ lost[r] \in Nat
      BY <1>i DEF TypeOK
    <3> QED
      BY <1>h, <1>6, <2>2, <2>3, <3>1 DEF Settle, BooksBalance, InFlight
  <2>7. /\ lost[r] \in Nat /\ lost' = [lost EXCEPT ![r] = lost[r]]
        /\ SharedOK'
        /\ spent' = spent
    BY <1>i, <1>6 DEF Settle, TypeOK, SharedOK
  <2> QED
    BY <2>1, <2>4, <2>5, <2>6, <2>7, SetRunLemma
<1>7. ASSUME NEW r \in Runs, Respond(r)
      PROVE  IInv'
  <2>1. PICK payload \in Payload :
          SetRun(r, [run[r] EXCEPT !.stage = "recording", !.payload = payload])
    BY <1>7 DEF Respond
  <2> DEFINE j == [run[r] EXCEPT !.stage = "recording", !.payload = payload]
  <2>2. "recording" \in Stage /\ payload \in Datum
    BY DEF Stage, Datum
  <2>3. j \in Run /\ j.stage = "recording" /\ j.payload = payload
    BY <1>j, <2>2 DEF Run
  <2>4. run' = [run EXCEPT ![r] = j]
    BY <2>1 DEF SetRun
  <2>5. Committed(r) \in Nat /\ spent[r] + Committed(r) <= Ceiling
    <3>1. run[r].quote \in Nat /\ run[r].quote <= Ceiling - spent[r]
      BY <1>i, <1>j, <1>7 DEF Respond, QuoteFits, Remaining, Run
    <3> QED
      BY <1>i, <3>1, ConstantsLemma DEF Committed, CommittedWithinCeiling, TypeOK
  <2>6. spent' = [spent EXCEPT ![r] = @ + Committed(r)]
    BY <1>7 DEF Respond
  <2>7. TypeOK'
    <3>1. spent' \in [Runs -> Nat]
      BY <1>i, <2>5, <2>6 DEF TypeOK
    <3> QED
      BY <1>i, <1>7, <2>3, <2>4, <3>1 DEF Respond, TypeOK
  <2>8. CommittedWithinCeiling'
    BY <1>i, <2>5, <2>6 DEF CommittedWithinCeiling, TypeOK
  <2>9. QuoteFits' /\ RecordsADatum' /\ ChargesAreHonest'
    BY <1>i, <1>h, <2>3, <2>4, <2>6
       DEF QuoteFits, RecordsADatum, ChargesAreHonest, Honest, Remaining, TypeOK
  <2>10. BooksBalance'
    <3>1. ~Repricing => Committed(r) = InFlight(run[r])
      BY <1>h, <1>7 DEF Respond, ChargesAreHonest, Honest, Committed, InFlight
    <3>2. InFlight(j) = 0
      BY <2>3 DEF InFlight
    <3>3. paid[r] \in Nat /\ spent[r] \in Nat /\ lost[r] \in Nat
      BY <1>i DEF TypeOK
    <3>4. ~Repricing => paid'[r] = spent'[r] + lost'[r] + InFlight(run'[r])
      BY <1>i, <1>h, <1>7, <2>4, <2>5, <2>6, <3>1, <3>2, <3>3 DEF Respond, BooksBalance, TypeOK
    <3>5. ~Repricing => \A q \in Runs \ {r} :
            paid'[q] = spent'[q] + lost'[q] + InFlight(run'[q])
      BY <1>i, <1>h, <1>7, <2>4, <2>6 DEF Respond, BooksBalance, TypeOK, InFlight
    <3> QED
      BY <3>4, <3>5 DEF BooksBalance, InFlight
  <2> QED
    BY <2>7, <2>8, <2>9, <2>10 DEF IInv
<1>8. ASSUME NEW r \in Runs, Refuse(r)
      PROVE  IInv'
  <2>1. Quiet(Skipped(run[r]))
    BY <1>j, SkippedLemma
  <2> QED
    BY <1>8, <2>1, LossStep DEF Refuse
<1>9. ASSUME NEW r \in Runs, Lose(r)
      PROVE  IInv'
  <2>1. PICK fault : SetRun(r, Retried(run[r], fault))
    BY <1>9 DEF Lose
  <2>2. Quiet(Retried(run[r], fault))
    BY <1>j, RetriedLemma
  <2> QED
    BY <1>9, <2>1, <2>2, LossStep DEF Lose
<1>10. ASSUME NEW r \in Runs, Record(r)
       PROVE  IInv'
  <2>1. Committed(r) \in Nat /\ run[r].payload \in Payload
    BY <1>i, <1>j, <1>10 DEF Record, Committed, Run, RecordsADatum
  <2>2. Quiet(Parsed(run[r], run[r].payload, Committed(r)))
    BY <1>j, <2>1, ParsedLemma
  <2>3. SharedOK'
    <3>1. cache' \in [Sources -> Datum]
      BY <1>i, <1>j, <1>10, <2>1 DEF Record, TypeOK, Datum
    <3>2. amid' \in [Sources -> SUBSET Runs]
      BY <1>i, <1>10 DEF Record, TypeOK, Buying
    <3> QED
      BY <1>i, <1>10, <3>1, <3>2 DEF Record, TypeOK, SharedOK
  <2> QED
    BY <1>i, <1>10, <2>2, <2>3, QuietStep DEF Record, TypeOK
<1>11. ASSUME NEW r \in Runs, Debit(r)
       PROVE  IInv'
  <2>1. Quiet(Skipped(run[r]))
    BY <1>j, SkippedLemma
  <2>2. SharedOK'
    <3>1. \A s \in Sources : [trust[s] EXCEPT !.fail = @ + 1] \in [ok : Nat, fail : Nat]
      BY <1>i DEF TypeOK
    <3>2. [trust EXCEPT ![At(r)].fail = @ + 1] \in [Sources -> [ok : Nat, fail : Nat]]
      BY <1>i, <1>j, <3>1 DEF TypeOK
    <3> QED
      BY <1>i, <1>11, <3>2, HoldsLemma DEF Debit, TypeOK, SharedOK
  <2> QED
    BY <1>i, <1>11, <2>1, <2>2, QuietStep DEF Debit, TypeOK
<1>12. ASSUME NEW r \in Runs, Attribute(r)
       PROVE  IInv'
  <2>1. Quiet(Done(run[r]))
    BY <1>j, DoneLemma
  <2>2. SharedOK'
    <3>1. \A s \in Sources :
            /\ trust[s] \in [ok : Nat, fail : Nat]
            /\ [trust[s] EXCEPT !.ok = @ + 1] \in [ok : Nat, fail : Nat]
            /\ [trust[s] EXCEPT !.fail = @ + 1] \in [ok : Nat, fail : Nat]
      BY <1>i DEF TypeOK
    <3>2. PICK rows \in [Sources -> [ok : Nat, fail : Nat]] : Holds(rows)
      BY <1>12, <3>1 DEF Attribute
    <3> QED
      BY <1>i, <1>12, <3>2, HoldsLemma DEF Attribute, TypeOK, SharedOK
  <2> QED
    BY <1>i, <1>12, <2>1, <2>2, QuietStep DEF Attribute, TypeOK
<1>13. ASSUME NEW r \in Runs, Break(r)
       PROVE  IInv'
  <2>1. Quiet(Failed(run[r]))
    BY <1>j, FailedLemma
  <2> QED
    BY <1>13, <2>1, LossStep DEF Break
<1>14. ASSUME NEW r \in Runs, StoreFails(r)
       PROVE  IInv'
  <2>1. Quiet(Failed(run[r]))
    BY <1>j, FailedLemma
  <2> QED
    BY <1>i, <1>14, <2>1, QuietStep DEF StoreFails, TypeOK, SharedOK
<1>15. ASSUME NEW s \in Sources, Expire(s)
       PROVE  IInv'
  <2>1. TypeOK'
    BY <1>i, <1>15 DEF Expire, TypeOK, Datum
  <2>2. CommittedWithinCeiling' /\ QuoteFits' /\ RecordsADatum'
    BY <1>i, <1>15 DEF Expire, CommittedWithinCeiling, QuoteFits, RecordsADatum, Remaining
  <2>3. ChargesAreHonest' /\ BooksBalance'
    BY <1>h, <1>15 DEF Expire, ChargesAreHonest, Honest, BooksBalance, InFlight
  <2> QED
    BY <2>1, <2>2, <2>3 DEF IInv
<1>16. CASE UNCHANGED vars
  <2>1. TypeOK' /\ CommittedWithinCeiling' /\ QuoteFits' /\ RecordsADatum'
    BY <1>i, <1>16 DEF vars, TypeOK, CommittedWithinCeiling, QuoteFits, RecordsADatum, Remaining
  <2>2. ChargesAreHonest' /\ BooksBalance'
    BY <1>h, <1>16 DEF vars, ChargesAreHonest, Honest, BooksBalance, InFlight
  <2> QED
    BY <2>1, <2>2 DEF IInv
<1> QED
  BY <1>1, <1>2, <1>3, <1>4, <1>5, <1>6, <1>7, <1>8, <1>9, <1>10, <1>11, <1>12, <1>13, <1>14,
     <1>15, <1>16 DEF Next, RunStep

\* It holds in every behaviour.
LEMMA InvHolds == Spec => []IInv
BY InitInv, StepInv, PTL DEF Spec

\* Procurement is type correct.
THEOREM TypeCorrect == Spec => []TypeOK
<1>1. IInv => TypeOK
  BY DEF IInv
<1> QED
  BY <1>1, InvHolds, PTL

\* What a run's budget has committed never exceeds its ceiling: every price is
\* held to what is left when it is advertised, and nothing else of the run can
\* commit until that purchase has.
THEOREM CommittedWithinCeilingAlways == Spec => []CommittedWithinCeiling
<1>1. IInv => CommittedWithinCeiling
  BY DEF IInv
<1> QED
  BY <1>1, InvHolds, PTL

\* Where sellers settle what they advertise, no dollar leaves the books: what
\* moved is committed, in flight, or gone with an answer that never came.
THEOREM BooksBalanceAlways == Spec => []BooksBalance
<1>1. IInv => BooksBalance
  BY DEF IInv
<1> QED
  BY <1>1, InvHolds, PTL

\* The ceiling bounds the dollars that move, up to those lost answers: the
\* budget's committed total, plus a request in flight that fits what is left.
THEOREM OutlayBoundedAlways == Spec => []OutlayBounded
<1>1. IInv => OutlayBounded
  <2> SUFFICES ASSUME IInv, ~Repricing, NEW r \in Runs
               PROVE  paid[r] <= Ceiling + lost[r]
    BY DEF OutlayBounded
  <2>1. /\ paid[r] \in Nat /\ spent[r] \in Nat /\ lost[r] \in Nat /\ Ceiling \in Nat
        /\ run[r] \in Run
    BY ConstantsLemma DEF IInv, TypeOK
  <2>2. InFlight(run[r]) \in Nat /\ InFlight(run[r]) <= Ceiling - spent[r]
    BY <2>1 DEF IInv, InFlight, ChargesAreHonest, Honest, QuoteFits, Remaining,
       CommittedWithinCeiling, Run
  <2> QED
    BY <2>1, <2>2 DEF IInv, BooksBalance
<1> QED
  BY <1>1, InvHolds, PTL

---------------------------------------------------------------------------
(* A peer's failure is a note *)

\* Nothing raises what CompositeSource does not list: no answer runs into the wall
\* clock or is JSON the parser trips over, the buy client raises nothing else, and
\* the store answers procure.
Gentle == Faults \subseteq {"transport", "open"} /\ "misshapen" \notin Replies

\* A run holds no answer of another shape, and no peer failed it.
Sane(j) == j.payload # "misshapen" /\ (j.stage = "failed" => Crew[j.at] \notin Peers)

SaneInv ==
  /\ \A r \in Runs : Sane(run[r])
  /\ \A s \in Sources : cache[s] # "misshapen"

\* However a gather ends, a sane run stays sane while no answer is of another
\* shape and no call runs into the wall clock.
LEMMA SaneEnds ==
  ASSUME NEW j \in Run, Sane(j), j.stage # "failed"
  PROVE  /\ Sane(Advanced(j)) /\ Sane(Skipped(j))
         /\ \A payload \in Payload \ {"misshapen"}, cost \in Nat : Sane(Parsed(j, payload, cost))
         /\ \A fault : fault # "clock" => Sane(Retried(j, fault))
<1>1. ASSUME NEW k \in Run
      PROVE  Sane(Advanced(k))
  <2> DEFINE next == [k EXCEPT !.attempt = 0, !.quote = 0, !.charged = 0, !.payload = NoDatum]
  <2>1. next.payload = NoDatum /\ DOMAIN next = DOMAIN k
    BY DEF Run
  <2>2. \A n, stage : /\ [next EXCEPT !.stage = stage].payload = NoDatum
                      /\ [next EXCEPT !.stage = stage].stage = stage
                      /\ [next EXCEPT !.stage = stage, !.at = n].payload = NoDatum
                      /\ [next EXCEPT !.stage = stage, !.at = n].stage = stage
    BY DEF Run
  <2>3. \A n : Ask(n) # "failed"
    BY DEF Ask
  <2>4. Advanced(k).payload = NoDatum /\ Advanced(k).stage # "failed"
    BY <2>2, <2>3 DEF Advanced
  <2> QED
    BY <2>4 DEF Sane, NoDatum
<1>2. Sane(Skipped(j))
  <2>1. CASE Crew[j.at] \in Peers
    BY <1>1, <2>1 DEF Skipped
  <2>2. CASE Crew[j.at] \notin Peers
    BY <2>2 DEF Skipped, Failed, Fresh, Sane, NoDatum
  <2> QED
    BY <2>1, <2>2
<1>3. ASSUME NEW payload \in Payload \ {"misshapen"}, NEW cost \in Nat
      PROVE  Sane(Parsed(j, payload, cost))
  <2>1. CASE payload = "good"
    <3> DEFINE k == [j EXCEPT !.cost = @ + cost, !.used = @ \cup {Crew[j.at]}]
    <3>1. k \in Run
      <4>1. j.cost + cost \in Nat /\ j.used \cup {Crew[j.at]} \in SUBSET Sources
        BY CrewLemma DEF Run
      <4> QED
        BY <4>1 DEF Run
    <3>2. Parsed(j, payload, cost) = Advanced(k)
      BY <2>1 DEF Parsed
    <3> QED
      BY <1>1, <3>1, <3>2
  <2>2. CASE payload = "unusable"
    <3>1. Parsed(j, payload, cost) \in {[j EXCEPT !.stage = "debiting"], Skipped(j)}
      BY <2>2 DEF Parsed
    <3>2. Sane([j EXCEPT !.stage = "debiting"])
      BY DEF Sane, Run
    <3> QED
      BY <1>2, <3>1, <3>2
  <2> QED
    BY <2>1, <2>2 DEF Payload
<1>4. ASSUME NEW fault, fault # "clock"
      PROVE  Sane(Retried(j, fault))
  <2>1. Sane([j EXCEPT !.stage = "quoting", !.attempt = @ + 1, !.quote = 0, !.charged = 0])
    BY DEF Sane, Run
  <2> QED
    BY <1>2, <1>4, <2>1 DEF Retried
<1> QED
  BY <1>1, <1>2, <1>3, <1>4

\* Every step keeps runs sane.
LEMMA SaneStep ==
  ASSUME Gentle, IInv, SaneInv, [Next]_vars
  PROVE  SaneInv'
<1>1. \A r \in Runs : run[r] \in Run /\ At(r) \in Sources /\ Sane(run[r])
  BY CrewLemma DEF IInv, TypeOK, At, Run, SaneInv
<1>2. ASSUME NEW r \in Runs, NEW j, Sane(j), SetRun(r, j),
             \A s \in Sources : cache'[s] \in {cache[s], run[r].payload}
      PROVE  SaneInv'
  BY <1>1, <1>2 DEF SaneInv, SetRun, IInv, TypeOK, Sane
<1>3. ASSUME NEW r \in Runs, NEW j, Sane(j), SetRun(r, j), UNCHANGED cache
      PROVE  SaneInv'
  BY <1>2, <1>3
<1>4. ASSUME NEW r \in Runs, Begin(r)
      PROVE  SaneInv'
  <2>1. Sane([Fresh EXCEPT !.stage = Ask(1)])
    BY DEF Sane, Fresh, Ask, NoDatum
  <2> QED
    BY <1>3, <1>4, <2>1 DEF Begin
<1>5. ASSUME NEW r \in Runs, CheckTrust(r) \/ CacheMiss(r) \/ Quote(r)
      PROVE  SaneInv'
  <2>1. run[r].stage # "failed"
    BY <1>5 DEF CheckTrust, CacheMiss, Quote
  <2>2. PICK j : /\ SetRun(r, j)
                 /\ \/ j = Skipped(run[r])
                    \/ j = [run[r] EXCEPT !.stage = "checking"]
                    \/ j = [run[r] EXCEPT !.stage = "quoting"]
                    \/ \E price \in Prices : j = [run[r] EXCEPT !.stage = "paying", !.quote = price]
    BY <1>5 DEF CheckTrust, CacheMiss, Quote
  <2>3. Sane(j)
    <3>1. CASE j = Skipped(run[r])
      BY <1>1, <2>1, <3>1, SaneEnds
    <3>2. CASE j # Skipped(run[r])
      BY <1>1, <2>2, <3>2 DEF Sane, Run
    <3> QED
      BY <3>1, <3>2
  <2> QED
    BY <1>3, <1>5, <2>2, <2>3 DEF CheckTrust, CacheMiss, Quote
<1>6. ASSUME NEW r \in Runs, CacheHit(r)
      PROVE  SaneInv'
  <2>1. cache[At(r)] \in Payload \ {"misshapen"} /\ 0 \in Nat
    BY <1>1, <1>6 DEF CacheHit, SaneInv, IInv, TypeOK, Datum
  <2>2. Sane(Parsed(run[r], cache[At(r)], 0))
    BY <1>1, <1>6, <2>1, SaneEnds DEF CacheHit
  <2> QED
    BY <1>3, <1>6, <2>2 DEF CacheHit
<1>7. ASSUME NEW r \in Runs, Settle(r)
      PROVE  SaneInv'
  <2>1. PICK price : SetRun(r, [run[r] EXCEPT !.charged = price])
    BY <1>7 DEF Settle
  <2>2. Sane([run[r] EXCEPT !.charged = price])
    BY <1>1 DEF Sane, Run
  <2> QED
    BY <1>3, <1>7, <2>1, <2>2 DEF Settle
<1>8. ASSUME NEW r \in Runs, Respond(r)
      PROVE  SaneInv'
  <2>1. PICK payload \in Replies \cap Payload :
          SetRun(r, [run[r] EXCEPT !.stage = "recording", !.payload = payload])
    BY <1>8 DEF Respond
  <2>2. Sane([run[r] EXCEPT !.stage = "recording", !.payload = payload])
    BY <1>1, <2>1 DEF Gentle, Sane, Run
  <2> QED
    BY <1>3, <1>8, <2>1, <2>2 DEF Respond
<1>9. ASSUME NEW r \in Runs, Refuse(r) \/ Debit(r)
      PROVE  SaneInv'
  <2>1. Sane(Skipped(run[r]))
    BY <1>1, <1>9, SaneEnds DEF Refuse, Debit
  <2> QED
    BY <1>3, <1>9, <2>1 DEF Refuse, Debit
<1>10. ASSUME NEW r \in Runs, Lose(r)
       PROVE  SaneInv'
  <2>1. PICK fault \in Faults \ {"open"} : SetRun(r, Retried(run[r], fault))
    BY <1>10 DEF Lose
  <2>2. Sane(Retried(run[r], fault))
    BY <1>1, <1>10, <2>1, SaneEnds DEF Gentle, Lose
  <2> QED
    BY <1>3, <1>10, <2>1, <2>2 DEF Lose
<1>11. ASSUME NEW r \in Runs, Record(r)
       PROVE  SaneInv'
  <2>1. run[r].payload \in Payload \ {"misshapen"} /\ Committed(r) \in Nat
    BY <1>1, <1>11 DEF Record, IInv, RecordsADatum, Sane, Committed, Run
  <2>2. Sane(Parsed(run[r], run[r].payload, Committed(r)))
    BY <1>1, <1>11, <2>1, SaneEnds DEF Record
  <2>3. \A s \in Sources : cache'[s] \in {cache[s], run[r].payload}
    BY <1>11 DEF Record, IInv, TypeOK
  <2> QED
    BY <1>2, <1>11, <2>2, <2>3 DEF Record
<1>12. ASSUME NEW r \in Runs, Attribute(r)
       PROVE  SaneInv'
  <2>1. Sane(Done(run[r]))
    BY DEF Sane, Done, Fresh, NoDatum
  <2> QED
    BY <1>3, <1>12, <2>1 DEF Attribute
<1>13. ASSUME NEW s \in Sources, Expire(s)
       PROVE  SaneInv'
  BY <1>13 DEF Expire, SaneInv, IInv, TypeOK, NoDatum
<1>14. CASE UNCHANGED vars
  BY <1>14 DEF vars, SaneInv
<1>15. \A r \in Runs : ~Break(r) /\ ~StoreFails(r)
  BY DEF Gentle, Break, StoreFails
<1> QED
  BY <1>4, <1>5, <1>6, <1>7, <1>8, <1>9, <1>10, <1>11, <1>12, <1>13, <1>14, <1>15
     DEF Next, RunStep

\* Denied budgets, scores below the floor, unusable payloads, refusals, open
\* circuits and failing transports of peers are skipped with a note, as
\* CompositeSource documents: where nothing raises an exception it does not list,
\* only the primary can fail a run, in any crew and with any runs beside it.
THEOREM PeersNeverFatalGently == ASSUME Gentle PROVE Spec => []PeersNeverFatal
<1>1. Init => SaneInv
  BY CrewLemma DEF Init, SaneInv, Sane, Fresh, NoDatum
<1>2. IInv /\ SaneInv /\ [Next]_vars => SaneInv'
  BY SaneStep
<1>3. SaneInv => PeersNeverFatal
  BY DEF SaneInv, Sane, PeersNeverFatal, At
<1> QED
  BY <1>1, <1>2, <1>3, InvHolds, PTL DEF Spec

---------------------------------------------------------------------------
(* What a run has read may be stale when it pays, and for whom *)

\* A record j of run r is noted where what r has read no longer stands: r asked
\* the cache before its datum entered, or the score before it fell.
Heeds(r, j) ==
  LET s == Crew[j.at]
  IN /\ j.stage \in {"quoting", "paying"} /\ cache[s] # NoDatum => r \in amid[s]
     /\ j.stage \in {"checking", "quoting", "paying"} /\ s \in Peers /\ BelowFloor(s)
          => r \in unwarned[s]

\* The inductive invariant of what is stale.
StaleInv == \A r \in Runs : Heeds(r, run[r])

\* A record from which nothing is bought before something is read again.
Settled(j) ==
  j.stage \notin {"quoting", "paying"} /\ (j.stage = "checking" => Crew[j.at] \notin Peers)

\* However a gather ends, nothing is bought before something is read again.
LEMMA SettledEnds ==
  ASSUME NEW j \in Run
  PROVE  /\ Settled(Advanced(j)) /\ Settled(Failed(j)) /\ Settled(Skipped(j))
         /\ \A payload \in Payload, cost \in Nat : Settled(Parsed(j, payload, cost))
<1>1. ASSUME NEW k \in Run
      PROVE  Settled(Advanced(k))
  <2> DEFINE next == [k EXCEPT !.attempt = 0, !.quote = 0, !.charged = 0, !.payload = NoDatum]
  <2>1. /\ next.at = k.at
        /\ \A n, stage : /\ [next EXCEPT !.stage = "gathered"].stage = "gathered"
                         /\ [next EXCEPT !.stage = stage, !.at = @ + 1].stage = stage
                         /\ [next EXCEPT !.stage = stage, !.at = @ + 1].at = k.at + 1
    BY DEF Run
  <2>2. \/ Advanced(k).stage = "gathered"
        \/ Advanced(k).stage = Ask(k.at + 1) /\ Advanced(k).at = k.at + 1
    BY <2>1 DEF Advanced
  <2> QED
    BY <2>2 DEF Settled, Ask
<1>2. Settled(Failed(j))
  BY DEF Settled, Failed, Fresh
<1>3. Settled(Skipped(j))
  BY <1>1, <1>2 DEF Skipped
<1>4. ASSUME NEW payload \in Payload, NEW cost \in Nat
      PROVE  Settled(Parsed(j, payload, cost))
  <2>1. CASE payload = "good"
    <3> DEFINE k == [j EXCEPT !.cost = @ + cost, !.used = @ \cup {Crew[j.at]}]
    <3>1. k \in Run
      <4>1. j.cost + cost \in Nat /\ j.used \cup {Crew[j.at]} \in SUBSET Sources
        BY CrewLemma DEF Run
      <4> QED
        BY <4>1 DEF Run
    <3>2. Parsed(j, payload, cost) = Advanced(k)
      BY <2>1 DEF Parsed
    <3> QED
      BY <1>1, <3>1, <3>2
  <2>2. CASE payload # "good"
    <3>1. Parsed(j, payload, cost) \in {[j EXCEPT !.stage = "debiting"], Skipped(j), Failed(j)}
      BY <2>2 DEF Parsed, Payload
    <3>2. Settled([j EXCEPT !.stage = "debiting"])
      BY DEF Settled, Run
    <3> QED
      BY <1>2, <1>3, <3>1, <3>2
  <2> QED
    BY <2>1, <2>2
<1> QED
  BY <1>1, <1>2, <1>3, <1>4

\* A step of one run that leaves alone what the runs share.
LEMMA OwnStep ==
  ASSUME IInv, StaleInv, NEW r \in Runs, NEW j, SetRun(r, j), Heeds(r, j) \/ Settled(j),
         UNCHANGED <<cache, trust, amid, unwarned>>
  PROVE  StaleInv'
<1>1. Heeds(r, j)
  BY DEF Heeds, Settled
<1>2. \A q \in Runs : Heeds(q, run'[q])
  BY <1>1 DEF StaleInv, SetRun, IInv, TypeOK
<1>3. \A s : BelowFloor(s)' = BelowFloor(s)
  BY DEF BelowFloor
<1> QED
  BY <1>2, <1>3 DEF StaleInv, Heeds

\* A step by which the ledger holds more events: whoever is past a look at the
\* score that now falls below the floor is noted.
LEMMA LedgerStep ==
  ASSUME IInv, StaleInv, NEW r \in Runs, NEW j, SetRun(r, j), Settled(j),
         NEW rows \in [Sources -> [ok : Nat, fail : Nat]], Holds(rows),
         UNCHANGED <<cache, amid>>
  PROVE  StaleInv'
<1> SUFFICES ASSUME NEW q \in Runs PROVE Heeds(q, run[q])'
  BY DEF StaleInv
<1>1. CASE q = r
  <2>1. run'[q] = j
    BY <1>1 DEF SetRun, IInv, TypeOK
  <2> QED
    BY <2>1 DEF Heeds, Settled
<1>2. CASE q # r
  <2> DEFINE s == Crew[run[q].at]
  <2>1. run'[q] = run[q] /\ s \in Sources /\ s = At(q)
    BY <1>2, CrewLemma DEF SetRun, IInv, TypeOK, Run, At
  <2>2. Heeds(q, run[q])
    BY DEF StaleInv
  <2>3. ASSUME run[q].stage \in {"checking", "quoting", "paying"}, s \in Peers, Below(trust'[s])
        PROVE  q \in unwarned'[s]
    <3>1. Below(rows[s])
      BY <2>3 DEF Holds
    <3>2. CASE BelowFloor(s)
      BY <2>2, <2>3, <3>1, <3>2 DEF Heeds, Holds
    <3>3. CASE ~BelowFloor(s)
      <4>1. q \in Past(s)
        BY <2>1, <2>3 DEF Past
      <4> QED
        BY <2>3, <3>1, <3>3, <4>1 DEF Holds
    <3> QED
      BY <3>2, <3>3
  <2> QED
    BY <2>1, <2>2, <2>3 DEF Heeds, BelowFloor
<1> QED
  BY <1>1, <1>2

\* Every step keeps the notes.
LEMMA StaleStep ==
  ASSUME IInv, StaleInv, [Next]_vars
  PROVE  StaleInv'
<1>1. \A r \in Runs : run[r] \in Run /\ At(r) \in Sources /\ Heeds(r, run[r])
  BY CrewLemma DEF IInv, TypeOK, At, Run, StaleInv
<1>2. ASSUME NEW r \in Runs, Begin(r)
      PROVE  StaleInv'
  <2>1. Settled([Fresh EXCEPT !.stage = Ask(1)])
    BY DEF Settled, Fresh, Ask
  <2> QED
    BY <1>2, <2>1, OwnStep DEF Begin
<1>3. ASSUME NEW r \in Runs, CheckTrust(r)
      PROVE  StaleInv'
  <2> DEFINE next == [run[r] EXCEPT !.stage = "checking"]
  <2>1. next.stage = "checking" /\ Crew[next.at] = At(r)
    BY <1>1 DEF Run, At
  <2>2. CASE UNCHANGED unwarned /\ SetRun(r, IF BelowFloor(At(r)) THEN Skipped(run[r]) ELSE next)
    <3>1. Settled(Skipped(run[r]))
      BY <1>1, SettledEnds
    <3>2. ~BelowFloor(At(r)) => Heeds(r, next)
      BY <2>1 DEF Heeds
    <3> HIDE DEF next
    <3>3. PICK j : SetRun(r, j) /\ (Heeds(r, j) \/ Settled(j))
      BY <2>2, <3>1, <3>2
    <3> QED
      BY <1>3, <2>2, <3>3, OwnStep DEF CheckTrust
  <2>3. CASE SetRun(r, next) /\ unwarned' = [unwarned EXCEPT ![At(r)] = @ \cup {r}]
    <3>1. UNCHANGED <<cache, trust, amid>>
      BY <1>3 DEF CheckTrust
    <3>2. run' = [run EXCEPT ![r] = next]
      BY <2>3 DEF SetRun
    <3>3. ASSUME NEW q \in Runs
          PROVE  Heeds(q, run[q])'
      <4>1. \A s \in Peers : unwarned[s] \subseteq unwarned'[s]
        BY <2>3 DEF IInv, TypeOK
      <4>2. At(r) \in Peers => r \in unwarned'[At(r)]
        BY <2>3 DEF IInv, TypeOK
      <4>3. CASE q = r
        <5>1. run'[q] = next
          BY <3>2, <4>3 DEF IInv, TypeOK
        <5> QED
          BY <2>1, <4>2, <4>3, <5>1 DEF Heeds
      <4>4. CASE q # r
        <5>1. run'[q] = run[q] /\ Heeds(q, run[q])
          BY <1>1, <3>2, <4>4 DEF IInv, TypeOK
        <5> QED
          BY <3>1, <4>1, <5>1 DEF Heeds, BelowFloor
      <4> QED
        BY <4>3, <4>4
    <3> QED
      BY <3>3 DEF StaleInv
  <2> QED
    BY <1>3, <2>2, <2>3 DEF CheckTrust
<1>4. ASSUME NEW r \in Runs, CacheHit(r)
      PROVE  StaleInv'
  <2>1. cache[At(r)] \in Payload /\ 0 \in Nat
    BY <1>1, <1>4 DEF CacheHit, IInv, TypeOK, Datum
  <2>2. Settled(Parsed(run[r], cache[At(r)], 0))
    BY <1>1, <2>1, SettledEnds
  <2> QED
    BY <1>4, <2>2, OwnStep DEF CacheHit
<1>5. ASSUME NEW r \in Runs, CacheMiss(r)
      PROVE  StaleInv'
  <2> DEFINE next == [run[r] EXCEPT !.stage = "quoting"]
  <2>1. PICK j : SetRun(r, j) /\ j \in {Skipped(run[r]), next}
    BY <1>5 DEF CacheMiss
  <2>2. next.stage = "quoting" /\ next.at = run[r].at
    BY <1>1 DEF Run
  <2>3. Heeds(r, next)
    BY <1>1, <1>5, <2>2 DEF CacheMiss, Heeds, At
  <2>4. Heeds(r, j) \/ Settled(j)
    BY <1>1, <2>1, <2>3, SettledEnds
  <2> QED
    BY <1>5, <2>1, <2>4, OwnStep DEF CacheMiss
<1>6. ASSUME NEW r \in Runs, Quote(r) \/ Lose(r)
      PROVE  StaleInv'
  <2>1. PICK j : /\ SetRun(r, j)
                 /\ \/ j = Skipped(run[r]) \/ j = Failed(run[r])
                    \/ j.stage \in {"quoting", "paying"} /\ j.at = run[r].at
    <3>1. CASE Quote(r)
      <4>1. \A price : LET k == [run[r] EXCEPT !.stage = "paying", !.quote = price]
                       IN  k.stage = "paying" /\ k.at = run[r].at
        BY <1>1 DEF Run
      <4> QED
        BY <3>1, <4>1 DEF Quote
    <3>2. CASE Lose(r)
      <4> DEFINE k == [run[r] EXCEPT !.stage = "quoting", !.attempt = @ + 1, !.quote = 0, !.charged = 0]
      <4>1. k.stage = "quoting" /\ k.at = run[r].at
        BY <1>1 DEF Run
      <4>2. \A fault : Retried(run[r], fault) \in {k, Failed(run[r]), Skipped(run[r])}
        BY DEF Retried
      <4> HIDE DEF k
      <4> QED
        BY <3>2, <4>1, <4>2 DEF Lose
    <3> QED
      BY <1>6, <3>1, <3>2
  <2>2. /\ run[r].stage \in {"quoting", "paying"}
        /\ UNCHANGED <<cache, trust, amid, unwarned>>
    BY <1>6 DEF Quote, Lose
  <2>3. Heeds(r, j) \/ Settled(j)
    <3>1. CASE j = Skipped(run[r]) \/ j = Failed(run[r])
      BY <1>1, <3>1, SettledEnds
    <3>2. CASE j.stage \in {"quoting", "paying"} /\ j.at = run[r].at
      BY <1>1, <2>2, <3>2 DEF Heeds
    <3> QED
      BY <2>1, <3>1, <3>2
  <2> QED
    BY <2>1, <2>2, <2>3, OwnStep
<1>7. ASSUME NEW r \in Runs, Settle(r)
      PROVE  StaleInv'
  <2>1. PICK price : SetRun(r, [run[r] EXCEPT !.charged = price])
    BY <1>7 DEF Settle
  <2> DEFINE j == [run[r] EXCEPT !.charged = price]
  <2>2. j.stage = run[r].stage /\ j.at = run[r].at
    BY <1>1 DEF Run
  <2>3. Heeds(r, j)
    BY <1>1, <2>2 DEF Heeds
  <2> HIDE DEF j
  <2> QED
    BY <1>7, <2>1, <2>3, OwnStep DEF Settle, j
<1>8. ASSUME NEW r \in Runs, Respond(r)
      PROVE  StaleInv'
  <2>1. PICK payload : SetRun(r, [run[r] EXCEPT !.stage = "recording", !.payload = payload])
    BY <1>8 DEF Respond
  <2>2. Settled([run[r] EXCEPT !.stage = "recording", !.payload = payload])
    BY <1>1 DEF Settled, Run
  <2> QED
    BY <1>8, <2>1, <2>2, OwnStep DEF Respond
<1>9. ASSUME NEW r \in Runs, Refuse(r) \/ Break(r) \/ StoreFails(r)
      PROVE  StaleInv'
  <2>1. Settled(Skipped(run[r])) /\ Settled(Failed(run[r]))
    BY <1>1, SettledEnds
  <2>2. PICK j \in {Skipped(run[r]), Failed(run[r])} : SetRun(r, j)
    BY <1>9 DEF Refuse, Break, StoreFails
  <2>3. UNCHANGED <<cache, trust, amid, unwarned>>
    BY <1>9 DEF Refuse, Break, StoreFails
  <2> QED
    BY <2>1, <2>2, <2>3, OwnStep
<1>10. ASSUME NEW r \in Runs, Record(r)
       PROVE  StaleInv'
  <2> DEFINE next == Parsed(run[r], run[r].payload, Committed(r))
  <2>1. Settled(next)
    <3>1. run[r].payload \in Payload /\ Committed(r) \in Nat
      BY <1>1, <1>10 DEF Record, IInv, RecordsADatum, Committed, Run
    <3> QED
      BY <1>1, <3>1, SettledEnds
  <2> HIDE DEF next
  <2>2. ASSUME NEW q \in Runs
        PROVE  Heeds(q, run[q])'
    <3>1. CASE q = r
      <4>1. run'[q] = next
        BY <1>10, <3>1 DEF Record, SetRun, IInv, TypeOK, next
      <4> QED
        BY <2>1, <4>1 DEF Heeds, Settled
    <3>2. CASE q # r
      <4>1. run'[q] = run[q] /\ UNCHANGED <<trust, unwarned>>
        BY <1>10, <3>2 DEF Record, SetRun, IInv, TypeOK
      <4>2. ASSUME run[q].stage \in {"quoting", "paying"}, cache'[At(q)] # NoDatum
            PROVE  q \in amid'[At(q)]
        <5>1. CASE At(q) = At(r) /\ cache[At(r)] = NoDatum
          <6>1. amid'[At(q)] = Buying(At(q))
            BY <1>1, <1>10, <5>1 DEF Record, IInv, TypeOK
          <6> QED
            BY <4>2, <6>1 DEF Buying
        <5>2. CASE ~(At(q) = At(r) /\ cache[At(r)] = NoDatum)
          <6>1. cache[At(q)] # NoDatum /\ amid'[At(q)] = amid[At(q)]
            BY <1>1, <1>10, <4>2, <5>2 DEF Record, IInv, TypeOK
          <6> QED
            BY <1>1, <4>2, <6>1 DEF Heeds, At
        <5> QED
          BY <5>1, <5>2
      <4> QED
        BY <1>1, <4>1, <4>2 DEF Heeds, BelowFloor, At
    <3> QED
      BY <3>1, <3>2
  <2> QED
    BY <2>2 DEF StaleInv
<1>11. ASSUME NEW r \in Runs, Debit(r)
       PROVE  StaleInv'
  <2>1. SetRun(r, Skipped(run[r])) /\ Settled(Skipped(run[r])) /\ UNCHANGED <<cache, amid>>
    BY <1>1, <1>11, SettledEnds DEF Debit
  <2>2. CASE UNCHANGED <<trust, unwarned>>
    BY <2>1, <2>2, OwnStep
  <2>3. CASE Holds([trust EXCEPT ![At(r)].fail = @ + 1])
    <3>1. \A s \in Sources : [trust[s] EXCEPT !.fail = @ + 1] \in [ok : Nat, fail : Nat]
      BY DEF IInv, TypeOK
    <3>2. [trust EXCEPT ![At(r)].fail = @ + 1] \in [Sources -> [ok : Nat, fail : Nat]]
      BY <1>1, <3>1 DEF IInv, TypeOK
    <3> QED
      BY <2>1, <2>3, <3>2, LedgerStep
  <2> QED
    BY <1>11, <2>2, <2>3 DEF Debit
<1>12. ASSUME NEW r \in Runs, Attribute(r)
       PROVE  StaleInv'
  <2>1. Settled(Done(run[r]))
    BY DEF Settled, Done, Fresh
  <2>2. \A s \in Sources :
          /\ trust[s] \in [ok : Nat, fail : Nat]
          /\ [trust[s] EXCEPT !.ok = @ + 1] \in [ok : Nat, fail : Nat]
          /\ [trust[s] EXCEPT !.fail = @ + 1] \in [ok : Nat, fail : Nat]
    BY DEF IInv, TypeOK
  <2>3. PICK rows \in [Sources -> [ok : Nat, fail : Nat]] : Holds(rows)
    BY <1>12, <2>2 DEF Attribute
  <2> QED
    BY <1>12, <2>1, <2>3, LedgerStep DEF Attribute
<1>13. ASSUME NEW s \in Sources, Expire(s)
       PROVE  StaleInv'
  <2>1. /\ UNCHANGED <<run, trust, unwarned>>
        /\ cache'[s] = NoDatum
        /\ \A t \in Sources \ {s} : cache'[t] = cache[t] /\ amid'[t] = amid[t]
    BY <1>13 DEF Expire, IInv, TypeOK
  <2>2. ASSUME NEW r \in Runs
        PROVE  Heeds(r, run[r])'
    <3>1. Crew[run[r].at] \in Sources /\ Heeds(r, run[r])
      BY <1>1 DEF At
    <3> QED
      BY <2>1, <3>1 DEF Heeds, BelowFloor
  <2> QED
    BY <2>2 DEF StaleInv
<1>14. CASE UNCHANGED vars
  BY <1>14 DEF vars, StaleInv, Heeds, BelowFloor
<1> QED
  BY <1>2, <1>3, <1>4, <1>5, <1>6, <1>7, <1>8, <1>9, <1>10, <1>11, <1>12, <1>13, <1>14
     DEF Next, RunStep

\* They are right in every behaviour.
LEMMA StaleHolds == Spec => []StaleInv
<1>1. Init => StaleInv
  BY DEF Init, StaleInv, Heeds, Fresh
<1>2. IInv /\ StaleInv /\ [Next]_vars => StaleInv'
  BY StaleStep
<1> QED
  BY <1>1, <1>2, InvHolds, PTL DEF Spec

\* Money moves in a step of the buyer's own paying request only.
LEMMA PaysWhilePaying ==
  ASSUME IInv, [Next]_vars, NEW r \in Runs, Pays(r)
  PROVE  run[r].stage = "paying"
<1>1. PICK q \in Runs : Settle(q)
  BY DEF Pays, Next, vars, RunStep, Begin, CheckTrust, CacheHit, CacheMiss, Quote, Respond,
     Refuse, Lose, Break, StoreFails, Record, Debit, Attribute, Expire
<1>2. q = r
  BY <1>1 DEF Pays, Settle, IInv, TypeOK
<1> QED
  BY <1>1, <1>2 DEF Settle

\* Any number of runs at once: a datum the cache holds is paid for again only by
\* a run that had asked for it before it was there, whatever fails or expires in
\* between.
THEOREM RebuyNeedsOverlapAlways == Spec => RebuyNeedsOverlap
<1>1. IInv /\ StaleInv /\ [Next]_vars
        => [\A r \in Runs : Pays(r) /\ cache[At(r)] # NoDatum => r \in amid[At(r)]]_vars
  BY PaysWhilePaying DEF StaleInv, Heeds, At
<1> QED
  BY <1>1, InvHolds, StaleHolds, PTL DEF Spec, RebuyNeedsOverlap

\* Any number of runs at once: money moves to a peer below the floor only from a
\* run that had looked at its score before it fell, or could not look.
THEOREM DistrustedUnpaidAlways == Spec => DistrustedUnpaid
<1>1. IInv /\ StaleInv /\ [Next]_vars
        => [\A r \in Runs : Pays(r) /\ At(r) \in Peers /\ BelowFloor(At(r))
                            => r \in unwarned[At(r)]]_vars
  BY PaysWhilePaying DEF StaleInv, Heeds, At
<1> QED
  BY <1>1, InvHolds, StaleHolds, PTL DEF Spec, DistrustedUnpaid
=============================================================================
