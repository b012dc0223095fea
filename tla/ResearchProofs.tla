--------------------------- MODULE ResearchProofs ---------------------------
(***************************************************************************)
(* Proofs about Research, for any requests, versions of the data, prices,  *)
(* retries and crashes, with the debate and the judge on or off.           *)
(***************************************************************************)
EXTENDS Research, TLAPS

Unwritten == {"idle", "gathering", "looking", "debating", "writing", "judging"}
Storing   == {"finding insight", "saving insight", "finding memo", "saving memo"}
Shipping  == {"settling", "auditing", "delivered"}

\* A run that may ship: a memo the gate passes against its facts, judged.
Ready(j) ==
  /\ j.snap \in Versions /\ j.memo \in Memo
  /\ Passes(j.memo, j.snap)
  /\ EnableJudge => j.memo.judged

\* What the locals of a run know at each of its stages.
Sound(j) ==
  /\ j \in Run
  /\ j.stage \in Unwritten => j.status = "rejected"
  /\ j.stage \in {"idle", "gathering", "looking", "debating"} => j.attempts = 0
  /\ j.stage = "writing" => j.attempts < MaxAttempts
  /\ j.stage \in {"looking", "debating", "writing", "judging", "booking"} => j.snap \in Versions
  /\ j.stage = "judging" => j.memo \in Memo /\ Passes(j.memo, j.snap)
  /\ j.status = "ok" \/ j.stage \in Shipping => Ready(j)
  /\ j.stage \in Storing => j.status = "ok"

RunsAreSound == \A r \in Runs : Sound(run[r])

\* The row of query_records of a sale.
Sold(r) == ledger[r] \in Query /\ ledger[r].status = "ok" /\ ledger[r].price = PriceOut

\* What is stored, paid or audited was booked before.
Booked(r, stage) ==
  /\ stage \in Storing \cup {"settling", "auditing"} => Sold(r)
  /\ stage \in {"settling", "auditing"} => r \in Paid
  /\ stage = "auditing" => r \in settled

\* The same of the state after a step that moves the run to the stage.
BookedNext(r, stage) ==
  /\ stage \in Storing \cup {"settling", "auditing"} => Sold(r)'
  /\ stage \in {"settling", "auditing"} => r \in Paid
  /\ stage = "auditing" => r \in settled'

BookedFirst == \A r \in Runs : Booked(r, run[r].stage)

\* A captured payment is for a sale, and only a crash keeps its memo back.
Captured ==
  \A r \in settled :
    /\ r \in Paid /\ Sold(r)
    /\ run[r].stage \in {"auditing", "delivered", "refused"}
    /\ run[r].stage = "refused" => crashes > 0

\* The memo cache holds judged memos, and rows are never deleted.
CacheIsJudged == EnableJudge /\ cache \in Entry => cache.memo.judged
FoundStays    == \A r \in Runs : run[r].found # None => cache \in Entry

\* The inductive invariant of the pipeline.
IInv ==
  /\ TypeOK
  /\ RunsAreSound /\ BookedFirst /\ Captured
  /\ CacheIsJudged /\ FoundStays
  /\ receipts \subseteq settled

\* A run not begun, and one that was refused, are sound and found nothing.
LEMMA FreshLemma ==
  /\ Fresh \in Run
  /\ Sound(Fresh)
  /\ Sound(Refused) /\ Refused.stage = "refused" /\ Refused.found = None
<1>1. 0 \in 0..MaxAttempts
  BY PolicyAssumption
<1>2. Fresh \in Run
  BY <1>1 DEF Fresh, Run, Stage
<1> QED
  BY <1>2 DEF Sound, Refused, Fresh, Run, Stage, Unwritten, Storing, Shipping

---------------------------------------------------------------------------
(* One run takes a step that neither captures a payment nor is one. *)

\* A step of one run keeps the invariant when its new record is sound and the
\* shared tables keep their types.
LEMMA RunStepLemma ==
  ASSUME IInv, NEW r \in Runs, NEW j,
         Sound(j),
         SetRun(r, j),
         run[r].stage \notin {"auditing", "delivered", "refused"},
         j.found # None => cache' \in Entry,
         BookedNext(r, j.stage),
         world' \in Versions, insight' \in BOOLEAN, spent' \in [Runs -> Nat],
         cache' \in Entry \cup {None}, cache \in Entry => cache' \in Entry, CacheIsJudged',
         ledger' \in [Runs -> Query \cup {None}],
         \A p \in Runs \ {r} : ledger'[p] = ledger[p],
         UNCHANGED <<settled, receipts, crashes>>
  PROVE  IInv'
<1>1. run' \in [Runs -> Run] /\ run'[r] = j /\ \A p \in Runs \ {r} : run'[p] = run[p]
  BY DEF IInv, TypeOK, SetRun, Sound
<1>2. r \notin settled
  BY DEF IInv, Captured
<1>3. TypeOK'
  BY <1>1 DEF IInv, TypeOK
<1>4. RunsAreSound'
  BY <1>1 DEF IInv, RunsAreSound
<1>5. BookedFirst'
  BY <1>1 DEF IInv, BookedFirst, Booked, BookedNext, Sold
<1>6. Captured'
  BY <1>1, <1>2 DEF IInv, TypeOK, Captured, Sold
<1>7. FoundStays'
  BY <1>1 DEF IInv, FoundStays
<1> QED
  BY <1>3, <1>4, <1>5, <1>6, <1>7 DEF IInv

\* The steps that move the run alone, short of the payment.
LEMMA LocalStep ==
  ASSUME IInv, NEW r \in Runs, NEW j,
         Sound(j),
         SetRun(r, j),
         run[r].stage \notin {"auditing", "delivered", "refused"},
         j.found # None => cache \in Entry,
         Booked(r, j.stage),
         insight' \in BOOLEAN, spent' \in [Runs -> Nat],
         UNCHANGED <<world, cache, ledger, settled, receipts, crashes>>
  PROVE  IInv'
<1>1. BookedNext(r, j.stage) /\ CacheIsJudged' /\ cache' \in Entry \cup {None}
  BY DEF IInv, TypeOK, Booked, BookedNext, Sold, CacheIsJudged
<1>2. world' \in Versions /\ ledger' \in [Runs -> Query \cup {None}]
  BY DEF IInv, TypeOK
<1> QED
  BY <1>1, <1>2, RunStepLemma

\* A run that ends without its memo.
LEMMA RefusedStep ==
  ASSUME IInv, NEW r \in Runs,
         SetRun(r, Refused),
         run[r].stage \notin {"auditing", "delivered", "refused"},
         insight' \in BOOLEAN, spent' \in [Runs -> Nat],
         UNCHANGED <<world, cache, ledger, settled, receipts, crashes>>
  PROVE  IInv'
<1>1. Booked(r, Refused.stage)
  BY FreshLemma DEF Booked, Storing
<1> QED
  BY <1>1, FreshLemma, LocalStep

---------------------------------------------------------------------------
(* The graph *)

\* A run begins with nothing found and nothing written.
LEMMA BeginLemma ==
  ASSUME IInv, NEW r \in Runs, Begin(r)
  PROVE  IInv'
<1> DEFINE j == [run[r] EXCEPT !.stage = "gathering"]
<1>1. run[r] \in Run /\ Sound(run[r]) /\ run[r].stage = "idle" /\ insight \in BOOLEAN
      /\ spent \in [Runs -> Nat]
  BY DEF IInv, TypeOK, RunsAreSound, Begin
<1>2. CASE SetRun(r, j)
  <2>1. j \in Run /\ j.stage = "gathering" /\ j.found = run[r].found /\ j.memo = run[r].memo
        /\ j.status = run[r].status /\ j.attempts = run[r].attempts /\ j.snap = run[r].snap
    BY <1>1 DEF Run, Stage
  <2>2. Sound(j)
    BY <1>1, <2>1 DEF Sound, Ready, Unwritten, Storing, Shipping
  <2>3. Booked(r, j.stage) /\ (j.found # None => cache \in Entry)
    BY <2>1 DEF Booked, Storing, IInv, FoundStays
  <2> QED
    BY <1>1, <1>2, <2>2, <2>3, LocalStep DEF Begin
<1>3. CASE SetRun(r, ErrorRun)
  BY <1>1, <1>3, RefusedStep DEF Begin, ErrorRun
<1> QED
  BY <1>2, <1>3 DEF Begin

\* Gathering leaves the run unwritten.
LEMMA GatherLemma ==
  ASSUME IInv, NEW r \in Runs, Gather(r)
  PROVE  IInv'
<1>1. PICK cost \in DataCosts :
        /\ spent' = [spent EXCEPT ![r] = cost]
        /\ \/ SetRun(r, [run[r] EXCEPT !.stage = "looking", !.snap = world, !.data = cost])
           \/ SetRun(r, ErrorRun)
  BY DEF Gather
<1> DEFINE j == [run[r] EXCEPT !.stage = "looking", !.snap = world, !.data = cost]
<1>2. run[r] \in Run /\ Sound(run[r]) /\ run[r].stage = "gathering" /\ insight \in BOOLEAN
      /\ world \in Versions
  BY DEF IInv, TypeOK, RunsAreSound, Gather
<1>3. cost \in Nat /\ spent' \in [Runs -> Nat]
  BY <1>1, DataAssumption DEF IInv, TypeOK
<1>4. CASE SetRun(r, j)
  <2>1. j \in Run /\ j.stage = "looking" /\ j.found = run[r].found
        /\ j.status = run[r].status /\ j.attempts = run[r].attempts /\ j.snap = world
    BY <1>2, <1>3 DEF Run, Stage
  <2>2. Sound(j)
    BY <1>2, <2>1 DEF Sound, Unwritten, Storing, Shipping
  <2>3. Booked(r, j.stage) /\ (j.found # None => cache \in Entry)
    BY <2>1 DEF Booked, Storing, IInv, FoundStays
  <2> QED
    BY <1>2, <1>3, <1>4, <2>2, <2>3, LocalStep DEF Gather
<1>5. CASE SetRun(r, ErrorRun)
  BY <1>2, <1>3, <1>5, RefusedStep DEF Gather, ErrorRun
<1> QED
  BY <1>1, <1>4, <1>5

\* A memo is served from the cache only if it passes; otherwise the run goes
\* on to write one.
LEMMA LookUpLemma ==
  ASSUME IInv, NEW r \in Runs, LookUp(r)
  PROVE  IInv'
<1> DEFINE hit == /\ cache # None /\ cache.fresh /\ cache.print = Fingerprint[run[r].snap]
                  /\ Passes(cache.memo, run[r].snap)
           j == [run[r] EXCEPT !.stage = "booking", !.memo = cache.memo,
                               !.cached = TRUE, !.status = "ok"]
           k == Missed(run[r])
<1>1. run[r] \in Run /\ Sound(run[r]) /\ run[r].stage = "looking" /\ insight \in BOOLEAN
      /\ cache \in Entry \cup {None} /\ spent \in [Runs -> Nat] /\ run[r].snap \in Versions
  BY DEF IInv, TypeOK, RunsAreSound, LookUp, Sound
<1>2. CASE hit
  <2>1. cache.memo \in Memo
    BY <1>1, <1>2 DEF Entry
  <2>2. j \in Run /\ j.stage = "booking" /\ j.found = run[r].found /\ j.memo = cache.memo
        /\ j.status = "ok" /\ j.snap = run[r].snap
    BY <1>1, <2>1 DEF Run, Stage
  <2>3. Ready(j)
    BY <1>1, <1>2, <2>1, <2>2 DEF Ready, IInv, CacheIsJudged
  <2>4. Sound(j)
    BY <1>1, <2>2, <2>3 DEF Sound, Unwritten, Storing
  <2>5. Booked(r, j.stage) /\ (j.found # None => cache \in Entry)
    BY <2>2 DEF Booked, Storing, IInv, FoundStays
  <2>6. SetRun(r, j)
    BY <1>2 DEF LookUp
  <2> QED
    BY <1>1, <2>4, <2>5, <2>6, LocalStep DEF LookUp
<1>3. CASE ~hit
  <2>1. k \in Run /\ k.stage \in {"debating", "writing"} /\ k.found = run[r].found
        /\ k.status = run[r].status /\ k.attempts = run[r].attempts /\ k.snap = run[r].snap
    BY <1>1 DEF Run, Stage, Missed
  <2>2. Sound(k)
    <3> HIDE DEF k
    <3>1. run[r].attempts = 0 /\ 0 < MaxAttempts /\ run[r].status = "rejected"
      BY <1>1, PolicyAssumption DEF Sound, Unwritten
    <3> QED
      BY <1>1, <2>1, <3>1 DEF Sound, Unwritten, Storing, Shipping
  <2>3. Booked(r, k.stage) /\ (k.found # None => cache \in Entry)
    BY <2>1 DEF Booked, Storing, IInv, FoundStays
  <2>4. SetRun(r, k)
    BY <1>3 DEF LookUp
  <2> QED
    BY <1>1, <2>2, <2>3, <2>4, LocalStep DEF LookUp
<1> QED
  BY <1>2, <1>3

\* The debate spends, and moves the run on.
LEMMA DebateLemma ==
  ASSUME IInv, NEW r \in Runs, Debate(r)
  PROVE  IInv'
<1> DEFINE j == [run[r] EXCEPT !.stage = "writing"]
<1>1. run[r] \in Run /\ Sound(run[r]) /\ run[r].stage = "debating" /\ insight \in BOOLEAN
      /\ spent \in [Runs -> Nat]
  BY DEF IInv, TypeOK, RunsAreSound, Debate, Moves
<1>2. j \in Run /\ j.stage = "writing" /\ j.found = run[r].found
      /\ j.status = run[r].status /\ j.attempts = run[r].attempts /\ j.snap = run[r].snap
  BY <1>1 DEF Run, Stage
<1>3. Sound(j)
  BY <1>1, <1>2, PolicyAssumption DEF Sound, Unwritten, Storing, Shipping
<1>4. Booked(r, j.stage) /\ (j.found # None => cache \in Entry)
  BY <1>2 DEF Booked, Storing, IInv, FoundStays
<1> QED
  BY <1>1, <1>3, <1>4, LocalStep DEF Debate, Moves

\* A memo that is written is of the snapshot its run gathered, and goes
\* through the gate.
LEMMA SynthesizeLemma ==
  ASSUME IInv, NEW r \in Runs, Synthesize(r)
  PROVE  IInv'
<1>1. PICK well \in BOOLEAN :
        LET memo == [by |-> r, of |-> run[r].snap, sourced |-> well, judged |-> FALSE]
        IN SetRun(r, Gated([run[r] EXCEPT !.memo = memo, !.attempts = @ + 1]))
  BY DEF Synthesize
<1> DEFINE memo == [by |-> r, of |-> run[r].snap, sourced |-> well, judged |-> FALSE]
           w == [run[r] EXCEPT !.memo = memo, !.attempts = @ + 1]
           j == Gated(w)
<1>2. run[r] \in Run /\ Sound(run[r]) /\ run[r].stage = "writing" /\ insight \in BOOLEAN
      /\ spent \in [Runs -> Nat] /\ run[r].snap \in Versions /\ run[r].attempts < MaxAttempts
      /\ run[r].status = "rejected"
  BY DEF IInv, TypeOK, RunsAreSound, Synthesize, Sound, Unwritten
<1>3. memo \in Memo
  BY <1>2 DEF Memo
<1>4. run[r].attempts + 1 \in 0..MaxAttempts
  BY <1>2, PolicyAssumption DEF Run
<1>5. w \in Run /\ w.memo = memo /\ w.snap = run[r].snap /\ w.found = run[r].found
      /\ w.status = "rejected"
  BY <1>2, <1>3, <1>4 DEF Run
<1>6. /\ j \in Run /\ j.memo = memo /\ j.snap = run[r].snap /\ j.found = run[r].found
      /\ j.status = "rejected" /\ j.stage \in {"judging", "writing", "booking"}
      /\ j.stage = "writing" => j.attempts < MaxAttempts
      /\ j.stage = "judging" => Passes(j.memo, j.snap)
  BY <1>5 DEF Gated, Run, Stage
<1>7. Sound(j)
  BY <1>2, <1>3, <1>6 DEF Sound, Unwritten, Storing, Shipping
<1>8. Booked(r, j.stage) /\ (j.found # None => cache \in Entry)
  BY <1>6 DEF Booked, Storing, IInv, FoundStays
<1> QED
  BY <1>1, <1>2, <1>7, <1>8, LocalStep DEF Synthesize

\* A memo that the judge accepts passes; without one, the run is booked as
\* rejected.
LEMMA JudgeLemma ==
  ASSUME IInv, NEW r \in Runs, Judge(r)
  PROVE  IInv'
<1> DEFINE j == [run[r] EXCEPT !.stage = "booking", !.status = "ok",
                               !.memo.judged = EnableJudge]
           k == [run[r] EXCEPT !.stage = "booking"]
<1>1. run[r] \in Run /\ Sound(run[r]) /\ run[r].stage = "judging" /\ insight \in BOOLEAN
      /\ spent \in [Runs -> Nat] /\ run[r].snap \in Versions /\ run[r].status = "rejected"
      /\ run[r].memo \in Memo /\ Passes(run[r].memo, run[r].snap)
  BY DEF IInv, TypeOK, RunsAreSound, Judge, Sound, Unwritten
<1>2. CASE SetRun(r, j)
  <2>1. [run[r].memo EXCEPT !.judged = EnableJudge] \in Memo
    BY <1>1, PolicyAssumption DEF Memo
  <2>2. j \in Run /\ j.stage = "booking" /\ j.found = run[r].found /\ j.status = "ok"
        /\ j.snap = run[r].snap /\ j.memo = [run[r].memo EXCEPT !.judged = EnableJudge]
    BY <1>1, <2>1 DEF Run, Stage
  <2>3. j.memo.sourced = run[r].memo.sourced /\ j.memo.of = run[r].memo.of
        /\ j.memo.judged = EnableJudge
    BY <1>1, <2>2 DEF Memo
  <2>4. Ready(j)
    BY <1>1, <2>1, <2>2, <2>3 DEF Ready, Passes
  <2>5. Sound(j)
    BY <1>1, <2>2, <2>4 DEF Sound, Unwritten, Storing
  <2>6. Booked(r, j.stage) /\ (j.found # None => cache \in Entry)
    BY <2>2 DEF Booked, Storing, IInv, FoundStays
  <2> QED
    BY <1>1, <1>2, <2>5, <2>6, LocalStep DEF Judge
<1>3. CASE SetRun(r, k)
  <2>1. k \in Run /\ k.stage = "booking" /\ k.found = run[r].found
        /\ k.status = "rejected" /\ k.snap = run[r].snap
    BY <1>1 DEF Run, Stage
  <2>2. Sound(k)
    BY <1>1, <2>1 DEF Sound, Unwritten, Storing, Shipping
  <2>3. Booked(r, k.stage) /\ (k.found # None => cache \in Entry)
    BY <2>1 DEF Booked, Storing, IInv, FoundStays
  <2> QED
    BY <1>1, <1>3, <2>2, <2>3, LocalStep DEF Judge
<1> QED
  BY <1>2, <1>3 DEF Judge

\* A node that raises refuses the run.
LEMMA NodeFailsLemma ==
  ASSUME IInv, NEW r \in Runs, NodeFails(r)
  PROVE  IInv'
BY RefusedStep DEF NodeFails, ErrorRun, IInv, TypeOK

---------------------------------------------------------------------------
(* After the graph *)

\* An answer is sound, holds nothing it looked up, and is settled only if it
\* was paid for.
LEMMA AnsweredLemma ==
  ASSUME NEW r \in Runs, NEW j, Sound(j), Ready(j)
  PROVE  /\ Sound(Answered(r, j))
         /\ Answered(r, j).found = None
         /\ Answered(r, j).stage \in {"settling", "delivered", "refused"}
         /\ Answered(r, j).stage = "settling" => r \in Paid
<1> DEFINE stage == IF r \in Paid THEN "settling" ELSE "delivered"
           k == [Fresh EXCEPT !.stage = stage, !.memo = j.memo, !.snap = j.snap]
<1>1. stage \in {"settling", "delivered"} /\ (stage = "settling" => r \in Paid)
  OBVIOUS
<1> HIDE DEF stage
<1>2. k \in Run /\ k.stage = stage /\ k.memo = j.memo /\ k.snap = j.snap
      /\ k.found = None /\ k.status = "rejected"
  BY <1>1, FreshLemma DEF Fresh, Run, Stage, Ready
<1>3. Sound(k)
  BY <1>1, <1>2 DEF Sound, Ready, Unwritten, Storing, Shipping
<1>4. CASE j.status = "ok"
  <2>1. Answered(r, j) = k
    BY <1>4 DEF Answered, stage
  <2> QED
    BY <1>1, <1>2, <1>3, <2>1
<1>5. CASE j.status # "ok"
  <2>1. Answered(r, j) = Refused
    BY <1>5 DEF Answered
  <2> QED
    BY <2>1, FreshLemma
<1> QED
  BY <1>4, <1>5

\* A query is booked once, with the status of its run and the price of that
\* status.
LEMMA BookLemma ==
  ASSUME IInv, NEW r \in Runs, Book(r)
  PROVE  IInv'
<1> DEFINE q == [status |-> run[r].status, data |-> run[r].data,
                 price |-> IF run[r].status = "ok" THEN PriceOut ELSE 0]
           stored == [run[r] EXCEPT !.stage = "finding insight"]
<1>1. run[r] \in Run /\ Sound(run[r]) /\ run[r].stage = "booking" /\ insight \in BOOLEAN
      /\ spent \in [Runs -> Nat] /\ world \in Versions /\ run[r].snap \in Versions
      /\ cache \in Entry \cup {None} /\ CacheIsJudged'
  BY DEF IInv, TypeOK, RunsAreSound, Book, Sound, CacheIsJudged
<1>2. q \in Query /\ (run[r].status = "ok" => q.status = "ok" /\ q.price = PriceOut)
  BY <1>1, PolicyAssumption DEF Query, Run
<1> HIDE DEF q
<1>3. /\ ledger' \in [Runs -> Query \cup {None}] /\ ledger'[r] = q
      /\ \A p \in Runs \ {r} : ledger'[p] = ledger[p]
  BY <1>2 DEF IInv, TypeOK, Book, q
<1>4. CASE run[r].status = "ok"
  <2>1. Ready(run[r]) /\ Sold(r)'
    BY <1>1, <1>2, <1>3, <1>4 DEF Sound, Sold
  <2>2. CASE run[r].cached
    <3> DEFINE j == Answered(r, run[r])
    <3>1. SetRun(r, j)
      BY <2>2 DEF Book
    <3>2. Sound(j) /\ j.found = None /\ BookedNext(r, j.stage)
      <4>1. Sound(run[r]) /\ Ready(run[r])
        BY <1>1, <2>1
      <4>2. Sound(j) /\ j.found = None /\ j.stage \in {"settling", "delivered", "refused"}
            /\ (j.stage = "settling" => r \in Paid)
        BY <4>1, AnsweredLemma
      <4> HIDE DEF j
      <4> QED
        BY <2>1, <4>2 DEF BookedNext, Storing
    <3> QED
      BY <1>1, <1>3, <3>1, <3>2, RunStepLemma DEF Book
  <2>3. CASE ~run[r].cached
    <3>1. SetRun(r, stored)
      BY <1>4, <2>3 DEF Book
    <3>2. stored \in Run /\ stored.stage = "finding insight" /\ stored.found = run[r].found
          /\ stored.status = "ok" /\ stored.snap = run[r].snap /\ stored.memo = run[r].memo
      BY <1>1, <1>4 DEF Run, Stage
    <3>3. Sound(stored)
      BY <1>1, <2>1, <3>2 DEF Sound, Ready, Unwritten, Shipping
    <3>4. BookedNext(r, stored.stage) /\ (stored.found # None => cache' \in Entry)
      BY <2>1, <3>2 DEF BookedNext, IInv, FoundStays, Book
    <3> QED
      BY <1>1, <1>3, <3>1, <3>3, <3>4, RunStepLemma DEF Book
  <2> QED
    BY <2>2, <2>3
<1>5. CASE run[r].status # "ok"
  <2>1. SetRun(r, Refused)
    BY <1>5 DEF Book, Answered
  <2>2. BookedNext(r, Refused.stage)
    BY FreshLemma DEF BookedNext, Storing
  <2> QED
    BY <1>1, <1>3, <2>1, <2>2, FreshLemma, RunStepLemma DEF Book
<1> QED
  BY <1>4, <1>5

\* A storing run moves to the next storing stage.
LEMMA StoringLemma ==
  ASSUME IInv, NEW r \in Runs, run[r].stage \in Storing,
         NEW j \in Run, j.stage \in Storing, j.found \in {run[r].found, cache},
         j.status = run[r].status, j.snap = run[r].snap, j.memo = run[r].memo
  PROVE  /\ Sound(j) /\ Booked(r, j.stage)
         /\ j.found # None => cache \in Entry
<1>1. run[r] \in Run /\ Sound(run[r]) /\ run[r].status = "ok" /\ Ready(run[r])
      /\ cache \in Entry \cup {None}
  BY DEF IInv, TypeOK, RunsAreSound, Sound
<1>2. Sound(j)
  BY <1>1 DEF Sound, Ready, Unwritten, Shipping, Storing
<1>3. Booked(r, j.stage) /\ (j.found # None => cache \in Entry)
  BY <1>1 DEF Booked, IInv, BookedFirst, FoundStays, Storing
<1> QED
  BY <1>2, <1>3

\* Looking for an insight changes no table.
LEMMA FindInsightLemma ==
  ASSUME IInv, NEW r \in Runs, FindInsight(r)
  PROVE  IInv'
<1> DEFINE b == IF insight THEN "finding memo" ELSE "saving insight"
           j == [run[r] EXCEPT !.stage = b]
<1>1. run[r] \in Run /\ run[r].stage = "finding insight" /\ b \in Storing
      /\ insight \in BOOLEAN /\ spent \in [Runs -> Nat]
  BY DEF IInv, TypeOK, FindInsight, Storing
<1>2. SetRun(r, j)
  BY DEF FindInsight
<1>3. Sound(j) /\ Booked(r, j.stage) /\ (j.found # None => cache \in Entry)
  <2>1. j \in Run /\ j.stage = b /\ j.found = run[r].found
        /\ j.status = run[r].status /\ j.snap = run[r].snap /\ j.memo = run[r].memo
    BY <1>1 DEF Run, Stage, Storing
  <2> HIDE DEF j, b
  <2> QED
    BY <1>1, <2>1, StoringLemma DEF Storing
<1> QED
  BY <1>1, <1>2, <1>3, LocalStep DEF FindInsight

\* Saving an insight books nothing.
LEMMA SaveInsightLemma ==
  ASSUME IInv, NEW r \in Runs, SaveInsight(r)
  PROVE  IInv'
<1> DEFINE j == [run[r] EXCEPT !.stage = "finding memo"]
<1>1. run[r] \in Run /\ run[r].stage = "saving insight" /\ insight' \in BOOLEAN
      /\ spent' \in [Runs -> Nat]
  BY DEF IInv, TypeOK, SaveInsight
<1>2. CASE insight
  BY <1>1, <1>2, RefusedStep DEF SaveInsight, ServerError
<1>3. CASE ~insight
  <2>1. SetRun(r, j)
    BY <1>3 DEF SaveInsight
  <2>2. Sound(j) /\ Booked(r, j.stage) /\ (j.found # None => cache \in Entry)
    <3>1. j \in Run /\ j.stage = "finding memo" /\ j.found = run[r].found
          /\ j.status = run[r].status /\ j.snap = run[r].snap /\ j.memo = run[r].memo
      BY <1>1 DEF Run, Stage
    <3> HIDE DEF j
    <3> QED
      BY <1>1, <3>1, StoringLemma DEF Storing
  <2> QED
    BY <1>1, <2>1, <2>2, LocalStep DEF SaveInsight
<1> QED
  BY <1>2, <1>3

\* Looking for a memo changes no table.
LEMMA FindMemoLemma ==
  ASSUME IInv, NEW r \in Runs, FindMemo(r)
  PROVE  IInv'
<1> DEFINE j == [run[r] EXCEPT !.stage = "saving memo", !.found = cache]
<1>1. run[r] \in Run /\ run[r].stage = "finding memo" /\ cache \in Entry \cup {None}
      /\ insight' \in BOOLEAN /\ spent' \in [Runs -> Nat]
  BY DEF IInv, TypeOK, FindMemo
<1>2. Sound(j) /\ Booked(r, j.stage) /\ (j.found # None => cache \in Entry)
  <2>1. j \in Run /\ j.stage = "saving memo" /\ j.found = cache
        /\ j.status = run[r].status /\ j.snap = run[r].snap /\ j.memo = run[r].memo
    BY <1>1 DEF Run, Stage
  <2> HIDE DEF j
  <2> QED
    BY <1>1, <2>1, StoringLemma DEF Storing
<1> QED
  BY <1>1, <1>2, LocalStep DEF FindMemo

\* A memo that is saved was judged.
LEMMA SaveMemoLemma ==
  ASSUME IInv, NEW r \in Runs, SaveMemo(r)
  PROVE  IInv'
<1> DEFINE j == run[r]
           k == Answered(r, j)
<1>1. j \in Run /\ Sound(j) /\ j.stage = "saving memo" /\ insight' \in BOOLEAN
      /\ spent' \in [Runs -> Nat] /\ Ready(j) /\ Sold(r) /\ cache \in Entry \cup {None}
      /\ world' \in Versions /\ Fingerprint[j.snap] \in Nat
      /\ (j.found # None => cache \in Entry)
  BY DataAssumption DEF IInv, TypeOK, RunsAreSound, BookedFirst, Booked, SaveMemo, Sound,
                        Storing, Ready, FoundStays
<1>2. Sound(k) /\ k.found = None /\ BookedNext(r, k.stage)
  <2>1. Sold(r)'
    BY <1>1 DEF Sold, SaveMemo
  <2>2. Sound(k) /\ k.found = None /\ k.stage \in {"settling", "delivered", "refused"}
        /\ (k.stage = "settling" => r \in Paid)
    BY <1>1, AnsweredLemma
  <2> HIDE DEF k
  <2> QED
    BY <2>1, <2>2 DEF BookedNext, Storing
<1>3. CASE j.found # None /\ cache' = Updated(cache, j) /\ SetRun(r, k)
  <2> DEFINE print == IF j.found.print # Fingerprint[j.snap] THEN Fingerprint[j.snap]
                      ELSE cache.print
             memo  == IF j.found.memo # j.memo THEN j.memo ELSE cache.memo
  <2>1. print \in Nat /\ memo \in Memo
    BY <1>1, <1>3 DEF Entry, Ready
  <2>2. EnableJudge => memo.judged
    <3>1. EnableJudge => j.memo.judged /\ cache.memo.judged
      BY <1>1, <1>3, Zenon DEF Ready, IInv, CacheIsJudged
    <3>2. memo = j.memo \/ memo = cache.memo
      OBVIOUS
    <3> QED
      BY <3>1, <3>2, Zenon
  <2>3. cache' = [fresh |-> TRUE, print |-> print, memo |-> memo]
    BY <1>3 DEF Updated
  <2>4. cache' \in Entry /\ CacheIsJudged'
    BY <2>1, <2>2, <2>3 DEF Entry, CacheIsJudged
  <2> QED
    BY <1>1, <1>2, <1>3, <2>4, RunStepLemma DEF SaveMemo, IInv, TypeOK
<1>4. CASE /\ cache' = [fresh |-> TRUE, print |-> Fingerprint[j.snap], memo |-> j.memo]
           /\ SetRun(r, k)
  <2>1. cache' \in Entry /\ CacheIsJudged'
    BY <1>1, <1>4 DEF Entry, CacheIsJudged, Ready
  <2> QED
    BY <1>1, <1>2, <1>4, <2>1, RunStepLemma DEF SaveMemo, IInv, TypeOK
<1>5. CASE cache' = cache /\ SetRun(r, ServerError)
  BY <1>1, <1>5, RefusedStep DEF SaveMemo, ServerError
<1> QED
  BY <1>3, <1>4, <1>5 DEF SaveMemo

\* A store that raises refuses the run.
LEMMA StoreFailsLemma ==
  ASSUME IInv, NEW r \in Runs, StoreFails(r)
  PROVE  IInv'
BY RefusedStep DEF StoreFails, ServerError, IInv, TypeOK

---------------------------------------------------------------------------
(* The payment and the environment *)

\* A paid run moves on: the only steps that touch settled and receipts.
LEMMA PaidStep ==
  ASSUME IInv, NEW r \in Runs, NEW b \in {"auditing", "delivered"},
         run[r].stage \in {"settling", "auditing"},
         SetRun(r, [run[r] EXCEPT !.stage = b]),
         settled' = settled \cup {r}, receipts' \subseteq settled',
         UNCHANGED <<world, cache, insight, ledger, spent, crashes>>
  PROVE  IInv'
<1> DEFINE j == [run[r] EXCEPT !.stage = b]
<1>1. run[r] \in Run /\ Sound(run[r]) /\ Ready(run[r]) /\ Sold(r) /\ r \in Paid
      /\ run[r].status \in {"ok", "rejected"}
  BY DEF IInv, TypeOK, RunsAreSound, Sound, BookedFirst, Booked, Shipping, Run
<1>2. j \in Run /\ j.stage = b /\ j.found = run[r].found /\ j.status = run[r].status
      /\ j.memo = run[r].memo /\ j.snap = run[r].snap
  BY <1>1 DEF Run, Stage
<1>3. Sound(j)
  BY <1>1, <1>2 DEF Sound, Ready, Unwritten, Storing, Shipping
<1>4. run' \in [Runs -> Run] /\ run'[r] = j /\ \A p \in Runs \ {r} : run'[p] = run[p]
  BY <1>2 DEF IInv, TypeOK, SetRun
<1>5. TypeOK' /\ RunsAreSound' /\ CacheIsJudged'
  BY <1>3, <1>4 DEF IInv, TypeOK, RunsAreSound, CacheIsJudged
<1>6. BookedFirst'
  <2>1. Sold(r)' /\ \A p \in Runs : Sold(p)' = Sold(p)
    BY <1>1 DEF Sold
  <2> QED
    BY <1>1, <1>2, <1>4, <2>1 DEF IInv, BookedFirst, Booked
<1>7. Captured'
  BY <1>1, <1>2, <1>4 DEF IInv, TypeOK, Captured, Sold
<1>8. FoundStays'
  BY <1>2, <1>4 DEF IInv, FoundStays
<1> QED
  BY <1>5, <1>6, <1>7, <1>8 DEF IInv

\* A settlement moves on a run that was booked.
LEMMA SettleLemma ==
  ASSUME IInv, NEW r \in Runs, Settle(r)
  PROVE  IInv'
<1>1. CASE settled' = settled \cup {r} /\ SetRun(r, [run[r] EXCEPT !.stage = "auditing"])
  BY <1>1, PaidStep DEF Settle, IInv
<1>2. CASE settled' = settled /\ SetRun(r, Refused)
  BY <1>2, RefusedStep DEF Settle, IInv, TypeOK
<1> QED
  BY <1>1, <1>2 DEF Settle

\* So does the audit of a settlement.
LEMMA AuditLemma ==
  ASSUME IInv, NEW r \in Runs, Audit(r)
  PROVE  IInv'
<1>1. r \in settled
  BY DEF Audit, Moves, IInv, BookedFirst, Booked
<1> QED
  BY <1>1, PaidStep DEF Audit, Moves, IInv, TypeOK

\* A world that moves and a memo that expires touch no run.
LEMMA EnvironmentLemma ==
  ASSUME IInv, WorldMoves \/ Expire \/ UNCHANGED vars
  PROVE  IInv'
<1>1. world' \in Versions
  BY DEF WorldMoves, Expire, vars, IInv, TypeOK
<1>2. cache' \in Entry \cup {None} /\ (cache \in Entry => cache' \in Entry) /\ CacheIsJudged'
  <2>1. CASE Expire
    <3>1. cache \in Entry /\ cache' = [cache EXCEPT !.fresh = FALSE]
      BY <2>1 DEF Expire, IInv, TypeOK
    <3>2. cache' \in Entry /\ cache'.memo = cache.memo
      BY <3>1 DEF Entry
    <3> QED
      BY <3>1, <3>2 DEF CacheIsJudged, IInv
  <2>2. CASE cache' = cache
    BY <2>2 DEF IInv, TypeOK, CacheIsJudged
  <2> QED
    BY <2>1, <2>2 DEF WorldMoves, vars
<1>3. UNCHANGED <<insight, run, ledger, spent, settled, receipts, crashes>>
  BY DEF WorldMoves, Expire, vars
<1>4. TypeOK'
  BY <1>1, <1>2, <1>3 DEF IInv, TypeOK
<1>5. RunsAreSound' /\ BookedFirst'
  BY <1>3 DEF IInv, RunsAreSound, BookedFirst, Booked, Sold
<1>6. Captured' /\ (receipts \subseteq settled)'
  BY <1>3 DEF IInv, Captured, Sold
<1>7. FoundStays'
  BY <1>2, <1>3 DEF IInv, FoundStays
<1> QED
  BY <1>2, <1>4, <1>5, <1>6, <1>7 DEF IInv

\* A crash drops the runs under way and keeps the tables.
LEMMA CrashLemma ==
  ASSUME IInv, Crash
  PROVE  IInv'
<1>1. /\ run' \in [Runs -> Run]
      /\ \A p \in Runs : run'[p] = Refused \/ run'[p] = run[p]
  BY FreshLemma DEF IInv, TypeOK, Crash, Sound
<1>2. crashes' > 0 /\ crashes' \in 0..MaxCrashes
  BY PolicyAssumption DEF IInv, TypeOK, Crash
<1>3. UNCHANGED <<world, cache, insight, ledger, spent, settled, receipts>>
  BY DEF Crash
<1>4. TypeOK' /\ CacheIsJudged'
  BY <1>1, <1>2, <1>3 DEF IInv, TypeOK, CacheIsJudged
<1>5. RunsAreSound'
  BY <1>1, FreshLemma DEF IInv, RunsAreSound
<1>6. BookedFirst'
  BY <1>1, <1>3, FreshLemma DEF IInv, BookedFirst, Booked, Sold, Storing
<1>7. Captured' /\ (receipts \subseteq settled)'
  BY <1>1, <1>2, <1>3, FreshLemma DEF IInv, TypeOK, Captured, Sold
<1>8. FoundStays'
  BY <1>1, <1>3, FreshLemma DEF IInv, FoundStays
<1> QED
  BY <1>4, <1>5, <1>6, <1>7, <1>8 DEF IInv

---------------------------------------------------------------------------
(* The inductive invariant *)

\* No run has begun at first.
LEMMA InitLemma == Init => IInv
<1> SUFFICES ASSUME Init PROVE IInv
  OBVIOUS
<1>1. cache \in Entry \cup {None} /\ CacheIsJudged
  <2>1. CASE cache \in Inherited
    <3>1. cache.memo \in Memo /\ cache.memo.judged = EnableJudge
      BY <2>1, PolicyAssumption DEF Inherited, Memo
    <3>2. cache \in Entry
      <4>1. \A v \in Versions : Fingerprint[v] \in Nat
        BY DataAssumption
      <4> QED
        BY <2>1, <3>1, <4>1 DEF Inherited, Entry
    <3> QED
      BY <3>1, <3>2 DEF CacheIsJudged
  <2>2. CASE cache \notin Inherited
    BY <2>2, NoneAssumption DEF Init, CacheIsJudged
  <2> QED
    BY <2>1, <2>2
<1>2. TypeOK
  BY <1>1, FreshLemma, PolicyAssumption DEF Init, TypeOK
<1>3. RunsAreSound
  BY FreshLemma DEF Init, RunsAreSound
<1>4. BookedFirst /\ FoundStays
  BY DEF Init, BookedFirst, Booked, FoundStays, Fresh, Storing
<1> QED
  BY <1>1, <1>2, <1>3, <1>4 DEF Init, IInv, Captured

\* Every step keeps the inductive invariant.
LEMMA NextLemma == IInv /\ [Next]_vars => IInv'
<1> SUFFICES ASSUME IInv, [Next]_vars PROVE IInv'
  OBVIOUS
<1>1. CASE \E r \in Runs : RunStep(r)
  <2>1. PICK r \in Runs : RunStep(r)
    BY <1>1
  <2> QED
    BY <2>1, BeginLemma, GatherLemma, LookUpLemma, DebateLemma, SynthesizeLemma,
       JudgeLemma, NodeFailsLemma, BookLemma, FindInsightLemma, SaveInsightLemma,
       FindMemoLemma, SaveMemoLemma, StoreFailsLemma, SettleLemma, AuditLemma
       DEF RunStep
<1>2. CASE WorldMoves \/ Expire \/ UNCHANGED vars
  BY <1>2, EnvironmentLemma
<1>3. CASE Crash
  BY <1>3, CrashLemma
<1> QED
  BY <1>1, <1>2, <1>3 DEF Next

\* It holds in every behaviour.
LEMMA Invariance == Spec => []IInv
BY InitLemma, NextLemma, PTL DEF Spec

\* Every reachable state of the research pipeline is well typed: the graph
\* never passes research_max_attempts.
THEOREM TypeCorrect == Spec => []TypeOK
<1>1. IInv => TypeOK
  BY DEF IInv
<1> QED
  BY <1>1, Invariance, PTL

\* Whatever concurrent upserts leave in the memo cache, a memo only ships if
\* the gate passes it against the facts of its own run.
THEOREM ShippedIsSourcedAlways == Spec => []ShippedIsSourced
<1>1. IInv => ShippedIsSourced
  BY DEF IInv, RunsAreSound, Sound, Ready, ShippedIsSourced, Ships, Shipping
<1> QED
  BY <1>1, Invariance, PTL

\* With the judge on, no error, retry, rejection or crash ships an unjudged memo.
THEOREM ShippedIsJudgedAlways == Spec => []ShippedIsJudged
<1>1. IInv => ShippedIsJudged
  BY DEF IInv, RunsAreSound, Sound, Ready, ShippedIsJudged, Ships, Shipping
<1> QED
  BY <1>1, Invariance, PTL

\* Receipts, captured payments and the margin ledger agree.
THEOREM BilledIsBookedAlways == Spec => []BilledIsBooked
<1>1. IInv => BilledIsBooked
  BY DEF IInv, TypeOK, Captured, Sold, BilledIsBooked
<1> QED
  BY <1>1, Invariance, PTL
=============================================================================
