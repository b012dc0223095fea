----------------------------- MODULE ServicesProofs -----------------------------
(***************************************************************************)
(* Proofs about the four small machines around the core: the circuit       *)
(* breaker (Breaker), the call chain (CallChain), webhook deliveries       *)
(* (Webhooks) and the transport credentials of the serving processes       *)
(* (Serving), for every value of their constants.                          *)
(***************************************************************************)
EXTENDS Breaker, CallChain, Webhooks, Serving, TLAPS

-----------------------------------------------------------------------------
(* The circuit breaker: every number of calls and every policy.            *)

\* A call that backs off has an attempt left.
BackoffHasAttempt == \A c \in Callers : stage[c] = "backoff" => attempt[c] < Retries

\* Outside a cooldown no stray dial is on record; a call in flight made at most
\* one stray dial per attempt after its first.
StrayBudget ==
  /\ ~Cooling(openedAge) => \A c \in Callers : stray[c] = 0
  /\ \A c \in Callers : stage[c] # "idle" => stray[c] <= attempt[c]
  /\ \A c \in Callers : stray[c] <= Retries

\* The inductive invariant of the breaker.
IInv == TypeOK /\ StampMatchesCount /\ BackoffHasAttempt /\ StrayBudget

\* What the policy is assumed to be.
LEMMA ConstantsLemma ==
  /\ Retries \in Nat
  /\ Threshold \in Nat /\ Threshold > 0
  /\ ResetTicks \in Nat /\ ResetTicks > 0
  /\ FailureCap \in Nat /\ FailureCap >= Threshold
  /\ None \notin Nat
BY RetriesAssumption, ThresholdAssumption, ResetTicksAssumption,
   FailureCapAssumption, NoneAssumption

\* The breaker is closed at first and nobody dials.
LEMMA InitInv == Init => IInv
<1> SUFFICES ASSUME Init PROVE IInv
  OBVIOUS
<1> USE ConstantsLemma
<1>1. TypeOK
  BY DEF Init, TypeOK, Stage
<1>2. StampMatchesCount
  BY DEF Init, StampMatchesCount
<1>3. BackoffHasAttempt /\ StrayBudget
  BY DEF Init, BackoffHasAttempt, StrayBudget
<1> QED
  BY <1>1, <1>2, <1>3 DEF IInv

\* What counting a failure does to the breaker, whoever counts it.
LEMMA CountFailureLemma ==
  ASSUME TypeOK, StampMatchesCount, CountFailure
  PROVE  /\ failures' \in 0..FailureCap
         /\ openedAge' \in {None} \cup 0..ResetTicks
         /\ (openedAge' # None) <=> (failures' >= Threshold)
         /\ openedAge # None => Cooling(openedAge')
BY ConstantsLemma DEF TypeOK, StampMatchesCount, CountFailure, Cooling

\* Keeping the history of stray dials keeps its bounds.
LEMMA KeepStrayLemma ==
  ASSUME TypeOK, StrayBudget, KeepStray
  PROVE  /\ stray' \in [Callers -> Nat]
         /\ ~Cooling(openedAge') => \A c \in Callers : stray'[c] = 0
         /\ \A c \in Callers : stray'[c] <= stray[c]
BY DEF TypeOK, StrayBudget, KeepStray

\* Every step keeps the inductive invariant.
LEMMA StepInv == IInv /\ [Next]_vars => IInv'
<1> SUFFICES ASSUME IInv, [Next]_vars PROVE IInv'
  OBVIOUS
<1> USE ConstantsLemma
<1>i. TypeOK /\ StampMatchesCount /\ BackoffHasAttempt /\ StrayBudget
  BY DEF IInv
<1>1. ASSUME NEW c \in Callers, Call(c)
      PROVE  IInv'
  <2>1. TypeOK'
    BY <1>i, <1>1 DEF TypeOK, Call, Stage
  <2>2. StampMatchesCount'
    BY <1>i, <1>1 DEF StampMatchesCount, Call
  <2>3. BackoffHasAttempt'
    BY <1>i, <1>1 DEF TypeOK, BackoffHasAttempt, Call
  <2>4. StrayBudget'
    BY <1>i, <1>1 DEF TypeOK, StrayBudget, Call, Cooling
  <2> QED
    BY <2>1, <2>2, <2>3, <2>4 DEF IInv
<1>2. ASSUME NEW c \in Callers, Answer(c)
      PROVE  IInv'
  <2>0. KeepStray
    BY <1>2 DEF Answer
  <2>1. TypeOK'
    BY <1>i, <1>2, <2>0, KeepStrayLemma DEF TypeOK, Answer, Ends, Stage
  <2>2. StampMatchesCount'
    BY <1>i, <1>2 DEF StampMatchesCount, Answer
  <2>3. BackoffHasAttempt'
    BY <1>i, <1>2 DEF TypeOK, BackoffHasAttempt, Answer, Ends
  <2>4. StrayBudget'
    <3>1. \A d \in Callers : stage'[d] # "idle" => stage[d] # "idle" /\ attempt'[d] = attempt[d]
      BY <1>i, <1>2 DEF TypeOK, Answer, Ends
    <3> QED
      BY <1>i, <2>0, <2>1, <3>1, KeepStrayLemma DEF StrayBudget, TypeOK
  <2> QED
    BY <2>1, <2>2, <2>3, <2>4 DEF IInv
<1>3. ASSUME NEW c \in Callers, FailAndBackOff(c)
      PROVE  IInv'
  <2>0. KeepStray /\ CountFailure
    BY <1>3 DEF FailAndBackOff
  <2>1. TypeOK'
    BY <1>i, <1>3, <2>0, KeepStrayLemma, CountFailureLemma DEF TypeOK, FailAndBackOff, Stage
  <2>2. StampMatchesCount'
    BY <1>i, <2>0, CountFailureLemma DEF StampMatchesCount
  <2>3. BackoffHasAttempt'
    BY <1>i, <1>3 DEF TypeOK, BackoffHasAttempt, FailAndBackOff
  <2>4. StrayBudget'
    <3>1. \A d \in Callers : stage'[d] # "idle" => stage[d] # "idle" /\ attempt'[d] = attempt[d]
      BY <1>i, <1>3 DEF TypeOK, FailAndBackOff
    <3> QED
      BY <1>i, <2>0, <2>1, <3>1, KeepStrayLemma DEF StrayBudget, TypeOK
  <2> QED
    BY <2>1, <2>2, <2>3, <2>4 DEF IInv
<1>4. ASSUME NEW c \in Callers, FailAndRaise(c)
      PROVE  IInv'
  <2>0. KeepStray /\ CountFailure
    BY <1>4 DEF FailAndRaise
  <2>1. TypeOK'
    BY <1>i, <1>4, <2>0, KeepStrayLemma, CountFailureLemma DEF TypeOK, FailAndRaise, Ends, Stage
  <2>2. StampMatchesCount'
    BY <1>i, <2>0, CountFailureLemma DEF StampMatchesCount
  <2>3. BackoffHasAttempt'
    BY <1>i, <1>4 DEF TypeOK, BackoffHasAttempt, FailAndRaise, Ends
  <2>4. StrayBudget'
    <3>1. \A d \in Callers : stage'[d] # "idle" => stage[d] # "idle" /\ attempt'[d] = attempt[d]
      BY <1>i, <1>4 DEF TypeOK, FailAndRaise, Ends
    <3> QED
      BY <1>i, <2>0, <2>1, <3>1, KeepStrayLemma DEF StrayBudget, TypeOK
  <2> QED
    BY <2>1, <2>2, <2>3, <2>4 DEF IInv
<1>5. ASSUME NEW c \in Callers, Redial(c)
      PROVE  IInv'
  <2>0. attempt[c] < Retries /\ stray[c] <= attempt[c]
    BY <1>i, <1>5 DEF BackoffHasAttempt, StrayBudget, Redial
  <2>1. TypeOK'
    BY <1>i, <1>5, <2>0 DEF TypeOK, Redial, Stage
  <2>2. StampMatchesCount'
    BY <1>i, <1>5 DEF StampMatchesCount, Redial
  <2>3. BackoffHasAttempt'
    BY <1>i, <1>5 DEF TypeOK, BackoffHasAttempt, Redial
  <2>4. StrayBudget'
    BY <1>i, <1>5, <2>0 DEF TypeOK, StrayBudget, Redial, Cooling
  <2> QED
    BY <2>1, <2>2, <2>3, <2>4 DEF IInv
<1>6. ASSUME NEW c \in Callers, Cancel(c)
      PROVE  IInv'
  <2>1. TypeOK'
    BY <1>i, <1>6 DEF TypeOK, Cancel, Ends, Stage
  <2>2. StampMatchesCount'
    BY <1>i, <1>6 DEF StampMatchesCount, Cancel
  <2>3. BackoffHasAttempt'
    BY <1>i, <1>6 DEF TypeOK, BackoffHasAttempt, Cancel, Ends
  <2>4. StrayBudget'
    BY <1>i, <1>6 DEF TypeOK, StrayBudget, Cancel, Ends, Cooling
  <2> QED
    BY <2>1, <2>2, <2>3, <2>4 DEF IInv
<1>7. CASE Tick
  <2>0. KeepStray /\ openedAge \in 0..(ResetTicks - 1) /\ openedAge' = openedAge + 1
    BY <1>i, <1>7 DEF Tick, TypeOK, Cooling
  <2>1. TypeOK'
    BY <1>i, <1>7, <2>0, KeepStrayLemma DEF TypeOK, Tick
  <2>2. StampMatchesCount'
    BY <1>i, <1>7, <2>0 DEF StampMatchesCount, Tick
  <2>3. BackoffHasAttempt'
    BY <1>i, <1>7 DEF BackoffHasAttempt, Tick
  <2>4. StrayBudget'
    BY <1>i, <1>7, <2>0, <2>1, KeepStrayLemma DEF StrayBudget, TypeOK, Tick
  <2> QED
    BY <2>1, <2>2, <2>3, <2>4 DEF IInv
<1>8. CASE HostFlips
  BY <1>i, <1>8 DEF IInv, TypeOK, StampMatchesCount, BackoffHasAttempt, StrayBudget,
     HostFlips, Cooling
<1>9. CASE UNCHANGED vars
  BY <1>i, <1>9 DEF IInv, TypeOK, StampMatchesCount, BackoffHasAttempt, StrayBudget,
     vars, Cooling
<1> QED
  BY <1>1, <1>2, <1>3, <1>4, <1>5, <1>6, <1>7, <1>8, <1>9 DEF Next, CallStep

\* It holds in every behaviour.
LEMMA SpecInv == Spec => []IInv
BY InitInv, StepInv, PTL DEF Spec

\* Type correctness.
THEOREM TypeCorrect == Spec => []TypeOK
<1>1. IInv => TypeOK
  BY DEF IInv
<1> QED
  BY <1>1, SpecInv, PTL

\* _BreakerState.opened_at is set exactly while Threshold failures are counted.
THEOREM StampMatchesCountAlways == Spec => []StampMatchesCount
<1>1. IInv => StampMatchesCount
  BY DEF IInv
<1> QED
  BY <1>1, SpecInv, PTL

\* A cooling host is dialled at most Retries more times by each call.
THEOREM StrayBoundAlways == Spec => []StrayBound
<1>1. IInv => StrayBound
  BY DEF IInv, StrayBudget, StrayBound
<1> QED
  BY <1>1, SpecInv, PTL

\* Every step of resilient_call is a step of the abstract breaker or changes
\* nothing the abstract breaker sees.
LEMMA StepRefines == IInv /\ [Next]_vars => [Abs!Next]_(Abs!vars)
<1> SUFFICES ASSUME IInv, [Next]_vars PROVE [Abs!Next]_(Abs!vars)
  OBVIOUS
<1> USE ConstantsLemma DEF Abs!Next, Abs!vars
<1>i. TypeOK /\ StampMatchesCount
  BY DEF IInv
<1>1. ASSUME NEW c \in Callers, Call(c)
      PROVE  Abs!Admit(c)
  BY <1>i, <1>1 DEF TypeOK, Call, Abs!Admit, Mode, Dialing, Backoff, Cooling
<1>2. ASSUME NEW c \in Callers, Answer(c)
      PROVE  Abs!Answered(c)
  BY <1>i, <1>2 DEF TypeOK, Answer, Ends, Abs!Answered, Mode, Dialing, Backoff
<1>m. ASSUME CountFailure
      PROVE  Mode' \in IF Mode = "closed" THEN {"closed", "open"} ELSE {"open"}
  BY <1>i, <1>m DEF TypeOK, StampMatchesCount, CountFailure, Mode, Cooling
<1>3. ASSUME NEW c \in Callers, FailAndBackOff(c)
      PROVE  Abs!Failed(c)
  <2>1. c \in Dialing /\ Dialing' = Dialing \ {c} /\ Backoff' = Backoff \cup {c}
    BY <1>i, <1>3 DEF TypeOK, FailAndBackOff, Dialing, Backoff
  <2> QED
    BY <1>m, <1>3, <2>1 DEF FailAndBackOff, Abs!Failed
<1>4. ASSUME NEW c \in Callers, FailAndRaise(c)
      PROVE  Abs!Failed(c)
  <2>1. c \in Dialing /\ Dialing' = Dialing \ {c} /\ Backoff' = Backoff
    BY <1>i, <1>4 DEF TypeOK, FailAndRaise, Ends, Dialing, Backoff
  <2> QED
    BY <1>m, <1>4, <2>1 DEF FailAndRaise, Abs!Failed
<1>5. ASSUME NEW c \in Callers, Redial(c)
      PROVE  Abs!Retry(c)
  BY <1>i, <1>5 DEF TypeOK, Redial, Abs!Retry, Mode, Dialing, Backoff, Cooling
<1>6. ASSUME NEW c \in Callers, Cancel(c)
      PROVE  Abs!Dropped(c)
  <2>1. stage[c] \in {"dialing", "backoff"}
    BY <1>i, <1>6 DEF TypeOK, Cancel, Stage
  <2> QED
    BY <1>i, <1>6, <2>1 DEF TypeOK, Cancel, Ends, Abs!Dropped, Mode, Dialing, Backoff, Cooling
<1>7. CASE Tick
  BY <1>i, <1>7 DEF TypeOK, Tick, Abs!CooledDown, Mode, Dialing, Backoff, Cooling
<1>8. CASE HostFlips
  BY <1>8 DEF HostFlips, Mode, Dialing, Backoff, Cooling
<1>9. CASE UNCHANGED vars
  BY <1>9 DEF vars, Mode, Dialing, Backoff, Cooling
<1> QED
  BY <1>1, <1>2, <1>3, <1>4, <1>5, <1>6, <1>7, <1>8, <1>9 DEF Next, CallStep

\* resilient_call implements the abstract circuit breaker.
THEOREM Refinement == Spec => ImplementsCircuitBreaker
<1>1. Init => Abs!Init
  BY DEF Init, Abs!Init, Mode, Dialing, Backoff
<1> QED
  BY <1>1, SpecInv, StepRefines, PTL DEF Spec, ImplementsCircuitBreaker, Abs!Spec

-----------------------------------------------------------------------------
(* The call chain: any agents, any forged headers, any bound on the depth. *)

\* A header is not past the ceiling and covers the trail behind it.
HeaderCovers(c) ==
  LET r == call[c]
  IN  /\ Names(r.trail) \subseteq Names(r.hops)
      /\ Len(r.trail) <= Len(r.hops)
      /\ r.trail # <<>> => Len(r.hops) <= MaxDepth
      /\ \A i, j \in DOMAIN r.trail : r.trail[i] = r.trail[j] => i = j

\* A jim serves only what its middleware let through.
ServedIsChecked(c) ==
  Served(c) /\ call[c].seller \in Jims => ~Loops(c) /\ ~TooDeep(c)

\* The inductive invariant of the call chain.
ChainInv ==
  /\ ChainTypeOK
  /\ \A c \in Calls : call[c] \in Asked => HeaderCovers(c) /\ ServedIsChecked(c)

\* A request is used exactly when its record is a full one.
LEMMA UsedIsAsked ==
  ASSUME ChainTypeOK, NEW c \in Calls
  PROVE  /\ At(c, "unused") <=> call[c] \notin Asked
         /\ At(c, "unused") <=> call[c] = Unused
  BY DEF ChainTypeOK, At, Unused, Asked

\* Appending a new name to a chain.
LEMMA NamesOfAppend ==
  ASSUME NEW S, NEW s \in Seq(S), NEW x \in S
  PROVE  /\ Names(Append(s, x)) = Names(s) \cup {x}
         /\ Append(s, x) \in Seq(S)
         /\ Len(Append(s, x)) = Len(s) + 1
         /\ DOMAIN Append(s, x) = 1..Len(s) + 1
         /\ \A i \in 1..Len(s) : Append(s, x)[i] = s[i]
         /\ Append(s, x)[Len(s) + 1] = x
  BY DEF Names

\* A chain without repeats stays so when a name it does not hold is appended.
LEMMA AppendKeepsDistinct ==
  ASSUME NEW S, NEW s \in Seq(S), NEW x \in S, x \notin Names(s),
         \A i, j \in DOMAIN s : s[i] = s[j] => i = j
  PROVE  \A i, j \in DOMAIN Append(s, x) : Append(s, x)[i] = Append(s, x)[j] => i = j
  <1>1. DOMAIN s = 1..Len(s) OBVIOUS
  <1>2. \A i \in 1..Len(s) : s[i] # x
    BY <1>1 DEF Names
  <1> QED BY <1>1, <1>2, NamesOfAppend

\* A new record that is covered by its header keeps the invariant.
LEMMA AskKeeps ==
  ASSUME ChainInv,
         NEW c \in Calls, NEW p \in Calls, NEW a \in Agents, NEW b \in Agents,
         NEW header \in Seq(Agents), NEW trail \in Seq(Jims),
         Ask(c, p, a, b, header, trail),
         Names(trail) \subseteq Names(header),
         Len(trail) <= Len(header),
         trail # <<>> => Len(header) <= MaxDepth,
         \A i, j \in DOMAIN trail : trail[i] = trail[j] => i = j
  PROVE  ChainInv'
  <1> DEFINE r == [stage |-> "asked", buyer |-> a, seller |-> b,
                   parent |-> p, hops |-> header, trail |-> trail]
  <1>1. r \in Asked
    BY DEF Asked
  <1>2. call' = [call EXCEPT ![c] = r] /\ call \in [Calls -> {Unused} \cup Asked]
    BY DEF Ask, ChainInv, ChainTypeOK
  <1> HIDE DEF r
  <1>3. ChainTypeOK'
    BY <1>1, <1>2 DEF ChainTypeOK
  <1>4. ASSUME NEW d \in Calls, (call[d] \in Asked)'
        PROVE  HeaderCovers(d)' /\ ServedIsChecked(d)'
    <2>1. CASE d = c
      <3>1. call'[d] = r
        BY <1>2, <2>1
      <3> QED BY <3>1 DEF HeaderCovers, ServedIsChecked, Served, r
    <2>2. CASE d # c
      <3>1. call'[d] = call[d]
        BY <1>2, <2>2
      <3>2. HeaderCovers(d) /\ ServedIsChecked(d)
        BY <3>1, <1>4 DEF ChainInv
      <3> QED BY <3>1, <3>2 DEF HeaderCovers, ServedIsChecked, Served, Loops, TooDeep
    <2> QED BY <2>1, <2>2
  <1> QED BY <1>3, <1>4 DEF ChainInv

\* So does a move of one request to another stage, when a jim that begins to
\* serve has checked the header.
LEMMA MoveKeeps ==
  ASSUME ChainInv, NEW c \in Calls, call[c] \in Asked,
         NEW s \in {"serving", "refused", "answered"}, Move(c, s),
         s # "refused" /\ call[c].seller \in Jims => ~Loops(c) /\ ~TooDeep(c)
  PROVE  ChainInv'
  <1> DEFINE r == [call[c] EXCEPT !.stage = s]
  <1>1. /\ r \in Asked /\ r.stage = s /\ r.hops = call[c].hops
        /\ r.trail = call[c].trail /\ r.seller = call[c].seller
    BY DEF Asked
  <1>2. call' = [call EXCEPT ![c] = r] /\ call \in [Calls -> {Unused} \cup Asked]
    BY DEF Move, ChainInv, ChainTypeOK
  <1> HIDE DEF r
  <1>3. ChainTypeOK'
    BY <1>1, <1>2 DEF ChainTypeOK
  <1>4. ASSUME NEW d \in Calls, (call[d] \in Asked)'
        PROVE  HeaderCovers(d)' /\ ServedIsChecked(d)'
    <2>1. CASE d = c
      <3>1. call'[d] = r
        BY <1>2, <2>1
      <3>2. HeaderCovers(c) /\ ServedIsChecked(c)
        BY DEF ChainInv
      <3>3. HeaderCovers(d)'
        BY <1>1, <2>1, <3>1, <3>2 DEF HeaderCovers
      <3>4. ServedIsChecked(d)'
        BY <1>1, <2>1, <3>1 DEF ServedIsChecked, Served, Loops, TooDeep
      <3> QED BY <3>3, <3>4
    <2>2. CASE d # c
      <3>1. call'[d] = call[d]
        BY <1>2, <2>2
      <3>2. HeaderCovers(d) /\ ServedIsChecked(d)
        BY <3>1, <1>4 DEF ChainInv
      <3> QED BY <3>1, <3>2 DEF HeaderCovers, ServedIsChecked, Served, Loops, TooDeep
    <2> QED BY <2>1, <2>2
  <1> QED BY <1>3, <1>4 DEF ChainInv

\* No request is sent at first.
LEMMA ChainInitial == ChainInit => ChainInv
  BY DEF ChainInit, ChainInv, ChainTypeOK, Unused, Asked

\* Every step keeps the inductive invariant.
LEMMA ChainStep == ChainInv /\ [ChainNext]_call => ChainInv'
  <1> SUFFICES ASSUME ChainInv, [ChainNext]_call PROVE ChainInv'
    OBVIOUS
  <1> USE JimsAssumption, MaxDepthAssumption, ForeignHeadersAssumption
  <1>1. ASSUME NEW c \in Calls, NEW a \in Jims, NEW b \in Agents, BuyAfresh(c, a, b)
        PROVE  ChainInv'
    <2>1. Extended(<<>>, a) = <<a>>
      BY DEF Extended, Names
    <2>2. Ask(c, c, a, b, <<a>>, <<a>>)
      BY <1>1, <2>1 DEF BuyAfresh
    <2>3. <<a>> \in Seq(Agents) /\ <<a>> \in Seq(Jims) /\ Len(<<a>>) = 1 /\ DOMAIN <<a>> = 1..1
      OBVIOUS
    <2>4. 1 <= MaxDepth /\ a \in Agents
      OBVIOUS
    <2> DEFINE s == <<a>>
    <2>5. /\ Names(s) \subseteq Names(s) /\ Len(s) <= Len(s) /\ Len(s) <= MaxDepth
          /\ \A i, j \in DOMAIN s : s[i] = s[j] => i = j
      BY <2>3, <2>4
    <2>6. Ask(c, c, a, b, s, s) /\ s \in Seq(Agents) /\ s \in Seq(Jims)
      BY <2>2, <2>3
    <2> HIDE DEF s
    <2> QED BY <2>4, <2>5, <2>6, AskKeeps
  <1>2. ASSUME NEW c \in Calls, NEW p \in Calls, NEW b \in Agents, BuyFor(c, p, b)
        PROVE  ChainInv'
    <2> DEFINE a == call[p].seller
               header == Extended(call[p].hops, a)
               trail == Append(call[p].trail, a)
    <2>1. call[p] \in Asked /\ Served(p) /\ a \in Jims
      BY <1>2, UsedIsAsked DEF BuyFor, ChainInv, At, Served
    <2>2. HeaderCovers(p) /\ a \notin Names(call[p].hops)
      BY <2>1 DEF ChainInv, ServedIsChecked, Loops
    <2>3. header = Append(call[p].hops, a)
      BY <2>2 DEF Extended
    <2>4. call[p].hops \in Seq(Agents) /\ call[p].trail \in Seq(Jims)
      BY <2>1 DEF Asked
    <2>5. Ask(c, p, a, b, header, trail) /\ Len(header) <= MaxDepth
      BY <1>2 DEF BuyFor
    <2>6. a \notin Names(call[p].trail)
      BY <2>2 DEF HeaderCovers
    <2>7. header \in Seq(Agents) /\ trail \in Seq(Jims)
      BY <2>1, <2>3, <2>4
    <2>8. Names(trail) \subseteq Names(header) /\ Len(trail) <= Len(header)
      <3>1. Names(trail) = Names(call[p].trail) \cup {a} /\ Len(trail) = Len(call[p].trail) + 1
        BY <2>1, <2>4, NamesOfAppend
      <3>2. Names(header) = Names(call[p].hops) \cup {a} /\ Len(header) = Len(call[p].hops) + 1
        BY <2>1, <2>3, <2>4, NamesOfAppend
      <3>3. Names(call[p].trail) \subseteq Names(call[p].hops) /\ Len(call[p].trail) <= Len(call[p].hops)
        BY <2>2 DEF HeaderCovers
      <3>4. Len(call[p].trail) \in Nat /\ Len(call[p].hops) \in Nat
        BY <2>4
      <3> HIDE DEF trail, header
      <3> QED BY <3>1, <3>2, <3>3, <3>4
    <2>9. \A i, j \in DOMAIN trail : trail[i] = trail[j] => i = j
      <3> DEFINE q == call[p].trail
      <3>1. \A i, j \in DOMAIN q : q[i] = q[j] => i = j
        BY <2>2 DEF HeaderCovers
      <3>2. q \in Seq(Jims) /\ a \in Jims /\ a \notin Names(q) /\ trail = Append(q, a)
        BY <2>1, <2>4, <2>6
      <3> HIDE DEF trail, header, a, q
      <3> QED BY <3>1, <3>2, AppendKeepsDistinct
    <2>10. a \in Agents
      BY <2>1
    <2> HIDE DEF trail, header, a
    <2> QED BY <2>5, <2>7, <2>8, <2>9, <2>10, AskKeeps
  <1>3. ASSUME NEW c \in Calls, NEW a \in Agents, NEW b \in Agents, NEW h \in ForeignHeaders,
               ForeignAsk(c, a, b, h)
        PROVE  ChainInv'
    <2>1. Ask(c, c, a, b, h, <<>>)
      BY <1>3 DEF ForeignAsk
    <2> DEFINE t == <<>>
    <2>2. /\ h \in Seq(Agents) /\ t \in Seq(Jims) /\ Names(t) \subseteq Names(h)
          /\ Len(t) <= Len(h)
          /\ \A i, j \in DOMAIN t : t[i] = t[j] => i = j
      BY DEF Names
    <2>3. Ask(c, c, a, b, h, t) /\ (t # <<>> => Len(h) <= MaxDepth)
      BY <2>1
    <2> HIDE DEF t
    <2> QED BY <2>2, <2>3, AskKeeps
  <1>4. ASSUME NEW c \in Calls, Admit(c) PROVE ChainInv'
    <2>1. call[c] \in Asked
      BY <1>4, UsedIsAsked DEF Admit, At, ChainInv
    <2> QED BY <1>4, <2>1, MoveKeeps DEF Admit
  <1>5. ASSUME NEW c \in Calls, Refuse(c) PROVE ChainInv'
    <2>1. call[c] \in Asked
      BY <1>5, UsedIsAsked DEF Refuse, At, ChainInv
    <2> QED BY <1>5, <2>1, MoveKeeps DEF Refuse
  <1>6. ASSUME NEW c \in Calls, Reply(c) PROVE ChainInv'
    <2>1. call[c] \in Asked
      BY <1>6, UsedIsAsked DEF Reply, At, ChainInv
    <2>2. call[c].seller \in Jims => ~Loops(c) /\ ~TooDeep(c)
      BY <1>6, <2>1 DEF Reply, At, ChainInv, ServedIsChecked, Served
    <2> QED BY <1>6, <2>1, <2>2, MoveKeeps DEF Reply
  <1>7. CASE UNCHANGED call
    BY <1>7 DEF ChainInv, ChainTypeOK, HeaderCovers, ServedIsChecked, Served, Loops, TooDeep
  <1> QED BY <1>1, <1>2, <1>3, <1>4, <1>5, <1>6, <1>7 DEF ChainNext

\* The header covers the true trail in every reachable state.
THEOREM ChainInvariant == ChainSpec => []ChainInv
  <1> QED BY ChainInitial, ChainStep, PTL DEF ChainSpec

\* No jim serves what its own money set off through jims alone.
THEOREM NoPaymentLoopAlways == ChainSpec => []NoPaymentLoop
  <1>1. ChainInv => NoPaymentLoop
    <2> SUFFICES ASSUME ChainInv, NEW c \in Calls, Served(c), call[c].seller \in Jims
                 PROVE  call[c].seller \notin Names(call[c].trail)
      BY DEF NoPaymentLoop
    <2>1. call[c] \in Asked
      BY UsedIsAsked DEF ChainInv, At, Served
    <2> QED BY <2>1 DEF ChainInv, HeaderCovers, ServedIsChecked, Loops
  <1> QED BY <1>1, ChainInvariant, PTL

\* The jims behind a request are distinct and at most MaxDepth in a row.
THEOREM DepthBoundedAlways == ChainSpec => []DepthBounded
  <1>1. ChainInv => DepthBounded
    <2> SUFFICES ASSUME ChainInv, NEW c \in Calls, ~At(c, "unused")
                 PROVE  LET trail == call[c].trail
                        IN  /\ \A i, j \in DOMAIN trail : trail[i] = trail[j] => i = j
                            /\ Len(trail) <= MaxDepth
                            /\ Served(c) /\ call[c].seller \in Jims => Len(trail) < MaxDepth
      BY DEF DepthBounded
    <2>1. call[c] \in Asked
      BY UsedIsAsked DEF ChainInv
    <2>2. /\ call[c].trail \in Seq(Jims) /\ call[c].hops \in Seq(Agents)
          /\ Len(call[c].trail) \in Nat /\ Len(call[c].hops) \in Nat
      BY <2>1 DEF Asked
    <2>3. HeaderCovers(c) /\ ServedIsChecked(c)
      BY <2>1 DEF ChainInv
    <2>4. call[c].trail = <<>> => Len(call[c].trail) = 0
      OBVIOUS
    <2>5. Len(call[c].trail) <= MaxDepth
      BY <2>2, <2>3, <2>4, MaxDepthAssumption DEF HeaderCovers
    <2> QED BY <2>2, <2>3, <2>5, MaxDepthAssumption DEF HeaderCovers, ServedIsChecked, TooDeep
  <1> QED BY <1>1, ChainInvariant, PTL

-----------------------------------------------------------------------------
(* Webhooks: any deliveries, tolerance and clock skews.                    *)

\* What a delivery that was accepted leaves behind.
Remembered(n) ==
  /\ accepted[n] <= 1
  /\ accepted[n] > 0 => Sent(n) /\ (n \in seen \/ Here > signed[n] + Tolerance)
  /\ n \in seen => accepted[n] > 0

\* The inductive invariant of the deliveries.
HookInv == HookTypeOK /\ \A n \in Nonces : Remembered(n)

\* Nothing was accepted at first.
LEMMA HookInitial == HookInit => HookInv
  BY ToleranceAssumption, SkewsAssumption, MaxTimeAssumption
  DEF HookInit, HookInv, HookTypeOK, Remembered, Sent

\* Every step keeps the inductive invariant.
LEMMA HookStep == HookInv /\ [HookNext]_hookVars => HookInv'
  <1> SUFFICES ASSUME HookInv, [HookNext]_hookVars PROVE HookInv'
    OBVIOUS
  <1> USE ToleranceAssumption, SkewsAssumption, MaxTimeAssumption
          DEF HookInv, HookTypeOK, Remembered, Sent, Here
  <1>1. ASSUME NEW n \in Nonces, PostHook(n) PROVE HookInv'
    BY <1>1 DEF PostHook
  <1>2. ASSUME NEW n \in Nonces, NEW stamp \in 0..MaxTime, ReceiveHook(n, stamp) PROVE HookInv'
    <2>1. n \notin seen /\ signed[n] = stamp /\ Here <= signed[n] + Tolerance
      BY <1>2 DEF ReceiveHook, Verifies, Genuine, InWindow
    <2>2. accepted[n] = 0
      BY <2>1
    <2>3. /\ accepted' = [accepted EXCEPT ![n] = 1] /\ seen' = seen \cup {n}
          /\ UNCHANGED <<time, skew, signed, outcome>>
      BY <1>2, <2>2 DEF ReceiveHook
    <2>4. HookTypeOK'
      BY <2>3
    <2>5. ASSUME NEW m \in Nonces PROVE Remembered(m)'
      <3>1. CASE m = n
        BY <2>1, <2>3, <3>1
      <3>2. CASE m # n
        BY <2>3, <3>2
      <3> QED BY <3>1, <3>2
    <2> QED BY <2>4, <2>5
  <1>3. ASSUME NEW n \in Nonces, HookAnswered(n) PROVE HookInv'
    BY <1>3 DEF HookAnswered
  <1>4. ASSUME NEW n \in Nonces, HookFailed(n) PROVE HookInv'
    BY <1>4 DEF HookFailed
  <1>5. ASSUME NEW n \in Nonces, ForgetNonce(n) PROVE HookInv'
    <2>1. /\ seen' = seen \ {n} /\ Here > signed[n] + Tolerance
          /\ UNCHANGED <<time, skew, signed, outcome, accepted>>
      BY <1>5 DEF ForgetNonce
    <2>2. HookTypeOK'
      BY <2>1
    <2>3. ASSUME NEW m \in Nonces PROVE Remembered(m)'
      BY <2>1
    <2> QED BY <2>2, <2>3
  <1>6. ASSUME HookTick PROVE HookInv'
    <2>1. time' = time + 1 /\ UNCHANGED <<skew, signed, outcome, seen, accepted>>
      BY <1>6 DEF HookTick
    <2>2. HookTypeOK'
      BY <1>6, <2>1 DEF HookTick
    <2>3. ASSUME NEW m \in Nonces PROVE Remembered(m)'
      BY <2>1
    <2> QED BY <2>2, <2>3
  <1>7. CASE UNCHANGED hookVars
    BY <1>7 DEF hookVars
  <1> QED BY <1>1, <1>2, <1>3, <1>4, <1>5, <1>6, <1>7 DEF HookNext

\* The subscriber remembers what it acted on for as long as that matters.
THEOREM HookInvariant == HookSpec => []HookInv
  BY HookInitial, HookStep, PTL DEF HookSpec

\* No delivery is acted on twice, for any tolerance, skews and alterations.
THEOREM AcceptedOnceAlways == HookSpec => []AcceptedOnce
  <1>1. HookInv => AcceptedOnce
    BY DEF HookInv, Remembered, AcceptedOnce
  <1> QED BY <1>1, HookInvariant, PTL

-----------------------------------------------------------------------------
(* Serving: any settings.                                                  *)

Processes ==
  [role : {"seller", "mcp", "command"}, settings : Settings, pinned : BOOLEAN,
   override : ValidModes \cup {""}, sells : BOOLEAN]

ServingTypeOK ==
  /\ env \in Settings
  /\ reachable \in BOOLEAN
  /\ process \in [Hosts -> {Down} \cup Processes]
  /\ approved \subseteq Settings

SellersArePinned ==
  \A h \in Hosts : Running(h) /\ process[h].sells /\ process[h].role # "mcp" => process[h].pinned

ApprovedIsReady == \A s \in approved : Ready(s)

\* The inductive invariant of the serving processes.
ServingInv == ServingTypeOK /\ SellersArePinned /\ ApprovedIsReady

\* A pinned process answers with the key or not at all.
LEMMA PinnedUsesKey ==
  ASSUME NEW p \in Processes, p.pinned, Backend(p) # "none"
  PROVE  Backend(p) = "api_key"
  <1>1. ResolveMode(p) \in {"api_key", "raises"}
    BY DEF ResolveMode
  <1>2. CASE ResolveMode(p) = "api_key"
    BY <1>2 DEF Backend, ApiKeyClient
  <1>3. CASE ResolveMode(p) = "raises"
    BY <1>3 DEF Backend, LiveAvailable
  <1> QED BY <1>1, <1>2, <1>3

\* What the checks without a failure imply.
LEMMA ReadyImplies ==
  ASSUME NEW s \in Settings, Ready(s)
  PROVE  /\ s.address
         /\ s.mainnet => FacilitatorOf(s) # "testnet"
         /\ s.graphLive => s.graphKey \/ s.wallet
  <1> USE SettingsAssumption
  <1>1. /\ <<"pay_to", "fail">> \notin Checks(s)
        /\ <<"facilitator", "fail">> \notin Checks(s)
        /\ <<"graph_buy_leg", "fail">> \notin Checks(s)
    BY DEF Ready
  <1>2. s.address
    BY <1>1 DEF Checks
  <1>3. s.mainnet => FacilitatorOf(s) # "testnet"
    BY <1>1 DEF Checks, CdpSeen, FacilitatorOf
  <1>4. s.graphLive => s.graphKey \/ s.wallet
    BY <1>1 DEF Checks
  <1> QED BY <1>2, <1>3, <1>4

\* No process runs at first.
LEMMA ServingInitial == ServingInit => ServingInv
  BY DEF ServingInit, ServingInv, ServingTypeOK, SellersArePinned, ApprovedIsReady, Running

\* Every step keeps the inductive invariant.
LEMMA ServingStep == ServingInv /\ [ServingNext]_servingVars => ServingInv'
  <1> SUFFICES ASSUME ServingInv, [ServingNext]_servingVars PROVE ServingInv'
    OBVIOUS
  <1> USE DEF ServingInv, ServingTypeOK
  <1>1. ASSUME NEW h \in Hosts, NEW role \in {"seller", "mcp", "command"}, Launch(h, role)
        PROVE  ServingInv'
    <2>1. Started(role, role = "seller") \in Processes
      BY DEF Processes, Started
    <2>2. ServingTypeOK'
      BY <1>1, <2>1 DEF Launch
    <2>3. SellersArePinned'
      BY <1>1 DEF Launch, SellersArePinned, Running, Started
    <2> QED BY <1>1, <2>2, <2>3 DEF Launch, ApprovedIsReady
  <1>2. ASSUME NEW h \in Hosts, BuildApp(h) PROVE ServingInv'
    <2> DEFINE after == [process[h] EXCEPT !.pinned = TRUE,
                                           !.sells = @ \/ process[h].settings.address]
    <2>1. process[h] \in Processes
      BY <1>2 DEF BuildApp, Running
    <2>2. /\ process' = [process EXCEPT ![h] = after]
          /\ after \in Processes
          /\ after.pinned
      BY <1>2, <2>1, SettingsAssumption DEF BuildApp, Processes
    <2>3. ServingTypeOK'
      BY <1>2, <2>2 DEF BuildApp
    <2>4. SellersArePinned'
      BY <2>2 DEF SellersArePinned, Running
    <2> QED BY <1>2, <2>3, <2>4 DEF BuildApp, ApprovedIsReady
  <1>3. ASSUME NEW h \in Hosts, BuildMcp(h) PROVE ServingInv'
    <2>1. process[h] \in Processes /\ process[h].role = "mcp"
      BY <1>3 DEF BuildMcp, Running
    <2>2. [process[h] EXCEPT !.sells = TRUE] \in Processes
      BY <2>1 DEF Processes
    <2>3. ServingTypeOK'
      BY <1>3, <2>2 DEF BuildMcp
    <2>4. SellersArePinned'
      BY <1>3, <2>1 DEF BuildMcp, SellersArePinned, Running, Processes
    <2> QED BY <1>3, <2>3, <2>4 DEF BuildMcp, ApprovedIsReady
  <1>4. ASSUME NEW h \in Hosts, NEW mode \in ValidModes \cup {""}, SetAuthMode(h, mode)
        PROVE  ServingInv'
    <2>1. process[h] \in Processes
      BY <1>4 DEF SetAuthMode, Running
    <2>2. [process[h] EXCEPT !.override = mode] \in Processes
      BY <2>1 DEF Processes
    <2>3. ServingTypeOK'
      BY <1>4, <2>2 DEF SetAuthMode
    <2>4. SellersArePinned'
      BY <1>4, <2>1 DEF SetAuthMode, SellersArePinned, Running, Processes
    <2> QED BY <1>4, <2>3, <2>4 DEF SetAuthMode, ApprovedIsReady
  <1>5. ASSUME NEW h \in Hosts, Sell(h) \/ RunUnpaid(h) PROVE ServingInv'
    BY <1>5 DEF Sell, RunUnpaid, SellersArePinned, ApprovedIsReady, Running
  <1>6. ASSUME NEW h \in Hosts, Stop(h) PROVE ServingInv'
    BY <1>6 DEF Stop, SellersArePinned, ApprovedIsReady, Running
  <1>7. CASE Preflight
    BY <1>7 DEF Preflight, SellersArePinned, ApprovedIsReady, Running
  <1>8. CASE FacilitatorFlips
    BY <1>8 DEF FacilitatorFlips, SellersArePinned, ApprovedIsReady, Running
  <1>9. ASSUME NEW s \in Settings, EditEnv(s) PROVE ServingInv'
    BY <1>9 DEF EditEnv, SellersArePinned, ApprovedIsReady, Running
  <1>10. CASE UNCHANGED servingVars
    BY <1>10 DEF servingVars, SellersArePinned, ApprovedIsReady, Running
  <1> QED BY <1>1, <1>2, <1>3, <1>4, <1>5, <1>6, <1>7, <1>8, <1>9, <1>10 DEF ServingNext

\* It holds in every behaviour.
LEMMA ServingInvariant == ServingSpec => []ServingInv
  BY ServingInitial, ServingStep, PTL DEF ServingSpec

\* The pin of llm.py: whatever the order of override, environment and app
\* construction, a process that has built the paid app answers with the key.
THEOREM PinHoldsAlways == ServingSpec => PinHolds
  <1>1. ASSUME ServingInv, NEW h \in Hosts, Sell(h) \/ RunUnpaid(h),
               process[h].sells, process[h].role # "mcp"
        PROVE  sale'.backend = "api_key"
    <2>1. process[h] \in Processes /\ process[h].pinned
      BY <1>1 DEF ServingInv, ServingTypeOK, SellersArePinned, Sell, RunUnpaid, Running
    <2>2. Backend(process[h]) # "none" /\ sale'.backend = Backend(process[h])
      BY <1>1 DEF Sell, RunUnpaid
    <2> QED BY <2>1, <2>2, PinnedUsesKey
  <1>2. ServingInv =>
          [\A h \in Hosts :
             (Sell(h) \/ RunUnpaid(h)) /\ process[h].sells /\ process[h].role # "mcp"
               => sale'.backend = "api_key"]_servingVars
    BY <1>1
  <1> QED BY <1>2, ServingInvariant, PTL DEF PinHolds

\* mainnet.py against facilitator.py: a process launched from settings that a
\* preflight called ready can be paid and can settle.
THEOREM ReadyMeansSettlesAlways == ServingSpec => []ReadyMeansSettles
  <1>1. ServingInv => ReadyMeansSettles
    <2> SUFFICES ASSUME ServingInv, NEW h \in Hosts, Running(h),
                        process[h].settings \in approved
                 PROVE  LET s == process[h].settings
                        IN  /\ s.address
                            /\ reachable => SettlesFor(s)
                            /\ s.graphLive => s.graphKey \/ s.wallet
      BY DEF ReadyMeansSettles
    <2>1. process[h].settings \in Settings /\ Ready(process[h].settings)
      BY DEF ServingInv, ServingTypeOK, ApprovedIsReady
    <2> QED BY <2>1, ReadyImplies DEF SettlesFor
  <1> QED BY <1>1, ServingInvariant, PTL

=============================================================================
