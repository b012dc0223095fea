----------------------------- MODULE MonitorFleetProofs -----------------------------
(***************************************************************************)
(* Proofs about MonitorFleet, for every number of monitors, schedulers and *)
(* manual drivers, and whatever sources, channels, edits and crashes do;   *)
(* then what it keeps when a monitor has one driver.                       *)
(***************************************************************************)
EXTENDS MonitorFleet, TLAPS

-----------------------------------------------------------------------------
(* Every deployment.                                                       *)

\* Every cooldown stamp of the row is one of these <<monitor, key, time>>.
Backed(row, m, stamps) ==
  \A k \in Keys : row.cooldowns[k] # None => <<m, k, row.cooldowns[k]>> \in stamps

\* The feed entries a run has stamped its copy with and has yet to record.
Promised(m, j) ==
  IF j.stage \in {"delivering", "recording"} THEN {<<m, k, j.at>> : k \in j.keys} ELSE {}

RowsBacked  == \A m \in Monitors : Backed(rows[m], m, fed)
EditsBacked == \A m \in Monitors : edit[m] # None => Backed(edit[m], m, fed)
JobsBacked  ==
  \A d \in Drivers, m \in Monitors : Backed(job[d][m].row, m, fed \cup Promised(m, job[d][m]))

\* The inductive invariant of every deployment.
IInv == TypeOK /\ RowsBacked /\ EditsBacked /\ JobsBacked

\* The bounds are natural numbers, and a quiet level is among the levels.
LEMMA ConstantsLemma ==
  /\ Interval \in Nat /\ Cooldown \in Nat /\ MaxNow \in Nat /\ MaxCrashes \in Nat
  /\ "mid" \in Levels /\ Levels \subseteq Level
BY TimingAssumption, LevelsAssumption DEF Level

\* Instants are natural numbers.
LEMMA TimeLemma == 0 \in Time /\ Time \subseteq Nat
BY ConstantsLemma DEF Time

\* A created monitor has no cooldown stamp.
LEMMA NewRowLemma ==
  /\ NewRow \in Row
  /\ NewRow.cooldowns = [k \in Keys |-> None]
BY DEF NewRow, Row, Baseline

\* Neither has one that does not exist.
LEMMA NoRowLemma ==
  ASSUME NEW state \in {"unborn", "stored", "gone"}
  PROVE  NoRow(state) \in Row /\ NoRow(state).cooldowns = [k \in Keys |-> None]
BY NewRowLemma DEF NoRow, Row

\* A driver without a job holds no key.
LEMMA NoJobLemma ==
  /\ NoJob \in Job
  /\ NoJob.row = NewRow /\ NoJob.stage = "none" /\ NoJob.keys = {}
BY NewRowLemma, TimeLemma DEF NoJob, Job, JobStage

\* What a run rolls forward is a row; its stamps are old ones or the run's.
LEMMA RolledForwardLemma ==
  ASSUME NEW row \in Row, NEW level \in Baseline, NEW keys \in SUBSET Keys, NEW at \in Time
  PROVE  /\ RolledForward(row, level, keys, at) \in Row
         /\ RolledForward(row, level, keys, at).cooldowns
              = [k \in Keys |-> IF k \in keys THEN at ELSE row.cooldowns[k]]
<1> DEFINE stamps == [k \in Keys |-> IF k \in keys THEN at ELSE row.cooldowns[k]]
<1>1. stamps \in [Keys -> Time \cup {None}]
  BY DEF Row
<1>2. at + Interval \in Nat
  BY TimeLemma, ConstantsLemma
<1>3. RolledForward(row, level, keys, at)
        = [row EXCEPT !.baseline = level, !.cooldowns = stamps, !.next = at + Interval]
  BY DEF RolledForward, Row
<1> HIDE DEF stamps
<1>4. [row EXCEPT !.baseline = level, !.cooldowns = stamps, !.next = at + Interval] \in Row
  BY <1>1, <1>2 DEF Row
<1>5. RolledForward(row, level, keys, at).cooldowns = stamps
  BY <1>3 DEF Row
<1> QED
  BY <1>3, <1>4, <1>5 DEF stamps

\* A row without stamps is backed by anything.
LEMMA UnstampedLemma ==
  ASSUME NEW row, row.cooldowns = [k \in Keys |-> None], NEW m, NEW stamps
  PROVE  Backed(row, m, stamps)
BY DEF Backed

\* A row that is backed stays backed as the feed grows.
LEMMA MoreStampsLemma ==
  ASSUME NEW row, NEW m, NEW S, NEW T, Backed(row, m, S), S \subseteq T
  PROVE  Backed(row, m, T)
BY DEF Backed

\* Giving one job a new, backed value keeps the jobs typed and backed.
LEMMA SetJobLemma ==
  ASSUME TypeOK, JobsBacked, fed \subseteq fed',
         NEW d \in Drivers, NEW m \in Monitors, NEW j \in Job, SetJob(d, m, j),
         Backed(j.row, m, fed' \cup Promised(m, j))
  PROVE  /\ job' \in [Drivers -> [Monitors -> Job]]
         /\ JobsBacked'
<1>1. job' \in [Drivers -> [Monitors -> Job]]
  BY DEF SetJob, TypeOK
<1>2. ASSUME NEW e \in Drivers, NEW n \in Monitors
      PROVE  Backed(job'[e][n].row, n, fed' \cup Promised(n, job'[e][n]))
  <2>1. CASE e = d /\ n = m
    <3>1. job'[e][n] = j
      BY <2>1 DEF SetJob, TypeOK
    <3> QED
      BY <2>1, <3>1
  <2>2. CASE ~(e = d /\ n = m)
    <3>1. job'[e][n] = job[e][n]
      BY <2>2 DEF SetJob, TypeOK
    <3>2. Backed(job[e][n].row, n, fed \cup Promised(n, job[e][n]))
      BY DEF JobsBacked
    <3> QED
      BY <3>1, <3>2, MoreStampsLemma
  <2> QED
    BY <2>1, <2>2
<1>3. JobsBacked'
  <2>1. JobsBacked' = \A e \in Drivers, n \in Monitors :
           Backed(job'[e][n].row, n, fed' \cup Promised(n, job'[e][n]))
    BY DEF JobsBacked, Backed, Promised
  <2> QED
    BY <1>2, <2>1
<1> QED
  BY <1>1, <1>3

\* The history variables of the alerts stay typed.
HistoryOK ==
  /\ alerted \in [Monitors -> [Keys -> Time \cup {None}]]
  /\ early \subseteq Monitors \X Keys
  /\ stood \subseteq Monitors \X Keys

\* A step that gives one job a new, backed value and leaves the store alone.
LEMMA JobStepLemma ==
  ASSUME IInv, NEW d \in Drivers, NEW m \in Monitors, NEW j \in Job, SetJob(d, m, j),
         Backed(j.row, m, fed \cup Promised(m, j)),
         UNCHANGED <<now, world, rows, edit, fed, crashes>>, HistoryOK'
  PROVE  IInv'
<1>1. job' \in [Drivers -> [Monitors -> Job]] /\ JobsBacked'
  BY SetJobLemma DEF IInv
<1>2. TypeOK'
  BY <1>1 DEF IInv, TypeOK, HistoryOK
<1>3. RowsBacked' /\ EditsBacked'
  BY DEF IInv, RowsBacked, EditsBacked, Backed
<1> QED
  BY <1>1, <1>2, <1>3 DEF IInv

\* Jobs stay backed while neither they nor the feed change.
LEMMA JobsStayLemma ==
  ASSUME JobsBacked, UNCHANGED <<job, fed>>
  PROVE  JobsBacked'
BY DEF JobsBacked, Backed, Promised

\* A step that stores or holds back a backed row and leaves the jobs alone.
LEMMA RowStepLemma ==
  ASSUME IInv, UNCHANGED <<now, world, job, fed, alerted, early, stood, crashes>>,
         rows' \in [Monitors -> Row], edit' \in [Monitors -> Row \cup {None}],
         RowsBacked', EditsBacked'
  PROVE  IInv'
<1>1. TypeOK'
  BY DEF IInv, TypeOK
<1>2. JobsBacked'
  BY JobsStayLemma DEF IInv
<1> QED
  BY <1>1, <1>2 DEF IInv

\* The same for one monitor's row.
LEMMA StoreRowLemma ==
  ASSUME IInv, NEW m \in Monitors, NEW row \in Row, Backed(row, m, fed),
         rows' = [rows EXCEPT ![m] = row],
         UNCHANGED <<now, world, job, fed, alerted, early, stood, crashes>>,
         edit' \in [Monitors -> Row \cup {None}],
         \A n \in Monitors : edit'[n] \in {edit[n], None}
  PROVE  IInv'
<1>1. rows' \in [Monitors -> Row]
  BY DEF IInv, TypeOK
<1>2. RowsBacked'
  BY DEF IInv, TypeOK, RowsBacked, Backed
<1>3. EditsBacked'
  BY DEF IInv, EditsBacked, Backed
<1> QED
  BY <1>1, <1>2, <1>3, RowStepLemma

---------------------------------------------------------------------------
(* The initial states *)

\* No row has a stamp at first.
LEMMA InitInv == Init => IInv
<1> SUFFICES ASSUME Init PROVE IInv
  OBVIOUS
<1>1. TypeOK
  <2>1. rows \in [Monitors -> Row]
    BY NoRowLemma DEF Init
  <2>2. job \in [Drivers -> [Monitors -> Job]]
    BY NoJobLemma DEF Init
  <2>3. now \in Time /\ crashes \in 0..MaxCrashes
    BY TimeLemma, ConstantsLemma DEF Init
  <2>4. world \in [Monitors -> Level]
    BY DEF Init, Level
  <2> QED
    BY <2>1, <2>2, <2>3, <2>4 DEF Init, TypeOK
<1>2. RowsBacked
  BY NoRowLemma, UnstampedLemma DEF Init, RowsBacked
<1>3. EditsBacked
  BY DEF Init, EditsBacked
<1>4. JobsBacked
  BY NoJobLemma, NewRowLemma, UnstampedLemma DEF Init, JobsBacked
<1> QED
  BY <1>1, <1>2, <1>3, <1>4 DEF IInv

---------------------------------------------------------------------------
(* One lemma per group of actions *)

\* A tick copies rows that are backed.
LEMMA TickLemma ==
  ASSUME IInv, NEW s \in Schedulers, SchedulerTick(s)
  PROVE  IInv'
<1>d. s \in Drivers
  BY DEF Drivers
<1>1. ASSUME NEW m \in Monitors
      PROVE  LET j == [NoJob EXCEPT !.stage = "queued", !.row = rows[m]]
             IN  j \in Job /\ j.row = rows[m]
  BY NoJobLemma DEF IInv, TypeOK, Job, JobStage
<1>2. ASSUME NEW m \in Monitors
      PROVE  job'[s][m] \in Job /\ Backed(job'[s][m].row, m, fed)
  <2>1. CASE Due(m)
    <3>1. job'[s][m] = [NoJob EXCEPT !.stage = "queued", !.row = rows[m]]
      BY <1>d, <2>1 DEF SchedulerTick, IInv, TypeOK
    <3> QED
      BY <1>1, <3>1 DEF IInv, RowsBacked
  <2>2. CASE ~Due(m)
    <3>1. job'[s][m] = NoJob
      BY <1>d, <2>2 DEF SchedulerTick, IInv, TypeOK
    <3> QED
      BY <3>1, NoJobLemma, NewRowLemma, UnstampedLemma
  <2> QED
    BY <2>1, <2>2
<1>3. \A e \in Drivers \ {s} : job'[e] = job[e]
  BY DEF SchedulerTick, IInv, TypeOK
<1>4. job' \in [Drivers -> [Monitors -> Job]]
  <2>1. [m \in Monitors |->
           IF Due(m) THEN [NoJob EXCEPT !.stage = "queued", !.row = rows[m]] ELSE NoJob]
          \in [Monitors -> Job]
    BY <1>1, NoJobLemma
  <2> QED
    BY <2>1 DEF SchedulerTick, IInv, TypeOK
<1>5. JobsBacked'
  <2>1. ASSUME NEW e \in Drivers, NEW m \in Monitors
        PROVE  Backed(job'[e][m].row, m, fed' \cup Promised(m, job'[e][m]))
    <3>1. fed' = fed
      BY DEF SchedulerTick
    <3>2. CASE e = s
      BY <1>2, <3>1, <3>2, MoreStampsLemma
    <3>3. CASE e # s
      BY <1>3, <3>1, <3>3 DEF IInv, JobsBacked
    <3> QED
      BY <3>2, <3>3
  <2> QED
    BY <2>1 DEF JobsBacked, Backed, Promised
<1>6. TypeOK'
  BY <1>4 DEF SchedulerTick, IInv, TypeOK
<1>7. RowsBacked' /\ EditsBacked'
  BY DEF SchedulerTick, IInv, RowsBacked, EditsBacked, Backed
<1> QED
  BY <1>5, <1>6, <1>7 DEF IInv

\* A queued run that starts holds the copy it had.
LEMMA StartLemma ==
  ASSUME IInv, NEW s \in Schedulers, NEW m \in Monitors, Start(s, m)
  PROVE  IInv'
<1> DEFINE j == [job[s][m] EXCEPT !.stage = "gathering", !.at = now]
<1>1. s \in Drivers
  BY DEF Drivers
<1>2. j \in Job /\ j.row = job[s][m].row
  <2>1. job[s][m] \in Job /\ now \in Time
    BY <1>1 DEF IInv, TypeOK
  <2> QED
    BY <2>1 DEF Job, JobStage
<1>3. Backed(job[s][m].row, m, fed)
  <2>1. Backed(job[s][m].row, m, fed \cup Promised(m, job[s][m]))
    BY <1>1 DEF IInv, JobsBacked
  <2>2. Promised(m, job[s][m]) = {}
    BY DEF Start, Promised
  <2> QED
    BY <2>1, <2>2
<1>4. Backed(j.row, m, fed \cup Promised(m, j))
  BY <1>2, <1>3, MoreStampsLemma
<1>5. SetJob(s, m, j) /\ HistoryOK'
  BY DEF Start, IInv, TypeOK, HistoryOK
<1> HIDE DEF j
<1> QED
  BY <1>1, <1>2, <1>4, <1>5, JobStepLemma DEF Start

\* A manual run copies a row that is backed.
LEMMA ManualRunLemma ==
  ASSUME IInv, NEW d \in Manuals, NEW m \in Monitors, ManualRun(d, m)
  PROVE  IInv'
<1> DEFINE j == [NoJob EXCEPT !.stage = "gathering", !.row = rows[m], !.at = now]
<1>1. d \in Drivers
  BY DEF Drivers
<1>2. j \in Job /\ j.row = rows[m]
  BY NoJobLemma DEF IInv, TypeOK, Job, JobStage
<1>3. Backed(j.row, m, fed \cup Promised(m, j))
  BY <1>2, MoreStampsLemma DEF IInv, RowsBacked
<1>4. SetJob(d, m, j) /\ HistoryOK'
  BY DEF ManualRun, IInv, TypeOK, HistoryOK
<1> HIDE DEF j
<1> QED
  BY <1>1, <1>2, <1>3, <1>4, JobStepLemma DEF ManualRun

\* A run that does not deliver or record yet holds old stamps only.
LEMMA QuietJobLemma ==
  ASSUME IInv, NEW d \in Drivers, NEW m \in Monitors,
         job[d][m].stage \notin {"delivering", "recording"}
  PROVE  Backed(job[d][m].row, m, fed)
<1>1. Backed(job[d][m].row, m, fed \cup Promised(m, job[d][m]))
  BY DEF IInv, JobsBacked
<1>2. Promised(m, job[d][m]) = {}
  BY DEF Promised
<1> QED
  BY <1>1, <1>2

\* A gather that returns stamps the copy with the keys it promises to the
\* feed.
LEMMA GatherReturnsLemma ==
  ASSUME IInv, NEW d \in Drivers, NEW m \in Monitors, NEW level \in Baseline,
         GatherReturns(d, m, level)
  PROVE  IInv'
<1> DEFINE j    == job[d][m]
           keys == Published(j.row, level, j.at)
           row  == RolledForward(j.row, level, keys, j.at)
           k    == [j EXCEPT !.stage = IF keys = {} THEN "recording" ELSE "delivering",
                             !.row = row, !.keys = keys]
<1>1. j \in Job /\ j.row \in Row /\ j.at \in Time
  BY DEF IInv, TypeOK, Job
<1>2. keys \in SUBSET Keys
  BY DEF Published
<1>3. row \in Row /\ row.cooldowns = [l \in Keys |-> IF l \in keys THEN j.at ELSE j.row.cooldowns[l]]
  BY <1>1, <1>2, RolledForwardLemma
<1>4. Backed(j.row, m, fed)
  BY QuietJobLemma DEF GatherReturns
<1>5. SetJob(d, m, k) /\ UNCHANGED <<now, world, rows, edit, fed, crashes>> /\ HistoryOK'
  BY DEF GatherReturns, IInv, TypeOK, HistoryOK
<1> HIDE DEF j, keys, row
<1>6. /\ k \in Job
      /\ k.row = row /\ k.keys = keys /\ k.at = j.at
      /\ k.stage \in {"delivering", "recording"}
  BY <1>1, <1>2, <1>3 DEF Job, JobStage
<1> HIDE DEF k
<1>7. Promised(m, k) = {<<m, l, j.at>> : l \in keys}
  BY <1>6 DEF Promised
<1>8. Backed(row, m, fed \cup Promised(m, k))
  BY <1>3, <1>4, <1>7 DEF Backed
<1> QED
  BY <1>5, <1>6, <1>8, JobStepLemma

\* However a gather ends, the copy is backed by the feed and the promise.
LEMMA GatherLemma ==
  ASSUME IInv, NEW d \in Drivers, NEW m \in Monitors, Gather(d, m)
  PROVE  IInv'
<1>1. CASE GatherReturns(d, m, world[m]) \/ GatherReturns(d, m, "missing")
  <2>1. world[m] \in Baseline /\ "missing" \in Baseline
    BY DEF IInv, TypeOK, Baseline
  <2> QED
    BY <1>1, <2>1, GatherReturnsLemma
<1>2. CASE GatherCaught(d, m)
  <2> DEFINE j == [job[d][m] EXCEPT !.stage = "recording",
                                    !.row.next = job[d][m].at + Interval]
  <2>1. job[d][m] \in Job /\ job[d][m].row \in Row /\ job[d][m].at + Interval \in Nat
    <3>1. job[d][m] \in Job
      BY DEF IInv, TypeOK
    <3>2. job[d][m].row \in Row /\ job[d][m].at \in Time
      BY <3>1 DEF Job
    <3>3. job[d][m].at \in Nat /\ Interval \in Nat
      BY <3>2, TimeLemma, ConstantsLemma
    <3> QED
      BY <3>1, <3>2, <3>3
  <2>2. j \in Job /\ j.row.cooldowns = job[d][m].row.cooldowns
    <3> DEFINE row == [job[d][m].row EXCEPT !.next = job[d][m].at + Interval]
    <3>1. row \in Row /\ row.cooldowns = job[d][m].row.cooldowns
      BY <2>1 DEF Row
    <3>2. j = [job[d][m] EXCEPT !.stage = "recording", !.row = row]
      BY <2>1 DEF Job
    <3> HIDE DEF row
    <3>3. "recording" \in JobStage
      BY DEF JobStage
    <3>4. [job[d][m] EXCEPT !.stage = "recording", !.row = row] \in Job
      BY <2>1, <3>1, <3>3 DEF Job
    <3>5. j.row = row
      BY <2>1, <3>2 DEF Job
    <3> QED
      BY <3>1, <3>2, <3>4, <3>5
  <2>3. Backed(job[d][m].row, m, fed)
    BY <1>2, QuietJobLemma DEF GatherCaught
  <2>4. SetJob(d, m, j) /\ UNCHANGED <<now, world, rows, edit, fed, crashes>> /\ HistoryOK'
    BY <1>2 DEF GatherCaught, IInv, TypeOK, HistoryOK
  <2> HIDE DEF j
  <2>5. Backed(j.row, m, fed \cup Promised(m, j))
    BY <2>2, <2>3 DEF Backed
  <2> QED
    BY <2>2, <2>4, <2>5, JobStepLemma
<1>3. CASE GatherBreaks(d, m)
  <2>1. Backed(NoJob.row, m, fed \cup Promised(m, NoJob))
    BY NoJobLemma, NewRowLemma, UnstampedLemma
  <2>2. SetJob(d, m, NoJob) /\ UNCHANGED <<now, world, rows, edit, fed, crashes>> /\ HistoryOK'
    BY <1>3 DEF GatherBreaks, IInv, TypeOK, HistoryOK
  <2> QED
    BY <2>1, <2>2, NoJobLemma, JobStepLemma
<1> QED
  BY <1>1, <1>2, <1>3 DEF Gather

\* A push changes neither the copy nor the promise.
LEMMA PushLemma ==
  ASSUME IInv, NEW d \in Drivers, NEW m \in Monitors, Push(d, m)
  PROVE  IInv'
<1> DEFINE j == job[d][m]
<1>1. j \in Job /\ j.at \in Time /\ j.keys \subseteq Keys /\ j.stage = "delivering"
  BY DEF IInv, TypeOK, Job, Push
<1>2. HistoryOK'
  <2>1. CASE Alert(m, j.keys, j.at)
    <3>1. [k \in Keys |-> IF k \in j.keys THEN j.at ELSE alerted[m][k]]
            \in [Keys -> Time \cup {None}]
      BY <1>1 DEF IInv, TypeOK
    <3>2. alerted' \in [Monitors -> [Keys -> Time \cup {None}]]
      BY <2>1, <3>1 DEF Alert, IInv, TypeOK
    <3>3. early' \subseteq Monitors \X Keys
      BY <1>1, <2>1 DEF Alert, IInv, TypeOK
    <3> QED
      BY <3>2, <3>3 DEF HistoryOK, Push, IInv, TypeOK
  <2>2. CASE UNCHANGED <<alerted, early>>
    BY <2>2 DEF HistoryOK, Push, IInv, TypeOK
  <2> QED
    BY <2>1, <2>2 DEF Push
<1>3. PICK k \in {NoJob, [j EXCEPT !.stage = "recording"]} : SetJob(d, m, k)
  BY DEF Push
<1>4. k \in Job /\ Backed(k.row, m, fed \cup Promised(m, k))
  <2>1. CASE k = NoJob
    BY <2>1, NoJobLemma, NewRowLemma, UnstampedLemma
  <2>2. CASE k = [j EXCEPT !.stage = "recording"]
    <3>1. /\ k \in Job /\ k.row = j.row
          /\ k.stage = "recording" /\ k.keys = j.keys /\ k.at = j.at
      BY <1>1, <2>2 DEF Job, JobStage
    <3>2. Promised(m, k) = Promised(m, j)
      BY <1>1, <3>1 DEF Promised
    <3>3. Backed(j.row, m, fed \cup Promised(m, j))
      BY DEF IInv, JobsBacked
    <3> QED
      BY <3>1, <3>2, <3>3
  <2> QED
    BY <1>3, <2>1, <2>2
<1> QED
  BY <1>2, <1>3, <1>4, JobStepLemma DEF Push

\* Recording the run keeps its promise: the stamps are in the feed.
LEMMA RecordLemma ==
  ASSUME IInv, NEW d \in Drivers, NEW m \in Monitors, Record(d, m)
  PROVE  IInv'
<1> DEFINE j == job[d][m]
           k == [j EXCEPT !.stage = "saving"]
<1>1. j \in Job /\ j.at \in Time /\ j.keys \subseteq Keys /\ j.stage = "recording"
  BY DEF IInv, TypeOK, Job, Record
<1>2. k \in Job /\ k.row = j.row
  BY <1>1 DEF Job, JobStage
<1>3. fed' = fed \cup Promised(m, j)
  BY <1>1 DEF Record, Promised
<1>4. Backed(j.row, m, fed')
  BY <1>3 DEF IInv, JobsBacked
<1>5. SetJob(d, m, k)
  BY DEF Record
<1> HIDE DEF k
<1>6. Backed(k.row, m, fed' \cup Promised(m, k))
  BY <1>2, <1>4, MoreStampsLemma
<1>7. job' \in [Drivers -> [Monitors -> Job]] /\ JobsBacked'
  BY <1>2, <1>3, <1>5, <1>6, SetJobLemma DEF IInv
<1>8. fed' \subseteq Monitors \X Keys \X Time
  BY <1>1, <1>3 DEF IInv, TypeOK, Promised
<1>9. stood' \subseteq Monitors \X Keys
  BY <1>1 DEF IInv, TypeOK, Record
<1>10. TypeOK'
  BY <1>7, <1>8, <1>9 DEF IInv, TypeOK, Record
<1>11. RowsBacked' /\ EditsBacked'
  BY <1>3 DEF IInv, RowsBacked, EditsBacked, Backed, Record
<1> QED
  BY <1>7, <1>10, <1>11 DEF IInv

\* Only a run that has recorded saves, and its copy is backed by the feed.
LEMMA SaveLemma ==
  ASSUME IInv, NEW d \in Drivers, NEW m \in Monitors, Save(d, m)
  PROVE  IInv'
<1>1. job[d][m].row \in Row
  BY DEF IInv, TypeOK, Job
<1>2. Backed(job[d][m].row, m, fed)
  BY QuietJobLemma DEF Save
<1>3. Backed(NoJob.row, m, fed' \cup Promised(m, NoJob))
  BY NoJobLemma, NewRowLemma, UnstampedLemma
<1>4. job' \in [Drivers -> [Monitors -> Job]] /\ JobsBacked'
  BY <1>3, NoJobLemma, SetJobLemma DEF IInv, Save
<1>5. TypeOK'
  BY <1>1, <1>4 DEF IInv, TypeOK, Save
<1>6. RowsBacked'
  BY <1>2 DEF IInv, TypeOK, RowsBacked, Backed, Save
<1>7. EditsBacked'
  BY DEF IInv, EditsBacked, Backed, Save
<1> QED
  BY <1>4, <1>5, <1>6, <1>7 DEF IInv

\* An edit copies and writes back a row that is backed.
LEMMA EditLemma ==
  ASSUME IInv, NEW m \in Monitors, EditStep(m)
  PROVE  IInv'
<1>i. edit \in [Monitors -> Row \cup {None}] /\ rows \in [Monitors -> Row]
  BY DEF IInv, TypeOK
<1>1. CASE Create(m)
  <2>1. Backed(NewRow, m, fed)
    BY NewRowLemma, UnstampedLemma
  <2> QED
    BY <1>1, <1>i, <2>1, NewRowLemma, StoreRowLemma DEF Create
<1>2. CASE Delete(m)
  <2>1. NoRow("gone") \in Row /\ Backed(NoRow("gone"), m, fed)
    BY NoRowLemma, UnstampedLemma
  <2> QED
    BY <1>2, <1>i, <2>1, StoreRowLemma DEF Delete
<1>3. ASSUME NEW enabled \in BOOLEAN, ToggleRead(m, enabled)
      PROVE  IInv'
  <2> DEFINE row == [rows[m] EXCEPT !.enabled = enabled]
  <2>1. row \in Row /\ row.cooldowns = rows[m].cooldowns
    BY <1>i DEF Row
  <2>2. edit' = [edit EXCEPT ![m] = row]
    BY <1>3 DEF ToggleRead
  <2> HIDE DEF row
  <2>3. Backed(row, m, fed)
    BY <2>1 DEF IInv, RowsBacked, Backed
  <2>4. edit' \in [Monitors -> Row \cup {None}]
    BY <1>i, <2>1, <2>2
  <2>5. EditsBacked'
    BY <1>3, <1>i, <2>2, <2>3 DEF IInv, EditsBacked, Backed, ToggleRead
  <2>6. RowsBacked'
    BY <1>3 DEF IInv, RowsBacked, Backed, ToggleRead
  <2> QED
    BY <1>3, <1>i, <2>4, <2>5, <2>6, RowStepLemma DEF ToggleRead
<1>4. CASE ToggleSave(m)
  <2>1. edit[m] \in Row /\ Backed(edit[m], m, fed)
    BY <1>4, <1>i DEF ToggleSave, IInv, EditsBacked
  <2>2. /\ edit' \in [Monitors -> Row \cup {None}]
        /\ \A n \in Monitors : edit'[n] \in {edit[n], None}
    BY <1>4, <1>i DEF ToggleSave
  <2> QED
    BY <1>4, <2>1, <2>2, StoreRowLemma DEF ToggleSave
<1> QED
  BY <1>1, <1>2, <1>3, <1>4 DEF EditStep

\* A crash drops the copies and with them the promises.
LEMMA CrashLemma ==
  ASSUME IInv, NEW d \in Drivers, Crash(d)
  PROVE  IInv'
<1>1. job' \in [Drivers -> [Monitors -> Job]]
  <2>1. [m \in Monitors |-> NoJob] \in [Monitors -> Job]
    BY NoJobLemma
  <2> QED
    BY <2>1 DEF Crash, IInv, TypeOK
<1>2. \A e \in Drivers, m \in Monitors : job'[e][m] \in {job[e][m], NoJob}
  BY DEF Crash, IInv, TypeOK
<1>3. JobsBacked'
  <2>1. ASSUME NEW e \in Drivers, NEW m \in Monitors
        PROVE  Backed(job'[e][m].row, m, fed' \cup Promised(m, job'[e][m]))
    <3>1. fed' = fed
      BY DEF Crash
    <3>2. CASE job'[e][m] = job[e][m]
      BY <3>1, <3>2 DEF IInv, JobsBacked
    <3>3. CASE job'[e][m] = NoJob
      BY <3>3, NoJobLemma, NewRowLemma, UnstampedLemma
    <3> QED
      BY <1>2, <3>2, <3>3
  <2> QED
    BY <2>1 DEF JobsBacked, Backed, Promised
<1>4. crashes' \in 0..MaxCrashes
  BY ConstantsLemma DEF Crash, IInv, TypeOK
<1>5. TypeOK'
  BY <1>1, <1>4 DEF Crash, IInv, TypeOK
<1>6. RowsBacked' /\ EditsBacked'
  BY DEF Crash, IInv, RowsBacked, EditsBacked, Backed
<1> QED
  BY <1>3, <1>5, <1>6 DEF IInv

\* The clock and the world touch neither the store nor a run.
LEMMA WorldLemma ==
  ASSUME IInv, ClockTick \/ (\E m \in Monitors : WorldMoves(m)) \/ UNCHANGED vars
  PROVE  IInv'
<1>1. now' \in Time
  <2>1. CASE ClockTick
    BY <2>1, ConstantsLemma DEF ClockTick, IInv, TypeOK, Time
  <2>2. CASE now' = now
    BY <2>2 DEF IInv, TypeOK
  <2> QED
    BY <2>1, <2>2 DEF WorldMoves, vars
<1>2. world' \in [Monitors -> Level] /\ stood' \subseteq Monitors \X Keys
  BY ConstantsLemma DEF ClockTick, WorldMoves, vars, IInv, TypeOK
<1>3. UNCHANGED <<rows, job, edit, fed, alerted, early, crashes>>
  BY DEF ClockTick, WorldMoves, vars
<1>4. TypeOK'
  BY <1>1, <1>2, <1>3 DEF IInv, TypeOK
<1>5. RowsBacked' /\ EditsBacked' /\ JobsBacked'
  BY <1>3 DEF IInv, RowsBacked, EditsBacked, JobsBacked, Backed, Promised
<1> QED
  BY <1>4, <1>5 DEF IInv

---------------------------------------------------------------------------
(* The invariant and the theorems *)

\* Every step keeps the inductive invariant.
LEMMA StepInv == IInv /\ [Next]_vars => IInv'
<1> SUFFICES ASSUME IInv, [Next]_vars PROVE IInv'
  OBVIOUS
<1>1. ASSUME NEW d \in Drivers, NEW m \in Monitors, RunStep(d, m)
      PROVE  IInv'
  BY <1>1, GatherLemma, PushLemma, RecordLemma, SaveLemma DEF RunStep
<1>2. CASE \E s \in Schedulers : SchedulerTick(s)
  BY <1>2, TickLemma
<1>3. CASE \E s \in Schedulers, m \in Monitors : Start(s, m)
  BY <1>3, StartLemma
<1>4. CASE \E d \in Manuals, m \in Monitors : ManualRun(d, m)
  BY <1>4, ManualRunLemma
<1>5. CASE \E d \in Drivers : Crash(d)
  BY <1>5, CrashLemma
<1>6. CASE \E m \in Monitors : EditStep(m)
  BY <1>6, EditLemma
<1>7. CASE ClockTick \/ (\E m \in Monitors : WorldMoves(m)) \/ UNCHANGED vars
  BY <1>7, WorldLemma
<1> QED
  BY <1>1, <1>2, <1>3, <1>4, <1>5, <1>6, <1>7 DEF Next

\* It holds in every behaviour.
LEMMA InvHolds == Spec => []IInv
BY InitInv, StepInv, PTL DEF Spec

\* MonitorFleet is type correct.
THEOREM TypeCorrect == Spec => []TypeOK
<1>1. IInv => TypeOK
  BY DEF IInv
<1> QED
  BY <1>1, InvHolds, PTL

\* Every cooldown stamp in the store belongs to a run in the feed: a run records
\* before it saves, and edits and crashes only ever store what was stored.
THEOREM SuppressionIsBackedAlways == Spec => []SuppressionIsBacked
<1>1. IInv => SuppressionIsBacked
  BY DEF IInv, RowsBacked, Backed, SuppressionIsBacked
<1> QED
  BY <1>1, InvHolds, PTL

-----------------------------------------------------------------------------
(* One driver: one scheduler, no manual runs and no edits meanwhile.       *)

\* One scheduler, and nobody else who runs or edits a monitor.
OneDriver ==
  /\ \A s, t \in Schedulers : s = t
  /\ Manuals = {}
  /\ EditKinds = {}

\* The copy a run has rolled forward, against the row r it will replace and
\* the feed F: the next run is one interval after this one, a baseline is not
\* given up, and what its baseline crosses is published or cooling down.
Rolled(j, r, m, F) ==
  /\ j.row.state = "stored"
  /\ j.row.next = j.at + Interval
  /\ r.baseline # "empty" =>
       /\ j.row.baseline # "empty"
       /\ \A k \in Keys : Fires(k, r.baseline, j.row.baseline) => k \in j.keys \/ CoolingDown(r, k, j.at)
  /\ j.stage = "saving" => \A k \in j.keys : <<m, k, j.at>> \in F

\* A run against the stored row: it was due by the time it began, and until it
\* rolls forward its copy is the row.
Agrees(j, r, m, F, t) ==
  j.stage # "none" =>
    /\ r.state = "stored"
    /\ j.stage # "queued" => j.at <= t
    /\ r.next # None => r.next <= IF j.stage = "queued" THEN t ELSE j.at
    /\ j.stage \in {"queued", "gathering"} => j.row = r
    /\ j.stage \in {"delivering", "recording", "saving"} => Rolled(j, r, m, F)

\* The inductive invariant of a monitor with one driver.
SoloInv ==
  /\ \A m \in Monitors : edit[m] = None
  /\ \A m \in Monitors, k \in Keys : rows[m].state = "unborn" => rows[m].cooldowns[k] = None
  /\ \A d \in Drivers, m \in Monitors : Agrees(job[d][m], rows[m], m, fed, now)

\* Every alert a channel took is at most as old as the stamp that follows it.
Covers(stamps, alerts) ==
  \A k \in Keys : alerts[k] # None => stamps[k] # None /\ alerts[k] <= stamps[k]

\* Where that stamp is: in the row, or from the push to the save in the copy.
Hears(j, r, alerts) ==
  /\ Covers(IF j.stage \in {"recording", "saving"} THEN j.row.cooldowns ELSE r.cooldowns, alerts)
  /\ j.stage \in {"gathering", "delivering"} =>
       \A k \in Keys : alerts[k] # None => alerts[k] <= j.at
  /\ j.stage = "delivering" => \A k \in Keys :
       /\ k \in j.keys => ~CoolingDown(r, k, j.at)
       /\ j.row.cooldowns[k] = IF k \in j.keys THEN j.at ELSE r.cooldowns[k]

\* What it keeps besides while no push raises.
AlertInv ==
  crashes = 0 =>
    /\ early = {}
    /\ \A m \in Monitors, k \in Keys : alerted[m][k] # None => alerted[m][k] <= now
    /\ \A d \in Drivers, m \in Monitors : Hears(job[d][m], rows[m], alerted[m])

---------------------------------------------------------------------------
\* There is one driver.
LEMMA SameDriver ==
  ASSUME OneDriver, NEW d \in Drivers, NEW e \in Drivers
  PROVE  d = e
BY DEF OneDriver, Drivers

\* The types of a job and its row, from TypeOK.
LEMMA JobTyped ==
  ASSUME TypeOK, NEW d \in Drivers, NEW m \in Monitors
  PROVE  /\ job[d][m] \in Job
         /\ job[d][m].row \in Row /\ job[d][m].at \in Nat /\ job[d][m].keys \subseteq Keys
         /\ rows[m] \in Row /\ now \in Nat
<1>1. job[d][m] \in Job /\ rows[m] \in Row /\ now \in Time
  BY DEF TypeOK
<1> QED
  BY <1>1, TimeLemma DEF Job

\* Time passes and the feed grows: a run still agrees with its row.
LEMMA AgreesLater ==
  ASSUME NEW j, NEW r, NEW m, NEW F, NEW G, F \subseteq G,
         NEW t \in Nat, NEW u \in Nat, t <= u,
         j.at \in Nat, r.next \in Nat \cup {None},
         Agrees(j, r, m, F, t)
  PROVE  Agrees(j, r, m, G, u)
<1>1. j.stage \in {"delivering", "recording", "saving"} /\ Rolled(j, r, m, F) => Rolled(j, r, m, G)
  BY DEF Rolled
<1> SUFFICES ASSUME j.stage # "none" PROVE Agrees(j, r, m, G, u)
  BY DEF Agrees
<1>2. j.stage # "queued" => j.at <= u
  BY DEF Agrees
<1>3. r.next # None => r.next <= IF j.stage = "queued" THEN u ELSE j.at
  BY DEF Agrees
<1> QED
  BY <1>1, <1>2, <1>3 DEF Agrees

\* A step that moves the run of one monitor and leaves its row alone.
LEMMA SoloJobStep ==
  ASSUME IInv, SoloInv, OneDriver, NEW d \in Drivers, NEW m \in Monitors, NEW j,
         SetJob(d, m, j), UNCHANGED <<now, rows, edit>>, fed \subseteq fed',
         Agrees(j, rows[m], m, fed', now)
  PROVE  SoloInv'
<1>1. ASSUME NEW e \in Drivers, NEW n \in Monitors
      PROVE  Agrees(job'[e][n], rows'[n], n, fed', now')
  <2>1. e = d
    BY SameDriver
  <2>2. CASE n = m
    <3>1. job'[e][n] = j
      BY <2>1, <2>2 DEF SetJob, IInv, TypeOK
    <3> QED
      BY <2>2, <3>1
  <2>3. CASE n # m
    <3>1. job'[e][n] = job[e][n]
      BY <2>1, <2>3 DEF SetJob, IInv, TypeOK
    <3>2. Agrees(job[e][n], rows[n], n, fed, now)
      BY DEF SoloInv
    <3>3. job[e][n].at \in Nat /\ now \in Nat /\ rows[n].next \in Nat \cup {None}
      BY JobTyped DEF IInv, Row
    <3>4. now <= now
      BY <3>3
    <3>5. Agrees(job[e][n], rows[n], n, fed', now)
      BY <3>2, <3>3, <3>4, AgreesLater
    <3> QED
      BY <3>1, <3>5
  <2> QED
    BY <2>2, <2>3
<1>2. \A n \in Monitors : edit'[n] = None
  BY DEF SoloInv
<1>3. \A n \in Monitors, k \in Keys : rows'[n].state = "unborn" => rows'[n].cooldowns[k] = None
  BY DEF SoloInv
<1> QED
  BY <1>1, <1>2, <1>3 DEF SoloInv

\* The same for the alerts.
LEMMA AlertJobStep ==
  ASSUME IInv, AlertInv, OneDriver, NEW d \in Drivers, NEW m \in Monitors, NEW j,
         SetJob(d, m, j), UNCHANGED <<now, rows, crashes>>,
         alerted \in [Monitors -> [Keys -> Time \cup {None}]],
         \A n \in Monitors \ {m} : alerted'[n] = alerted[n],
         crashes = 0 =>
           /\ early' = {}
           /\ \A k \in Keys : alerted'[m][k] # None => alerted'[m][k] <= now
           /\ Hears(j, rows[m], alerted'[m])
  PROVE  AlertInv'
<1> SUFFICES ASSUME crashes = 0 PROVE AlertInv'
  BY DEF AlertInv
<1>1. ASSUME NEW e \in Drivers, NEW n \in Monitors
      PROVE  Hears(job'[e][n], rows'[n], alerted'[n])
  <2>1. e = d
    BY SameDriver
  <2>2. CASE n = m
    <3>1. job'[e][n] = j
      BY <2>1, <2>2 DEF SetJob, IInv, TypeOK
    <3> QED
      BY <2>2, <3>1
  <2>3. CASE n # m
    <3>1. job'[e][n] = job[e][n]
      BY <2>1, <2>3 DEF SetJob, IInv, TypeOK
    <3> QED
      BY <2>3, <3>1 DEF AlertInv
  <2> QED
    BY <2>2, <2>3
<1>2. ASSUME NEW n \in Monitors, NEW k \in Keys, alerted'[n][k] # None
      PROVE  alerted'[n][k] <= now'
  <2>1. CASE n = m
    BY <1>2, <2>1
  <2>2. CASE n # m
    BY <1>2, <2>2 DEF AlertInv
  <2> QED
    BY <2>1, <2>2
<1> QED
  BY <1>1, <1>2 DEF AlertInv

---------------------------------------------------------------------------
(* The initial states *)

\* No run is under way at first.
LEMMA SoloInitial == Init => SoloInv /\ AlertInv
<1> SUFFICES ASSUME Init PROVE SoloInv /\ AlertInv
  OBVIOUS
<1>1. ASSUME NEW d \in Drivers, NEW m \in Monitors
      PROVE  Agrees(job[d][m], rows[m], m, fed, now) /\ Hears(job[d][m], rows[m], alerted[m])
  BY NoJobLemma DEF Init, Agrees, Hears, Covers
<1>2. \A m \in Monitors : edit[m] = None
  BY DEF Init
<1>3. early = {} /\ \A m \in Monitors, k \in Keys : alerted[m][k] = None
  BY DEF Init
<1>4. \A m \in Monitors, k \in Keys : rows[m].cooldowns[k] = None
  BY NoRowLemma DEF Init
<1> QED
  BY <1>1, <1>2, <1>3, <1>4 DEF SoloInv, AlertInv

---------------------------------------------------------------------------
(* One lemma per action *)

\* A tick queues the runs that are due, each with a copy of its row.
LEMMA SoloTick ==
  ASSUME IInv, SoloInv, OneDriver, NEW s \in Schedulers, SchedulerTick(s)
  PROVE  SoloInv' /\ (AlertInv => AlertInv')
<1>1. ASSUME NEW d \in Drivers, NEW m \in Monitors
      PROVE  /\ Agrees(job'[d][m], rows'[m], m, fed', now')
             /\ Hears(job[d][m], rows[m], alerted[m]) => Hears(job'[d][m], rows'[m], alerted'[m])
  <2>1. d = s
    BY SameDriver DEF Drivers
  <2>2. job[d][m].stage = "none" /\ rows'[m] = rows[m] /\ alerted'[m] = alerted[m] /\ now' = now
    BY <2>1 DEF SchedulerTick
  <2>3. CASE Due(m)
    <3>1. job'[d][m] = [NoJob EXCEPT !.stage = "queued", !.row = rows[m]]
      BY <2>1, <2>3 DEF SchedulerTick, IInv, TypeOK
    <3>2. job'[d][m].stage = "queued" /\ job'[d][m].row = rows[m]
      BY <3>1, NoJobLemma DEF NoJob
    <3> QED
      BY <2>2, <2>3, <3>2 DEF Agrees, Hears, Due, Stored
  <2>4. CASE ~Due(m)
    <3>1. job'[d][m].stage = "none"
      BY <2>1, <2>4, NoJobLemma DEF SchedulerTick, IInv, TypeOK
    <3> QED
      BY <2>2, <3>1 DEF Agrees, Hears
  <2> QED
    BY <2>3, <2>4
<1> QED
  BY <1>1 DEF SoloInv, AlertInv, SchedulerTick

\* A run that starts was due when it was queued.
LEMMA SoloStart ==
  ASSUME IInv, SoloInv, OneDriver, NEW s \in Schedulers, NEW m \in Monitors, Start(s, m)
  PROVE  SoloInv' /\ (AlertInv => AlertInv')
<1> DEFINE j == [job[s][m] EXCEPT !.stage = "gathering", !.at = now]
<1>1. s \in Drivers
  BY DEF Drivers
<1>2. /\ j.stage = "gathering" /\ j.at = now /\ j.row = job[s][m].row
      /\ now \in Nat
  BY <1>1, JobTyped DEF IInv, Job
<1>3. Agrees(job[s][m], rows[m], m, fed, now) /\ job[s][m].stage = "queued"
  BY <1>1 DEF SoloInv, Start
<1>4. SetJob(s, m, j) /\ UNCHANGED <<now, rows, edit, fed, alerted, early, crashes>>
  BY DEF Start
<1> HIDE DEF j
<1>5. Agrees(j, rows[m], m, fed, now)
  BY <1>2, <1>3 DEF Agrees
<1>6. ASSUME AlertInv, crashes = 0
      PROVE  Hears(j, rows[m], alerted[m])
  <2>1. Hears(job[s][m], rows[m], alerted[m])
    BY <1>1, <1>6 DEF AlertInv
  <2>2. \A k \in Keys : alerted[m][k] # None => alerted[m][k] <= now
    BY <1>6 DEF AlertInv
  <2> QED
    BY <1>2, <1>3, <2>1, <2>2 DEF Hears
<1>7. SoloInv'
  BY <1>1, <1>4, <1>5, SoloJobStep
<1>8. AlertInv => AlertInv'
  <2> SUFFICES ASSUME AlertInv PROVE AlertInv'
    OBVIOUS
  <2>1. alerted \in [Monitors -> [Keys -> Time \cup {None}]]
    BY DEF IInv, TypeOK
  <2>2. crashes = 0 => /\ early' = {}
                       /\ \A k \in Keys : alerted'[m][k] # None => alerted'[m][k] <= now
                       /\ Hears(j, rows[m], alerted'[m])
    BY <1>4, <1>6 DEF AlertInv
  <2> QED
    BY <1>1, <1>4, <2>1, <2>2, AlertJobStep
<1> QED
  BY <1>7, <1>8

\* A gather that returns rolls the copy forward by one interval, and onto what
\* it read.
LEMMA SoloGatherReturns ==
  ASSUME IInv, SoloInv, OneDriver, NEW d \in Drivers, NEW m \in Monitors,
         NEW level \in Baseline \ {"empty"}, GatherReturns(d, m, level)
  PROVE  SoloInv' /\ (AlertInv => AlertInv')
<1> DEFINE i    == job[d][m]
           keys == Published(i.row, level, i.at)
           row  == RolledForward(i.row, level, keys, i.at)
           j    == [i EXCEPT !.stage = IF keys = {} THEN "recording" ELSE "delivering",
                             !.row = row, !.keys = keys]
<1>1. /\ i \in Job /\ i.row \in Row /\ i.at \in Time /\ i.at \in Nat
      /\ keys \in SUBSET Keys
  BY JobTyped DEF IInv, Job, Published
<1>2. /\ row.baseline = level /\ row.next = i.at + Interval /\ row.state = i.row.state
      /\ row.cooldowns = [k \in Keys |-> IF k \in keys THEN i.at ELSE i.row.cooldowns[k]]
  BY <1>1, RolledForwardLemma DEF RolledForward, Row
<1>3. i.stage = "gathering" /\ i.row = rows[m] /\ Agrees(i, rows[m], m, fed, now)
  BY DEF SoloInv, Agrees, GatherReturns
<1>4. SetJob(d, m, j) /\ UNCHANGED <<now, rows, edit, fed, alerted, early, crashes>>
  BY DEF GatherReturns
<1>5. /\ rows[m].baseline # "empty" =>
           \A k \in Keys : Fires(k, rows[m].baseline, level) => k \in keys \/ CoolingDown(rows[m], k, i.at)
      /\ \A k \in keys : ~CoolingDown(rows[m], k, i.at)
  BY <1>3 DEF Published
<1> HIDE DEF keys, row
<1>6. /\ j.stage = IF keys = {} THEN "recording" ELSE "delivering"
      /\ j.row = row /\ j.keys = keys /\ j.at = i.at
  BY <1>1 DEF Job
<1> HIDE DEF j
<1>7. Rolled(j, rows[m], m, fed)
  BY <1>2, <1>3, <1>5, <1>6 DEF Rolled, Agrees
<1>8. Agrees(j, rows[m], m, fed, now)
  BY <1>3, <1>6, <1>7 DEF Agrees
<1>9. ASSUME AlertInv, crashes = 0
      PROVE  Hears(j, rows[m], alerted[m])
  <2>1. Hears(i, rows[m], alerted[m])
    BY <1>9 DEF AlertInv
  <2>2. j.stage = "recording" => \A k \in Keys : j.row.cooldowns[k] = rows[m].cooldowns[k]
    BY <1>2, <1>3, <1>6
  <2>3. Covers(rows[m].cooldowns, alerted[m])
    BY <1>3, <2>1 DEF Hears
  <2>4. Covers(IF j.stage \in {"recording", "saving"} THEN j.row.cooldowns ELSE rows[m].cooldowns, alerted[m])
    BY <1>6, <2>2, <2>3 DEF Covers
  <2>5. \A k \in Keys : alerted[m][k] # None => alerted[m][k] <= j.at
    BY <1>3, <1>6, <2>1 DEF Hears
  <2>6. \A k \in Keys : /\ k \in j.keys => ~CoolingDown(rows[m], k, j.at)
                        /\ j.row.cooldowns[k] = IF k \in j.keys THEN j.at ELSE rows[m].cooldowns[k]
    BY <1>2, <1>3, <1>5, <1>6
  <2> QED
    BY <2>4, <2>5, <2>6 DEF Hears
<1>10. SoloInv'
  BY <1>4, <1>8, SoloJobStep
<1>11. AlertInv => AlertInv'
  <2> SUFFICES ASSUME AlertInv PROVE AlertInv'
    OBVIOUS
  <2>1. alerted \in [Monitors -> [Keys -> Time \cup {None}]]
    BY DEF IInv, TypeOK
  <2>2. crashes = 0 => /\ early' = {}
                       /\ \A k \in Keys : alerted'[m][k] # None => alerted'[m][k] <= now
                       /\ Hears(j, rows[m], alerted'[m])
    BY <1>4, <1>9 DEF AlertInv
  <2> QED
    BY <1>4, <2>1, <2>2, AlertJobStep
<1> QED
  BY <1>10, <1>11

\* A gather that fails and is caught rolls the schedule and keeps the
\* baseline.
LEMMA SoloGatherCaught ==
  ASSUME IInv, SoloInv, OneDriver, NEW d \in Drivers, NEW m \in Monitors, GatherCaught(d, m)
  PROVE  SoloInv' /\ (AlertInv => AlertInv')
<1> DEFINE i   == job[d][m]
           row == [i.row EXCEPT !.next = i.at + Interval]
           j   == [i EXCEPT !.stage = "recording", !.row = row]
<1>1. i \in Job /\ i.row \in Row /\ i.at \in Nat
  BY JobTyped DEF IInv
<1>2. /\ row.baseline = i.row.baseline /\ row.cooldowns = i.row.cooldowns
      /\ row.state = i.row.state /\ row.next = i.at + Interval
  BY <1>1 DEF Row
<1>3. i.stage = "gathering" /\ i.row = rows[m] /\ Agrees(i, rows[m], m, fed, now)
  BY DEF SoloInv, Agrees, GatherCaught
<1>4. [i EXCEPT !.stage = "recording", !.row.next = i.at + Interval] = j
  BY <1>1 DEF Job
<1>5. SetJob(d, m, j) /\ UNCHANGED <<now, rows, edit, fed, alerted, early, crashes>>
  BY <1>4 DEF GatherCaught
<1> HIDE DEF row
<1>6. j.stage = "recording" /\ j.row = row /\ j.at = i.at /\ j.keys = i.keys
  BY <1>1 DEF Job
<1> HIDE DEF j
<1>7. Rolled(j, rows[m], m, fed)
  BY <1>2, <1>3, <1>6 DEF Rolled, Fires, Agrees
<1>8. Agrees(j, rows[m], m, fed, now)
  BY <1>3, <1>6, <1>7 DEF Agrees
<1>9. ASSUME AlertInv, crashes = 0
      PROVE  Hears(j, rows[m], alerted[m])
  <2>1. Hears(i, rows[m], alerted[m])
    BY <1>9 DEF AlertInv
  <2> QED
    BY <1>2, <1>3, <1>6, <2>1 DEF Hears
<1>10. SoloInv'
  BY <1>5, <1>8, SoloJobStep
<1>11. AlertInv => AlertInv'
  <2> SUFFICES ASSUME AlertInv PROVE AlertInv'
    OBVIOUS
  <2>1. alerted \in [Monitors -> [Keys -> Time \cup {None}]]
    BY DEF IInv, TypeOK
  <2>2. crashes = 0 => /\ early' = {}
                       /\ \A k \in Keys : alerted'[m][k] # None => alerted'[m][k] <= now
                       /\ Hears(j, rows[m], alerted'[m])
    BY <1>5, <1>9 DEF AlertInv
  <2> QED
    BY <1>5, <2>1, <2>2, AlertJobStep
<1> QED
  BY <1>10, <1>11

\* A gather that breaks ends the run and leaves the row as it was.
LEMMA SoloGatherBreaks ==
  ASSUME IInv, SoloInv, OneDriver, NEW d \in Drivers, NEW m \in Monitors, GatherBreaks(d, m)
  PROVE  SoloInv' /\ (AlertInv => AlertInv')
<1>1. SetJob(d, m, NoJob) /\ UNCHANGED <<now, rows, edit, fed, alerted, early, crashes>>
  BY DEF GatherBreaks
<1>2. SoloInv'
  BY <1>1, NoJobLemma, SoloJobStep DEF Agrees
<1>3. AlertInv => AlertInv'
  <2> SUFFICES ASSUME AlertInv PROVE AlertInv'
    OBVIOUS
  <2>1. alerted \in [Monitors -> [Keys -> Time \cup {None}]]
    BY DEF IInv, TypeOK
  <2>2. crashes = 0 => Hears(NoJob, rows[m], alerted[m])
    BY NoJobLemma DEF AlertInv, Hears, GatherBreaks
  <2>3. crashes = 0 => /\ early' = {}
                       /\ \A k \in Keys : alerted'[m][k] # None => alerted'[m][k] <= now
                       /\ Hears(NoJob, rows[m], alerted'[m])
    BY <1>1, <2>2 DEF AlertInv
  <2> QED
    BY <1>1, <2>1, <2>3, AlertJobStep
<1> QED
  BY <1>2, <1>3

\* However a gather ends.
LEMMA SoloGather ==
  ASSUME IInv, SoloInv, OneDriver, NEW d \in Drivers, NEW m \in Monitors, Gather(d, m)
  PROVE  SoloInv' /\ (AlertInv => AlertInv')
<1>1. {world[m], "missing"} \subseteq Baseline \ {"empty"}
  BY DEF IInv, TypeOK, Baseline, Level
<1> QED
  BY <1>1, SoloGatherReturns, SoloGatherCaught, SoloGatherBreaks DEF Gather

\* A delivery that raises leaves an alert without a stamp, so the alerts need
\* channels that do not.
LEMMA SoloPush ==
  ASSUME IInv, SoloInv, OneDriver, NEW d \in Drivers, NEW m \in Monitors, Push(d, m)
  PROVE  SoloInv' /\ (AlertInv /\ "raises" \notin PushOutcomes => AlertInv')
<1> DEFINE i == job[d][m]
           j == [i EXCEPT !.stage = "recording"]
<1>1. i \in Job /\ i.at \in Nat /\ i.at \in Time /\ i.keys \subseteq Keys /\ i.stage = "delivering"
  BY JobTyped DEF IInv, Job, Push
<1>2. Agrees(i, rows[m], m, fed, now)
  BY DEF SoloInv
<1>3. UNCHANGED <<now, rows, edit, fed, crashes>>
  BY DEF Push
<1>4. j.stage = "recording" /\ j.row = i.row /\ j.at = i.at /\ j.keys = i.keys
  BY <1>1 DEF Job
<1>5. \/ SetJob(d, m, NoJob) /\ "raises" \in PushOutcomes
      \/ SetJob(d, m, j)
  BY DEF Push
<1>6. Alert(m, i.keys, i.at) \/ UNCHANGED <<alerted, early>>
  BY DEF Push
<1> HIDE DEF j
<1>7. Agrees(j, rows[m], m, fed, now)
  BY <1>1, <1>2, <1>4 DEF Agrees, Rolled
<1>8. SoloInv'
  <2>1. Agrees(NoJob, rows[m], m, fed, now)
    BY NoJobLemma DEF Agrees
  <2> QED
    BY <1>3, <1>5, <1>7, <2>1, SoloJobStep
<1>9. ASSUME AlertInv, "raises" \notin PushOutcomes
      PROVE  AlertInv'
  <2>1. SetJob(d, m, j)
    BY <1>5, <1>9
  <2>2. alerted \in [Monitors -> [Keys -> Time \cup {None}]]
    BY DEF IInv, TypeOK
  <2>3. \A n \in Monitors \ {m} : alerted'[n] = alerted[n]
    BY <1>6, <2>2 DEF Alert
  <2>4. ASSUME crashes = 0
        PROVE  /\ early' = {}
               /\ \A k \in Keys : alerted'[m][k] # None => alerted'[m][k] <= now
               /\ Hears(j, rows[m], alerted'[m])
    <3>1. Hears(i, rows[m], alerted[m]) /\ early = {}
      BY <1>9, <2>4 DEF AlertInv
    <3>2. \A k \in Keys : alerted'[m][k] \in {alerted[m][k], IF k \in i.keys THEN i.at ELSE alerted[m][k]}
      BY <1>6, <2>2 DEF Alert
    <3>3. i.at <= now
      BY <1>1, <1>2 DEF Agrees
    <3>4. \A k \in Keys : alerted'[m][k] # None => alerted'[m][k] <= now
      BY <1>9, <2>4, <3>2, <3>3 DEF AlertInv
    <3>5. ASSUME NEW k \in Keys, alerted'[m][k] # None
          PROVE  i.row.cooldowns[k] # None /\ alerted'[m][k] <= i.row.cooldowns[k]
      <4>1. i.row.cooldowns[k] = IF k \in i.keys THEN i.at ELSE rows[m].cooldowns[k]
        BY <1>1, <3>1 DEF Hears
      <4>2. alerted[m][k] # None =>
              rows[m].cooldowns[k] # None /\ alerted[m][k] <= rows[m].cooldowns[k] /\ alerted[m][k] <= i.at
        BY <1>1, <3>1 DEF Hears, Covers
      <4>3. i.at # None
        BY <1>1, NoneAssumption
      <4>4. CASE k \in i.keys
        BY <1>1, <3>2, <3>5, <4>1, <4>2, <4>3, <4>4
      <4>5. CASE k \notin i.keys
        BY <3>2, <3>5, <4>1, <4>2, <4>5
      <4> QED
        BY <4>4, <4>5
    <3>6. Hears(j, rows[m], alerted'[m])
      BY <1>4, <3>5 DEF Hears, Covers
    <3>7. ASSUME NEW k \in i.keys, alerted[m][k] # None
          PROVE  ~(i.at - alerted[m][k] < Cooldown)
      <4>1. ~CoolingDown(rows[m], k, i.at)
        BY <1>1, <3>1 DEF Hears
      <4>2. /\ rows[m].cooldowns[k] # None /\ alerted[m][k] <= rows[m].cooldowns[k]
            /\ alerted[m][k] <= i.at
        BY <1>1, <3>1, <3>7 DEF Hears, Covers
      <4>3. rows[m].cooldowns[k] \in Nat /\ alerted[m][k] \in Nat
        <5>1. rows[m].cooldowns \in [Keys -> Time \cup {None}]
          BY JobTyped DEF IInv, Row
        <5> QED
          BY <1>1, <2>2, <3>7, <4>2, <5>1, TimeLemma
      <4> QED
        BY <1>1, <4>1, <4>2, <4>3, ConstantsLemma DEF CoolingDown
    <3>8. early' = {}
      BY <1>1, <1>6, <3>1, <3>7 DEF Alert
    <3> QED
      BY <3>4, <3>6, <3>8
  <2> QED
    BY <1>3, <1>9, <2>1, <2>2, <2>3, <2>4, AlertJobStep
<1> QED
  BY <1>8, <1>9

\* A run records what it promised before it saves.
LEMMA SoloRecord ==
  ASSUME IInv, SoloInv, OneDriver, NEW d \in Drivers, NEW m \in Monitors, Record(d, m)
  PROVE  SoloInv' /\ (AlertInv => AlertInv')
<1> DEFINE i == job[d][m]
           j == [i EXCEPT !.stage = "saving"]
<1>1. i \in Job /\ i.stage = "recording"
  BY JobTyped DEF IInv, Record
<1>2. Agrees(i, rows[m], m, fed, now)
  BY DEF SoloInv
<1>3. /\ SetJob(d, m, j) /\ UNCHANGED <<now, rows, edit, alerted, early, crashes>>
      /\ fed' = fed \cup {<<m, k, i.at>> : k \in i.keys}
  BY DEF Record
<1>4. j.stage = "saving" /\ j.row = i.row /\ j.at = i.at /\ j.keys = i.keys
  BY <1>1 DEF Job
<1> HIDE DEF j
<1>5. Rolled(j, rows[m], m, fed')
  BY <1>1, <1>2, <1>3, <1>4 DEF Agrees, Rolled
<1>6. Agrees(j, rows[m], m, fed', now)
  BY <1>1, <1>2, <1>4, <1>5 DEF Agrees
<1>7. SoloInv'
  <2>1. fed \subseteq fed'
    BY <1>3
  <2> QED
    BY <1>3, <1>6, <2>1, SoloJobStep
<1>8. AlertInv => AlertInv'
  <2> SUFFICES ASSUME AlertInv PROVE AlertInv'
    OBVIOUS
  <2>1. alerted \in [Monitors -> [Keys -> Time \cup {None}]]
    BY DEF IInv, TypeOK
  <2>2. crashes = 0 => Hears(j, rows[m], alerted[m])
    BY <1>1, <1>4 DEF AlertInv, Hears
  <2>3. crashes = 0 => /\ early' = {}
                       /\ \A k \in Keys : alerted'[m][k] # None => alerted'[m][k] <= now
                       /\ Hears(j, rows[m], alerted'[m])
    BY <1>3, <2>2 DEF AlertInv
  <2> QED
    BY <1>3, <2>1, <2>3, AlertJobStep
<1> QED
  BY <1>7, <1>8

\* A save replaces the row by the copy, which agrees with it.
LEMMA SoloSave ==
  ASSUME IInv, SoloInv, OneDriver, NEW d \in Drivers, NEW m \in Monitors, Save(d, m)
  PROVE  SoloInv' /\ (AlertInv => AlertInv')
<1>1. /\ job[d][m].stage = "saving"
      /\ rows' = [rows EXCEPT ![m] = job[d][m].row] /\ SetJob(d, m, NoJob)
      /\ UNCHANGED <<now, edit, fed, alerted, early, crashes>>
  BY DEF Save
<1>2. ASSUME NEW e \in Drivers, NEW n \in Monitors
      PROVE  /\ Agrees(job'[e][n], rows'[n], n, fed', now')
             /\ Hears(job[e][n], rows[n], alerted[n]) => Hears(job'[e][n], rows'[n], alerted'[n])
  <2>1. e = d
    BY SameDriver
  <2>2. CASE n = m
    <3>1. job'[e][n] = NoJob /\ rows'[n] = job[e][n].row
      BY <1>1, <2>1, <2>2 DEF SetJob, IInv, TypeOK
    <3> QED
      BY <1>1, <2>1, <2>2, <3>1, NoJobLemma DEF Agrees, Hears
  <2>3. CASE n # m
    <3>1. job'[e][n] = job[e][n] /\ rows'[n] = rows[n]
      BY <1>1, <2>1, <2>3 DEF SetJob, IInv, TypeOK
    <3> QED
      BY <1>1, <3>1 DEF SoloInv
  <2> QED
    BY <2>2, <2>3
<1>3. job[d][m].row.state = "stored"
  BY <1>1 DEF SoloInv, Agrees, Rolled
<1>4. \A n \in Monitors, k \in Keys : rows'[n].state = "unborn" => rows'[n].cooldowns[k] = None
  BY <1>1, <1>3 DEF SoloInv, IInv, TypeOK
<1> QED
  BY <1>1, <1>2, <1>4 DEF SoloInv, AlertInv

\* A created row has no run.
LEMMA SoloCreate ==
  ASSUME IInv, SoloInv, NEW m \in Monitors, Create(m)
  PROVE  SoloInv' /\ (AlertInv => AlertInv')
<1>1. /\ rows' = [rows EXCEPT ![m] = NewRow] /\ rows[m].state = "unborn"
      /\ UNCHANGED <<now, job, edit, fed, alerted, early, crashes>>
  BY DEF Create
<1>2. ASSUME NEW e \in Drivers, NEW n \in Monitors
      PROVE  Agrees(job'[e][n], rows'[n], n, fed', now')
  <2>1. Agrees(job[e][n], rows[n], n, fed, now)
    BY DEF SoloInv
  <2>2. CASE n = m
    BY <1>1, <2>1, <2>2 DEF Agrees
  <2>3. CASE n # m
    BY <1>1, <2>1, <2>3 DEF IInv, TypeOK
  <2> QED
    BY <2>2, <2>3
<1>3. ASSUME NEW e \in Drivers, NEW n \in Monitors, Hears(job[e][n], rows[n], alerted[n])
      PROVE  Hears(job'[e][n], rows'[n], alerted'[n])
  <2>1. CASE n = m
    <3>1. job[e][n].stage = "none"
      BY <1>1, <2>1 DEF SoloInv, Agrees
    <3>2. \A k \in Keys : alerted[n][k] = None
      BY <1>1, <1>3, <2>1, <3>1 DEF Hears, Covers, SoloInv
    <3> QED
      BY <1>1, <3>1, <3>2 DEF Hears, Covers
  <2>2. CASE n # m
    BY <1>1, <1>3, <2>2 DEF IInv, TypeOK
  <2> QED
    BY <2>1, <2>2
<1>4. \A n \in Monitors, k \in Keys : rows'[n].state = "unborn" => rows'[n].cooldowns[k] = None
  BY <1>1, NewRowLemma DEF SoloInv, IInv, TypeOK
<1> QED
  BY <1>1, <1>2, <1>3, <1>4 DEF SoloInv, AlertInv

\* What neither the row nor the feed can show: the clock, the world, a crash.
LEMMA SoloElsewhere ==
  ASSUME IInv, SoloInv, OneDriver,
         \/ \E d \in Drivers : Crash(d)
         \/ \E m \in Monitors : WorldMoves(m)
         \/ ClockTick
         \/ UNCHANGED vars
  PROVE  SoloInv' /\ (AlertInv => AlertInv')
<1>1. UNCHANGED <<rows, edit, fed, alerted, early>>
  BY DEF Crash, WorldMoves, ClockTick, vars
<1>2. now \in Nat /\ now' \in Nat /\ now <= now'
  BY TimeLemma DEF IInv, TypeOK, Crash, WorldMoves, ClockTick, vars
<1>3. ASSUME NEW d \in Drivers, NEW m \in Monitors
      PROVE  job'[d][m] \in {job[d][m], NoJob}
  <2>1. CASE \E e \in Drivers : Crash(e)
    BY <2>1 DEF Crash, IInv, TypeOK
  <2>2. CASE UNCHANGED job
    BY <2>2
  <2> QED
    BY <2>1, <2>2 DEF WorldMoves, ClockTick, vars
<1>4. ASSUME NEW d \in Drivers, NEW m \in Monitors
      PROVE  Agrees(job'[d][m], rows'[m], m, fed', now')
  <2>1. CASE job'[d][m] = NoJob
    BY <2>1, NoJobLemma DEF Agrees
  <2>2. CASE job'[d][m] = job[d][m]
    <3>1. Agrees(job[d][m], rows[m], m, fed, now)
      BY DEF SoloInv
    <3>2. job[d][m].at \in Nat /\ rows[m].next \in Nat \cup {None}
      BY JobTyped DEF IInv, Row
    <3>3. Agrees(job[d][m], rows[m], m, fed, now')
      BY <1>2, <3>1, <3>2, AgreesLater
    <3> QED
      BY <1>1, <2>2, <3>3
  <2> QED
    BY <1>3, <2>1, <2>2
<1>5. AlertInv => AlertInv'
  <2> SUFFICES ASSUME AlertInv, crashes' = 0 PROVE AlertInv'
    BY DEF AlertInv
  <2>1. crashes = 0 /\ UNCHANGED job
    <3>1. CASE \E d \in Drivers : Crash(d)
      BY <3>1 DEF Crash, IInv, TypeOK
    <3> QED
      BY <3>1 DEF WorldMoves, ClockTick, vars
  <2>2. \A m \in Monitors, k \in Keys : alerted[m][k] # None => alerted[m][k] \in Nat
    BY TimeLemma DEF IInv, TypeOK
  <2> QED
    BY <1>1, <1>2, <2>1, <2>2 DEF AlertInv
<1> QED
  BY <1>1, <1>4, <1>5 DEF SoloInv

---------------------------------------------------------------------------
(* Every step *)

\* Every step keeps the invariants of one driver; that of alerts needs pushes
\* that do not raise (engine.py lets one that raises abort the run).
LEMMA SoloStep ==
  ASSUME OneDriver, IInv, SoloInv, [Next]_vars
  PROVE  SoloInv' /\ (AlertInv /\ "raises" \notin PushOutcomes => AlertInv')
<1>1. CASE \E s \in Schedulers : SchedulerTick(s)
  BY <1>1, SoloTick
<1>2. CASE \E s \in Schedulers, m \in Monitors : Start(s, m)
  BY <1>2, SoloStart
<1>3. CASE \E d \in Manuals, m \in Monitors : ManualRun(d, m)
  BY <1>3 DEF OneDriver
<1>4. CASE \E d \in Drivers, m \in Monitors : RunStep(d, m)
  BY <1>4, SoloGather, SoloPush, SoloRecord, SoloSave DEF RunStep
<1>5. CASE \E m \in Monitors : EditStep(m)
  <2>1. PICK m \in Monitors : EditStep(m)
    BY <1>5
  <2>2. Create(m)
    BY <2>1 DEF EditStep, OneDriver, Delete, ToggleRead, ToggleSave, SoloInv
  <2> QED
    BY <2>2, SoloCreate
<1>6. CASE \/ \E d \in Drivers : Crash(d)
           \/ \E m \in Monitors : WorldMoves(m)
           \/ ClockTick
           \/ UNCHANGED vars
  BY <1>6, SoloElsewhere
<1> QED
  BY <1>1, <1>2, <1>3, <1>4, <1>5, <1>6 DEF Next

\* The only step that replaces a stored row is the save of its run.
LEMMA SavedOrKept ==
  ASSUME OneDriver, IInv, SoloInv, [Next]_vars, NEW m \in Monitors, Stored(m)
  PROVE  \/ rows'[m] = rows[m]
         \/ \E d \in Drivers :
              /\ rows'[m] = job[d][m].row /\ fed' = fed
              /\ job[d][m].at \in Time /\ job[d][m].at \in Nat
              /\ rows[m].next # None => rows[m].next <= job[d][m].at
              /\ job[d][m].stage = "saving" /\ Rolled(job[d][m], rows[m], m, fed)
<1>1. CASE \E d \in Drivers, n \in Monitors : Save(d, n)
  <2>1. PICK d \in Drivers, n \in Monitors : Save(d, n)
    BY <1>1
  <2>2. CASE n = m
    <3>1. rows'[m] = job[d][m].row /\ fed' = fed /\ job[d][m].stage = "saving"
      BY <2>1, <2>2 DEF Save, IInv, TypeOK
    <3>2. job[d][m].at \in Time /\ job[d][m].at \in Nat
      BY JobTyped DEF IInv, Job
    <3>3. Agrees(job[d][m], rows[m], m, fed, now)
      BY DEF SoloInv
    <3> QED
      BY <3>1, <3>2, <3>3 DEF Agrees
  <2>3. CASE n # m
    BY <2>1, <2>3 DEF Save, IInv, TypeOK
  <2> QED
    BY <2>2, <2>3
<1>2. CASE \E n \in Monitors : EditStep(n)
  <2>1. PICK n \in Monitors : EditStep(n)
    BY <1>2
  <2>2. Create(n)
    BY <2>1 DEF EditStep, OneDriver, Delete, ToggleRead, ToggleSave, SoloInv
  <2>3. n # m
    BY <2>2 DEF Create, Stored
  <2> QED
    BY <2>2, <2>3 DEF Create, IInv, TypeOK
<1>3. CASE UNCHANGED rows
  BY <1>3
<1>4. ASSUME NEW d \in Drivers, NEW n \in Monitors, RunStep(d, n)
      PROVE  Save(d, n) \/ UNCHANGED rows
  <2>1. CASE Gather(d, n)
    BY <2>1 DEF Gather, GatherReturns, GatherCaught, GatherBreaks
  <2>2. CASE Push(d, n) \/ Record(d, n)
    BY <2>2 DEF Push, Record
  <2> QED
    BY <1>4, <2>1, <2>2 DEF RunStep
<1>5. CASE \E d \in Drivers, n \in Monitors : RunStep(d, n)
  BY <1>1, <1>3, <1>4, <1>5
<1>6. CASE \/ \E s \in Schedulers : SchedulerTick(s)
           \/ \E s \in Schedulers, n \in Monitors : Start(s, n)
           \/ \E d \in Manuals, n \in Monitors : ManualRun(d, n)
  BY <1>3, <1>6 DEF SchedulerTick, Start, ManualRun
<1>7. CASE \/ \E d \in Drivers : Crash(d)
           \/ \E n \in Monitors : WorldMoves(n)
           \/ ClockTick
           \/ UNCHANGED vars
  BY <1>3, <1>7 DEF Crash, WorldMoves, ClockTick, vars
<1> QED
  BY <1>2, <1>5, <1>6, <1>7 DEF Next

---------------------------------------------------------------------------
(* Theorems *)

\* One driver's runs agree with the rows they will replace, always.
THEOREM SoloInvariant == ASSUME OneDriver PROVE Spec => [](IInv /\ SoloInv)
<1>1. Init => IInv /\ SoloInv
  BY InitInv, SoloInitial
<1>2. IInv /\ SoloInv /\ [Next]_vars => (IInv /\ SoloInv)'
  BY SoloStep, StepInv
<1> QED
  BY <1>1, <1>2, PTL DEF Spec

\* With one driver no step sends a stored monitor back to its first run.
THEOREM BaselineKeptSolo == ASSUME OneDriver PROVE Spec => BaselineKept
<1>1. ASSUME IInv, SoloInv, [Next]_vars, NEW m \in Monitors,
             Stored(m), rows[m].baseline # "empty"
      PROVE  rows'[m].baseline # "empty"
  BY <1>1, SavedOrKept DEF Rolled
<1>2. IInv /\ SoloInv /\ [Next]_vars =>
        [\A m \in Monitors :
           (Stored(m) /\ rows[m].baseline # "empty" /\ Stored(m)') => rows'[m].baseline # "empty"]_vars
  BY <1>1
<1> QED
  BY <1>2, SoloInvariant, PTL DEF Spec, BaselineKept

\* With one driver a stored schedule moves by an interval or more, forward.
THEOREM CadenceKeptSolo == ASSUME OneDriver PROVE Spec => CadenceKept
<1>1. ASSUME IInv, SoloInv, [Next]_vars, NEW m \in Monitors,
             Stored(m), rows[m].next # None, rows'[m].next # rows[m].next
      PROVE  rows'[m].next >= rows[m].next + Interval
  <2>1. PICK d \in Drivers : /\ rows'[m] = job[d][m].row /\ job[d][m].at \in Nat
                             /\ rows[m].next <= job[d][m].at
                             /\ Rolled(job[d][m], rows[m], m, fed)
    BY <1>1, SavedOrKept
  <2>2. rows'[m].next = job[d][m].at + Interval
    BY <2>1 DEF Rolled
  <2>3. rows[m].next \in Nat
    BY <1>1, JobTyped DEF IInv, Row
  <2> QED
    BY <2>1, <2>2, <2>3, ConstantsLemma
<1>2. IInv /\ SoloInv /\ [Next]_vars =>
        [\A m \in Monitors :
           (Stored(m) /\ rows[m].next # None /\ Stored(m)' /\ rows'[m].next # rows[m].next)
             => rows'[m].next >= rows[m].next + Interval]_vars
  BY <1>1
<1> QED
  BY <1>2, SoloInvariant, PTL DEF Spec, CadenceKept

\* With one driver every crossing between two stored baselines is in the feed,
\* or was silenced by a cooldown that is.
THEOREM CrossingsPublishedSolo == ASSUME OneDriver PROVE Spec => CrossingsPublished
<1>1. ASSUME IInv, SoloInv, [Next]_vars, NEW m \in Monitors,
             Stored(m), rows[m].baseline # "empty",
             NEW k \in Keys, Fires(k, rows[m].baseline, rows'[m].baseline)
      PROVE  \E t \in Time :
               /\ <<m, k, t>> \in fed
               /\ rows'[m].next - Interval - t < IF Cooldown = 0 THEN 1 ELSE Cooldown
  <2>1. PICK d \in Drivers : /\ rows'[m] = job[d][m].row /\ fed' = fed
                             /\ job[d][m].at \in Time /\ job[d][m].at \in Nat
                             /\ job[d][m].stage = "saving"
                             /\ Rolled(job[d][m], rows[m], m, fed)
    BY <1>1, SavedOrKept DEF Fires
  <2>2. rows'[m].next - Interval = job[d][m].at
    BY <2>1, ConstantsLemma DEF Rolled
  <2>3. CASE k \in job[d][m].keys
    <3>1. <<m, k, job[d][m].at>> \in fed
      BY <2>1, <2>3 DEF Rolled
    <3>2. job[d][m].at - job[d][m].at < IF Cooldown = 0 THEN 1 ELSE Cooldown
      BY <2>1, ConstantsLemma
    <3> QED
      BY <2>1, <2>2, <3>1, <3>2
  <2>4. CASE CoolingDown(rows[m], k, job[d][m].at)
    <3> DEFINE t == rows[m].cooldowns[k]
    <3>1. t # None /\ job[d][m].at - t < Cooldown /\ Cooldown > 0
      BY <2>4 DEF CoolingDown
    <3>2. <<m, k, t>> \in fed
      BY <1>1, <3>1 DEF IInv, RowsBacked, Backed
    <3>3. t \in Time
      BY <1>1, <3>2 DEF IInv, TypeOK
    <3>4. job[d][m].at - t < IF Cooldown = 0 THEN 1 ELSE Cooldown
      BY <3>1, ConstantsLemma
    <3> HIDE DEF t
    <3> QED
      BY <2>2, <3>2, <3>3, <3>4
  <2> QED
    BY <1>1, <2>1, <2>3, <2>4 DEF Rolled
<1>2. IInv /\ SoloInv /\ [Next]_vars =>
        [\A m \in Monitors :
           (Stored(m) /\ Stored(m)' /\ rows[m].baseline # "empty") =>
             \A k \in Keys : Fires(k, rows[m].baseline, rows'[m].baseline) =>
               \E t \in Time :
                 /\ <<m, k, t>> \in fed
                 /\ rows'[m].next - Interval - t < IF Cooldown = 0 THEN 1 ELSE Cooldown]_vars
  BY <1>1
<1> QED
  BY <1>2, SoloInvariant, PTL DEF Spec, CrossingsPublished

\* With one driver and channels that do not raise, a key is pushed at most once
\* per cooldown while nothing crashes.
THEOREM CooldownRespectedSolo ==
  ASSUME OneDriver, "raises" \notin PushOutcomes
  PROVE  Spec => []CooldownRespected
<1>1. Init => IInv /\ SoloInv /\ AlertInv
  BY InitInv, SoloInitial
<1>2. IInv /\ SoloInv /\ AlertInv /\ [Next]_vars => (IInv /\ SoloInv /\ AlertInv)'
  BY SoloStep, StepInv
<1>3. AlertInv => CooldownRespected
  BY DEF AlertInv, CooldownRespected
<1> QED
  BY <1>1, <1>2, <1>3, PTL DEF Spec

-----------------------------------------------------------------------------
(* One driver, and no gather that is partial: a parked monitor is silent.  *)

\* The row of a monitor that stands past line k, against the run j: from the
\* save of the run that published k it holds that crossing, and the runs that
\* come after it publish k no more.
Parked(j, r, k) ==
  /\ r.state = "stored"
  /\ (IF j.stage = "saving" THEN j.row.baseline ELSE r.baseline) = Breach[k]
  /\ j.stage \in {"delivering", "recording"} => k \notin j.keys /\ j.row.baseline = Breach[k]

\* A run rolls its baseline onto the line of every key it publishes.
OnTheLine(j) ==
  /\ j.stage \in {"queued", "gathering"} => j.keys = {}
  /\ j.stage \in {"delivering", "recording", "saving"} =>
       \A k \in j.keys : j.row.baseline = Breach[k]

\* The inductive invariant of a parked monitor.
ParkInv ==
  /\ \A d \in Drivers, m \in Monitors : OnTheLine(job[d][m])
  /\ crashes = 0 => \A d \in Drivers, m \in Monitors, k \in Keys :
       <<m, k>> \in stood => world[m] = Breach[k] /\ Parked(job[d][m], rows[m], k)

\* A step that moves the run of one monitor and leaves its row alone.
LEMMA ParkJobStep ==
  ASSUME IInv, ParkInv, OneDriver, NEW d \in Drivers, NEW m \in Monitors, NEW j,
         SetJob(d, m, j), UNCHANGED <<world, rows, crashes>>,
         \A n \in Monitors \ {m}, k \in Keys : <<n, k>> \in stood' => <<n, k>> \in stood,
         OnTheLine(j),
         crashes = 0 => \A k \in Keys :
           <<m, k>> \in stood' => world[m] = Breach[k] /\ Parked(j, rows[m], k)
  PROVE  ParkInv'
<1>1. ASSUME NEW e \in Drivers, NEW n \in Monitors
      PROVE  /\ OnTheLine(job'[e][n])
             /\ crashes' = 0 => \A k \in Keys :
                  <<n, k>> \in stood' => world'[n] = Breach[k] /\ Parked(job'[e][n], rows'[n], k)
  <2>1. e = d
    BY SameDriver
  <2>2. CASE n = m
    <3>1. job'[e][n] = j
      BY <2>1, <2>2 DEF SetJob, IInv, TypeOK
    <3> QED
      BY <2>2, <3>1
  <2>3. CASE n # m
    <3>1. job'[e][n] = job[e][n]
      BY <2>1, <2>3 DEF SetJob, IInv, TypeOK
    <3> QED
      BY <2>3, <3>1 DEF ParkInv
  <2> QED
    BY <2>2, <2>3
<1> QED
  BY <1>1 DEF ParkInv

\* Nothing stands past a line at first.
LEMMA ParkInitial == Init => ParkInv
BY NoJobLemma DEF Init, ParkInv, OnTheLine

\* A tick copies the baseline, which is on the line already.
LEMMA ParkTick ==
  ASSUME IInv, ParkInv, OneDriver, NEW s \in Schedulers, SchedulerTick(s)
  PROVE  ParkInv'
<1>1. ASSUME NEW d \in Drivers, NEW m \in Monitors
      PROVE  /\ OnTheLine(job'[d][m])
             /\ \A k \in Keys : Parked(job[d][m], rows[m], k) => Parked(job'[d][m], rows'[m], k)
  <2>1. d = s
    BY SameDriver DEF Drivers
  <2>2. job[d][m].stage = "none" /\ rows'[m] = rows[m]
    BY <2>1 DEF SchedulerTick
  <2>3. job'[d][m].stage \in {"none", "queued"} /\ job'[d][m].keys = {}
    <3>1. CASE Due(m)
      <4>1. job'[d][m] = [NoJob EXCEPT !.stage = "queued", !.row = rows[m]]
        BY <2>1, <3>1 DEF SchedulerTick, IInv, TypeOK
      <4> QED
        BY <4>1 DEF NoJob
    <3>2. CASE ~Due(m)
      BY <2>1, <3>2, NoJobLemma DEF SchedulerTick, IInv, TypeOK
    <3> QED
      BY <3>1, <3>2
  <2> QED
    BY <2>2, <2>3 DEF OnTheLine, Parked
<1> QED
  BY <1>1 DEF ParkInv, SchedulerTick

\* A run that starts still holds that copy.
LEMMA ParkStart ==
  ASSUME IInv, ParkInv, OneDriver, NEW s \in Schedulers, NEW m \in Monitors, Start(s, m)
  PROVE  ParkInv'
<1> DEFINE j == [job[s][m] EXCEPT !.stage = "gathering", !.at = now]
<1>1. s \in Drivers
  BY DEF Drivers
<1>2. /\ j.stage = "gathering" /\ j.keys = job[s][m].keys
      /\ job[s][m].stage = "queued"
  BY <1>1, JobTyped DEF IInv, Job, Start
<1>3. SetJob(s, m, j) /\ UNCHANGED <<world, rows, stood, crashes>>
  BY DEF Start
<1> HIDE DEF j
<1>4. OnTheLine(j)
  BY <1>1, <1>2 DEF ParkInv, OnTheLine
<1>5. crashes = 0 => \A k \in Keys :
        <<m, k>> \in stood => world[m] = Breach[k] /\ Parked(j, rows[m], k)
  BY <1>1, <1>2 DEF ParkInv, Parked
<1> QED
  BY <1>1, <1>3, <1>4, <1>5, ParkJobStep

\* A run that has its metric rolls the baseline to where the metric stands: a
\* line it stood past already is not crossed.
LEMMA ParkGatherReturns ==
  ASSUME IInv, SoloInv, ParkInv, OneDriver, NEW d \in Drivers, NEW m \in Monitors,
         GatherReturns(d, m, world[m])
  PROVE  ParkInv'
<1> DEFINE i    == job[d][m]
           keys == Published(i.row, world[m], i.at)
           row  == RolledForward(i.row, world[m], keys, i.at)
           j    == [i EXCEPT !.stage = IF keys = {} THEN "recording" ELSE "delivering",
                             !.row = row, !.keys = keys]
<1>1. /\ i \in Job /\ i.row \in Row /\ i.at \in Time
      /\ keys \in SUBSET Keys
      /\ world[m] \in Baseline
  BY JobTyped DEF IInv, TypeOK, Job, Published, Baseline
<1>2. row.baseline = world[m]
  BY <1>1, RolledForwardLemma DEF RolledForward, Row
<1>3. i.stage = "gathering" /\ i.row = rows[m]
  BY DEF SoloInv, Agrees, GatherReturns
<1>4. SetJob(d, m, j) /\ UNCHANGED <<world, rows, stood, crashes>>
  BY DEF GatherReturns
<1>5. \A k \in keys : world[m] = Breach[k] /\ rows[m].baseline # Breach[k]
  BY <1>3 DEF Published, Fires
<1> HIDE DEF keys, row
<1>6. /\ j.stage = IF keys = {} THEN "recording" ELSE "delivering"
      /\ j.row = row /\ j.keys = keys
  BY <1>1 DEF Job
<1> HIDE DEF j
<1>7. OnTheLine(j)
  BY <1>2, <1>5, <1>6 DEF OnTheLine
<1>8. crashes = 0 => \A k \in Keys :
        <<m, k>> \in stood => world[m] = Breach[k] /\ Parked(j, rows[m], k)
  <2> SUFFICES ASSUME crashes = 0, NEW k \in Keys, <<m, k>> \in stood
               PROVE  world[m] = Breach[k] /\ Parked(j, rows[m], k)
    OBVIOUS
  <2>1. world[m] = Breach[k] /\ Parked(i, rows[m], k)
    BY DEF ParkInv
  <2>2. rows[m].state = "stored" /\ rows[m].baseline = Breach[k]
    BY <1>3, <2>1 DEF Parked
  <2>3. k \notin keys
    BY <1>5, <2>2
  <2> QED
    BY <1>2, <1>6, <2>1, <2>2, <2>3 DEF Parked
<1> QED
  BY <1>4, <1>7, <1>8, ParkJobStep

\* A gather that fails publishes nothing and keeps the baseline.
LEMMA ParkGatherCaught ==
  ASSUME IInv, SoloInv, ParkInv, OneDriver, NEW d \in Drivers, NEW m \in Monitors,
         GatherCaught(d, m)
  PROVE  ParkInv'
<1> DEFINE i   == job[d][m]
           row == [i.row EXCEPT !.next = i.at + Interval]
           j   == [i EXCEPT !.stage = "recording", !.row = row]
<1>1. i \in Job /\ i.row \in Row
  BY JobTyped DEF IInv
<1>2. row.baseline = i.row.baseline
  BY <1>1 DEF Row
<1>3. i.stage = "gathering" /\ i.row = rows[m] /\ i.keys = {}
  BY DEF SoloInv, Agrees, GatherCaught, ParkInv, OnTheLine
<1>4. [i EXCEPT !.stage = "recording", !.row.next = i.at + Interval] = j
  BY <1>1 DEF Job
<1>5. SetJob(d, m, j) /\ UNCHANGED <<world, rows, stood, crashes>>
  BY <1>4 DEF GatherCaught
<1> HIDE DEF row
<1>6. j.stage = "recording" /\ j.row = row /\ j.keys = {}
  BY <1>1, <1>3 DEF Job
<1> HIDE DEF j
<1>7. OnTheLine(j)
  BY <1>6 DEF OnTheLine
<1>8. crashes = 0 => \A k \in Keys :
        <<m, k>> \in stood => world[m] = Breach[k] /\ Parked(j, rows[m], k)
  BY <1>2, <1>3, <1>6 DEF ParkInv, Parked
<1> QED
  BY <1>5, <1>7, <1>8, ParkJobStep

\* A run that is given up before its record leaves the row as it was.
LEMMA ParkGivesUp ==
  ASSUME IInv, ParkInv, OneDriver, NEW d \in Drivers, NEW m \in Monitors,
         job[d][m].stage \in {"gathering", "delivering"},
         SetJob(d, m, NoJob), UNCHANGED <<world, rows, stood, crashes>>
  PROVE  ParkInv'
<1>1. OnTheLine(NoJob)
  BY NoJobLemma DEF OnTheLine
<1>2. crashes = 0 => \A k \in Keys :
        <<m, k>> \in stood => world[m] = Breach[k] /\ Parked(NoJob, rows[m], k)
  BY NoJobLemma DEF ParkInv, Parked
<1> QED
  BY <1>1, <1>2, ParkJobStep

\* A gather that reads the level reads the line itself: nothing fires, and the
\* copy stays on the line.  (A partial one would leave a baseline without the
\* level.)
LEMMA ParkGather ==
  ASSUME IInv, SoloInv, ParkInv, OneDriver, "partial" \notin GatherOutcomes,
         NEW d \in Drivers, NEW m \in Monitors, Gather(d, m)
  PROVE  ParkInv'
<1>1. CASE GatherReturns(d, m, world[m])
  BY <1>1, ParkGatherReturns
<1>2. CASE GatherCaught(d, m)
  BY <1>2, ParkGatherCaught
<1>3. CASE GatherBreaks(d, m)
  BY <1>3, ParkGivesUp DEF GatherBreaks
<1> QED
  BY <1>1, <1>2, <1>3 DEF Gather

\* A push leaves the copy and its keys.
LEMMA ParkPush ==
  ASSUME IInv, ParkInv, OneDriver, NEW d \in Drivers, NEW m \in Monitors, Push(d, m)
  PROVE  ParkInv'
<1> DEFINE i == job[d][m]
           j == [i EXCEPT !.stage = "recording"]
<1>1. i \in Job /\ i.stage = "delivering"
  BY JobTyped DEF IInv, Push
<1>2. UNCHANGED <<world, rows, stood, crashes>>
  BY DEF Push
<1>3. SetJob(d, m, NoJob) \/ SetJob(d, m, j)
  BY DEF Push
<1>4. j.stage = "recording" /\ j.row = i.row /\ j.keys = i.keys
  BY <1>1 DEF Job
<1> HIDE DEF j
<1>5. OnTheLine(j)
  BY <1>1, <1>4 DEF ParkInv, OnTheLine
<1>6. crashes = 0 => \A k \in Keys :
        <<m, k>> \in stood => world[m] = Breach[k] /\ Parked(j, rows[m], k)
  BY <1>1, <1>4 DEF ParkInv, Parked
<1>7. CASE SetJob(d, m, j)
  BY <1>2, <1>5, <1>6, <1>7, ParkJobStep
<1>8. CASE SetJob(d, m, NoJob)
  BY <1>1, <1>2, <1>8, ParkGivesUp
<1> QED
  BY <1>3, <1>7, <1>8

\* A recorded run published the keys that its baseline rolled onto.
LEMMA ParkRecord ==
  ASSUME IInv, SoloInv, ParkInv, OneDriver, NEW d \in Drivers, NEW m \in Monitors, Record(d, m)
  PROVE  ParkInv'
<1> DEFINE i == job[d][m]
           j == [i EXCEPT !.stage = "saving"]
<1>1. i \in Job /\ i.stage = "recording"
  BY JobTyped DEF IInv, Record
<1>2. Agrees(i, rows[m], m, fed, now)
  BY DEF SoloInv
<1>3. /\ SetJob(d, m, j) /\ UNCHANGED <<world, rows, crashes>>
      /\ stood' = stood \cup {<<m, k>> : k \in {l \in i.keys : world[m] = Breach[l]}}
  BY DEF Record
<1>4. j.stage = "saving" /\ j.row = i.row /\ j.keys = i.keys
  BY <1>1 DEF Job
<1> HIDE DEF j
<1>5. OnTheLine(i)
  BY DEF ParkInv
<1>6. OnTheLine(j)
  BY <1>1, <1>4, <1>5 DEF OnTheLine
<1>7. ASSUME crashes = 0, NEW k \in Keys, <<m, k>> \in stood'
      PROVE  world[m] = Breach[k] /\ Parked(j, rows[m], k)
  <2>1. rows[m].state = "stored"
    BY <1>1, <1>2 DEF Agrees
  <2>2. CASE <<m, k>> \in stood
    BY <1>1, <1>4, <1>7, <2>2 DEF ParkInv, Parked
  <2>3. CASE k \in i.keys /\ world[m] = Breach[k]
    BY <1>1, <1>4, <1>5, <2>1, <2>3 DEF Parked, OnTheLine
  <2> QED
    BY <1>3, <1>7, <2>2, <2>3
<1>8. \A n \in Monitors \ {m}, k \in Keys : <<n, k>> \in stood' => <<n, k>> \in stood
  BY <1>3
<1> QED
  BY <1>3, <1>6, <1>7, <1>8, ParkJobStep

\* The row takes the copy, which is on the line.
LEMMA ParkSave ==
  ASSUME IInv, SoloInv, ParkInv, OneDriver, NEW d \in Drivers, NEW m \in Monitors, Save(d, m)
  PROVE  ParkInv'
<1>1. /\ job[d][m].stage = "saving"
      /\ rows' = [rows EXCEPT ![m] = job[d][m].row] /\ SetJob(d, m, NoJob)
      /\ UNCHANGED <<world, stood, crashes>>
  BY DEF Save
<1>2. job[d][m].row.state = "stored"
  BY <1>1 DEF SoloInv, Agrees, Rolled
<1>3. ASSUME NEW e \in Drivers, NEW n \in Monitors
      PROVE  /\ OnTheLine(job'[e][n])
             /\ \A k \in Keys : Parked(job[e][n], rows[n], k) => Parked(job'[e][n], rows'[n], k)
  <2>1. e = d
    BY SameDriver
  <2>2. CASE n = m
    <3>1. job'[e][n] = NoJob /\ rows'[n] = job[e][n].row
      BY <1>1, <2>1, <2>2 DEF SetJob, IInv, TypeOK
    <3> QED
      BY <1>1, <1>2, <2>1, <2>2, <3>1, NoJobLemma DEF OnTheLine, Parked
  <2>3. CASE n # m
    <3>1. job'[e][n] = job[e][n] /\ rows'[n] = rows[n]
      BY <1>1, <2>1, <2>3 DEF SetJob, IInv, TypeOK
    <3> QED
      BY <3>1 DEF ParkInv
  <2> QED
    BY <2>2, <2>3
<1> QED
  BY <1>1, <1>3 DEF ParkInv

\* Steps that move no run: a creation, a crash, the world, the clock.
LEMMA ParkElsewhere ==
  ASSUME IInv, ParkInv, OneDriver,
         \/ \E m \in Monitors : Create(m)
         \/ \E d \in Drivers : Crash(d)
         \/ \E m \in Monitors : WorldMoves(m)
         \/ ClockTick
         \/ UNCHANGED vars
  PROVE  ParkInv'
<1>1. CASE \E m \in Monitors : Create(m)
  <2>1. PICK m \in Monitors : Create(m)
    BY <1>1
  <2>2. /\ UNCHANGED <<world, job, stood, crashes>>
        /\ \A n \in Monitors : rows'[n] # rows[n] => rows[n].state = "unborn"
    BY <2>1 DEF Create, IInv, TypeOK
  <2> QED
    BY <2>2 DEF ParkInv, Parked
<1>2. CASE \E d \in Drivers : Crash(d)
  <2>1. \A e \in Drivers, m \in Monitors : job'[e][m] \in {job[e][m], NoJob}
    BY <1>2 DEF Crash, IInv, TypeOK
  <2>2. crashes' # 0
    BY <1>2 DEF Crash, IInv, TypeOK
  <2> QED
    BY <2>1, <2>2, NoJobLemma DEF ParkInv, OnTheLine
<1>3. CASE \E m \in Monitors : WorldMoves(m)
  <2>1. PICK m \in Monitors : WorldMoves(m)
    BY <1>3
  <2>2. /\ UNCHANGED <<rows, job, crashes>>
        /\ \A n \in Monitors, k \in Keys :
             <<n, k>> \in stood' => <<n, k>> \in stood /\ world'[n] = world[n]
    BY <2>1 DEF WorldMoves, IInv, TypeOK
  <2> QED
    BY <2>2 DEF ParkInv
<1>4. CASE ClockTick \/ UNCHANGED vars
  BY <1>4 DEF ClockTick, vars, ParkInv
<1> QED
  BY <1>1, <1>2, <1>3, <1>4

\* Every step keeps the invariant of a parked monitor.
LEMMA ParkStep ==
  ASSUME OneDriver, "partial" \notin GatherOutcomes, IInv, SoloInv, ParkInv, [Next]_vars
  PROVE  ParkInv'
<1>1. CASE \E s \in Schedulers : SchedulerTick(s)
  BY <1>1, ParkTick
<1>2. CASE \E s \in Schedulers, m \in Monitors : Start(s, m)
  BY <1>2, ParkStart
<1>3. CASE \E d \in Manuals, m \in Monitors : ManualRun(d, m)
  BY <1>3 DEF OneDriver
<1>4. CASE \E d \in Drivers, m \in Monitors : RunStep(d, m)
  BY <1>4, ParkGather, ParkPush, ParkRecord, ParkSave DEF RunStep
<1>5. CASE \E m \in Monitors : EditStep(m)
  <2>1. \E m \in Monitors : Create(m)
    BY <1>5 DEF EditStep, OneDriver, Delete, ToggleRead, ToggleSave, SoloInv
  <2> QED
    BY <2>1, ParkElsewhere
<1>6. CASE \/ \E d \in Drivers : Crash(d)
           \/ \E m \in Monitors : WorldMoves(m)
           \/ ClockTick
           \/ UNCHANGED vars
  BY <1>6, ParkElsewhere
<1> QED
  BY <1>1, <1>2, <1>3, <1>4, <1>5, <1>6 DEF Next

\* Only a record adds to the feed.
LEMMA RecordedOrKept ==
  ASSUME [Next]_vars
  PROVE  (\E d \in Drivers, m \in Monitors : Record(d, m)) \/ fed' = fed
<1>1. ASSUME NEW d \in Drivers, NEW m \in Monitors, RunStep(d, m)
      PROVE  Record(d, m) \/ fed' = fed
  <2>1. CASE Gather(d, m)
    BY <2>1 DEF Gather, GatherReturns, GatherCaught, GatherBreaks
  <2>2. CASE Push(d, m) \/ Save(d, m)
    BY <2>2 DEF Push, Save
  <2> QED
    BY <1>1, <2>1, <2>2 DEF RunStep
<1>2. CASE \E d \in Drivers, m \in Monitors : RunStep(d, m)
  BY <1>1, <1>2
<1>3. CASE \/ \E s \in Schedulers : SchedulerTick(s)
           \/ \E s \in Schedulers, n \in Monitors : Start(s, n)
           \/ \E d \in Manuals, n \in Monitors : ManualRun(d, n)
  BY <1>3 DEF SchedulerTick, Start, ManualRun
<1>4. CASE \E m \in Monitors : EditStep(m)
  BY <1>4 DEF EditStep, Create, Delete, ToggleRead, ToggleSave
<1>5. CASE \/ \E d \in Drivers : Crash(d)
           \/ \E m \in Monitors : WorldMoves(m)
           \/ ClockTick
           \/ UNCHANGED vars
  BY <1>5 DEF Crash, WorldMoves, ClockTick, vars
<1> QED
  BY <1>2, <1>3, <1>4, <1>5 DEF Next

\* With one driver and feeds that do not lose the metric, a line the metric
\* stays past is alerted once: while nothing crashes between a record and its
\* save, no later run finds the baseline short of the line.
THEOREM ParkedIsSilentSolo ==
  ASSUME OneDriver, "partial" \notin GatherOutcomes
  PROVE  Spec => ParkedIsSilent
<1>1. Init => IInv /\ SoloInv /\ ParkInv
  BY InitInv, SoloInitial, ParkInitial
<1>2. IInv /\ SoloInv /\ ParkInv /\ [Next]_vars => (IInv /\ SoloInv /\ ParkInv)'
  BY SoloStep, StepInv, ParkStep
<1>3. ASSUME IInv, ParkInv, [Next]_vars, NEW m \in Monitors, NEW k \in Keys,
             <<m, k>> \in stood, crashes = 0, NEW e \in fed', e[1] = m, e[2] = k
      PROVE  e \in fed
  <2>1. CASE \E d \in Drivers, n \in Monitors : Record(d, n)
    <3>1. PICK d \in Drivers, n \in Monitors : Record(d, n)
      BY <2>1
    <3>2. /\ fed' = fed \cup {<<n, l, job[d][n].at>> : l \in job[d][n].keys}
          /\ job[d][n].stage = "recording"
      BY <3>1 DEF Record
    <3>3. k \notin job[d][m].keys \/ n # m
      BY <1>3, <3>2 DEF ParkInv, Parked
    <3> QED
      BY <1>3, <3>2, <3>3
  <2>2. CASE fed' = fed
    BY <1>3, <2>2
  <2> QED
    BY <1>3, <2>1, <2>2, RecordedOrKept
<1>4. IInv /\ SoloInv /\ ParkInv /\ [Next]_vars =>
        [\A m \in Monitors, k \in Keys :
           (<<m, k>> \in stood /\ crashes = 0)
             => ({e \in fed' : e[1] = m /\ e[2] = k} \subseteq fed)]_vars
  BY <1>3
<1> QED
  BY <1>1, <1>2, <1>4, PTL DEF Spec, ParkedIsSilent

=============================================================================
