---------------------------- MODULE MonitorFleet ----------------------------
(***************************************************************************)
(* The continuous monitors (src/jim/monitors/): the store's rows, the      *)
(* drivers that run a monitor (scheduler ticks, and API or CLI runs), the  *)
(* operators that edit the rows meanwhile, and crashes.                    *)
(*                                                                         *)
(* A driver works on a COPY of the row it read and writes the whole row    *)
(* back at the end (_finalize); the steps below are the code between two   *)
(* awaits.  What is watched is one metric per monitor with one threshold   *)
(* trigger (above and below), the trigger of _eval_threshold.              *)
(***************************************************************************)
EXTENDS Integers, FiniteSets

CONSTANTS
  Monitors,        \* monitor ids; an id is never used twice (uuid)
  Schedulers,      \* MonitorScheduler loops (in-process autostart, jim-monitor serve)
  Manuals,         \* POST /monitors/{id}/run and jim-monitor run
  MaxConcurrency,  \* MonitorScheduler._sem
  Interval,        \* Monitor.interval_seconds, in ticks
  Cooldown,        \* Monitor.cooldown_seconds, in ticks
  Levels,          \* where the metric may stand: subset of Level, with "mid"
  MaxNow,          \* bound of the clock
  MaxCrashes,      \* bound of the crashes
  GatherOutcomes,  \* what gather may do: subset of GatherOutcome
  Flawed,          \* monitors whose source or channel may raise anything
  PushOutcomes,    \* what delivery may do: subset of PushOutcome
  EditKinds,       \* which edits happen: subset of {"delete", "toggle"}
  None

Drivers == Schedulers \cup Manuals
Time    == 0..MaxNow

GatherOutcome == {"ok",        \* a snapshot with the metric
                  "partial",   \* a snapshot without it (a best-effort feed is down)
                  "caught",    \* one of the exceptions run_monitor_once lists
                  "uncaught"}  \* any other exception
PushOutcome   == {"none",      \* deliver=False, or no external channel
                  "pushed",    \* a channel took the update
                  "failed",    \* Channel.deliver returned False
                  "raises"}    \* deliver raised (httpx.InvalidURL is no HTTPError)

ASSUME DriversAssumption ==
  /\ Schedulers \cap Manuals = {}
  /\ MaxConcurrency \in Nat \ {0}
ASSUME TimingAssumption ==
  Interval \in Nat \ {0} /\ Cooldown \in Nat /\ MaxNow \in Nat /\ MaxCrashes \in Nat
ASSUME OutcomesAssumption ==
  /\ GatherOutcomes \subseteq GatherOutcome
  /\ PushOutcomes \subseteq PushOutcome
  /\ Flawed \subseteq Monitors
ASSUME LevelsAssumption == "mid" \in Levels /\ Levels \subseteq {"low", "mid", "high"}
ASSUME NoneAssumption == None \notin Int

\* The metric: where it stands, and the threshold keys a crossing fires.
Level  == {"low", "mid", "high"}
Keys   == {"above", "below"}
Breach == [k \in Keys |-> IF k = "above" THEN "high" ELSE "low"]

\* Monitor.baseline for the metric: no baseline yet, a baseline without the
\* metric, or its level.
Baseline == {"empty", "missing"} \cup Level

\* Monitor.to_row: what a run or an edit can change, and whether the table has
\* the row: never saved, stored, or deleted.
Row == [state     : {"unborn", "stored", "gone"},
        enabled   : BOOLEAN,
        baseline  : Baseline,
        cooldowns : [Keys -> Time \cup {None}],
        next      : Nat \cup {None}]

\* One execution of run_monitor_once, its copy of the row included.
JobStage == {"none", "queued", "gathering", "delivering", "recording", "saving"}

VARIABLES
  now,      \* the clock
  world,    \* where the metric of each monitor really stands
  rows,     \* the store's monitors table
  job,      \* job[d][m]: what driver d does with monitor m
  edit,     \* edit[m]: the row a jim-monitor enable/disable read, not yet saved
  fed,      \* the feed's material runs: <<monitor, key, ran_at>>
  alerted,  \* history: ran_at of the last alert a channel took, per key
  early,    \* history: alerts a channel took inside the cooldown of the last
  stood,    \* history: keys in the feed whose line the metric never left since
  crashes   \* number of crashes so far

vars == <<now, world, rows, job, edit, fed, alerted, early, stood, crashes>>

NewRow == [state |-> "stored", enabled |-> TRUE, baseline |-> "empty",
           cooldowns |-> [k \in Keys |-> None], next |-> None]

NoRow(state) == [NewRow EXCEPT !.state = state]

NoJob == [stage |-> "none", row |-> NewRow, at |-> 0, keys |-> {}]

Job == [stage : JobStage, row : Row, at : Time, keys : SUBSET Keys]

TypeOK ==
  /\ now \in Time
  /\ world \in [Monitors -> Level]
  /\ rows \in [Monitors -> Row]
  /\ job \in [Drivers -> [Monitors -> Job]]
  /\ edit \in [Monitors -> Row \cup {None}]
  /\ fed \subseteq Monitors \X Keys \X Time
  /\ alerted \in [Monitors -> [Keys -> Time \cup {None}]]
  /\ early \subseteq Monitors \X Keys
  /\ stood \subseteq Monitors \X Keys
  /\ crashes \in 0..MaxCrashes

Init ==
  /\ now = 0
  /\ world \in [Monitors -> {"mid"}]
  /\ rows = [m \in Monitors |-> NoRow("unborn")]
  /\ job = [d \in Drivers |-> [m \in Monitors |-> NoJob]]
  /\ edit = [m \in Monitors |-> None]
  /\ fed = {}
  /\ alerted = [m \in Monitors |-> [k \in Keys |-> None]]
  /\ early = {}
  /\ stood = {}
  /\ crashes = 0

Stored(m) == rows[m].state = "stored"

\* Store.due_monitors: enabled, and never scheduled or scheduled by now.
Due(m) ==
  /\ Stored(m)
  /\ rows[m].enabled
  /\ rows[m].next # None => rows[m].next <= now

Running(s) == {m \in Monitors : job[s][m].stage \notin {"none", "queued"}}

SetJob(d, m, j) == job' = [job EXCEPT ![d][m] = j]

---------------------------------------------------------------------------
(* Starting a run *)

\* MonitorScheduler.tick: read the due rows; gather() awaits all of them
\* before the loop polls again.
SchedulerTick(s) ==
  /\ \A m \in Monitors : job[s][m].stage = "none"
  /\ \E m \in Monitors : Due(m)
  /\ job' = [job EXCEPT ![s] = [m \in Monitors |->
               IF Due(m) THEN [NoJob EXCEPT !.stage = "queued", !.row = rows[m]]
               ELSE NoJob]]
  /\ UNCHANGED <<now, world, rows, edit, fed, alerted, early, stood, crashes>>

\* A queued run enters the semaphore, with the row its tick has read.
Start(s, m) ==
  /\ job[s][m].stage = "queued"
  /\ Cardinality(Running(s)) < MaxConcurrency
  /\ SetJob(s, m, [job[s][m] EXCEPT !.stage = "gathering", !.at = now])
  /\ UNCHANGED <<now, world, rows, edit, fed, alerted, early, stood, crashes>>

\* POST /monitors/{id}/run, jim-monitor run: whatever the schedule says.
ManualRun(d, m) ==
  /\ job[d][m].stage = "none"
  /\ Stored(m)
  /\ SetJob(d, m, [NoJob EXCEPT !.stage = "gathering", !.row = rows[m], !.at = now])
  /\ UNCHANGED <<now, world, rows, edit, fed, alerted, early, stood, crashes>>

---------------------------------------------------------------------------
(* run_monitor_once *)

\* Mutant of Fires: the baseline is not looked at.
FiresWhileParked(k, old, new) == new = Breach[k]

\* _eval_threshold: the level breaches the line and the baseline did not, or
\* had no value.
Fires(k, old, new) == new = Breach[k] /\ old # Breach[k]

\* assess: the same key was published less than Cooldown ago.
CoolingDown(row, k, at) ==
  /\ Cooldown > 0
  /\ row.cooldowns[k] # None
  /\ at - row.cooldowns[k] < Cooldown

\* diff_snapshots, evaluate_all and assess: the keys to publish.  A first run
\* only establishes the baseline.
Published(row, level, at) ==
  IF row.baseline = "empty" THEN {}
  ELSE {k \in Keys : Fires(k, row.baseline, level) /\ ~CoolingDown(row, k, at)}

\* Mutants of RolledForward: a quiet run forgets the stamps; no interval is added.
RolledForwardUnstamped(row, level, keys, at) ==
  [row EXCEPT !.baseline = level,
              !.cooldowns = [k \in Keys |-> IF k \in keys THEN at ELSE None],
              !.next = at + Interval]

RolledForwardInPlace(row, level, keys, at) ==
  [row EXCEPT !.baseline = level,
              !.cooldowns = [k \in Keys |-> IF k \in keys THEN at ELSE @[k]],
              !.next = at]

\* assess and _finalize on the driver's copy: stamp the cooldowns, roll the
\* baseline, reschedule.
RolledForward(row, level, keys, at) ==
  [row EXCEPT !.baseline = level,
              !.cooldowns = [k \in Keys |-> IF k \in keys THEN at ELSE @[k]],
              !.next = at + Interval]

\* gather returned: a material verdict goes to synthesis and delivery, a quiet
\* or first run straight to _finalize.
GatherReturns(d, m, level) ==
  LET j    == job[d][m]
      keys == Published(j.row, level, j.at)
  IN /\ j.stage = "gathering"
     /\ SetJob(d, m, [j EXCEPT !.stage = IF keys = {} THEN "recording" ELSE "delivering",
                               !.row   = RolledForward(j.row, level, keys, j.at),
                               !.keys  = keys])
     /\ UNCHANGED <<now, world, rows, edit, fed, alerted, early, stood, crashes>>

\* Mutants of GatherCaught: the error run erases the baseline, or rolls it forward.
GatherCaughtErases(d, m) ==
  /\ "caught" \in GatherOutcomes
  /\ job[d][m].stage = "gathering"
  /\ SetJob(d, m, [job[d][m] EXCEPT !.stage = "recording",
                                    !.row.baseline = "empty",
                                    !.row.next = job[d][m].at + Interval])
  /\ UNCHANGED <<now, world, rows, edit, fed, alerted, early, stood, crashes>>

GatherCaughtRolls(d, m) ==
  /\ "caught" \in GatherOutcomes
  /\ job[d][m].stage = "gathering"
  /\ SetJob(d, m, [job[d][m] EXCEPT !.stage = "recording",
                                    !.row.baseline = world[m],
                                    !.row.next = job[d][m].at + Interval])
  /\ UNCHANGED <<now, world, rows, edit, fed, alerted, early, stood, crashes>>

\* A listed exception: an error run, rescheduled, baseline untouched.
GatherCaught(d, m) ==
  /\ "caught" \in GatherOutcomes
  /\ job[d][m].stage = "gathering"
  /\ SetJob(d, m, [job[d][m] EXCEPT !.stage = "recording",
                                    !.row.next = job[d][m].at + Interval])
  /\ UNCHANGED <<now, world, rows, edit, fed, alerted, early, stood, crashes>>

\* Mutant of GatherBreaks: the exception ends the whole tick.
GatherBreaksTick(d, m) ==
  /\ "uncaught" \in GatherOutcomes /\ m \in Flawed
  /\ job[d][m].stage = "gathering"
  /\ job' = [job EXCEPT ![d] = [x \in Monitors |-> NoJob]]
  /\ UNCHANGED <<now, world, rows, edit, fed, alerted, early, stood, crashes>>

\* Any other exception leaves run_monitor_once: tick answers with an error run
\* it does not persist (an API or CLI run fails).
GatherBreaks(d, m) ==
  /\ "uncaught" \in GatherOutcomes /\ m \in Flawed
  /\ job[d][m].stage = "gathering"
  /\ SetJob(d, m, NoJob)
  /\ UNCHANGED <<now, world, rows, edit, fed, alerted, early, stood, crashes>>

Gather(d, m) ==
  \/ "ok" \in GatherOutcomes /\ GatherReturns(d, m, world[m])
  \/ "partial" \in GatherOutcomes /\ GatherReturns(d, m, "missing")
  \/ GatherCaught(d, m)
  \/ GatherBreaks(d, m)

\* A channel took the update.
Alert(m, keys, at) ==
  /\ alerted' = [alerted EXCEPT ![m] = [k \in Keys |-> IF k \in keys THEN at ELSE @[k]]]
  /\ early' = early \cup {<<m, k>> : k \in {l \in keys :
                 alerted[m][l] # None /\ at - alerted[m][l] < Cooldown}}

\* Mutant of Push: a run whose delivery failed is not recorded.
PushUnrecorded(d, m) ==
  LET j == job[d][m]
  IN /\ j.stage = "delivering"
     /\ \E outcome \in PushOutcomes :
          /\ outcome = "raises" => m \in Flawed
          /\ \/ outcome \in {"pushed", "raises"} /\ Alert(m, j.keys, j.at)
             \/ outcome # "pushed" /\ UNCHANGED <<alerted, early>>
          /\ SetJob(d, m, IF outcome = "raises" THEN NoJob
                          ELSE [j EXCEPT !.stage = IF outcome = "failed" THEN "saving"
                                                   ELSE "recording"])
     /\ UNCHANGED <<now, world, rows, edit, fed, stood, crashes>>

\* synthesize_update and deliver_all.  A channel that fails is skipped; one
\* that raises ends the run, earlier channels may have taken the update.
Push(d, m) ==
  LET j == job[d][m]
  IN /\ j.stage = "delivering"
     /\ \E outcome \in PushOutcomes :
          /\ outcome = "raises" => m \in Flawed
          /\ \/ outcome \in {"pushed", "raises"} /\ Alert(m, j.keys, j.at)
             \/ outcome # "pushed" /\ UNCHANGED <<alerted, early>>
          /\ SetJob(d, m, IF outcome = "raises" THEN NoJob
                          ELSE [j EXCEPT !.stage = "recording"])
     /\ UNCHANGED <<now, world, rows, edit, fed, stood, crashes>>

\* Store.record_monitor_run.
Record(d, m) ==
  LET j == job[d][m]
  IN /\ j.stage = "recording"
     /\ fed' = fed \cup {<<m, k, j.at>> : k \in j.keys}
     /\ stood' = stood \cup {<<m, k>> : k \in {l \in j.keys : world[m] = Breach[l]}}
     /\ SetJob(d, m, [j EXCEPT !.stage = "saving"])
     /\ UNCHANGED <<now, world, rows, edit, alerted, early, crashes>>

\* Store.save_monitor: the whole row is written, inserted when it is not there.
Save(d, m) ==
  /\ job[d][m].stage = "saving"
  /\ rows' = [rows EXCEPT ![m] = job[d][m].row]
  /\ SetJob(d, m, NoJob)
  /\ UNCHANGED <<now, world, edit, fed, alerted, early, stood, crashes>>

---------------------------------------------------------------------------
(* Operators, crashes, the world *)

\* POST /monitors, jim-monitor add.
Create(m) ==
  /\ rows[m].state = "unborn"
  /\ rows' = [rows EXCEPT ![m] = NewRow]
  /\ UNCHANGED <<now, world, job, edit, fed, alerted, early, stood, crashes>>

\* DELETE /monitors/{id}, jim-monitor rm.
Delete(m) ==
  /\ "delete" \in EditKinds
  /\ Stored(m)
  /\ rows' = [rows EXCEPT ![m] = NoRow("gone")]
  /\ UNCHANGED <<now, world, job, edit, fed, alerted, early, stood, crashes>>

\* jim-monitor enable/disable: get_monitor ...
ToggleRead(m, enabled) ==
  /\ "toggle" \in EditKinds
  /\ edit[m] = None
  /\ Stored(m)
  /\ edit' = [edit EXCEPT ![m] = [rows[m] EXCEPT !.enabled = enabled]]
  /\ UNCHANGED <<now, world, rows, job, fed, alerted, early, stood, crashes>>

\* Mutant of ToggleSave: a monitor that was not found is saved.
ToggleSaveUnread(m) ==
  /\ rows' = [rows EXCEPT ![m] = edit[m]]
  /\ edit' = [edit EXCEPT ![m] = None]
  /\ UNCHANGED <<now, world, job, fed, alerted, early, stood, crashes>>

\* ... then save_monitor.
ToggleSave(m) ==
  /\ edit[m] # None
  /\ rows' = [rows EXCEPT ![m] = edit[m]]
  /\ edit' = [edit EXCEPT ![m] = None]
  /\ UNCHANGED <<now, world, job, fed, alerted, early, stood, crashes>>

\* The driver's process stops, or its task is cancelled at shutdown: the store
\* is all that is left of its runs.
Crash(d) ==
  /\ crashes < MaxCrashes
  /\ crashes' = crashes + 1
  /\ job' = [job EXCEPT ![d] = [m \in Monitors |-> NoJob]]
  /\ UNCHANGED <<now, world, rows, edit, fed, alerted, early, stood>>

ClockTick ==
  /\ now < MaxNow
  /\ now' = now + 1
  /\ UNCHANGED <<world, rows, job, edit, fed, alerted, early, stood, crashes>>

WorldMoves(m) ==
  /\ \E level \in Levels \ {world[m]} : world' = [world EXCEPT ![m] = level]
  /\ stood' = stood \ ({m} \X Keys)
  /\ UNCHANGED <<now, rows, job, edit, fed, alerted, early, crashes>>

RunStep(d, m) == Gather(d, m) \/ Push(d, m) \/ Record(d, m) \/ Save(d, m)

EditStep(m) ==
  Create(m) \/ Delete(m) \/ (\E e \in BOOLEAN : ToggleRead(m, e)) \/ ToggleSave(m)

Next ==
  \/ \E s \in Schedulers : SchedulerTick(s)
  \/ \E s \in Schedulers, m \in Monitors : Start(s, m)
  \/ \E d \in Manuals, m \in Monitors : ManualRun(d, m)
  \/ \E d \in Drivers, m \in Monitors : RunStep(d, m)
  \/ \E d \in Drivers : Crash(d)
  \/ \E m \in Monitors : EditStep(m) \/ WorldMoves(m)
  \/ ClockTick

Spec == Init /\ [][Next]_vars

\* The scheduler loops poll for ever, every await of a run returns (client
\* timeouts, resilient_call), and the semaphore is first come, first served.
Fairness ==
  /\ \A s \in Schedulers : WF_vars(SchedulerTick(s))
  /\ \A s \in Schedulers, m \in Monitors : WF_vars(Start(s, m))
  /\ \A d \in Drivers, m \in Monitors : WF_vars(RunStep(d, m))

FairSpec == Spec /\ Fairness

---------------------------------------------------------------------------
(* Properties *)

\* A cooldown never silences an alert that nobody can read: every cooldown
\* stamp the store holds belongs to a run in the feed, whatever runs, edits
\* and crashes interleave.
SuppressionIsBacked ==
  \A m \in Monitors : Stored(m) =>
    \A k \in Keys : rows[m].cooldowns[k] # None => <<m, k, rows[m].cooldowns[k]>> \in fed

\* "don't re-alert the same key within a window" (docs/ARCHITECTURE.md 12.3): one
\* driver that is not stopped between a push and the save that stamps it pushes no
\* key twice within the cooldown, whatever errors and quiet runs come between.
CooldownRespected == crashes = 0 => early = {}

\* A monitor that has a baseline keeps one: no run, error or crash sends it
\* back to its first run, where a crossing would pass unnoticed.
BaselineKept ==
  [][\A m \in Monitors :
       (Stored(m) /\ rows[m].baseline # "empty" /\ Stored(m)')
         => rows'[m].baseline # "empty"]_vars

\* The runs a scheduler completes keep the cadence: the schedule of a stored
\* monitor only ever moves forward, by at least Interval.
CadenceKept ==
  [][\A m \in Monitors :
       (Stored(m) /\ rows[m].next # None /\ Stored(m)' /\ rows'[m].next # rows[m].next)
         => rows'[m].next >= rows[m].next + Interval]_vars

\* Between two baselines the store holds in turn, every crossing is in the feed
\* or was silenced by a cooldown that is.
CrossingsPublished ==
  [][\A m \in Monitors :
       (Stored(m) /\ Stored(m)' /\ rows[m].baseline # "empty") =>
         \A k \in Keys : Fires(k, rows[m].baseline, rows'[m].baseline) =>
           \E t \in Time :
             /\ <<m, k, t>> \in fed
             /\ rows'[m].next - Interval - t < IF Cooldown = 0 THEN 1 ELSE Cooldown]_vars

DueSince(m, t) == Due(m) /\ rows[m].next = t

\* Every due monitor is run and rescheduled, deleted or disabled: a failing
\* source or channel, a crash or an edit never leaves it due on one schedule.
DueIsServed ==
  \A m \in Monitors, t \in Time \cup {None} : DueSince(m, t) ~> ~DueSince(m, t)

\* "one bad monitor must not sink the whole tick" (MonitorScheduler.tick): what
\* the flawed monitors raise never keeps the scheduler from serving the others.
OthersAreServed ==
  \A m \in Monitors \ Flawed, t \in Time \cup {None} : DueSince(m, t) ~> ~DueSince(m, t)

\* "A level already breached at the baseline does NOT re-fire"
\* (_eval_threshold): while the metric stands past the line it is in the feed
\* for, no second alert for that line is recorded, unless a crash came between
\* the record of the first and its save.
ParkedIsSilent ==
  [][\A m \in Monitors, k \in Keys :
       (<<m, k>> \in stood /\ crashes = 0)
         => ({e \in fed' : e[1] = m /\ e[2] = k} \subseteq fed)]_vars
=============================================================================
