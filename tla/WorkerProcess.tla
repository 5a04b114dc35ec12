--------------------------- MODULE WorkerProcess ----------------------------
(***************************************************************************)
(* The monitoring worker as a process (scripts/monitor-worker.ts with      *)
(* monitoring/worker.ts and heartbeat.ts) and what the pages make of its   *)
(* heartbeat (product/status.ts).  A process beats once, then runs sweeps  *)
(* and waits between them until it is told to stop, while a timer beats on *)
(* its own.  Processes of two deployments may overlap; they share one row. *)
(*                                                                         *)
(* A beat carries the time at which it was sent.  It may be on its way for *)
(* any time, also past the death of its sender, and past a later beat: the *)
(* latch that keeps one at a time opens when the heartbeat file fails.     *)
(*                                                                         *)
(* Abstractions.  Time is ages that stop at Ancient, one unit is the       *)
(* interval of the timer.  A sweep is Monitoring.tla; it returns or its    *)
(* error is caught.                                                        *)
(***************************************************************************)
EXTENDS Integers

CONSTANTS
  Instances,        \* worker processes that may exist at the same time
  OneShot,          \* those that are started with --once
  DegradedAfter,    \* WORKER_DEGRADED_AFTER_MS / WORKER_HEARTBEAT_INTERVAL_MS
  OfflineAfter,     \* WORKER_OFFLINE_AFTER_MS / WORKER_HEARTBEAT_INTERVAL_MS
  MaxLosses         \* bound: beats that fail, on the file or the row, and deaths

ASSUME HealthThresholds == /\ {DegradedAfter, OfflineAfter} \subseteq Nat \ {0}
                           /\ DegradedAfter < OfflineAfter
ASSUME OneShotInstances == OneShot \subseteq Instances
ASSUME MaxLossesIsNat   == MaxLosses \in Nat

Ancient == OfflineAfter + 1
Ages    == 0 .. Ancient
Never   == -1

VARIABLES
  worker,       \* [Instances -> step, stopping, once, ran]
  beats,        \* beats on their way: from, age, and whether the latch waits
  rowAge,       \* age of lastHeartbeatAt in the row, Never without a row
  aliveAge,     \* how long ago a process was last there; not of the code
  losses        \* beats that failed, and processes that died

workerVars == <<worker, beats, rowAge, aliveAge, losses>>

Off == [step |-> "off", stopping |-> FALSE, ran |-> FALSE]

WorkerInit ==
  /\ worker = [i \in Instances |-> Off]
  /\ beats = {} /\ rowAge = Never /\ aliveAge = Ancient /\ losses = 0

Alive(i)   == worker[i].step # "off"
Beating(i) == \E b \in beats : b.from = i /\ b.held

-----------------------------------------------------------------------------
(***************************************************************************)
(* The beat.                                                               *)
(***************************************************************************)

NewBeat(i) == [from |-> i, age |-> 0, held |-> TRUE]

\* The interval: heartbeatUpdate keeps one beat at a time.  The timer is there
\* from the first sweep to the end of the loop.
TimerBeats(i) ==
  /\ worker[i].step \in {"sweep", "wait"} /\ ~Beating(i)
  /\ beats' = beats \cup {NewBeat(i)}
  /\ UNCHANGED <<worker, rowAge, aliveAge, losses>>

\* Mutant: the time is that of the write.
WrittenNow(b) == 0

\* recordWorkerHeartbeat: the time was taken when the beat was sent.
Written(b) == b.age

BeatLands(b) ==
  /\ rowAge' = Written(b)
  /\ beats' = beats \ {b}
  /\ UNCHANGED <<worker, aliveAge, losses>>

Lose == losses < MaxLosses /\ losses' = losses + 1

\* The upsert fails: logged.
BeatFails(b) ==
  /\ beats' = beats \ {b}
  /\ Lose
  /\ UNCHANGED <<worker, rowAge, aliveAge>>

\* Promise.all rejects with the file while the upsert is still on its way.
FileFails(b) ==
  /\ b.held
  /\ beats' = (beats \ {b}) \cup {[b EXCEPT !.held = FALSE]}
  /\ Lose
  /\ UNCHANGED <<worker, rowAge, aliveAge>>

Older(age)   == IF age = Ancient THEN Ancient ELSE age + 1
AnyoneAlive  == \E i \in Instances : Alive(i)

\* An interval of the timer passes.
TimePasses ==
  /\ beats' = {[b EXCEPT !.age = Older(@)] : b \in beats}
  /\ rowAge' = IF rowAge = Never THEN Never ELSE Older(rowAge)
  /\ aliveAge' = IF AnyoneAlive THEN 0 ELSE Older(aliveAge)
  /\ UNCHANGED <<worker, losses>>

-----------------------------------------------------------------------------
(***************************************************************************)
(* The process.                                                            *)
(***************************************************************************)

GoTo(i, step) == worker' = [worker EXCEPT ![i].step = step]

Start(i) ==
  /\ ~Alive(i)
  /\ GoTo(i, "starting")
  /\ beats' = beats \cup {NewBeat(i)}
  /\ aliveAge' = 0
  /\ UNCHANGED <<rowAge, losses>>

BeginSweep(i) == worker' = [worker EXCEPT ![i].step = "sweep", ![i].ran = TRUE]

\* The first beat is awaited; the loop then sweeps at least once, stop or not.
EnterLoop(i) ==
  /\ worker[i].step = "starting" /\ ~Beating(i)
  /\ BeginSweep(i)
  /\ UNCHANGED <<beats, rowAge, aliveAge, losses>>

\* Mutant: shouldStop is not asked after the sweep.
LoopEndsOnce(i) == i \in OneShot

LoopEnds(i) == i \in OneShot \/ worker[i].stopping

SweepEnds(i) ==
  /\ worker[i].step = "sweep"
  /\ GoTo(i, IF LoopEnds(i) THEN "closing" ELSE "wait")
  /\ UNCHANGED <<beats, rowAge, aliveAge, losses>>

WaitEnds(i) ==
  /\ worker[i].step = "wait"
  /\ BeginSweep(i)
  /\ UNCHANGED <<beats, rowAge, aliveAge, losses>>

\* SIGTERM: the flag, and the end of a wait that is going on.
Stop(i) ==
  /\ Alive(i) /\ ~worker[i].stopping
  /\ worker' = [worker EXCEPT ![i].stopping = TRUE,
                              ![i].step = IF @ = "wait" THEN "closing" ELSE @]
  /\ UNCHANGED <<beats, rowAge, aliveAge, losses>>

\* A beat on its way is awaited before the process ends.
Exit(i) ==
  /\ worker[i].step = "closing" /\ ~Beating(i)
  /\ worker' = [worker EXCEPT ![i] = Off]
  /\ UNCHANGED <<beats, rowAge, aliveAge, losses>>

\* A crash, or a second signal: handlers are registered once.  What was sent
\* may still be written.
Die(i) ==
  /\ Alive(i)
  /\ worker' = [worker EXCEPT ![i] = Off]
  /\ beats' = {IF b.from = i THEN [b EXCEPT !.held = FALSE] ELSE b : b \in beats}
  /\ Lose
  /\ UNCHANGED <<rowAge, aliveAge>>

WorkerNext ==
  \/ TimePasses
  \/ \E i \in Instances : \/ TimerBeats(i) \/ Start(i) \/ EnterLoop(i) \/ SweepEnds(i)
                          \/ WaitEnds(i) \/ Stop(i) \/ Exit(i) \/ Die(i)
  \/ \E b \in beats : BeatLands(b) \/ BeatFails(b) \/ FileFails(b)

\* The timer fires, a statement on the row is executed or fails (MaxLosses), a
\* sweep returns since each of its calls has a time limit, time passes.
WorkerFairness ==
  /\ WF_workerVars(TimePasses)
  /\ \A i \in Instances : /\ WF_workerVars(\E b \in beats : b.from = i /\ BeatLands(b))
                          /\ WF_workerVars(TimerBeats(i)) /\ WF_workerVars(EnterLoop(i))
                          /\ WF_workerVars(SweepEnds(i)) /\ WF_workerVars(Exit(i))

WorkerSpec == WorkerInit /\ [][WorkerNext]_workerVars /\ WorkerFairness

-----------------------------------------------------------------------------
(***************************************************************************)
(* What the pages say: mapWorkerHealth and what is built on it.            *)
(***************************************************************************)

Health == IF rowAge = Never THEN "NOT_STARTED"
          ELSE IF rowAge > OfflineAfter THEN "OFFLINE"
          ELSE IF rowAge > DegradedAfter THEN "DEGRADED"
          ELSE "ONLINE"

\* mapMonitoringPresentation: the label of the dashboard.
Label(enabled) ==
  IF ~enabled THEN "INACTIVE"
  ELSE CASE Health = "ONLINE"      -> "ACTIVE"
         [] Health = "DEGRADED"    -> "DEGRADED"
         [] Health = "NOT_STARTED" -> "INACTIVE"
         [] OTHER                  -> "UNAVAILABLE"

\* mapProtectionIndicator: the dot beside the account.
Indicator(enabled, risk, attention, blocked) ==
  IF ~enabled THEN "none"
  ELSE IF blocked \/ risk = "CRITICAL" THEN "danger"
  ELSE IF attention \/ risk \in {"WATCH", "HIGH"} THEN "warn"
  ELSE IF Health = "ONLINE" THEN "good"
  ELSE "none"

-----------------------------------------------------------------------------
(***************************************************************************)
(* Properties.                                                             *)
(***************************************************************************)

WorkerTypeOK ==
  /\ worker \in [Instances -> [step : {"off", "starting", "sweep", "wait", "closing"},
                               stopping : BOOLEAN, ran : BOOLEAN]]
  /\ beats \subseteq [from : Instances, age : Ages, held : BOOLEAN]
  /\ rowAge \in Ages \cup {Never}
  /\ aliveAge \in Ages
  /\ losses \in 0 .. MaxLosses

\* "Monitoring is online" and "monitoring healthy" are said only if a process
\* was there less than thirty seconds ago, however late a beat was written.
Reassuring == \/ Label(TRUE) = "ACTIVE"
              \/ Indicator(TRUE, "SAFE", FALSE, FALSE) = "good"
StatusTruthful == Reassuring => aliveAge <= DegradedAfter

\* A worker that was told to stop begins no sweep, unless it has not had its
\* first one, and does not sit in a wait.
StopHonoured ==
  [][\A i \in Instances : worker[i].stopping /\ worker'[i].stopping =>
       /\ worker'[i].step # "wait"
       /\ worker'[i].step = "sweep" => worker[i].step = "sweep" \/ ~worker[i].ran]_workerVars
=============================================================================
