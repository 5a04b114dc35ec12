----------------------------- MODULE Monitoring -----------------------------
(***************************************************************************)
(* The monitoring cycle of src/src/lib/monitoring/service.ts for one       *)
(* protected account, with the notification rules of                       *)
(* src/src/lib/notifications/transitions.ts and the funding gate of        *)
(* src/src/lib/funding/readiness.ts.                                       *)
(*                                                                         *)
(* A cycle decides what to tell the owner by comparing its analysis with   *)
(* the newest run that was completed with a snapshot, so everything a      *)
(* failed or crashed cycle has already said is said by somebody nobody     *)
(* remembers.  Each step ends where the owner can save the policy, a call  *)
(* can throw, or the process can die.                                      *)
(*                                                                         *)
(* Abstractions.  The position is what the engine makes of it: a risk      *)
(* level and an offer, the valid candidates by rank.  Two recommendations  *)
(* are the same Action when they differ by less than the one percent that  *)
(* classifyActionNotificationChange ignores.  An execution is the outcome  *)
(* it has for its caller; how it comes about is Execution.tla.  Texts,     *)
(* metadata and audit rows are left out.                                   *)
(***************************************************************************)
EXTENDS Integers, Sequences, FiniteSetsExt, SequencesExt

CONSTANTS
  Workers,    \* processes that run cycles of this account
  Actions,    \* interventions: type, asset and amount
  NoAction,   \* "no action"
  Offers,     \* sequences of distinct actions: valid candidates, best first
  Levels,     \* risk levels above SAFE that occur
  Policies,   \* [mode, guarded] the owner may save; guarded: the actions
              \* above approvalRequiredAboveUsd
  Faults,     \* subset of {"crash", "throw", "lost"}
  MaxFaults,  \* bound: faults that strike
  MaxRuns,    \* bound: monitoring runs
  MaxSaves    \* bound: versions of the policy

Modes == {"MONITOR_ONLY", "REQUIRE_APPROVAL", "AUTONOMOUS"}

ASSUME NoActionIsNone == NoAction \notin Actions
ASSUME MonitoringConstants ==
  /\ Offers \subseteq Seq(Actions)
  /\ Levels \subseteq {"WATCH", "HIGH", "CRITICAL"}
  /\ Policies \subseteq [mode : Modes, guarded : SUBSET Actions]
  /\ MaxRuns \in Nat /\ MaxSaves \in Nat /\ MaxFaults \in Nat

Unsafe(risk) == risk \in {"WATCH", "HIGH", "CRITICAL"}

\* riskRank
Rank(risk) == CASE risk = "SAFE"  -> 0 [] risk = "WATCH"    -> 1
                [] risk = "HIGH"  -> 2 [] risk = "CRITICAL" -> 3

Blockers == {"NONE", "POLICY_REJECTED", "INSUFFICIENT_FUNDING", "SIMULATION_FAILED",
             "AUTONOMOUS_MODE_NOT_ENABLED", "EXECUTION_FAILED"}
Outcomes == {"READY_TO_EXECUTE", "POSITION_CHANGED", "DUPLICATE_PREVENTED",
             "UNCONFIRMED", "CONFIRMED"}
RunStatuses == Outcomes \cup {"RUNNING", "FAILED", "PROTECTION_BLOCKED", "MONITORED",
                              "NO_ACTION", "READY", "REQUIRE_APPROVAL"}
Readiness == {"NONE", "NOT_READY", "READY"}
PCs == {"idle", "loaded", "prepare", "persist", "risk", "action", "select", "simulate",
        "ask", "execute", "started", "report", "blocker", "complete", "catch"}

VARIABLES
  saved,      \* sequence of Policies: ProtectionPolicy, by version; the last is the row
  runs,       \* sequence of MonitoringRun rows by startedAt: status, whether a
              \* snapshotId is set, decision (0: none)
  decisions,  \* sequence of ProtectionDecision rows: risk, action (selected),
              \* mode (of policyContext), blocker, readiness
  notices,    \* the dedupe keys in the Notification table: <<kind, about, number>>
  lost,       \* dedupe keys whose row could not be written; not in the database
  faults,     \* how many faults have struck; not in the database
  executed,   \* idempotency keys with a claimed execution: <<action, version>>
  pc,         \* [Workers -> PCs]
  work        \* [Workers -> locals of the cycle]

database == <<runs, decisions>>
told     == <<notices, lost, faults>>
vars     == <<saved, database, told, executed, pc, work>>

Version == Len(saved)
Policy  == saved[Version]

\* NotificationState before any run.
NothingBefore == [risk |-> "NONE", blocker |-> "NONE", action |-> NoAction,
                  mode |-> "NONE", episode |-> 0, pending |-> FALSE]

NoWork == [run |-> 0, mode |-> "NONE", prev |-> NothingBefore, risk |-> "SAFE",
           offer |-> <<>>, policy |-> 0, decision |-> 0, readiness |-> "NONE",
           chosen |-> NoAction, key |-> 0, outcome |-> "NONE", blocker |-> "NONE"]

Init ==
  /\ saved \in {<<p>> : p \in Policies}
  /\ runs = <<>> /\ decisions = <<>>
  /\ notices = {} /\ lost = {} /\ faults = 0
  /\ executed = {}
  /\ pc = [w \in Workers |-> "idle"]
  /\ work = [w \in Workers |-> NoWork]

Goto(w, label) == pc' = [pc EXCEPT ![w] = label]

Leave(w) == Goto(w, "idle") /\ work' = [work EXCEPT ![w] = NoWork]

Strikes(fault) == fault \in Faults /\ faults < MaxFaults /\ faults' = faults + 1

\* The row is there afterwards, new or not; or it cannot be written.
Stored(n)    == notices' = notices \cup {n} /\ UNCHANGED <<lost, faults>>
NotStored(n) ==
  n \notin notices /\ Strikes("lost") /\ lost' = lost \cup {n} /\ UNCHANGED notices

\* safeNotify swallows the error.
SafeNotify(n) == Stored(n) \/ NotStored(n)

Silent == UNCHANGED told

-----------------------------------------------------------------------------
(***************************************************************************)
(* What happened before, and what is worth telling.                        *)
(***************************************************************************)

\* Runs that count as history: completed, with a snapshot.
Recorded(r) == {i \in DOMAIN runs : i # r /\ runs[i].snapshot}

\* The last recorded run without a decision, that is, on a safe position.
Boundary(r) == Max({0} \cup {i \in Recorded(r) : runs[i].decision = 0})

\* Mutant: whatever decision was persisted last counts as history.
PreviousStateOfDecisions(r) ==
  IF decisions = <<>> THEN NothingBefore
  ELSE LET d == Last(decisions)
       IN  [NothingBefore EXCEPT !.risk = d.risk, !.action = d.action, !.mode = d.mode,
              !.blocker = d.blocker, !.episode = Boundary(r)]

\* previousNotificationState, read in run r.
PreviousState(r) ==
  IF Recorded(r) = {} THEN NothingBefore
  ELSE LET run == runs[Max(Recorded(r))]
       IN  IF run.decision = 0
           THEN [NothingBefore EXCEPT !.risk = "SAFE", !.episode = Boundary(r)]
           ELSE LET d == decisions[run.decision]
                IN  [risk |-> d.risk, blocker |-> d.blocker, action |-> d.action,
                     mode |-> d.mode, episode |-> Boundary(r),
                     pending |-> run.status = "READY_TO_EXECUTE"]

ShouldNotifyRisk(prev, risk) ==
  Unsafe(risk) /\ (prev.risk = "NONE" \/ Rank(risk) > Rank(prev.risk))

ShouldNotifyRecovery(prev, risk) ==
  risk = "SAFE" /\ prev.risk \notin {"NONE", "SAFE"}

\* Mutant: only the first reason is announced.
ShouldNotifyBlockerOnce(prev, reason) == prev.blocker = "NONE"

ShouldNotifyBlocker(prev, reason) == prev.blocker # reason

\* classifyActionNotificationChange is not UNCHANGED.  The mode is the
\* policyState of the two actions.
ActionChanged(prev, action, mode) ==
  action # NoAction /\ (prev.action # action \/ prev.mode # mode)

\* Mutant: the key names the run and not the episode.
RecoveryKeyOfRun(w) == <<"RECOVERY", "SAFE", work[w].run>>

\* The dedupe key of a recovery has no run in it.
RecoveryKey(w) == <<"RECOVERY", "SAFE", work[w].prev.episode>>

-----------------------------------------------------------------------------
(***************************************************************************)
(* The engine's choice and the funding gate.                               *)
(***************************************************************************)

\* selectedCandidate: the first that needs no approval, or else the first.
MEI(offer, guarded) ==
  LET free == {i \in DOMAIN offer : offer[i] \notin guarded}
  IN  IF free # {} THEN offer[Min(free)]
      ELSE IF offer # <<>> THEN Head(offer) ELSE NoAction

\* result.action: where the choice needs approval it is REQUIRE_APPROVAL, which
\* is the type of no candidate, so that every later one differs from it.
SelectedAction(offer, guarded) ==
  IF MEI(offer, guarded) \in guarded THEN NoAction ELSE MEI(offer, guarded)

\* Mutant: candidates that need approval are kept in every mode.
EligibleUnfiltered(offer, guarded, mode) == Range(offer)

\* selectExecutableCandidate skips those that need approval, unless the
\* owner is going to be asked.
Eligible(offer, guarded, mode) ==
  {a \in Range(offer) : a \notin guarded \/ mode = "REQUIRE_APPROVAL"}

\* executionDisposition
Disposition(mode, actionable, ready) ==
  IF ~actionable \/ mode = "MONITOR_ONLY" THEN "OBSERVE"
  ELSE IF ~ready THEN "BLOCK"
  ELSE IF mode = "REQUIRE_APPROVAL" THEN "SIMULATE" ELSE "EXECUTE"

-----------------------------------------------------------------------------
(***************************************************************************)
(* The cycle.                                                              *)
(***************************************************************************)

\* loadEnabledProtectedAccounts: the mode is read when the sweep starts.
Load(w) ==
  /\ pc[w] = "idle" /\ Len(runs) < MaxRuns
  /\ work' = [work EXCEPT ![w].mode = Policy.mode]
  /\ Goto(w, "loaded")
  /\ UNCHANGED <<saved, database, told, executed>>

\* The account's turn: a RUNNING row, and what was before it.
OpenRun(w) ==
  /\ pc[w] = "loaded" /\ Len(runs) < MaxRuns
  /\ runs' = Append(runs, [status |-> "RUNNING", snapshot |-> FALSE, decision |-> 0])
  /\ work' = [work EXCEPT ![w].run = Len(runs) + 1, ![w].prev = PreviousState(Len(runs) + 1)]
  /\ Goto(w, "prepare")
  /\ UNCHANGED <<saved, decisions, told, executed>>

\* prepareLiveProtectionAnalysis: policy and position are read afresh.
Analyse(w) ==
  /\ pc[w] = "prepare"
  /\ \/ work' = [work EXCEPT ![w].policy = Version]
     \/ \E risk \in Levels, offer \in Offers :
          work' = [work EXCEPT ![w].policy = Version, ![w].risk = risk, ![w].offer = offer]
  /\ Goto(w, "persist")
  /\ UNCHANGED <<saved, database, told, executed>>

\* persistMonitoringResult: a decision unless the position is safe.
Persist(w) ==
  LET p == saved[work[w].policy]
      d == [risk |-> work[w].risk, action |-> SelectedAction(work[w].offer, p.guarded),
            mode |-> p.mode, blocker |-> "NONE", readiness |-> "NONE"]
  IN  /\ pc[w] = "persist"
      /\ IF Unsafe(work[w].risk)
         THEN /\ decisions' = Append(decisions, d)
              /\ work' = [work EXCEPT ![w].decision = Len(decisions) + 1]
         ELSE UNCHANGED <<decisions, work>>
      /\ Goto(w, "risk")
      /\ UNCHANGED <<saved, runs, told, executed>>

\* Recovery or escalation.
AnnounceRisk(w) ==
  LET prev == work[w].prev
      risk == work[w].risk
  IN  /\ pc[w] = "risk"
      /\ CASE ShouldNotifyRecovery(prev, risk) -> SafeNotify(RecoveryKey(w))
           [] ShouldNotifyRisk(prev, risk)     -> SafeNotify(<<"RISK", risk, work[w].run>>)
           [] OTHER                            -> Silent
      /\ Goto(w, IF Unsafe(risk) THEN "action" ELSE "complete")
      /\ UNCHANGED <<saved, database, executed, work>>

\* MEI_SELECTED: the candidate of the result, whatever the decision calls it.
AnnounceAction(w) ==
  LET mei == MEI(work[w].offer, saved[work[w].policy].guarded)
  IN  /\ pc[w] = "action"
      /\ IF ActionChanged(work[w].prev, mei, work[w].mode)
         THEN SafeNotify(<<"ACTION", mei, work[w].run>>)
         ELSE Silent
      /\ Goto(w, IF work[w].mode = "MONITOR_ONLY" THEN "blocker" ELSE "select")
      /\ UNCHANGED <<saved, database, executed, work>>

\* selectExecutableCandidate walks the eligible candidates until one is
\* READY; a candidate is returned only with a READY readiness.
Select(w) ==
  LET eligible == Eligible(work[w].offer, saved[work[w].policy].guarded, work[w].mode)
      tried(a) == IF a = NoAction /\ eligible = {} THEN "NONE"
                  ELSE IF a = NoAction THEN "NOT_READY" ELSE "READY"
  IN  /\ pc[w] = "select"
      /\ \E a \in eligible \cup {NoAction} :
           LET next == Disposition(work[w].mode, a # NoAction, tried(a) = "READY")
           IN  /\ work' = [work EXCEPT ![w].chosen = a, ![w].readiness = tried(a),
                             ![w].blocker = IF next = "BLOCK" THEN "INSUFFICIENT_FUNDING" ELSE "NONE"]
               /\ Goto(w, CASE next = "SIMULATE" -> "simulate" [] next = "EXECUTE" -> "execute"
                            [] OTHER -> "blocker")
      /\ UNCHANGED <<saved, database, told, executed>>

\* Ask before acting: the simulation passes (it throws when it does not) ...
Simulate(w) ==
  /\ pc[w] = "simulate"
  /\ work' = [work EXCEPT ![w].outcome = "READY_TO_EXECUTE"]
  /\ Goto(w, "ask")
  /\ UNCHANGED <<saved, database, told, executed>>

\* Mutant: once an approval is pending the owner is not asked again, whatever
\* became of it in between.
MustAskUnlessEver(prev, action, mode) ==
  ~ \E n \in notices : n[1] = "APPROVAL"

MustAsk(prev, action, mode) == ~prev.pending \/ ActionChanged(prev, action, mode)

\* ... and the owner is asked, unless an approval of the same is pending.
AskApproval(w) ==
  /\ pc[w] = "ask"
  /\ IF MustAsk(work[w].prev, work[w].chosen, work[w].mode)
     THEN SafeNotify(<<"APPROVAL", work[w].chosen, work[w].decision>>)
     ELSE Silent
  /\ Goto(w, "blocker")
  /\ UNCHANGED <<saved, database, executed, work>>

\* The orchestrator's own reading finds no such intervention, or another one.
ExecutionStale(w) ==
  /\ pc[w] = "execute"
  /\ work' = [work EXCEPT ![w].outcome = "POSITION_CHANGED"]
  /\ Goto(w, "report")
  /\ UNCHANGED <<saved, database, told, executed>>

\* Mutant: the mode of the sweep is good enough.
MayStartOnTarget == TRUE

\* executeAutonomousProtection refuses any other mode.
MayStart == Policy.mode = "AUTONOMOUS"

ExecutionRefused(w) ==
  /\ pc[w] = "execute" /\ ~MayStart
  /\ work' = [work EXCEPT ![w].blocker = "AUTONOMOUS_MODE_NOT_ENABLED"]
  /\ Goto(w, "report")
  /\ UNCHANGED <<saved, database, told, executed>>

\* A read of prepare or revalidate throws, before onCanonicalReady.
PreparationFails(w) ==
  /\ pc[w] = "execute"
  /\ work' = [work EXCEPT ![w].blocker = "EXECUTION_FAILED"]
  /\ Goto(w, "report")
  /\ UNCHANGED <<saved, database, told, executed>>

\* Mutant: onCanonicalReady goes on whether or not the notice is stored.
AnnounceStartSafely(n, w) == SafeNotify(n) /\ Goto(w, "started")

\* onCanonicalReady: this one is notify, whose error ends the attempt.
AnnounceStart(n, w) == \/ Stored(n) /\ Goto(w, "started")
                       \/ NotStored(n) /\ Goto(w, "report")

\* Prepared and revalidated under the present policy.  What it says of
\* approvals is not looked at: candidates that need one pass as well.
ExecutionStarts(w) ==
  LET n == <<"STARTED", work[w].chosen, 0>>
  IN  /\ pc[w] = "execute" /\ MayStart
      /\ AnnounceStart(n, w)
      /\ work' = [work EXCEPT ![w].key = Version,
                    ![w].blocker = IF n \in notices' THEN "NONE" ELSE "EXECUTION_FAILED"]
      /\ UNCHANGED <<saved, database, executed>>

\* It throws before anything is claimed.
SimulationFails(w) ==
  /\ pc[w] = "started"
  /\ work' = [work EXCEPT ![w].blocker = "SIMULATION_FAILED"]
  /\ Goto(w, "report")
  /\ UNCHANGED <<saved, database, told, executed>>

\* The key is claimed by an execution, of this cycle or an earlier one.
ExecutionEnds(w) ==
  LET key == <<work[w].chosen, work[w].key>>
  IN  /\ pc[w] = "started"
      /\ \/ /\ key \in executed
            /\ work' = [work EXCEPT ![w].outcome = "DUPLICATE_PREVENTED"]
         \/ /\ key \notin executed
            /\ \E o \in {"CONFIRMED", "UNCONFIRMED"} : work' = [work EXCEPT ![w].outcome = o]
         \/ /\ key \notin executed
            /\ work' = [work EXCEPT ![w].blocker = "EXECUTION_FAILED"]
      /\ executed' = executed \cup {key}
      /\ Goto(w, "report")
      /\ UNCHANGED <<saved, database, told>>

\* What the owner hears of the execution.
ReportExecution(w) ==
  LET a == work[w].chosen
  IN  /\ pc[w] = "report"
      /\ IF work[w].blocker # "NONE"
         THEN SafeNotify(<<"FAILED", work[w].blocker, work[w].run>>)
         ELSE CASE work[w].outcome = "CONFIRMED" -> SafeNotify(<<"CONFIRMED", a, work[w].key>>)
                [] work[w].outcome = "POSITION_CHANGED" -> SafeNotify(<<"STALE", a, work[w].policy>>)
                [] OTHER -> Silent
      /\ Goto(w, "blocker")
      /\ UNCHANGED <<saved, database, executed, work>>

\* blockerReason, with its default when the engine has nothing to offer.
Reason(w) == IF work[w].blocker = "NONE" /\ work[w].offer = <<>>
             THEN "POLICY_REJECTED" ELSE work[w].blocker

\* The decision takes the reason and the readiness; a new reason is announced.
RecordBlocker(w) ==
  LET d == work[w].decision
  IN  /\ pc[w] = "blocker"
      /\ decisions' = [decisions EXCEPT ![d].blocker = Reason(w), ![d].readiness = work[w].readiness]
      /\ IF Reason(w) # "NONE" /\ ShouldNotifyBlocker(work[w].prev, Reason(w))
         THEN SafeNotify(<<"BLOCKED", Reason(w), work[w].run>>)
         ELSE Silent
      /\ work' = [work EXCEPT ![w].blocker = Reason(w)]
      /\ Goto(w, "complete")
      /\ UNCHANGED <<saved, runs, executed>>

\* result.status of the engine.  An empty offer has become a blocker.
ResultStatus(w) ==
  LET guarded == saved[work[w].policy].guarded
  IN  IF ~Unsafe(work[w].risk) THEN "NO_ACTION"
      ELSE IF MEI(work[w].offer, guarded) \in guarded THEN "REQUIRE_APPROVAL"
      ELSE "READY"

\* The status of the run.
Status(w) ==
  CASE work[w].blocker # "NONE"        -> "PROTECTION_BLOCKED"
    [] work[w].blocker = "NONE" /\ work[w].outcome # "NONE" -> work[w].outcome
    [] OTHER -> IF work[w].mode = "MONITOR_ONLY" THEN "MONITORED" ELSE ResultStatus(w)

Complete(w) ==
  /\ pc[w] = "complete"
  /\ runs' = [runs EXCEPT ![work[w].run] =
                [status |-> Status(w), snapshot |-> TRUE, decision |-> work[w].decision]]
  /\ Leave(w)
  /\ UNCHANGED <<saved, decisions, told, executed>>

\* A read of the chain or the database, a simulation or a write fails
\* outside the try of the execution: the error reaches the outer catch.
Throw(w) ==
  /\ Strikes("throw")
  /\ \/ pc[w] \in {"prepare", "persist", "select", "simulate", "blocker", "complete"}
     \/ (pc[w] = "report" /\ work[w].outcome = "POSITION_CHANGED")  \* the stale audit
  /\ Goto(w, "catch")
  /\ UNCHANGED <<saved, database, notices, lost, executed, work>>

\* Mutant: the decision of the failed cycle is recorded, but no snapshot.
FailWithDecision(w) ==
  /\ pc[w] = "catch"
  /\ runs' = [runs EXCEPT ![work[w].run].status = "FAILED",
                         ![work[w].run].decision = work[w].decision]
  /\ SafeNotify(<<"MONITORING_FAILED", "SAFE", work[w].run>>)
  /\ Leave(w)
  /\ UNCHANGED <<saved, decisions, executed>>

\* The run is FAILED, without its snapshot and its decision.
Fail(w) ==
  /\ pc[w] = "catch"
  /\ runs' = [runs EXCEPT ![work[w].run].status = "FAILED"]
  /\ SafeNotify(<<"MONITORING_FAILED", "SAFE", work[w].run>>)
  /\ Leave(w)
  /\ UNCHANGED <<saved, decisions, executed>>

\* The process dies and is restarted; its run stays RUNNING.
Crash(w) ==
  /\ pc[w] # "idle" /\ Strikes("crash")
  /\ Leave(w)
  /\ UNCHANGED <<saved, database, notices, lost, executed>>

\* The owner saves the policy or switches the mode.
SavePolicy ==
  /\ Version < MaxSaves
  /\ \E p \in Policies \ {Policy} : saved' = Append(saved, p)
  /\ UNCHANGED <<database, told, executed, pc, work>>

Observe(w)  == Load(w) \/ OpenRun(w) \/ Analyse(w) \/ Persist(w) \/ AnnounceRisk(w) \/ AnnounceAction(w)
Intervene(w) == \/ Select(w) \/ Simulate(w) \/ AskApproval(w)
                \/ ExecutionStale(w) \/ ExecutionRefused(w) \/ PreparationFails(w) \/ ExecutionStarts(w)
                \/ SimulationFails(w) \/ ExecutionEnds(w) \/ ReportExecution(w)
Finish(w)   == RecordBlocker(w) \/ Complete(w) \/ Throw(w) \/ Fail(w) \/ Crash(w)

Next == SavePolicy \/ \E w \in Workers : Observe(w) \/ Intervene(w) \/ Finish(w)

Spec == Init /\ [][Next]_vars

-----------------------------------------------------------------------------
(***************************************************************************)
(* Properties.                                                             *)
(***************************************************************************)

Histories == [risk : Levels \cup {"NONE", "SAFE"}, blocker : Blockers,
              action : Actions \cup {NoAction}, mode : Modes \cup {"NONE"},
              episode : Nat, pending : BOOLEAN]
Locals == [run : Nat, mode : Modes \cup {"NONE"}, prev : Histories, risk : Levels \cup {"SAFE"},
           offer : Seq(Actions), policy : Nat, decision : Nat, readiness : Readiness,
           chosen : Actions \cup {NoAction}, key : Nat, outcome : Outcomes \cup {"NONE"},
           blocker : Blockers]

\* Rows and locals have their types, references point at rows, a decision is
\* linked only together with a snapshot, and a cycle that evaluates, or
\* executes, holds the version and the action it needs for it.
TypeOK ==
  /\ saved \in Seq(Policies) /\ saved # <<>>
  /\ runs \in Seq([status : RunStatuses, snapshot : BOOLEAN, decision : Nat])
  /\ decisions \in Seq([risk : Levels, action : Actions \cup {NoAction}, mode : Modes,
                        blocker : Blockers, readiness : Readiness])
  /\ \A i \in DOMAIN runs : /\ runs[i].decision \in 0 .. Len(decisions)
                            /\ runs[i].decision # 0 => runs[i].snapshot
  /\ executed \subseteq Actions \X (1 .. Version)
  /\ pc \in [Workers -> PCs] /\ work \in [Workers -> Locals] /\ faults \in Nat
  /\ \A w \in Workers :
       /\ work[w].decision \in 0 .. Len(decisions)
       /\ pc[w] \notin {"idle", "loaded", "prepare", "catch"} => work[w].policy \in 1 .. Version
       /\ pc[w] \in {"execute", "started"} => work[w].chosen \in Actions
       /\ pc[w] = "started" => work[w].key \in work[w].policy .. Version

Attempted == notices \cup lost

\* The recorded runs from i to r, when all of them are on an unsafe position.
UnsafeSince(i, r) == \A j \in i .. r : runs[j].snapshot => runs[j].decision # 0

Decision(r) == decisions[runs[r].decision]

\* Recorded runs on an unsafe position.
UnsafeRuns == {r \in DOMAIN runs : runs[r].snapshot /\ runs[r].decision # 0}

\* RISK COVERED.  When a cycle is recorded on an unsafe position, a risk at
\* least as high was announced since the last recorded safe one, by this run
\* or an earlier one that may itself have failed or died
\* (shouldNotifyRisk against previousNotificationState).
RiskCovered ==
  \A r \in UnsafeRuns : \E i \in 1 .. r :
    /\ UnsafeSince(i, r)
    /\ \E risk \in Levels : Rank(risk) >= Rank(Decision(r).risk) /\ <<"RISK", risk, i>> \in Attempted

\* The recorded run before r, and the episode a run belongs to: the last
\* recorded safe run before it.
Before(r)    == Max({0} \cup {i \in 1 .. r - 1 : runs[i].snapshot})
EpisodeOf(r) == Max({0} \cup {i \in 1 .. r - 1 : runs[i].snapshot /\ runs[i].decision = 0})

\* ONE RECOVERY PER EPISODE.  Every unsafe episode that a recorded safe run
\* ends has its recovery announced, and a recovery is announced only for an
\* episode that had a recorded unsafe run; the dedupe key carries the
\* episode, so cycles that fail after announcing it do not repeat it.
RecoveryPerEpisode ==
  /\ \A r \in DOMAIN runs :
       (runs[r].snapshot /\ runs[r].decision = 0 /\ Before(r) \in UnsafeRuns)
          => <<"RECOVERY", "SAFE", EpisodeOf(Before(r))>> \in Attempted
  /\ \A n \in Attempted : n[1] = "RECOVERY" => \E p \in UnsafeRuns : EpisodeOf(p) = n[3]

\* BLOCKED AND KNOWN.  While recorded runs are blocked for a reason, the
\* owner was told that reason in this stretch (shouldNotifyBlocker), and the
\* run and its decision agree on being blocked.
BlockedKnown ==
  \A r \in UnsafeRuns :
    /\ runs[r].status = "PROTECTION_BLOCKED" <=> Decision(r).blocker # "NONE"
    /\ Decision(r).blocker # "NONE" =>
         \E i \in 1 .. r :
           /\ <<"BLOCKED", Decision(r).blocker, i>> \in Attempted
           /\ \A j \in i .. r : runs[j].snapshot =>
                j \in UnsafeRuns /\ Decision(j).blocker = Decision(r).blocker

\* APPROVAL ASKED.  A run recorded as waiting for approval belongs to a
\* stretch of such runs in which the owner was asked (approvalPending).
ApprovalAsked ==
  \A r \in UnsafeRuns : runs[r].status = "READY_TO_EXECUTE" =>
    \E i \in 1 .. r :
      /\ \A j \in i .. r : runs[j].snapshot => runs[j].status = "READY_TO_EXECUTE"
      /\ \E n \in Attempted : n[1] = "APPROVAL" /\ n[3] <= runs[r].decision
                              /\ \A j \in UnsafeRuns : j < i => n[3] > runs[j].decision

\* AUTHORIZED.  Capital is committed only under a version saved as
\* AUTONOMOUS, though the cycle acts on a mode read long before, and only for
\* an action that needed no approval in some version up to that one.
ExecutionAuthorized ==
  \A k \in executed : /\ saved[k[2]].mode = "AUTONOMOUS"
                      /\ \E v \in 1 .. k[2] : k[1] \notin saved[v].guarded

\* OWNER TOLD FIRST.  No capital is committed for an effect whose start is
\* not in the notification table (onCanonicalReady awaits notify).
OwnerToldFirst == \A k \in executed : <<"STARTED", k[1], 0>> \in notices

\* APPROVAL RESPECTED, as the policy describes it: no action above the
\* approval threshold of the version it is executed under is executed
\* without asking.  The orchestrator does not look.
ApprovalRespected == \A k \in executed : k[1] \notin saved[k[2]].guarded

\* READINESS BLOCKS, as the documentation describes it: a run that no ready
\* candidate let proceed is recorded as blocked.  selectExecutableCandidate
\* returns no candidate then, which executionDisposition takes for OBSERVE.
ReadinessBlocks ==
  \A r \in UnsafeRuns : Decision(r).readiness = "NOT_READY" => runs[r].status = "PROTECTION_BLOCKED"
=============================================================================
