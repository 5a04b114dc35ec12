# PositionGuard in TLA+

PositionGuard watches Aave lending positions, computes the smallest repayment or
collateral supply that restores a target health factor, and, where the owner allows
it, has KeeperHub execute that intervention and verifies the result on the chain.
This directory holds its specification: TLA+ modules, TLC configurations, and
theorems checked by TLAPS. Paths below are relative to the repository; the manifest
of definitions, runs, mutants, findings and hazards is `PROJECT.json`.

## 1. The system

| Component | State it keeps | Operations | What makes it correct |
| --- | --- | --- | --- |
| Execution lifecycle (`src/lib/execution/`) | `Execution` rows (status, key, KeeperHub id, receipt flag), audits, snapshots | prepare, revalidate, simulate, reserve, claim, broadcast, poll, verify, persist | one owner per claimed row, one broadcast per key, claim before broadcast, CONFIRMED only with the effect, every claim settles |
| KeeperHub client (`src/lib/keeperhub/`) | none | simulate, broadcast, status, receipt requirements | its reports are not trusted; timeouts are ambiguous |
| Policy and limits (`src/lib/policies/`, `api/policy`) | `ProtectionPolicy` (version = `updatedAt`) | save, change mode, load, derive the spend and cooldown context | mode and version at the time of use; single cap, daily cap, cooldown |
| Protection engine (`src/lib/protection/`) | none | risk, candidates, ranking, minimum amount | the amount is minimal, reaches the target and is within the limits |
| Monitoring cycle (`src/lib/monitoring/`) | `MonitoringRun`, snapshots, decisions | per account: prepare, persist, notify, select, simulate or execute, record | what is recorded was announced, whatever earlier cycles died of; a recovery is announced once per episode; no execution outside AUTONOMOUS |
| Notification rules and delivery (`src/lib/notifications/`) | `Notification` rows with webhook status | notify (dedupe, create, deliver, update), classification of changes | one row and at most one push per dedupe key, DELIVERED only of what arrived |
| Notification page (`notification-center.tsx`, `presentation.ts`, `api/notifications`) | what it shows, requests in flight, filter, view | load, poll, mark one or all, fold, filter, page | shows what the table holds in the end; folding hides nothing and only repeats |
| Funding readiness (`src/lib/funding/`) | none | assess sender, balance, allowance; select a candidate | only a ready candidate is executed |
| Wallet sessions (`src/lib/security/`, `api/auth`) | challenges, sessions, in-process attempt counts | challenge, verify, session, rate limit | one session per challenge, of the wallet that signed it and in time; the limiter lets at most twice its limit through |
| Worker process (`scripts/monitor-worker.ts`, `product/status.ts`) | heartbeat row and file | sweep, wait, heartbeat, stop | no sweep after stop; "healthy" only if a process was there |
| Aave reading (`src/lib/aave/`) | snapshots | coherent reads at a block, normalisation | a position is of one block |
| Tab (`app-shell.tsx`, `wallet-onboarding.tsx`) | session of the render, override, poll | sign in, reconcile, poll, disconnect | names the account of the cookie, notices the end of a session |
| Policy form (`policy-form.tsx`, `api/policy`, cached product data) | draft, confirmation, saves in flight, cache | edit, confirm, save, refresh | AUTONOMOUS only with consent |
| Product read models (`src/lib/product/`) | cache | load policy, snapshot, decision | advice is about the position beside it |
| Explanation, formatting, layout | none | projections | cannot change a decision |

Interactions. The worker sweeps the enabled accounts one by one; for an AUTONOMOUS
account it calls `executeAutonomousProtection`, which is `executeProtectionCore` with
a flag. Operators reach the same core through `POST /api/protection/execute`. Both
share only the database: rows are found by an idempotency key and claimed by a
conditional update. Owners save policies meanwhile. KeeperHub and an RPC node are
remote and slow; every call has a timeout (20 s) and may have had its effect. Pages only
read what worker, routes and owners have written, each query for itself, and the shell
holds on to what it was told last. The cycle hands its notices to `notify`, which
writes rows the notification page polls for.

What is hard here: overlapping attempts with awaits between every check and its use,
requests whose outcome is unknown, processes that die with a row half way, limits
derived from rows other attempts are just writing, and statuses written without a
condition. The hazards, each with its line, are in `PROJECT.json`.

## 2. Modules

`Intervention.tla` is the promise: an intervention, named by its idempotency key, moves
ABSENT → NOT_STARTED → SUBMITTED → {CONFIRMED, FAILED, UNCONFIRMED}; its effect happens
at most once, after the claim, and CONFIRMED requires it. It does *not* promise that
FAILED or UNCONFIRMED interventions have no effect, because the program does not. One
step goes back: `Retract` makes FAILED of a CONFIRMED row, and only of one whose commit was
not acknowledged. `doubted`, a history variable of both modules, remembers those.

`Execution.tla` is the lifecycle. A client (a worker, an operator request) is a program
counter with the two locals that matter, the intent and the policy version prepared
with; a step ends where the code awaits something another actor can change.

| Steps | Code |
| --- | --- |
| `LoadPolicy`, `Evaluate` | `prepareCanonicalProtection` and the mode check, `orchestrator.ts:125-131` |
| `ReloadPolicy`, `RecheckPosition`, `PersistStale` | `revalidate.ts`, `orchestrator.ts:134-178` |
| `Simulate`, `Abandon` | sender, balance, allowance, simulation, authorization, `orchestrator.ts:181-273` |
| `LookupRow`, `CreateRow`, `ClaimRow` | `reserveCanonicalExecution`, `claimExecution` |
| `SendBroadcast`, `BroadcastAnswered`, `BroadcastFails`, `RecordBroadcast`, `RecordUnknown` | `orchestrator.ts:305-322`, `direct-client.ts` |
| `PollTerminal`, `PollGivesUp`, `StatusThrows` | `orchestrator.ts:323-353` |
| `VerifyEffect`, `VerifyFails`, `PersistConfirmed`, `RecordFailed` | `orchestrator.ts:354-400`, `verification.ts` |
| `WriteThrows`, `Crash` | failing writes after the claim; death of the process |
| `CommitUntold` | writes from the claim on that commit and throw all the same |
| `SavePolicy`, `MovePosition`, `KeeperHubAccepts`, `EffectLands` | owner, market, KeeperHub, chain |

The database variables are columns of `Execution`; `sent`, `accepted` and `landed` count,
per key, requests sent, requests KeeperHub took on, and effects on the chain. `needed` is
what the engine would offer on the live position and changes at will. The status a
client overwrites, the catch blocks and their rethrows are as in the code: nothing in
the model makes a row private to its client except the claim. One assumption about the
outside: a hash in KeeperHub's receipt is not that of another execution with the same
effect.

`SpendLimits.tla` is the policy limits over time. It keeps the steps of an attempt that
read or write what limits depend on (two reads of position and context, reservation,
claim, settlement, death before and after the claim) and adds a clock. `Seen`, `Spend`,
`Rested` and `WithinLimits` are `loadExecutionPolicyContext` and the three checks of
`evaluatePortfolio`. `owner` is a history variable.

`Monitoring.tla` is the cycle of one protected account. A worker is a program counter
and the locals of `runProtectedAccountCycle`; the database is the policy's versions, the
`MonitoringRun` and `ProtectionDecision` rows, the dedupe keys in `Notification`, and the
idempotency keys with a claimed execution. `lost` and `faults` are history and bound.

| Steps | Code |
| --- | --- |
| `Load`, `OpenRun` | `loadEnabledProtectedAccounts`; the RUNNING row and `previousNotificationState`, `service.ts:221-326` |
| `Analyse`, `Persist` | `prepareLiveProtectionAnalysis`, `persistMonitoringResult` |
| `AnnounceRisk`, `AnnounceAction` | recovery, escalation, MEI_SELECTED, `service.ts:348-400`, `transitions.ts` |
| `Select` | `selectExecutableCandidate`, `executionDisposition` |
| `Simulate`, `AskApproval` | the REQUIRE_APPROVAL road, `service.ts:429-458` |
| `ExecutionStale`, `ExecutionRefused`, `PreparationFails`, `ExecutionStarts`, `SimulationFails`, `ExecutionEnds`, `ReportExecution` | `executeAutonomousProtection` as its caller sees it, `onCanonicalReady`, the reports and the inner catch |
| `RecordBlocker`, `Complete` | blocker, decision, status of the run, `service.ts:654-722` |
| `Throw`, `Fail`, `Crash` | the outer catch; death of the process |
| `SavePolicy` | the owner |

The position is reduced to what a cycle distinguishes: a risk level and the valid
candidates by rank, chosen anew for every cycle. Two recommendations are one `Action`
when `classifyActionNotificationChange` would call them unchanged; since that relation is
not transitive, slow drift is outside the model. A decision is persisted with the action of the
result, which is REQUIRE_APPROVAL where the choice needs approval (`SelectedAction`); no later
recommendation equals it. Execution outcomes are those of
`Execution.tla`, collapsed into `ExecutionEnds`. A policy is its mode and the set of
actions that need approval; it stays enabled. A notice is its dedupe key.

`ProtectionEngine.tla` is one evaluation of one account: the normaliser and the price
shock, the loop over reserves and intervention types with the bisection of
`minimumPortfolioAmount` as steps (`RaiseLow`, `LowerHigh`, `Found`), then candidates,
limits, ranking and choice as operators, and the older `evaluateProtection` over USD
totals. The scales (`WAD`, `SCALE`, basis points) are constants. That `WAD` is not 10^18 in
the run only makes roundings coarser; the theorems hold for every scale.

`Announcement.tla` is the promise about a notice: recorded once, pushed at most once, its
fate said once, DELIVERED only if the receiver has it; only a DELIVERED whose acknowledgement
was lost (`doubted`, a history variable) may be taken back for FAILED. It does not promise that what is
PENDING is ever pushed, nor that what FAILED did not arrive, because the program does
not. `Delivery.tla` is `notify` call by call for any number of callers (`Find`, `Create`,
`Push`, `PushAnswered`, `PushFails`, `WriteDelivered`, `DeliveredUntold`, `WriteFailed`), with throwing database
calls, deaths, and a receiver that is later than the eight seconds.
`NotificationCenter.tla` extends it with the page over the table: opening, polling,
visibility, loads that are dropped because one is in flight, PATCH of one or all.
`NotificationList.tla` is what that page makes of the rows: filter, folding of
recalculations into groups, grouping of executions, "Load 25 more".

`WalletAuth.tla` is the server side of a sign-in. A verify request is limited, looks its
challenge up, checks the signature and runs its transaction, each at a moment of its
own; the limiter is a variable that a restart clears. `Browser.tla` is one tab: the sign-in
in onboarding, and the shell with its three sources of a session (first render, event,
`GET /api/auth/session`) and the poll that ends it.

`WorkerProcess.tla` is the worker as a process. Beats are messages that carry the time at
which they were sent; they may be late, fail, or outlive their sender, and the latch
that keeps one at a time opens early when the heartbeat file fails. `Health`, `Label` and
`Indicator` are `product/status.ts`.

`PolicyForm.tla` is the settings form, `PUT /api/policy`, `PATCH /api/policy/execution-mode`
and the cached product data the form is filled from. `agreed` is a history variable: what
the owner agreed to, in the form, in each request and in the row.

`ProductPages.tla` is what dashboard, protection page and shell conclude from policy,
snapshot and decision, read one by one while any number of writers are at work: a cycle
(`FetchPosition`, `Capture`, `DraftDecision`, `Decide`, `Block`), a request that has the position
read and decides nothing (`RefreshPosition`: the Refresh position button, onboarding, POST
`/api/positions/aave`), and an execution of a worker or an operator (`DraftReservation`,
`Reserve`, `Resume`, `ReadPost`, `ConfirmExecution`). A row carries the time of its reading
or its creation, is committed later, and the newest row is the one with the last time
(`Newer`, `Later`). `AaveReading.tla` is
`getAavePosition` against a chain that grows and is reorganised between its calls.

| Steps | Code |
| --- | --- |
| `Present`, `Lookup`, `CheckSignature`, `Consume` | `api/auth/verify/route.ts`, `wallet-auth.ts` |
| `TimerBeats`, `BeatLands`, `FileFails`, `EnterLoop`, `SweepEnds`, `Stop`, `Exit` | `monitor-worker.ts`, `monitoring/worker.ts`, `heartbeat.ts` |
| `InitialLoad`, `PollTick`, `ServeTable`, `LoadArrives`, `StartMark`, `ServeMark`, `MarkReturns` | `notification-center.tsx`, `api/notifications/route.ts` |
| `ChooseMode`, `Confirm`, `Save`, `PutCommits`, `SaveAnswered`, `Refresh`, `BeginFill`, `EndFill` | `policy-form.tsx`, `api/policy/route.ts`, `product/data.ts` |
| `Ask`, `VerifyNetwork`, `ReadBeside`, `TakeReserve`, `ReadReserve`, `LookAgain` | `aave/service.ts`, `client.ts`, `reserves.ts` |

Composition. `NotificationCenter` works on the rows of `Delivery`, which implements
`Announcement`; `Execution` implements `Intervention`. `Services.tla` puts the eight service
models side by side: they share no variable, so a run chooses one of them in its initial
state and lets the others stand, which checks the same as all interleavings would.

The `...Proofs.tla` modules hold the theorems, the `MC...` modules the model values for TLC.
`FiniteProofs.tla` is the library of the proof modules: least and greatest elements, and sums
over finite sets. Two things in the models are there because the proofs need them and change
nothing else. Sorting is `InOrder`, which gives every place its element by counting those
before it, where a recursive sort would be out of reach of the prover. And a choice the code
makes by the order of its tests is an IF with an ELSE: of a CASE whose arms overlap TLA+ does
not say which is taken, although TLC takes the first.
Operators commented "Mutant" are deliberately wrong variants of the definition below
them, used to see that a property notices; nothing refers to them.

## 3. Runs

| Run | Expect | Shows |
| --- | --- | --- |
| `exec_safety` (`MCExecution.cfg`) | pass | six invariants and the refinement of Intervention, with crashes, failing status calls, failing writes and lost acknowledgements |
| `exec_liveness` (`MCExecutionLive.cfg`) | pass | `ClaimSettles` when nothing fails but the broadcast |
| `exec_status_throws` | violation | one thrown `status()` leaves the row SUBMITTED for good |
| `exec_revalidation_order` | violation | what is reserved need not be canonical any more |
| `limits_safety` (`MCSpendLimits.cfg`) | pass | `OwnCooldownKept`, `BurstBounded` with two overlapping executors |
| `limits_daily_cap` | violation | the daily limit refuses nothing |
| `limits_cooldown_overlap` | violation | overlapping executors break the cooldown |
| `cycle_safety` (`MCMonitoring.cfg`) | pass | what the owner was told and what capital was committed under, across failing and dying cycles |
| `cycle_approval_threshold` | violation | an action above the threshold in force is executed without approval |
| `cycle_readiness_gate` | violation | a run without a funded candidate is not recorded as blocked |
| `engine_search` (`MCProtectionEngine.cfg`) | pass | the minimum is the minimum, the choice the cheapest, for every small position and policy |
| `services` (`MCServices.cfg`, `Services.tla`) | pass | sessions, notices, worker, tab, form, pages and position reading |

Properties of Execution, and what they would catch:

- `SoleOwner`: between claim and end of the attempt a row is SUBMITTED (or CONFIRMED by
  its own client, which was not told) and has one client. The unconditional updates in `persist.ts` are right because of this alone.
- `BroadcastAtMostOnce`: one request per key, whatever KeeperHub does with the header.
- `DurableBeforeBroadcast`: what was sent is claimed in the database at every moment,
  so also in the state a restarted process finds.
- `ConfirmedHasEffect`: CONFIRMED and `receiptVerified` go together and mean exactly one
  effect on the chain and a stored KeeperHub id; they part only where a confirmation that
  was not acknowledged is overwritten with FAILED.
- `AutonomousOnly`: past the claim, a worker acts for a version that was saved as
  enabled and AUTONOMOUS.
- `ImplementsIntervention`: all of the above as one behaviour, step by step.
- `ClaimSettles`: SUBMITTED leads to a settled status.
- `ReservesOnlyCanonical`: the documented order, checked at the reservation.

Of SpendLimits: `OwnCooldownKept` (no executor claims within a cooldown of its own
counted rows, however slow it is and wherever it dies), `BurstBounded` (within a
cooldown, at most one single cap per executor), `CooldownKept` and `DailyCapKept` (what
the documentation says).

Of Monitoring. The cycle decides what is new by looking at the last run completed with a
snapshot, so what failed runs have said is said by somebody nobody remembers; the first
four properties are about that.

- `RiskCovered`: every recorded unsafe run lies in an unsafe stretch in which a risk at
  least as high was announced, by that run or an earlier one, perhaps a dead one.
- `RecoveryPerEpisode`: a recorded return to safety was announced under the key of the
  episode that ended, and no recovery was announced for an episode without a recorded
  unsafe run. One key per episode, so cycles that repeat the announcement add nothing.
- `BlockedKnown`: run and decision agree on being blocked, and the reason was announced
  within the stretch of runs blocked for it.
- `ApprovalAsked`: a run waiting for approval is in a stretch in which it was asked.
- `ExecutionAuthorized`: capital only under a version saved as AUTONOMOUS, though the mode
  of the cycle is that of the sweep, and for an action some version let pass.
- `OwnerToldFirst`: the start of what is executed is in the table.
- `ApprovalRespected`, `ReadinessBlocks`: what the documentation says.

Announced means attempted: a notice whose row could not be written counts, because
`safeNotify` drops it and the next cycle takes it for said. `OwnerToldFirst` is stronger,
its notice is stored.

Of ProtectionEngine.

- `MinimumExact`: what the bisection returns reaches the target and nothing smaller does;
  where it returns null nothing within its bound does. The outcome is a quotient of two
  rounded values, so this is monotonicity, and not a matter of course.
- `SupplySuffices`: the bound a supply is searched up to always reaches the target.
- `ChoiceIsCheapest`, `UsdChoiceIsCheapest`: of *all* amounts the policy lets pass, and not
  only of those tried, the chosen one costs least and asks for approval only if all do.
- `StressCommutes`: shocking a position gives the position of the shocked market, where
  every supply is collateral and no debt is stable (elsewhere it does not: the shock
  weighs supplies that are no collateral).
- `PartsFitTotals`: parts and total never contradict each other, so that the throw
  "Inconsistent debt contributions" is not reached.
- `SearchEnds`: every search comes to an end.

Of the services.

- `OneSessionPerChallenge`, `SessionsAreEarned`: what the conditional update in the
  transaction is for, with overlapping requests, slow ones and restarts.
- `PassesBounded`: in no stretch as long as a window do more than twice the limit pass.
- `ImplementsAnnouncement`: one record and one push however many announce, DELIVERED only
  of what arrived, and what is said of a push stays said unless its DELIVERED was not heard.
- `CenterCatchesUp`: a page that is looked at shows what the table holds, in the end.
- `FoldingIsHonest`: every row is in one item, and a group holds repetitions of one row.
- `StatusTruthful`: healthy is said only if a process was there within the threshold.
- `StopHonoured`: after the signal no sweep begins but the first.
- `ShellNamesCookie`: the shell names the account whose cookie is sent, except in two cases
  the property names (an answer cut off, an answer overtaken by a later sign-in).
- `EndedSessionIsSeen`: a session that ended disappears from the shell.
- `AutonomyConsented`: an AUTONOMOUS row was agreed to by whoever wrote it.
- `AdviceIsTimely`: a request to act is never about a position older than the one the last
  execution was confirmed with before the page was asked for; and it pairs a position with a
  decision that were the newest together while the page loaded. The exception is what
  the program does: a decision that was late, its position refreshed or read by an execution
  before it was written, is shown beside its own position to a page that read that
  position in time.
- `PositionIsOfOneBlock`: all that a position carries was read on one branch.

Bounds. Execution: two clients of different kinds, one effect, two policy versions;
keys never interact except through the policy and the position, so one effect and two
versions give two keys and every race on one of them; liveness uses three clients.
SpendLimits: two executors, four interventions (one above the single cap), a window
and a cooldown of two ticks and four instants, enough for a row to leave the window,
for three attempts in a row and for a burst that reaches its bound. A clock of coarse
ticks is enough because only comparisons of times matter. The rest is symmetric
(`Symmetry` in `MCSpendLimits.tla`; safety only).
Monitoring: one worker (one worker process is deployed, and it runs the accounts one by
one; two would each compare with a run the other replaces), three runs, two policy
versions of any two modes, two risk levels, two candidates of which the better may need
approval, and one fault of any kind at any step. Three runs are a run that
records, one that fails after announcing and one that has to make sense of both; a
second fault, tried with one risk level and a policy that does not change, breaks nothing. Runs are bounded, so the
worker stops: no deadlock check.
ProtectionEngine: two reserves, one in every ordinary state and one in every state that
makes it unusable or awkward (frozen, isolated, capped, stable debt, no threshold, a
price that rounds to zero), six policies, three shocks; prices and units do not divide
each other, so that every rounding bites. It is one evaluation, so it stops.
Services: two requests for one challenge and a clock that passes its end; two callers of
`notify`, one notice and one fault; two worker processes of which one runs `--once`, ages up
to one past the offline threshold, one lost beat or death; one account with two sessions;
two policy requests in flight, two modes; two writers of positions and decisions and three
times for their rows; three reserves read by two
workers over three blocks; four rows out of seven kinds under three filters, with pages
of two. Each is the least at which its hazard happens: two requests are a race, two
saves an inversion, two sessions an overtaken answer, the third block drops the second.
Of the pages, two writers and three times give a decision that is late (read, refreshed,
decided), rows committed in another order than their times, and an execution confirmed while
a page holds the advice it followed (read, decided, read again). That advice appears again
after a confirmed execution takes five times; the theorem is for any number of both.
Clock, rows, blocks and sessions are bounded, so that run does not check for deadlock.

Fairness. `FairSpec` asks weak fairness of `Settle(c)`: an async function that was not
interrupted runs on, its awaits have timeouts and the poll loop a deadline. Nothing is
asked of a client before its claim, of KeeperHub, the chain, the owner or the clock.
Under `Crash`, `StatusThrows`, `WriteThrows` and `CommitUntold` the property is false, and the program
has no reconciler that would make it true.
`CenterFairness`: the interval fires, a request is answered or fails, a settled promise runs
its continuation; failures are bounded by `FaultBudget`. `BrowserFairness`: the same, and a
poll that is sent again and again is not lost every time (the only strong fairness);
nothing is asked of the owner. `WorkerFairness` is stated for the timer and the loop; the
worker's two properties are safety and do not use it.

## 4. Where the code and its documentation part

1. `orchestrator.ts:326`: `status()` outside any `try`. Run `exec_status_throws`.
2. `orchestrator.ts:136`: revalidation before the simulation, documented after it
   (a unit test asserts the code's order). Run `exec_revalidation_order`.
3. `prepare.ts:49`: candidate stored under its symbol, execution under its address, so
   the rolling spend is always zero. Run `limits_daily_cap`. What bounds a day's spend
   in fact is the cooldown, the single cap and the daily cap on a single intervention.
4. `prepare.ts:74`: cooldown judged before the reservation and never again. Run
   `limits_cooldown_overlap`.
5. `prepare.ts:87`: the approval threshold of the policy in force at the execution is not
   looked at. Run `cycle_approval_threshold`. The executed action did need no approval in
   an earlier version (`ExecutionAuthorized`).
6. `service.ts:411`: the readiness gate records OBSERVE and not a blocker; the branch with
   `blockerFor` is never reached. Run `cycle_readiness_gate`.

Seen while modelling, without a run: on the pages, a first load of the notification page
that is dropped because a poll is in flight leaves the spinner for good; "Mark all" marks
rows that were written after the list was loaded; a page that was being loaded when the
policy changed is cached for fifteen seconds and fills the form; a database failure puts
the defaults there; a save that is late may re-enable a mode the owner has left; a DELETE
that fails is shown as a disconnect. A refresh between a cycle's
snapshot and its decision leaves a decision that no page finds current, and a page
that read the earlier snapshot shows the two though a newer position is there; Refresh position makes a
request to act disappear until the next cycle decides. In the engine, a price that a shock rounds to zero
makes the analysis throw. Elsewhere, a cooldown longer than 24 hours is cut to the
window; a NOT_STARTED row left by a crash keeps its old `createdAt` when it is claimed;
a recommendation that needs approval is announced in every cycle, because the decision is stored
with REQUIRE_APPROVAL for its action and compared by it (`service.ts:73`,
`portfolio-engine.ts:145`); a notice whose DELIVERED was committed but not acknowledged ends as
FAILED; a commit of `persistConfirmed` whose acknowledgement is lost is overwritten with FAILED
while `receiptVerified` stays true (`CommitUntold`, then `RecordFailed`); a cycle that fails at the same place every time announces the same risk every
time; UNCONFIRMED executions are announced by nothing.

## 5. Theorems

All are proved by TLAPS for every value of the constants under the assumptions named in
the modules: workers and operators disjoint, model values that stand for "nothing" distinct
from what they stand beside, natural bounds, finitely many executors and assets, valid
policies, a positive and injective order of ids. Every safety property and action property of
a passing run is the conclusion of one of them.

Execution (`ExecutionProofs.tla`). `TypeOK` is inductive. The other invariants are not;
`LifecycleInv` strengthens them with two facts. `RequestsInv` bounds requests per key:
`landed <= accepted <= sent <= 1`, and nothing is sent for an unclaimed row. `OwnerInv`
says where the owner of a claimed row stands: nothing has been sent while it is about
to broadcast, the effect is there once it is about to confirm, and the id is stored
once it polls. With `SoleOwner` they carry each other: the claim needs NOT_STARTED, so
a new owner finds no other; because a row has one owner, its status is still SUBMITTED
when the owner settles it; because the owner sends once, there is at most one effect.
`LifecycleQuiet` disposes of steps that touch none of this. From the invariant follow
`OneOwner`, `AtMostOneBroadcast`, `ClaimIsDurable`, `ConfirmedIsReal`. `AutonomyRespected`
uses `PolicyInv`: versions are immutable once saved. `Refinement` maps every step to a
step of Intervention or a stutter, with the identity as mapping; `RecordFailed` is `GiveUp`,
or `Retract` after a lost acknowledgement.

SpendLimits (`SpendLimitsProofs.tla`). `OwnCooldown` needs `Cooldown <= Window` and rests on
`CooldownInv`: context times are not in the future, only the owner of a row settles it,
and between its last check and its claim an executor's rows stay a cooldown old.
`LoneExecutorCooldown`: with one executor the documented cooldown holds, so overlap is
the only thing that breaks it. `BurstIsBounded`, under the same condition: what is within one
cooldown was claimed by executors of which each has one row in it (`OneRecent`, from
`OwnCooldown`), and each row is within the single cap (`Capped`), so the sum over the rows is
at most the cap times the number of executors.

Monitoring (`MonitoringProofs.tla`). `TypeOK` is inductive as it stands; `TypeStep` and
`TypeLocalStep` reduce each action to the label and the locals of the one worker that
moves. `ExecutionIsAuthorized` and `OwnerIsToldFirst` rest on `AuthInv`: a worker at
`execute` holds an action that its own version left free (`Select` allows guarded ones
only on the way to a simulation), and one at `started` a version that is AUTONOMOUS and a
stored notice; versions are only added and notices only grow, so nothing takes that
away. They hold for any number of workers. The four properties on announcements
(`RiskIsCovered`, `RecoveryIsPerEpisode`, `BlockedIsKnown`, `ApprovalIsAsked`) hold for one,
which the theorems say (`LoneWorker`): with two, TLC finds a counterexample to each of them,
and the hazard at `service.ts:765` is that. Their invariant `ToldInv` has two halves.
`RecordedTold` is the property itself, of the recorded runs. `CycleHeld` is what the cycle under
way knows: the run it compares with is still the last one recorded (here one worker is
needed), and from the step at which something is announced on, the stretch that its own run
will belong to contains the announcement, whoever made it. Completing a run turns the second
into the first; a cycle that fails or dies leaves the first as it was, and its announcements
in the table, where the next cycle's stretch finds them.

ProtectionEngine (`ProtectionEngineProofs.tla`). `SearchInv` says that the upper end of the
bracket reaches the target and nothing at or below the lower end does. It needs
that both quotients of the outcome are monotone in the amount, which rests on lemmas on
`\div` proved from its defining inequality. `SupplyAlwaysSuffices` follows the two
roundings of the bound through both. `ChoiceCostsLeast`: an amount the policy lets pass is at
least the minimum of its asset and type, the minimum then passes as well and costs no more,
and the ranking ends on the cheapest of the minima; `UsdChoiceCostsLeast` shows the closed form
of the older engine to be such a minimum. `PartsNeverExceed` and `StressIsFaithful` are about
sums over the assets: a part that shrinks takes as much from the total, and a position whose
every summand is the shocked one has the shocked totals.

Sums (`FiniteProofs.tla`). A sum is a fold defined by recursion over subsets, and induction
over data is out of reach. What is proved goes around it: finite sets of subsets have a
least counterexample, by the well-foundedness of the naturals under their cardinalities. That
the recursive function exists at all, which TLA+ does not grant, is shown the same way, by
extending partial functions one subset at a time; from there on `SumSplit` gives the
equation, and monotonicity, congruence, parts and bounds follow.

Notifications (`NotificationProofs.tla`). `DeliveryInv`: a caller past the creation of the row is
the only one, the row says PENDING until it is done, and it pushes from a step it passes once.
Every step then is one of Announcement or none (`AnnouncementImplemented`; with pages that
read and mark the same rows, `AnnouncementKeptByPages`). `PageShowsThePast`: what a page shows,
and what an answer carries to it, is of rows as they were (`OfThePast`), because a
notice only moves from nothing to PENDING or SKIPPED, from PENDING to DELIVERED or FAILED, from
a DELIVERED that was not heard to FAILED, and from unread to read. `FoldingHidesNothing`: what the list shows is a function of its rows, so the
argument is that of a loop. `FoldInv` says that the items so far partition the rows so far,
that every group repeats a row displayed for itself, and that the state of the loop knows the
row last shown and its group. The fold over the rows is unrolled from its recursive
function as sums are; `InOrder` is shown to be a bijection in ascending order by counting; the
sort and the grouping of executions keep the partition. Only the type of the list is used: it
holds for any rows, in particular for rows the server would not write.

Sessions, tab and form (`AccessProofs.tla`). `AuthInv`: a session marks its challenge as
consumed, and a request past a check still has what the check saw: the wallet and the
signature, which do not change, but not freshness, which the transaction asks again.
`LimiterIsBounded`: the limiter counts in windows that start with the first request after the
last one; a stretch as long as a window meets the present window and the one before at
most (`Windowed`), and each has at most the limit. `Stretches` keeps what was found of
stretches that are over. `ShellNamesItsCookie` is inductive once the values of tab and sign-in are
known (`BrowserInv`): the cookie moves only in steps that tell the shell, or that the
history variable notes as untold. `FormInv` follows the agreement along its way: a ticked box
belongs to AUTONOMOUS, a request carries the agreement of the form it was made of. It
holds for any number of requests, served in any order.

Position, heartbeat and pages (`ServicesProofs.tla`). A reading: while the block at the
height asked for has the hash asked for, everything seen is of that block; new blocks have
new hashes, so a hash that was dropped does not return. A heartbeat: no beat, on its way
or in the row, is younger than the last moment at which a process was there. A page
(`AdviceWasTimely`): the newest snapshot only gets newer and is never older than what an
execution was confirmed with, and the newest decision is about a snapshot that is there
(`RowsAgree`, which also follows what each writer has in hand). So for what a page has read
(`Timely`): a newest decision about its snapshot was the newest together with it or was late, and
a decision it read is about an older snapshot than the newest, was the newest together with its
own, or was late (`ReadsAgree`), in whichever order the two are read. All for any number of
blocks, reserves, processes, faults, writers and times.

Composition (`ServicesProofs.tla`). `EachServiceRuns`: a behaviour of `Services` is one of every
service, fairness included; so every theorem on a service is one on what the run `services`
checks, and `ServicesTypes` puts the types together.

Only model-checked: the liveness properties (`ClaimSettles`, `CenterCatchesUp`,
`EndedSessionIsSeen`, `SearchEnds`), for which the prover has no fairness, and the violations,
which are counterexamples.

## 6. Not modelled

- Simulate mode of the core and the development pages: they change nothing.
- `funding.ts`, `allowance.ts` and the rest of `readiness.ts`: reads that decide whether a
  candidate is READY; any outcome is allowed.
- Decoding of logs and contract answers, the contracts `verifyNetwork` compares, chain and
  database configuration, the encoding of intents.
- The validation of policy values (`validator.ts`): a policy is valid or refused, and the
  engine is run on valid ones.
- Rejection reasons, explanations, formatting, logging, audit texts, layout.
- The history pages (activity, latest verified protection): projections of settled rows.
- Clocks that differ between the processes that write rows, and two rows of one millisecond:
  which of two such rows is the newest is left to them.
- Several tabs of one browser; an RPC endpoint that answers from nodes on different
  branches; several accounts in one sweep (they share nothing).

## 7. What is left

1. Monitoring: a module that composes the cycle with Execution, whose client it is, with the
   theorem that `ExecutionEnds` is what an attempt of a worker comes to.
2. Monitoring with two workers: what of the announcements remains true then.
3. Several tabs over one cookie; several nodes behind one RPC endpoint.
