---------------------------- MODULE SpendLimits -----------------------------
(***************************************************************************)
(* The capital limits of a policy over time: the single-intervention cap,  *)
(* the rolling 24-hour cap and the cooldown, as execution/prepare.ts       *)
(* derives their context from the Execution table and                      *)
(* protection/portfolio-engine.ts applies them, against executors that     *)
(* prepare, revalidate, reserve and claim at their own pace.               *)
(*                                                                         *)
(* Execution.tla has the lifecycle with every await; here it is cut down   *)
(* to the steps that read or write what the limits depend on, and gets a   *)
(* clock.  One account, one chain, one policy version.                     *)
(*                                                                         *)
(* Abstractions.  The clock is coarse (think of hours) and one for all:    *)
(* server and database agree.  A key fixes the amount, and its USD         *)
(* estimate does not change.                                               *)
(***************************************************************************)
EXTENDS Naturals, FiniteSets, FiniteSetsExt

CONSTANTS
  Executors,     \* the worker, and operator requests, that may overlap
  Keys,          \* idempotency keys: the interventions that may come up
  NoKey,         \* "no candidate chosen yet"
  Cost,          \* [Keys -> Nat]: estimatedUsdValue
  MaxSingle,     \* maxAutonomousAmountUsd
  DailyCap,      \* maxDailyAutonomousAmountUsd
  Cooldown,      \* interventionCooldownMinutes
  Window,        \* the 86_400_000 ms of loadExecutionPolicyContext
  MaxTime        \* bound: the clock stops here

ASSUME NoKeyIsNoKey == NoKey \notin Keys
ASSUME ExecutorsFinite == IsFiniteSet(Executors)
ASSUME LimitsAreNat ==
  /\ Cost \in [Keys -> Nat]
  /\ MaxSingle \in Nat /\ DailyCap \in Nat
  /\ Cooldown \in Nat /\ Window \in Nat /\ MaxTime \in Nat

Time == 0 .. MaxTime

\* The statuses of the where clause.
Counted  == {"SUBMITTED", "CONFIRMED", "UNCONFIRMED"}
Statuses == {"ABSENT", "NOT_STARTED", "FAILED"} \cup Counted

PCs == {"idle", "context", "reread", "recontext", "reserve", "claim", "settle"}

VARIABLES
  now,        \* the clock
  pc,         \* [Executors -> PCs]
  intent,     \* [Executors -> Keys \cup {NoKey}]: the candidate of the attempt
  fetchedAt,  \* [Executors -> Time]: of the position just read, which is the
              \* context's nowMs; 0 when no context is about to be judged
  status,     \* [Keys -> Statuses]: executionStatus
  createdAt,  \* [Keys -> Time]: createdAt, 0 while there is no row
  owner       \* [Keys -> Executors \cup {NoKey}]: who claimed it; not a column

rows == <<status, createdAt, owner>>
vars == <<now, pc, intent, fetchedAt, rows>>

Init ==
  /\ now = 0
  /\ pc = [x \in Executors |-> "idle"]
  /\ intent = [x \in Executors |-> NoKey]
  /\ fetchedAt = [x \in Executors |-> 0]
  /\ status = [k \in Keys |-> "ABSENT"]
  /\ createdAt = [k \in Keys |-> 0]
  /\ owner = [k \in Keys |-> NoKey]

\* Mutant: the candidate does not survive an await.
GotoForgetting(x, label) == /\ pc' = [pc EXCEPT ![x] = label]
                            /\ intent' = [intent EXCEPT ![x] = NoKey]
                            /\ fetchedAt' = [fetchedAt EXCEPT ![x] = 0]
                            /\ UNCHANGED now

Goto(x, label) == /\ pc' = [pc EXCEPT ![x] = label]
                  /\ fetchedAt' = [fetchedAt EXCEPT ![x] = 0]
                  /\ UNCHANGED <<now, intent>>

Leave(x) == /\ pc'        = [pc EXCEPT ![x] = "idle"]
            /\ intent'    = [intent EXCEPT ![x] = NoKey]
            /\ fetchedAt' = [fetchedAt EXCEPT ![x] = 0]
            /\ UNCHANGED now

-----------------------------------------------------------------------------
(***************************************************************************)
(* The context and the limits.                                             *)
(***************************************************************************)

\* Mutant: an execution of unknown outcome is forgotten.
SeenWithoutUnconfirmed(t) ==
  {k \in Keys : /\ status[k] \in Counted \ {"UNCONFIRMED"}
                /\ createdAt[k] + Window >= t}

\* findMany: counted rows created since t - Window.
Seen(t) == {k \in Keys : status[k] \in Counted /\ createdAt[k] + Window >= t}

\* How an asset is written in the two columns that are compared: reserve
\* stores the candidate under its symbol and the execution under the
\* intent's address.
CandidateAsset == "symbol"
ExecutionAsset == "address"

\* dailyAutonomousSpendUsd: a row counts with the estimate of the candidate
\* of its decision that has its action, its asset and its amount.
Spend(t) ==
  LET matched == {k \in Seen(t) : CandidateAsset = ExecutionAsset}
  IN  MapThenSumSet(LAMBDA k : Cost[k], matched)

\* The newest counted row is at least a cooldown old.  A row from after t is
\* not: its context is refused as a whole (policyContextSchema throws).
Rested(t) == \A k \in Seen(t) : createdAt[k] + Cooldown <= t

\* Mutant: the single-intervention cap is not checked.
WithinLimitsUncapped(k, t) == Cost[k] + Spend(t) <= DailyCap /\ Rested(t)

\* evaluatePortfolio: AUTONOMOUS_LIMIT, DAILY_LIMIT, COOLDOWN.
WithinLimits(k, t) ==
  /\ Cost[k] <= MaxSingle
  /\ Cost[k] + Spend(t) <= DailyCap
  /\ Rested(t)

-----------------------------------------------------------------------------
(***************************************************************************)
(* One attempt.                                                            *)
(***************************************************************************)

\* prepare: the position is read, and its fetchedAt is the context's nowMs.
ReadPosition(x) ==
  /\ pc[x] = "idle"
  /\ pc' = [pc EXCEPT ![x] = "context"]
  /\ fetchedAt' = [fetchedAt EXCEPT ![x] = now]
  /\ UNCHANGED <<now, intent, rows>>

\* prepare: loadContext, then evaluateProtection takes a candidate.
ChooseCandidate(x) ==
  /\ pc[x] = "context"
  /\ \E k \in Keys : /\ WithinLimits(k, fetchedAt[x])
                     /\ intent' = [intent EXCEPT ![x] = k]
  /\ pc' = [pc EXCEPT ![x] = "reread"]
  /\ fetchedAt' = [fetchedAt EXCEPT ![x] = 0]
  /\ UNCHANGED <<now, rows>>

\* revalidate: prepare once more.
RereadPosition(x) ==
  /\ pc[x] = "reread"
  /\ pc' = [pc EXCEPT ![x] = "recontext"]
  /\ fetchedAt' = [fetchedAt EXCEPT ![x] = now]
  /\ UNCHANGED <<now, intent, rows>>

\* revalidate: the same candidate must still be valid.
RecheckCandidate(x) ==
  /\ pc[x] = "recontext"
  /\ WithinLimits(intent[x], fetchedAt[x])
  /\ Goto(x, "reserve")
  /\ UNCHANGED rows

\* Nothing to do, a stale candidate, a check or a call that fails.
Abandon(x) ==
  /\ pc[x] \in {"context", "reread", "recontext", "reserve"}
  /\ Leave(x)
  /\ UNCHANGED rows

\* reserve: a row for the key, created now unless there is one.  Only one that
\* is NOT_STARTED is followed.
Reserve(x) ==
  LET k == intent[x] IN
  /\ pc[x] = "reserve"
  /\ \/ /\ status[k] = "ABSENT"
        /\ status' = [status EXCEPT ![k] = "NOT_STARTED"]
        /\ createdAt' = [createdAt EXCEPT ![k] = now]
        /\ Goto(x, "claim")
     \/ /\ status[k] = "NOT_STARTED"
        /\ Goto(x, "claim")
        /\ UNCHANGED <<status, createdAt>>
     \/ /\ status[k] \notin {"ABSENT", "NOT_STARTED"}
        /\ Leave(x)
        /\ UNCHANGED <<status, createdAt>>
  /\ UNCHANGED owner

\* claim: from here on the capital is committed.  createdAt stays as it is.
Claim(x) ==
  LET k == intent[x] IN
  /\ pc[x] = "claim"
  /\ \/ /\ status[k] = "NOT_STARTED"
        /\ status' = [status EXCEPT ![k] = "SUBMITTED"]
        /\ owner' = [owner EXCEPT ![k] = x]
        /\ Goto(x, "settle")
     \/ /\ status[k] # "NOT_STARTED"
        /\ Leave(x)
        /\ UNCHANGED <<status, owner>>
  /\ UNCHANGED createdAt

\* A crash, or a database call that throws.  The row stays NOT_STARTED, and an
\* attempt with the same key may claim it at any time.
DieBeforeClaim(x) ==
  /\ pc[x] = "claim"
  /\ Leave(x)
  /\ UNCHANGED rows

\* The broadcast and its verification end one way or another.
Settle(x) ==
  /\ pc[x] = "settle"
  /\ \E s \in {"CONFIRMED", "UNCONFIRMED", "FAILED"} :
        status' = [status EXCEPT ![intent[x]] = s]
  /\ Leave(x)
  /\ UNCHANGED <<createdAt, owner>>

\* The process dies, or status() throws: the row stays SUBMITTED.
DieAfterClaim(x) ==
  /\ pc[x] = "settle"
  /\ Leave(x)
  /\ UNCHANGED rows

Tick ==
  /\ now < MaxTime
  /\ now' = now + 1
  /\ UNCHANGED <<pc, intent, fetchedAt, rows>>

Attempt(x) == \/ ReadPosition(x) \/ ChooseCandidate(x) \/ RereadPosition(x)
              \/ RecheckCandidate(x) \/ Abandon(x) \/ Reserve(x) \/ Claim(x)
              \/ DieBeforeClaim(x) \/ Settle(x) \/ DieAfterClaim(x)

Next == Tick \/ \E x \in Executors : Attempt(x)

Spec == Init /\ [][Next]_vars

-----------------------------------------------------------------------------
(***************************************************************************)
(* Properties.                                                             *)
(***************************************************************************)

\* Every variable has its type, and an attempt past evaluation holds the
\* candidate it was evaluated with (prepared.candidate in orchestrator.ts).
TypeOK ==
  /\ now \in Time
  /\ pc \in [Executors -> PCs]
  /\ intent \in [Executors -> Keys \cup {NoKey}]
  /\ \A x \in Executors : pc[x] \notin {"idle", "context"} => intent[x] \in Keys
  /\ fetchedAt \in [Executors -> Time]
  /\ status \in [Keys -> Statuses]
  /\ createdAt \in [Keys -> Time]
  /\ owner \in [Keys -> Executors \cup {NoKey}]

\* Key k is claimed in this step.
Claimed(k) == status[k] = "NOT_STARTED" /\ status'[k] = "SUBMITTED"

\* No executor commits capital within a cooldown of an execution it committed
\* before and does not know to have failed, however long its attempts take and
\* wherever they die.  The distance is from the row's createdAt, which is not
\* renewed by the claim, and it is about one executor only: this is what
\* prepare.ts guarantees.
OwnCooldownKept ==
  [][\A k, j \in Keys :
       Claimed(k) /\ status[j] \in Counted /\ owner[j] = owner'[k]
         => createdAt[j] + Cooldown <= now]_vars

\* "A candidate cannot ... exceed ... cooldown" (docs/safety-model.md:17):
\* no capital is committed within a cooldown of any counted execution.
CooldownKept ==
  [][\A k, j \in Keys :
       Claimed(k) /\ status[j] \in Counted => createdAt[j] + Cooldown <= now]_vars

\* What the counted executions created at or after time t cost.
Committed(t) ==
  MapThenSumSet(LAMBDA k : Cost[k],
                {k \in Keys : status[k] \in Counted /\ createdAt[k] >= t})

\* "Execution context counts submitted, confirmed, and unconfirmed capital in
\* the last 24 hours", and a candidate cannot exceed the daily limit
\* (docs/safety-model.md:17).
DailyCapKept ==
  \A t \in Time : t + Window >= now => Committed(t) <= DailyCap

\* The bound on a burst that does hold: within a cooldown, one intervention
\* within the single cap per executor, and no more.
BurstBounded ==
  \A t \in Time : t + Cooldown > now
                   => Committed(t) <= Cardinality(Executors) * MaxSingle
=============================================================================
