----------------------------- MODULE Execution ------------------------------
(***************************************************************************)
(* The controlled execution lifecycle of src/src/lib/execution/: every     *)
(* process that runs executeProtectionCore in broadcast mode, against the  *)
(* shared Execution table, the saved policy, the live position, KeeperHub  *)
(* and the chain.  One protected account on one chain: all state the code  *)
(* keeps is scoped by wallet and chain.                                    *)
(*                                                                         *)
(* Each step ends where the code awaits something another actor can        *)
(* change.  Reads whose result nobody can invalidate share the step that   *)
(* follows.  Simulate mode stops before it changes anything and is left    *)
(* out.                                                                    *)
(*                                                                         *)
(* Abstractions.  An effect fingerprint (action, asset, amount, sender,    *)
(* beneficiary) is a member of Effects.  What evaluateProtection offers on *)
(* the live position is the set "needed", which moves as it likes: spend   *)
(* and cooldown, which can only withdraw candidates, are in                *)
(* SpendLimits.tla.  A policy's updatedAt is its version number.           *)
(***************************************************************************)
EXTENDS Naturals

CONSTANTS
  Workers,       \* processes entering by executeAutonomousProtection
  Operators,     \* requests entering by executeProtection, mode broadcast
  Effects,       \* effect fingerprints
  NoEffect,      \* "no candidate chosen yet"
  MaxVersion,    \* bound: the policy is saved at most this many times
  Faults         \* the faults that may happen, a subset of FaultKinds

FaultKinds == {"crash",    \* the process dies and starts again
               "status",   \* keeperHub.status() throws
               "db",       \* a write after the claim throws
               "ack"}      \* a write commits, and throws all the same

ASSUME WorkersNotOperators == Workers \cap Operators = {}
ASSUME NoEffectIsNoEffect  == NoEffect \notin Effects
ASSUME MaxVersionIsNat     == MaxVersion \in Nat
ASSUME FaultsAreKnown      == Faults \subseteq FaultKinds

Clients  == Workers \cup Operators
Versions == 0 .. MaxVersion

\* stableExecutionKey: the effect and the policy version; wallet, chain and
\* policy id are fixed here, and action, asset and amount are in the effect.
\* No time and no block number is part of it.
Keys == Effects \X Versions

\* Of the three execution modes only "AUTONOMOUS or not" matters here.
Policies == [enabled : BOOLEAN, autonomous : BOOLEAN]

\* Where a client stands, named for what it does next.
BeforeClaim == {"evaluate", "revalidate", "recheck", "stale", "simulate",
                "reserve", "create", "claim"}
AfterClaim  == {"broadcast", "awaiting", "unknown", "record", "poll",
                "verify", "confirm", "failing"}
PCs         == {"idle"} \cup BeforeClaim \cup AfterClaim

VARIABLES
  policies,      \* [Versions -> Policies]: what was saved as each version
  current,       \* the version loadPolicy reads now
  needed,        \* SUBSET Effects: interventions the live position calls for
  pc,            \* [Clients -> PCs]
  effect,        \* [Clients -> Effects \cup {NoEffect}]: prepared.intent
  version,       \* [Clients -> Versions]: prepared.policyUpdatedAt
  status,        \* [Keys -> Statuses]: Execution.executionStatus
  keeperId,      \* [Keys -> BOOLEAN]: keeperHubExecutionId is stored
  receipt,       \* [Keys -> BOOLEAN]: receiptVerified
  staleAudits,   \* SUBSET Keys: POSITION_CHANGED audits by stale identity
  sent,          \* [Keys -> Nat]: broadcast requests sent to KeeperHub
  accepted,      \* [Keys -> Nat]: requests KeeperHub took on
  landed,        \* [Keys -> Nat]: effects on the chain
  doubted        \* SUBSET Keys: confirmed without an acknowledgement; a history
                 \* variable

dbVars     == <<status, keeperId, receipt, staleAudits>>
policyVars == <<policies, current>>
worldVars  == <<sent, accepted, landed, doubted>>
vars == <<policyVars, needed, pc, effect, version, dbVars, worldVars>>

Abstract == INSTANCE Intervention WITH Keys <- Keys, status <- status, landed <- landed,
                                        doubted <- doubted
Statuses == Abstract!Statuses
Settled  == Abstract!Settled

Key(c) == <<effect[c], version[c]>>

(***************************************************************************)
(* Moving a client.  Returning and throwing both end the attempt; the      *)
(* preparation is a local of the call and is gone with it.                 *)
(***************************************************************************)
\* Mutant: the preparation does not survive an await.
GotoForgetting(c, label) == /\ pc' = [pc EXCEPT ![c] = label]
                            /\ effect' = [effect EXCEPT ![c] = NoEffect]
                            /\ UNCHANGED version

Goto(c, label) == /\ pc' = [pc EXCEPT ![c] = label]
                  /\ UNCHANGED <<effect, version>>

Leave(c) == /\ pc'      = [pc EXCEPT ![c] = "idle"]
            /\ effect'  = [effect EXCEPT ![c] = NoEffect]
            /\ version' = [version EXCEPT ![c] = 0]

SetStatus(c, s) == status' = [status EXCEPT ![Key(c)] = s]

Init ==
  /\ policies \in [Versions -> Policies]
  /\ \A v \in Versions \ {0} :
        policies[v] = [enabled |-> FALSE, autonomous |-> FALSE]
  /\ current = 0
  /\ needed \in SUBSET Effects
  /\ pc = [c \in Clients |-> "idle"]
  /\ effect = [c \in Clients |-> NoEffect]
  /\ version = [c \in Clients |-> 0]
  /\ status = [k \in Keys |-> "ABSENT"]
  /\ keeperId = [k \in Keys |-> FALSE]
  /\ receipt = [k \in Keys |-> FALSE]
  /\ staleAudits = {}
  /\ sent = [k \in Keys |-> 0]
  /\ accepted = [k \in Keys |-> 0]
  /\ landed = [k \in Keys |-> 0]
  /\ doubted = {}

-----------------------------------------------------------------------------
(***************************************************************************)
(* Preparation and revalidation.                                           *)
(***************************************************************************)

\* prepare: loadPolicy throws when the policy is disabled, and then nothing
\* has happened.  The policy and the position are separate reads.
LoadPolicy(c) ==
  /\ pc[c] = "idle"
  /\ policies[current].enabled
  /\ pc' = [pc EXCEPT ![c] = "evaluate"]
  /\ version' = [version EXCEPT ![c] = current]
  /\ UNCHANGED <<policyVars, needed, effect, dbVars, worldVars>>

\* Mutant: the mode is not checked.
MayExecuteUnchecked(c) == TRUE

\* The autonomous entry point insists on the mode of the policy it prepared
\* with; an operator's broadcast works under any enabled policy.
MayExecute(c) == c \in Workers => policies[version[c]].autonomous

\* prepare: read the position, evaluate, take a valid candidate.
Evaluate(c) ==
  /\ pc[c] = "evaluate"
  /\ MayExecute(c)
  /\ \E e \in needed : effect' = [effect EXCEPT ![c] = e]
  /\ pc' = [pc EXCEPT ![c] = "revalidate"]
  /\ UNCHANGED <<policyVars, needed, version, dbVars, worldVars>>

\* revalidate: loads the policy again.  A disabled policy throws (Abandon);
\* another version makes the preparation stale whatever the position says.
ReloadPolicy(c) ==
  /\ pc[c] = "revalidate"
  /\ policies[current].enabled
  /\ Goto(c, IF current = version[c] THEN "recheck" ELSE "stale")
  /\ UNCHANGED <<policyVars, needed, dbVars, worldVars>>

\* revalidate: reads the position again.  The candidate must still be there.
RecheckPosition(c) ==
  /\ pc[c] = "recheck"
  /\ Goto(c, IF effect[c] \in needed THEN "simulate" ELSE "stale")
  /\ UNCHANGED <<policyVars, needed, dbVars, worldVars>>

\* persistStale, then return POSITION_CHANGED.
PersistStale(c) ==
  /\ pc[c] = "stale"
  /\ staleAudits' = staleAudits \cup {Key(c)}
  /\ Leave(c)
  /\ UNCHANGED <<policyVars, needed, status, keeperId, receipt, worldVars>>

\* Sender, balance, allowance, simulation and authorization all pass: reads
\* of the outside world that change nothing here.
Simulate(c) ==
  /\ pc[c] = "simulate"
  /\ Goto(c, "reserve")
  /\ UNCHANGED <<policyVars, needed, dbVars, worldVars>>

\* Every way out before the claim: a read or a call that throws, no canonical
\* intervention, a mode that is not AUTONOMOUS, an insufficient balance or
\* allowance, a failed simulation, AUTHORIZATION_REQUIRED.
Abandon(c) ==
  /\ pc[c] \in BeforeClaim
  /\ Leave(c)
  /\ UNCHANGED <<policyVars, needed, dbVars, worldVars>>

-----------------------------------------------------------------------------
(***************************************************************************)
(* Reservation and claim.                                                  *)
(***************************************************************************)

\* What the caller does with the row that reserve returned: go on to the
\* claim only if it was NOT_STARTED, else return DUPLICATE_PREVENTED.
FollowRow(c) == IF status[Key(c)] = "NOT_STARTED"
                THEN Goto(c, "claim")
                ELSE Leave(c)

\* reserve: the first findUnique by idempotency key.
LookupRow(c) ==
  /\ pc[c] = "reserve"
  /\ IF status[Key(c)] = "ABSENT" THEN Goto(c, "create") ELSE FollowRow(c)
  /\ UNCHANGED <<policyVars, needed, dbVars, worldVars>>

\* reserve: the transaction that creates snapshot, decision and execution.
\* The unique key refuses a second row, and the row found instead is used.
CreateRow(c) ==
  /\ pc[c] = "create"
  /\ IF status[Key(c)] = "ABSENT"
     THEN SetStatus(c, "NOT_STARTED") /\ Goto(c, "claim")
     ELSE UNCHANGED status /\ FollowRow(c)
  /\ UNCHANGED <<policyVars, needed, keeperId, receipt, staleAudits, worldVars>>

\* Mutants: the update's WHERE does not see a row another caller just claimed,
\* or also takes a row for a second try.
ClaimableUnlessSettled(k) == status[k] \notin Settled
ClaimableForRetry(k)      == status[k] \in {"NOT_STARTED", "UNCONFIRMED"}

\* claim: updateMany WHERE executionStatus = NOT_STARTED.
Claimable(k) == status[k] = "NOT_STARTED"

\* Mutant: the claim is written after the broadcast instead of before it.
ClaimRowLate(c) ==
  /\ pc[c] = "claim"
  /\ IF Claimable(Key(c)) THEN Goto(c, "broadcast") ELSE Leave(c)
  /\ UNCHANGED <<policyVars, needed, dbVars, worldVars>>

ClaimRow(c) ==
  /\ pc[c] = "claim"
  /\ IF Claimable(Key(c))
     THEN SetStatus(c, "SUBMITTED") /\ Goto(c, "broadcast")
     ELSE UNCHANGED status /\ Leave(c)
  /\ UNCHANGED <<policyVars, needed, keeperId, receipt, staleAudits, worldVars>>

-----------------------------------------------------------------------------
(***************************************************************************)
(* Broadcast, polling, verification.                                       *)
(***************************************************************************)

\* The POST leaves the process.
SendBroadcast(c) ==
  /\ pc[c] = "broadcast"
  /\ sent' = [sent EXCEPT ![Key(c)] = @ + 1]
  /\ Goto(c, "awaiting")
  /\ UNCHANGED <<policyVars, needed, dbVars, accepted, landed, doubted>>

\* HTTP 202 with an execution id.
BroadcastAnswered(c) ==
  /\ pc[c] = "awaiting"
  /\ accepted[Key(c)] > 0
  /\ Goto(c, "record")
  /\ UNCHANGED <<policyVars, needed, dbVars, worldVars>>

\* Mutant: no catch around the broadcast.
BroadcastFailsUncaught(c) ==
  /\ pc[c] = "awaiting"
  /\ Leave(c)
  /\ UNCHANGED <<policyVars, needed, dbVars, worldVars>>

\* An HTTP error, a malformed body or the 20 second abort.  KeeperHub may have
\* taken the request, or may take it later.
BroadcastFails(c) ==
  /\ pc[c] = "awaiting"
  /\ Goto(c, "unknown")
  /\ UNCHANGED <<policyVars, needed, dbVars, worldVars>>

RecordBroadcast(c) ==
  /\ pc[c] = "record"
  /\ keeperId' = [keeperId EXCEPT ![Key(c)] = TRUE]
  /\ Goto(c, "poll")
  /\ UNCHANGED <<policyVars, needed, status, receipt, staleAudits, worldVars>>

\* The catch around broadcast and recordBroadcast, then rethrow.
RecordUnknown(c) ==
  /\ pc[c] = "unknown"
  /\ SetStatus(c, "UNCONFIRMED")
  /\ Leave(c)
  /\ UNCHANGED <<policyVars, needed, keeperId, receipt, staleAudits, worldVars>>

\* The loop ends with a report of completed or failed.  A pending report
\* before the deadline leaves the client where it is.  A report may come with or
\* without the effect: the code does not trust it either.
PollTerminal(c) ==
  /\ pc[c] = "poll"
  /\ Goto(c, "verify")
  /\ UNCHANGED <<policyVars, needed, dbVars, worldVars>>

\* Still pending at the 45 second deadline, told to stop polling, or reported
\* unconfirmed: recordUnconfirmed and return UNCONFIRMED.
PollGivesUp(c) ==
  /\ pc[c] = "poll"
  /\ SetStatus(c, "UNCONFIRMED")
  /\ Leave(c)
  /\ UNCHANGED <<policyVars, needed, keeperId, receipt, staleAudits, worldVars>>

\* status() is not inside any try of the orchestrator.
StatusThrows(c) ==
  /\ "status" \in Faults
  /\ pc[c] = "poll"
  /\ Leave(c)
  /\ UNCHANGED <<policyVars, needed, dbVars, worldVars>>

\* Mutant: KeeperHub's word is enough.
EffectReported(k) == accepted[k] > 0

\* verifyChain asks an independent RPC for the transaction and its Pool event.
\* Assumed: the hash in KeeperHub's receipt is not that of another execution
\* with the same effect, which the event could not be told from.
EffectOnChain(k) == landed[k] > 0

\* KeeperHub's receipts, the chain's, and a better health factor all agree.
VerifyEffect(c) ==
  /\ pc[c] = "verify"
  /\ EffectOnChain(Key(c))
  /\ Goto(c, "confirm")
  /\ UNCHANGED <<policyVars, needed, dbVars, worldVars>>

\* A report of failed, a missing or contradicted receipt, no Pool event, an
\* RPC error, or a health factor that did not improve although the effect is
\* on the chain.
VerifyFails(c) ==
  /\ pc[c] = "verify"
  /\ Goto(c, "failing")
  /\ UNCHANGED <<policyVars, needed, dbVars, worldVars>>

\* One transaction: status, receiptVerified, snapshot, decision, audits.
PersistConfirmed(c) ==
  /\ pc[c] = "confirm"
  /\ SetStatus(c, "CONFIRMED")
  /\ receipt' = [receipt EXCEPT ![Key(c)] = TRUE]
  /\ Leave(c)
  /\ UNCHANGED <<policyVars, needed, keeperId, staleAudits, worldVars>>

RecordFailed(c) ==
  /\ pc[c] = "failing"
  /\ SetStatus(c, "FAILED")
  /\ Leave(c)
  /\ UNCHANGED <<policyVars, needed, keeperId, receipt, staleAudits, worldVars>>

\* A database write that throws: inside a try it takes the catch's road,
\* inside a catch (or after the loop) it ends the attempt with the row as is.
WriteThrows(c) ==
  /\ "db" \in Faults
  /\ \/ pc[c] = "record"  /\ Goto(c, "unknown")
     \/ pc[c] = "confirm" /\ Goto(c, "failing")
     \/ pc[c] \in {"unknown", "poll", "failing"} /\ Leave(c)
  /\ UNCHANGED <<policyVars, needed, dbVars, worldVars>>

\* A write that commits and is not acknowledged, so that it throws: a claim then
\* ends the attempt, and the catch of persistConfirmed will write FAILED over
\* CONFIRMED.  Where the road after the throw is that of the write itself (the
\* creation, whose catch finds the row, and every last write) there is nothing to
\* add.
CommitUntold(c) ==
  /\ "ack" \in Faults
  /\ \/ /\ pc[c] = "claim" /\ Claimable(Key(c))
        /\ SetStatus(c, "SUBMITTED") /\ Leave(c)
        /\ UNCHANGED <<keeperId, receipt, doubted>>
     \/ /\ pc[c] = "record"
        /\ keeperId' = [keeperId EXCEPT ![Key(c)] = TRUE] /\ Goto(c, "unknown")
        /\ UNCHANGED <<status, receipt, doubted>>
     \/ /\ pc[c] = "confirm"
        /\ SetStatus(c, "CONFIRMED") /\ receipt' = [receipt EXCEPT ![Key(c)] = TRUE]
        /\ doubted' = doubted \cup {Key(c)} /\ Goto(c, "failing")
        /\ UNCHANGED keeperId
  /\ UNCHANGED <<policyVars, needed, staleAudits, sent, accepted, landed>>

\* The process dies.  Nothing reads its rows when it comes back.
Crash(c) ==
  /\ "crash" \in Faults
  /\ pc[c] # "idle"
  /\ Leave(c)
  /\ UNCHANGED <<policyVars, needed, dbVars, worldVars>>

-----------------------------------------------------------------------------
(***************************************************************************)
(* The surroundings.                                                       *)
(***************************************************************************)

\* PUT /api/policy and PATCH /api/policy/execution-mode: both renew updatedAt.
SavePolicy ==
  /\ current < MaxVersion
  /\ \E p \in Policies : policies' = [policies EXCEPT ![current + 1] = p]
  /\ current' = current + 1
  /\ UNCHANGED <<needed, pc, effect, version, dbVars, worldVars>>

\* Prices, accrual and the owner's own transactions.
MovePosition ==
  /\ needed' \in SUBSET Effects
  /\ UNCHANGED <<policyVars, pc, effect, version, dbVars, worldVars>>

KeeperHubAccepts(k) ==
  /\ accepted[k] < sent[k]
  /\ accepted' = [accepted EXCEPT ![k] = @ + 1]
  /\ UNCHANGED <<policyVars, needed, pc, effect, version, dbVars, sent, landed, doubted>>

\* An accepted request that reverts, or is dropped, never lands.
EffectLands(k) ==
  /\ landed[k] < accepted[k]
  /\ landed' = [landed EXCEPT ![k] = @ + 1]
  /\ needed' \in SUBSET Effects
  /\ UNCHANGED <<policyVars, pc, effect, version, dbVars, sent, accepted, doubted>>

-----------------------------------------------------------------------------
Prepare(c) == \/ LoadPolicy(c) \/ Evaluate(c) \/ ReloadPolicy(c)
              \/ RecheckPosition(c) \/ PersistStale(c) \/ Simulate(c)
              \/ Abandon(c)

ReserveAndClaim(c) == LookupRow(c) \/ CreateRow(c) \/ ClaimRow(c)

\* What a claimed execution's owner does next, when nothing throws.
Settle(c) == \/ SendBroadcast(c) \/ BroadcastAnswered(c) \/ BroadcastFails(c)
             \/ RecordBroadcast(c) \/ RecordUnknown(c)
             \/ PollTerminal(c) \/ PollGivesUp(c)
             \/ VerifyEffect(c) \/ VerifyFails(c)
             \/ PersistConfirmed(c) \/ RecordFailed(c)

Fault(c) == StatusThrows(c) \/ WriteThrows(c) \/ CommitUntold(c) \/ Crash(c)

World == \/ SavePolicy \/ MovePosition
         \/ \E k \in Keys : KeeperHubAccepts(k) \/ EffectLands(k)

Next == \/ \E c \in Clients : \/ Prepare(c) \/ ReserveAndClaim(c)
                              \/ Settle(c) \/ Fault(c)
        \/ World

Spec == Init /\ [][Next]_vars

\* An async function that is not interrupted runs on: every call it awaits
\* has a timeout, and the poll loop has a deadline.
Fairness == \A c \in Clients : WF_vars(Settle(c))

FairSpec == Spec /\ Fairness

-----------------------------------------------------------------------------
(***************************************************************************)
(* Properties.                                                             *)
(***************************************************************************)

\* Every variable has its type, and a client that is past evaluation holds
\* the intent it evaluated (orchestrator.ts uses prepared.intent throughout).
TypeOK ==
  /\ policies \in [Versions -> Policies]
  /\ current \in Versions
  /\ needed \subseteq Effects
  /\ pc \in [Clients -> PCs]
  /\ effect \in [Clients -> Effects \cup {NoEffect}]
  /\ version \in [Clients -> Versions]
  /\ \A c \in Clients : pc[c] \notin {"idle", "evaluate"} => effect[c] \in Effects
  /\ status \in [Keys -> Statuses]
  /\ keeperId \in [Keys -> BOOLEAN]
  /\ receipt \in [Keys -> BOOLEAN]
  /\ staleAudits \subseteq Keys
  /\ sent \in [Keys -> Nat]
  /\ accepted \in [Keys -> Nat]
  /\ landed \in [Keys -> Nat]
  /\ doubted \subseteq Keys

\* A claimed row has one owner: whoever is between the claim and the end of
\* the attempt finds its row SUBMITTED, or CONFIRMED by itself without knowing,
\* and no two of them share a row.  This is what lets recordUnconfirmed,
\* recordFailed and persistConfirmed overwrite the status without a condition
\* (persist.ts).
SoleOwner ==
  /\ \A c \in Clients : pc[c] \in AfterClaim =>
        \/ status[Key(c)] = "SUBMITTED"
        \/ pc[c] = "failing" /\ status[Key(c)] = "CONFIRMED" /\ Key(c) \in doubted
  /\ \A c, d \in Clients :
        pc[c] \in AfterClaim /\ pc[d] \in AfterClaim /\ Key(c) = Key(d) => c = d

\* At most one broadcast request per idempotency key ever leaves the system,
\* whatever crashes, retries and interleavings of workers and operators: the
\* code does not lean on KeeperHub honouring the Idempotency-Key header.
BroadcastAtMostOnce == \A k \in Keys : sent[k] <= 1

\* Nothing is sent before the claim is durable, so a process that starts again
\* after a crash meets a row that DUPLICATE_PREVENTED answers for.
DurableBeforeBroadcast ==
  \A k \in Keys : sent[k] > 0 => status[k] \notin {"ABSENT", "NOT_STARTED"}

\* CONFIRMED and receiptVerified are written together, and only for an effect
\* that is on the chain and whose KeeperHub execution id is stored.  They part
\* only where a confirmation that was not acknowledged is overwritten.
ConfirmedHasEffect ==
  \A k \in Keys :
    /\ receipt[k] <=> status[k] = "CONFIRMED" \/ k \in doubted
    /\ k \in doubted => status[k] \in {"CONFIRMED", "FAILED"}
    /\ receipt[k] => landed[k] = 1 /\ keeperId[k]

\* The worker moves capital only under a policy version that was enabled and
\* AUTONOMOUS, however often the policy is saved meanwhile.
AutonomousOnly ==
  \A c \in Workers :
    pc[c] \in AfterClaim =>
      policies[version[c]] = [enabled |-> TRUE, autonomous |-> TRUE]

\* The lifecycle implements the promise of Intervention.tla: statuses only move
\* forward, the effect happens at most once and after the claim, CONFIRMED only
\* with the effect, and not taken back but for want of an acknowledgement.
ImplementsIntervention == Abstract!Spec

\* A claimed execution is settled in the end: "A timeout or ambiguous submission
\* is persisted as UNCONFIRMED" (docs/keeperhub-integration.md:95).
ClaimSettles ==
  \A k \in Keys : status[k] = "SUBMITTED" ~> status[k] \in Settled

\* The intervention that enters reservation is the canonical one at that moment:
\* the documented order puts "immediate canonical revalidation" between the
\* simulation and the reservation (docs/keeperhub-integration.md:28-30).
Canonical(k) == /\ policies[current].enabled
                /\ k[1] \in needed
                /\ k[2] = current

ReservesOnlyCanonical ==
  [][\A c \in Clients :
       pc[c] # "reserve" /\ pc'[c] = "reserve" => Canonical(Key(c))]_vars
=============================================================================
