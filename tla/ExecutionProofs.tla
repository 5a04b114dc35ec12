-------------------------- MODULE ExecutionProofs ---------------------------
(***************************************************************************)
(* What TLC checks of Execution.tla on a small instance, proved for every  *)
(* set of workers, operators and effects, any number of policy versions    *)
(* and any choice of faults.                                               *)
(***************************************************************************)
EXTENDS Execution, TLAPS

\* The key of a client past evaluation is a key of the table.
LEMMA KeyInKeys ==
  ASSUME TypeOK, NEW c \in Clients, pc[c] \notin {"idle", "evaluate"}
  PROVE  Key(c) \in Keys
BY DEF TypeOK, Key, Keys

\* Every reachable state is well typed, and a client that passed evaluation
\* holds the intent it evaluated.
LEMMA TypeInit == Init => TypeOK
BY MaxVersionIsNat
   DEF Init, TypeOK, Policies, Versions, Keys, PCs, Statuses, Abstract!Statuses

LEMMA TypeNext == TypeOK /\ [Next]_vars => TypeOK'
<1> SUFFICES ASSUME TypeOK, [Next]_vars PROVE TypeOK'
  OBVIOUS
<1> USE MaxVersionIsNat
    DEF TypeOK, Clients, PCs, BeforeClaim, AfterClaim, policyVars, dbVars,
        worldVars
<1>1. ASSUME NEW c \in Clients, Prepare(c) PROVE TypeOK'
  <2>1. CASE LoadPolicy(c)
    BY <2>1 DEF LoadPolicy
  <2>2. CASE Evaluate(c)
    BY <2>2 DEF Evaluate
  <2>3. CASE ReloadPolicy(c)
    BY <2>3 DEF ReloadPolicy, Goto
  <2>4. CASE RecheckPosition(c)
    BY <2>4 DEF RecheckPosition, Goto
  <2>5. CASE PersistStale(c)
    BY <2>5, KeyInKeys, 0 \in Versions DEF PersistStale, Leave, Versions
  <2>6. CASE Simulate(c)
    BY <2>6 DEF Simulate, Goto
  <2>7. CASE Abandon(c)
    BY <2>7, 0 \in Versions DEF Abandon, Leave, Versions
  <2>8. QED
    BY <1>1, <2>1, <2>2, <2>3, <2>4, <2>5, <2>6, <2>7 DEF Prepare
<1>2. ASSUME NEW c \in Clients, ReserveAndClaim(c) PROVE TypeOK'
  <2> USE DEF Goto, Leave, SetStatus, FollowRow, Statuses, Abstract!Statuses
  <2> 0 \in Versions
    BY DEF Versions
  <2>1. CASE LookupRow(c)
    BY <2>1 DEF LookupRow
  <2>2. CASE CreateRow(c)
    BY <2>2 DEF CreateRow
  <2>3. CASE ClaimRow(c)
    BY <2>3 DEF ClaimRow
  <2>4. QED
    BY <1>2, <2>1, <2>2, <2>3 DEF ReserveAndClaim
<1>3. ASSUME NEW c \in Clients, Settle(c) PROVE TypeOK'
  <2> USE DEF Goto, Leave, SetStatus, Statuses, Abstract!Statuses
  <2> 0 \in Versions
    BY DEF Versions
  <2>1. CASE SendBroadcast(c)
    BY <2>1, KeyInKeys DEF SendBroadcast
  <2>2. CASE BroadcastAnswered(c)
    BY <2>2 DEF BroadcastAnswered
  <2>3. CASE BroadcastFails(c)
    BY <2>3 DEF BroadcastFails
  <2>4. CASE RecordBroadcast(c)
    BY <2>4 DEF RecordBroadcast
  <2>5. CASE RecordUnknown(c)
    BY <2>5 DEF RecordUnknown
  <2>6. CASE PollTerminal(c)
    BY <2>6 DEF PollTerminal
  <2>7. CASE PollGivesUp(c)
    BY <2>7 DEF PollGivesUp
  <2>8. CASE VerifyEffect(c)
    BY <2>8 DEF VerifyEffect
  <2>9. CASE VerifyFails(c)
    BY <2>9 DEF VerifyFails
  <2>10. CASE PersistConfirmed(c)
    BY <2>10 DEF PersistConfirmed
  <2>11. CASE RecordFailed(c)
    BY <2>11 DEF RecordFailed
  <2>12. QED
    BY <1>3, <2>1, <2>2, <2>3, <2>4, <2>5, <2>6, <2>7, <2>8, <2>9, <2>10, <2>11
       DEF Settle
<1>4. ASSUME NEW c \in Clients, Fault(c) PROVE TypeOK'
  <2> 0 \in Versions
    BY DEF Versions
  <2> USE DEF Goto, Leave
  <2>1. CASE StatusThrows(c)
    BY <2>1 DEF StatusThrows
  <2>2. CASE WriteThrows(c)
    BY <2>2 DEF WriteThrows
  <2>3. CASE Crash(c)
    BY <2>3 DEF Crash
  <2>4. CASE CommitUntold(c)
    <3>0. Key(c) \in Keys /\ "SUBMITTED" \in Statuses /\ "CONFIRMED" \in Statuses
      BY <2>4, KeyInKeys DEF CommitUntold, Statuses, Abstract!Statuses
    <3>1. status' \in [Keys -> Statuses]
      BY <2>4, <3>0 DEF CommitUntold, SetStatus
    <3>2. receipt' \in [Keys -> BOOLEAN] /\ keeperId' \in [Keys -> BOOLEAN]
      BY <2>4, <3>0 DEF CommitUntold
    <3>3. doubted' \subseteq Keys
      BY <2>4, <3>0 DEF CommitUntold
    <3>4. /\ pc' \in [Clients -> PCs] /\ effect' \in [Clients -> Effects \cup {NoEffect}]
          /\ version' \in [Clients -> Versions]
          /\ \A d \in Clients : pc'[d] \notin {"idle", "evaluate"} => effect'[d] \in Effects
      BY <2>4 DEF CommitUntold
    <3> QED
      BY <2>4, <3>1, <3>2, <3>3, <3>4 DEF CommitUntold
  <2>5. QED
    BY <1>4, <2>1, <2>2, <2>3, <2>4 DEF Fault
<1>5. CASE World
  <2>1. CASE SavePolicy
    BY <2>1 DEF SavePolicy, Versions
  <2>2. CASE MovePosition
    BY <2>2 DEF MovePosition
  <2>3. ASSUME NEW k \in Keys, KeeperHubAccepts(k) PROVE TypeOK'
    BY <2>3 DEF KeeperHubAccepts
  <2>4. ASSUME NEW k \in Keys, EffectLands(k) PROVE TypeOK'
    BY <2>4 DEF EffectLands
  <2>5. QED
    BY <1>5, <2>1, <2>2, <2>3, <2>4 DEF World
<1>6. CASE UNCHANGED vars
  BY <1>6 DEF vars
<1>7. QED
  BY <1>1, <1>2, <1>3, <1>4, <1>5, <1>6 DEF Next

\* Type correctness of the lifecycle (the rows of persist.ts, the locals of
\* orchestrator.ts) in every reachable state.
THEOREM TypeCorrect == Spec => []TypeOK
<1>1. Init => TypeOK
  BY TypeInit
<1>2. TypeOK /\ [Next]_vars => TypeOK'
  BY TypeNext
<1>3. QED
  BY <1>1, <1>2, PTL DEF Spec

-----------------------------------------------------------------------------
(***************************************************************************)
(* The lifecycle invariant.  BroadcastAtMostOnce alone is not inductive:   *)
(* it needs that the client about to send owns its row (SoleOwner), that   *)
(* the row was not sent before, and that an unclaimed row was never sent.  *)
(* ConfirmedHasEffect needs what the owner has established on its way.     *)
(***************************************************************************)
RequestsInv ==
  \A k \in Keys :
    /\ landed[k] <= accepted[k]
    /\ accepted[k] <= sent[k]
    /\ sent[k] <= 1
    /\ status[k] \in {"ABSENT", "NOT_STARTED"} => sent[k] = 0

OwnerInv ==
  \A c \in Clients :
    /\ pc[c] = "broadcast" => sent[Key(c)] = 0
    /\ pc[c] \in {"poll", "verify", "confirm"} => keeperId[Key(c)]
    /\ pc[c] = "confirm" => landed[Key(c)] > 0

LifecycleInv ==
  TypeOK /\ SoleOwner /\ RequestsInv /\ OwnerInv /\ ConfirmedHasEffect

LEMMA LifecycleInit == Init => LifecycleInv
BY TypeInit
   DEF Init, LifecycleInv, SoleOwner, RequestsInv, OwnerInv, ConfirmedHasEffect,
       AfterClaim

\* A step that leaves the table, the requests and the effects alone and takes
\* its client nowhere past the claim preserves the invariant.
LEMMA LifecycleQuiet ==
  ASSUME LifecycleInv, TypeOK', NEW c \in Clients,
         UNCHANGED <<status, keeperId, receipt, worldVars>>,
         \A d \in Clients \ {c} :
           pc'[d] = pc[d] /\ effect'[d] = effect[d] /\ version'[d] = version[d],
         pc'[c] \notin AfterClaim
  PROVE  LifecycleInv'
BY DEF LifecycleInv, SoleOwner, RequestsInv, OwnerInv, ConfirmedHasEffect,
       AfterClaim, worldVars, Key

LEMMA LifecycleNext == LifecycleInv /\ [Next]_vars => LifecycleInv'
<1> SUFFICES ASSUME LifecycleInv, [Next]_vars PROVE LifecycleInv'
  OBVIOUS
<1> TypeOK /\ TypeOK'
  BY TypeNext DEF LifecycleInv
<1>1. ASSUME NEW c \in Clients, Prepare(c) PROVE LifecycleInv'
  <2> SUFFICES /\ UNCHANGED <<status, keeperId, receipt, worldVars>>
               /\ pc'[c] \notin AfterClaim
               /\ \A d \in Clients \ {c} : /\ pc'[d] = pc[d]
                                            /\ effect'[d] = effect[d]
                                            /\ version'[d] = version[d]
    BY LifecycleQuiet
  <2> QED
    BY <1>1 DEF Prepare, LoadPolicy, Evaluate, ReloadPolicy, RecheckPosition,
                PersistStale, Simulate, Abandon, Goto, Leave, dbVars, AfterClaim,
                TypeOK
<1>2. ASSUME NEW c \in Clients, ReserveAndClaim(c) PROVE LifecycleInv'
  <2> DEFINE Quiet == /\ UNCHANGED <<status, keeperId, receipt, worldVars>>
                      /\ pc'[c] \notin AfterClaim
                      /\ \A d \in Clients \ {c} : /\ pc'[d] = pc[d]
                                                   /\ effect'[d] = effect[d]
                                                   /\ version'[d] = version[d]
  <2>0. Key(c) \in Keys
    BY KeyInKeys, <1>2 DEF ReserveAndClaim, LookupRow, CreateRow, ClaimRow
  <2>00. \A d \in Clients : pc[d] \in AfterClaim => Key(d) \in Keys
    BY KeyInKeys DEF AfterClaim
  <2>1. CASE LookupRow(c)
    <3>1. Quiet
      BY <2>1 DEF LookupRow, FollowRow, Goto, Leave, dbVars, AfterClaim, TypeOK
    <3>2. QED
      BY <3>1, LifecycleQuiet
  <2>2. CASE CreateRow(c)
    <3>1. CASE status[Key(c)] = "ABSENT"
      <4>1. /\ status' = [status EXCEPT ![Key(c)] = "NOT_STARTED"]
            /\ pc' = [pc EXCEPT ![c] = "claim"]
            /\ UNCHANGED <<effect, version, keeperId, receipt, worldVars>>
        BY <2>2, <3>1 DEF CreateRow, SetStatus, Goto
      <4>2. SoleOwner'
        BY <4>1, <3>1, <2>0, <2>00 DEF TypeOK, LifecycleInv, SoleOwner, AfterClaim, Key, worldVars
      <4>3. RequestsInv'
        BY <4>1, <3>1, <2>0 DEF TypeOK, LifecycleInv, RequestsInv, worldVars
      <4>4. OwnerInv'
        BY <4>1, <2>0, <2>00
           DEF TypeOK, LifecycleInv, OwnerInv, AfterClaim, Key, worldVars
      <4>5. ConfirmedHasEffect'
        BY <4>1, <3>1, <2>0
           DEF TypeOK, LifecycleInv, ConfirmedHasEffect, worldVars
      <4>6. QED
        BY <4>2, <4>3, <4>4, <4>5 DEF LifecycleInv
    <3>2. CASE status[Key(c)] # "ABSENT"
      <4>1. Quiet
        BY <2>2, <3>2 DEF CreateRow, FollowRow, Goto, Leave, dbVars, AfterClaim,
                          TypeOK
      <4>2. QED
        BY <4>1, LifecycleQuiet
    <3>3. QED
      BY <3>1, <3>2
  <2>3. CASE ClaimRow(c)
    <3>1. CASE Claimable(Key(c))
      <4>1. /\ status[Key(c)] = "NOT_STARTED"
            /\ status' = [status EXCEPT ![Key(c)] = "SUBMITTED"]
            /\ pc' = [pc EXCEPT ![c] = "broadcast"]
            /\ UNCHANGED <<effect, version, keeperId, receipt, worldVars>>
        BY <2>3, <3>1 DEF ClaimRow, Claimable, SetStatus, Goto
      <4>2. SoleOwner'
        <5>1. \A d \in Clients \ {c} : pc[d] \in AfterClaim => Key(d) # Key(c)
          BY <4>1 DEF LifecycleInv, SoleOwner
        <5>2. \A d \in Clients : Key(d)' = Key(d)
          BY <4>1 DEF Key
        <5>3. QED
          BY <4>1, <5>1, <5>2, <2>0, <2>00 DEF TypeOK, LifecycleInv, SoleOwner, AfterClaim, worldVars
      <4>3. RequestsInv'
        BY <4>1, <2>0 DEF TypeOK, LifecycleInv, RequestsInv, worldVars
      <4>4. OwnerInv'
        BY <4>1, <2>0, <2>00
           DEF TypeOK, LifecycleInv, OwnerInv, RequestsInv, AfterClaim, Key, worldVars
      <4>5. ConfirmedHasEffect'
        BY <4>1, <2>0
           DEF TypeOK, LifecycleInv, ConfirmedHasEffect, worldVars
      <4>6. QED
        BY <4>2, <4>3, <4>4, <4>5 DEF LifecycleInv
    <3>2. CASE ~Claimable(Key(c))
      <4>1. Quiet
        BY <2>3, <3>2 DEF ClaimRow, Leave, dbVars, AfterClaim, TypeOK
      <4>2. QED
        BY <4>1, LifecycleQuiet
    <3>3. QED
      BY <3>1, <3>2
  <2>4. QED
    BY <1>2, <2>1, <2>2, <2>3 DEF ReserveAndClaim
<1>3. ASSUME NEW c \in Clients, Settle(c) PROVE LifecycleInv'
  <2> USE DEF LifecycleInv, SoleOwner, RequestsInv, OwnerInv,
              ConfirmedHasEffect, AfterClaim, Key, Goto, Leave, SetStatus,
              dbVars, worldVars, policyVars
  <2>0. Key(c) \in Keys
    BY KeyInKeys, <1>3 DEF Settle, SendBroadcast, BroadcastAnswered, BroadcastFails, RecordBroadcast, RecordUnknown, PollTerminal, PollGivesUp, VerifyEffect, VerifyFails, PersistConfirmed, RecordFailed
  <2>1. CASE SendBroadcast(c)
    <3>0. pc[c] = "broadcast" /\ sent[Key(c)] = 0 /\ status[Key(c)] = "SUBMITTED"
      BY <2>1, <2>0, TypeOK DEF TypeOK, SendBroadcast
    <3>1. /\ sent' = [sent EXCEPT ![Key(c)] = 1]
          /\ pc' = [pc EXCEPT ![c] = "awaiting"]
          /\ UNCHANGED <<effect, version>>
      BY <2>1, <3>0 DEF SendBroadcast, Goto
    <3>2. \A d \in Clients : d # c /\ pc[d] \in AfterClaim => Key(d) # Key(c)
      BY <2>0, <3>0, TypeOK DEF TypeOK
    <3>3. SoleOwner'
      BY <2>1, <3>0, <3>1, TypeOK DEF TypeOK, SendBroadcast
    <3>4. RequestsInv'
      BY <2>1, <2>0, <3>0, <3>1, TypeOK DEF TypeOK, SendBroadcast
    <3>5. OwnerInv'
      BY <2>1, <2>0, <3>0, <3>1, <3>2, TypeOK DEF TypeOK, SendBroadcast
    <3>6. ConfirmedHasEffect'
      BY <2>1, <2>0, <3>0, <3>1, TypeOK DEF TypeOK, SendBroadcast
    <3>7. QED
      BY <3>3, <3>4, <3>5, <3>6, TypeOK'
  <2>2. CASE BroadcastAnswered(c)
    BY <2>2, <2>0, TypeOK, TypeOK'
       DEF TypeOK, BroadcastAnswered
  <2>3. CASE BroadcastFails(c)
    BY <2>3, <2>0, TypeOK, TypeOK'
       DEF TypeOK, BroadcastFails
  <2>4. CASE RecordBroadcast(c)
    BY <2>4, <2>0, TypeOK, TypeOK'
       DEF TypeOK, RecordBroadcast
  <2>5. CASE RecordUnknown(c)
    BY <2>5, <2>0, TypeOK, TypeOK'
       DEF TypeOK, RecordUnknown
  <2>6. CASE PollTerminal(c)
    BY <2>6, <2>0, TypeOK, TypeOK'
       DEF TypeOK, PollTerminal
  <2>7. CASE PollGivesUp(c)
    BY <2>7, <2>0, TypeOK, TypeOK'
       DEF TypeOK, PollGivesUp
  <2>8. CASE VerifyEffect(c)
    BY <2>8, <2>0, TypeOK, TypeOK'
       DEF TypeOK, VerifyEffect, EffectOnChain
  <2>9. CASE VerifyFails(c)
    BY <2>9, <2>0, TypeOK, TypeOK'
       DEF TypeOK, VerifyFails
  <2>10. CASE PersistConfirmed(c)
    <3>0. /\ pc[c] = "confirm" /\ status[Key(c)] = "SUBMITTED" /\ Key(c) \notin doubted
          /\ landed[Key(c)] = 1 /\ keeperId[Key(c)]
      BY <2>10, <2>0, TypeOK DEF TypeOK, PersistConfirmed
    <3>1. /\ pc' = [pc EXCEPT ![c] = "idle"]
          /\ status' = [status EXCEPT ![Key(c)] = "CONFIRMED"]
          /\ receipt' = [receipt EXCEPT ![Key(c)] = TRUE]
          /\ UNCHANGED <<keeperId, worldVars>>
          /\ \A d \in Clients \ {c} : effect'[d] = effect[d] /\ version'[d] = version[d]
      BY <2>10, TypeOK DEF TypeOK, PersistConfirmed
    <3>2. SoleOwner'
      BY <2>0, <3>0, <3>1, TypeOK DEF TypeOK
    <3>3. RequestsInv'
      BY <2>0, <3>0, <3>1, TypeOK DEF TypeOK
    <3>4. OwnerInv'
      BY <3>1, TypeOK DEF TypeOK
    <3>5. ConfirmedHasEffect'
      <4> SUFFICES ASSUME NEW k \in Keys
                   PROVE /\ receipt'[k] <=> status'[k] = "CONFIRMED" \/ k \in doubted'
                         /\ k \in doubted' => status'[k] \in {"CONFIRMED", "FAILED"}
                         /\ receipt'[k] => landed'[k] = 1 /\ keeperId'[k]
        BY <3>1
      <4>0. /\ receipt[k] <=> status[k] = "CONFIRMED" \/ k \in doubted
            /\ k \in doubted => status[k] \in {"CONFIRMED", "FAILED"}
            /\ receipt[k] => landed[k] = 1 /\ keeperId[k]
        OBVIOUS
      <4>1. CASE k = Key(c)
        <5>1. receipt'[k] = TRUE /\ status'[k] = "CONFIRMED"
          BY <3>1, <4>1, TypeOK DEF TypeOK
        <5> QED
          BY <3>0, <3>1, <4>1, <5>1
      <4>2. CASE k # Key(c)
        <5>1. status'[k] = status[k]
          BY <3>1, <4>2, TypeOK DEF TypeOK
        <5>2. receipt'[k] <=> receipt[k]
          BY <3>1, <4>2, TypeOK DEF TypeOK
        <5> QED
          BY <3>1, <4>0, <5>1, <5>2
      <4> QED
        BY <4>1, <4>2
    <3> QED
      BY <3>2, <3>3, <3>4, <3>5, TypeOK'
  <2>11. CASE RecordFailed(c)
    BY <2>11, <2>0, TypeOK, TypeOK'
       DEF TypeOK, RecordFailed
  <2>12. QED
    BY <1>3, <2>1, <2>2, <2>3, <2>4, <2>5, <2>6, <2>7, <2>8, <2>9, <2>10, <2>11 DEF Settle
<1>4. ASSUME NEW c \in Clients, Fault(c) PROVE LifecycleInv'
  <2> USE DEF LifecycleInv, SoleOwner, RequestsInv, OwnerInv,
              ConfirmedHasEffect, AfterClaim, Key, Goto, Leave, SetStatus,
              dbVars, worldVars, policyVars
  <2>1. CASE StatusThrows(c)
    BY <2>1, TypeOK, TypeOK'
       DEF TypeOK, StatusThrows
  <2>2. CASE WriteThrows(c)
    BY <2>2, TypeOK, TypeOK'
       DEF TypeOK, WriteThrows
  <2>3. CASE Crash(c)
    BY <2>3, TypeOK, TypeOK'
       DEF TypeOK, Crash
  <2>4. CASE CommitUntold(c)
    <3>0. Key(c) \in Keys
      BY <2>4, KeyInKeys DEF CommitUntold
    <3>1. CASE pc[c] = "claim"
      <4>0. /\ status[Key(c)] = "NOT_STARTED" /\ status' = [status EXCEPT ![Key(c)] = "SUBMITTED"]
            /\ pc' = [pc EXCEPT ![c] = "idle"] /\ UNCHANGED <<keeperId, receipt, worldVars>>
            /\ \A d \in Clients \ {c} : effect'[d] = effect[d] /\ version'[d] = version[d]
        BY <2>4, <3>1, TypeOK DEF TypeOK, CommitUntold, Claimable
      <4>1. SoleOwner'
        BY <3>0, <4>0, TypeOK DEF TypeOK
      <4>2. RequestsInv' /\ OwnerInv' /\ ConfirmedHasEffect'
        BY <3>0, <4>0, TypeOK DEF TypeOK
      <4> QED
        BY <4>1, <4>2, TypeOK'
    <3>2. CASE pc[c] = "record"
      <4>0. /\ keeperId' = [keeperId EXCEPT ![Key(c)] = TRUE] /\ pc' = [pc EXCEPT ![c] = "unknown"]
            /\ UNCHANGED <<effect, version, status, receipt, worldVars>>
        BY <2>4, <3>2 DEF CommitUntold
      <4>1. SoleOwner' /\ RequestsInv' /\ ConfirmedHasEffect'
        BY <3>0, <3>2, <4>0, TypeOK DEF TypeOK
      <4>2. OwnerInv'
        BY <3>0, <3>2, <4>0, TypeOK DEF TypeOK
      <4> QED
        BY <4>1, <4>2, TypeOK'
    <3>3. CASE pc[c] = "confirm"
      <4>0. /\ status[Key(c)] = "SUBMITTED" /\ Key(c) \notin doubted
            /\ landed[Key(c)] = 1 /\ keeperId[Key(c)]
        BY <3>0, <3>3, TypeOK DEF TypeOK
      <4>1. /\ status' = [status EXCEPT ![Key(c)] = "CONFIRMED"]
            /\ receipt' = [receipt EXCEPT ![Key(c)] = TRUE]
            /\ doubted' = doubted \cup {Key(c)} /\ pc' = [pc EXCEPT ![c] = "failing"]
            /\ UNCHANGED <<effect, version, keeperId, sent, accepted, landed>>
        BY <2>4, <3>3 DEF CommitUntold
      <4>2. SoleOwner'
        BY <3>0, <3>3, <4>0, <4>1, TypeOK DEF TypeOK
      <4>3. RequestsInv' /\ OwnerInv'
        BY <3>0, <3>3, <4>0, <4>1, TypeOK DEF TypeOK
      <4>4. ConfirmedHasEffect'
        BY <3>0, <4>0, <4>1, TypeOK DEF TypeOK
      <4> QED
        BY <4>2, <4>3, <4>4, TypeOK'
    <3> QED
      BY <2>4, <3>1, <3>2, <3>3 DEF CommitUntold
  <2>5. QED
    BY <1>4, <2>1, <2>2, <2>3, <2>4 DEF Fault
<1>5. CASE World
  <2> USE DEF LifecycleInv, SoleOwner, RequestsInv, OwnerInv,
              ConfirmedHasEffect, Key, dbVars, worldVars
  <2>1. CASE SavePolicy \/ MovePosition
    BY <2>1 DEF SavePolicy, MovePosition
  <2>2. ASSUME NEW k \in Keys, KeeperHubAccepts(k) PROVE LifecycleInv'
    BY <2>2, TypeOK' DEF KeeperHubAccepts, TypeOK
  <2>3. ASSUME NEW k \in Keys, EffectLands(k) PROVE LifecycleInv'
    BY <2>3, TypeOK' DEF EffectLands, TypeOK
  <2>4. QED
    BY <1>5, <2>1, <2>2, <2>3 DEF World
<1>6. CASE UNCHANGED vars
  BY <1>6 DEF vars, policyVars, dbVars, worldVars, LifecycleInv, TypeOK, SoleOwner, RequestsInv,
              OwnerInv, ConfirmedHasEffect, Key
<1>7. QED
  BY <1>1, <1>2, <1>3, <1>4, <1>5, <1>6 DEF Next

\* Ownership of claimed rows, requests per key and the meaning of CONFIRMED, in
\* every reachable state: the invariant the theorems below are read off from.
THEOREM Lifecycle == Spec => []LifecycleInv
<1>1. Init => LifecycleInv
  BY LifecycleInit
<1>2. LifecycleInv /\ [Next]_vars => LifecycleInv'
  BY LifecycleNext
<1>3. QED
  BY <1>1, <1>2, PTL DEF Spec

\* A claimed row has exactly one owner, which is what makes the unconditional
\* updates of persist.ts safe.
THEOREM OneOwner == Spec => []SoleOwner
<1>1. LifecycleInv => SoleOwner
  BY DEF LifecycleInv
<1>2. QED
  BY <1>1, Lifecycle, PTL

\* No interleaving, crash or retry makes the system ask KeeperHub twice for the
\* same idempotency key.
THEOREM AtMostOneBroadcast == Spec => []BroadcastAtMostOnce
<1>1. LifecycleInv => BroadcastAtMostOnce
  BY DEF LifecycleInv, RequestsInv, BroadcastAtMostOnce
<1>2. QED
  BY <1>1, Lifecycle, PTL

\* What was sent is known to the database as claimed, in every state: also in
\* the one a restarted process finds.
THEOREM ClaimIsDurable == Spec => []DurableBeforeBroadcast
<1>1. LifecycleInv => DurableBeforeBroadcast
  BY DEF LifecycleInv, RequestsInv, TypeOK, DurableBeforeBroadcast
<1>2. QED
  BY <1>1, Lifecycle, PTL

\* A CONFIRMED row has its one effect on the chain.
THEOREM ConfirmedIsReal == Spec => []ConfirmedHasEffect
<1>1. LifecycleInv => ConfirmedHasEffect
  BY DEF LifecycleInv
<1>2. QED
  BY <1>1, Lifecycle, PTL

-----------------------------------------------------------------------------
(***************************************************************************)
(* Autonomy.  The version a client carries was saved no later than now, so *)
(* a save writes another version and cannot change what it carries.        *)
(***************************************************************************)
PolicyInv ==
  /\ \A c \in Clients : pc[c] # "idle" =>
       version[c] <= current /\ policies[version[c]].enabled
  /\ \A c \in Workers : pc[c] \notin {"idle", "evaluate"} =>
       policies[version[c]].autonomous

\* A client that moves on with the version it has, or leaves, preserves it.
LEMMA PolicyQuiet ==
  ASSUME TypeOK, PolicyInv, UNCHANGED policyVars, NEW c \in Clients,
         \A d \in Clients \ {c} : pc'[d] = pc[d] /\ version'[d] = version[d],
         \/ pc'[c] = "idle"
         \/ /\ version'[c] = version[c]
            /\ pc[c] \notin {"idle", "evaluate"}
            /\ pc'[c] \notin {"idle", "evaluate"}
  PROVE  PolicyInv'
BY DEF PolicyInv, policyVars, Clients, TypeOK

LEMMA PolicyNext == TypeOK /\ PolicyInv /\ [Next]_vars => PolicyInv'
<1> SUFFICES ASSUME TypeOK, PolicyInv, [Next]_vars PROVE PolicyInv'
  OBVIOUS
<1> USE DEF BeforeClaim, AfterClaim, Goto, Leave
<1> DEFINE Quiet(c) ==
      /\ UNCHANGED policyVars
      /\ \A d \in Clients \ {c} : pc'[d] = pc[d] /\ version'[d] = version[d]
      /\ \/ pc'[c] = "idle"
         \/ /\ version'[c] = version[c]
            /\ pc[c] \notin {"idle", "evaluate"}
            /\ pc'[c] \notin {"idle", "evaluate"}
<1>1. ASSUME NEW c \in Clients, Prepare(c) PROVE PolicyInv'
  <2>1. CASE LoadPolicy(c)
    BY <2>1, MaxVersionIsNat DEF LoadPolicy, PolicyInv, TypeOK, policyVars, Clients, Versions
  <2>2. CASE Evaluate(c)
    BY <2>2 DEF Evaluate, MayExecute, PolicyInv, TypeOK, policyVars, Clients
  <2>3. CASE ~LoadPolicy(c) /\ ~Evaluate(c)
    <3>1. Quiet(c)
      BY <1>1, <2>3 DEF Prepare, ReloadPolicy, RecheckPosition, PersistStale,
                        Simulate, Abandon, TypeOK, policyVars
    <3>2. QED
      BY <3>1, PolicyQuiet
  <2>4. QED
    BY <2>1, <2>2, <2>3
<1>2. ASSUME NEW c \in Clients, ReserveAndClaim(c) PROVE PolicyInv'
  <2>1. Quiet(c)
    BY <1>2 DEF ReserveAndClaim, LookupRow, CreateRow, ClaimRow, FollowRow,
                TypeOK, policyVars
  <2>2. QED
    BY <2>1, PolicyQuiet
<1>3. ASSUME NEW c \in Clients, Settle(c) PROVE PolicyInv'
  <2>1. Quiet(c)
    BY <1>3 DEF Settle, SendBroadcast, BroadcastAnswered, BroadcastFails,
                RecordBroadcast, RecordUnknown, PollTerminal, PollGivesUp,
                VerifyEffect, VerifyFails, PersistConfirmed, RecordFailed,
                TypeOK, policyVars
  <2>2. QED
    BY <2>1, PolicyQuiet
<1>4. ASSUME NEW c \in Clients, Fault(c) PROVE PolicyInv'
  <2>1. Quiet(c)
    BY <1>4 DEF Fault, StatusThrows, WriteThrows, CommitUntold, Crash, TypeOK, policyVars
  <2>2. QED
    BY <2>1, PolicyQuiet
<1>5. CASE World
  <2>1. CASE SavePolicy
    BY <2>1, MaxVersionIsNat DEF SavePolicy, PolicyInv, TypeOK, Versions, Clients
  <2>2. CASE ~SavePolicy
    BY <1>5, <2>2 DEF World, MovePosition, KeeperHubAccepts, EffectLands,
                      PolicyInv, policyVars
  <2>3. QED
    BY <2>1, <2>2
<1>6. CASE UNCHANGED vars
  BY <1>6 DEF vars, policyVars, PolicyInv
<1>7. QED
  BY <1>1, <1>2, <1>3, <1>4, <1>5, <1>6 DEF Next

\* The worker never moves capital under a version that was saved as disabled or
\* in another mode, for any number of saves in between.
THEOREM AutonomyRespected == Spec => []AutonomousOnly
<1>1. Init => PolicyInv
  BY DEF Init, PolicyInv, Clients
<1>2. TypeOK /\ PolicyInv /\ [Next]_vars => PolicyInv'
  BY PolicyNext
<1>3. TypeOK /\ PolicyInv => AutonomousOnly
  BY DEF TypeOK, PolicyInv, AutonomousOnly, Policies, Clients, AfterClaim
<1>4. QED
  BY <1>1, <1>2, <1>3, TypeCorrect, PTL DEF Spec

-----------------------------------------------------------------------------
(***************************************************************************)
(* Refinement.  The abstract variables are the table's status column and   *)
(* the chain, so the mapping is the identity on names; the lifecycle       *)
(* invariant supplies the abstract guards.                                 *)
(***************************************************************************)
LEMMA StepImplements ==
  LifecycleInv /\ [Next]_vars => [Abstract!Next]_(Abstract!vars)
<1> SUFFICES ASSUME LifecycleInv, [Next]_vars
             PROVE  Abstract!Next \/ UNCHANGED <<status, landed, doubted>>
  BY DEF Abstract!vars
<1> USE DEF dbVars, worldVars, Leave, Goto, SetStatus
<1> DEFINE Goal == Abstract!Next \/ UNCHANGED <<status, landed, doubted>>
<1>0. ASSUME NEW c \in Clients, pc[c] \in AfterClaim
      PROVE  /\ Key(c) \in Keys
             /\ \/ status[Key(c)] = "SUBMITTED"
                \/ pc[c] = "failing" /\ status[Key(c)] = "CONFIRMED" /\ Key(c) \in doubted
  BY <1>0, KeyInKeys DEF LifecycleInv, SoleOwner, AfterClaim
<1>1. ASSUME NEW c \in Clients, Prepare(c) PROVE Goal
  BY <1>1 DEF Prepare, LoadPolicy, Evaluate, ReloadPolicy, RecheckPosition,
              PersistStale, Simulate, Abandon
<1>2. ASSUME NEW c \in Clients, ReserveAndClaim(c) PROVE Goal
  <2>0. Key(c) \in Keys
    BY KeyInKeys, <1>2
       DEF LifecycleInv, ReserveAndClaim, LookupRow, CreateRow, ClaimRow
  <2>1. CASE LookupRow(c)
    BY <2>1 DEF LookupRow
  <2>2. CASE CreateRow(c)
    <3>1. CASE status[Key(c)] = "ABSENT"
      <4>1. Abstract!Reserve(Key(c))
        BY <2>2, <3>1 DEF CreateRow, Abstract!Reserve, Abstract!Move
      <4>2. QED
        BY <4>1, <2>0 DEF Abstract!Next
    <3>2. CASE status[Key(c)] # "ABSENT"
      BY <2>2, <3>2 DEF CreateRow
    <3>3. QED
      BY <3>1, <3>2
  <2>3. CASE ClaimRow(c)
    <3>1. CASE Claimable(Key(c))
      <4>1. Abstract!Claim(Key(c))
        BY <2>3, <3>1 DEF ClaimRow, Claimable, Abstract!Claim, Abstract!Move
      <4>2. QED
        BY <4>1, <2>0 DEF Abstract!Next
    <3>2. CASE ~Claimable(Key(c))
      BY <2>3, <3>2 DEF ClaimRow
    <3>3. QED
      BY <3>1, <3>2
  <2>4. QED
    BY <1>2, <2>1, <2>2, <2>3 DEF ReserveAndClaim
<1>3. ASSUME NEW c \in Clients, Settle(c) PROVE Goal
  <2>1. CASE RecordUnknown(c) \/ PollGivesUp(c) \/ RecordFailed(c)
    <3>1. Abstract!GiveUp(Key(c)) \/ Abstract!Retract(Key(c))
      BY <2>1, <1>0 DEF RecordUnknown, PollGivesUp, RecordFailed, AfterClaim,
                        Abstract!GiveUp, Abstract!Retract, Abstract!Move
    <3>2. QED
      BY <3>1, <2>1, <1>0 DEF RecordUnknown, PollGivesUp, RecordFailed,
                              AfterClaim, Abstract!Next
  <2>2. CASE PersistConfirmed(c)
    <3>1. landed[Key(c)] = 1
      BY <2>2, <1>0 DEF PersistConfirmed, AfterClaim, LifecycleInv, TypeOK,
                        OwnerInv, RequestsInv
    <3>2. Abstract!Confirm(Key(c))
      BY <2>2, <3>1, <1>0 DEF PersistConfirmed, AfterClaim, Abstract!Confirm,
                              Abstract!Move
    <3>3. QED
      BY <3>2, <2>2, <1>0 DEF PersistConfirmed, AfterClaim, Abstract!Next
  <2>3. CASE \/ SendBroadcast(c) \/ BroadcastAnswered(c) \/ BroadcastFails(c)
             \/ RecordBroadcast(c) \/ PollTerminal(c)
             \/ VerifyEffect(c) \/ VerifyFails(c)
    BY <2>3 DEF SendBroadcast, BroadcastAnswered, BroadcastFails,
                RecordBroadcast, PollTerminal, VerifyEffect, VerifyFails
  <2>4. QED
    BY <1>3, <2>1, <2>2, <2>3 DEF Settle
<1>4. ASSUME NEW c \in Clients, Fault(c) PROVE Goal
  <2>1. CASE StatusThrows(c) \/ WriteThrows(c) \/ Crash(c)
    BY <2>1 DEF StatusThrows, WriteThrows, Crash
  <2>2. CASE CommitUntold(c)
    <3>0. Key(c) \in Keys
      BY <2>2, KeyInKeys DEF CommitUntold, LifecycleInv
    <3>1. CASE pc[c] = "claim"
      <4>1. Abstract!Claim(Key(c))
        BY <2>2, <3>1 DEF CommitUntold, Claimable, Abstract!Claim, Abstract!Move
      <4> QED
        BY <3>0, <4>1 DEF Abstract!Next
    <3>2. CASE pc[c] = "record"
      BY <2>2, <3>2 DEF CommitUntold
    <3>3. CASE pc[c] = "confirm"
      <4>1. landed[Key(c)] = 1
        BY <3>0, <3>3 DEF LifecycleInv, TypeOK, OwnerInv, RequestsInv
      <4>2. Abstract!Confirm(Key(c))
        BY <2>2, <3>3, <4>1, <1>0 DEF CommitUntold, AfterClaim, Abstract!Confirm, Abstract!Move
      <4> QED
        BY <3>0, <4>2 DEF Abstract!Next
    <3> QED
      BY <2>2, <3>1, <3>2, <3>3 DEF CommitUntold
  <2> QED
    BY <1>4, <2>1, <2>2 DEF Fault
<1>5. CASE World
  <2>1. CASE SavePolicy \/ MovePosition
    BY <2>1 DEF SavePolicy, MovePosition
  <2>2. ASSUME NEW k \in Keys, KeeperHubAccepts(k) PROVE Goal
    BY <2>2 DEF KeeperHubAccepts
  <2>3. ASSUME NEW k \in Keys, EffectLands(k) PROVE Goal
    <3>1. landed[k] = 0 /\ sent[k] > 0
      BY <2>3 DEF EffectLands, LifecycleInv, TypeOK, RequestsInv
    <3>2. status[k] \notin {"ABSENT", "NOT_STARTED"}
      BY <3>1 DEF LifecycleInv, TypeOK, RequestsInv
    <3>3. Abstract!TakeEffect(k)
      BY <2>3, <3>1, <3>2 DEF EffectLands, LifecycleInv, TypeOK,
                              Abstract!TakeEffect
    <3>4. QED
      BY <3>3 DEF Abstract!Next
  <2>4. QED
    BY <1>5, <2>1, <2>2, <2>3 DEF World
<1>6. CASE UNCHANGED vars
  BY <1>6 DEF vars
<1>7. QED
  BY <1>1, <1>2, <1>3, <1>4, <1>5, <1>6 DEF Next

\* Execution.tla implements Intervention.tla: at most one effect per key, after
\* its claim; statuses that only move forward; CONFIRMED only with the effect, and taken back
\* only for want of an acknowledgement.
THEOREM Refinement == Spec => ImplementsIntervention
<1>1. Init => Abstract!Init
  BY DEF Init, Abstract!Init
<1>2. LifecycleInv /\ [Next]_vars => [Abstract!Next]_(Abstract!vars)
  BY StepImplements
<1>3. QED
  BY <1>1, <1>2, Lifecycle, PTL DEF Spec, ImplementsIntervention, Abstract!Spec
=============================================================================
