-------------------------- MODULE SpendLimitsProofs -------------------------
(***************************************************************************)
(* Theorems about SpendLimits.tla, for any number of executors and         *)
(* interventions and any limits.                                           *)
(***************************************************************************)
EXTENDS SpendLimits, FiniteProofs, TLAPS

LEMMA TypeInit == Init => TypeOK
BY LimitsAreNat DEF Init, TypeOK, Time, PCs, Statuses

LEMMA TypeNext == TypeOK /\ [Next]_vars => TypeOK'
<1> SUFFICES ASSUME TypeOK, [Next]_vars
             PROVE  TypeOK'
  OBVIOUS
<1> USE LimitsAreNat, NoKeyIsNoKey DEF TypeOK, Time, PCs
<1>1. CASE UNCHANGED vars
  BY <1>1 DEF vars, rows
<1>2. CASE Tick
  BY <1>2 DEF Tick, rows
<1>3. ASSUME NEW x \in Executors, ReadPosition(x) \/ RereadPosition(x)
      PROVE  TypeOK'
  BY <1>3 DEF ReadPosition, RereadPosition, rows
<1>4. ASSUME NEW x \in Executors, ChooseCandidate(x) \/ RecheckCandidate(x)
      PROVE  TypeOK'
  BY <1>4 DEF ChooseCandidate, RecheckCandidate, Goto, rows
<1>5. ASSUME NEW x \in Executors,
             Abandon(x) \/ DieBeforeClaim(x) \/ DieAfterClaim(x)
      PROVE  TypeOK'
  BY <1>5 DEF Abandon, DieBeforeClaim, DieAfterClaim, Leave, rows
<1>6. ASSUME NEW x \in Executors, Reserve(x)
      PROVE  TypeOK'
  BY <1>6 DEF Reserve, Goto, Leave, Statuses
<1>7. ASSUME NEW x \in Executors, Claim(x)
      PROVE  TypeOK'
  BY <1>7 DEF Claim, Goto, Leave, Statuses, Counted
<1>8. ASSUME NEW x \in Executors, Settle(x)
      PROVE  TypeOK'
  BY <1>8 DEF Settle, Leave, Statuses, Counted
<1>9. QED
  BY <1>1, <1>2, <1>3, <1>4, <1>5, <1>6, <1>7, <1>8 DEF Next, Attempt

\* Type correctness in every reachable state: in particular no attempt reaches
\* revalidation, the reservation or the claim without its candidate.
THEOREM LimitsTypeCorrect == Spec => []TypeOK
<1>1. Init => TypeOK
  BY TypeInit
<1>2. TypeOK /\ [Next]_vars => TypeOK'
  BY TypeNext
<1>3. QED
  BY <1>1, <1>2, PTL DEF Spec

-----------------------------------------------------------------------------
(***************************************************************************)
(* The cooldown of one executor.  The context judges fetchedAt, the        *)
(* property the time of the claim; between the two lie three awaits and    *)
(* the steps of everybody else.  What carries over is that the rows of an  *)
(* executor do not change while it is on its way to a claim of its own:    *)
(* only the owner of a row settles it, and createdAt is written once.      *)
(***************************************************************************)

\* A context is never judged for a time to come.
FetchedInPast == \A x \in Executors : fetchedAt[x] <= now

\* Who settles a row is the one who claimed it.
SettlesOwn ==
  \A x \in Executors :
    pc[x] = "settle" => status[intent[x]] = "SUBMITTED" /\ owner[intent[x]] = x

\* On the way from the last check to the claim, the executor's own rows are at
\* least a cooldown old.
OwnRested ==
  \A x \in Executors : pc[x] \in {"reserve", "claim"} =>
    \A j \in Keys : status[j] \in Counted /\ owner[j] = x
                    => createdAt[j] + Cooldown <= now

CooldownInv == TypeOK /\ FetchedInPast /\ SettlesOwn /\ OwnRested

LEMMA CooldownInit == Init => CooldownInv
BY TypeInit, LimitsAreNat
   DEF Init, CooldownInv, FetchedInPast, SettlesOwn, OwnRested

\* Rested speaks of the rows in the window; a cooldown that is not longer than
\* the window makes it speak of all of them.
LEMMA RestedCoversAll ==
  ASSUME TypeOK, Cooldown <= Window, NEW t \in Time, Rested(t),
         NEW j \in Keys, status[j] \in Counted
  PROVE  createdAt[j] + Cooldown <= t
<1>1. createdAt[j] \in Nat /\ t \in Nat
  BY LimitsAreNat DEF TypeOK, Time
<1>2. CASE createdAt[j] + Window >= t
  BY <1>2 DEF Rested, Seen
<1>3. CASE ~(createdAt[j] + Window >= t)
  BY <1>1, <1>3, LimitsAreNat
<1>4. QED
  BY <1>2, <1>3

LEMMA CooldownNext ==
  ASSUME Cooldown <= Window, CooldownInv, [Next]_vars
  PROVE  CooldownInv'
<1> USE LimitsAreNat, NoKeyIsNoKey DEF CooldownInv
<1>t. TypeOK'
  BY TypeNext
<1>n. /\ now \in Nat
      /\ \A k \in Keys : createdAt[k] \in Nat
      /\ \A x \in Executors : fetchedAt[x] \in Nat
  BY DEF TypeOK, Time
<1>1. CASE UNCHANGED vars
  BY <1>1, <1>t DEF vars, rows, FetchedInPast, SettlesOwn, OwnRested
<1>2. CASE Tick
  <2>1. FetchedInPast'
    BY <1>2, <1>n DEF Tick, FetchedInPast
  <2>2. SettlesOwn'
    BY <1>2 DEF Tick, SettlesOwn, rows
  <2>3. OwnRested'
    BY <1>2, <1>n DEF Tick, OwnRested, rows
  <2>4. QED
    BY <1>t, <2>1, <2>2, <2>3
<1>3. ASSUME NEW x \in Executors, ReadPosition(x) \/ RereadPosition(x)
      PROVE  CooldownInv'
  <2>1. FetchedInPast'
    BY <1>3, <1>n DEF ReadPosition, RereadPosition, FetchedInPast, TypeOK
  <2>2. SettlesOwn' /\ OwnRested'
    BY <1>3 DEF ReadPosition, RereadPosition, SettlesOwn, OwnRested, TypeOK, rows
  <2>3. QED
    BY <1>t, <2>1, <2>2
<1>4. ASSUME NEW x \in Executors, ChooseCandidate(x)
      PROVE  CooldownInv'
  <2>1. FetchedInPast'
    BY <1>4, <1>n DEF ChooseCandidate, FetchedInPast, TypeOK
  <2>2. SettlesOwn' /\ OwnRested'
    BY <1>4 DEF ChooseCandidate, SettlesOwn, OwnRested, TypeOK, rows
  <2>3. QED
    BY <1>t, <2>1, <2>2
<1>5. ASSUME NEW x \in Executors, RecheckCandidate(x)
      PROVE  CooldownInv'
  <2>1. FetchedInPast'
    BY <1>5, <1>n DEF RecheckCandidate, Goto, FetchedInPast, TypeOK
  <2>2. SettlesOwn'
    BY <1>5 DEF RecheckCandidate, Goto, SettlesOwn, TypeOK, rows
  <2>3. ASSUME NEW j \in Keys, status[j] \in Counted
        PROVE  createdAt[j] + Cooldown <= now
    <3>1. fetchedAt[x] \in Time /\ Rested(fetchedAt[x])
      BY <1>5 DEF RecheckCandidate, WithinLimits, TypeOK
    <3>2. createdAt[j] + Cooldown <= fetchedAt[x]
      BY <2>3, <3>1, RestedCoversAll
    <3>3. QED
      BY <1>n, <3>2 DEF FetchedInPast
  <2>4. OwnRested'
    BY <1>5, <2>3 DEF RecheckCandidate, Goto, OwnRested, TypeOK, rows
  <2>5. QED
    BY <1>t, <2>1, <2>2, <2>4
<1>6. ASSUME NEW x \in Executors,
             Abandon(x) \/ DieBeforeClaim(x) \/ DieAfterClaim(x)
      PROVE  CooldownInv'
  <2>1. FetchedInPast'
    BY <1>6, <1>n
       DEF Abandon, DieBeforeClaim, DieAfterClaim, Leave, FetchedInPast, TypeOK
  <2>2. SettlesOwn' /\ OwnRested'
    BY <1>6 DEF Abandon, DieBeforeClaim, DieAfterClaim, Leave,
                SettlesOwn, OwnRested, TypeOK, rows
  <2>3. QED
    BY <1>t, <2>1, <2>2
<1>7. ASSUME NEW x \in Executors, Reserve(x)
      PROVE  CooldownInv'
  <2>1. FetchedInPast'
    BY <1>7, <1>n DEF Reserve, Goto, Leave, FetchedInPast, TypeOK
  <2>2. /\ owner' = owner
        /\ \A j \in Keys : status[j] \in Counted \/ status'[j] \in Counted
                => status'[j] = status[j] /\ createdAt'[j] = createdAt[j]
    BY <1>7 DEF Reserve, Counted, TypeOK
  <2>3. \A y \in Executors : y # x => pc'[y] = pc[y] /\ intent'[y] = intent[y]
    BY <1>7 DEF Reserve, Goto, Leave, TypeOK
  <2>4. pc[x] = "reserve" /\ pc'[x] \in {"claim", "idle"} /\ now' = now
    BY <1>7 DEF Reserve, Goto, Leave, TypeOK
  <2>5. SettlesOwn'
    BY <2>2, <2>3, <2>4 DEF SettlesOwn, TypeOK, Counted
  <2>6. OwnRested'
    BY <2>2, <2>3, <2>4 DEF OwnRested
  <2>7. QED
    BY <1>t, <2>1, <2>5, <2>6
<1>8. ASSUME NEW x \in Executors, Claim(x)
      PROVE  CooldownInv'
  <2>1. FetchedInPast'
    BY <1>8, <1>n DEF Claim, Goto, Leave, FetchedInPast, TypeOK
  <2>2. \A y \in Executors : y # x => pc'[y] = pc[y] /\ intent'[y] = intent[y]
    BY <1>8 DEF Claim, Goto, Leave, TypeOK
  <2>3. createdAt' = createdAt /\ now' = now
    BY <1>8 DEF Claim, Goto, Leave
  <2>4. CASE status[intent[x]] = "NOT_STARTED"
    <3>1. /\ pc' = [pc EXCEPT ![x] = "settle"]
          /\ intent' = intent
          /\ status' = [status EXCEPT ![intent[x]] = "SUBMITTED"]
          /\ owner' = [owner EXCEPT ![intent[x]] = x]
      BY <1>8, <2>4 DEF Claim, Goto
    <3>2. intent[x] \in Keys
      BY <1>8 DEF Claim, TypeOK
    <3>3. SettlesOwn'
      BY <2>4, <3>1, <3>2 DEF SettlesOwn, TypeOK
    <3>4. OwnRested'
      BY <2>2, <2>3, <3>1, <3>2 DEF OwnRested, TypeOK
    <3>5. QED
      BY <1>t, <2>1, <3>3, <3>4
  <2>5. CASE status[intent[x]] # "NOT_STARTED"
    <3>1. pc' = [pc EXCEPT ![x] = "idle"] /\ UNCHANGED <<status, owner>>
      BY <1>8, <2>5 DEF Claim, Leave
    <3>2. SettlesOwn' /\ OwnRested'
      BY <2>2, <2>3, <3>1 DEF SettlesOwn, OwnRested, TypeOK
    <3>3. QED
      BY <1>t, <2>1, <3>2
  <2>6. QED
    BY <2>4, <2>5
<1>9. ASSUME NEW x \in Executors, Settle(x)
      PROVE  CooldownInv'
  <2>1. FetchedInPast'
    BY <1>9, <1>n DEF Settle, Leave, FetchedInPast, TypeOK
  <2>2. /\ pc' = [pc EXCEPT ![x] = "idle"]
        /\ \A y \in Executors : y # x => intent'[y] = intent[y]
        /\ UNCHANGED <<now, createdAt, owner>>
    BY <1>9 DEF Settle, Leave, TypeOK
  <2>3. intent[x] \in Keys /\ status[intent[x]] = "SUBMITTED"
           /\ owner[intent[x]] = x
    BY <1>9 DEF Settle, SettlesOwn, TypeOK
  <2>4. \A j \in Keys : j # intent[x] => status'[j] = status[j]
    BY <1>9 DEF Settle, TypeOK
  <2>5. SettlesOwn'
    BY <2>2, <2>3, <2>4 DEF SettlesOwn, TypeOK
  <2>6. OwnRested'
    BY <2>2, <2>3, <2>4 DEF OwnRested, TypeOK
  <2>7. QED
    BY <1>t, <2>1, <2>5, <2>6
<1>10. QED
  BY <1>1, <1>2, <1>3, <1>4, <1>5, <1>6, <1>7, <1>8, <1>9 DEF Next, Attempt

\* A key that is claimed in a step is claimed by an executor that stands at the
\* claim and becomes its owner.
LEMMA ClaimerIsOwner ==
  ASSUME CooldownInv, [Next]_vars, NEW k \in Keys, Claimed(k)
  PROVE  \E x \in Executors : pc[x] = "claim" /\ owner'[k] = x
<1>1. ASSUME NEW x \in Executors, Claim(x)
      PROVE  pc[x] = "claim" /\ owner'[k] = x
  BY <1>1 DEF Claim, Claimed, CooldownInv, TypeOK
<1>2. ASSUME NEW x \in Executors, Settle(x)
      PROVE  FALSE
  BY <1>2 DEF Settle, Claimed, CooldownInv, SettlesOwn, TypeOK
<1>3. ASSUME NEW x \in Executors, Reserve(x)
      PROVE  FALSE
  BY <1>3 DEF Reserve, Claimed, CooldownInv, TypeOK
<1>4. CASE UNCHANGED status
  BY <1>4 DEF Claimed
<1>5. QED
  BY <1>1, <1>2, <1>3, <1>4
     DEF Next, Attempt, Tick, ReadPosition, ChooseCandidate, RereadPosition,
         RecheckCandidate, Abandon, DieBeforeClaim, DieAfterClaim, rows, vars

\* No executor commits capital within a cooldown of its own last counted row, if
\* the cooldown is not longer than the window of 24 hours that the context looks
\* back on.  The hypothesis is needed: validator.ts admits 525600 minutes.
THEOREM OwnCooldown == Cooldown <= Window /\ Spec => OwnCooldownKept
<1> SUFFICES ASSUME Cooldown <= Window
             PROVE  Spec => OwnCooldownKept
  OBVIOUS
<1>1. Init => CooldownInv
  BY CooldownInit
<1>2. CooldownInv /\ [Next]_vars => CooldownInv'
  BY CooldownNext
<1>3. CooldownInv /\ [Next]_vars =>
        [\A k, j \in Keys :
           Claimed(k) /\ status[j] \in Counted /\ owner[j] = owner'[k]
             => createdAt[j] + Cooldown <= now]_vars
  BY ClaimerIsOwner DEF CooldownInv, OwnRested
<1>4. QED
  BY <1>1, <1>2, <1>3, PTL DEF Spec, OwnCooldownKept

\* What was claimed has an owner.
Owned == \A j \in Keys : status[j] \in Counted => owner[j] \in Executors

LEMMA OwnedNext ==
  ASSUME CooldownInv, Owned, [Next]_vars
  PROVE  Owned'
<1>1. CASE UNCHANGED rows
  BY <1>1 DEF Owned, rows
<1>2. ASSUME NEW x \in Executors, Reserve(x)
      PROVE  Owned'
  BY <1>2 DEF Reserve, Owned, CooldownInv, TypeOK, Counted
<1>3. ASSUME NEW x \in Executors, Claim(x)
      PROVE  Owned'
  BY <1>3 DEF Claim, Owned, CooldownInv, TypeOK
<1>4. ASSUME NEW x \in Executors, Settle(x)
      PROVE  Owned'
  BY <1>4 DEF Settle, Owned, CooldownInv, SettlesOwn, TypeOK
<1>5. QED
  BY <1>1, <1>2, <1>3, <1>4
     DEF Next, Attempt, Tick, ReadPosition, ChooseCandidate, RereadPosition,
         RecheckCandidate, Abandon, DieBeforeClaim, DieAfterClaim, vars, rows

\* While the executors are one, the documented cooldown holds in full: what
\* breaks it is overlap and nothing else.
THEOREM LoneExecutorCooldown ==
  Cooldown <= Window /\ (\A x, y \in Executors : x = y) /\ Spec => CooldownKept
<1> SUFFICES ASSUME Cooldown <= Window, \A x, y \in Executors : x = y
             PROVE  Spec => CooldownKept
  OBVIOUS
<1> DEFINE Inv == CooldownInv /\ Owned
<1>1. Init => Inv
  BY CooldownInit DEF Init, Owned, Counted
<1>2. Inv /\ [Next]_vars => Inv'
  BY CooldownNext, OwnedNext
<1>3. Inv /\ [Next]_vars =>
        [\A k, j \in Keys :
           Claimed(k) /\ status[j] \in Counted => createdAt[j] + Cooldown <= now]_vars
  BY ClaimerIsOwner DEF CooldownInv, OwnRested, Owned
<1>4. QED
  BY <1>1, <1>2, <1>3, PTL DEF Spec, CooldownKept

-----------------------------------------------------------------------------
(***************************************************************************)
(* The burst.  The executors do not see each other's attempts, but each    *)
(* sees its own rows: of two that it owns, one is a cooldown old.          *)
(***************************************************************************)

\* Of two counted rows of one executor, one is at least a cooldown old.
OneRecent ==
  \A k, j \in Keys :
    status[k] \in Counted /\ status[j] \in Counted /\ owner[k] = owner[j] /\ k # j
      => createdAt[k] + Cooldown <= now \/ createdAt[j] + Cooldown <= now

\* What was evaluated, and what was claimed, is within the single cap.
Capped ==
  /\ \A x \in Executors : pc[x] \notin {"idle", "context"} => Cost[intent[x]] <= MaxSingle
  /\ \A k \in Keys : status[k] \in Counted => Cost[k] <= MaxSingle

BurstInv == CooldownInv /\ Owned /\ OneRecent /\ Capped

LEMMA BurstInit == Init => BurstInv
BY CooldownInit DEF Init, BurstInv, Owned, OneRecent, Capped, Counted

LEMMA OneRecentNext ==
  ASSUME BurstInv, [Next]_vars
  PROVE  OneRecent'
<1> USE LimitsAreNat
<1>1. TypeOK /\ OneRecent /\ now \in Nat /\ \A k \in Keys : createdAt[k] \in Nat
  BY DEF BurstInv, CooldownInv, TypeOK, Time
<1>2. CASE UNCHANGED rows /\ (now' = now \/ now' = now + 1)
  BY <1>1, <1>2 DEF OneRecent, rows
<1>3. ASSUME NEW x \in Executors, Reserve(x) PROVE OneRecent'
  <2>1. /\ owner' = owner /\ now' = now
        /\ \A j \in Keys : status'[j] \in Counted
             => status[j] \in Counted /\ createdAt'[j] = createdAt[j]
    BY <1>1, <1>3 DEF Reserve, Goto, Leave, Counted, TypeOK
  <2> QED
    BY <1>1, <2>1 DEF OneRecent
<1>4. ASSUME NEW x \in Executors, Claim(x) PROVE OneRecent'
  <2>1. createdAt' = createdAt /\ now' = now /\ intent[x] \in Keys /\ pc[x] = "claim"
    BY <1>1, <1>4 DEF Claim, Goto, Leave, TypeOK
  <2>2. CASE status[intent[x]] = "NOT_STARTED"
    <3>1. /\ status' = [status EXCEPT ![intent[x]] = "SUBMITTED"]
          /\ owner' = [owner EXCEPT ![intent[x]] = x]
      BY <1>4, <2>2 DEF Claim
    <3>2. \A j \in Keys : status[j] \in Counted /\ owner[j] = x => createdAt[j] + Cooldown <= now
      BY <2>1 DEF BurstInv, CooldownInv, OwnRested
    <3>3. \A j \in Keys \ {intent[x]} : status'[j] = status[j] /\ owner'[j] = owner[j]
      BY <1>1, <3>1 DEF TypeOK
    <3>4. owner'[intent[x]] = x
      BY <1>1, <2>1, <3>1 DEF TypeOK
    <3> QED
      BY <1>1, <2>1, <3>2, <3>3, <3>4 DEF OneRecent
  <2>3. CASE status[intent[x]] # "NOT_STARTED"
    <3>1. UNCHANGED <<status, owner>>
      BY <1>4, <2>3 DEF Claim
    <3> QED
      BY <1>1, <2>1, <3>1 DEF OneRecent
  <2> QED
    BY <2>2, <2>3
<1>5. ASSUME NEW x \in Executors, Settle(x) PROVE OneRecent'
  <2>1. createdAt' = createdAt /\ now' = now /\ owner' = owner
    BY <1>5 DEF Settle, Leave
  <2>2. status[intent[x]] = "SUBMITTED" /\ intent[x] \in Keys
    BY <1>1, <1>5 DEF Settle, BurstInv, CooldownInv, SettlesOwn, TypeOK
  <2>3. \A j \in Keys : status'[j] \in Counted => status[j] \in Counted
    BY <1>1, <1>5, <2>2 DEF Settle, TypeOK, Counted
  <2> QED
    BY <1>1, <2>1, <2>3 DEF OneRecent
<1> QED
  BY <1>2, <1>3, <1>4, <1>5
     DEF Next, Attempt, Tick, ReadPosition, ChooseCandidate, RereadPosition, Goto, Leave,
         RecheckCandidate, Abandon, DieBeforeClaim, DieAfterClaim, vars, rows

LEMMA CappedNext ==
  ASSUME BurstInv, [Next]_vars
  PROVE  Capped'
<1>1. TypeOK /\ Capped
  BY DEF BurstInv, CooldownInv
<1>2. CASE UNCHANGED vars \/ Tick
  BY <1>1, <1>2 DEF Capped, vars, rows, Tick
<1>3. ASSUME NEW x \in Executors,
             \/ ReadPosition(x) \/ RereadPosition(x) \/ RecheckCandidate(x)
             \/ Abandon(x) \/ DieBeforeClaim(x) \/ DieAfterClaim(x)
      PROVE  Capped'
  BY <1>1, <1>3 DEF ReadPosition, RereadPosition, RecheckCandidate, Abandon, DieBeforeClaim,
     DieAfterClaim, Goto, Leave, Capped, TypeOK, rows
<1>4. ASSUME NEW x \in Executors, ChooseCandidate(x) PROVE Capped'
  BY <1>1, <1>4 DEF ChooseCandidate, WithinLimits, Capped, TypeOK, rows
<1>5. ASSUME NEW x \in Executors, Reserve(x) PROVE Capped'
  <2>1. \A j \in Keys : status'[j] \in Counted => status[j] \in Counted
    BY <1>1, <1>5 DEF Reserve, Counted, TypeOK
  <2>2. \A y \in Executors : pc'[y] \notin {"idle", "context"} =>
          intent'[y] = intent[y] /\ pc[y] \notin {"idle", "context"}
    BY <1>1, <1>5 DEF Reserve, Goto, Leave, TypeOK
  <2> QED
    BY <1>1, <2>1, <2>2 DEF Capped
<1>6. ASSUME NEW x \in Executors, Claim(x) PROVE Capped'
  <2>1. \A j \in Keys : status'[j] \in Counted => status[j] \in Counted \/ j = intent[x]
    BY <1>1, <1>6 DEF Claim, Counted, TypeOK
  <2>2. \A y \in Executors : pc'[y] \notin {"idle", "context"} =>
          intent'[y] = intent[y] /\ pc[y] \notin {"idle", "context"}
    BY <1>1, <1>6 DEF Claim, Goto, Leave, TypeOK
  <2>3. Cost[intent[x]] <= MaxSingle
    BY <1>1, <1>6 DEF Claim, Capped
  <2> QED
    BY <1>1, <2>1, <2>2, <2>3 DEF Capped
<1>7. ASSUME NEW x \in Executors, Settle(x) PROVE Capped'
  <2>1. \A j \in Keys : status'[j] \in Counted => status[j] \in Counted
    BY <1>1, <1>7 DEF Settle, BurstInv, CooldownInv, SettlesOwn, Counted, TypeOK
  <2>2. \A y \in Executors : pc'[y] \notin {"idle", "context"} =>
          intent'[y] = intent[y] /\ pc[y] \notin {"idle", "context"}
    BY <1>1, <1>7 DEF Settle, Leave, TypeOK
  <2> QED
    BY <1>1, <2>1, <2>2 DEF Capped
<1> QED
  BY <1>2, <1>3, <1>4, <1>5, <1>6, <1>7 DEF Next, Attempt

LEMMA BurstNext ==
  ASSUME Cooldown <= Window, BurstInv, [Next]_vars
  PROVE  BurstInv'
BY CooldownNext, OwnedNext, OneRecentNext, CappedNext DEF BurstInv

\* The rows within a cooldown are as many as the executors, at most, and each is
\* within the single cap.
LEMMA BurstIs == BurstInv => BurstBounded
<1> SUFFICES ASSUME BurstInv, NEW t \in Time, t + Cooldown > now
             PROVE  Committed(t) <= Cardinality(Executors) * MaxSingle
  BY DEF BurstBounded
<1> DEFINE S == {k \in Keys : status[k] \in Counted /\ createdAt[k] >= t}
           f == [k \in S |-> owner[k]]
<1>1. /\ now \in Nat /\ t \in Nat /\ \A k \in Keys : createdAt[k] \in Nat
      /\ Cost \in [Keys -> Nat] /\ Cooldown \in Nat /\ MaxSingle \in Nat
  BY LimitsAreNat DEF BurstInv, CooldownInv, TypeOK, Time
<1>2. f \in Injection(S, Executors)
  <2>1. f \in [S -> Executors]
    BY DEF BurstInv, Owned
  <2>2. ASSUME NEW k \in S, NEW j \in S, f[k] = f[j] PROVE k = j
    <3>1. ~(createdAt[k] + Cooldown <= now) /\ ~(createdAt[j] + Cooldown <= now)
      BY <1>1
    <3> QED
      BY <2>2, <3>1 DEF BurstInv, OneRecent
  <2> QED
    BY <2>1, <2>2 DEF Injection, IsInjective
<1>3. Committed(t) = SumFunctionOnSet(Cost, S)
  BY DEF Committed, MapThenSumSet, SumFunctionOnSet, FoldFunctionOnSet
<1>4. NatOn(Cost, S) /\ \A k \in S : Cost[k] <= MaxSingle
  BY <1>1 DEF NatOn, BurstInv, Capped
<1> HIDE DEF S, f
<1>5. IsFiniteSet(S) /\ Cardinality(S) <= Cardinality(Executors)
  BY <1>2, ExecutorsFinite, FS_Injection
<1>6. SumFunctionOnSet(Cost, S) <= Cardinality(S) * MaxSingle /\ SumFunctionOnSet(Cost, S) \in Nat
  BY <1>1, <1>4, <1>5, SumBound, SumType
<1>7. Cardinality(S) \in Nat /\ Cardinality(Executors) \in Nat
  BY <1>5, ExecutorsFinite, FS_CardinalityType
<1>8. Cardinality(S) * MaxSingle <= Cardinality(Executors) * MaxSingle
  BY <1>1, <1>5, <1>7
<1>9. Cardinality(S) * MaxSingle \in Nat /\ Cardinality(Executors) * MaxSingle \in Nat
  BY <1>1, <1>7
<1> QED
  BY <1>3, <1>6, <1>8, <1>9

\* What does bound a burst, where the documented cap and cooldown do not: within
\* a cooldown the executors commit one intervention each, within the single cap.
\* Each judges its own rows, which hold still until its claim.
THEOREM BurstIsBounded == Cooldown <= Window /\ Spec => []BurstBounded
<1> SUFFICES ASSUME Cooldown <= Window
             PROVE  Spec => []BurstBounded
  OBVIOUS
<1>1. BurstInv /\ [Next]_vars => BurstInv'
  BY BurstNext
<1> QED
  BY <1>1, BurstInit, BurstIs, PTL DEF Spec
=============================================================================
