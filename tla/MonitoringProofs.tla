-------------------------- MODULE MonitoringProofs --------------------------
(***************************************************************************)
(* What the monitoring cycle may do with capital, proved for any number of *)
(* workers, and what it has told the owner, proved for one worker; for any *)
(* offers, policies and faults, and without bounds on runs.                *)
(***************************************************************************)
EXTENDS Monitoring, FiniteProofs

-----------------------------------------------------------------------------
(***************************************************************************)
(* What a cycle computes is well typed.                                    *)
(***************************************************************************)

\* The engine's choice is an action or none.
LEMMA MEIType ==
  ASSUME NEW offer \in Seq(Actions), NEW guarded
  PROVE  MEI(offer, guarded) \in Actions \cup {NoAction}
<1> DEFINE free == {i \in DOMAIN offer : offer[i] \notin guarded}
<1>1. CASE free # {}
  <2>1. free \in SUBSET Nat
    OBVIOUS
  <2>2. Min(free) \in DOMAIN offer
    <3> HIDE DEF free
    <3>1. Min(free) \in free
      BY <1>1, <2>1, MinIsElement
    <3> QED
      BY <3>1 DEF free
  <2>3. QED
    BY <1>1, <2>2 DEF MEI
<1>2. CASE free = {}
  BY <1>2 DEF MEI
<1>3. QED
  BY <1>1, <1>2

LEMMA SelectedType ==
  ASSUME NEW offer \in Seq(Actions), NEW guarded
  PROVE  SelectedAction(offer, guarded) \in Actions \cup {NoAction}
BY MEIType DEF SelectedAction

\* What previousNotificationState returns has the type of the local.
LEMMA PreviousStateType ==
  ASSUME TypeOK, NEW r
  PROVE  PreviousState(r) \in Histories
<1>1. Recorded(r) \in SUBSET (0 .. Len(runs)) /\ Len(runs) \in Nat
  BY DEF TypeOK, Recorded
<1>2. Boundary(r) \in Nat
  <2> DEFINE S == {0} \cup {i \in Recorded(r) : runs[i].decision = 0}
  <2>1. S \in SUBSET (0 .. Len(runs)) /\ S # {}
    BY <1>1
  <2>2. Max(S) \in S
    <3> HIDE DEF S
    <3> QED
      BY <1>1, <2>1, MaxIsElement
  <2>3. QED
    BY <2>1, <2>2 DEF Boundary
<1>3. NothingBefore \in Histories
  BY DEF NothingBefore, Histories, Blockers
<1>4. CASE Recorded(r) = {}
  BY <1>3, <1>4 DEF PreviousState
<1>5. CASE Recorded(r) # {}
  <2> DEFINE m == Max(Recorded(r))
  <2>1. m \in DOMAIN runs
    BY <1>1, <1>5, MaxIsElement DEF Recorded
  <2>2. CASE runs[m].decision = 0
    BY <1>2, <1>5, <2>2 DEF PreviousState, NothingBefore, Histories, Blockers
  <2>3. CASE runs[m].decision # 0
    <3> DEFINE d == decisions[runs[m].decision]
    <3>1. d \in [risk : Levels, action : Actions \cup {NoAction}, mode : Modes,
                 blocker : Blockers, readiness : Readiness]
      <4> DEFINE D == [risk : Levels, action : Actions \cup {NoAction}, mode : Modes,
                       blocker : Blockers, readiness : Readiness]
      <4>1. decisions \in Seq(D) /\ runs[m].decision \in 0 .. Len(decisions)
        BY <2>1 DEF TypeOK
      <4>2. runs[m].decision \in 1 .. Len(decisions)
        BY <2>3, <4>1
      <4>3. QED
        <5> HIDE DEF D, m
        <5>1. decisions[runs[m].decision] \in D
          BY <4>1, <4>2
        <5>2. QED
          BY <5>1 DEF D
    <3>2. PreviousState(r) =
            [risk |-> d.risk, blocker |-> d.blocker, action |-> d.action, mode |-> d.mode,
             episode |-> Boundary(r), pending |-> runs[m].status = "READY_TO_EXECUTE"]
      BY <1>5, <2>3 DEF PreviousState
    <3>3. QED
      BY <1>2, <3>1, <3>2 DEF Histories
  <2>4. QED
    BY <2>2, <2>3
<1>6. QED
  BY <1>4, <1>5

-----------------------------------------------------------------------------
(***************************************************************************)
(* Types.                                                                  *)
(***************************************************************************)

LEMMA TypeInit == Init => TypeOK
<1> SUFFICES ASSUME Init PROVE TypeOK
  OBVIOUS
<1>1. NoWork \in Locals
  BY DEF NoWork, NothingBefore, Locals, Histories, Blockers, Readiness
<1>2. saved \in Seq(Policies) /\ saved # <<>>
  <2>1. PICK p \in Policies : saved = <<p>>
    BY DEF Init
  <2>2. QED
    BY <2>1
<1>3. \A w \in Workers : work[w] = NoWork /\ pc[w] = "idle"
  BY DEF Init
<1>4. work \in [Workers -> Locals] /\ pc \in [Workers -> PCs]
  BY <1>1 DEF Init, PCs
<1>5. NoWork.decision = 0 /\ Len(decisions) = 0
  BY DEF NoWork, Init
<1>6. executed = {} /\ faults = 0 /\ runs = <<>> /\ decisions = <<>>
  BY DEF Init
<1>7. QED
  BY <1>2, <1>3, <1>4, <1>5, <1>6 DEF TypeOK

\* The rows of the database, without the locals of the workers.
RowsOK ==
  /\ saved \in Seq(Policies) /\ saved # <<>>
  /\ runs \in Seq([status : RunStatuses, snapshot : BOOLEAN, decision : Nat])
  /\ decisions \in Seq([risk : Levels, action : Actions \cup {NoAction}, mode : Modes,
                        blocker : Blockers, readiness : Readiness])
  /\ \A i \in DOMAIN runs : /\ runs[i].decision \in 0 .. Len(decisions)
                            /\ runs[i].decision # 0 => runs[i].snapshot
  /\ executed \subseteq Actions \X (1 .. Version)
  /\ faults \in Nat

\* What TypeOK says of a worker at the label l with the locals v, when there
\* are n decisions.
LocalOK(l, v, n) ==
  /\ l \in PCs /\ v \in Locals
  /\ v.decision \in 0 .. n
  /\ l \notin {"idle", "loaded", "prepare", "catch"} => v.policy \in 1 .. Version
  /\ l \in {"execute", "started"} => v.chosen \in Actions
  /\ l = "started" => v.key \in v.policy .. Version

\* A step of one worker keeps the types if it keeps those of the rows and its
\* own, and no decision disappears.
LEMMA TypeStep ==
  ASSUME TypeOK, NEW w \in Workers, NEW l, NEW v,
         saved' = saved, RowsOK', LocalOK(l, v, Len(decisions')), Len(decisions) <= Len(decisions'),
         pc' = [pc EXCEPT ![w] = l], work' = [work EXCEPT ![w] = v]
  PROVE  TypeOK'
<1>1. pc' \in [Workers -> PCs] /\ work' \in [Workers -> Locals]
  BY DEF TypeOK, LocalOK
<1>2. \A u \in Workers : pc'[u] = (IF u = w THEN l ELSE pc[u])
                         /\ work'[u] = (IF u = w THEN v ELSE work[u])
  BY DEF TypeOK
<1>3. Len(decisions) \in Nat /\ Len(decisions') \in Nat /\ Version' = Version
  BY DEF TypeOK, RowsOK, Version
<1>4. ASSUME NEW u \in Workers
      PROVE  /\ work'[u].decision \in 0 .. Len(decisions')
             /\ pc'[u] \notin {"idle", "loaded", "prepare", "catch"} => work'[u].policy \in 1 .. Version'
             /\ pc'[u] \in {"execute", "started"} => work'[u].chosen \in Actions
             /\ pc'[u] = "started" => work'[u].key \in work'[u].policy .. Version'
  <2>1. CASE u = w
    BY <1>2, <1>3, <2>1 DEF LocalOK
  <2>2. CASE u # w
    BY <1>2, <1>3, <2>2 DEF TypeOK
  <2>3. QED
    BY <2>1, <2>2
<1>5. QED
  BY <1>1, <1>4 DEF TypeOK, RowsOK

LEMMA TypeRows == TypeOK => RowsOK
BY DEF TypeOK, RowsOK

\* The database is left as it is: only the worker's own part is to be shown.
LEMMA TypeLocalStep ==
  ASSUME TypeOK, NEW w \in Workers, NEW l, NEW v,
         UNCHANGED <<saved, database, executed>>, faults' \in Nat, LocalOK(l, v, Len(decisions)),
         pc' = [pc EXCEPT ![w] = l], work' = [work EXCEPT ![w] = v]
  PROVE  TypeOK'
<1>1. RowsOK'
  BY TypeRows DEF RowsOK, database, Version
<1>2. LocalOK(l, v, Len(decisions')) /\ Len(decisions) <= Len(decisions')
  BY DEF LocalOK, database, Version, TypeOK
<1>3. QED
  BY <1>1, <1>2, TypeStep

\* Nothing but the label changes.
LEMMA TypeGoto ==
  ASSUME TypeOK, NEW w \in Workers, NEW l \in PCs \ {"execute", "started"},
         UNCHANGED <<saved, database, executed, work>>, faults' \in Nat,
         pc[w] \notin {"idle", "loaded", "prepare", "catch"}, Goto(w, l)
  PROVE  TypeOK'
<1>1. work' = [work EXCEPT ![w] = work[w]]
  BY DEF TypeOK
<1>2. LocalOK(l, work[w], Len(decisions))
  BY DEF TypeOK, LocalOK
<1>3. QED
  BY <1>1, <1>2, TypeLocalStep DEF Goto

\* There is a policy.
LEMMA PolicyType ==
  TypeOK => /\ Version \in Nat \ {0} /\ Version \in 1 .. Version
            /\ \A i \in 1 .. Version : saved[i].mode \in Modes /\ saved[i].guarded \in SUBSET Actions
<1> SUFFICES ASSUME TypeOK
             PROVE  /\ Version \in Nat \ {0}
                    /\ \A i \in 1 .. Version : saved[i].mode \in Modes
                                             /\ saved[i].guarded \in SUBSET Actions
  OBVIOUS
<1>1. Version \in Nat \ {0} /\ \A i \in 1 .. Version : saved[i] \in Policies
  BY DEF TypeOK, Version
<1>2. QED
  BY <1>1, MonitoringConstants

\* Sending a notice changes no type.
LEMMA NoticeType ==
  ASSUME TypeOK, NEW n, SafeNotify(n) \/ Silent
  PROVE  faults' \in Nat
BY DEF SafeNotify, Stored, NotStored, Strikes, Silent, told, TypeOK

\* The locals take a decision and keep the rest.
LEMMA DecisionLocal ==
  ASSUME NEW x \in Locals, NEW n \in Nat
  PROVE  LET v == [x EXCEPT !.decision = n]
         IN  v \in Locals /\ v.policy = x.policy /\ v.decision = n
BY DEF Locals

LEMMA ObserveType ==
  ASSUME TypeOK, NEW w \in Workers, Observe(w)
  PROVE  TypeOK'
<1> USE DEF Goto
<1>0. LocalOK(pc[w], work[w], Len(decisions)) /\ work[w] \in Locals
  BY DEF TypeOK, LocalOK
<1>00. work = [work EXCEPT ![w] = work[w]]
  BY DEF TypeOK
<1>1. CASE Load(w)
  <2> DEFINE v == [work[w] EXCEPT !.mode = Policy.mode]
  <2>1. Policy.mode \in Modes
    BY MonitoringConstants DEF TypeOK, Policy, Version
  <2>2. LocalOK("loaded", v, Len(decisions))
    BY <1>0, <2>1 DEF LocalOK, PCs, Locals
  <2>3. work' = [work EXCEPT ![w] = v] /\ pc' = [pc EXCEPT ![w] = "loaded"]
    BY <1>1 DEF Load
  <2>4. faults' \in Nat /\ UNCHANGED <<saved, database, executed>>
    BY <1>1 DEF Load, told, TypeOK
  <2>5. QED
    <3> HIDE DEF v
    <3> QED
      BY <2>2, <2>3, <2>4, TypeLocalStep
<1>2. CASE OpenRun(w)
  <2> DEFINE r == Len(runs) + 1
             v == [work[w] EXCEPT !.run = r, !.prev = PreviousState(r)]
  <2>1. LocalOK("prepare", v, Len(decisions))
    <3> PreviousState(r) \in Histories /\ r \in Nat
      BY PreviousStateType DEF TypeOK
    <3> QED
      BY <1>0 DEF LocalOK, PCs, Locals
  <2>2. work' = [work EXCEPT ![w] = v] /\ pc' = [pc EXCEPT ![w] = "prepare"]
    BY <1>2 DEF OpenRun
  <2>3. RowsOK'
    <3> DEFINE RunType == [status : RunStatuses, snapshot : BOOLEAN, decision : Nat]
               new == [status |-> "RUNNING", snapshot |-> FALSE, decision |-> 0]
    <3>1. new \in RunType /\ runs \in Seq(RunType)
      BY DEF RunStatuses, TypeOK
    <3>2. UNCHANGED <<saved, decisions, faults, executed>> /\ runs' = Append(runs, new)
      BY <1>2 DEF OpenRun, told
    <3>3. runs' \in Seq(RunType)
      BY <3>1, <3>2
    <3>4. \A i \in DOMAIN runs' : runs'[i] = new \/ (i \in DOMAIN runs /\ runs'[i] = runs[i])
      <4> HIDE DEF new, RunType
      <4> QED
        BY <3>1, <3>2
    <3>5. Len(decisions) \in Nat
      BY DEF TypeOK
    <3>6. \A i \in DOMAIN runs' : /\ runs'[i].decision \in 0 .. Len(decisions')
                                  /\ runs'[i].decision # 0 => runs'[i].snapshot
      BY <3>2, <3>4, <3>5 DEF TypeOK
    <3>7. QED
      BY <3>2, <3>3, <3>6 DEF RowsOK, Version, TypeOK
  <2>4. LocalOK("prepare", v, Len(decisions')) /\ saved' = saved /\ Len(decisions) <= Len(decisions')
    BY <1>2, <2>1 DEF OpenRun, LocalOK, Version, TypeOK
  <2>5. QED
    <3> HIDE DEF v
    <3> QED
      BY <2>2, <2>3, <2>4, TypeStep
<1>3. CASE Analyse(w)
  <2>1. PICK v : /\ \/ v = [work[w] EXCEPT !.policy = Version]
                    \/ \E risk \in Levels, offer \in Offers :
                         v = [work[w] EXCEPT !.policy = Version, !.risk = risk, !.offer = offer]
                 /\ work' = [work EXCEPT ![w] = v]
    BY <1>3 DEF Analyse
  <2>2. LocalOK("persist", v, Len(decisions))
    BY <1>0, <2>1, PolicyType, MonitoringConstants DEF LocalOK, PCs, Locals
  <2>3. /\ pc' = [pc EXCEPT ![w] = "persist"] /\ faults' \in Nat
        /\ UNCHANGED <<saved, database, executed>>
    BY <1>3 DEF Analyse, told, TypeOK
  <2>4. QED
    BY <2>1, <2>2, <2>3, TypeLocalStep
<1>4. CASE Persist(w)
  <2> DEFINE p == saved[work[w].policy]
             d == [risk |-> work[w].risk, action |-> SelectedAction(work[w].offer, p.guarded),
                   mode |-> p.mode, blocker |-> "NONE", readiness |-> "NONE"]
             D == [risk : Levels, action : Actions \cup {NoAction}, mode : Modes,
                   blocker : Blockers, readiness : Readiness]
  <2>0. pc' = [pc EXCEPT ![w] = "risk"] /\ UNCHANGED <<saved, runs, executed, faults>>
    BY <1>4 DEF Persist, told
  <2>1. CASE Unsafe(work[w].risk)
    <3> DEFINE v == [work[w] EXCEPT !.decision = Len(decisions) + 1]
    <3>1. d \in D
      <4>1. work[w].risk \in Levels
        BY <1>0, <2>1 DEF Unsafe, Locals
      <4>2. p.mode \in Modes
        BY <1>4, PolicyType DEF Persist, TypeOK
      <4>3. SelectedAction(work[w].offer, p.guarded) \in Actions \cup {NoAction}
        BY <1>0, SelectedType DEF Locals
      <4>4. QED
        BY <4>1, <4>2, <4>3 DEF Blockers, Readiness
    <3>2. decisions' = Append(decisions, d) /\ work' = [work EXCEPT ![w] = v]
      BY <1>4, <2>1 DEF Persist
    <3>3. decisions \in Seq(D)
      BY DEF TypeOK
    <3>4. decisions' \in Seq(D) /\ Len(decisions) \in Nat /\ Len(decisions') = Len(decisions) + 1
      <4> HIDE DEF d, D
      <4> QED
        BY <3>1, <3>2, <3>3
    <3>5. RowsOK'
      BY <2>0, <3>4, TypeRows DEF RowsOK, Version
    <3>6. LocalOK("risk", v, Len(decisions'))
      <4>1. work[w].policy \in 1 .. Version
        BY <1>4 DEF Persist, TypeOK
      <4>2. v \in Locals /\ v.policy = work[w].policy /\ v.decision = Len(decisions')
        <5> HIDE DEF d, D, p
        <5>1. Len(decisions) + 1 \in Nat
          BY <3>4
        <5>2. QED
          BY <1>0, <3>4, <5>1, DecisionLocal
      <4>3. QED
        BY <3>4, <4>1, <4>2 DEF LocalOK, PCs
    <3>7. Len(decisions) <= Len(decisions')
      BY <3>4
    <3>8. QED
      <4> HIDE DEF v, d, D
      <4> QED
        BY <2>0, <3>2, <3>5, <3>6, <3>7, TypeStep
  <2>2. CASE ~Unsafe(work[w].risk)
    <3>1. UNCHANGED <<saved, database, executed, work>> /\ faults' \in Nat
      BY <1>4, <2>0, <2>2 DEF Persist, database, TypeOK
    <3>2. QED
      BY <1>4, <2>0, <3>1, TypeGoto DEF Persist, PCs
  <2>3. QED
    BY <2>1, <2>2
<1>5. CASE AnnounceRisk(w)
  <2>1. faults' \in Nat
    BY <1>5, NoticeType DEF AnnounceRisk
  <2>2. PICK l \in {"action", "complete"} : Goto(w, l)
    BY <1>5 DEF AnnounceRisk
  <2>3. QED
    BY <1>5, <2>1, <2>2, TypeGoto DEF AnnounceRisk, PCs
<1>6. CASE AnnounceAction(w)
  <2>1. faults' \in Nat
    BY <1>6, NoticeType DEF AnnounceAction
  <2>2. PICK l \in {"blocker", "select"} : Goto(w, l)
    BY <1>6 DEF AnnounceAction
  <2>3. QED
    BY <1>6, <2>1, <2>2, TypeGoto DEF AnnounceAction, PCs
<1>7. QED
  BY <1>1, <1>2, <1>3, <1>4, <1>5, <1>6 DEF Observe

\* The outcome or the blocker is set.
LEMMA TypeOutcome ==
  ASSUME TypeOK, NEW w \in Workers, NEW l \in {"ask", "report"}, NEW o \in Outcomes, NEW b \in Blockers,
         UNCHANGED <<saved, database, told, executed>>, Goto(w, l),
         pc[w] \in {"simulate", "execute", "started"},
         \/ work' = [work EXCEPT ![w].outcome = o]
         \/ work' = [work EXCEPT ![w].blocker = b]
  PROVE  TypeOK'
<1>1. PICK v \in {[work[w] EXCEPT !.outcome = o], [work[w] EXCEPT !.blocker = b]} :
        work' = [work EXCEPT ![w] = v]
  OBVIOUS
<1>2. work[w] \in Locals /\ LocalOK(pc[w], work[w], Len(decisions)) /\ work[w].policy \in 1 .. Version
  BY DEF TypeOK, LocalOK
<1>3. v \in Locals /\ v.policy = work[w].policy /\ v.decision = work[w].decision
  BY <1>1, <1>2 DEF Locals
<1>4. LocalOK(l, v, Len(decisions))
  BY <1>2, <1>3 DEF LocalOK, PCs
<1>5. faults' \in Nat
  BY DEF told, TypeOK
<1>6. QED
  BY <1>1, <1>4, <1>5, TypeLocalStep DEF Goto

LEMMA InterveneType ==
  ASSUME TypeOK, NEW w \in Workers, Intervene(w)
  PROVE  TypeOK'
<1>0. LocalOK(pc[w], work[w], Len(decisions)) /\ work[w] \in Locals
  BY DEF TypeOK, LocalOK
<1>1. CASE Select(w)
  <2> DEFINE eligible == Eligible(work[w].offer, saved[work[w].policy].guarded, work[w].mode)
             tried(a) == IF a = NoAction /\ eligible = {} THEN "NONE"
                         ELSE IF a = NoAction THEN "NOT_READY" ELSE "READY"
             next(a)  == Disposition(work[w].mode, a # NoAction, tried(a) = "READY")
             block(a) == IF next(a) = "BLOCK" THEN "INSUFFICIENT_FUNDING" ELSE "NONE"
             label(a) == CASE next(a) = "SIMULATE" -> "simulate" [] next(a) = "EXECUTE" -> "execute"
                           [] OTHER -> "blocker"
  <2>1. PICK a \in eligible \cup {NoAction} :
          /\ work' = [work EXCEPT ![w].chosen = a, ![w].readiness = tried(a), ![w].blocker = block(a)]
          /\ Goto(w, label(a))
    BY <1>1 DEF Select
  <2> DEFINE v == [work[w] EXCEPT !.chosen = a, !.readiness = tried(a), !.blocker = block(a)]
  <2>2. eligible \subseteq Actions
    BY <1>0 DEF Eligible, Locals, Range
  <2>3. work[w].policy \in 1 .. Version
    BY <1>1 DEF Select, TypeOK
  <2>4. /\ tried(a) \in Readiness /\ block(a) \in Blockers
        /\ label(a) \in {"simulate", "execute", "blocker"}
        /\ label(a) = "execute" => a # NoAction
    BY DEF Disposition, Readiness, Blockers
  <2>5. v \in Locals /\ v.policy = work[w].policy /\ v.decision = work[w].decision /\ v.chosen = a
    <3> HIDE DEF eligible, tried, block, label
    <3> QED
      BY <1>0, <2>2, <2>4 DEF Locals
  <2>6. LocalOK(label(a), v, Len(decisions))
    <3> HIDE DEF v, eligible, label
    <3> QED
      BY <1>0, <2>1, <2>2, <2>3, <2>4, <2>5 DEF LocalOK, PCs
  <2>7. faults' \in Nat /\ UNCHANGED <<saved, database, executed>>
    BY <1>1 DEF Select, told, TypeOK
  <2>8. work' = [work EXCEPT ![w] = v] /\ pc' = [pc EXCEPT ![w] = label(a)]
    <3> HIDE DEF tried, block, label, next
    <3> QED
      BY <2>1 DEF Goto
  <2>9. QED
    <3> HIDE DEF v, label
    <3> QED
      BY <2>6, <2>7, <2>8, TypeLocalStep
<1>2. CASE \/ Simulate(w) \/ ExecutionStale(w) \/ ExecutionRefused(w)
           \/ PreparationFails(w) \/ SimulationFails(w)
  <2> "NONE" \in Blockers /\ "READY_TO_EXECUTE" \in Outcomes
    BY DEF Blockers, Outcomes
  <2>1. CASE Simulate(w)
    BY <2>1, TypeOutcome DEF Simulate
  <2>2. CASE ExecutionStale(w)
    BY <2>2, "POSITION_CHANGED" \in Outcomes, TypeOutcome DEF ExecutionStale, Outcomes
  <2>3. CASE ExecutionRefused(w)
    BY <2>3, "AUTONOMOUS_MODE_NOT_ENABLED" \in Blockers, TypeOutcome DEF ExecutionRefused, Blockers
  <2>4. CASE SimulationFails(w)
    BY <2>4, "SIMULATION_FAILED" \in Blockers, TypeOutcome DEF SimulationFails, Blockers
  <2>5. CASE PreparationFails(w)
    BY <2>5, "EXECUTION_FAILED" \in Blockers, TypeOutcome DEF PreparationFails, Blockers
  <2>6. QED
    BY <1>2, <2>1, <2>2, <2>3, <2>4, <2>5
<1>3. CASE AskApproval(w)
  <2>1. faults' \in Nat
    BY <1>3, NoticeType DEF AskApproval
  <2>2. QED
    BY <1>3, <2>1, TypeGoto DEF AskApproval, PCs
<1>4. CASE ExecutionStarts(w)
  <2>0. PICK l \in {"started", "report"} : pc' = [pc EXCEPT ![w] = l] /\ faults' \in Nat
    BY <1>4 DEF ExecutionStarts, AnnounceStart, Stored, NotStored, Strikes, Goto, TypeOK
  <2>1. PICK b \in Blockers :
          work' = [work EXCEPT ![w].key = Version, ![w].blocker = b]
    <3>1. "NONE" \in Blockers /\ "EXECUTION_FAILED" \in Blockers
      BY DEF Blockers
    <3>2. QED
      BY <1>4, <3>1 DEF ExecutionStarts
  <2> DEFINE v == [work[w] EXCEPT !.key = Version, !.blocker = b]
  <2>2. work[w].policy \in 1 .. Version /\ work[w].chosen \in Actions
    BY <1>4 DEF ExecutionStarts, TypeOK
  <2>3. /\ v \in Locals /\ v.policy = work[w].policy /\ v.decision = work[w].decision
        /\ v.chosen = work[w].chosen /\ v.key = Version
    BY <1>0, PolicyType DEF Locals
  <2>4. LocalOK(l, v, Len(decisions))
    <3> HIDE DEF v
    <3> QED
      BY <1>0, <2>2, <2>3, PolicyType DEF LocalOK, PCs
  <2>5. UNCHANGED <<saved, database, executed>>
    BY <1>4 DEF ExecutionStarts
  <2>6. work' = [work EXCEPT ![w] = v]
    BY <2>1
  <2>7. QED
    <3> HIDE DEF v
    <3> QED
      BY <2>0, <2>4, <2>5, <2>6, TypeLocalStep
<1>5. CASE ExecutionEnds(w)
  <2>0. PICK o \in Outcomes, b \in Blockers :
          \/ work' = [work EXCEPT ![w].outcome = o]
          \/ work' = [work EXCEPT ![w].blocker = b]
    BY <1>5 DEF ExecutionEnds, Outcomes, Blockers
  <2>1. PICK v \in {[work[w] EXCEPT !.outcome = o], [work[w] EXCEPT !.blocker = b]} :
          work' = [work EXCEPT ![w] = v]
    BY <2>0
  <2>2. /\ work[w].policy \in 1 .. Version /\ work[w].chosen \in Actions
        /\ work[w].key \in work[w].policy .. Version
    BY <1>5 DEF ExecutionEnds, TypeOK
  <2>3. LocalOK("report", v, Len(decisions))
    BY <1>0, <2>1, <2>2 DEF LocalOK, PCs, Locals
  <2>4. /\ UNCHANGED <<saved, database, faults>> /\ pc' = [pc EXCEPT ![w] = "report"]
        /\ executed' = executed \cup {<<work[w].chosen, work[w].key>>}
    BY <1>5 DEF ExecutionEnds, told, Goto
  <2>5. RowsOK'
    <3>1. work[w].key \in 1 .. Version
      BY <2>2, PolicyType
    <3>2. executed' \subseteq Actions \X (1 .. Version')
      BY <2>2, <2>4, <3>1, TypeRows DEF RowsOK, Version
    <3>3. QED
      BY <2>4, <3>2, TypeRows DEF RowsOK, database
  <2>6. Len(decisions) <= Len(decisions') /\ LocalOK("report", v, Len(decisions')) /\ saved' = saved
    BY <2>3, <2>4 DEF database, TypeOK
  <2>7. QED
    BY <2>1, <2>4, <2>5, <2>6, TypeStep
<1>6. CASE ReportExecution(w)
  <2>1. faults' \in Nat
    BY <1>6, NoticeType DEF ReportExecution
  <2>2. QED
    BY <1>6, <2>1, TypeGoto DEF ReportExecution, PCs
<1>7. QED
  BY <1>1, <1>2, <1>3, <1>4, <1>5, <1>6 DEF Intervene

\* A worker that leaves keeps nothing.
LEMMA TypeLeave ==
  ASSUME TypeOK, NEW w \in Workers, Leave(w), RowsOK', saved' = saved, decisions' = decisions
  PROVE  TypeOK'
<1>1. NoWork \in Locals /\ NoWork.decision = 0
  BY DEF NoWork, NothingBefore, Locals, Histories, Blockers, Readiness
<1>2. Len(decisions) \in Nat /\ decisions' = decisions
  BY DEF TypeOK
<1>3. LocalOK("idle", NoWork, Len(decisions'))
  BY <1>1, <1>2 DEF LocalOK, PCs
<1>4. Len(decisions) <= Len(decisions')
  BY <1>2
<1>5. QED
  BY <1>3, <1>4, TypeStep DEF Leave, Goto

\* A sequence is a function on an interval.
LEMMA SequenceIsFunction ==
  ASSUME NEW S, NEW q \in Seq(S)
  PROVE  q \in [1 .. Len(q) -> S] /\ Len(q) \in Nat
OBVIOUS

\* The row of a run may change its status, and take its snapshot with an
\* existing decision.
LEMMA RunRow ==
  ASSUME TypeOK, NEW r, NEW s \in RunStatuses, NEW n \in 0 .. Len(decisions),
         UNCHANGED <<saved, decisions, executed>>, faults' \in Nat,
         \/ runs' = [runs EXCEPT ![r].status = s]
         \/ runs' = [runs EXCEPT ![r] = [status |-> s, snapshot |-> TRUE, decision |-> n]]
  PROVE  RowsOK'
<1> DEFINE RunType == [status : RunStatuses, snapshot : BOOLEAN, decision : Nat]
<1>1. runs \in Seq(RunType) /\ Len(decisions) \in Nat
  BY DEF TypeOK
<1>2. runs \in [1 .. Len(runs) -> RunType] /\ Len(runs) \in Nat
  <2> HIDE DEF RunType
  <2> QED
    BY <1>1, SequenceIsFunction
<1>3. [status |-> s, snapshot |-> TRUE, decision |-> n] \in RunType
  BY <1>1
<1>4. \A i \in 1 .. Len(runs) : [runs[i] EXCEPT !.status = s] \in RunType
  BY <1>2
<1>5. runs' \in [1 .. Len(runs) -> RunType]
  <2> HIDE DEF RunType
  <2> QED
    BY <1>2, <1>3, <1>4
<1>6. runs' \in Seq(RunType) /\ DOMAIN runs' = DOMAIN runs
  <2> HIDE DEF RunType
  <2> QED
    BY <1>2, <1>5
<1>7. \A i \in DOMAIN runs : \/ runs'[i].decision = runs[i].decision /\ runs'[i].snapshot = runs[i].snapshot
                             \/ runs'[i].decision = n /\ runs'[i].snapshot
  BY <1>2
<1>8. QED
  BY <1>6, <1>7 DEF RowsOK, TypeOK, Version

LEMMA FinishType ==
  ASSUME TypeOK, NEW w \in Workers, Finish(w)
  PROVE  TypeOK'
<1>0. LocalOK(pc[w], work[w], Len(decisions)) /\ work[w] \in Locals
  BY DEF TypeOK, LocalOK
<1>1. CASE RecordBlocker(w)
  <2> DEFINE D == [risk : Levels, action : Actions \cup {NoAction}, mode : Modes,
                   blocker : Blockers, readiness : Readiness]
             d == work[w].decision
             v == [work[w] EXCEPT !.blocker = Reason(w)]
  <2>1. Reason(w) \in Blockers /\ work[w].readiness \in Readiness
    BY <1>0 DEF Reason, Blockers, Locals
  <2>2. /\ decisions' = [decisions EXCEPT ![d].blocker = Reason(w), ![d].readiness = work[w].readiness]
        /\ work' = [work EXCEPT ![w] = v] /\ pc' = [pc EXCEPT ![w] = "complete"]
        /\ UNCHANGED <<saved, runs, executed>>
    BY <1>1 DEF RecordBlocker, Goto
  <2>3. faults' \in Nat
    BY <1>1, NoticeType DEF RecordBlocker
  <2>4. decisions \in [1 .. Len(decisions) -> D] /\ Len(decisions) \in Nat
    <3>1. decisions \in Seq(D)
      BY DEF TypeOK
    <3>2. QED
      <4> HIDE DEF D
      <4> QED
        BY <3>1, SequenceIsFunction
  <2>5. \A i \in 1 .. Len(decisions) :
          [decisions[i] EXCEPT !.blocker = Reason(w), !.readiness = work[w].readiness] \in D
    BY <2>1, <2>4
  <2>6. decisions' \in [1 .. Len(decisions) -> D]
    <3> HIDE DEF D
    <3> QED
      BY <2>2, <2>4, <2>5
  <2>7. decisions' \in Seq(D) /\ Len(decisions') = Len(decisions)
    <3> HIDE DEF D
    <3> QED
      BY <2>4, <2>6
  <2>8. RowsOK'
    BY <2>2, <2>3, <2>7, TypeRows DEF RowsOK, Version
  <2>9. LocalOK("complete", v, Len(decisions'))
    <3>1. work[w].policy \in 1 .. Version
      BY <1>1 DEF RecordBlocker, TypeOK
    <3>2. v \in Locals /\ v.policy = work[w].policy /\ v.decision = work[w].decision
      <4> HIDE DEF D, d
      <4> QED
        BY <1>0, <2>1 DEF Locals
    <3>3. QED
      <4> HIDE DEF v, D
      <4> QED
        BY <1>0, <2>7, <3>1, <3>2 DEF LocalOK, PCs
  <2>10. Len(decisions) <= Len(decisions')
    BY <2>4, <2>7
  <2>11. QED
    <3> HIDE DEF v, d, D
    <3> QED
      BY <2>2, <2>8, <2>9, <2>10, TypeStep
<1>2. CASE Complete(w)
  <2>1. Status(w) \in RunStatuses
    BY <1>0 DEF Status, ResultStatus, RunStatuses, Outcomes, Locals
  <2>2. work[w].decision \in 0 .. Len(decisions)
    BY <1>0 DEF LocalOK
  <2>3. UNCHANGED <<saved, decisions, executed>> /\ faults' \in Nat
    BY <1>2 DEF Complete, told, TypeOK
  <2>4. RowsOK'
    BY <1>2, <2>1, <2>2, <2>3, RunRow DEF Complete
  <2>5. QED
    BY <1>2, <2>4, TypeLeave DEF Complete
<1>3. CASE Throw(w)
  <2>1. work' = [work EXCEPT ![w] = work[w]] /\ pc' = [pc EXCEPT ![w] = "catch"]
    BY <1>3 DEF Throw, Goto, TypeOK
  <2>2. LocalOK("catch", work[w], Len(decisions))
    BY <1>0 DEF LocalOK, PCs
  <2>3. UNCHANGED <<saved, database, executed>> /\ faults' \in Nat
    BY <1>3 DEF Throw, Strikes, TypeOK
  <2>4. QED
    BY <2>1, <2>2, <2>3, TypeLocalStep
<1>4. CASE Fail(w)
  <2>1. UNCHANGED <<saved, decisions, executed>>
    BY <1>4 DEF Fail
  <2>2. faults' \in Nat
    BY <1>4, NoticeType DEF Fail
  <2>3. "FAILED" \in RunStatuses /\ 0 \in 0 .. Len(decisions)
    BY DEF RunStatuses, TypeOK
  <2>4. RowsOK'
    BY <1>4, <2>1, <2>2, <2>3, RunRow DEF Fail
  <2>5. QED
    BY <1>4, <2>4, TypeLeave DEF Fail
<1>5. CASE Crash(w)
  <2>1. UNCHANGED <<saved, database, executed>> /\ faults' \in Nat
    BY <1>5 DEF Crash, Strikes, TypeOK
  <2>2. RowsOK'
    BY <2>1, TypeRows DEF RowsOK, database, Version
  <2>3. QED
    BY <1>5, <2>1, <2>2, TypeLeave DEF Crash, database
<1>6. QED
  BY <1>1, <1>2, <1>3, <1>4, <1>5 DEF Finish

LEMMA SaveType == TypeOK /\ SavePolicy => TypeOK'
<1> SUFFICES ASSUME TypeOK, SavePolicy PROVE TypeOK'
  OBVIOUS
<1>1. PICK p \in Policies : saved' = Append(saved, p)
  BY DEF SavePolicy
<1>2. UNCHANGED <<runs, decisions, faults, executed, pc, work>>
  BY DEF SavePolicy, database, told
<1>3. saved' \in Seq(Policies) /\ saved' # <<>> /\ Version \in Nat /\ Version' = Version + 1
  <2>1. saved \in Seq(Policies)
    BY DEF TypeOK
  <2>2. QED
    BY <1>1, <2>1 DEF Version
<1>4. 1 .. Version \subseteq 1 .. Version'
  BY <1>3
<1>5. executed' \subseteq Actions \X (1 .. Version')
  BY <1>2, <1>4 DEF TypeOK
<1>6. \A w \in Workers :
        /\ pc[w] \notin {"idle", "loaded", "prepare", "catch"} => work[w].policy \in 1 .. Version'
        /\ pc[w] = "started" => work[w].key \in work[w].policy .. Version'
  BY <1>3 DEF TypeOK
<1>7. QED
  BY <1>2, <1>3, <1>5, <1>6 DEF TypeOK

LEMMA TypeNext == TypeOK /\ [Next]_vars => TypeOK'
<1> SUFFICES ASSUME TypeOK, [Next]_vars PROVE TypeOK'
  OBVIOUS
<1>1. CASE SavePolicy
  BY <1>1, SaveType
<1>2. ASSUME NEW w \in Workers, Observe(w) \/ Intervene(w) \/ Finish(w) PROVE TypeOK'
  BY <1>2, ObserveType, InterveneType, FinishType
<1>3. CASE UNCHANGED vars
  BY <1>3 DEF vars, database, told, TypeOK, Version
<1>4. QED
  BY <1>1, <1>2, <1>3 DEF Next

\* Rows and locals keep their types whatever the workers and the owner do.
THEOREM CycleTypes == Spec => []TypeOK
BY TypeInit, TypeNext, PTL DEF Spec

-----------------------------------------------------------------------------
(***************************************************************************)
(* Authorization.  That executed keys are authorized is not inductive: a   *)
(* worker about to execute must hold an action its own analysis allowed,   *)
(* and one that has started a version that is AUTONOMOUS and a notice that *)
(* is stored.  Nothing afterwards takes that away, since versions are only *)
(* added and notices only grow.                                            *)
(***************************************************************************)
Committing == {"execute", "started"}

AuthInv ==
  /\ ExecutionAuthorized /\ OwnerToldFirst
  /\ \A w \in Workers :
       /\ pc[w] \in Committing => work[w].chosen \notin saved[work[w].policy].guarded
       /\ pc[w] = "started" => /\ saved[work[w].key].mode = "AUTONOMOUS"
                               /\ <<"STARTED", work[w].chosen, 0>> \in notices

LEMMA AuthInit == Init => AuthInv
BY DEF Init, AuthInv, ExecutionAuthorized, OwnerToldFirst, Committing

\* Nobody gets nearer to an execution.
LEMMA AuthQuiet ==
  ASSUME AuthInv, UNCHANGED <<saved, executed>>, notices \subseteq notices',
         \A u \in Workers : pc'[u] \in Committing => pc'[u] = pc[u] /\ work'[u] = work[u]
  PROVE  AuthInv'
BY DEF AuthInv, ExecutionAuthorized, OwnerToldFirst, Committing

\* Sending a notice removes none.
LEMMA NoticesGrow ==
  ASSUME NEW n, SafeNotify(n) \/ Silent
  PROVE  notices \subseteq notices'
BY DEF SafeNotify, Stored, NotStored, Silent, told

LEMMA ObserveAuth ==
  ASSUME TypeOK, AuthInv, NEW w \in Workers, Observe(w)
  PROVE  AuthInv'
<1>1. UNCHANGED <<saved, executed>>
  BY DEF Observe, Load, OpenRun, Analyse, Persist, AnnounceRisk, AnnounceAction
<1>2. notices \subseteq notices'
  <2>1. CASE Load(w) \/ OpenRun(w) \/ Analyse(w) \/ Persist(w)
    BY <2>1 DEF Load, OpenRun, Analyse, Persist, told
  <2>2. CASE AnnounceRisk(w)
    BY <2>2, NoticesGrow DEF AnnounceRisk
  <2>3. CASE AnnounceAction(w)
    BY <2>3, NoticesGrow DEF AnnounceAction
  <2>4. QED
    BY <2>1, <2>2, <2>3 DEF Observe
<1>3. PICK l : pc' = [pc EXCEPT ![w] = l] /\ l \notin Committing
  BY DEF Observe, Load, OpenRun, Analyse, Persist, AnnounceRisk, AnnounceAction, Goto, Committing
<1>4. \A u \in Workers \ {w} : work'[u] = work[u]
  BY DEF Observe, Load, OpenRun, Analyse, Persist, AnnounceRisk, AnnounceAction, TypeOK
<1>5. QED
  BY <1>1, <1>2, <1>3, <1>4, AuthQuiet DEF TypeOK

LEMMA InterveneAuth ==
  ASSUME TypeOK, AuthInv, NEW w \in Workers, Intervene(w)
  PROVE  AuthInv'
<1>1. CASE Select(w)
  <2> DEFINE guarded  == saved[work[w].policy].guarded
             eligible == Eligible(work[w].offer, guarded, work[w].mode)
             tried(a) == IF a = NoAction /\ eligible = {} THEN "NONE"
                         ELSE IF a = NoAction THEN "NOT_READY" ELSE "READY"
             next(a)  == Disposition(work[w].mode, a # NoAction, tried(a) = "READY")
             label(a) == CASE next(a) = "SIMULATE" -> "simulate" [] next(a) = "EXECUTE" -> "execute"
                           [] OTHER -> "blocker"
             block(a) == IF next(a) = "BLOCK" THEN "INSUFFICIENT_FUNDING" ELSE "NONE"
  <2>1. UNCHANGED <<saved, executed, notices>>
    BY <1>1 DEF Select, told
  <2>0. PICK a \in eligible \cup {NoAction} :
          /\ work' = [work EXCEPT ![w].chosen = a, ![w].readiness = tried(a), ![w].blocker = block(a)]
          /\ Goto(w, label(a))
    BY <1>1 DEF Select
  <2>2. /\ work'[w].chosen = a /\ work'[w].policy = work[w].policy
        /\ pc' = [pc EXCEPT ![w] = label(a)]
    <3> HIDE DEF eligible, tried, block, label, next
    <3> QED
      BY <2>0 DEF Goto, TypeOK, Locals
  <2>3. label(a) = "execute" => a \notin guarded
    BY <2>0 DEF Disposition, Eligible
  <2>4. label(a) # "started"
    BY DEF Disposition
  <2>5. \A u \in Workers : /\ u # w => pc'[u] = pc[u] /\ work'[u] = work[u]
                           /\ pc'[w] = label(a)
    <3> HIDE DEF label
    <3> QED
      BY <1>1, <2>2 DEF Select, TypeOK
  <2>6. QED
    <3> HIDE DEF label
    <3> QED
      BY <2>1, <2>2, <2>3, <2>4, <2>5 DEF AuthInv, ExecutionAuthorized, OwnerToldFirst, Committing
<1>2. CASE ExecutionStarts(w)
  <2>1. UNCHANGED <<saved, executed>> /\ Policy.mode = "AUTONOMOUS" /\ pc[w] = "execute"
    BY <1>2 DEF ExecutionStarts, MayStart
  <2>2. PICK l \in {"started", "report"} :
          /\ pc' = [pc EXCEPT ![w] = l] /\ notices \subseteq notices'
          /\ l = "started" => <<"STARTED", work[w].chosen, 0>> \in notices'
    BY <1>2 DEF ExecutionStarts, AnnounceStart, Stored, NotStored, Goto
  <2>3. /\ work'[w].chosen = work[w].chosen /\ work'[w].policy = work[w].policy
        /\ work'[w].key = Version
        /\ \A u \in Workers \ {w} : work'[u] = work[u]
    BY <1>2 DEF ExecutionStarts, TypeOK, Locals
  <2>4. /\ \A u \in Workers \ {w} : pc'[u] = pc[u]
        /\ pc'[w] = l
    BY <2>2 DEF TypeOK
  <2>5. QED
    BY <2>1, <2>2, <2>3, <2>4
       DEF AuthInv, ExecutionAuthorized, OwnerToldFirst, Committing, Policy
<1>3. CASE ExecutionEnds(w)
  <2> DEFINE k == <<work[w].chosen, work[w].key>>
  <2>1. UNCHANGED <<saved, notices>> /\ executed' = executed \cup {k} /\ pc[w] = "started"
    BY <1>3 DEF ExecutionEnds, told
  <2>2. /\ saved[k[2]].mode = "AUTONOMOUS" /\ <<"STARTED", k[1], 0>> \in notices
        /\ k[1] \notin saved[work[w].policy].guarded
    BY <2>1 DEF AuthInv, Committing
  <2>3. work[w].policy \in 1 .. k[2]
    <3>1. /\ work[w].policy \in 1 .. Version /\ Version \in Nat
          /\ work[w].key \in work[w].policy .. Version
      BY <2>1, PolicyType DEF TypeOK
    <3>2. QED
      BY <3>1
  <2>4. \A u \in Workers : pc'[u] \in Committing => pc'[u] = pc[u] /\ work'[u] = work[u]
    BY <1>3 DEF ExecutionEnds, Goto, Committing, TypeOK
  <2>5. ExecutionAuthorized' /\ OwnerToldFirst'
    BY <2>1, <2>2, <2>3 DEF AuthInv, ExecutionAuthorized, OwnerToldFirst
  <2>6. QED
    BY <2>1, <2>4, <2>5 DEF AuthInv, Committing
<1>4. CASE \/ Simulate(w) \/ AskApproval(w) \/ ExecutionStale(w) \/ ExecutionRefused(w)
           \/ PreparationFails(w) \/ SimulationFails(w) \/ ReportExecution(w)
  <2>1. UNCHANGED <<saved, executed>>
    BY <1>4 DEF Simulate, AskApproval, ExecutionStale, ExecutionRefused, PreparationFails,
                SimulationFails, ReportExecution
  <2>2. notices \subseteq notices'
    <3>1. CASE AskApproval(w)
      BY <3>1, NoticesGrow DEF AskApproval
    <3>2. CASE ReportExecution(w)
      BY <3>2, NoticesGrow DEF ReportExecution
    <3>3. CASE \/ Simulate(w) \/ ExecutionStale(w) \/ ExecutionRefused(w)
               \/ PreparationFails(w) \/ SimulationFails(w)
      BY <3>3 DEF Simulate, ExecutionStale, ExecutionRefused, PreparationFails, SimulationFails, told
    <3>4. QED
      BY <1>4, <3>1, <3>2, <3>3
  <2>3. PICK l : pc' = [pc EXCEPT ![w] = l] /\ l \notin Committing
    BY <1>4 DEF Simulate, AskApproval, ExecutionStale, ExecutionRefused, PreparationFails,
                SimulationFails, ReportExecution, Goto, Committing
  <2>4. \A u \in Workers \ {w} : work'[u] = work[u]
    BY <1>4 DEF Simulate, AskApproval, ExecutionStale, ExecutionRefused, PreparationFails,
                SimulationFails, ReportExecution, TypeOK
  <2>5. QED
    BY <2>1, <2>2, <2>3, <2>4, AuthQuiet DEF TypeOK
<1>5. QED
  BY <1>1, <1>2, <1>3, <1>4 DEF Intervene

LEMMA FinishAuth ==
  ASSUME TypeOK, AuthInv, NEW w \in Workers, Finish(w)
  PROVE  AuthInv'
<1>1. UNCHANGED <<saved, executed>>
  BY DEF Finish, RecordBlocker, Complete, Throw, Fail, Crash
<1>2. notices \subseteq notices'
  <2>1. CASE RecordBlocker(w)
    BY <2>1, NoticesGrow DEF RecordBlocker
  <2>2. CASE Fail(w)
    BY <2>2, NoticesGrow DEF Fail
  <2>3. CASE Complete(w) \/ Throw(w) \/ Crash(w)
    BY <2>3 DEF Complete, Throw, Crash, told
  <2>4. QED
    BY <2>1, <2>2, <2>3 DEF Finish
<1>3. PICK l : pc' = [pc EXCEPT ![w] = l] /\ l \notin Committing
  BY DEF Finish, RecordBlocker, Complete, Throw, Fail, Crash, Leave, Goto, Committing
<1>4. \A u \in Workers \ {w} : work'[u] = work[u]
  BY DEF Finish, RecordBlocker, Complete, Throw, Fail, Crash, Leave, TypeOK
<1>5. QED
  BY <1>1, <1>2, <1>3, <1>4, AuthQuiet DEF TypeOK

\* A new version leaves the old ones as they were.
LEMMA SaveAuth == TypeOK /\ AuthInv /\ SavePolicy => AuthInv'
<1> SUFFICES ASSUME TypeOK, AuthInv, SavePolicy PROVE AuthInv'
  OBVIOUS
<1>1. PICK p \in Policies : saved' = Append(saved, p)
  BY DEF SavePolicy
<1>2. UNCHANGED <<notices, executed, pc, work>>
  BY DEF SavePolicy, told
<1>3. Version \in Nat /\ \A i \in 1 .. Version : saved'[i] = saved[i]
  <2>1. saved \in Seq(Policies)
    BY DEF TypeOK
  <2>2. QED
    BY <1>1, <2>1 DEF Version
<1>4. \A k \in executed : k[2] \in 1 .. Version
  BY DEF TypeOK
<1>5. ExecutionAuthorized' /\ OwnerToldFirst'
  <2>1. \A k \in executed : \A v \in 1 .. k[2] : saved'[v] = saved[v]
    BY <1>3, <1>4
  <2>2. QED
    BY <1>2, <1>3, <1>4, <2>1 DEF AuthInv, ExecutionAuthorized, OwnerToldFirst
<1>6. \A w \in Workers : /\ pc[w] \in Committing => saved'[work[w].policy] = saved[work[w].policy]
                         /\ pc[w] = "started" => saved'[work[w].key] = saved[work[w].key]
  BY <1>3 DEF TypeOK, Committing
<1>7. QED
  BY <1>2, <1>5, <1>6 DEF AuthInv

LEMMA AuthNext == TypeOK /\ AuthInv /\ [Next]_vars => AuthInv'
<1> SUFFICES ASSUME TypeOK, AuthInv, [Next]_vars PROVE AuthInv'
  OBVIOUS
<1>1. CASE SavePolicy
  BY <1>1, SaveAuth
<1>2. ASSUME NEW w \in Workers, Observe(w) \/ Intervene(w) \/ Finish(w) PROVE AuthInv'
  BY <1>2, ObserveAuth, InterveneAuth, FinishAuth
<1>3. CASE UNCHANGED vars
  BY <1>3 DEF vars, told, AuthInv, ExecutionAuthorized, OwnerToldFirst
<1>4. QED
  BY <1>1, <1>2, <1>3 DEF Next

LEMMA AuthInvariant == Spec => []AuthInv
BY TypeInit, TypeNext, AuthInit, AuthNext, PTL DEF Spec

\* Capital is committed only under a version saved as AUTONOMOUS, for an
\* action that some version up to that one let pass without approval
\* (executeAutonomousProtection, selectExecutableCandidate).
THEOREM ExecutionIsAuthorized == Spec => []ExecutionAuthorized
<1>1. AuthInv => ExecutionAuthorized
  BY DEF AuthInv
<1>2. QED
  BY <1>1, AuthInvariant, PTL

\* Whatever faults strike, the start of an execution is in the notification
\* table before capital is committed (onCanonicalReady).
THEOREM OwnerIsToldFirst == Spec => []OwnerToldFirst
<1>1. AuthInv => OwnerToldFirst
  BY DEF AuthInv
<1>2. QED
  BY <1>1, AuthInvariant, PTL

-----------------------------------------------------------------------------
(***************************************************************************)
(* What the owner has been told.  A cycle compares its analysis with the   *)
(* last recorded run, so what is known of that run is an invariant only    *)
(* while nobody records another one in between: the four properties are    *)
(* proved for one worker, which is how the service is deployed, and TLC    *)
(* violates each of them with two.                                         *)
(***************************************************************************)
LoneWorker == \A u, v \in Workers : u = v

\* Labels at which the analysis of the cycle is persisted.
Evaluated == {"risk", "action", "select", "simulate", "ask", "execute", "started", "report",
              "blocker", "complete"}

\* What RiskCovered, BlockedKnown and ApprovalAsked say of a recorded run,
\* stated of any run, so that a cycle can owe it before it is recorded.
RiskToldAt(r, risk) ==
  \E i \in 1 .. r :
    /\ UnsafeSince(i, r)
    /\ \E l \in Levels : Rank(l) >= Rank(risk) /\ <<"RISK", l, i>> \in Attempted

BlockToldAt(r, reason) ==
  \E i \in 1 .. r :
    /\ <<"BLOCKED", reason, i>> \in Attempted
    /\ \A j \in i .. r : runs[j].snapshot => j \in UnsafeRuns /\ Decision(j).blocker = reason

Approval(d) == \E n \in Attempted : n[1] = "APPROVAL" /\ n[3] = d

AskedAt(r, d) ==
  \E i \in 1 .. r :
    /\ \A j \in i .. r : runs[j].snapshot => runs[j].status = "READY_TO_EXECUTE"
    /\ \E k \in 0 .. d : Approval(k) /\ \A j \in UnsafeRuns : j < i => k > runs[j].decision

\* Its locals v at the label l: the run of the cycle is the last one and what
\* it holds as history is what it would read now; ...
HistoryHeld(l, v) ==
  l \notin {"idle", "loaded"} =>
    /\ v.run = Len(runs) /\ v.run # 0 /\ ~ runs[v.run].snapshot
    /\ v.prev = PreviousState(v.run)

\* ... its decision is newer than every recorded one; ...
DecisionHeld(l, v) ==
  /\ l \in {"idle", "loaded", "prepare", "persist"} => v.decision = 0
  /\ l \in Evaluated =>
       /\ v.decision # 0 <=> Unsafe(v.risk)
       /\ v.decision # 0 => /\ decisions[v.decision].risk = v.risk
                            /\ \A i \in UnsafeRuns : runs[i].decision < v.decision
  /\ l \in Evaluated \ {"risk", "complete"} => Unsafe(v.risk)

\* ... and past each announcement, the run can be recorded as announced.
RiskHeld(l, v) ==
  l \in Evaluated \ {"risk"} /\ Unsafe(v.risk) => RiskToldAt(v.run, v.risk)

RecoveryHeld(l, v) ==
  l = "complete" /\ ~ Unsafe(v.risk) /\ Before(v.run) \in UnsafeRuns =>
    <<"RECOVERY", "SAFE", EpisodeOf(Before(v.run))>> \in Attempted

BlockHeld(l, v) ==
  l = "complete" /\ Unsafe(v.risk) =>
    /\ decisions[v.decision].blocker = v.blocker
    /\ v.blocker # "NONE" => BlockToldAt(v.run, v.blocker)

ApprovalHeld(l, v) ==
  v.outcome = "READY_TO_EXECUTE" =>
    /\ l \in {"ask", "blocker", "complete", "catch"}
    /\ l \in {"blocker", "complete"} => AskedAt(v.run, v.decision)

CycleHeld(l, v) == /\ HistoryHeld(l, v) /\ DecisionHeld(l, v) /\ RiskHeld(l, v)
                   /\ RecoveryHeld(l, v) /\ BlockHeld(l, v) /\ ApprovalHeld(l, v)

AllAsked ==
  \A r \in UnsafeRuns : runs[r].status = "READY_TO_EXECUTE" => AskedAt(r, runs[r].decision)

RecordedTold == RiskCovered /\ RecoveryPerEpisode /\ BlockedKnown /\ AllAsked

ToldInv == RecordedTold /\ \A w \in Workers : CycleHeld(pc[w], work[w])

RunsTyped ==
  /\ Len(runs) \in Nat /\ DOMAIN runs = 1 .. Len(runs)
  /\ \A i \in DOMAIN runs : /\ runs[i].snapshot \in BOOLEAN
                            /\ runs[i].decision \in 0 .. Len(decisions)
                            /\ runs[i].decision \in Nat
  /\ Len(decisions) \in Nat

LEMMA RunTypes == TypeOK => RunsTyped
<1> SUFFICES ASSUME TypeOK PROVE RunsTyped
  OBVIOUS
<1> DEFINE R == [status : RunStatuses, snapshot : BOOLEAN, decision : Nat]
<1>1. runs \in Seq(R) /\ Len(decisions) \in Nat
  BY DEF TypeOK
<1>2. \A i \in DOMAIN runs : runs[i].decision \in 0 .. Len(decisions)
  BY DEF TypeOK
<1>3. \A x \in R : x.snapshot \in BOOLEAN /\ x.decision \in Nat
  OBVIOUS
<1>4. QED
  <2> HIDE DEF R
  <2> QED
    BY <1>1, <1>2, <1>3 DEF RunsTyped

\* What a cycle reads as history is the run recorded last before it.
LEMMA PreviousRun ==
  ASSUME TypeOK, NEW r, r = Len(runs), r # 0, ~ runs[r].snapshot
  PROVE  \/ PreviousState(r) = NothingBefore /\ Before(r) \notin UnsafeRuns
         \/ \E m \in 1 .. r - 1 :
              /\ m = Before(r) /\ runs[m].snapshot
              /\ \A j \in 1 .. r : runs[j].snapshot => j <= m
              /\ runs[m].decision = 0 =>
                   /\ PreviousState(r).risk = "SAFE" /\ PreviousState(r).blocker = "NONE"
                   /\ ~ PreviousState(r).pending
              /\ runs[m].decision # 0 =>
                   /\ PreviousState(r).risk = Decision(m).risk
                   /\ PreviousState(r).blocker = Decision(m).blocker
                   /\ PreviousState(r).episode = EpisodeOf(m)
                   /\ PreviousState(r).pending <=> runs[m].status = "READY_TO_EXECUTE"
<1> DEFINE S == {i \in 1 .. r - 1 : runs[i].snapshot}
<1>1. r \in Nat /\ DOMAIN runs = 1 .. r /\ \A i \in 1 .. r : runs[i].decision \in Nat
  BY RunTypes DEF RunsTyped
<1>2. Recorded(r) = S /\ S \in SUBSET (0 .. r)
  BY <1>1 DEF Recorded
<1>3. CASE S = {}
  <2>1. PreviousState(r) = NothingBefore
    BY <1>2, <1>3 DEF PreviousState
  <2>2. Before(r) = Max({0})
    BY <1>3 DEF Before
  <2>3. Max({0}) \in {0}
    BY MaxIsElement, {0} \in SUBSET (0 .. 0)
  <2>4. 0 \notin UnsafeRuns
    BY <1>1 DEF UnsafeRuns
  <2>5. QED
    BY <2>1, <2>2, <2>3, <2>4
<1>4. CASE S # {}
  <2> DEFINE m == Max(S)
  <2>1. m \in S /\ \A j \in S : j <= m
    <3> HIDE DEF S
    <3> QED
      BY <1>1, <1>2, <1>4, MaxIsGreatest
  <2>2. m = Before(r)
    <3> DEFINE T == {0} \cup S
    <3>1. Max(T) \in T /\ \A j \in T : j <= Max(T)
      <4>1. T \in SUBSET (0 .. r) /\ T # {}
        BY <1>1
      <4> HIDE DEF T
      <4>2. QED
        BY <1>1, <4>1, MaxIsGreatest
    <3>2. m \in T /\ \A j \in T : j \in Int /\ j <= m
      <4>1. S \in SUBSET Nat
        BY <1>1
      <4> HIDE DEF S, m
      <4>2. QED
        BY <2>1, <4>1
    <3>3. Max(T) = m
      <4> HIDE DEF T, m
      <4> QED
        BY <3>1, <3>2
    <3>4. QED
      BY <3>3 DEF Before
  <2>3. m \in 1 .. r - 1 /\ runs[m].snapshot
    BY <2>1
  <2>4. \A j \in 1 .. r : runs[j].snapshot => j \in S
    BY <1>1
  <2>5. PreviousState(r) =
          (IF runs[m].decision = 0
           THEN [NothingBefore EXCEPT !.risk = "SAFE", !.episode = Boundary(r)]
           ELSE LET d == decisions[runs[m].decision]
                IN  [risk |-> d.risk, blocker |-> d.blocker, action |-> d.action,
                     mode |-> d.mode, episode |-> Boundary(r),
                     pending |-> runs[m].status = "READY_TO_EXECUTE"])
    <3> HIDE DEF S
    <3> QED
      BY <1>2, <1>4 DEF PreviousState
  <2>6. runs[m].decision # 0 => Boundary(r) = EpisodeOf(m)
    <3> SUFFICES ASSUME runs[m].decision # 0 PROVE Boundary(r) = EpisodeOf(m)
      OBVIOUS
    <3>1. {i \in Recorded(r) : runs[i].decision = 0}
            = {i \in 1 .. m - 1 : runs[i].snapshot /\ runs[i].decision = 0}
      <4> HIDE DEF m
      <4> QED
        BY <1>1, <1>2, <2>1, <2>3
    <3>2. QED
      <4> HIDE DEF m
      <4> QED
        BY <3>1 DEF Boundary, EpisodeOf
  <2>7. \A j \in 1 .. r : runs[j].snapshot => j <= m
    <3> HIDE DEF m, S
    <3> QED
      BY <2>1, <2>4
  <2>8. QED
    <3> HIDE DEF m, S
    <3>1. runs[m].decision = 0 =>
            /\ PreviousState(r).risk = "SAFE" /\ PreviousState(r).blocker = "NONE"
            /\ ~ PreviousState(r).pending
      <4> DEFINE e == Boundary(r)
      <4>1. runs[m].decision = 0 =>
              PreviousState(r) = [NothingBefore EXCEPT !.risk = "SAFE", !.episode = e]
        BY <2>5
      <4> HIDE DEF e
      <4>2. QED
        BY <4>1 DEF NothingBefore
    <3>2. runs[m].decision # 0 =>
            /\ PreviousState(r).risk = Decision(m).risk
            /\ PreviousState(r).blocker = Decision(m).blocker
            /\ PreviousState(r).episode = EpisodeOf(m)
            /\ PreviousState(r).pending <=> runs[m].status = "READY_TO_EXECUTE"
      <4> DEFINE e == Boundary(r)
                 d == Decision(m)
                 q == runs[m].status = "READY_TO_EXECUTE"
      <4>1. runs[m].decision # 0 =>
              PreviousState(r) = [risk |-> d.risk, blocker |-> d.blocker, action |-> d.action,
                                  mode |-> d.mode, episode |-> e, pending |-> q]
        BY <2>5 DEF Decision
      <4>2. runs[m].decision # 0 => e = EpisodeOf(m)
        BY <2>6
      <4> HIDE DEF e, d, q
      <4>3. runs[m].decision # 0 =>
              /\ PreviousState(r).risk = d.risk /\ PreviousState(r).blocker = d.blocker
              /\ PreviousState(r).episode = EpisodeOf(m) /\ PreviousState(r).pending = q
        BY <4>1, <4>2
      <4>4. QED
        BY <4>3 DEF d, q
    <3>3. QED
      BY <2>2, <2>3, <2>7, <3>1, <3>2
<1>5. QED
  BY <1>3, <1>4


-----------------------------------------------------------------------------
(***************************************************************************)
(* A cycle says nothing because it was said before.  r is the run of a     *)
(* cycle, not recorded yet.                                                *)
(***************************************************************************)

LEMMA RankValues == /\ Rank("SAFE") = 0 /\ Rank("WATCH") = 1
                    /\ Rank("HIGH") = 2 /\ Rank("CRITICAL") = 3
BY DEF Rank

\* shouldNotifyRisk is false because of a run that announced as much.
LEMMA RiskKnown ==
  ASSUME TypeOK, RiskCovered, NEW r, r = Len(runs), r # 0, ~ runs[r].snapshot,
         NEW risk \in Levels, ~ ShouldNotifyRisk(PreviousState(r), risk)
  PROVE  RiskToldAt(r, risk)
<1>1. PreviousState(r).risk # "NONE" /\ ~ (Rank(risk) > Rank(PreviousState(r).risk))
  BY MonitoringConstants DEF ShouldNotifyRisk, Unsafe
<1>2. PICK m \in 1 .. r - 1 :
        /\ runs[m].snapshot /\ \A j \in 1 .. r : runs[j].snapshot => j <= m
        /\ runs[m].decision = 0 => PreviousState(r).risk = "SAFE"
        /\ runs[m].decision # 0 => PreviousState(r).risk = Decision(m).risk
  BY <1>1, PreviousRun DEF NothingBefore
<1>3. r \in Nat /\ DOMAIN runs = 1 .. r
  BY RunTypes DEF RunsTyped
<1>4. runs[m].decision # 0
  BY <1>1, <1>2, MonitoringConstants, RankValues
<1>5. m \in UnsafeRuns /\ PreviousState(r).risk = Decision(m).risk
  BY <1>2, <1>3, <1>4 DEF UnsafeRuns
<1>6. PICK i \in 1 .. m : /\ UnsafeSince(i, m)
                          /\ \E l \in Levels : /\ Rank(l) >= Rank(Decision(m).risk)
                                               /\ <<"RISK", l, i>> \in Attempted
  BY <1>5 DEF RiskCovered
<1>7. PICK l \in Levels : Rank(l) >= Rank(PreviousState(r).risk) /\ <<"RISK", l, i>> \in Attempted
  BY <1>5, <1>6
<1>8. Rank(l) >= Rank(risk)
  <2>1. PreviousState(r).risk \in Levels \cup {"NONE", "SAFE"}
    BY PreviousStateType DEF Histories
  <2>2. \A x \in Levels \cup {"SAFE"} : Rank(x) \in Nat
    BY MonitoringConstants, RankValues
  <2>3. Rank(risk) <= Rank(PreviousState(r).risk)
    BY <1>1, <2>1, <2>2
  <2>4. QED
    BY <1>1, <1>7, <2>1, <2>2, <2>3
<1>9. UnsafeSince(i, r)
  <2> SUFFICES ASSUME NEW j \in i .. r, runs[j].snapshot PROVE runs[j].decision # 0
    BY DEF UnsafeSince
  <2>1. j \in i .. m
    BY <1>2, <1>3
  <2>2. QED
    BY <1>6, <2>1 DEF UnsafeSince
<1>10. QED
  BY <1>3, <1>7, <1>8, <1>9 DEF RiskToldAt

\* shouldNotifyBlocker is false because the last run is blocked alike.
LEMMA BlockKnown ==
  ASSUME TypeOK, BlockedKnown, NEW r, r = Len(runs), r # 0, ~ runs[r].snapshot,
         NEW reason, reason # "NONE", ~ ShouldNotifyBlocker(PreviousState(r), reason)
  PROVE  BlockToldAt(r, reason)
<1>1. PreviousState(r).blocker = reason
  BY DEF ShouldNotifyBlocker
<1>2. PICK m \in 1 .. r - 1 :
        /\ runs[m].snapshot /\ \A j \in 1 .. r : runs[j].snapshot => j <= m
        /\ runs[m].decision = 0 => PreviousState(r).blocker = "NONE"
        /\ runs[m].decision # 0 => PreviousState(r).blocker = Decision(m).blocker
  BY <1>1, PreviousRun DEF NothingBefore
<1>3. r \in Nat /\ DOMAIN runs = 1 .. r
  BY RunTypes DEF RunsTyped
<1>4. m \in UnsafeRuns /\ Decision(m).blocker = reason
  BY <1>1, <1>2, <1>3 DEF UnsafeRuns
<1>5. PICK i \in 1 .. m :
        /\ <<"BLOCKED", reason, i>> \in Attempted
        /\ \A j \in i .. m : runs[j].snapshot =>
             j \in UnsafeRuns /\ Decision(j).blocker = reason
  BY <1>4 DEF BlockedKnown
<1>6. \A j \in i .. r : runs[j].snapshot => j \in i .. m
  BY <1>2, <1>3
<1>7. i \in 1 .. r
  BY <1>3
<1>8. QED
  BY <1>5, <1>6, <1>7 DEF BlockToldAt

\* An approval is pending because the owner was asked since the last run
\* that was not waiting for one.
LEMMA ApprovalKnown ==
  ASSUME TypeOK, AllAsked, NEW r, r = Len(runs), r # 0, ~ runs[r].snapshot,
         PreviousState(r).pending, NEW d \in Nat,
         \A i \in UnsafeRuns : runs[i].decision < d
  PROVE  AskedAt(r, d)
<1>1. PICK m \in 1 .. r - 1 :
        /\ runs[m].snapshot /\ \A j \in 1 .. r : runs[j].snapshot => j <= m
        /\ runs[m].decision # 0 /\ runs[m].status = "READY_TO_EXECUTE"
  BY PreviousRun DEF NothingBefore
<1>2. r \in Nat /\ DOMAIN runs = 1 .. r /\ runs[m].decision \in Nat
  BY RunTypes DEF RunsTyped
<1>3. m \in UnsafeRuns /\ runs[m].decision < d
  BY <1>1, <1>2 DEF UnsafeRuns
<1>4. PICK i \in 1 .. m :
        /\ \A j \in i .. m : runs[j].snapshot => runs[j].status = "READY_TO_EXECUTE"
        /\ \E k \in 0 .. runs[m].decision :
             Approval(k) /\ \A j \in UnsafeRuns : j < i => k > runs[j].decision
  BY <1>1, <1>3 DEF AllAsked, AskedAt
<1>5. \A j \in i .. r : runs[j].snapshot => j \in i .. m
  BY <1>1, <1>2
<1>6. i \in 1 .. r /\ 0 .. runs[m].decision \subseteq 0 .. d
  BY <1>2, <1>3
<1>7. QED
  BY <1>4, <1>5, <1>6 DEF AskedAt

\* The decision a run links to is there.
LEMMA DecisionTypes ==
  ASSUME TypeOK, NEW i \in DOMAIN runs, runs[i].decision # 0
  PROVE  Decision(i).risk \in Levels /\ Decision(i).blocker \in Blockers
<1> DEFINE D == [risk : Levels, action : Actions \cup {NoAction}, mode : Modes,
                 blocker : Blockers, readiness : Readiness]
<1>1. decisions \in Seq(D)
  BY DEF TypeOK
<1>2. runs[i].decision \in 1 .. Len(decisions)
  BY RunTypes DEF RunsTyped
<1>3. Decision(i) \in D
  <2> HIDE DEF D
  <2> QED
    BY <1>1, <1>2 DEF Decision
<1>4. QED
  BY <1>3

\* The recovery of the episode the last recorded run belongs to is due
\* exactly when that run was unsafe and this one is safe.
LEMMA RecoveryDue ==
  ASSUME TypeOK, NEW r, r = Len(runs), r # 0, ~ runs[r].snapshot
  PROVE  /\ ShouldNotifyRecovery(PreviousState(r), "SAFE") <=> Before(r) \in UnsafeRuns
         /\ Before(r) \in UnsafeRuns => PreviousState(r).episode = EpisodeOf(Before(r))
<1>1. CASE PreviousState(r) = NothingBefore /\ Before(r) \notin UnsafeRuns
  BY <1>1 DEF ShouldNotifyRecovery, NothingBefore
<1>2. CASE \E m \in 1 .. r - 1 :
             /\ m = Before(r) /\ runs[m].snapshot
             /\ runs[m].decision = 0 => PreviousState(r).risk = "SAFE"
             /\ runs[m].decision # 0 => /\ PreviousState(r).risk = Decision(m).risk
                                        /\ PreviousState(r).episode = EpisodeOf(m)
  <2>1. PICK m \in 1 .. r - 1 :
             /\ m = Before(r) /\ runs[m].snapshot
             /\ runs[m].decision = 0 => PreviousState(r).risk = "SAFE"
             /\ runs[m].decision # 0 => /\ PreviousState(r).risk = Decision(m).risk
                                        /\ PreviousState(r).episode = EpisodeOf(m)
    BY <1>2
  <2>2. r \in Nat /\ DOMAIN runs = 1 .. r
    BY RunTypes DEF RunsTyped
  <2>3. m \in UnsafeRuns <=> runs[m].decision # 0
    BY <2>1, <2>2 DEF UnsafeRuns
  <2>4. runs[m].decision # 0 => Decision(m).risk \in Levels
    BY <2>2, DecisionTypes
  <2>5. QED
    BY <2>1, <2>3, <2>4, MonitoringConstants DEF ShouldNotifyRecovery
<1>3. QED
  BY <1>1, <1>2, PreviousRun


-----------------------------------------------------------------------------
(***************************************************************************)
(* What is recorded stays as it is, and nothing announced is forgotten.    *)
(***************************************************************************)
KeepsHistory ==
  /\ \A i \in DOMAIN runs' : runs'[i].snapshot => i \in DOMAIN runs /\ runs'[i] = runs[i]
  /\ \A i \in DOMAIN runs : runs[i].snapshot => i \in DOMAIN runs' /\ runs'[i] = runs[i]
  /\ \A i \in UnsafeRuns : decisions'[runs[i].decision] = decisions[runs[i].decision]
  /\ Attempted \subseteq Attempted'

LEMMA KeptRuns ==
  ASSUME TypeOK, TypeOK', KeepsHistory
  PROVE  /\ UnsafeRuns' = UnsafeRuns
         /\ \A i \in UnsafeRuns : Decision(i)' = Decision(i) /\ runs'[i] = runs[i]
                                  /\ i \in 1 .. Len(runs)
         /\ \A i \in 1 .. Len(runs) : i <= Len(runs') =>
              /\ runs'[i].snapshot <=> runs[i].snapshot
              /\ runs[i].snapshot => runs'[i] = runs[i]
<1>1. /\ Len(runs) \in Nat /\ DOMAIN runs = 1 .. Len(runs)
      /\ \A i \in DOMAIN runs : runs[i].snapshot \in BOOLEAN
  BY RunTypes DEF RunsTyped
<1>2. /\ Len(runs') \in Nat /\ DOMAIN runs' = 1 .. Len(runs')
      /\ \A i \in DOMAIN runs' : runs'[i].snapshot \in BOOLEAN
  <2>1. TypeOK' => RunsTyped'
    BY RunTypes, PTL
  <2>2. QED
    BY <2>1 DEF RunsTyped
<1>3. UnsafeRuns' = UnsafeRuns
  BY DEF KeepsHistory, UnsafeRuns
<1>4. \A i \in UnsafeRuns : /\ i \in DOMAIN runs /\ runs'[i] = runs[i]
                            /\ decisions'[runs[i].decision] = decisions[runs[i].decision]
  BY DEF KeepsHistory, UnsafeRuns
<1>5. \A i \in UnsafeRuns : Decision(i)' = Decision(i)
  BY <1>4 DEF Decision
<1>6. ASSUME NEW i \in 1 .. Len(runs), i <= Len(runs')
      PROVE  /\ runs'[i].snapshot <=> runs[i].snapshot
             /\ runs[i].snapshot => runs'[i] = runs[i]
  <2>1. i \in DOMAIN runs /\ i \in DOMAIN runs'
    BY <1>1, <1>2, <1>6
  <2>2. QED
    BY <2>1 DEF KeepsHistory
<1>7. QED
  BY <1>1, <1>3, <1>4, <1>5, <1>6

\* The runs up to r, and their decisions, are recorded as they were.
SameUpTo(r) ==
  \A j \in 1 .. r : /\ runs'[j].snapshot <=> runs[j].snapshot
                    /\ j \in UnsafeRuns' <=> j \in UnsafeRuns
                    /\ runs[j].snapshot => runs'[j] = runs[j]
                    /\ j \in UnsafeRuns => Decision(j)' = Decision(j)

LEMMA UnsafeAreRuns ==
  TypeOK => \A i \in UnsafeRuns : /\ i \in 1 .. Len(runs) /\ i \in Nat /\ i # 0
                                  /\ runs[i].decision \in 1 .. Len(decisions)
                                  /\ runs[i].snapshot
<1> SUFFICES ASSUME TypeOK PROVE \A i \in UnsafeRuns : /\ i \in 1 .. Len(runs) /\ i \in Nat /\ i # 0
                                  /\ runs[i].decision \in 1 .. Len(decisions)
                                  /\ runs[i].snapshot
  OBVIOUS
<1>1. QED
  BY RunTypes DEF RunsTyped, UnsafeRuns

\* What a run is told stays told.
LEMMA ToldBelow ==
  ASSUME TypeOK', NEW r \in Nat, SameUpTo(r), Attempted \subseteq Attempted'
  PROVE  /\ \A risk : RiskToldAt(r, risk) => RiskToldAt(r, risk)'
         /\ \A reason : BlockToldAt(r, reason) => BlockToldAt(r, reason)'
         /\ \A d : AskedAt(r, d) => AskedAt(r, d)'
<1>1. \A i \in 1 .. r : \A j \in i .. r : j \in 1 .. r
  OBVIOUS
<1>2. \A i \in 1 .. r : UnsafeSince(i, r) => UnsafeSince(i, r)'
  BY <1>1 DEF UnsafeSince, SameUpTo
<1>3. \A risk : RiskToldAt(r, risk) => RiskToldAt(r, risk)'
  BY <1>2 DEF RiskToldAt
<1>4. ASSUME NEW reason, BlockToldAt(r, reason)
      PROVE  BlockToldAt(r, reason)'
  <2>1. PICK i \in 1 .. r :
          /\ <<"BLOCKED", reason, i>> \in Attempted
          /\ \A j \in i .. r : runs[j].snapshot => j \in UnsafeRuns /\ Decision(j).blocker = reason
    BY <1>4 DEF BlockToldAt
  <2>2. \A j \in i .. r : runs'[j].snapshot => j \in UnsafeRuns' /\ Decision(j)'.blocker = reason
    BY <1>1, <2>1 DEF SameUpTo
  <2>3. QED
    BY <2>1, <2>2 DEF BlockToldAt
<1>5. \A k : Approval(k) => Approval(k)'
  BY DEF Approval
<1>6. ASSUME NEW d, AskedAt(r, d)
      PROVE  AskedAt(r, d)'
  <2>1. PICK i \in 1 .. r, k \in 0 .. d :
          /\ \A j \in i .. r : runs[j].snapshot => runs[j].status = "READY_TO_EXECUTE"
          /\ Approval(k) /\ \A j \in UnsafeRuns : j < i => k > runs[j].decision
    BY <1>6 DEF AskedAt
  <2>2. \A j \in i .. r : runs'[j].snapshot => runs'[j].status = "READY_TO_EXECUTE"
    BY <1>1, <2>1 DEF SameUpTo
  <2>3. \A j \in UnsafeRuns' : j \in Nat /\ j # 0 /\ runs'[j].snapshot
    <3>1. RunsTyped'
      BY RunTypes, PTL
    <3>2. QED
      BY <3>1 DEF RunsTyped, UnsafeRuns
  <2>4. \A j \in UnsafeRuns' : j < i => k > runs'[j].decision
    <3> SUFFICES ASSUME NEW j \in UnsafeRuns', j < i PROVE k > runs'[j].decision
      OBVIOUS
    <3>1. j \in 1 .. r /\ runs'[j].snapshot
      BY <2>3
    <3>2. j \in UnsafeRuns /\ runs'[j] = runs[j]
      BY <3>1 DEF SameUpTo
    <3>3. QED
      BY <2>1, <3>2
  <2>5. QED
    BY <1>5, <2>1, <2>2, <2>4 DEF AskedAt
<1>7. QED
  BY <1>3, <1>4, <1>6

\* Where a run stands among the recorded ones stays as it is.
LEMMA EpisodesBelow ==
  ASSUME NEW r \in Nat, SameUpTo(r - 1)
  PROVE  Before(r)' = Before(r) /\ EpisodeOf(r)' = EpisodeOf(r)
<1>1. {i \in 1 .. r - 1 : runs'[i].snapshot} = {i \in 1 .. r - 1 : runs[i].snapshot}
  BY DEF SameUpTo
<1>2. {i \in 1 .. r - 1 : runs'[i].snapshot /\ runs'[i].decision = 0}
        = {i \in 1 .. r - 1 : runs[i].snapshot /\ runs[i].decision = 0}
  BY DEF SameUpTo
<1>3. QED
  BY <1>1, <1>2 DEF Before, EpisodeOf

LEMMA KeptUpTo ==
  ASSUME TypeOK, TypeOK', KeepsHistory, NEW r \in Nat, r <= Len(runs), r <= Len(runs')
  PROVE  SameUpTo(r) /\ SameUpTo(r - 1) /\ Attempted \subseteq Attempted'
<1>1. Len(runs) \in Nat /\ Len(runs') \in Nat
  BY DEF TypeOK
<1>2. \A j \in 1 .. r : j \in 1 .. Len(runs) /\ j <= Len(runs')
  BY <1>1
<1>3. SameUpTo(r)
  BY <1>2, KeptRuns DEF SameUpTo
<1>4. \A j \in 1 .. r - 1 : j \in 1 .. r
  OBVIOUS
<1>5. QED
  BY <1>3, <1>4 DEF SameUpTo, KeepsHistory

LEMMA KeptTold ==
  ASSUME TypeOK, TypeOK', KeepsHistory, NEW r \in Nat, r <= Len(runs), r <= Len(runs')
  PROVE  /\ \A risk : RiskToldAt(r, risk) => RiskToldAt(r, risk)'
         /\ \A reason : BlockToldAt(r, reason) => BlockToldAt(r, reason)'
         /\ \A d : AskedAt(r, d) => AskedAt(r, d)'
BY KeptUpTo, ToldBelow

LEMMA KeptEpisodes ==
  ASSUME TypeOK, TypeOK', KeepsHistory, NEW r \in Nat, r <= Len(runs), r <= Len(runs')
  PROVE  Before(r)' = Before(r) /\ EpisodeOf(r)' = EpisodeOf(r)
BY KeptUpTo, EpisodesBelow

LEMMA KeptPrevious ==
  ASSUME TypeOK, TypeOK', KeepsHistory, NEW r
  PROVE  PreviousState(r)' = PreviousState(r)
<1>1. Recorded(r)' = Recorded(r)
  BY DEF Recorded, KeepsHistory
<1>2. \A i \in Recorded(r) : /\ runs'[i] = runs[i]
                             /\ runs[i].decision # 0 =>
                                  decisions'[runs[i].decision] = decisions[runs[i].decision]
  BY DEF Recorded, KeepsHistory, UnsafeRuns
<1>3. Boundary(r)' = Boundary(r)
  <2>1. {i \in Recorded(r)' : runs'[i].decision = 0} = {i \in Recorded(r) : runs[i].decision = 0}
    BY <1>1, <1>2
  <2>2. QED
    BY <2>1 DEF Boundary
<1>4. CASE Recorded(r) = {}
  BY <1>1, <1>4 DEF PreviousState, NothingBefore
<1>5. CASE Recorded(r) # {}
  <2>1. Max(Recorded(r)) \in Recorded(r)
    <3>1. Recorded(r) \in SUBSET (0 .. Len(runs)) /\ Len(runs) \in Nat
      BY RunTypes DEF RunsTyped, Recorded
    <3>2. QED
      BY <1>5, <3>1, MaxIsElement
  <2> DEFINE m == Max(Recorded(r))
  <2>2. Max(Recorded(r))' = m
    BY <1>1
  <2>3. runs'[m] = runs[m] /\ (runs[m].decision # 0 =>
                                 decisions'[runs[m].decision] = decisions[runs[m].decision])
    BY <1>2, <2>1
  <2>4. QED
    <3> HIDE DEF m
    <3>1. CASE runs[m].decision = 0
      BY <1>1, <1>3, <1>5, <2>2, <2>3, <3>1 DEF PreviousState, NothingBefore, m
    <3>2. CASE runs[m].decision # 0
      BY <1>1, <1>3, <1>5, <2>2, <2>3, <3>2 DEF PreviousState, NothingBefore, m
    <3>3. QED
      BY <3>1, <3>2
<1>6. QED
  BY <1>4, <1>5


LEMMA RecordedKept ==
  ASSUME TypeOK, TypeOK', RecordedTold, KeepsHistory,
         \A n \in Attempted' \ Attempted :
           n[1] = "RECOVERY" => \E p \in UnsafeRuns : EpisodeOf(p) = n[3]
  PROVE  RecordedTold'
<1>1. /\ UnsafeRuns' = UnsafeRuns
      /\ \A r \in UnsafeRuns : /\ Decision(r)' = Decision(r) /\ runs'[r] = runs[r]
                               /\ r \in Nat /\ r <= Len(runs) /\ r <= Len(runs')
  <2>1. UnsafeRuns \subseteq DOMAIN runs /\ UnsafeRuns' \subseteq DOMAIN runs'
    BY DEF UnsafeRuns
  <2>2. RunsTyped /\ RunsTyped'
    BY RunTypes, PTL
  <2>3. QED
    BY <2>1, <2>2, KeptRuns DEF RunsTyped
<1>2. RiskCovered'
  <2> SUFFICES ASSUME NEW r \in UnsafeRuns PROVE RiskToldAt(r, Decision(r).risk)'
    BY <1>1 DEF RiskCovered, RiskToldAt
  <2>1. RiskToldAt(r, Decision(r).risk)
    BY DEF RecordedTold, RiskCovered, RiskToldAt
  <2>2. \A risk : RiskToldAt(r, risk) => RiskToldAt(r, risk)'
    BY <1>1, KeptTold
  <2>3. QED
    BY <1>1, <2>1, <2>2
<1>3. BlockedKnown'
  <2> SUFFICES ASSUME NEW r \in UnsafeRuns
               PROVE  /\ runs[r].status = "PROTECTION_BLOCKED" <=> Decision(r).blocker # "NONE"
                      /\ Decision(r).blocker # "NONE" => BlockToldAt(r, Decision(r).blocker)'
    BY <1>1 DEF BlockedKnown, BlockToldAt
  <2>1. /\ runs[r].status = "PROTECTION_BLOCKED" <=> Decision(r).blocker # "NONE"
        /\ Decision(r).blocker # "NONE" => BlockToldAt(r, Decision(r).blocker)
    BY DEF RecordedTold, BlockedKnown, BlockToldAt
  <2>2. \A reason : BlockToldAt(r, reason) => BlockToldAt(r, reason)'
    BY <1>1, KeptTold
  <2>3. QED
    BY <1>1, <2>1, <2>2
<1>4. AllAsked'
  <2> SUFFICES ASSUME NEW r \in UnsafeRuns, runs[r].status = "READY_TO_EXECUTE"
               PROVE  AskedAt(r, runs[r].decision)'
    BY <1>1 DEF AllAsked
  <2>1. AskedAt(r, runs[r].decision)
    BY DEF RecordedTold, AllAsked
  <2>2. \A d : AskedAt(r, d) => AskedAt(r, d)'
    BY <1>1, KeptTold
  <2>3. QED
    BY <1>1, <2>1, <2>2
<1>5. \A p \in UnsafeRuns : EpisodeOf(p)' = EpisodeOf(p)
  BY <1>1, KeptEpisodes
<1>6. RecoveryPerEpisode'
  <2>1. ASSUME NEW r \in DOMAIN runs', runs'[r].snapshot /\ runs'[r].decision = 0,
               Before(r)' \in UnsafeRuns'
        PROVE  <<"RECOVERY", "SAFE", EpisodeOf(Before(r))>>' \in Attempted'
    <3>1. r \in DOMAIN runs /\ runs'[r] = runs[r] /\ Attempted \subseteq Attempted'
      BY <2>1 DEF KeepsHistory
    <3>2. Before(r)' = Before(r)
      <4>1. RunsTyped /\ RunsTyped'
        BY RunTypes, PTL
      <4>2. r \in Nat /\ r <= Len(runs) /\ r <= Len(runs')
        BY <2>1, <3>1, <4>1 DEF RunsTyped
      <4>3. QED
        BY <4>2, KeptEpisodes
    <3>3. <<"RECOVERY", "SAFE", EpisodeOf(Before(r))>> \in Attempted /\ Before(r) \in UnsafeRuns
      BY <1>1, <2>1, <3>1, <3>2 DEF RecordedTold, RecoveryPerEpisode
    <3>4. EpisodeOf(Before(r))' = EpisodeOf(Before(r))
      BY <1>5, <3>2, <3>3
    <3>5. QED
      BY <3>1, <3>3, <3>4
  <2>2. ASSUME NEW n \in Attempted', n[1] = "RECOVERY"
        PROVE  \E p \in UnsafeRuns' : EpisodeOf(p)' = n[3]
    <3>1. \E p \in UnsafeRuns : EpisodeOf(p) = n[3]
      BY <2>2 DEF RecordedTold, RecoveryPerEpisode
    <3>2. QED
      BY <1>1, <1>5, <3>1
  <2>3. QED
    BY <2>1, <2>2 DEF RecoveryPerEpisode
<1>7. QED
  BY <1>2, <1>3, <1>4, <1>6 DEF RecordedTold

\* What a cycle holds stays true.
LEMMA CycleKept ==
  ASSUME TypeOK, TypeOK', KeepsHistory, Len(runs') = Len(runs), NEW l, NEW v, HistoryHeld(l, v)
  PROVE  /\ HistoryHeld(l, v)'
         /\ RiskHeld(l, v) => RiskHeld(l, v)'
         /\ RecoveryHeld(l, v) => RecoveryHeld(l, v)'
         /\ ApprovalHeld(l, v) => ApprovalHeld(l, v)'
         /\ DecisionHeld(l, v) /\ (v.decision # 0 => decisions'[v.decision].risk = decisions[v.decision].risk)
              => DecisionHeld(l, v)'
         /\ BlockHeld(l, v) /\ decisions'[v.decision] = decisions[v.decision] => BlockHeld(l, v)'
<1>0. RunsTyped
  BY RunTypes
<1>1. l \notin {"idle", "loaded"} => v.run \in Nat /\ v.run <= Len(runs) /\ v.run <= Len(runs') /\ v.run \in 1 .. Len(runs)
  BY <1>0 DEF HistoryHeld, RunsTyped
<1>2. HistoryHeld(l, v)'
  BY <1>1, KeptRuns, KeptPrevious DEF HistoryHeld
<1>3. RiskHeld(l, v) => RiskHeld(l, v)'
  BY <1>1, KeptTold DEF RiskHeld, Evaluated
<1>4. ASSUME RecoveryHeld(l, v), l = "complete", ~ Unsafe(v.risk), Before(v.run)' \in UnsafeRuns'
      PROVE  <<"RECOVERY", "SAFE", EpisodeOf(Before(v.run))>>' \in Attempted'
  <2>1. Before(v.run)' = Before(v.run) /\ UnsafeRuns' = UnsafeRuns /\ Attempted \subseteq Attempted'
    BY <1>1, <1>4, KeptEpisodes, KeptRuns DEF KeepsHistory
  <2> DEFINE p == Before(v.run)
  <2>2. p \in UnsafeRuns /\ <<"RECOVERY", "SAFE", EpisodeOf(p)>> \in Attempted
    BY <1>4, <2>1 DEF RecoveryHeld
  <2>3. EpisodeOf(p)' = EpisodeOf(p)
    <3>1. p \in 1 .. Len(runs)
      BY <2>2, KeptRuns
    <3>2. p \in Nat /\ p <= Len(runs) /\ p <= Len(runs')
      BY <1>0, <3>1 DEF RunsTyped
    <3> HIDE DEF p
    <3>3. QED
      BY <2>1, <3>2, KeptEpisodes DEF p
  <2>4. QED
    BY <2>1, <2>2, <2>3
<1>5. RecoveryHeld(l, v) => RecoveryHeld(l, v)'
  BY <1>4 DEF RecoveryHeld
<1>6. ApprovalHeld(l, v) => ApprovalHeld(l, v)'
  BY <1>1, KeptTold DEF ApprovalHeld
<1>7. DecisionHeld(l, v) /\ (v.decision # 0 => decisions'[v.decision].risk = decisions[v.decision].risk)
              => DecisionHeld(l, v)'
  BY KeptRuns DEF DecisionHeld
<1>8. BlockHeld(l, v) /\ decisions'[v.decision] = decisions[v.decision] => BlockHeld(l, v)'
  BY <1>1, KeptTold DEF BlockHeld
<1>9. QED
  BY <1>2, <1>3, <1>5, <1>6, <1>7, <1>8


\* The only worker is at l with the locals v after the step.
LEMMA ToldOfLone ==
  ASSUME TypeOK, LoneWorker, NEW w \in Workers, NEW l, NEW v,
         pc' = [pc EXCEPT ![w] = l], work' = [work EXCEPT ![w] = v],
         RecordedTold', CycleHeld(l, v)'
  PROVE  ToldInv'
<1>1. pc'[w] = l /\ work'[w] = v
  BY DEF TypeOK
<1>2. \A u \in Workers : u = w
  BY DEF LoneWorker
<1>3. QED
  BY <1>1, <1>2 DEF ToldInv

\* A step that leaves the database as it is and announces no recovery.
LEMMA QuietTold ==
  ASSUME TypeOK, TypeOK', ToldInv, LoneWorker, NEW w \in Workers, NEW l, NEW v,
         UNCHANGED database, Attempted \subseteq Attempted',
         \A n \in Attempted' \ Attempted : n[1] # "RECOVERY",
         pc' = [pc EXCEPT ![w] = l], work' = [work EXCEPT ![w] = v], CycleHeld(l, v)
  PROVE  ToldInv'
<1>1. KeepsHistory /\ UNCHANGED <<runs, decisions>>
  BY DEF KeepsHistory, database, UnsafeRuns
<1>2. RecordedTold'
  BY <1>1, RecordedKept DEF ToldInv
<1>3. CycleHeld(l, v)'
  BY <1>1, CycleKept DEF CycleHeld
<1>4. QED
  BY <1>2, <1>3, ToldOfLone

\* Sending a notice adds at most that notice.
LEMMA NoticeAdds ==
  ASSUME NEW n, SafeNotify(n)
  PROVE  Attempted' = Attempted \cup {n}
BY DEF SafeNotify, Stored, NotStored, Attempted

LEMMA IdleHeld == CycleHeld("idle", NoWork)
BY DEF CycleHeld, HistoryHeld, DecisionHeld, RiskHeld, RecoveryHeld, BlockHeld, ApprovalHeld,
       NoWork, Evaluated

\* Between the announcement of the action and the recording of the blocker.
Middle == {"select", "simulate", "ask", "execute", "started", "report"}

LEMMA MiddleHeld ==
  ASSUME NEW k \in Middle \cup {"action"}, NEW x, CycleHeld(k, x),
         NEW l \in Middle \cup {"blocker"}, NEW v,
         v.run = x.run, v.prev = x.prev, v.decision = x.decision, v.risk = x.risk,
         v.outcome = "READY_TO_EXECUTE" => l = "ask"
  PROVE  CycleHeld(l, v)
<1> USE DEF Middle, Evaluated
<1>1. HistoryHeld(l, v)
  BY DEF CycleHeld, HistoryHeld
<1>2. DecisionHeld(l, v)
  BY DEF CycleHeld, DecisionHeld
<1>3. RiskHeld(l, v)
  BY DEF CycleHeld, RiskHeld
<1>4. RecoveryHeld(l, v) /\ BlockHeld(l, v)
  BY DEF RecoveryHeld, BlockHeld
<1>5. ApprovalHeld(l, v)
  BY DEF ApprovalHeld
<1>6. QED
  BY <1>1, <1>2, <1>3, <1>4, <1>5 DEF CycleHeld

LEMMA InterveneTold ==
  ASSUME TypeOK, TypeOK', ToldInv, LoneWorker, NEW w \in Workers, Intervene(w)
  PROVE  ToldInv'
<1>0. PICK x : x = work[w]
  OBVIOUS
<1>1. CycleHeld(pc[w], x) /\ x \in Locals
  BY <1>0 DEF ToldInv, TypeOK
<1>2. pc[w] \in Middle => x.outcome # "READY_TO_EXECUTE" \/ pc[w] = "ask"
  BY <1>1 DEF CycleHeld, ApprovalHeld, Middle
<1>3. ASSUME NEW l \in Middle \cup {"blocker"}, NEW v, pc[w] \in Middle,
             v.run = x.run, v.prev = x.prev, v.decision = x.decision, v.risk = x.risk,
             v.outcome = "READY_TO_EXECUTE" => l = "ask",
             pc' = [pc EXCEPT ![w] = l], work' = [work EXCEPT ![w] = v],
             UNCHANGED database,
             Attempted' = Attempted \/ \E n : n[1] # "RECOVERY" /\ Attempted' = Attempted \cup {n}
      PROVE  ToldInv'
  <2>1. CycleHeld(l, v)
    BY <1>1, <1>3, MiddleHeld
  <2>2. Attempted \subseteq Attempted' /\ \A n \in Attempted' \ Attempted : n[1] # "RECOVERY"
    BY <1>3
  <2>3. QED
    BY <1>3, <2>1, <2>2, QuietTold
<1>4. CASE Select(w)
  <2> DEFINE eligible == Eligible(work[w].offer, saved[work[w].policy].guarded, work[w].mode)
             tried(a) == IF a = NoAction /\ eligible = {} THEN "NONE"
                         ELSE IF a = NoAction THEN "NOT_READY" ELSE "READY"
             next(a)  == Disposition(work[w].mode, a # NoAction, tried(a) = "READY")
             label(a) == CASE next(a) = "SIMULATE" -> "simulate" [] next(a) = "EXECUTE" -> "execute"
                           [] OTHER -> "blocker"
             block(a) == IF next(a) = "BLOCK" THEN "INSUFFICIENT_FUNDING" ELSE "NONE"
  <2>1. PICK a :
          /\ work' = [work EXCEPT ![w].chosen = a, ![w].readiness = tried(a), ![w].blocker = block(a)]
          /\ Goto(w, label(a))
    BY <1>4 DEF Select
  <2>2. PICK l : l = label(a) /\ l \in {"simulate", "execute", "blocker"}
    BY DEF Disposition
  <2>3. PICK v, r, b : /\ v = [x EXCEPT !.chosen = a, !.readiness = r, !.blocker = b]
                       /\ r = tried(a) /\ b = block(a)
    OBVIOUS
  <2>4. /\ v.run = x.run /\ v.prev = x.prev /\ v.decision = x.decision /\ v.risk = x.risk
        /\ v.outcome = x.outcome
    BY <1>1, <2>3 DEF Locals
  <2>5. pc[w] = "select" /\ UNCHANGED <<database, told>>
    BY <1>4 DEF Select
  <2> HIDE DEF tried, label, block, next, eligible
  <2>6. work' = [work EXCEPT ![w] = v] /\ pc' = [pc EXCEPT ![w] = l]
    BY <1>0, <2>1, <2>2, <2>3 DEF Goto
  <2>7. UNCHANGED Attempted /\ pc[w] \in Middle /\ l \in Middle \cup {"blocker"}
    BY <2>2, <2>5 DEF told, Attempted, Middle
  <2>8. QED
    BY <1>2, <1>3, <2>4, <2>5, <2>6, <2>7
<1>5. CASE Simulate(w)
  <2>1. PICK v : v = [x EXCEPT !.outcome = "READY_TO_EXECUTE"]
    OBVIOUS
  <2>2. /\ v.run = x.run /\ v.prev = x.prev /\ v.decision = x.decision /\ v.risk = x.risk
        /\ v.outcome = "READY_TO_EXECUTE"
    BY <1>1, <2>1 DEF Locals
  <2>3. /\ pc[w] = "simulate" /\ pc' = [pc EXCEPT ![w] = "ask"]
        /\ work' = [work EXCEPT ![w] = v] /\ UNCHANGED <<database, told>>
    BY <1>0, <1>5, <2>1 DEF Simulate, Goto
  <2>4. UNCHANGED Attempted /\ pc[w] \in Middle /\ {"ask", "report"} \subseteq Middle
    BY <2>3 DEF told, Attempted, Middle
  <2>5. QED
    BY <1>2, <1>3, <2>2, <2>3, <2>4
<1>6. CASE ExecutionStale(w)
  <2>1. PICK v : v = [x EXCEPT !.outcome = "POSITION_CHANGED"]
    OBVIOUS
  <2>2. /\ v.run = x.run /\ v.prev = x.prev /\ v.decision = x.decision /\ v.risk = x.risk
        /\ v.outcome = "POSITION_CHANGED"
    BY <1>1, <2>1 DEF Locals
  <2>3. /\ pc[w] = "execute" /\ pc' = [pc EXCEPT ![w] = "report"]
        /\ work' = [work EXCEPT ![w] = v] /\ UNCHANGED <<database, told>>
    BY <1>0, <1>6, <2>1 DEF ExecutionStale, Goto
  <2>4. UNCHANGED Attempted /\ pc[w] \in Middle /\ {"ask", "report"} \subseteq Middle
    BY <2>3 DEF told, Attempted, Middle
  <2>5. QED
    BY <1>2, <1>3, <2>2, <2>3, <2>4
<1>7. CASE ExecutionRefused(w) \/ PreparationFails(w)
  <2>1. PICK b \in {"AUTONOMOUS_MODE_NOT_ENABLED", "EXECUTION_FAILED"} :
          work' = [work EXCEPT ![w].blocker = b]
    BY <1>7 DEF ExecutionRefused, PreparationFails
  <2>2. PICK v : v = [x EXCEPT !.blocker = b]
    OBVIOUS
  <2>3. /\ v.run = x.run /\ v.prev = x.prev /\ v.decision = x.decision /\ v.risk = x.risk
        /\ v.outcome = x.outcome
    BY <1>1, <2>2 DEF Locals
  <2>4. /\ pc[w] = "execute" /\ pc' = [pc EXCEPT ![w] = "report"]
        /\ work' = [work EXCEPT ![w] = v] /\ UNCHANGED <<database, told>>
    BY <1>0, <1>7, <2>1, <2>2 DEF ExecutionRefused, PreparationFails, Goto
  <2>5. UNCHANGED Attempted /\ pc[w] \in Middle /\ {"ask", "report"} \subseteq Middle
    BY <2>4 DEF told, Attempted, Middle
  <2>6. QED
    BY <1>2, <1>3, <2>3, <2>4, <2>5
<1>8. CASE SimulationFails(w)
  <2>1. PICK v : v = [x EXCEPT !.blocker = "SIMULATION_FAILED"]
    OBVIOUS
  <2>2. /\ v.run = x.run /\ v.prev = x.prev /\ v.decision = x.decision /\ v.risk = x.risk
        /\ v.outcome = x.outcome
    BY <1>1, <2>1 DEF Locals
  <2>3. /\ pc[w] = "started" /\ pc' = [pc EXCEPT ![w] = "report"]
        /\ work' = [work EXCEPT ![w] = v] /\ UNCHANGED <<database, told>>
    BY <1>0, <1>8, <2>1 DEF SimulationFails, Goto
  <2>4. UNCHANGED Attempted /\ pc[w] \in Middle /\ {"ask", "report"} \subseteq Middle
    BY <2>3 DEF told, Attempted, Middle
  <2>5. QED
    BY <1>2, <1>3, <2>2, <2>3, <2>4
<1>9. CASE ExecutionStarts(w)
  <2>1. PICK n : n = <<"STARTED", x.chosen, 0>>
    OBVIOUS
  <2>2. PICK v, b, k : /\ v = [x EXCEPT !.key = k, !.blocker = b] /\ k = Version
                       /\ b = IF n \in notices' THEN "NONE" ELSE "EXECUTION_FAILED"
    OBVIOUS
  <2>3. PICK l \in {"started", "report"} : pc' = [pc EXCEPT ![w] = l]
    BY <1>9 DEF ExecutionStarts, AnnounceStart, Goto
  <2>4. pc[w] = "execute" /\ UNCHANGED database
    BY <1>9 DEF ExecutionStarts
  <2>5. work' = [work EXCEPT ![w] = v]
    BY <1>0, <1>9, <2>1, <2>2 DEF ExecutionStarts
  <2>6. Attempted' = Attempted \cup {n} /\ n[1] # "RECOVERY"
    <3>1. SafeNotify(n)
      BY <1>0, <1>9, <2>1 DEF ExecutionStarts, AnnounceStart, SafeNotify
    <3>2. QED
      BY <2>1, <3>1, NoticeAdds
  <2>7. /\ v.run = x.run /\ v.prev = x.prev /\ v.decision = x.decision /\ v.risk = x.risk
        /\ v.outcome = x.outcome
    BY <1>1, <2>2 DEF Locals
  <2>8. {"execute", "started", "report"} \subseteq Middle
    BY DEF Middle
  <2>9. QED
    BY <1>2, <1>3, <2>3, <2>4, <2>5, <2>6, <2>7, <2>8
<1>10. CASE ExecutionEnds(w)
  <2>1. PICK v, o, b : /\ v = [x EXCEPT !.outcome = o, !.blocker = b]
                       /\ o \in {x.outcome, "DUPLICATE_PREVENTED", "CONFIRMED", "UNCONFIRMED"}
                       /\ work' = [work EXCEPT ![w] = v]
    <3>1. ASSUME NEW o, work' = [work EXCEPT ![w].outcome = o]
          PROVE  work' = [work EXCEPT ![w] = [x EXCEPT !.outcome = o, !.blocker = x.blocker]]
      BY <1>0, <1>1, <3>1 DEF Locals
    <3>2. ASSUME NEW b, work' = [work EXCEPT ![w].blocker = b]
          PROVE  work' = [work EXCEPT ![w] = [x EXCEPT !.outcome = x.outcome, !.blocker = b]]
      BY <1>0, <1>1, <3>2 DEF Locals
    <3>3. \/ \E o \in {"DUPLICATE_PREVENTED", "CONFIRMED", "UNCONFIRMED"} :
               work' = [work EXCEPT ![w].outcome = o]
          \/ work' = [work EXCEPT ![w].blocker = "EXECUTION_FAILED"]
      BY <1>10 DEF ExecutionEnds
    <3>4. QED
      BY <3>1, <3>2, <3>3
  <2>2. pc[w] = "started" /\ pc' = [pc EXCEPT ![w] = "report"] /\ UNCHANGED <<database, told>>
    BY <1>10 DEF ExecutionEnds, Goto
  <2>3. /\ v.run = x.run /\ v.prev = x.prev /\ v.decision = x.decision /\ v.risk = x.risk
        /\ v.outcome # "READY_TO_EXECUTE"
    BY <1>1, <1>2, <2>1, <2>2 DEF Locals, Middle
  <2>4. UNCHANGED Attempted /\ pc[w] \in Middle /\ "report" \in Middle
    BY <2>2 DEF told, Attempted, Middle
  <2>5. QED
    BY <1>3, <2>1, <2>2, <2>3, <2>4
<1>11. CASE ReportExecution(w)
  <2>1. work' = [work EXCEPT ![w] = x]
    BY <1>0, <1>11 DEF ReportExecution, TypeOK
  <2>2. pc[w] = "report" /\ pc' = [pc EXCEPT ![w] = "blocker"] /\ UNCHANGED database
    BY <1>11 DEF ReportExecution, Goto
  <2>3. \/ SafeNotify(<<"FAILED", x.blocker, x.run>>) \/ SafeNotify(<<"CONFIRMED", x.chosen, x.key>>)
        \/ SafeNotify(<<"STALE", x.chosen, x.policy>>) \/ Silent
    BY <1>0, <1>11 DEF ReportExecution
  <2>4. \/ \E n : n[1] # "RECOVERY" /\ Attempted' = Attempted \cup {n}
        \/ Attempted' = Attempted
    <3>1. \A n : SafeNotify(n) => Attempted' = Attempted \cup {n}
      BY NoticeAdds
    <3>2. Silent => Attempted' = Attempted
      BY DEF Silent, told, Attempted
    <3>3. QED
      BY <2>3, <3>1, <3>2
  <2>5. "report" \in Middle
    BY DEF Middle
  <2>6. QED
    BY <1>2, <1>3, <2>1, <2>2, <2>4, <2>5
<1>12. CASE AskApproval(w)
  <2>0. PICK n : n = <<"APPROVAL", x.chosen, x.decision>>
    OBVIOUS
  <2>1. /\ pc[w] = "ask" /\ pc' = [pc EXCEPT ![w] = "blocker"] /\ UNCHANGED database
        /\ work' = [work EXCEPT ![w] = x]
    BY <1>0, <1>12 DEF AskApproval, Goto, TypeOK
  <2>2. \/ Attempted' = Attempted \cup {n}
        \/ Attempted' = Attempted /\ x.prev.pending
    <3>1. CASE MustAsk(x.prev, x.chosen, x.mode)
      BY <1>0, <1>12, <2>0, <3>1, NoticeAdds DEF AskApproval
    <3>2. CASE ~ MustAsk(x.prev, x.chosen, x.mode)
      BY <1>0, <1>12, <3>2 DEF AskApproval, MustAsk, Silent, told, Attempted
    <3>3. QED
      BY <3>1, <3>2
  <2>3. KeepsHistory /\ UNCHANGED <<runs, decisions>>
    BY <2>1, <2>2 DEF KeepsHistory, database, UnsafeRuns
  <2>4. /\ x.run = Len(runs) /\ x.run # 0 /\ ~ runs[x.run].snapshot /\ x.prev = PreviousState(x.run)
        /\ x.decision # 0 /\ \A i \in UnsafeRuns : runs[i].decision < x.decision
        /\ x.run \in Nat /\ x.decision \in Nat
    <3>1. HistoryHeld("ask", x) /\ DecisionHeld("ask", x)
      BY <1>1, <2>1 DEF CycleHeld
    <3>2. x.run \in Nat /\ x.decision \in Nat
      BY <1>1 DEF Locals
    <3>3. QED
      BY <3>1, <3>2 DEF HistoryHeld, DecisionHeld, Evaluated
  <2>5. AskedAt(x.run, x.decision)'
    <3>1. CASE x.prev.pending /\ Attempted' = Attempted
      <4>1. AskedAt(x.run, x.decision)
        BY <2>4, <3>1, ApprovalKnown DEF ToldInv, RecordedTold
      <4>2. \A d : AskedAt(x.run, d) => AskedAt(x.run, d)'
        <5>1. Len(runs) <= Len(runs')
          BY <2>3, <2>4
        <5>2. QED
          BY <2>3, <2>4, <5>1, KeptTold
      <4>3. QED
        BY <4>1, <4>2
    <3>2. CASE Attempted' = Attempted \cup {n}
      <4>1. Approval(x.decision)'
        BY <2>0, <3>2 DEF Approval
      <4>2. /\ \A j \in x.run .. x.run : ~ runs'[j].snapshot
            /\ \A j \in UnsafeRuns' : x.decision > runs'[j].decision
        <5>1. UnsafeRuns' = UnsafeRuns
          BY <2>3 DEF UnsafeRuns
        <5>2. \A j \in UnsafeRuns : runs[j].decision \in Nat
          BY RunTypes DEF RunsTyped, UnsafeRuns
        <5>3. QED
          BY <2>3, <2>4, <5>1, <5>2
      <4>3. x.run \in 1 .. x.run /\ x.decision \in 0 .. x.decision
        BY <2>4
      <4>4. QED
        BY <4>1, <4>2, <4>3 DEF AskedAt
    <3>3. QED
      BY <2>2, <3>1, <3>2
  <2>6. CycleHeld("blocker", x)'
    <3>1. /\ HistoryHeld("ask", x) /\ DecisionHeld("ask", x) /\ RiskHeld("ask", x)
      BY <1>1, <2>1 DEF CycleHeld
    <3>2. HistoryHeld("ask", x)' /\ DecisionHeld("ask", x)' /\ RiskHeld("ask", x)'
      BY <2>3, <3>1, CycleKept
    <3>3. QED
      BY <2>5, <3>2 DEF CycleHeld, HistoryHeld, DecisionHeld, RiskHeld, RecoveryHeld,
                        BlockHeld, ApprovalHeld, Evaluated
  <2>7. RecordedTold'
    <3>1. n[1] # "RECOVERY"
      BY <2>0
    <3>2. QED
      BY <2>2, <2>3, <3>1, RecordedKept DEF ToldInv
  <2>8. QED
    BY <2>1, <2>6, <2>7, ToldOfLone
<1>13. QED
  BY <1>4, <1>5, <1>6, <1>7, <1>8, <1>9, <1>10, <1>11, <1>12 DEF Intervene


\* The run is recorded: what its cycle held is now said of a recorded run.
LEMMA CompleteTold ==
  ASSUME TypeOK, TypeOK', ToldInv, LoneWorker, NEW w \in Workers, Complete(w)
  PROVE  ToldInv'
<1>0. PICK x : x = work[w]
  OBVIOUS
<1>1. PICK r, row : r = x.run /\ row = [status |-> Status(w), snapshot |-> TRUE, decision |-> x.decision]
  OBVIOUS
<1>2. CycleHeld("complete", x) /\ x.decision \in Nat
  BY <1>0 DEF Complete, ToldInv, TypeOK, Locals
<1>3. /\ r = Len(runs) /\ r \in Nat /\ r # 0 /\ ~ runs[r].snapshot
      /\ DOMAIN runs = 1 .. r /\ RunsTyped /\ RunsTyped'
  <2>1. RunsTyped /\ RunsTyped'
    BY RunTypes, PTL
  <2>2. QED
    BY <1>1, <1>2, <2>1 DEF CycleHeld, HistoryHeld, RunsTyped
<1>4. /\ runs' = [runs EXCEPT ![r] = row]
      /\ UNCHANGED <<saved, decisions, notices, lost>>
      /\ pc' = [pc EXCEPT ![w] = "idle"] /\ work' = [work EXCEPT ![w] = NoWork]
  BY <1>0, <1>1 DEF Complete, Leave, Goto, told
<1>5. /\ DOMAIN runs' = 1 .. r /\ runs'[r] = row /\ \A j \in 1 .. r : j # r => runs'[j] = runs[j]
      /\ Attempted' = Attempted
  BY <1>3, <1>4 DEF Attempted
<1>6. row.snapshot /\ row.decision = x.decision /\ row.status = Status(w)
  BY <1>1
<1>7. /\ \A j \in UnsafeRuns : j \in 1 .. r /\ j # r
      /\ \A j \in UnsafeRuns' : j # r => j \in UnsafeRuns
      /\ r \in UnsafeRuns' <=> x.decision # 0
  BY <1>3, <1>5, <1>6 DEF UnsafeRuns
<1>8. \A j \in UnsafeRuns' : j \in 1 .. r
  BY <1>5 DEF UnsafeRuns
<1>9. \A k \in 0 .. r - 1 : SameUpTo(k)
  <2> SUFFICES ASSUME NEW k \in 0 .. r - 1, NEW j \in 1 .. k
               PROVE  /\ runs'[j].snapshot <=> runs[j].snapshot
                      /\ j \in UnsafeRuns' <=> j \in UnsafeRuns
                      /\ runs[j].snapshot => runs'[j] = runs[j]
                      /\ j \in UnsafeRuns => Decision(j)' = Decision(j)
    BY DEF SameUpTo
  <2>1. j \in 1 .. r /\ j # r
    BY <1>3
  <2>2. runs'[j] = runs[j]
    BY <1>5, <2>1
  <2>3. QED
    BY <1>3, <1>4, <1>5, <2>1, <2>2 DEF UnsafeRuns, Decision
<1>10. \A k \in 1 .. r : /\ Before(k)' = Before(k) /\ EpisodeOf(k)' = EpisodeOf(k)
                         /\ k # r => SameUpTo(k)
  BY <1>3, <1>9, EpisodesBelow
<1>11. ASSUME NEW k \in UnsafeRuns', k # r
       PROVE  /\ k \in UnsafeRuns /\ k \in Nat /\ SameUpTo(k) /\ Decision(k)' = Decision(k)
              /\ runs'[k] = runs[k]
  <2>1. k \in UnsafeRuns /\ k \in 1 .. r
    BY <1>7, <1>8, <1>11
  <2>2. SameUpTo(k) /\ runs'[k] = runs[k]
    BY <1>5, <1>10, <1>11, <2>1
  <2>3. QED
    BY <1>4, <2>1, <2>2 DEF Decision
<1>12. ASSUME r \in UnsafeRuns'
       PROVE  /\ Unsafe(x.risk) /\ Decision(r)' = decisions[x.decision] /\ Decision(r)'.risk = x.risk
              /\ runs'[r].decision = x.decision /\ x.decision # 0
              /\ \A j \in UnsafeRuns : runs[j].decision < x.decision
  <2>1. x.decision # 0
    BY <1>7, <1>12
  <2>2. DecisionHeld("complete", x)
    BY <1>2 DEF CycleHeld
  <2>3. QED
    BY <1>4, <1>5, <1>6, <2>1, <2>2 DEF DecisionHeld, Evaluated, Decision
<1>13. RiskCovered'
  <2> SUFFICES ASSUME NEW k \in UnsafeRuns' PROVE RiskToldAt(k, Decision(k).risk)'
    BY DEF RiskCovered, RiskToldAt
  <2>1. CASE k # r
    <3>1. RiskToldAt(k, Decision(k).risk)
      BY <1>11, <2>1 DEF ToldInv, RecordedTold, RiskCovered, RiskToldAt
    <3>2. \A risk : RiskToldAt(k, risk) => RiskToldAt(k, risk)'
      BY <1>5, <1>11, <2>1, ToldBelow
    <3>3. QED
      BY <1>11, <2>1, <3>1, <3>2
  <2>2. CASE k = r
    <3>1. Unsafe(x.risk) /\ Decision(r)'.risk = x.risk /\ x.decision # 0
      BY <1>12, <2>2
    <3>2. RiskToldAt(r, x.risk)
      BY <1>1, <1>2, <3>1 DEF CycleHeld, RiskHeld, Evaluated
    <3>3. PICK i \in 1 .. r : /\ UnsafeSince(i, r)
                              /\ \E l \in Levels : /\ Rank(l) >= Rank(x.risk)
                                                   /\ <<"RISK", l, i>> \in Attempted
      BY <3>2 DEF RiskToldAt
    <3>4. UnsafeSince(i, r)'
      BY <1>3, <1>5, <1>6, <3>1, <3>3 DEF UnsafeSince
    <3>5. RiskToldAt(r, x.risk)'
      BY <1>5, <3>3, <3>4 DEF RiskToldAt
    <3>6. QED
      BY <2>2, <3>1, <3>5
  <2>3. QED
    BY <2>1, <2>2
<1>14. BlockedKnown'
  <2> SUFFICES ASSUME NEW k \in UnsafeRuns'
               PROVE  /\ runs'[k].status = "PROTECTION_BLOCKED" <=> Decision(k)'.blocker # "NONE"
                      /\ Decision(k)'.blocker # "NONE" => BlockToldAt(k, Decision(k).blocker)'
    BY DEF BlockedKnown, BlockToldAt
  <2>1. CASE k # r
    <3>1. /\ runs[k].status = "PROTECTION_BLOCKED" <=> Decision(k).blocker # "NONE"
          /\ Decision(k).blocker # "NONE" => BlockToldAt(k, Decision(k).blocker)
      BY <1>11, <2>1 DEF ToldInv, RecordedTold, BlockedKnown, BlockToldAt
    <3>2. \A reason : BlockToldAt(k, reason) => BlockToldAt(k, reason)'
      BY <1>5, <1>11, <2>1, ToldBelow
    <3>3. QED
      BY <1>11, <2>1, <3>1, <3>2
  <2>2. CASE k = r
    <3>1. Unsafe(x.risk) /\ Decision(r)' = decisions[x.decision] /\ x.decision # 0
      BY <1>12, <2>2
    <3>2. /\ Decision(r)'.blocker = x.blocker
          /\ x.blocker # "NONE" => BlockToldAt(r, x.blocker)
      BY <1>1, <1>2, <3>1 DEF CycleHeld, BlockHeld
    <3>3. Status(w) = "PROTECTION_BLOCKED" <=> x.blocker # "NONE"
      <4>1. x.outcome \in Outcomes \cup {"NONE"}
        BY <1>0 DEF TypeOK, Locals
      <4>2. QED
        BY <1>0, <4>1 DEF Status, ResultStatus, Outcomes
    <3>4. ASSUME x.blocker # "NONE" PROVE BlockToldAt(r, x.blocker)'
      <4>1. PICK i \in 1 .. r :
              /\ <<"BLOCKED", x.blocker, i>> \in Attempted
              /\ \A j \in i .. r : runs[j].snapshot =>
                   j \in UnsafeRuns /\ Decision(j).blocker = x.blocker
        BY <3>2, <3>4 DEF BlockToldAt
      <4>2. \A j \in i .. r : j # r /\ runs'[j].snapshot =>
              j \in UnsafeRuns' /\ Decision(j)'.blocker = x.blocker
        <5> SUFFICES ASSUME NEW j \in i .. r, j # r, runs'[j].snapshot
                     PROVE  j \in UnsafeRuns' /\ Decision(j)'.blocker = x.blocker
          OBVIOUS
        <5>1. j \in 1 .. r
          BY <1>3
        <5>2. runs'[j] = runs[j]
          BY <1>5, <5>1
        <5>3. QED
          BY <1>3, <1>4, <1>5, <4>1, <5>1, <5>2 DEF UnsafeRuns, Decision
      <4>3. \A j \in i .. r : runs'[j].snapshot =>
              j \in UnsafeRuns' /\ Decision(j)'.blocker = x.blocker
        BY <2>2, <3>2, <4>2
      <4>4. QED
        BY <1>5, <4>1, <4>3 DEF BlockToldAt
    <3>5. QED
      BY <1>5, <1>6, <2>2, <3>2, <3>3, <3>4
  <2>3. QED
    BY <2>1, <2>2
<1>15. AllAsked'
  <2> SUFFICES ASSUME NEW k \in UnsafeRuns', runs'[k].status = "READY_TO_EXECUTE"
               PROVE  AskedAt(k, runs[k].decision)'
    BY DEF AllAsked
  <2>1. CASE k # r
    <3>1. AskedAt(k, runs[k].decision)
      BY <1>11, <2>1 DEF ToldInv, RecordedTold, AllAsked
    <3>2. \A d : AskedAt(k, d) => AskedAt(k, d)'
      BY <1>5, <1>11, <2>1, ToldBelow
    <3>3. QED
      BY <1>11, <2>1, <3>1, <3>2
  <2>2. CASE k = r
    <3>1. x.outcome = "READY_TO_EXECUTE"
      <4>1. Status(w) = "READY_TO_EXECUTE"
        BY <1>5, <1>6, <2>2
      <4>2. QED
        BY <1>0, <4>1 DEF Status, ResultStatus
    <3>2. AskedAt(r, x.decision)
      BY <1>1, <1>2, <3>1 DEF CycleHeld, ApprovalHeld
    <3>3. PICK i \in 1 .. r, a \in 0 .. x.decision :
            /\ \A j \in i .. r : runs[j].snapshot => runs[j].status = "READY_TO_EXECUTE"
            /\ Approval(a) /\ \A j \in UnsafeRuns : j < i => a > runs[j].decision
      BY <3>2 DEF AskedAt
    <3>4. \A j \in i .. r : runs'[j].snapshot => runs'[j].status = "READY_TO_EXECUTE"
      BY <1>3, <1>5, <2>2, <3>3
    <3>5. \A j \in UnsafeRuns' : j < i => a > runs'[j].decision
      <4> SUFFICES ASSUME NEW j \in UnsafeRuns', j < i PROVE a > runs'[j].decision
        OBVIOUS
      <4>1. j # r
        BY <1>3
      <4>2. QED
        BY <1>11, <3>3, <4>1
    <3>6. Approval(a)'
      BY <1>5, <3>3 DEF Approval
    <3>7. AskedAt(r, x.decision)'
      BY <3>4, <3>5, <3>6 DEF AskedAt
    <3>8. QED
      BY <1>5, <1>6, <2>2, <3>7
  <2>3. QED
    BY <2>1, <2>2
<1>16. RecoveryPerEpisode'
  <2>1. ASSUME NEW k \in DOMAIN runs', runs'[k].snapshot /\ runs'[k].decision = 0,
               Before(k)' \in UnsafeRuns'
        PROVE  <<"RECOVERY", "SAFE", EpisodeOf(Before(k))>>' \in Attempted'
    <3>1. k \in 1 .. r /\ Before(k)' = Before(k)
      BY <1>5, <1>10, <2>1
    <3>2. Before(k) \in 0 .. k - 1
      <4> DEFINE S == {0} \cup {i \in 1 .. k - 1 : runs[i].snapshot}
      <4>1. S \in SUBSET (0 .. k - 1) /\ S # {} /\ k - 1 \in Nat
        BY <1>3, <3>1
      <4>2. Max(S) \in S
        <5> HIDE DEF S
        <5> QED
          BY <4>1, MaxIsElement
      <4>3. QED
        BY <4>1, <4>2 DEF Before
    <3>3. Before(k) \in UnsafeRuns /\ EpisodeOf(Before(k))' = EpisodeOf(Before(k))
      <4>1. Before(k) # r /\ Before(k) \in UnsafeRuns'
        BY <1>3, <2>1, <3>1, <3>2
      <4>2. Before(k) \in UnsafeRuns /\ Before(k) \in 1 .. r
        BY <1>7, <1>8, <4>1
      <4>3. QED
        BY <1>10, <3>1, <4>2
    <3>4. <<"RECOVERY", "SAFE", EpisodeOf(Before(k))>> \in Attempted
      <4>1. CASE k # r
        BY <1>3, <1>5, <2>1, <3>1, <3>3, <4>1 DEF ToldInv, RecordedTold, RecoveryPerEpisode
      <4>2. CASE k = r
        <5>1. x.decision = 0
          BY <1>5, <1>6, <2>1, <4>2
        <5>2. DecisionHeld("complete", x) /\ RecoveryHeld("complete", x)
          BY <1>2 DEF CycleHeld
        <5>3. ~ Unsafe(x.risk)
          BY <5>1, <5>2 DEF DecisionHeld, Evaluated
        <5>4. QED
          BY <1>1, <3>3, <4>2, <5>2, <5>3 DEF RecoveryHeld
      <4>3. QED
        BY <4>1, <4>2
    <3>5. QED
      BY <1>5, <3>1, <3>3, <3>4
  <2>2. ASSUME NEW n \in Attempted', n[1] = "RECOVERY"
        PROVE  \E p \in UnsafeRuns' : EpisodeOf(p)' = n[3]
    <3>1. PICK p \in UnsafeRuns : EpisodeOf(p) = n[3]
      BY <1>5, <2>2 DEF ToldInv, RecordedTold, RecoveryPerEpisode
    <3>2. p \in UnsafeRuns' /\ EpisodeOf(p)' = EpisodeOf(p)
      BY <1>3, <1>5, <1>7, <1>10 DEF UnsafeRuns
    <3>3. QED
      BY <3>1, <3>2
  <2>3. QED
    BY <2>1, <2>2 DEF RecoveryPerEpisode
<1>17. CycleHeld("idle", NoWork)'
  BY DEF CycleHeld, HistoryHeld, DecisionHeld, RiskHeld, RecoveryHeld, BlockHeld, ApprovalHeld,
         NoWork, Evaluated
<1>18. QED
  BY <1>4, <1>13, <1>14, <1>15, <1>16, <1>17, ToldOfLone DEF RecordedTold


\* A step after which the worker has left its cycle, and nothing recorded
\* changed.
LEMMA LeaveTold ==
  ASSUME TypeOK, TypeOK', ToldInv, LoneWorker, NEW w \in Workers, Leave(w), KeepsHistory,
         \A n \in Attempted' \ Attempted : n[1] # "RECOVERY"
  PROVE  ToldInv'
<1>1. RecordedTold'
  BY RecordedKept DEF ToldInv
<1>2. CycleHeld("idle", NoWork)'
  BY DEF CycleHeld, HistoryHeld, DecisionHeld, RiskHeld, RecoveryHeld, BlockHeld, ApprovalHeld,
         NoWork, Evaluated
<1>3. pc' = [pc EXCEPT ![w] = "idle"] /\ work' = [work EXCEPT ![w] = NoWork]
  BY DEF Leave, Goto
<1>4. QED
  BY <1>1, <1>2, <1>3, ToldOfLone

\* A new run is opened: it is the last one, and its history is read at once.
LEMMA OpenRunTold ==
  ASSUME TypeOK, TypeOK', ToldInv, LoneWorker, NEW w \in Workers, OpenRun(w)
  PROVE  ToldInv'
<1>1. PICK x, r, new, v :
        /\ x = work[w] /\ r = Len(runs) + 1
        /\ new = [status |-> "RUNNING", snapshot |-> FALSE, decision |-> 0]
        /\ v = [x EXCEPT !.run = r, !.prev = PreviousState(r)]
  OBVIOUS
<1>2. /\ runs' = Append(runs, new) /\ pc[w] = "loaded" /\ UNCHANGED <<decisions, told>>
      /\ pc' = [pc EXCEPT ![w] = "prepare"] /\ work' = [work EXCEPT ![w] = v]
  BY <1>1 DEF OpenRun, Goto
<1>3. new.snapshot = FALSE
  BY <1>1
<1>4. RunsTyped /\ RunsTyped'
  BY RunTypes, PTL
<1>5. /\ Len(runs') = r /\ runs'[r] = new /\ r \in Nat /\ r # 0
      /\ \A i \in 1 .. Len(runs) : i # r /\ runs'[i] = runs[i]
      /\ \A i \in 1 .. r : i # r => i \in 1 .. Len(runs)
  <2>1. runs \in Seq([status : RunStatuses, snapshot : BOOLEAN, decision : Nat])
    BY DEF TypeOK
  <2>2. QED
    BY <1>1, <1>2, <1>4, <2>1 DEF RunsTyped
<1>6. KeepsHistory
  <2>1. Attempted' = Attempted
    BY <1>2 DEF told, Attempted
  <2>2. QED
    BY <1>2, <1>3, <1>4, <1>5, <2>1 DEF KeepsHistory, UnsafeRuns, RunsTyped
<1>7. RecordedTold'
  BY <1>2, <1>6, RecordedKept DEF ToldInv, told, Attempted
<1>8. CycleHeld("loaded", x) /\ x \in Locals
  BY <1>1, <1>2 DEF ToldInv, TypeOK
<1>9. /\ v.run = r /\ v.prev = PreviousState(r) /\ v.decision = x.decision
      /\ v.outcome = x.outcome
  BY <1>1, <1>8 DEF Locals
<1>10. HistoryHeld("prepare", v)'
  <2>1. PreviousState(r)' = PreviousState(r)
    BY <1>6, KeptPrevious
  <2>2. QED
    BY <1>3, <1>5, <1>9, <2>1 DEF HistoryHeld
<1>11. DecisionHeld("prepare", v)' /\ ApprovalHeld("prepare", v)'
  BY <1>8, <1>9 DEF CycleHeld, DecisionHeld, ApprovalHeld, Evaluated
<1>12. CycleHeld("prepare", v)'
  BY <1>10, <1>11 DEF CycleHeld, RiskHeld, RecoveryHeld, BlockHeld, Evaluated
<1>13. QED
  BY <1>2, <1>7, <1>12, ToldOfLone

\* A decision is persisted: it is newer than all recorded ones.
LEMMA PersistTold ==
  ASSUME TypeOK, TypeOK', ToldInv, LoneWorker, NEW w \in Workers, Persist(w)
  PROVE  ToldInv'
<1>1. PICK x : x = work[w]
  OBVIOUS
<1>2. CycleHeld("persist", x) /\ x \in Locals
  BY <1>1 DEF Persist, ToldInv, TypeOK
<1>3. UNCHANGED <<runs, told>> /\ pc' = [pc EXCEPT ![w] = "risk"]
  BY DEF Persist, Goto
<1>4. UNCHANGED Attempted
  BY <1>3 DEF told, Attempted
<1>5. RunsTyped
  BY RunTypes
<1>6. CASE ~ Unsafe(x.risk)
  <2>1. UNCHANGED database /\ work' = [work EXCEPT ![w] = x]
    BY <1>1, <1>3, <1>6 DEF Persist, database, TypeOK
  <2>2. CycleHeld("risk", x)
    BY <1>2, <1>6 DEF CycleHeld, HistoryHeld, DecisionHeld, RiskHeld, RecoveryHeld, BlockHeld,
                      ApprovalHeld, Evaluated
  <2>3. QED
    BY <1>3, <1>4, <2>1, <2>2, QuietTold
<1>7. CASE Unsafe(x.risk)
  <2>1. PICK d, n, v :
          /\ d = [risk |-> x.risk, action |-> SelectedAction(x.offer, saved[x.policy].guarded),
                  mode |-> saved[x.policy].mode, blocker |-> "NONE", readiness |-> "NONE"]
          /\ n = Len(decisions) + 1 /\ v = [x EXCEPT !.decision = n]
    OBVIOUS
  <2>2. decisions' = Append(decisions, d) /\ work' = [work EXCEPT ![w] = v]
    BY <1>1, <1>7, <2>1 DEF Persist
  <2>3. d.risk = x.risk
    BY <2>1
  <2>4. /\ v.run = x.run /\ v.prev = x.prev /\ v.risk = x.risk /\ v.outcome = x.outcome
        /\ v.decision = n
    BY <1>2, <2>1 DEF Locals
  <2>5. /\ n \in Nat /\ n # 0 /\ decisions'[n] = d
        /\ \A i \in 1 .. Len(decisions) : decisions'[i] = decisions[i] /\ i < n
    <3>1. decisions \in Seq([risk : Levels, action : Actions \cup {NoAction}, mode : Modes,
                             blocker : Blockers, readiness : Readiness])
      BY DEF TypeOK
    <3>2. QED
      BY <2>1, <2>2, <3>1
  <2>6. \A i \in UnsafeRuns : runs[i].decision \in 1 .. Len(decisions)
    BY UnsafeAreRuns
  <2>7. KeepsHistory
    BY <1>3, <1>4, <2>5, <2>6 DEF KeepsHistory
  <2>8. RecordedTold'
    BY <1>4, <2>7, RecordedKept DEF ToldInv
  <2>9. HistoryHeld("risk", v)'
    <3>1. HistoryHeld("risk", v)
      BY <1>2, <2>4 DEF CycleHeld, HistoryHeld
    <3>2. QED
      BY <1>3, <2>7, <3>1, CycleKept
  <2>10. DecisionHeld("risk", v)'
    <3>1. UNCHANGED UnsafeRuns
      BY <1>3 DEF UnsafeRuns
    <3>2. QED
      BY <1>3, <1>7, <2>3, <2>4, <2>5, <2>6, <3>1 DEF DecisionHeld, Evaluated
  <2>11. ApprovalHeld("risk", v)'
    BY <1>2, <2>4 DEF CycleHeld, ApprovalHeld
  <2>12. CycleHeld("risk", v)'
    BY <2>9, <2>10, <2>11 DEF CycleHeld, RiskHeld, RecoveryHeld, BlockHeld, Evaluated
  <2>13. QED
    BY <1>3, <2>2, <2>8, <2>12, ToldOfLone
<1>8. QED
  BY <1>6, <1>7

\* The risk is announced, or was before; a recovery is of the episode of the
\* run before.
LEMMA AnnounceRiskTold ==
  ASSUME TypeOK, TypeOK', ToldInv, LoneWorker, NEW w \in Workers, AnnounceRisk(w)
  PROVE  ToldInv'
<1>1. PICK x, l : x = work[w] /\ l = (IF Unsafe(x.risk) THEN "action" ELSE "complete")
  OBVIOUS
<1>2. CycleHeld("risk", x) /\ x \in Locals
  BY <1>1 DEF AnnounceRisk, ToldInv, TypeOK
<1>3. /\ UNCHANGED <<runs, decisions>> /\ pc' = [pc EXCEPT ![w] = l]
      /\ work' = [work EXCEPT ![w] = x]
  BY <1>1 DEF AnnounceRisk, Goto, database, TypeOK
<1>4. /\ x.run = Len(runs) /\ x.run # 0 /\ ~ runs[x.run].snapshot
      /\ x.prev = PreviousState(x.run) /\ x.run \in Nat
  BY <1>2, RunTypes DEF CycleHeld, HistoryHeld, RunsTyped
<1>5. x.risk \in Levels \cup {"SAFE"} /\ (Unsafe(x.risk) <=> x.risk \in Levels)
  BY <1>2, MonitoringConstants DEF Locals, Unsafe
<1>6. \/ /\ ShouldNotifyRecovery(x.prev, x.risk)
         /\ Attempted' = Attempted \cup {<<"RECOVERY", "SAFE", x.prev.episode>>}
      \/ /\ ~ ShouldNotifyRecovery(x.prev, x.risk) /\ ShouldNotifyRisk(x.prev, x.risk)
         /\ Attempted' = Attempted \cup {<<"RISK", x.risk, x.run>>}
      \/ /\ ~ ShouldNotifyRecovery(x.prev, x.risk) /\ ~ ShouldNotifyRisk(x.prev, x.risk)
         /\ Attempted' = Attempted
  <2>1. \A n : SafeNotify(n) => Attempted' = Attempted \cup {n}
    BY NoticeAdds
  <2>2. Silent => Attempted' = Attempted
    BY DEF Silent, told, Attempted
  <2>3. CASE ShouldNotifyRecovery(x.prev, x.risk)
    <3>1. SafeNotify(RecoveryKey(w))
      BY <1>1, <2>3 DEF AnnounceRisk, ShouldNotifyRecovery, ShouldNotifyRisk, Unsafe
    <3>2. QED
      BY <1>1, <2>1, <2>3, <3>1 DEF RecoveryKey
  <2>4. CASE ~ ShouldNotifyRecovery(x.prev, x.risk) /\ ShouldNotifyRisk(x.prev, x.risk)
    <3>1. SafeNotify(<<"RISK", x.risk, x.run>>)
      BY <1>1, <2>4 DEF AnnounceRisk
    <3>2. QED
      BY <2>1, <2>4, <3>1
  <2>5. CASE ~ ShouldNotifyRecovery(x.prev, x.risk) /\ ~ ShouldNotifyRisk(x.prev, x.risk)
    <3>1. Silent
      BY <1>1, <2>5 DEF AnnounceRisk
    <3>2. QED
      BY <2>2, <2>5, <3>1
  <2>6. QED
    BY <2>3, <2>4, <2>5
<1>7. KeepsHistory /\ UNCHANGED UnsafeRuns
  BY <1>3, <1>6 DEF KeepsHistory, UnsafeRuns
<1>8. ASSUME ShouldNotifyRecovery(x.prev, x.risk)
      PROVE  Before(x.run) \in UnsafeRuns /\ x.prev.episode = EpisodeOf(Before(x.run))
  <2>1. x.risk = "SAFE"
    BY <1>8 DEF ShouldNotifyRecovery
  <2>2. QED
    BY <1>4, <1>8, <2>1, RecoveryDue
<1>9. RecordedTold'
  <2>1. ASSUME NEW n \in Attempted' \ Attempted, n[1] = "RECOVERY"
        PROVE  \E p \in UnsafeRuns : EpisodeOf(p) = n[3]
    <3>1. ShouldNotifyRecovery(x.prev, x.risk) /\ n = <<"RECOVERY", "SAFE", x.prev.episode>>
      BY <1>6, <2>1
    <3>2. QED
      BY <1>8, <3>1
  <2>2. QED
    BY <1>7, <2>1, RecordedKept DEF ToldInv
<1>10. HistoryHeld(l, x)' /\ DecisionHeld(l, x)'
  <2>1. HistoryHeld(l, x) /\ DecisionHeld(l, x)
    BY <1>1, <1>2 DEF CycleHeld, HistoryHeld, DecisionHeld, Evaluated
  <2>2. QED
    BY <1>3, <1>7, <2>1, CycleKept
<1>11. RiskHeld(l, x)'
  <2> SUFFICES ASSUME Unsafe(x.risk) PROVE RiskToldAt(x.run, x.risk)'
    BY DEF RiskHeld
  <2>1. x.risk \in Levels /\ ~ ShouldNotifyRecovery(x.prev, x.risk)
    BY <1>5, MonitoringConstants DEF ShouldNotifyRecovery
  <2>2. CASE ShouldNotifyRisk(x.prev, x.risk)
    <3>1. <<"RISK", x.risk, x.run>> \in Attempted'
      BY <1>6, <2>1, <2>2
    <3>2. x.run \in 1 .. x.run /\ UnsafeSince(x.run, x.run)'
      BY <1>3, <1>4 DEF UnsafeSince
    <3>3. Rank(x.risk) >= Rank(x.risk)
      <4>1. \A l1 \in Levels : Rank(l1) \in Nat
        BY MonitoringConstants, RankValues
      <4>2. QED
        BY <2>1, <4>1
    <3>4. QED
      BY <2>1, <3>1, <3>2, <3>3 DEF RiskToldAt
  <2>3. CASE ~ ShouldNotifyRisk(x.prev, x.risk)
    <3>1. RiskToldAt(x.run, x.risk)
      BY <1>4, <2>1, <2>3, RiskKnown DEF ToldInv, RecordedTold
    <3>2. x.run <= Len(runs) /\ x.run <= Len(runs')
      BY <1>3, <1>4
    <3>3. QED
      BY <1>4, <1>7, <3>1, <3>2, KeptTold
  <2>4. QED
    BY <2>2, <2>3
<1>12. RecoveryHeld(l, x)'
  <2> SUFFICES ASSUME ~ Unsafe(x.risk), Before(x.run)' \in UnsafeRuns'
               PROVE  <<"RECOVERY", "SAFE", EpisodeOf(Before(x.run))>>' \in Attempted'
    BY DEF RecoveryHeld
  <2>1. Before(x.run)' = Before(x.run) /\ EpisodeOf(Before(x.run))' = EpisodeOf(Before(x.run))
    BY <1>3 DEF Before, EpisodeOf
  <2>2. x.risk = "SAFE" /\ Before(x.run) \in UnsafeRuns
    BY <1>5, <1>7, <2>1
  <2>3. ShouldNotifyRecovery(x.prev, x.risk)
    BY <1>4, <2>2, RecoveryDue
  <2>4. QED
    BY <1>6, <1>8, <2>1, <2>3
<1>13. BlockHeld(l, x)' /\ ApprovalHeld(l, x)'
  BY <1>1, <1>2 DEF CycleHeld, BlockHeld, ApprovalHeld
<1>14. QED
  BY <1>3, <1>9, <1>10, <1>11, <1>12, <1>13, ToldOfLone DEF CycleHeld


LEMMA ObserveTold ==
  ASSUME TypeOK, TypeOK', ToldInv, LoneWorker, NEW w \in Workers, Observe(w)
  PROVE  ToldInv'
<1>0. PICK x : x = work[w]
  OBVIOUS
<1>1. CycleHeld(pc[w], x) /\ x \in Locals
  BY <1>0 DEF ToldInv, TypeOK
<1>2. CASE Load(w)
  <2>1. PICK v, m : v = [x EXCEPT !.mode = m] /\ m = Policy.mode
    OBVIOUS
  <2>2. /\ v.decision = x.decision /\ v.outcome = x.outcome
    BY <1>1, <2>1 DEF Locals
  <2>3. /\ pc[w] = "idle" /\ pc' = [pc EXCEPT ![w] = "loaded"] /\ work' = [work EXCEPT ![w] = v]
        /\ UNCHANGED <<database, told>>
    BY <1>0, <1>2, <2>1 DEF Load, Goto
  <2>4. CycleHeld("loaded", v)
    BY <1>1, <2>2, <2>3 DEF CycleHeld, HistoryHeld, DecisionHeld, RiskHeld, RecoveryHeld, BlockHeld,
                            ApprovalHeld, Evaluated
  <2>5. UNCHANGED Attempted
    BY <2>3 DEF told, Attempted
  <2>6. QED
    BY <2>3, <2>4, <2>5, QuietTold
<1>3. CASE Analyse(w)
  <2>1. PICK v : /\ \/ v = [x EXCEPT !.policy = Version]
                    \/ \E risk \in Levels, offer \in Offers :
                         v = [x EXCEPT !.policy = Version, !.risk = risk, !.offer = offer]
                 /\ work' = [work EXCEPT ![w] = v]
    <3>1. CASE work' = [work EXCEPT ![w].policy = Version]
      BY <1>0, <3>1
    <3>2. CASE \E risk \in Levels, offer \in Offers :
                 work' = [work EXCEPT ![w].policy = Version, ![w].risk = risk, ![w].offer = offer]
      <4>1. PICK risk \in Levels, offer \in Offers :
              work' = [work EXCEPT ![w].policy = Version, ![w].risk = risk, ![w].offer = offer]
        BY <3>2
      <4>2. PICK v : v = [x EXCEPT !.policy = Version, !.risk = risk, !.offer = offer]
        OBVIOUS
      <4>3. work' = [work EXCEPT ![w] = v]
        BY <1>0, <4>1, <4>2
      <4>4. QED
        BY <4>2, <4>3
    <3>3. QED
      BY <1>3, <3>1, <3>2 DEF Analyse
  <2>2. v.run = x.run /\ v.prev = x.prev /\ v.decision = x.decision /\ v.outcome = x.outcome
    BY <1>1, <2>1 DEF Locals
  <2>3. pc[w] = "prepare" /\ pc' = [pc EXCEPT ![w] = "persist"] /\ UNCHANGED <<database, told>>
    BY <1>3 DEF Analyse, Goto
  <2>4. CycleHeld("persist", v)
    BY <1>1, <2>2, <2>3 DEF CycleHeld, HistoryHeld, DecisionHeld, RiskHeld, RecoveryHeld, BlockHeld,
                            ApprovalHeld, Evaluated
  <2>5. UNCHANGED Attempted
    BY <2>3 DEF told, Attempted
  <2>6. QED
    BY <2>1, <2>3, <2>4, <2>5, QuietTold
<1>4. CASE AnnounceAction(w)
  <2>1. PICK l \in {"blocker", "select"} : pc' = [pc EXCEPT ![w] = l]
    BY <1>4 DEF AnnounceAction, Goto
  <2>2. pc[w] = "action" /\ UNCHANGED database /\ work' = [work EXCEPT ![w] = x]
    BY <1>0, <1>4 DEF AnnounceAction, TypeOK
  <2>3. \/ Attempted' = Attempted
        \/ \E n : n[1] # "RECOVERY" /\ Attempted' = Attempted \cup {n}
    <3>1. \A n : SafeNotify(n) => Attempted' = Attempted \cup {n}
      BY NoticeAdds
    <3>2. Silent => Attempted' = Attempted
      BY DEF Silent, told, Attempted
    <3>3. Silent \/ \E n : n[1] # "RECOVERY" /\ SafeNotify(n)
      BY <1>4 DEF AnnounceAction
    <3>4. QED
      BY <3>1, <3>2, <3>3
  <2>4. x.outcome # "READY_TO_EXECUTE"
    BY <1>1, <2>2 DEF CycleHeld, ApprovalHeld
  <2>5. CycleHeld(l, x)
    <3>1. l \in Middle \cup {"blocker"} /\ pc[w] \in Middle \cup {"action"}
      BY <2>1, <2>2 DEF Middle
    <3>2. QED
      BY <1>1, <2>4, <3>1, MiddleHeld
  <2>6. QED
    BY <2>1, <2>2, <2>3, <2>5, QuietTold
<1>5. QED
  BY <1>2, <1>3, <1>4, OpenRunTold, PersistTold, AnnounceRiskTold DEF Observe

\* The decision takes the reason, and the reason is announced or was before.
LEMMA RecordBlockerTold ==
  ASSUME TypeOK, TypeOK', ToldInv, LoneWorker, NEW w \in Workers, RecordBlocker(w)
  PROVE  ToldInv'
<1>1. PICK x, d, reason, v, ready :
        /\ x = work[w] /\ d = x.decision /\ reason = Reason(w)
        /\ v = [x EXCEPT !.blocker = reason] /\ ready = x.readiness
  OBVIOUS
<1>2. CycleHeld("blocker", x) /\ x \in Locals
  BY <1>1 DEF RecordBlocker, ToldInv, TypeOK
<1>3. /\ decisions' = [decisions EXCEPT ![d].blocker = reason, ![d].readiness = ready]
      /\ UNCHANGED runs /\ pc' = [pc EXCEPT ![w] = "complete"]
      /\ work' = [work EXCEPT ![w] = v]
  BY <1>1 DEF RecordBlocker, Goto
<1>4. /\ v.run = x.run /\ v.prev = x.prev /\ v.decision = x.decision /\ v.risk = x.risk
      /\ v.outcome = x.outcome /\ v.blocker = reason
  BY <1>1, <1>2 DEF Locals
<1>5. /\ x.run = Len(runs) /\ x.run # 0 /\ ~ runs[x.run].snapshot
      /\ x.prev = PreviousState(x.run) /\ x.run \in Nat
  BY <1>2, RunTypes DEF CycleHeld, HistoryHeld, RunsTyped
<1>6. /\ Unsafe(x.risk) /\ d # 0 /\ d \in Nat
      /\ \A i \in UnsafeRuns : runs[i].decision < d
  BY <1>1, <1>2 DEF CycleHeld, DecisionHeld, Evaluated, Locals
<1>7. /\ \A i \in DOMAIN decisions : i # d => decisions'[i] = decisions[i]
      /\ decisions'[d].blocker = reason /\ decisions'[d].risk = decisions[d].risk
  <2> DEFINE D == [risk : Levels, action : Actions \cup {NoAction}, mode : Modes,
                   blocker : Blockers, readiness : Readiness]
  <2>1. d \in 0 .. Len(decisions) /\ decisions \in Seq(D)
    BY <1>1 DEF TypeOK
  <2>2. d \in DOMAIN decisions /\ decisions[d] \in D
    <3> HIDE DEF D
    <3> QED
      BY <1>6, <2>1
  <2>3. PICK y, z : y = decisions[d] /\ z = [y EXCEPT !.blocker = reason, !.readiness = ready]
    OBVIOUS
  <2>4. z.blocker = reason /\ z.risk = y.risk
    BY <2>2, <2>3
  <2>5. decisions' = [decisions EXCEPT ![d] = z]
    <3> HIDE DEF D
    <3> QED
      BY <1>3, <2>2, <2>3
  <2>6. QED
    <3> HIDE DEF D
    <3> QED
      BY <2>2, <2>3, <2>4, <2>5
<1>8. \/ /\ reason = "NONE" \/ ~ ShouldNotifyBlocker(x.prev, reason)
         /\ Attempted' = Attempted
      \/ Attempted' = Attempted \cup {<<"BLOCKED", reason, x.run>>}
  <2>1. CASE reason # "NONE" /\ ShouldNotifyBlocker(x.prev, reason)
    BY <1>1, <2>1, NoticeAdds DEF RecordBlocker
  <2>2. CASE ~ (reason # "NONE" /\ ShouldNotifyBlocker(x.prev, reason))
    BY <1>1, <2>2 DEF RecordBlocker, Silent, told, Attempted
  <2>3. QED
    BY <2>1, <2>2
<1>9. KeepsHistory /\ UNCHANGED UnsafeRuns
  <2>1. \A i \in UnsafeRuns : runs[i].decision \in DOMAIN decisions /\ runs[i].decision # d
    <3>1. DOMAIN decisions = 1 .. Len(decisions) /\ Len(decisions) \in Nat
      BY DEF TypeOK
    <3>2. QED
      BY <1>6, <3>1, UnsafeAreRuns
  <2>2. QED
    BY <1>3, <1>7, <1>8, <2>1 DEF KeepsHistory, UnsafeRuns
<1>10. RecordedTold'
  <2>1. \A n \in Attempted' \ Attempted : n[1] # "RECOVERY"
    BY <1>8
  <2>2. QED
    BY <1>9, <2>1, RecordedKept DEF ToldInv
<1>11. HistoryHeld("complete", v)' /\ DecisionHeld("complete", v)' /\ RiskHeld("complete", v)'
       /\ ApprovalHeld("complete", v)'
  <2>1. HistoryHeld("complete", v) /\ RiskHeld("complete", v) /\ ApprovalHeld("complete", v)
    BY <1>2, <1>4 DEF CycleHeld, HistoryHeld, RiskHeld, ApprovalHeld, Evaluated
  <2>2. DecisionHeld("complete", v)
    BY <1>2, <1>4 DEF CycleHeld, DecisionHeld, Evaluated
  <2>3. QED
    BY <1>1, <1>3, <1>4, <1>7, <1>9, <2>1, <2>2, CycleKept
<1>12. RecoveryHeld("complete", v)'
  BY <1>4, <1>6 DEF RecoveryHeld
<1>13. BlockHeld("complete", v)'
  <2> SUFFICES ASSUME reason # "NONE" PROVE BlockToldAt(x.run, reason)'
    BY <1>1, <1>4, <1>7 DEF BlockHeld
  <2>1. CASE ~ ShouldNotifyBlocker(x.prev, reason)
    <3>1. BlockToldAt(x.run, reason)
      BY <1>5, <2>1, BlockKnown DEF ToldInv, RecordedTold
    <3>2. x.run <= Len(runs) /\ x.run <= Len(runs')
      BY <1>3, <1>5
    <3>3. QED
      BY <1>5, <1>9, <3>1, <3>2, KeptTold
  <2>2. CASE <<"BLOCKED", reason, x.run>> \in Attempted'
    <3>1. \A j \in x.run .. x.run : ~ runs'[j].snapshot
      BY <1>3, <1>5
    <3>2. x.run \in 1 .. x.run
      BY <1>5
    <3>3. QED
      BY <2>2, <3>1, <3>2 DEF BlockToldAt
  <2>3. QED
    BY <1>8, <2>1, <2>2
<1>14. QED
  BY <1>3, <1>10, <1>11, <1>12, <1>13, ToldOfLone DEF CycleHeld

LEMMA FinishTold ==
  ASSUME TypeOK, TypeOK', ToldInv, LoneWorker, NEW w \in Workers, Finish(w)
  PROVE  ToldInv'
<1>0. PICK x : x = work[w]
  OBVIOUS
<1>1. CycleHeld(pc[w], x) /\ x \in Locals
  BY <1>0 DEF ToldInv, TypeOK
<1>2. CASE Throw(w)
  <2>1. /\ pc[w] \notin {"idle", "loaded"} /\ pc' = [pc EXCEPT ![w] = "catch"]
        /\ work' = [work EXCEPT ![w] = x] /\ UNCHANGED <<database, notices, lost>>
    BY <1>0, <1>2 DEF Throw, Goto, TypeOK
  <2>2. CycleHeld("catch", x)
    BY <1>1, <2>1 DEF CycleHeld, HistoryHeld, DecisionHeld, RiskHeld, RecoveryHeld, BlockHeld,
                      ApprovalHeld, Evaluated
  <2>3. UNCHANGED Attempted
    BY <2>1 DEF Attempted
  <2>4. QED
    BY <2>1, <2>2, <2>3, QuietTold
<1>3. CASE Crash(w)
  <2>1. Leave(w) /\ UNCHANGED <<database, Attempted>>
    BY <1>3 DEF Crash, Attempted
  <2>2. KeepsHistory
    BY <2>1 DEF KeepsHistory, database, UnsafeRuns
  <2>3. QED
    BY <2>1, <2>2, LeaveTold
<1>4. CASE Fail(w)
  <2>1. PICK n : n = <<"MONITORING_FAILED", "SAFE", x.run>>
    OBVIOUS
  <2>2. /\ runs' = [runs EXCEPT ![x.run].status = "FAILED"] /\ Leave(w) /\ UNCHANGED decisions
        /\ SafeNotify(n)
    BY <1>0, <1>4, <2>1 DEF Fail
  <2>3. Attempted' = Attempted \cup {n} /\ n[1] # "RECOVERY"
    BY <2>1, <2>2, NoticeAdds
  <2>4. x.run \in DOMAIN runs /\ ~ runs[x.run].snapshot
    BY <1>1, <1>4, RunTypes DEF Fail, CycleHeld, HistoryHeld, RunsTyped
  <2>5. /\ DOMAIN runs' = DOMAIN runs /\ ~ runs'[x.run].snapshot
        /\ \A i \in DOMAIN runs : i # x.run => runs'[i] = runs[i]
    <3>1. runs[x.run] \in [status : RunStatuses, snapshot : BOOLEAN, decision : Nat]
      <4> DEFINE R == [status : RunStatuses, snapshot : BOOLEAN, decision : Nat]
      <4>1. runs \in Seq(R)
        BY DEF TypeOK
      <4>2. runs[x.run] \in R
        <5> HIDE DEF R
        <5> QED
          BY <2>4, <4>1
      <4>3. QED
        BY <4>2
    <3>2. PICK row : row = [runs[x.run] EXCEPT !.status = "FAILED"]
      OBVIOUS
    <3>3. row.snapshot = runs[x.run].snapshot
      BY <3>1, <3>2
    <3>4. runs' = [runs EXCEPT ![x.run] = row]
      BY <2>2, <3>2
    <3>5. QED
      BY <2>4, <3>3, <3>4
  <2>6. KeepsHistory
    BY <2>2, <2>3, <2>4, <2>5 DEF KeepsHistory
  <2>7. QED
    BY <2>2, <2>3, <2>6, LeaveTold
<1>5. QED
  BY <1>2, <1>3, <1>4, RecordBlockerTold, CompleteTold DEF Finish


LEMMA ToldInit == Init => ToldInv
<1> SUFFICES ASSUME Init PROVE ToldInv
  OBVIOUS
<1>1. UnsafeRuns = {} /\ Attempted = {} /\ DOMAIN runs = {}
  BY DEF Init, UnsafeRuns, Attempted
<1>2. RecordedTold
  BY <1>1 DEF RecordedTold, RiskCovered, RecoveryPerEpisode, BlockedKnown, AllAsked
<1>3. \A w \in Workers : pc[w] = "idle" /\ work[w] = NoWork
  BY DEF Init
<1>4. QED
  BY <1>2, <1>3, IdleHeld DEF ToldInv

LEMMA ToldNext == TypeOK /\ TypeOK' /\ LoneWorker /\ ToldInv /\ [Next]_vars => ToldInv'
<1> SUFFICES ASSUME TypeOK, TypeOK', LoneWorker, ToldInv, [Next]_vars PROVE ToldInv'
  OBVIOUS
<1>1. ASSUME UNCHANGED <<database, told, pc, work>> PROVE ToldInv'
  <2>1. KeepsHistory /\ UNCHANGED <<runs, decisions, Attempted>>
    BY <1>1 DEF KeepsHistory, database, told, Attempted, UnsafeRuns
  <2>2. RecordedTold'
    BY <2>1, RecordedKept DEF ToldInv
  <2>3. ASSUME NEW w \in Workers PROVE CycleHeld(pc[w], work[w])'
    <3>1. PICK l, v : l = pc[w] /\ v = work[w]
      OBVIOUS
    <3>2. CycleHeld(l, v)
      BY <3>1 DEF ToldInv
    <3>3. CycleHeld(l, v)'
      BY <2>1, <3>2, CycleKept DEF CycleHeld
    <3>4. l = pc'[w] /\ v = work'[w]
      BY <1>1, <3>1
    <3>5. QED
      BY <3>3, <3>4
  <2>4. QED
    BY <2>2, <2>3 DEF ToldInv
<1>2. CASE SavePolicy
  BY <1>1, <1>2 DEF SavePolicy
<1>3. ASSUME NEW w \in Workers, Observe(w) \/ Intervene(w) \/ Finish(w) PROVE ToldInv'
  BY <1>3, ObserveTold, InterveneTold, FinishTold
<1>4. CASE UNCHANGED vars
  BY <1>1, <1>4 DEF vars
<1>5. QED
  BY <1>2, <1>3, <1>4 DEF Next

LEMMA ToldInvariant == LoneWorker /\ Spec => []ToldInv
<1> SUFFICES ASSUME LoneWorker PROVE Spec => []ToldInv
  OBVIOUS
<1>1. TypeOK /\ TypeOK' /\ ToldInv /\ [Next]_vars => ToldInv'
  BY ToldNext
<1>2. QED
  BY <1>1, TypeInit, TypeNext, ToldInit, PTL DEF Spec

\* With one worker, a cycle recorded on an unsafe position has its risk, or
\* a higher one, announced in this stretch of unsafe runs, whatever cycles
\* failed or died after announcing (shouldNotifyRisk).
THEOREM RiskIsCovered == LoneWorker /\ Spec => []RiskCovered
<1>1. ToldInv => RiskCovered
  BY DEF ToldInv, RecordedTold
<1>2. QED
  BY <1>1, ToldInvariant, PTL

\* With one worker, each unsafe episode that ends has its recovery announced
\* under the episode's own key, and no other recovery is announced
\* (shouldNotifyRecovery).
THEOREM RecoveryIsPerEpisode == LoneWorker /\ Spec => []RecoveryPerEpisode
<1>1. ToldInv => RecoveryPerEpisode
  BY DEF ToldInv, RecordedTold
<1>2. QED
  BY <1>1, ToldInvariant, PTL

\* With one worker, a run is recorded as blocked exactly when its decision
\* is, and the owner was told the reason in this stretch of runs blocked for
\* it (shouldNotifyBlocker).
THEOREM BlockedIsKnown == LoneWorker /\ Spec => []BlockedKnown
<1>1. ToldInv => BlockedKnown
  BY DEF ToldInv, RecordedTold
<1>2. QED
  BY <1>1, ToldInvariant, PTL

\* With one worker, a run recorded as waiting for approval belongs to a
\* stretch of such runs in which the owner was asked (approvalPending).
THEOREM ApprovalIsAsked == LoneWorker /\ Spec => []ApprovalAsked
<1>1. TypeOK /\ ToldInv => ApprovalAsked
  <2> SUFFICES ASSUME TypeOK, ToldInv, NEW r \in UnsafeRuns, runs[r].status = "READY_TO_EXECUTE"
               PROVE  \E i \in 1 .. r :
                        /\ \A j \in i .. r : runs[j].snapshot => runs[j].status = "READY_TO_EXECUTE"
                        /\ \E n \in Attempted : n[1] = "APPROVAL" /\ n[3] <= runs[r].decision
                             /\ \A j \in UnsafeRuns : j < i => n[3] > runs[j].decision
    BY DEF ApprovalAsked
  <2>1. AskedAt(r, runs[r].decision)
    BY DEF ToldInv, RecordedTold, AllAsked
  <2>2. runs[r].decision \in Nat
    BY RunTypes DEF RunsTyped, UnsafeRuns
  <2>3. QED
    BY <2>1, <2>2 DEF AskedAt, Approval
<1>2. QED
  BY <1>1, ToldInvariant, CycleTypes, PTL
=============================================================================
