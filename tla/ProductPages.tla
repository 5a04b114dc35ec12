----------------------------- MODULE ProductPages -----------------------------
(***************************************************************************)
(* What the dashboard, the protection page and the dot in the shell say of *)
(* an account (product/data.ts, models.ts, shell-data.ts).  They read the  *)
(* policy, the newest snapshot and the newest decision each for itself,    *)
(* while others write: monitoring cycles, executions of the worker and of  *)
(* operators, and whoever has the position read for the owner (Refresh     *)
(* position, onboarding, POST /api/positions/aave).  Newest is by the time *)
(* in the row: a snapshot has that of its reading of the chain, a decision *)
(* that of its creation, and rows may be committed in another order.       *)
(*                                                                         *)
(* Abstractions.  A health factor and the target of the policy are small   *)
(* numbers, and risk is below the target.  The owner may save any policy   *)
(* at any time, so a load reads of it what it likes, and what is said is   *)
(* said for every row.  The processes agree on the time, and no two of     *)
(* these times are equal.  The execution inside a cycle is a writer beside *)
(* it.  A load that fails says nothing; that a page is cached for fifteen  *)
(* seconds only makes it older.                                            *)
(***************************************************************************)
EXTENDS Integers

CONSTANTS
  HealthFactors,  \* of positions
  Targets,        \* the target of a policy
  Verdicts,       \* status of an analysis that finds risk, or some of them
  Writers,        \* requests and cycles at work at the same time
  MaxTime         \* bound: times taken for rows

ASSUME PagesBounds == HealthFactors \cup Targets \subseteq Nat /\ MaxTime \in Nat
ASSUME VerdictsAreKnown == Verdicts \subseteq {"READY", "REQUIRE_APPROVAL", "NO_SAFE_ACTION"}

VARIABLES
  taken,      \* the last time that was taken for a row
  snapshot,   \* the newest snapshot of this chain
  decision,   \* the newest decision about a snapshot of this chain
  writer,     \* [Writers -> what it does next, the position and the decision in hand]
  verified,   \* the newest position an execution was confirmed with; a history variable
  screen      \* the load of a page or of the shell

pagesVars == <<taken, snapshot, decision, writer, verified, screen>>

Statuses   == {"READY", "REQUIRE_APPROVAL", "NO_SAFE_ACTION", "PROTECTION_BLOCKED", "COMPLETED"}
Parts      == {"snapshot", "decision"}
NoSnapshot == [id |-> 0, hf |-> 0]
NoDecision == [about |-> 0, at |-> 0, selects |-> "none", status |-> "none", late |-> FALSE]
NoPolicy   == [enabled |-> FALSE, target |-> 0]
NoWork     == [next |-> "read", position |-> NoSnapshot, draft |-> NoDecision]

NoPage == [of |-> "nothing", left |-> Parts, snapshot |-> NoSnapshot, decision |-> NoDecision,
           current |-> {}, since |-> 0]

PagesInit ==
  /\ taken = 0 /\ snapshot = NoSnapshot /\ decision = NoDecision /\ verified = 0
  /\ writer = [w \in Writers |-> NoWork]
  /\ screen = NoPage

-----------------------------------------------------------------------------
(***************************************************************************)
(* What is written meanwhile.  No variables of the code: late says of a    *)
(* decision that its snapshot was not the newest any more when it was      *)
(* written; current are the snapshots that were the newest, with a         *)
(* decision about them the newest, while a page was loading; since is what *)
(* was verified when its load began.                                       *)
(***************************************************************************)

\* The rows are committed.
Newer(s) == IF s.id > snapshot.id THEN s ELSE snapshot
Later(d) == IF d.at > decision.at THEN d ELSE decision

Write(s, d) ==
  /\ snapshot' = s /\ decision' = d
  /\ screen' = IF screen.of = "nothing" \/ s.id # d.about THEN screen
               ELSE [screen EXCEPT !.current = @ \cup {s.id}]

\* Another word on a decision, if it is still the newest.
Restated(about, status) ==
  IF decision.about = about THEN [decision EXCEPT !.status = status] ELSE decision

TakeTime == taken < MaxTime /\ taken' = taken + 1

\* getAavePosition has read; fetchedAt is taken last.
FetchPosition(w, hf) ==
  /\ writer[w].next = "read" /\ TakeTime
  /\ writer' = [writer EXCEPT ![w].next = "write", ![w].position = [id |-> taken + 1, hf |-> hf]]
  /\ UNCHANGED <<snapshot, decision, verified, screen>>

\* persistPositionSnapshot of POST /api/onboarding/position and of POST
\* /api/positions/aave; nothing is decided.
RefreshPosition(w) ==
  /\ writer[w].next = "write"
  /\ Write(Newer(writer[w].position), decision)
  /\ writer' = [writer EXCEPT ![w] = NoWork]
  /\ UNCHANGED <<taken, verified>>

\* persistMonitoringResult: the snapshot in one transaction ...
Capture(w) ==
  /\ writer[w].next = "write"
  /\ Write(Newer(writer[w].position), decision)
  /\ writer' = [writer EXCEPT ![w].next = "decide"]
  /\ UNCHANGED <<taken, verified>>

\* What the engine selected: the action of a candidate, REQUIRE_APPROVAL in its
\* place, or nothing.
SelectedIn(status) == CASE status = "READY"            -> "candidate"
                        [] status = "REQUIRE_APPROVAL" -> "approval"
                        [] OTHER                       -> "none"

\* The decision is drawn up, with its createdAt, about the position in hand ...
Draft(w, status, next) ==
  /\ TakeTime
  /\ writer' = [writer EXCEPT ![w].next = next,
       ![w].draft = [about |-> writer[w].position.id, at |-> taken + 1,
                     selects |-> SelectedIn(status), status |-> status, late |-> FALSE]]
  /\ UNCHANGED <<snapshot, decision, verified, screen>>

DraftDecision(w, status)    == writer[w].next = "decide" /\ Draft(w, status, "commit")
DraftReservation(w, status) == /\ writer[w].next = "write" /\ status # "NO_SAFE_ACTION"
                               /\ Draft(w, status, "reserve")

\* ... and committed: by the cycle alone, its snapshot being there ...
Dated(d, s) == [d EXCEPT !.late = d.about # s.id]

Decide(w) ==
  /\ writer[w].next = "commit"
  /\ Write(snapshot, Later(Dated(writer[w].draft, snapshot)))
  /\ writer' = [writer EXCEPT ![w].next = "block"]
  /\ UNCHANGED <<taken, verified>>

\* ... and by reserveCanonicalExecution together with its snapshot.
Reserve(w) ==
  LET s == Newer(writer[w].position)
  IN  /\ writer[w].next = "reserve"
      /\ Write(s, Later(Dated(writer[w].draft, s)))
      /\ writer' = [writer EXCEPT ![w].next = "verify"]
      /\ UNCHANGED <<taken, verified>>

\* Its row is there, NOT_STARTED: an execution that died before its claim had
\* reserved, and this one goes on with the decision of that row.  It may be the
\* newest (here also a cycle's, that has no row), or be written to no more.
Resume(w) ==
  /\ writer[w].next = "write" /\ decision # NoDecision
  /\ \E d \in {decision, NoDecision} :
       writer' = [writer EXCEPT ![w].next = "verify", ![w].draft = d]
  /\ UNCHANGED <<taken, snapshot, decision, verified, screen>>

\* PROTECTION_BLOCKED, at the end of the cycle.
Block(w) ==
  /\ writer[w].next = "block"
  /\ Write(snapshot, Restated(writer[w].draft.about, "PROTECTION_BLOCKED"))
  /\ writer' = [writer EXCEPT ![w] = NoWork]
  /\ UNCHANGED <<taken, verified>>

\* readPost: the health factor has improved.
ReadPost(w, hf) ==
  /\ writer[w].next = "verify" /\ hf > writer[w].position.hf /\ TakeTime
  /\ writer' = [writer EXCEPT ![w].next = "confirm", ![w].position = [id |-> taken + 1, hf |-> hf]]
  /\ UNCHANGED <<snapshot, decision, verified, screen>>

\* persistConfirmedExecution.
ConfirmExecution(w) ==
  LET after == writer[w].position
  IN  /\ writer[w].next = "confirm"
      /\ Write(Newer(after), Restated(writer[w].draft.about, "COMPLETED"))
      /\ verified' = IF after.id > verified THEN after.id ELSE verified
      /\ writer' = [writer EXCEPT ![w] = NoWork]
      /\ UNCHANGED taken

\* SAFE, a position that could not be read, a row claimed already, a
\* failed execution, or a death.
GiveUp(w) ==
  /\ writer[w].next # "read"
  /\ writer' = [writer EXCEPT ![w] = NoWork]
  /\ UNCHANGED <<taken, snapshot, decision, verified, screen>>

WriterStep(w) ==
  \/ \E hf \in HealthFactors : FetchPosition(w, hf) \/ ReadPost(w, hf)
  \/ \E status \in Verdicts : DraftDecision(w, status) \/ DraftReservation(w, status)
  \/ RefreshPosition(w) \/ Capture(w) \/ Decide(w) \/ Reserve(w) \/ Block(w) \/ ConfirmExecution(w)
  \/ Resume(w) \/ GiveUp(w)

-----------------------------------------------------------------------------
(***************************************************************************)
(* loadProductDataUncached and loadShellDataUncached.                      *)
(***************************************************************************)

Load(of) ==
  /\ screen.of = "nothing"
  /\ screen' = [NoPage EXCEPT !.of = of, !.since = verified,
                  !.current = IF snapshot.id = decision.about THEN {snapshot.id} ELSE {}]

ReadSnapshot ==
  /\ "snapshot" \in screen.left
  /\ screen' = [screen EXCEPT !.left = @ \ {"snapshot"}, !.snapshot = snapshot]

\* The shell does not restrict decisions to the chain.
Foreign == [decision EXCEPT !.about = -1]

NewestDecisions == {decision} \cup (IF screen.of = "shell" THEN {Foreign} ELSE {})

ReadDecision ==
  /\ "decision" \in screen.left
  /\ \E d \in NewestDecisions : screen' = [screen EXCEPT !.left = @ \ {"decision"}, !.decision = d]

ReadPart == screen.of # "nothing" /\ (ReadSnapshot \/ ReadDecision)

\* The page is shown; or a query fails, and there is an empty page, an empty shell.
LeaveScreen == screen.of # "nothing" /\ screen' = NoPage

LoadStep == /\ (\E of \in {"page", "shell"} : Load(of)) \/ ReadPart \/ LeaveScreen
            /\ UNCHANGED <<taken, snapshot, decision, writer, verified>>

PagesNext == LoadStep \/ \E w \in Writers : WriterStep(w)

PagesSpec == PagesInit /\ [][PagesNext]_pagesVars

-----------------------------------------------------------------------------
(***************************************************************************)
(* What is said.                                                           *)
(***************************************************************************)

PolicyRows == [enabled : BOOLEAN, target : Targets] \cup {NoPolicy}

Loaded == screen.of # "nothing" /\ screen.left = {}

\* liveRisk.
AtRisk(policy) == screen.snapshot # NoSnapshot /\ screen.snapshot.hf < policy.target

\* Mutant: the newest decision is the current one.
CurrentIfAny == screen.decision # NoDecision

IsCurrent == screen.decision # NoDecision /\ screen.decision.about = screen.snapshot.id

\* selectedCandidate: a page looks for the candidate of the selected action and
\* finds none for REQUIRE_APPROVAL; the shell is content with any valid one.
HasCandidate == \/ screen.decision.selects = "candidate"
                \/ screen.of = "shell" /\ screen.decision.selects = "approval"

\* shouldShowProtectionAttention.
Attention(policy) == /\ policy.enabled /\ AtRisk(policy) /\ IsCurrent /\ HasCandidate
                     /\ screen.decision.status \in {"READY", "REQUIRE_APPROVAL"}

\* currentDecisionIsActionable, and protectionRecommendation.
Actionable(policy) == screen.of = "page" /\ IsCurrent /\ AtRisk(policy) /\ HasCandidate

AsksToAct == \E policy \in PolicyRows : Attention(policy) \/ Actionable(policy)

-----------------------------------------------------------------------------
(***************************************************************************)
(* Properties.                                                             *)
(***************************************************************************)

Times     == 0 .. MaxTime
Snapshots == [id : Times, hf : HealthFactors \cup {0}]
Decisions == [about : Times \cup {-1}, at : Times, selects : {"candidate", "approval", "none"},
              status : Statuses \cup {"none"}, late : BOOLEAN]
Works     == [next : {"read", "write", "decide", "commit", "block", "reserve", "verify", "confirm"},
              position : Snapshots, draft : Decisions]
Screens   == [of : {"nothing", "page", "shell"}, left : SUBSET Parts, snapshot : Snapshots,
              decision : Decisions, current : SUBSET Times, since : Times]

PagesTypeOK ==
  /\ taken \in Times /\ verified \in Times
  /\ snapshot \in Snapshots /\ decision \in Decisions
  /\ writer \in [Writers -> Works]
  /\ screen \in Screens

\* A page or a shell that asks the owner to act does not ask for what has been
\* done: whoever else writes, its advice is about a position that was read no
\* earlier than the one the last execution was confirmed with before it began to
\* load.  And it pairs a position with advice of the same moment: there was one,
\* while it loaded, at which that snapshot and a decision about it were the newest
\* of the account; unless that decision was late, that is, when it was written the
\* position had been refreshed, or an execution had read it again.
AdviceIsTimely ==
  Loaded /\ AsksToAct =>
    /\ screen.snapshot.id >= screen.since
    /\ screen.snapshot.id \in screen.current \/ screen.decision.late
=============================================================================
