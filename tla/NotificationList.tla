-------------------------- MODULE NotificationList --------------------------
(***************************************************************************)
(* Which notices the notification page displays, and under which heading   *)
(* (notifications/presentation.ts and classification.ts, with the filter,  *)
(* the view and "Load 25 more" of notification-center.tsx).  The           *)
(* meaningful view folds recalculations of one recommendation into a       *)
(* group, the executions filter the events of one execution; both are      *)
(* recomputed from all rows whenever a row arrives or the owner selects    *)
(* something.                                                              *)
(*                                                                         *)
(* Abstractions.  notices is the table in the order of createdAt, and a    *)
(* row is named by its place in it.  The action of a row is parsed; an     *)
(* amount counts millionths of a token, or a coarser unit, and is not      *)
(* negative.                                                               *)
(***************************************************************************)
EXTENDS Integers, Sequences, FiniteSets, SequencesExt

CONSTANTS
  Kinds,        \* the rows that may be written, records of RowShape
  NoAction,     \* parseAction finds none
  NoEpisode,    \* a row of before riskEpisodeId was recorded
  NoIdentity,   \* no execution, decision or fingerprint in the metadata
  Filters,      \* the filters the owner uses, of AllFilters
  PageSize,     \* NOTIFICATION_PAGE_SIZE
  MaxNotices    \* bound: rows of the table

AllFilters == {"all", "delivery", "risk", "recommendations", "executions", "failures", "system"}
RowShape   == {"type", "stale", "episode", "action", "amount", "declared", "execution", "webhook"}

ASSUME KindsAreRows    == \A k \in Kinds : DOMAIN k = RowShape
ASSUME FiltersAreKnown == Filters \subseteq AllFilters
ASSUME ListBounds      == PageSize \in Nat \ {0} /\ MaxNotices \in Nat

VARIABLES
  notices,    \* rows, the oldest first
  filter,     \* the filter of the page
  view,       \* "meaningful" or "every": All notifications
  visible     \* visibleCount

listVars == <<notices, filter, view, visible>>

-----------------------------------------------------------------------------
(***************************************************************************)
(* classifyProtectionEvent and filterNotifications.                        *)
(***************************************************************************)

Failures        == {"EXECUTION_FAILED", "MONITORING_FAILED", "PROTECTION_BLOCKED"}
Risks           == {"RISK_WATCH", "RISK_HIGH", "RISK_CRITICAL"}
Recommendations == {"MEI_SELECTED", "APPROVAL_REQUIRED"}
Executions      == {"EXECUTION_STARTED", "EXECUTION_CONFIRMED"}

Moves(k) == k.type = "POSITION_CHANGED" /\ ~k.stale

Category(k) == CASE k.type \in Failures             -> "failures"
                 [] k.type \in Risks \/ Moves(k)    -> "risk"
                 [] k.type \in Recommendations      -> "recommendations"
                 [] k.type \in Executions           -> "executions"
                 [] OTHER                           -> "system"

Passes(k, f) == \/ f = "all"
                \/ f = "delivery" /\ k.webhook \in {"FAILED", "PENDING"}
                \/ f = Category(k)

\* The members of P in the order of their keys.
InOrder(P, key) ==
  [p \in 1 .. Cardinality(P) |->
     CHOOSE n \in P : Cardinality({m \in P : key[m] < key[n]}) = p - 1]

Ascending(P) == InOrder(P, [n \in P |-> n])

\* The rows the filter lets through, the oldest first.
Passing  == {i \in DOMAIN notices : Passes(notices[i], filter)}
Filtered == Ascending(Passing)

-----------------------------------------------------------------------------
(***************************************************************************)
(* buildMeaningfulNotifications: a pass over the rows from the oldest.     *)
(* mei, the row last shown for itself, stands for lastMeaningfulAction and *)
(* lastMeaningfulNoticeId; group is the place of the active group.         *)
(***************************************************************************)

None == 0

Single(i)    == [kind |-> "notification", rows |-> {i}, mei |-> None]
Group(i, m)  == [kind |-> "mei-group", rows |-> {i}, mei |-> m]
Historical(n) == <<"historical", n>>
Explicit(e)   == <<"episode", e>>

NothingYet == [items |-> <<>>, mei |-> None, group |-> None, moves |-> 0, episode |-> Historical(0)]

Display(s, i)   == [s EXCEPT !.items = Append(@, Single(i))]
Forget(s)       == [s EXCEPT !.mei = None, !.group = None]
Shown(s, i)     == [Display(s, i) EXCEPT !.mei = i, !.group = None]

NewBoundary(s, i) == [Forget(Display(s, i)) EXCEPT !.moves = @ + 1,
                                                   !.episode = Historical(s.moves + 1)]

\* Mutant: the group keeps its latest row only.
ContinuedLatest(s, i) ==
  [s EXCEPT !.items[s.group].rows = {i}]

Continued(s, i) == [s EXCEPT !.items[s.group].rows = @ \cup {i}]

Folded(s, i) ==
  IF s.group # None
  THEN Continued(s, i)
  ELSE [s EXCEPT !.items = Append(@, Group(i, s.mei)), !.group = Len(s.items) + 1]

\* classifyActionNotificationChange: another action, or an amount that has moved,
\* by a unit and one percent at least.
Differs(before, after) ==
  \/ before.action # after.action
  \/ LET d == after.amount - before.amount
     IN  d # 0 /\ 100 * (IF d < 0 THEN -d ELSE d) >= before.amount

Changed(s, k) == k.declared \/ s.mei = None \/ Differs(notices[s.mei], k)

\* Mutant: the episode of the metadata is not looked at.
OfEpisodeInferred(s, k) == s

\* An episode of its own begins anew; a row without one stays where it is.
OfEpisode(s, k) ==
  IF k.episode # NoEpisode /\ Explicit(k.episode) # s.episode
  THEN [Forget(s) EXCEPT !.episode = Explicit(k.episode)]
  ELSE s

Selected(s, i) ==
  LET k == notices[i]
      t == OfEpisode(s, k)
  IN  IF k.action = NoAction THEN Forget(Display(t, i))
      ELSE IF Changed(t, k) THEN Shown(t, i)
      ELSE Folded(t, i)

Step(s, i) == CASE Moves(notices[i])                  -> NewBoundary(s, i)
                [] notices[i].type = "MEI_SELECTED"   -> Selected(s, i)
                [] OTHER                              -> Display(s, i)

Meaningful(list) == FoldLeft(Step, NothingYet, list).items

-----------------------------------------------------------------------------
(***************************************************************************)
(* buildNotificationItems and what the page renders of them, newest first. *)
(***************************************************************************)

Latest(item) == CHOOSE i \in item.rows : \A j \in item.rows : j <= i

NewestFirst(items) ==
  LET order == InOrder(DOMAIN items, [n \in DOMAIN items |-> -Latest(items[n])])
  IN  [p \in DOMAIN items |-> items[order[p]]]

\* groupExecutionNotifications: under the executions filter every item is one
\* event, and a group has the place of its newest.
SameExecution(i) == {j \in Passing : notices[j].execution = notices[i].execution}

OpensGroup(i) == notices[i].execution = NoIdentity \/ \A j \in SameExecution(i) : j <= i

ExecutionItem(i) ==
  IF notices[i].execution = NoIdentity THEN Single(i)
  ELSE [kind |-> "execution-group", rows |-> SameExecution(i), mei |-> None]

GroupExecutions(items) ==
  LET openers == {n \in DOMAIN items : OpensGroup(Latest(items[n]))}
      order   == Ascending(openers)
  IN  [p \in DOMAIN order |-> ExecutionItem(Latest(items[order[p]]))]

Plain(list) == [n \in DOMAIN list |-> Single(list[n])]

Items ==
  LET items == NewestFirst(IF view = "meaningful" THEN Meaningful(Filtered) ELSE Plain(Filtered))
  IN  IF filter = "executions" THEN GroupExecutions(items) ELSE items

\* paginateNotificationItems.
OnPage == SubSeq(Items, 1, IF visible < Len(Items) THEN visible ELSE Len(Items))

ListInit ==
  /\ notices = <<>>
  /\ filter \in Filters /\ view = "meaningful" /\ visible = PageSize

\* A row is written and the page loads it.
RowArrives(k) ==
  /\ Len(notices) < MaxNotices
  /\ notices' = Append(notices, k)
  /\ UNCHANGED <<filter, view, visible>>

SelectFilter(f) ==
  /\ filter' = f /\ visible' = PageSize
  /\ UNCHANGED <<notices, view>>

SelectView(v) ==
  /\ view' = v /\ visible' = PageSize
  /\ UNCHANGED <<notices, filter>>

LoadMore ==
  /\ Len(OnPage) < Len(Items)
  /\ visible' = visible + PageSize
  /\ UNCHANGED <<notices, filter, view>>

ListNext ==
  \/ \E k \in Kinds : RowArrives(k)
  \/ \E f \in Filters : SelectFilter(f)
  \/ \E v \in {"meaningful", "every"} : SelectView(v)
  \/ LoadMore

ListSpec == ListInit /\ [][ListNext]_listVars

-----------------------------------------------------------------------------
(***************************************************************************)
(* Properties.                                                             *)
(***************************************************************************)

ListTypeOK ==
  /\ notices \in Seq(Kinds) /\ Len(notices) <= MaxNotices
  /\ filter \in Filters /\ view \in {"meaningful", "every"}
  /\ visible \in Nat \ {0}

\* "Every row remains inside the group" (presentation.ts:117): whatever is
\* folded, a row the filter lets through is in one item of the list, and in no
\* other, and no two items of the page have the same key.
NothingHidden ==
  LET items == Items
  IN  /\ UNION {items[n].rows : n \in DOMAIN items} = Passing
      /\ \A m, n \in DOMAIN items : m # n => /\ items[m].rows \cap items[n].rows = {}
                                             /\ items[m].kind = "mei-group" => items[m].mei # items[n].mei

\* "Collapses only semantically unchanged MEI recalculations": all rows of a
\* group repeat one row that is displayed for itself, within one percent of it
\* however long the series; they are of one episode, and without a filter, which
\* may leave those rows out, the position did not move between them.
GroupsAreRepeats ==
  LET items == Items
  IN  \A n \in DOMAIN items : items[n].kind = "mei-group" =>
        LET g == items[n]
            all == g.rows \cup {g.mei}
        IN  /\ \E m \in DOMAIN items : items[m] = Single(g.mei)
            /\ \A i \in g.rows : g.mei < i /\ ~Differs(notices[g.mei], notices[i])
            /\ Cardinality({notices[i].episode : i \in all} \ {NoEpisode}) <= 1
            /\ filter = "all" =>
                 ~\E b \in DOMAIN notices : Moves(notices[b]) /\ \E i, j \in all : i < b /\ b < j

\* The meaningful view hides nothing and folds only repeats.
FoldingIsHonest == NothingHidden /\ GroupsAreRepeats
=============================================================================
