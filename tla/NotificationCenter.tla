------------------------- MODULE NotificationCenter -------------------------
(***************************************************************************)
(* The page that lists the notices (notification-center.tsx) over the      *)
(* table that Delivery.tla writes, and api/notifications between the two.  *)
(* The page loads when it is opened, every twelve seconds while its tab is *)
(* visible, when the tab becomes visible again, on Refresh, and after a    *)
(* PATCH has marked a row, or all of them, as read; one request at a time, *)
(* every other load() is dropped.  An answer is that of the table when the *)
(* server read it.                                                         *)
(*                                                                         *)
(* Abstractions.  Refresh does what a tick does.  A PATCH in flight when   *)
(* the page is left is applied by then or never.  Which notices a filter   *)
(* or a group displays is in NotificationList.tla.                         *)
(***************************************************************************)
EXTENDS Delivery

CONSTANT Everything     \* mark() without an id: all rows

ASSUME EverythingIsNoNotice == Everything \notin Notices

VARIABLES
  readAt,       \* [Notices -> BOOLEAN]
  page,         \* the component: open, visible, polling, due, loading, skipped
  load,         \* load(): step, initial, body
  mark,         \* mark(): step, which
  shown         \* notices: what the page displays of each row

pageVars   == <<readAt, page, load, mark, shown>>
centerVars == <<deliveryVars, pageVars>>

Row(n)  == [word |-> said[n], read |-> readAt[n]]
Table   == [n \in Notices |-> Row(n)]
Unshown == [n \in Notices |-> [word |-> "nothing", read |-> FALSE]]

NoLoad  == [step |-> "none", initial |-> FALSE, body |-> Unshown]
NoMark  == [step |-> "none", which |-> Everything]

\* Mutant: the interval outlives the component.
ClosedStillPolling == [open |-> FALSE, visible |-> FALSE, polling |-> TRUE, due |-> FALSE,
                       loading |-> FALSE, skipped |-> FALSE]

Closed  == [open |-> FALSE, visible |-> FALSE, polling |-> FALSE, due |-> FALSE,
            loading |-> FALSE, skipped |-> FALSE]

CenterInit ==
  /\ DeliveryInit
  /\ readAt = [n \in Notices |-> FALSE]
  /\ page = Closed /\ load = NoLoad /\ mark = NoMark /\ shown = Unshown

-----------------------------------------------------------------------------
(***************************************************************************)
(* load() and what calls it.                                               *)
(***************************************************************************)

Sent(initial) == [step |-> "sent", initial |-> initial, body |-> Unshown]

\* requestInFlight drops the call.
CallLoad(initial) == load' = IF load = NoLoad THEN Sent(initial) ELSE load

\* Mounted: the first load is due in a moment, polling starts if one can see it.
OpenCenter ==
  /\ ~page.open
  /\ \E visible \in BOOLEAN :
       page' = [open |-> TRUE, visible |-> visible, polling |-> visible, due |-> TRUE,
                loading |-> TRUE, skipped |-> FALSE]
  /\ UNCHANGED <<deliveryVars, readAt, load, mark, shown>>

\* Unmounted: what is in flight no longer finds anyone.
CloseCenter ==
  /\ page.open
  /\ page' = Closed /\ load' = NoLoad /\ mark' = NoMark /\ shown' = Unshown
  /\ UNCHANGED <<deliveryVars, readAt>>

\* load(true).  If another load is in flight this one is dropped, and with it
\* the only call that would take the spinner away.
InitialLoad ==
  /\ page.due
  /\ page' = [page EXCEPT !.due = FALSE, !.skipped = load # NoLoad]
  /\ CallLoad(TRUE)
  /\ UNCHANGED <<deliveryVars, readAt, mark, shown>>

PollTick ==
  /\ page.polling /\ load = NoLoad
  /\ CallLoad(FALSE)
  /\ UNCHANGED <<deliveryVars, readAt, page, mark, shown>>

\* Mutant: a tab that is shown again loads, and does not go back to polling.
ShownWithoutPolling == [page EXCEPT !.visible = TRUE]

ShownAgain == [page EXCEPT !.visible = TRUE, !.polling = TRUE]

ShowTab ==
  /\ page.open /\ ~page.visible
  /\ page' = ShownAgain
  /\ CallLoad(FALSE)
  /\ UNCHANGED <<deliveryVars, readAt, mark, shown>>

HideTab ==
  /\ page.visible
  /\ page' = [page EXCEPT !.visible = FALSE, !.polling = FALSE]
  /\ UNCHANGED <<deliveryVars, readAt, load, mark, shown>>

\* GET /api/notifications.
ServeTable ==
  /\ load.step = "sent"
  /\ load' = [load EXCEPT !.step = "answered", !.body = Table]
  /\ UNCHANGED <<deliveryVars, readAt, page, mark, shown>>

\* The finally of load(), which mark() may be waiting for.
EndLoad ==
  /\ load' = NoLoad
  /\ page' = [page EXCEPT !.loading = @ /\ ~load.initial]
  /\ mark' = IF mark.step = "reload" THEN NoMark ELSE mark

LoadArrives ==
  /\ load.step = "answered"
  /\ shown' = load.body
  /\ EndLoad
  /\ UNCHANGED <<deliveryVars, readAt>>

\* 401, an error of the server, or no connection: what is shown stays.
LoadFails ==
  /\ load.step = "sent"
  /\ EndLoad
  /\ Spend
  /\ UNCHANGED <<webhook, doubted, said, tries, call, pushed, arrived, readAt, shown>>

-----------------------------------------------------------------------------
(***************************************************************************)
(* mark().                                                                 *)
(***************************************************************************)

Unread(n) == shown[n].word # "nothing" /\ ~shown[n].read

\* A button per notice in the list, and one for all: disabled while one of them
\* is at work.
StartMark(which) ==
  /\ page.open /\ mark = NoMark
  /\ \/ which = Everything /\ \E n \in Notices : Unread(n)
     \/ which \in Notices /\ Unread(which) /\ ~page.loading
  /\ mark' = [step |-> "sent", which |-> which]
  /\ UNCHANGED <<deliveryVars, readAt, page, load, shown>>

\* PATCH /api/notifications: all means every row of the user that is there now,
\* shown or not.
ServeMark ==
  /\ mark.step = "sent"
  /\ readAt' = [n \in Notices |->
       readAt[n] \/ (said[n] # "nothing" /\ mark.which \in {n, Everything})]
  /\ mark' = [mark EXCEPT !.step = "done"]
  /\ UNCHANGED <<deliveryVars, page, load, shown>>

\* The answer: mark() loads again, or finds a load in flight and is over.
MarkReturns ==
  /\ mark.step = "done"
  /\ mark' = IF load = NoLoad THEN [mark EXCEPT !.step = "reload"] ELSE NoMark
  /\ CallLoad(FALSE)
  /\ UNCHANGED <<deliveryVars, readAt, page, shown>>

\* The request or its answer is lost.
MarkFails ==
  /\ mark.step \in {"sent", "done"}
  /\ mark' = NoMark
  /\ Spend
  /\ UNCHANGED <<webhook, doubted, said, tries, call, pushed, arrived, readAt, page, load, shown>>

PageStep == InitialLoad \/ PollTick \/ ServeTable \/ LoadArrives \/ ServeMark \/ MarkReturns

CenterNext ==
  \/ DeliveryNext /\ UNCHANGED pageVars
  \/ PageStep
  \/ OpenCenter \/ CloseCenter \/ ShowTab \/ HideTab \/ LoadFails \/ MarkFails
  \/ \E which \in Notices \cup {Everything} : StartMark(which)

\* The interval fires, the server answers what it can, and a settled promise
\* runs its continuation.  What may fail instead is bounded by FaultBudget.
CenterFairness ==
  /\ WF_centerVars(InitialLoad) /\ WF_centerVars(PollTick)
  /\ WF_centerVars(ServeTable) /\ WF_centerVars(LoadArrives)
  /\ WF_centerVars(ServeMark) /\ WF_centerVars(MarkReturns)

CenterSpec == CenterInit /\ [][CenterNext]_centerVars /\ CenterFairness

-----------------------------------------------------------------------------
(***************************************************************************)
(* Properties.                                                             *)
(***************************************************************************)

CenterTypeOK ==
  /\ DeliveryTypeOK
  /\ readAt \in [Notices -> BOOLEAN]
  /\ page \in [open : BOOLEAN, visible : BOOLEAN, polling : BOOLEAN, due : BOOLEAN,
               loading : BOOLEAN, skipped : BOOLEAN]
  /\ load.step \in {"none", "sent", "answered"} /\ load.initial \in BOOLEAN
  /\ mark.step \in {"none", "sent", "done", "reload"}
  /\ mark.which \in Notices \cup {Everything}
  /\ \A n \in Notices : shown[n].word = "nothing" => ~shown[n].read
  /\ ~page.open => load = NoLoad /\ mark = NoMark

\* Somebody looks at the list.
Watched   == page.open /\ page.visible /\ ~page.skipped
Displayed == shown = Table /\ ~page.loading

\* Who keeps looking sees what the table holds, whatever loads were dropped or
\* failed and however a PATCH met a poll.  A first load that was dropped, which
\* a tab that becomes visible in that moment does, is excepted: the spinner then
\* stays for good.
CenterCatchesUp == Watched ~> (Displayed \/ ~Watched)
=============================================================================
