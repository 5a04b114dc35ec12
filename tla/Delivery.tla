------------------------------ MODULE Delivery ------------------------------
(***************************************************************************)
(* notify() of notifications/service.ts, as any number of callers run it:  *)
(* look the dedupe key up, create the row, POST to the webhook, write what *)
(* came of it.  Two workers, or a cycle that announces again what an       *)
(* earlier one has announced, call it for the same notice at the same      *)
(* time.  The receiver may take a push after the eight seconds the sender  *)
(* waits, may answer an error, or may never see it; every call to the      *)
(* database may throw; the process may die between any two steps.          *)
(*                                                                         *)
(* Abstractions.  An event is its dedupe key.  Whether a webhook is        *)
(* configured is read from the environment at each call and does not       *)
(* change while the system runs.                                           *)
(***************************************************************************)
EXTENDS Naturals

CONSTANTS
  Notices,      \* the dedupe keys
  Callers,      \* processes that call notify()
  NoNotice,     \* a caller that is not in notify()
  FaultBudget   \* bound: database calls that throw, and deaths of a process

ASSUME NoNoticeIsNone    == NoNotice \notin Notices
ASSUME FaultBudgetIsNat  == FaultBudget \in Nat

\* Where a call stands, named for what it does next.
CallSteps == {"idle", "find", "create", "post", "wait", "delivered", "failed"}

VARIABLES
  webhook,      \* POSITIONGUARD_WEBHOOK_URL is set
  said,         \* [Notices -> Words]: webhookStatus, "nothing" for no row
  doubted,      \* notices whose DELIVERED was not acknowledged; a history variable
  tries,        \* [Notices -> Nat]: webhookAttempts
  call,         \* [Callers -> [step, notice]]
  pushed,       \* [Notices -> Nat]: POSTs sent
  arrived,      \* [Notices -> Nat]: POSTs taken by the receiver
  budget        \* faults that may still happen

deliveryVars == <<webhook, said, doubted, tries, call, pushed, arrived, budget>>

Promise == INSTANCE Announcement WITH said <- said, arrived <- arrived, doubted <- doubted

NoCall == [step |-> "idle", notice |-> NoNotice]

DeliveryInit ==
  /\ webhook \in BOOLEAN
  /\ said = [n \in Notices |-> "nothing"]
  /\ doubted = {}
  /\ tries = [n \in Notices |-> 0]
  /\ call = [c \in Callers |-> NoCall]
  /\ pushed = [n \in Notices |-> 0]
  /\ arrived = [n \in Notices |-> 0]
  /\ budget = FaultBudget

-----------------------------------------------------------------------------
(***************************************************************************)
(* The call.                                                               *)
(***************************************************************************)

Advance(c, step) == call' = [call EXCEPT ![c].step = step]
EndCall(c)       == call' = [call EXCEPT ![c] = NoCall]
Spend            == budget > 0 /\ budget' = budget - 1

Notify(c, n) ==
  /\ call[c] = NoCall
  /\ call' = [call EXCEPT ![c] = [step |-> "find", notice |-> n]]
  /\ UNCHANGED <<webhook, doubted, said, tries, pushed, arrived, budget>>

\* findUnique: a row that exists is a duplicate, whatever its status.
Find(c) ==
  /\ call[c].step = "find"
  /\ IF said[call[c].notice] # "nothing" THEN EndCall(c) ELSE Advance(c, "create")
  /\ UNCHANGED <<webhook, doubted, said, tries, pushed, arrived, budget>>

\* Mutant: the key is not unique, the row of the other caller is written over.
CreatableAlways(n) == TRUE

\* The unique index on dedupeKey: the loser of a race throws.
Creatable(n) == said[n] = "nothing"

Create(c) ==
  /\ call[c].step = "create"
  /\ LET n == call[c].notice IN
       \/ /\ Creatable(n)
          /\ said' = [said EXCEPT ![n] = IF webhook THEN "PENDING" ELSE "SKIPPED"]
          /\ IF webhook THEN Advance(c, "post") ELSE EndCall(c)
       \/ ~Creatable(n) /\ EndCall(c) /\ UNCHANGED said
  /\ UNCHANGED <<webhook, doubted, tries, pushed, arrived, budget>>

\* deliver(): the request leaves.
Push(c) ==
  /\ call[c].step = "post"
  /\ pushed' = [pushed EXCEPT ![call[c].notice] = @ + 1]
  /\ Advance(c, "wait")
  /\ UNCHANGED <<webhook, doubted, said, tries, arrived, budget>>

\* The receiver takes the request, late perhaps.
ReceiverTakes(n) ==
  /\ arrived[n] < pushed[n]
  /\ arrived' = [arrived EXCEPT ![n] = @ + 1]
  /\ UNCHANGED <<webhook, doubted, said, tries, call, pushed, budget>>

\* Mutant: every answer, and the end of the eight seconds, counts as delivered.
AnswerIsOkAlways(c) == TRUE

\* response.ok can only come from a receiver that has the request.
AnswerIsOk(c) == arrived[call[c].notice] > 0

PushAnswered(c) ==
  /\ call[c].step = "wait"
  /\ AnswerIsOk(c)
  /\ Advance(c, "delivered")
  /\ UNCHANGED <<webhook, doubted, said, tries, pushed, arrived, budget>>

\* WEBHOOK_HTTP_..., the timeout, or no connection.
PushFails(c) ==
  /\ call[c].step = "wait"
  /\ Advance(c, "failed")
  /\ UNCHANGED <<webhook, doubted, said, tries, pushed, arrived, budget>>

\* The update of the row, DELIVERED after the push, FAILED in the catch.
WriteWord(c, word) ==
  /\ said' = [said EXCEPT ![call[c].notice] = word]
  /\ tries' = [tries EXCEPT ![call[c].notice] = @ + 1]
  /\ UNCHANGED <<webhook, pushed, arrived>>

WriteResult(c, word) == WriteWord(c, word) /\ EndCall(c) /\ UNCHANGED <<doubted, budget>>

WriteDelivered(c) == call[c].step = "delivered" /\ WriteResult(c, "DELIVERED")
WriteFailed(c)    == call[c].step = "failed" /\ WriteResult(c, "FAILED")

\* The update to DELIVERED is committed and its answer lost: it throws, and the
\* catch goes on to write FAILED over it.  Where notify throws out of any other
\* call, what was committed before is that of a process that dies after it.
DeliveredUntold(c) ==
  /\ call[c].step = "delivered"
  /\ WriteWord(c, "DELIVERED") /\ doubted' = doubted \cup {call[c].notice}
  /\ Advance(c, "failed")
  /\ Spend

\* A database call throws.  The update to DELIVERED is inside the try: its
\* failure is written down as that of the push.  Every other one leaves notify.
CallThrows(c) ==
  /\ call[c].step \in {"find", "create", "delivered", "failed"}
  /\ IF call[c].step = "delivered" THEN Advance(c, "failed") ELSE EndCall(c)
  /\ Spend
  /\ UNCHANGED <<webhook, doubted, said, tries, pushed, arrived>>

\* The process of the caller dies.
CallerDies(c) ==
  /\ call[c] # NoCall
  /\ EndCall(c)
  /\ Spend
  /\ UNCHANGED <<webhook, doubted, said, tries, pushed, arrived>>

CallerStep(c) ==
  \/ Find(c) \/ Create(c) \/ Push(c) \/ PushAnswered(c) \/ PushFails(c)
  \/ WriteDelivered(c) \/ WriteFailed(c)

DeliveryNext ==
  \/ \E c \in Callers : CallerStep(c) \/ CallThrows(c) \/ DeliveredUntold(c) \/ CallerDies(c)
  \/ \E c \in Callers, n \in Notices : Notify(c, n)
  \/ \E n \in Notices : ReceiverTakes(n)

DeliverySpec == DeliveryInit /\ [][DeliveryNext]_deliveryVars

-----------------------------------------------------------------------------
(***************************************************************************)
(* Properties.                                                             *)
(***************************************************************************)

DeliveryTypeOK ==
  /\ webhook \in BOOLEAN
  /\ said \in [Notices -> Promise!Words]
  /\ doubted \subseteq Notices
  /\ tries \in [Notices -> Nat]
  /\ call \in [Callers -> [step : CallSteps, notice : Notices \cup {NoNotice}]]
  /\ \A c \in Callers : call[c].step # "idle" => call[c].notice \in Notices
  /\ pushed \in [Notices -> Nat]
  /\ arrived \in [Notices -> Nat]
  /\ budget \in 0 .. FaultBudget

\* However many callers announce a notice at once, and whatever fails, it is
\* recorded once, pushed once at most, and called DELIVERED only if it arrived;
\* what is said of the push stays said, except a DELIVERED that was not heard.
ImplementsAnnouncement == Promise!Spec
=============================================================================
