---------------------------- MODULE Intervention ----------------------------
(***************************************************************************)
(* What PositionGuard promises about a capital movement, with no process,  *)
(* no network and no database in sight.                                    *)
(*                                                                         *)
(* An intervention is named by its idempotency key (one effect under one   *)
(* version of the policy).  Its durable status only moves forward, its     *)
(* on-chain effect happens at most once and never before the intervention  *)
(* was claimed, and CONFIRMED is written only when the effect is there.    *)
(* A confirmation whose commit was not acknowledged is doubted, and only   *)
(* such a one may be taken back.  Note what is NOT promised: an            *)
(* intervention that ended FAILED or UNCONFIRMED may have, or may still    *)
(* get, its effect.                                                        *)
(*                                                                         *)
(* Execution.tla is shown to implement this module.                        *)
(***************************************************************************)
EXTENDS Naturals

CONSTANT Keys          \* the idempotency keys

VARIABLES status,      \* [Keys -> Statuses], the row's executionStatus
          landed,      \* [Keys -> Nat], effects on the chain
          doubted      \* SUBSET Keys, confirmed without an acknowledgement

vars == <<status, landed, doubted>>

\* "ABSENT" stands for "no row": the other five are the values of the
\* ExecutionStatus enum that the code ever writes.
Statuses == {"ABSENT", "NOT_STARTED", "SUBMITTED",
             "CONFIRMED", "FAILED", "UNCONFIRMED"}

Settled == {"CONFIRMED", "FAILED", "UNCONFIRMED"}

Init == /\ status = [k \in Keys |-> "ABSENT"]
        /\ landed = [k \in Keys |-> 0]
        /\ doubted = {}

Move(k, from, to) == /\ status[k] = from
                     /\ status' = [status EXCEPT ![k] = to]
                     /\ UNCHANGED landed

Reserve(k) == Move(k, "ABSENT", "NOT_STARTED") /\ UNCHANGED doubted
Claim(k)   == Move(k, "NOT_STARTED", "SUBMITTED") /\ UNCHANGED doubted
Confirm(k) == /\ landed[k] = 1
              /\ Move(k, "SUBMITTED", "CONFIRMED")
              /\ doubted' \in {doubted, doubted \cup {k}}
GiveUp(k)  == /\ \E s \in {"FAILED", "UNCONFIRMED"} : Move(k, "SUBMITTED", s)
              /\ UNCHANGED doubted
Retract(k) == /\ k \in doubted
              /\ Move(k, "CONFIRMED", "FAILED")
              /\ UNCHANGED doubted

\* The effect may outlive the process that asked for it, hence the guard
\* "was claimed" and not "is still SUBMITTED".
TakeEffect(k) == /\ status[k] \notin {"ABSENT", "NOT_STARTED"}
                 /\ landed[k] = 0
                 /\ landed' = [landed EXCEPT ![k] = 1]
                 /\ UNCHANGED <<status, doubted>>

Next == \E k \in Keys : \/ Reserve(k) \/ Claim(k) \/ Confirm(k)
                        \/ GiveUp(k)  \/ Retract(k) \/ TakeEffect(k)

Spec == Init /\ [][Next]_vars
=============================================================================
