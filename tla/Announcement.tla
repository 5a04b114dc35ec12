---------------------------- MODULE Announcement ----------------------------
(***************************************************************************)
(* What PositionGuard promises about a notice, whatever the number of      *)
(* processes that announce it: it is recorded once, pushed to the webhook  *)
(* at most once, what the record says of the push is said once, and        *)
(* DELIVERED is said only of a notice that the receiver has.  A DELIVERED  *)
(* that the sender did not see written is doubted, and only such a one may *)
(* be taken back.                                                          *)
(* What is NOT promised: a notice recorded as FAILED may have arrived, or  *)
(* may still arrive, and one recorded as PENDING may never be pushed.      *)
(*                                                                         *)
(* Delivery.tla is shown to implement this module.                         *)
(***************************************************************************)
EXTENDS Naturals

CONSTANT Notices        \* the dedupe keys

VARIABLES
  said,                 \* [Notices -> Words]: webhookStatus, or no row
  arrived,              \* [Notices -> Nat]: deliveries at the receiver
  doubted               \* SUBSET Notices: DELIVERED without an acknowledgement

vars == <<said, arrived, doubted>>

Words == {"nothing", "PENDING", "SKIPPED", "DELIVERED", "FAILED"}

Init == /\ said = [n \in Notices |-> "nothing"]
        /\ arrived = [n \in Notices |-> 0]
        /\ doubted = {}

Say(n, from, to) == /\ said[n] = from
                    /\ said' = [said EXCEPT ![n] = to]
                    /\ UNCHANGED arrived

Record(n)  == /\ \E word \in {"PENDING", "SKIPPED"} : Say(n, "nothing", word)
              /\ UNCHANGED doubted
Confirm(n) == /\ arrived[n] = 1
              /\ Say(n, "PENDING", "DELIVERED")
              /\ doubted' \in {doubted, doubted \cup {n}}
GiveUp(n)  == Say(n, "PENDING", "FAILED") /\ UNCHANGED doubted
Retract(n) == n \in doubted /\ Say(n, "DELIVERED", "FAILED") /\ UNCHANGED doubted

\* The push may arrive after the sender has stopped waiting for the answer.
Arrive(n) == /\ said[n] \in {"PENDING", "FAILED"}
             /\ arrived[n] = 0
             /\ arrived' = [arrived EXCEPT ![n] = 1]
             /\ UNCHANGED <<said, doubted>>

Next == \E n \in Notices : Record(n) \/ Confirm(n) \/ GiveUp(n) \/ Retract(n) \/ Arrive(n)

Spec == Init /\ [][Next]_vars
=============================================================================
