------------------------- MODULE NotificationProofs -------------------------
(***************************************************************************)
(* That notify() keeps the promise of Announcement, for any number of      *)
(* callers, notices and faults, and that the notification page hides       *)
(* nothing, whatever rows the table has.                                   *)
(*                                                                         *)
(* Delivery.  The unique index decides once who sends: a caller past the   *)
(* creation of the row owns the notice, alone, and the row says PENDING    *)
(* until it is done, or DELIVERED if nobody told it so.  Only an owner     *)
(* pushes, and it pushes from the one step that it passes once; a notice   *)
(* without a row was never pushed.                                         *)
(*                                                                         *)
(* Folding.  What the list shows is a function of the rows, so the         *)
(* invariant is that of the loop over them: the items so far partition the *)
(* rows so far, every group repeats a row that is displayed, and the state *)
(* the loop carries knows the row last displayed and its group.            *)
(***************************************************************************)
EXTENDS NotificationCenter, NotificationList, FiniteProofs, SequenceTheorems

-----------------------------------------------------------------------------
(***************************************************************************)
(* Delivery.                                                               *)
(***************************************************************************)

Owning    == {"post", "wait", "delivered", "failed"}
Owns(c, n) == call[c].step \in Owning /\ call[c].notice = n

OneSender == \A n \in Notices : \A c, d \in Callers : Owns(c, n) /\ Owns(d, n) => c = d

SenderState ==
  \A n \in Notices : \A c \in Callers : Owns(c, n) =>
    /\ \/ said[n] = "PENDING"
       \/ said[n] = "DELIVERED" /\ n \in doubted /\ call[c].step = "failed"
    /\ call[c].step = "post" => pushed[n] = 0
    /\ call[c].step = "delivered" => arrived[n] = 1

NoticeState ==
  \A n \in Notices :
    /\ arrived[n] <= pushed[n] /\ pushed[n] <= 1
    /\ pushed[n] = 1 => said[n] \in {"PENDING", "DELIVERED", "FAILED"}
    /\ said[n] = "DELIVERED" => arrived[n] = 1

DeliveryInv == DeliveryTypeOK /\ OneSender /\ SenderState /\ NoticeState

-----------------------------------------------------------------------------

LEMMA InitDelivery == DeliveryInit => DeliveryInv
BY FaultBudgetIsNat DEF DeliveryInit, DeliveryInv, DeliveryTypeOK, OneSender, SenderState,
   NoticeState, Owns, Owning, NoCall, CallSteps, Promise!Words

\* A caller whose call ends, or is not yet past the row, owns nothing new.
LEMMA EndedCall ==
  ASSUME DeliveryTypeOK, NEW c \in Callers, EndCall(c)
  PROVE  /\ call' \in [Callers -> [step : CallSteps, notice : Notices \cup {NoNotice}]]
         /\ call'[c] = NoCall
         /\ \A d \in Callers : d # c => call'[d] = call[d]
BY DEF DeliveryTypeOK, EndCall, NoCall, CallSteps

LEMMA AdvancedCall ==
  ASSUME DeliveryTypeOK, NEW c \in Callers, NEW step \in CallSteps, Advance(c, step)
  PROVE  /\ call' \in [Callers -> [step : CallSteps, notice : Notices \cup {NoNotice}]]
         /\ call'[c].step = step /\ call'[c].notice = call[c].notice
         /\ \A d \in Callers : d # c => call'[d] = call[d]
BY DEF DeliveryTypeOK, Advance

-----------------------------------------------------------------------------
(***************************************************************************)
(* Every step keeps the invariant and is one of Announcement, or none.     *)
(***************************************************************************)

Kept == DeliveryInv' /\ [Promise!Next]_(Promise!vars)

\* Nothing but the budget and a call that ends.
LEMMA EndingKept ==
  ASSUME DeliveryInv, NEW c \in Callers, EndCall(c), budget' \in 0 .. FaultBudget,
         UNCHANGED <<webhook, doubted, said, tries, pushed, arrived>>
  PROVE  Kept
<1> USE DEF DeliveryInv
<1>1. DeliveryTypeOK'
  BY EndedCall DEF DeliveryTypeOK, NoCall
<1>2. \A d \in Callers, n \in Notices : Owns(d, n)' => d # c /\ Owns(d, n)
  BY EndedCall DEF Owns, Owning, NoCall
<1>3. OneSender' /\ SenderState' /\ NoticeState'
  BY <1>2, EndedCall DEF OneSender, SenderState, NoticeState
<1> QED
  BY <1>1, <1>3 DEF Kept, Promise!vars

LEMMA FindingKept ==
  ASSUME DeliveryInv, NEW c \in Callers, Find(c) \/ \E n \in Notices : Notify(c, n)
  PROVE  Kept
<1>1. CASE Find(c) /\ EndCall(c)
  BY <1>1, EndingKept DEF Find, DeliveryInv, DeliveryTypeOK
<1>2. CASE (Find(c) /\ ~EndCall(c)) \/ \E n \in Notices : Notify(c, n)
  <2>1. /\ call'[c].step \in {"find", "create"} /\ call'[c].notice \in Notices
        /\ call' \in [Callers -> [step : CallSteps, notice : Notices \cup {NoNotice}]]
        /\ \A d \in Callers : d # c => call'[d] = call[d]
        /\ UNCHANGED <<webhook, doubted, said, tries, pushed, arrived, budget>>
    <3>1. CASE Find(c) /\ ~EndCall(c)
      <4>1. Advance(c, "create") /\ call[c].notice \in Notices
        BY <3>1 DEF Find, DeliveryInv, DeliveryTypeOK
      <4> QED
        BY <3>1, <4>1, AdvancedCall DEF Find, DeliveryInv, CallSteps
    <3>2. CASE \E n \in Notices : Notify(c, n)
      BY <3>2 DEF Notify, DeliveryInv, DeliveryTypeOK, CallSteps
    <3> QED
      BY <1>2, <3>1, <3>2
  <2>2. \A d \in Callers, n \in Notices : Owns(d, n)' => d # c /\ Owns(d, n)
    BY <2>1 DEF Owns, Owning
  <2>3. DeliveryTypeOK'
    BY <2>1 DEF DeliveryInv, DeliveryTypeOK
  <2>4. OneSender' /\ SenderState' /\ NoticeState'
    BY <2>1, <2>2 DEF DeliveryInv, OneSender, SenderState, NoticeState
  <2> QED
    BY <2>1, <2>3, <2>4 DEF Kept, DeliveryInv, Promise!vars
<1> QED
  BY <1>1, <1>2

\* The row is created: nobody owned the notice, and nothing was pushed.
LEMMA CreatingKept ==
  ASSUME DeliveryInv, NEW c \in Callers, Create(c)
  PROVE  Kept
<1> DEFINE n == call[c].notice
<1>0. n \in Notices /\ call[c].step = "create"
  BY DEF Create, DeliveryInv, DeliveryTypeOK
<1>1. CASE ~Creatable(n) /\ EndCall(c) /\ UNCHANGED said
  BY <1>1, EndingKept DEF Create, DeliveryInv, DeliveryTypeOK
<1>2. CASE /\ Creatable(n)
           /\ said' = [said EXCEPT ![n] = IF webhook THEN "PENDING" ELSE "SKIPPED"]
           /\ IF webhook THEN Advance(c, "post") ELSE EndCall(c)
  <2>1. /\ call' \in [Callers -> [step : CallSteps, notice : Notices \cup {NoNotice}]]
        /\ \A d \in Callers : d # c => call'[d] = call[d]
        /\ webhook => call'[c].step = "post" /\ call'[c].notice = n
        /\ ~webhook => call'[c] = NoCall
    BY <1>2, EndedCall, AdvancedCall DEF DeliveryInv, CallSteps
  <2>2. /\ said' \in [Notices -> Promise!Words]
        /\ \A m \in Notices : m # n => said'[m] = said[m]
        /\ said'[n] = IF webhook THEN "PENDING" ELSE "SKIPPED"
    BY <1>0, <1>2 DEF DeliveryInv, DeliveryTypeOK, Promise!Words
  <2>3. said[n] = "nothing" /\ pushed[n] = 0 /\ \A d \in Callers : ~Owns(d, n)
    <3>1. said[n] = "nothing"
      BY <1>2 DEF Creatable
    <3>2. pushed[n] \in Nat /\ pushed[n] <= 1 /\ pushed[n] # 1
      BY <1>0, <3>1 DEF DeliveryInv, DeliveryTypeOK, NoticeState
    <3>3. pushed[n] = 0
      BY <3>2
    <3>4. \A d \in Callers : ~Owns(d, n)
      BY <1>0, <3>1 DEF DeliveryInv, SenderState
    <3> QED
      BY <3>1, <3>3, <3>4
  <2>4. UNCHANGED <<webhook, doubted, tries, pushed, arrived, budget>>
    BY DEF Create
  <2>5. \A d \in Callers, m \in Notices :
          Owns(d, m)' => (d # c /\ Owns(d, m) /\ m # n)
                         \/ (d = c /\ m = n /\ webhook /\ call'[c].step = "post")
    BY <1>0, <2>1, <2>3 DEF Owns, Owning, NoCall
  <2>6. DeliveryTypeOK'
    BY <1>0, <2>1, <2>2, <2>4 DEF DeliveryInv, DeliveryTypeOK, NoCall
  <2>7. OneSender'
    BY <2>5 DEF DeliveryInv, OneSender
  <2>8. SenderState'
    BY <2>1, <2>2, <2>3, <2>4, <2>5 DEF DeliveryInv, SenderState
  <2>9. NoticeState'
    BY <2>2, <2>3, <2>4 DEF DeliveryInv, NoticeState
  <2>10. Promise!Record(n)
    BY <1>0, <1>2, <2>3, <2>4 DEF Promise!Record, Promise!Say
  <2> QED
    BY <1>0, <2>6, <2>7, <2>8, <2>9, <2>10 DEF Kept, DeliveryInv, Promise!Next
<1> QED
  BY <1>0, <1>1, <1>2 DEF Create

\* The owner pushes, and waits.
LEMMA PushingKept ==
  ASSUME DeliveryInv, NEW c \in Callers, Push(c) \/ PushAnswered(c) \/ PushFails(c)
  PROVE  Kept
<1> DEFINE n == call[c].notice
<1>0. n \in Notices /\ Owns(c, n) /\ call[c].step \in {"post", "wait"}
  BY DEF Push, PushAnswered, PushFails, Owns, Owning, DeliveryInv, DeliveryTypeOK
<1>1. /\ call' \in [Callers -> [step : CallSteps, notice : Notices \cup {NoNotice}]]
      /\ \A d \in Callers : d # c => call'[d] = call[d]
      /\ call'[c].notice = n /\ call'[c].step \in {"wait", "delivered", "failed"}
      /\ call'[c].step = "delivered" => arrived[n] > 0
      /\ UNCHANGED <<webhook, doubted, said, tries, arrived, budget>>
  BY AdvancedCall DEF Push, PushAnswered, AnswerIsOk, PushFails, DeliveryInv, CallSteps
<1>2. /\ pushed' \in [Notices -> Nat] /\ pushed'[n] \in {pushed[n], 1} /\ pushed'[n] >= pushed[n]
      /\ \A m \in Notices : m # n => pushed'[m] = pushed[m]
  BY <1>0 DEF Push, PushAnswered, PushFails, DeliveryInv, DeliveryTypeOK, SenderState
<1>3. \A d \in Callers, m \in Notices : Owns(d, m)' => Owns(d, m)
  BY <1>0, <1>1 DEF Owns
<1>4. \A d \in Callers : Owns(d, n) => d = c
  BY <1>0 DEF DeliveryInv, OneSender
<1>5. DeliveryTypeOK'
  BY <1>0, <1>1, <1>2 DEF DeliveryInv, DeliveryTypeOK
<1>6. OneSender'
  BY <1>3 DEF DeliveryInv, OneSender
<1>7. SenderState'
  <2> SUFFICES ASSUME NEW m \in Notices, NEW d \in Callers, Owns(d, m)'
               PROVE  /\ \/ said[m] = "PENDING"
                         \/ said[m] = "DELIVERED" /\ m \in doubted /\ call'[d].step = "failed"
                      /\ call'[d].step = "post" => pushed'[m] = 0
                      /\ call'[d].step = "delivered" => arrived[m] = 1
    BY <1>1 DEF SenderState
  <2>1. Owns(d, m)
    BY <1>3
  <2>2. CASE d = c
    <3>1. m = n
      BY <1>0, <2>1, <2>2 DEF Owns
    <3>2. arrived[n] > 0 => arrived[n] = 1
      <4>1. n \in Notices
        BY <1>0
      <4>2. arrived[n] \in Nat /\ pushed[n] \in Nat /\ arrived[n] <= pushed[n] /\ pushed[n] <= 1
        BY <4>1 DEF DeliveryInv, DeliveryTypeOK, NoticeState
      <4> QED
        BY <4>2
    <3> QED
      BY <1>0, <1>1, <2>1, <2>2, <3>1, <3>2 DEF DeliveryInv, SenderState
  <2>3. CASE d # c
    <3>1. m # n
      BY <1>4, <2>1, <2>3
    <3> QED
      BY <1>1, <1>2, <2>1, <2>3, <3>1 DEF DeliveryInv, SenderState
  <2> QED
    BY <2>2, <2>3
<1>8. NoticeState'
  BY <1>0, <1>1, <1>2 DEF DeliveryInv, DeliveryTypeOK, NoticeState, SenderState
<1> QED
  BY <1>1, <1>5, <1>6, <1>7, <1>8 DEF Kept, DeliveryInv, Promise!vars

\* The owner writes what came of the push, and is done.
LEMMA WritingKept ==
  ASSUME DeliveryInv, NEW c \in Callers, WriteDelivered(c) \/ WriteFailed(c)
  PROVE  Kept
<1> DEFINE n == call[c].notice
<1>0. n \in Notices /\ Owns(c, n)
  BY DEF WriteDelivered, WriteFailed, Owns, Owning, DeliveryInv, DeliveryTypeOK
<1>1. EndCall(c) /\ UNCHANGED <<webhook, doubted, pushed, arrived, budget>>
  BY DEF WriteDelivered, WriteFailed, WriteResult, WriteWord
<1>2. PICK word \in {"DELIVERED", "FAILED"} :
        /\ said' = [said EXCEPT ![n] = word]
        /\ tries' = [tries EXCEPT ![n] = @ + 1]
        /\ word = "DELIVERED" => call[c].step = "delivered"
  BY DEF WriteDelivered, WriteFailed, WriteResult, WriteWord
<1>3. /\ word = "DELIVERED" => said[n] = "PENDING" /\ arrived[n] = 1
      /\ said[n] = "PENDING" \/ (said[n] = "DELIVERED" /\ n \in doubted)
  BY <1>0, <1>2 DEF DeliveryInv, SenderState
<1>4. /\ said' \in [Notices -> Promise!Words] /\ said'[n] = word
      /\ \A m \in Notices : m # n => said'[m] = said[m]
  BY <1>0, <1>2 DEF DeliveryInv, DeliveryTypeOK, Promise!Words
<1>5. tries' \in [Notices -> Nat]
  BY <1>0, <1>2 DEF DeliveryInv, DeliveryTypeOK
<1>6. \A d \in Callers, m \in Notices : Owns(d, m)' => d # c /\ Owns(d, m) /\ m # n
  BY <1>0, <1>1, EndedCall DEF DeliveryInv, OneSender, Owns, Owning, NoCall
<1>7. DeliveryTypeOK'
  BY <1>1, <1>4, <1>5, EndedCall DEF DeliveryInv, DeliveryTypeOK, NoCall
<1>8. OneSender'
  BY <1>6 DEF DeliveryInv, OneSender
<1>9. SenderState'
  BY <1>1, <1>4, <1>6, EndedCall DEF DeliveryInv, SenderState
<1>10. NoticeState'
  BY <1>1, <1>2, <1>3, <1>4 DEF DeliveryInv, NoticeState
<1>11. Promise!Confirm(n) \/ Promise!GiveUp(n) \/ Promise!Retract(n)
  BY <1>1, <1>2, <1>3 DEF Promise!Confirm, Promise!GiveUp, Promise!Retract, Promise!Say
<1> QED
  BY <1>0, <1>7, <1>8, <1>9, <1>10, <1>11 DEF Kept, DeliveryInv, Promise!Next

\* DELIVERED is written, and the sender, who does not know, is to write FAILED.
LEMMA UntoldKept ==
  ASSUME DeliveryInv, NEW c \in Callers, DeliveredUntold(c)
  PROVE  Kept
<1> DEFINE n == call[c].notice
<1>0. n \in Notices /\ Owns(c, n) /\ call[c].step = "delivered"
  BY DEF DeliveredUntold, Owns, Owning, DeliveryInv, DeliveryTypeOK
<1>1. /\ said' = [said EXCEPT ![n] = "DELIVERED"]
      /\ tries' = [tries EXCEPT ![n] = @ + 1]
      /\ doubted' = doubted \cup {n} /\ doubted \subseteq Notices
      /\ UNCHANGED <<webhook, pushed, arrived>>
      /\ budget' \in 0 .. FaultBudget
  BY FaultBudgetIsNat DEF DeliveredUntold, WriteWord, Spend, DeliveryInv, DeliveryTypeOK
<1>2. said[n] = "PENDING" /\ arrived[n] = 1
  BY <1>0 DEF DeliveryInv, SenderState
<1>3. /\ call' \in [Callers -> [step : CallSteps, notice : Notices \cup {NoNotice}]]
      /\ \A d \in Callers : d # c => call'[d] = call[d]
      /\ call'[c].notice = n /\ call'[c].step = "failed"
  BY AdvancedCall DEF DeliveredUntold, DeliveryInv, CallSteps
<1>4. /\ said' \in [Notices -> Promise!Words] /\ said'[n] = "DELIVERED"
      /\ \A m \in Notices : m # n => said'[m] = said[m]
  BY <1>0, <1>1 DEF DeliveryInv, DeliveryTypeOK, Promise!Words
<1>5. tries' \in [Notices -> Nat]
  BY <1>0, <1>1 DEF DeliveryInv, DeliveryTypeOK
<1>6. \A d \in Callers, m \in Notices :
        Owns(d, m)' => (d = c /\ m = n) \/ (d # c /\ m # n /\ Owns(d, m))
  BY <1>0, <1>3 DEF DeliveryInv, OneSender, Owns
<1>7. DeliveryTypeOK'
  BY <1>0, <1>1, <1>3, <1>4, <1>5 DEF DeliveryInv, DeliveryTypeOK
<1>8. OneSender'
  BY <1>6 DEF DeliveryInv, OneSender
<1>9. SenderState'
  BY <1>1, <1>3, <1>4, <1>6 DEF DeliveryInv, SenderState
<1>10. NoticeState'
  BY <1>1, <1>2, <1>4 DEF DeliveryInv, NoticeState
<1>11. Promise!Confirm(n)
  BY <1>1, <1>2 DEF Promise!Confirm, Promise!Say
<1> QED
  BY <1>0, <1>7, <1>8, <1>9, <1>10, <1>11 DEF Kept, DeliveryInv, Promise!Next

\* A call throws, or its process dies.
LEMMA FaultsKept ==
  ASSUME DeliveryInv, NEW c \in Callers, CallThrows(c) \/ CallerDies(c)
  PROVE  Kept
<1>1. budget' \in 0 .. FaultBudget
  BY FaultBudgetIsNat DEF CallThrows, CallerDies, Spend, DeliveryInv, DeliveryTypeOK
<1>2. UNCHANGED <<webhook, doubted, said, tries, pushed, arrived>>
  BY DEF CallThrows, CallerDies
<1>3. CASE EndCall(c)
  BY <1>1, <1>2, <1>3, EndingKept
<1>4. CASE CallThrows(c) /\ call[c].step = "delivered" /\ Advance(c, "failed")
  <2> DEFINE n == call[c].notice
  <2>1. n \in Notices
    BY <1>4 DEF DeliveryInv, DeliveryTypeOK
  <2>2. /\ call' \in [Callers -> [step : CallSteps, notice : Notices \cup {NoNotice}]]
        /\ \A d \in Callers : d # c => call'[d] = call[d]
        /\ call'[c].notice = n /\ call'[c].step = "failed"
    BY <1>4, AdvancedCall DEF DeliveryInv, CallSteps
  <2>3. \A d \in Callers, m \in Notices : Owns(d, m)' => Owns(d, m)
    BY <1>4, <2>2 DEF Owns, Owning
  <2>4. DeliveryTypeOK'
    BY <1>1, <1>2, <2>1, <2>2 DEF DeliveryInv, DeliveryTypeOK
  <2>5. OneSender' /\ SenderState' /\ NoticeState'
    BY <1>2, <2>2, <2>3 DEF DeliveryInv, OneSender, SenderState, NoticeState
  <2> QED
    BY <1>2, <2>4, <2>5 DEF Kept, DeliveryInv, Promise!vars
<1> QED
  BY <1>3, <1>4 DEF CallThrows, CallerDies

\* A push arrives, late perhaps: it had not arrived before.
LEMMA ArrivingKept ==
  ASSUME DeliveryInv, NEW n \in Notices, ReceiverTakes(n)
  PROVE  Kept
<1>1. arrived[n] = 0 /\ pushed[n] = 1 /\ said[n] \in {"PENDING", "FAILED"}
  BY DEF ReceiverTakes, DeliveryInv, DeliveryTypeOK, NoticeState
<1>2. arrived' = [arrived EXCEPT ![n] = 1]
  BY <1>1 DEF ReceiverTakes, DeliveryInv, DeliveryTypeOK
<1>3. UNCHANGED <<webhook, doubted, said, tries, call, pushed, budget>>
  BY DEF ReceiverTakes
<1>4. DeliveryInv'
  BY <1>1, <1>2, <1>3 DEF DeliveryInv, DeliveryTypeOK, OneSender, SenderState, NoticeState, Owns
<1>5. Promise!Arrive(n)
  BY <1>1, <1>2, <1>3 DEF Promise!Arrive
<1> QED
  BY <1>4, <1>5 DEF Kept, Promise!Next

LEMMA StepKept == DeliveryInv /\ [DeliveryNext]_deliveryVars => Kept
<1> SUFFICES ASSUME DeliveryInv, [DeliveryNext]_deliveryVars PROVE Kept
    OBVIOUS
<1>1. CASE DeliveryNext
  BY <1>1, FindingKept, CreatingKept, PushingKept, WritingKept, UntoldKept, FaultsKept,
     ArrivingKept
     DEF DeliveryNext, CallerStep
<1>2. CASE UNCHANGED deliveryVars
  BY <1>2 DEF deliveryVars, Kept, DeliveryInv, DeliveryTypeOK, OneSender, SenderState,
     NoticeState, Owns, Promise!vars
<1> QED
  BY <1>1, <1>2

-----------------------------------------------------------------------------

\* In every reachable state a notice has one sender at most, and its row, its
\* pushes and its arrivals agree.
THEOREM DeliveryInvariant == DeliverySpec => []DeliveryInv
<1>1. DeliveryInv /\ [DeliveryNext]_deliveryVars => DeliveryInv'
  BY StepKept DEF Kept
<1> QED
  BY InitDelivery, <1>1, PTL DEF DeliverySpec

\* notify() implements Announcement, whatever runs at the same time, throws,
\* dies or arrives late: one record, one push at most, DELIVERED only of a notice
\* that arrived.
THEOREM AnnouncementImplemented == DeliverySpec => ImplementsAnnouncement
<1>1. DeliveryInit => Promise!Init
  BY DEF DeliveryInit, Promise!Init
<1>2. DeliveryInv /\ [DeliveryNext]_deliveryVars => [Promise!Next]_(Promise!vars)
  BY StepKept DEF Kept
<1> QED
  BY DeliveryInvariant, <1>1, <1>2, PTL DEF DeliverySpec, ImplementsAnnouncement, Promise!Spec

-----------------------------------------------------------------------------
(***************************************************************************)
(* The page over the table.                                                *)
(***************************************************************************)

Pictures == [Notices -> [word : Promise!Words, read : BOOLEAN]]
Loads    == [step : {"none", "sent", "answered"}, initial : BOOLEAN, body : Pictures]
Marks    == [step : {"none", "sent", "done", "reload"}, which : Notices \cup {Everything}]

\* A row that said a once may say b now.
MayBecome(a, b) == \/ a = b
                   \/ a = "nothing"
                   \/ a = "PENDING" /\ b \in {"DELIVERED", "FAILED"}
                   \/ a = "DELIVERED" /\ b = "FAILED"

\* picture is of rows as they were: behind the table perhaps, never ahead of it.
OfThePast(picture) ==
  \A n \in Notices : /\ MayBecome(picture[n].word, said[n])
                     /\ picture[n].read => readAt[n]
                     /\ picture[n].word = "nothing" => ~picture[n].read

PageShape == /\ shown \in Pictures /\ load \in Loads /\ mark \in Marks
             /\ ~page.open => page = Closed

PictureState == /\ OfThePast(shown) /\ OfThePast(load.body)
                /\ \A n \in Notices : readAt[n] => said[n] # "nothing"

CenterInv == DeliveryInv /\ CenterTypeOK /\ PageShape /\ PictureState

LEMMA UnshownIsPast == Unshown \in Pictures /\ OfThePast(Unshown)
BY DEF Unshown, Pictures, OfThePast, MayBecome, Promise!Words

LEMMA InitCenter == CenterInit => CenterInv
<1> SUFFICES ASSUME CenterInit PROVE CenterInv
    OBVIOUS
<1>1. DeliveryInv
  BY InitDelivery DEF CenterInit
<1>2. PageShape /\ PictureState
  BY UnshownIsPast DEF CenterInit, PageShape, PictureState, NoLoad, NoMark, Loads, Marks
<1>3. CenterTypeOK
  BY <1>1, EverythingIsNoNotice DEF CenterTypeOK, DeliveryInv, CenterInit, Closed, NoLoad, NoMark, Unshown
<1> QED
  BY <1>1, <1>2, <1>3 DEF CenterInv

\* Rows are only added, and say what comes of them.
LEMMA WordsAdvance ==
  ASSUME DeliveryInv, [Promise!Next]_(Promise!vars)
  PROVE  \A n \in Notices : MayBecome(said[n], said'[n])
BY DEF DeliveryInv, DeliveryTypeOK, Promise!Next, Promise!vars, Promise!Record, Promise!Confirm,
   Promise!GiveUp, Promise!Retract, Promise!Arrive, Promise!Say, MayBecome, Promise!Words

LEMMA TableIsPast ==
  ASSUME CenterInv
  PROVE  Table \in Pictures /\ OfThePast(Table)
<1>1. said \in [Notices -> Promise!Words] /\ readAt \in [Notices -> BOOLEAN]
  BY DEF CenterInv, CenterTypeOK, DeliveryTypeOK
<1>2. \A n \in Notices : readAt[n] => said[n] # "nothing"
  BY DEF CenterInv, PictureState
<1> QED
  BY <1>1, <1>2 DEF Table, Row, Pictures, OfThePast, MayBecome

\* A picture stays one of the past while the table moves on.
LEMMA PastStays ==
  ASSUME CenterInv, NEW p \in Pictures, OfThePast(p), readAt' \in [Notices -> BOOLEAN],
         \A n \in Notices : MayBecome(said[n], said'[n]) /\ (readAt[n] => readAt'[n])
  PROVE  OfThePast(p)'
<1> SUFFICES ASSUME NEW n \in Notices
             PROVE  /\ MayBecome(p[n].word, said'[n]) /\ (p[n].read => readAt'[n])
                    /\ p[n].word = "nothing" => ~p[n].read
    BY DEF OfThePast
<1> QED
  BY DEF OfThePast, MayBecome

\* notify() runs, or nothing does: the page is as it was.
LEMMA DeliveryStepKeeps ==
  ASSUME CenterInv, [DeliveryNext]_deliveryVars, UNCHANGED pageVars
  PROVE  CenterInv'
<1>1. DeliveryInv' /\ [Promise!Next]_(Promise!vars)
  BY StepKept DEF Kept, CenterInv
<1>2. \A n \in Notices : MayBecome(said[n], said'[n])
  BY <1>1, WordsAdvance DEF CenterInv
<1>3. CenterTypeOK' /\ PageShape'
  BY <1>1 DEF CenterInv, CenterTypeOK, PageShape, pageVars, DeliveryInv
<1>4. OfThePast(shown)' /\ OfThePast(load.body)'
  <2>1. shown \in Pictures /\ load.body \in Pictures /\ OfThePast(shown) /\ OfThePast(load.body)
    BY DEF CenterInv, PageShape, PictureState, Loads
  <2>2. shown' = shown /\ load' = load /\ readAt' = readAt
    BY DEF pageVars
  <2> QED
    BY <1>2, <2>1, <2>2 DEF OfThePast, MayBecome
<1>5. PictureState'
  BY <1>2, <1>4 DEF CenterInv, PictureState, pageVars, MayBecome
<1> QED
  BY <1>1, <1>3, <1>5 DEF CenterInv

\* What the page does leaves notify() alone, but for the faults it may use up.
LEMMA PageStepKeeps ==
  ASSUME CenterInv, UNCHANGED <<webhook, doubted, said, tries, call, pushed, arrived>>,
         budget' \in 0 .. FaultBudget,
         PageShape', page' \in [open : BOOLEAN, visible : BOOLEAN, polling : BOOLEAN,
                                due : BOOLEAN, loading : BOOLEAN, skipped : BOOLEAN],
         ~page'.open => load' = NoLoad /\ mark' = NoMark,
         readAt' = readAt,
         shown' \in {shown, load.body, Unshown},
         load'.body \in {load.body, Unshown, Table}
  PROVE  CenterInv'
<1>1. DeliveryInv'
  BY DEF CenterInv, DeliveryInv, DeliveryTypeOK, OneSender, SenderState, NoticeState, Owns
<1>2. OfThePast(shown') /\ OfThePast(load'.body)
  BY UnshownIsPast, TableIsPast DEF CenterInv, PictureState
<1>3. PictureState'
  BY <1>2 DEF PictureState, OfThePast, CenterInv
<1>4. CenterTypeOK'
  BY <1>1, <1>2 DEF CenterInv, CenterTypeOK, DeliveryInv, PageShape, Loads, Marks, OfThePast
<1> QED
  BY <1>1, <1>3, <1>4 DEF CenterInv

\* A PATCH: rows that are there become read.
LEMMA ServeMarkKeeps ==
  ASSUME CenterInv, ServeMark
  PROVE  CenterInv'
<1>1. /\ UNCHANGED <<webhook, doubted, said, tries, call, pushed, arrived, budget, page, load, shown>>
      /\ mark' = [mark EXCEPT !.step = "done"] /\ mark \in Marks /\ mark.step = "sent"
      /\ said \in [Notices -> Promise!Words] /\ readAt \in [Notices -> BOOLEAN]
  BY DEF ServeMark, deliveryVars, CenterInv, PageShape, CenterTypeOK, DeliveryTypeOK
<1>2. /\ readAt' \in [Notices -> BOOLEAN]
      /\ \A n \in Notices : readAt[n] => readAt'[n]
      /\ \A n \in Notices : readAt'[n] => readAt[n] \/ said[n] # "nothing"
  BY <1>1 DEF ServeMark
<1>3. DeliveryInv'
  BY <1>1 DEF CenterInv, DeliveryInv, DeliveryTypeOK, OneSender, SenderState, NoticeState, Owns
<1>4. page.open
  BY <1>1 DEF CenterInv, CenterTypeOK, NoMark
<1>5. PageShape'
  BY <1>1, <1>4 DEF CenterInv, PageShape, Marks
<1>6. CenterTypeOK'
  BY <1>1, <1>2, <1>3, <1>4 DEF CenterInv, CenterTypeOK, DeliveryInv, Marks
<1>7. PictureState'
  <2>1. OfThePast(shown)' /\ OfThePast(load.body)'
    BY <1>1, <1>2 DEF CenterInv, PictureState, OfThePast
  <2> QED
    BY <1>1, <1>2, <2>1 DEF CenterInv, PictureState
<1> QED
  BY <1>3, <1>5, <1>6, <1>7 DEF CenterInv

\* Loads and marks of a page that is there.
LEMMA RequestStepKeeps ==
  ASSUME CenterInv,
         \/ InitialLoad \/ PollTick \/ ShowTab \/ HideTab \/ ServeTable \/ LoadArrives \/ LoadFails
         \/ MarkReturns \/ MarkFails \/ \E which \in Notices \cup {Everything} : StartMark(which)
  PROVE  CenterInv'
<1>1. /\ load \in Loads /\ mark \in Marks /\ shown \in Pictures
      /\ page \in [open : BOOLEAN, visible : BOOLEAN, polling : BOOLEAN, due : BOOLEAN,
                   loading : BOOLEAN, skipped : BOOLEAN]
      /\ ~page.open => page = Closed /\ load = NoLoad /\ mark = NoMark
      /\ budget \in 0 .. FaultBudget /\ FaultBudget \in Nat
      /\ Unshown \in Pictures /\ Table \in Pictures
  BY UnshownIsPast, TableIsPast, FaultBudgetIsNat
     DEF CenterInv, PageShape, CenterTypeOK, DeliveryInv, DeliveryTypeOK
<1>2. page.open
  <2> SUFFICES ASSUME ~page.open PROVE FALSE
      OBVIOUS
  <2>1. /\ ~page.due /\ ~page.polling /\ ~page.visible
        /\ load.step = "none" /\ mark.step = "none"
    BY <1>1 DEF Closed, NoLoad, NoMark
  <2>2. ~(InitialLoad \/ PollTick \/ ShowTab \/ HideTab)
    BY <2>1 DEF InitialLoad, PollTick, ShowTab, HideTab
  <2>3. ~(ServeTable \/ LoadArrives \/ LoadFails)
    BY <2>1 DEF ServeTable, LoadArrives, LoadFails
  <2>4. ~(MarkReturns \/ MarkFails \/ \E which \in Notices \cup {Everything} : StartMark(which))
    BY <2>1 DEF MarkReturns, MarkFails, StartMark
  <2> QED
    BY <2>2, <2>3, <2>4
<1>0. \A initial \in BOOLEAN : Sent(initial) \in Loads /\ Sent(initial).body = Unshown
  BY <1>1 DEF Sent, Loads
<1>3. CASE InitialLoad \/ PollTick \/ ShowTab \/ HideTab
  <2>1. /\ UNCHANGED <<webhook, doubted, said, tries, call, pushed, arrived, budget, readAt, mark, shown>>
        /\ load' \in {load, Sent(TRUE), Sent(FALSE)}
    BY <1>3 DEF InitialLoad, PollTick, ShowTab, HideTab, CallLoad, deliveryVars
  <2>2. load' \in Loads /\ load'.body \in {load.body, Unshown}
    BY <1>0, <1>1, <2>1
  <2>3. /\ page' \in [open : BOOLEAN, visible : BOOLEAN, polling : BOOLEAN, due : BOOLEAN,
                      loading : BOOLEAN, skipped : BOOLEAN]
        /\ page'.open
    BY <1>1, <1>2, <1>3 DEF InitialLoad, PollTick, ShowTab, HideTab, ShownAgain
  <2>4. PageShape'
    BY <1>1, <2>1, <2>2, <2>3 DEF PageShape
  <2> QED
    BY <1>1, <2>1, <2>2, <2>3, <2>4, PageStepKeeps
<1>4. CASE ServeTable
  <2>1. load' \in Loads /\ load'.body = Table
    BY <1>1, <1>4 DEF ServeTable, Loads
  <2>2. UNCHANGED <<webhook, doubted, said, tries, call, pushed, arrived, budget, readAt, page, mark, shown>>
    BY <1>4 DEF ServeTable, deliveryVars
  <2>3. PageShape'
    BY <1>1, <1>2, <2>1, <2>2 DEF PageShape
  <2> QED
    BY <1>1, <1>2, <2>1, <2>2, <2>3, PageStepKeeps
<1>5. CASE LoadArrives \/ LoadFails
  <2>1. /\ UNCHANGED <<webhook, doubted, said, tries, call, pushed, arrived, readAt>>
        /\ budget' \in 0 .. FaultBudget /\ shown' \in {shown, load.body} /\ EndLoad
    BY <1>1, <1>5 DEF LoadArrives, LoadFails, Spend, deliveryVars
  <2>2. /\ load' \in Loads /\ load'.body = Unshown /\ mark' \in Marks /\ shown' \in Pictures
        /\ page' \in [open : BOOLEAN, visible : BOOLEAN, polling : BOOLEAN, due : BOOLEAN,
                      loading : BOOLEAN, skipped : BOOLEAN]
        /\ page'.open
    BY <1>1, <1>2, <2>1, EverythingIsNoNotice DEF EndLoad, NoLoad, NoMark, Loads, Marks
  <2>3. PageShape'
    BY <2>2 DEF PageShape
  <2> QED
    BY <2>1, <2>2, <2>3, PageStepKeeps
<1>6. CASE MarkReturns \/ MarkFails \/ \E which \in Notices \cup {Everything} : StartMark(which)
  <2>1. /\ UNCHANGED <<webhook, doubted, said, tries, call, pushed, arrived, readAt, page, shown>>
        /\ budget' \in 0 .. FaultBudget /\ load' \in {load, Sent(FALSE)} /\ mark' \in Marks
    <3>1. CASE MarkReturns
      BY <1>1, <3>1, EverythingIsNoNotice DEF MarkReturns, CallLoad, deliveryVars, NoMark, Marks
    <3>2. CASE MarkFails
      BY <1>1, <3>2, EverythingIsNoNotice DEF MarkFails, Spend, NoMark, Marks
    <3>3. CASE \E which \in Notices \cup {Everything} : StartMark(which)
      BY <1>1, <3>3 DEF StartMark, deliveryVars, Marks
    <3> QED
      BY <1>6, <3>1, <3>2, <3>3
  <2>2. load' \in Loads /\ load'.body \in {load.body, Unshown}
    BY <1>0, <1>1, <2>1
  <2>4. PageShape'
    BY <1>1, <1>2, <2>1, <2>2 DEF PageShape
  <2> QED
    BY <1>1, <1>2, <2>1, <2>2, <2>4, PageStepKeeps
<1> QED
  BY <1>3, <1>4, <1>5, <1>6

\* The component is mounted, or gone and with it what it had asked.
LEMMA MountStepKeeps ==
  ASSUME CenterInv, OpenCenter \/ CloseCenter
  PROVE  CenterInv'
<1>1. /\ UNCHANGED <<webhook, doubted, said, tries, call, pushed, arrived, budget, readAt>>
      /\ budget \in 0 .. FaultBudget
      /\ load \in Loads /\ mark \in Marks /\ shown \in Pictures /\ Unshown \in Pictures
  BY UnshownIsPast DEF OpenCenter, CloseCenter, deliveryVars, CenterInv, DeliveryInv, DeliveryTypeOK, PageShape
<1>2. CASE OpenCenter
  <2>1. /\ UNCHANGED <<load, mark, shown>> /\ page'.open
        /\ page' \in [open : BOOLEAN, visible : BOOLEAN, polling : BOOLEAN, due : BOOLEAN,
                      loading : BOOLEAN, skipped : BOOLEAN]
    BY <1>2 DEF OpenCenter
  <2>2. PageShape'
    BY <1>1, <2>1 DEF PageShape
  <2> QED
    BY <1>1, <2>1, <2>2, PageStepKeeps
<1>3. CASE CloseCenter
  <2>1. /\ page' = Closed /\ load' = NoLoad /\ mark' = NoMark /\ shown' = Unshown
        /\ Closed \in [open : BOOLEAN, visible : BOOLEAN, polling : BOOLEAN, due : BOOLEAN,
                       loading : BOOLEAN, skipped : BOOLEAN]
        /\ NoLoad \in Loads /\ NoLoad.body = Unshown /\ NoMark \in Marks
    BY <1>1, <1>3 DEF CloseCenter, Closed, NoLoad, NoMark, Loads, Marks
  <2>2. PageShape'
    BY <1>1, <2>1 DEF PageShape
  <2> QED
    BY <1>1, <2>1, <2>2, PageStepKeeps
<1> QED
  BY <1>2, <1>3

LEMMA StepCenter == CenterInv /\ [CenterNext]_centerVars => CenterInv'
<1> SUFFICES ASSUME CenterInv, [CenterNext]_centerVars PROVE CenterInv'
    OBVIOUS
<1>1. CASE DeliveryNext /\ UNCHANGED pageVars
  BY <1>1, DeliveryStepKeeps
<1>2. CASE UNCHANGED centerVars
  BY <1>2, DeliveryStepKeeps DEF centerVars
<1>3. CASE CenterNext /\ ~(DeliveryNext /\ UNCHANGED pageVars)
  BY <1>3, RequestStepKeeps, MountStepKeeps, ServeMarkKeeps DEF CenterNext, PageStep
<1> QED
  BY <1>1, <1>2, <1>3

\* The page is well typed, and what it displays is of rows as they were: behind
\* the table perhaps, never ahead of it.  No load, mark, reload or failure shows a
\* row as read that is not, or says the fate of a notice before the table does.
THEOREM PageShowsThePast == CenterSpec => [](CenterTypeOK /\ OfThePast(shown))
<1>1. CenterInv => CenterTypeOK /\ OfThePast(shown)
  BY DEF CenterInv, PictureState
<1> QED
  BY InitCenter, StepCenter, <1>1, PTL DEF CenterSpec

\* notify() implements Announcement also while pages read and mark its rows.
THEOREM AnnouncementKeptByPages == CenterSpec => ImplementsAnnouncement
<1>1. CenterInit => Promise!Init
  BY DEF CenterInit, DeliveryInit, Promise!Init
<1>2. CenterInv /\ [CenterNext]_centerVars => [Promise!Next]_(Promise!vars)
  <2> SUFFICES ASSUME CenterInv, [CenterNext]_centerVars PROVE [Promise!Next]_(Promise!vars)
      OBVIOUS
  <2>1. CASE [DeliveryNext]_deliveryVars
    BY <2>1, StepKept DEF Kept, CenterInv
  <2>2. CASE ~[DeliveryNext]_deliveryVars
    <3>1. UNCHANGED <<said, arrived, doubted>>
      BY <2>2 DEF CenterNext, PageStep, centerVars, deliveryVars, InitialLoad, PollTick, ServeTable,
         LoadArrives, ServeMark, MarkReturns, OpenCenter, CloseCenter, ShowTab, HideTab, LoadFails,
         MarkFails, StartMark
    <3> QED
      BY <3>1 DEF Promise!vars
  <2> QED
    BY <2>1, <2>2
<1> QED
  BY InitCenter, StepCenter, <1>1, <1>2, PTL DEF CenterSpec, ImplementsAnnouncement, Promise!Spec

-----------------------------------------------------------------------------
(***************************************************************************)
(* Sequences made by sorting.                                              *)
(***************************************************************************)

\* s enumerates P, the least key first.
Sorts(s, P, key) ==
  /\ Cardinality(P) \in Nat /\ DOMAIN s = 1 .. Cardinality(P)
  /\ \A p \in 1 .. Cardinality(P) : s[p] \in P
  /\ \A n \in P : \E p \in 1 .. Cardinality(P) : s[p] = n
  /\ \A p, q \in 1 .. Cardinality(P) : p < q => key[s[p]] < key[s[q]]

LEMMA InOrderSorts ==
  ASSUME NEW P, IsFiniteSet(P), NEW key \in [P -> Int],
         \A m, n \in P : key[m] = key[n] => m = n
  PROVE  Sorts(InOrder(P, key), P, key)
<1> DEFINE Below(n) == {m \in P : key[m] < key[n]}
           rank == [n \in P |-> Cardinality(Below(n)) + 1]
           size == Cardinality(P)
           s == InOrder(P, key)
<1>1. size \in Nat
  BY FS_CardinalityType
<1>2. ASSUME NEW n \in P
      PROVE  IsFiniteSet(Below(n)) /\ Cardinality(Below(n)) \in Nat /\ Cardinality(Below(n)) < size
  <2>1. IsFiniteSet(Below(n)) /\ Cardinality(Below(n)) \in Nat
    BY FS_Subset, FS_CardinalityType
  <2>2. Below(n) # P
    BY <1>2
  <2>3. Cardinality(Below(n)) <= size /\ Cardinality(Below(n)) # size
    BY <2>2, FS_Subset
  <2> QED
    BY <1>1, <2>1, <2>3
<1>3. ASSUME NEW m \in P, NEW n \in P, key[m] < key[n]
      PROVE  Cardinality(Below(m)) < Cardinality(Below(n))
  <2>1. Below(m) \subseteq Below(n) /\ Below(m) # Below(n)
    BY <1>3
  <2>2. /\ Cardinality(Below(m)) <= Cardinality(Below(n))
        /\ Cardinality(Below(m)) # Cardinality(Below(n))
    <3> HIDE DEF Below
    <3> QED
      BY <1>2, <2>1, FS_Subset
  <2> HIDE DEF Below
  <2> QED
    BY <1>2, <2>2
<1>4. \A m, n \in P : Cardinality(Below(m)) = Cardinality(Below(n)) => m = n
  <2> SUFFICES ASSUME NEW m \in P, NEW n \in P, m # n,
                      Cardinality(Below(m)) = Cardinality(Below(n))
               PROVE  FALSE
    OBVIOUS
  <2>1. key[m] < key[n] \/ key[n] < key[m]
    OBVIOUS
  <2> HIDE DEF Below
  <2> QED
    BY <1>2, <1>3, <2>1
<1>5. rank \in Surjection(P, 1 .. size)
  <2>1. \A n \in P : rank[n] \in 1 .. size
    <3> HIDE DEF Below
    <3> QED
      BY <1>1, <1>2
  <2>2. \A m, n \in P : rank[m] = rank[n] => m = n
    <3> HIDE DEF Below
    <3> QED
      BY <1>2, <1>4
  <2>3. rank \in Injection(P, 1 .. size)
    <3>1. rank \in [P -> 1 .. size]
      BY <2>1
    <3> HIDE DEF rank
    <3> QED
      BY <2>2, <3>1 DEF Injection, IsInjective
  <2>4. IsFiniteSet(1 .. size) /\ Cardinality(1 .. size) = size
    BY <1>1, FS_Interval
  <2> HIDE DEF rank
  <2> QED
    BY <2>3, <2>4, FS_Injection
<1>6. \A p \in 1 .. size : s[p] \in P /\ Cardinality(Below(s[p])) = p - 1
  <2> SUFFICES ASSUME NEW p \in 1 .. size
               PROVE  s[p] \in P /\ Cardinality(Below(s[p])) = p - 1
    OBVIOUS
  <2>1. PICK n \in P : rank[n] = p
    <3> HIDE DEF rank
    <3> QED
      BY <1>5 DEF Surjection
  <2>2. Cardinality(Below(n)) = p - 1
    <3> HIDE DEF Below
    <3> QED
      BY <1>2, <2>1
  <2>3. s[p] = CHOOSE x \in P : Cardinality(Below(x)) = p - 1
    BY <1>1 DEF InOrder
  <2> HIDE DEF s, Below
  <2> QED
    BY <2>2, <2>3
<1>7. \A n \in P : \E p \in 1 .. size : s[p] = n
  <2> SUFFICES ASSUME NEW n \in P PROVE \E p \in 1 .. size : s[p] = n
    OBVIOUS
  <2> DEFINE p == Cardinality(Below(n)) + 1
  <2>1. p \in 1 .. size /\ p - 1 = Cardinality(Below(n))
    <3> HIDE DEF Below
    <3> QED
      BY <1>1, <1>2
  <2>2. s[p] = n
    <3> HIDE DEF s, p, Below
    <3> QED
      BY <1>4, <1>6, <2>1
  <2> QED
    BY <2>1, <2>2
<1>8. \A p, q \in 1 .. size : p < q => key[s[p]] < key[s[q]]
  <2> SUFFICES ASSUME NEW p \in 1 .. size, NEW q \in 1 .. size, p < q, ~ key[s[p]] < key[s[q]]
               PROVE  FALSE
    OBVIOUS
  <2> HIDE DEF s, Below
  <2>1. s[p] \in P /\ s[q] \in P
    BY <1>6
  <2>2. s[p] = s[q] \/ key[s[q]] < key[s[p]]
    BY <2>1
  <2> QED
    BY <1>1, <1>3, <1>6, <2>1, <2>2
<1>9. DOMAIN s = 1 .. size
  BY DEF InOrder
<1> HIDE DEF s
<1>10. Sorts(s, P, key)
  BY <1>1, <1>6, <1>7, <1>8, <1>9 DEF Sorts
<1> QED
  BY <1>10 DEF s

\* Places in their own order.
LEMMA PlacesInOrder ==
  ASSUME NEW L \in Nat, NEW P \in SUBSET (1 .. L)
  PROVE  /\ Cardinality(P) \in Nat /\ DOMAIN Ascending(P) = 1 .. Cardinality(P)
         /\ \A p \in 1 .. Cardinality(P) : Ascending(P)[p] \in P
         /\ \A n \in P : \E p \in 1 .. Cardinality(P) : Ascending(P)[p] = n
         /\ \A p, q \in 1 .. Cardinality(P) : p < q => Ascending(P)[p] < Ascending(P)[q]
<1> DEFINE key == [n \in P |-> n]
<1>1. IsFiniteSet(P)
  <2>1. IsFiniteSet(1 .. L)
    BY FS_Interval
  <2> QED
    BY <2>1, FS_Subset
<1>2. key \in [P -> Int] /\ \A m, n \in P : key[m] = key[n] => m = n
  OBVIOUS
<1>3. \A n \in P : key[n] = n
  OBVIOUS
<1>4. Ascending(P) = InOrder(P, key)
  BY DEF Ascending
<1> HIDE DEF key
<1>5. Sorts(Ascending(P), P, key)
  BY <1>1, <1>2, <1>4, InOrderSorts
<1> QED
  BY <1>3, <1>5 DEF Sorts

-----------------------------------------------------------------------------
(***************************************************************************)
(* The fold.  FoldLeft is a recursive function on the sets of places, each *)
(* of which it takes the last of; here it becomes the sequence of states   *)
(* that the loop of buildMeaningfulNotifications passes through.           *)
(***************************************************************************)

\* g is the state after the places of each of Sets.
Folding(list, Sets, g) ==
  g = [s \in Sets |-> IF s = {} THEN NothingYet ELSE Step(g[s \ {Max(s)}], list[Max(s)])]

LEMMA FoldIsChosen ==
  ASSUME NEW list
  PROVE  Meaningful(list) = (CHOOSE g : Folding(list, SUBSET DOMAIN list, g))[DOMAIN list].items
BY DEF Meaningful, FoldLeft, MapThenFoldSet, Folding

LEMMA LastPlace ==
  ASSUME NEW N \in Nat, NEW s \in SUBSET (1 .. N), s # {}
  PROVE  Max(s) \in s
<1>1. s \in SUBSET (0 .. N)
  OBVIOUS
<1> QED
  BY <1>1, MaxIsElement

LEMMA UpToShorter ==
  ASSUME NEW N \in Nat, NEW n \in Nat, NEW s \in UpTo(1 .. N, n + 1), s # {}
  PROVE  s \ {Max(s)} \in UpTo(1 .. N, n)
<1>1. IsFiniteSet(1 .. N)
  BY FS_Interval
<1>2. s \in SUBSET (1 .. N) /\ Cardinality(s) <= n + 1
  BY DEF UpTo
<1>3. IsFiniteSet(s) /\ Max(s) \in s
  BY <1>1, <1>2, FS_Subset, LastPlace
<1>4. Cardinality(s) \in Nat /\ Cardinality(s \ {Max(s)}) = Cardinality(s) - 1
  BY <1>3, FS_RemoveElement, FS_CardinalityType
<1>5. \A c \in Nat : c <= n + 1 => c - 1 <= n
  OBVIOUS
<1>6. Cardinality(s \ {Max(s)}) <= n
  BY <1>2, <1>4, <1>5
<1>7. s \ {Max(s)} \in SUBSET (1 .. N)
  BY <1>2
<1> QED
  BY <1>6, <1>7 DEF UpTo

LEMMA FoldExtends ==
  ASSUME NEW list, NEW N \in Nat, NEW n \in Nat, NEW g, Folding(list, UpTo(1 .. N, n), g)
  PROVE  \E h : Folding(list, UpTo(1 .. N, n + 1), h)
<1> DEFINE Pass(f, s) == IF s = {} THEN NothingYet ELSE Step(f[s \ {Max(s)}], list[Max(s)])
           h == [s \in UpTo(1 .. N, n + 1) |-> Pass(g, s)]
<1>1. ASSUME NEW s \in UpTo(1 .. N, n + 1), s # {}
      PROVE  h[s \ {Max(s)}] = g[s \ {Max(s)}]
  <2> DEFINE t == s \ {Max(s)}
  <2>1. t \in UpTo(1 .. N, n)
    BY <1>1, UpToShorter
  <2>2. t \in UpTo(1 .. N, n + 1)
    <3>1. IsFiniteSet(1 .. N)
      BY FS_Interval
    <3>2. IsFiniteSet(t) /\ Cardinality(t) \in Nat
      BY <2>1, <3>1, FS_Subset, FS_CardinalityType DEF UpTo
    <3> HIDE DEF t
    <3> QED
      BY <2>1, <3>2 DEF UpTo
  <2>3. g[t] = Pass(g, t)
    <3> HIDE DEF t
    <3> QED
      BY <2>1 DEF Folding
  <2>4. h[t] = Pass(g, t)
    <3> HIDE DEF t, Pass
    <3> QED
      BY <2>2
  <2> QED
    BY <2>3, <2>4
<1>2. h = [s \in UpTo(1 .. N, n + 1) |-> Pass(h, s)]
  <2> DEFINE r == [s \in UpTo(1 .. N, n + 1) |-> Pass(h, s)]
  <2>1. \A s \in UpTo(1 .. N, n + 1) : Pass(g, s) = Pass(h, s)
    <3> HIDE DEF h
    <3> QED
      BY <1>1
  <2>2. \A s \in UpTo(1 .. N, n + 1) : h[s] = r[s]
    <3> HIDE DEF Pass
    <3> QED
      BY <2>1
  <2> HIDE DEF Pass
  <2> QED
    BY <2>2
<1> HIDE DEF h
<1> QED
  BY <1>2 DEF Folding

LEMMA FoldExists ==
  ASSUME NEW list, NEW N \in Nat
  PROVE  \E g : Folding(list, SUBSET (1 .. N), g)
<1> DEFINE Bad == {n \in Nat : ~ \E g : Folding(list, UpTo(1 .. N, n), g)}
<1>1. IsFiniteSet(1 .. N) /\ Cardinality(1 .. N) = N
  BY FS_Interval
<1>2. Bad = {}
  <2> SUFFICES ASSUME Bad # {} PROVE FALSE
    OBVIOUS
  <2>1. PICK m \in Bad : \A n \in Bad : m <= n
    <3>1. Bad \in SUBSET Nat
      OBVIOUS
    <3> HIDE DEF Bad
    <3> QED
      BY <3>1, LeastElement
  <2>2. m # 0
    <3>1. UpTo(1 .. N, 0) = {{}}
      BY <1>1, FS_EmptySet, FS_Subset, FS_CardinalityType DEF UpTo
    <3> DEFINE z == [s \in {{}} |-> NothingYet]
    <3>2. Folding(list, UpTo(1 .. N, 0), z)
      BY <3>1 DEF Folding
    <3> QED
      BY <3>2
  <2>3. m - 1 \in Nat /\ ~ m <= m - 1
    BY <2>2
  <2>4. PICK g : Folding(list, UpTo(1 .. N, m - 1), g)
    BY <2>1, <2>3
  <2>5. \E h : Folding(list, UpTo(1 .. N, (m - 1) + 1), h)
    BY <2>3, <2>4, FoldExtends
  <2>6. (m - 1) + 1 = m
    OBVIOUS
  <2> QED
    BY <2>5, <2>6
<1>3. UpTo(1 .. N, N) = SUBSET (1 .. N)
  BY <1>1, FS_Subset DEF UpTo
<1>4. \E g : Folding(list, UpTo(1 .. N, N), g)
  BY <1>2
<1> QED
  BY <1>3, <1>4

\* The state of the loop after n rows.
After(list, n) == (CHOOSE g : Folding(list, SUBSET DOMAIN list, g))[1 .. n]

LEMMA FoldSteps ==
  ASSUME NEW list, NEW N \in Nat, DOMAIN list = 1 .. N
  PROVE  /\ Meaningful(list) = After(list, N).items
         /\ After(list, 0) = NothingYet
         /\ \A n \in 1 .. N : After(list, n) = Step(After(list, n - 1), list[n])
<1> DEFINE g == CHOOSE g : Folding(list, SUBSET (1 .. N), g)
<1>1. Folding(list, SUBSET (1 .. N), g)
  BY FoldExists
<1>2. \A n : After(list, n) = g[1 .. n]
  BY DEF After
<1> HIDE DEF g
<1>3. Meaningful(list) = After(list, N).items
  BY FoldIsChosen DEF After
<1>4. After(list, 0) = NothingYet
  <2>1. 1 .. 0 = {} /\ 1 .. 0 \in SUBSET (1 .. N)
    OBVIOUS
  <2>2. g[1 .. 0] = NothingYet
    BY <1>1, <2>1 DEF Folding
  <2> QED
    BY <1>2, <2>2
<1>5. ASSUME NEW n \in 1 .. N PROVE After(list, n) = Step(After(list, n - 1), list[n])
  <2> DEFINE s == 1 .. n
  <2>1. s \in SUBSET (1 .. N) /\ s \in SUBSET (0 .. N) /\ n \in s /\ n \in Nat
    <3>1. \A x \in s : x \in 1 .. N /\ x \in 0 .. N
      OBVIOUS
    <3> QED
      BY <3>1
  <2>2. Max(s) = n
    <3>1. Max(s) \in s /\ \A y \in s : y <= Max(s)
      <4> HIDE DEF s
      <4> QED
        BY <2>1, MaxIsGreatest
    <3>2. Max(s) <= n /\ n <= Max(s)
      BY <2>1, <3>1
    <3>3. Max(s) \in Nat
      BY <3>1
    <3> QED
      BY <2>1, <3>2, <3>3
  <2>3. s \ {n} = 1 .. (n - 1)
    OBVIOUS
  <2>4. g[s] = Step(g[s \ {Max(s)}], list[Max(s)])
    <3> HIDE DEF s
    <3> QED
      BY <1>1, <2>1 DEF Folding
  <2> QED
    BY <1>2, <2>2, <2>3, <2>4
<1> QED
  BY <1>3, <1>4, <1>5

-----------------------------------------------------------------------------
(***************************************************************************)
(* What the loop keeps.  seen are the rows it has passed, s is its state.  *)
(***************************************************************************)

Shapes   == [kind : {"notification", "mei-group"}, rows : SUBSET Nat, mei : Nat]
Episodes == {Historical(n) : n \in Nat} \cup {Explicit(notices[j].episode) : j \in DOMAIN notices}
States   == [items : Seq(Shapes), mei : Nat, group : Nat, moves : Nat, episode : Episodes]

SameEpisode(i, j) ==
  notices[i].episode # NoEpisode /\ notices[j].episode # NoEpisode
    => notices[i].episode = notices[j].episode

\* Row j repeats row m, and the position did not move between them.
Repeats(m, j, seen) ==
  /\ m < j /\ ~ Differs(notices[m], notices[j]) /\ notices[j].type = "MEI_SELECTED"
  /\ \A b \in seen : m < b /\ b < j => ~ Moves(notices[b])

Repetition(t, n, seen) ==
  /\ t[n].kind = "mei-group" /\ t[n].mei \in seen
  /\ \E m \in DOMAIN t : t[m] = Single(t[n].mei)
  /\ \A j \in t[n].rows : Repeats(t[n].mei, j, seen) /\ SameEpisode(t[n].mei, j)
  /\ \A i, j \in t[n].rows : SameEpisode(i, j)

Partition(t, seen) ==
  /\ \A n \in DOMAIN t : t[n].rows # {} /\ t[n].rows \subseteq seen
  /\ \A j \in seen : \E n \in DOMAIN t : j \in t[n].rows
  /\ \A m, n \in DOMAIN t : m # n => t[m].rows \cap t[n].rows = {}

Honest(t, seen) ==
  \A n \in DOMAIN t : (\E j \in seen : t[n] = Single(j)) \/ Repetition(t, n, seen)

DistinctKeys(t) ==
  \A m, n \in DOMAIN t :
    m # n /\ t[m].kind = "mei-group" /\ t[n].kind = "mei-group" => t[m].mei # t[n].mei

GoodItems(t, seen) == Partition(t, seen) /\ Honest(t, seen) /\ DistinctKeys(t)

OfThis(s, j) == notices[j].episode # NoEpisode => Explicit(notices[j].episode) = s.episode

\* The row last shown, and the group that is active.
LastShown(s, seen) ==
  s.mei # None =>
    /\ s.mei \in seen /\ OfThis(s, s.mei)
    /\ \E n \in DOMAIN s.items : s.items[n] = Single(s.mei)
    /\ \A b \in seen : s.mei < b => ~ Moves(notices[b])
    /\ \A n \in DOMAIN s.items :
         s.items[n].kind = "mei-group" /\ s.items[n].mei = s.mei => n = s.group

ActiveGroup(s) ==
  s.group # None =>
    /\ s.mei # None /\ s.group \in DOMAIN s.items
    /\ s.items[s.group].kind = "mei-group" /\ s.items[s.group].mei = s.mei
    /\ \A j \in s.items[s.group].rows : OfThis(s, j)

FoldInv(s, seen) ==
  s \in States /\ GoodItems(s.items, seen) /\ LastShown(s, seen) /\ ActiveGroup(s)

LEMMA ShapesOfOne ==
  ASSUME NEW i \in Nat
  PROVE  /\ Single(i) \in Shapes /\ Single(i).kind = "notification" /\ Single(i).rows = {i}
         /\ \A m \in Nat : /\ Group(i, m) \in Shapes /\ Group(i, m).kind = "mei-group"
                           /\ Group(i, m).rows = {i} /\ Group(i, m).mei = m
BY DEF Shapes, Single, Group, None

\* u is t and x behind it.
Longer(t, u, x) ==
  /\ Len(t) \in Nat /\ DOMAIN t = 1 .. Len(t) /\ DOMAIN u = 1 .. Len(t) + 1
  /\ u[Len(t) + 1] = x /\ \A n \in DOMAIN t : u[n] = t[n]

LEMMA AppendIsLonger ==
  ASSUME NEW t \in Seq(Shapes), NEW x \in Shapes
  PROVE  Append(t, x) \in Seq(Shapes) /\ Longer(t, Append(t, x), x)
<1> HIDE DEF Shapes
<1> QED
  BY DEF Longer

LEMMA PartitionGrows ==
  ASSUME NEW seen, NEW t, NEW u, NEW x, NEW i, Longer(t, u, x), x.rows = {i}, i \notin seen,
         Partition(t, seen)
  PROVE  Partition(u, seen \cup {i})
<1> DEFINE L == Len(t)
<1>1. /\ L \in Nat /\ DOMAIN t = 1 .. L /\ DOMAIN u = 1 .. L + 1
      /\ u[L + 1] = x /\ \A n \in DOMAIN t : u[n] = t[n]
  BY DEF Longer
<1>2. \A n \in DOMAIN u : n \in DOMAIN t \/ n = L + 1
  BY <1>1
<1> HIDE DEF L
<1>3. \A n \in DOMAIN u : u[n].rows # {} /\ u[n].rows \subseteq seen \cup {i}
  BY <1>1, <1>2 DEF Partition
<1>4. \A j \in seen \cup {i} : \E n \in DOMAIN u : j \in u[n].rows
  <2>1. i \in u[L + 1].rows /\ L + 1 \in DOMAIN u
    BY <1>1
  <2>2. \A n \in DOMAIN t : n \in DOMAIN u /\ u[n].rows = t[n].rows
    BY <1>1
  <2> QED
    BY <2>1, <2>2 DEF Partition
<1>5. \A m, n \in DOMAIN u : m # n => u[m].rows \cap u[n].rows = {}
  <2>1. \A n \in DOMAIN t : i \notin u[n].rows
    BY <1>1 DEF Partition
  <2>2. u[L + 1].rows = {i}
    BY <1>1
  <2>3. \A m, n \in DOMAIN t : m # n => u[m].rows \cap u[n].rows = {}
    BY <1>1 DEF Partition
  <2> QED
    BY <1>2, <2>1, <2>2, <2>3
<1> QED
  BY <1>3, <1>4, <1>5 DEF Partition

\* A later row changes nothing between the rows of a repetition.
LEMMA RepeatsStay ==
  ASSUME NEW seen \in SUBSET Nat, NEW i \in Nat, \A j \in seen : j < i,
         NEW m, NEW j \in seen, Repeats(m, j, seen)
  PROVE  Repeats(m, j, seen \cup {i})
<1>1. j \in Nat /\ j < i
  OBVIOUS
<1>2. ~ (i < j)
  BY <1>1
<1> QED
  BY <1>2 DEF Repeats

LEMMA RepetitionStays ==
  ASSUME NEW seen \in SUBSET Nat, NEW i \in Nat, \A j \in seen : j < i,
         NEW t, NEW u, NEW x, Longer(t, u, x), NEW n \in DOMAIN t,
         t[n].rows \subseteq seen, Repetition(t, n, seen)
  PROVE  Repetition(u, n, seen \cup {i})
<1>1. u[n] = t[n] /\ \A m \in DOMAIN t : m \in DOMAIN u /\ u[m] = t[m]
  BY DEF Longer
<1>2. \A j \in t[n].rows : Repeats(t[n].mei, j, seen \cup {i})
  BY RepeatsStay DEF Repetition
<1> QED
  BY <1>1, <1>2 DEF Repetition

LEMMA HonestGrows ==
  ASSUME NEW seen \in SUBSET Nat, NEW i \in Nat, \A j \in seen : j < i,
         NEW t, NEW u, NEW x, Longer(t, u, x), Partition(t, seen), Honest(t, seen),
         x = Single(i) \/ Repetition(u, Len(t) + 1, seen \cup {i})
  PROVE  Honest(u, seen \cup {i})
<1>1. \A n \in DOMAIN u : n \in DOMAIN t \/ n = Len(t) + 1
  BY DEF Longer
<1>2. ASSUME NEW n \in DOMAIN t
      PROVE  (\E j \in seen \cup {i} : u[n] = Single(j)) \/ Repetition(u, n, seen \cup {i})
  <2>1. u[n] = t[n] /\ t[n].rows \subseteq seen
    BY DEF Longer, Partition
  <2>2. CASE \E j \in seen : t[n] = Single(j)
    BY <2>1, <2>2
  <2>3. CASE Repetition(t, n, seen)
    BY <2>1, <2>3, RepetitionStays
  <2> QED
    BY <2>2, <2>3 DEF Honest
<1>3. u[Len(t) + 1] = x
  BY DEF Longer
<1> QED
  BY <1>1, <1>2, <1>3 DEF Honest

LEMMA SingleIsGood ==
  ASSUME NEW seen \in SUBSET Nat, NEW i \in Nat, \A j \in seen : j < i,
         NEW t \in Seq(Shapes), GoodItems(t, seen)
  PROVE  /\ Append(t, Single(i)) \in Seq(Shapes) /\ Longer(t, Append(t, Single(i)), Single(i))
         /\ GoodItems(Append(t, Single(i)), seen \cup {i})
<1> DEFINE u == Append(t, Single(i))
<1>1. u \in Seq(Shapes) /\ Longer(t, u, Single(i))
  BY ShapesOfOne, AppendIsLonger
<1> HIDE DEF u
<1>2. i \notin seen
  OBVIOUS
<1>3. Partition(u, seen \cup {i})
  BY <1>1, <1>2, ShapesOfOne, PartitionGrows DEF GoodItems
<1>4. Honest(u, seen \cup {i})
  BY <1>1, HonestGrows DEF GoodItems
<1>5. DistinctKeys(u)
  BY <1>1, ShapesOfOne DEF GoodItems, DistinctKeys, Longer
<1> QED
  BY <1>1, <1>3, <1>4, <1>5 DEF GoodItems, u

\* A group is opened beside the row it repeats.
LEMMA GroupIsGood ==
  ASSUME NEW seen \in SUBSET Nat, NEW i \in Nat, \A j \in seen : j < i,
         NEW t \in Seq(Shapes), GoodItems(t, seen), NEW m \in seen,
         \E n \in DOMAIN t : t[n] = Single(m),
         \A n \in DOMAIN t : ~ (t[n].kind = "mei-group" /\ t[n].mei = m),
         Repeats(m, i, seen \cup {i}), SameEpisode(m, i)
  PROVE  /\ Append(t, Group(i, m)) \in Seq(Shapes) /\ Longer(t, Append(t, Group(i, m)), Group(i, m))
         /\ GoodItems(Append(t, Group(i, m)), seen \cup {i})
<1> DEFINE x == Group(i, m)
           u == Append(t, x)
<1>0. x \in Shapes /\ x.kind = "mei-group" /\ x.rows = {i} /\ x.mei = m
  BY ShapesOfOne
<1> HIDE DEF x
<1>1. u \in Seq(Shapes) /\ Longer(t, u, x)
  BY <1>0, AppendIsLonger
<1> HIDE DEF u
<1>2. i \notin seen
  OBVIOUS
<1>3. Partition(u, seen \cup {i})
  BY <1>0, <1>1, <1>2, PartitionGrows DEF GoodItems
<1>4. Repetition(u, Len(t) + 1, seen \cup {i})
  <2>1. u[Len(t) + 1] = x /\ \A n \in DOMAIN t : n \in DOMAIN u /\ u[n] = t[n]
    BY <1>1 DEF Longer
  <2>2. \E n \in DOMAIN u : u[n] = Single(m)
    BY <2>1
  <2> QED
    BY <1>0, <2>1, <2>2 DEF Repetition, SameEpisode
<1>5. Honest(u, seen \cup {i})
  BY <1>1, <1>4, HonestGrows DEF GoodItems
<1>6. DistinctKeys(u)
  BY <1>0, <1>1 DEF GoodItems, DistinctKeys, Longer
<1> QED
  BY <1>1, <1>3, <1>5, <1>6 DEF GoodItems, u, x

\* u is t with one row more in its item g.
Grown(t, u, g, i) == u = [t EXCEPT ![g].rows = @ \cup {i}]

LEMMA GrownFields ==
  ASSUME NEW i \in Nat, NEW t \in Seq(Shapes), NEW g \in DOMAIN t, NEW u, Grown(t, u, g, i)
  PROVE  /\ u \in Seq(Shapes) /\ DOMAIN u = DOMAIN t
         /\ \A n \in DOMAIN t : u[n].kind = t[n].kind /\ u[n].mei = t[n].mei
         /\ \A n \in DOMAIN t : n # g => u[n] = t[n]
         /\ u[g].rows = t[g].rows \cup {i}
<1>1. \A n \in DOMAIN t : t[n] \in Shapes
  <2> HIDE DEF Shapes
  <2> QED
    OBVIOUS
<1>2. DOMAIN u = DOMAIN t /\ (\A n \in DOMAIN t : n # g => u[n] = t[n])
      /\ u[g] = [t[g] EXCEPT !.rows = @ \cup {i}]
  BY <1>1 DEF Grown
<1>3. /\ u[g].rows = t[g].rows \cup {i} /\ u[g].kind = t[g].kind /\ u[g].mei = t[g].mei
      /\ u[g] \in Shapes
  BY <1>1, <1>2 DEF Shapes
<1>4. u \in Seq(Shapes)
  <2>1. DOMAIN t = 1 .. Len(t) /\ Len(t) \in Nat
    BY <1>1
  <2>2. u \in [1 .. Len(t) -> Shapes]
    BY <1>1, <1>2, <1>3, <2>1 DEF Grown
  <2> HIDE DEF Shapes
  <2> QED
    BY <2>1, <2>2, SeqDef
<1> QED
  BY <1>2, <1>3, <1>4

\* A group that repeats m takes one more row of m.
LEMMA GrownIsGood ==
  ASSUME NEW seen \in SUBSET Nat, NEW i \in Nat, \A j \in seen : j < i,
         NEW t \in Seq(Shapes), GoodItems(t, seen), NEW g \in DOMAIN t, t[g].kind = "mei-group",
         Repeats(t[g].mei, i, seen \cup {i}), SameEpisode(t[g].mei, i),
         \A j \in t[g].rows : SameEpisode(j, i),
         NEW u, Grown(t, u, g, i)
  PROVE  GoodItems(u, seen \cup {i})
<1>1. \A n \in DOMAIN t : t[n] \in Shapes
  <2> HIDE DEF Shapes
  <2> QED
    OBVIOUS
<1>2. DOMAIN u = DOMAIN t /\ \A n \in DOMAIN t : n # g => u[n] = t[n]
  BY GrownFields
<1>3. u[g].rows = t[g].rows \cup {i} /\ u[g].kind = t[g].kind /\ u[g].mei = t[g].mei
  BY GrownFields
<1>5. i \notin seen
  OBVIOUS
<1>6. Partition(u, seen \cup {i})
  <2>1. \A n \in DOMAIN u : u[n].rows # {} /\ u[n].rows \subseteq seen \cup {i}
    BY <1>2, <1>3 DEF GoodItems, Partition
  <2>2. \A j \in seen \cup {i} : \E n \in DOMAIN u : j \in u[n].rows
    <3>1. \A n \in DOMAIN t : t[n].rows \subseteq u[n].rows
      BY <1>2, <1>3
    <3> QED
      BY <1>2, <1>3, <3>1 DEF GoodItems, Partition
  <2>3. \A m, n \in DOMAIN u : m # n => u[m].rows \cap u[n].rows = {}
    <3>1. \A n \in DOMAIN t : i \notin t[n].rows
      BY <1>5 DEF GoodItems, Partition
    <3>2. \A m, n \in DOMAIN t : m # n => t[m].rows \cap t[n].rows = {}
      BY DEF GoodItems, Partition
    <3>3. \A n \in DOMAIN t : u[n].rows = t[n].rows \/ (n = g /\ u[n].rows = t[n].rows \cup {i})
      BY <1>2, <1>3
    <3> QED
      BY <1>2, <3>1, <3>2, <3>3
  <2> QED
    BY <2>1, <2>2, <2>3 DEF Partition
<1>7. Honest(u, seen \cup {i})
  <2>1. ASSUME NEW n \in DOMAIN t, Repetition(t, n, seen)
        PROVE  Repetition(u, n, seen \cup {i})
    <3>1. \E m \in DOMAIN u : u[m] = Single(t[n].mei)
      <4>1. PICK m \in DOMAIN t : t[m] = Single(t[n].mei)
        BY <2>1 DEF Repetition
      <4>2. m # g
        BY <4>1, ShapesOfOne, <1>1, <2>1 DEF Shapes
      <4> QED
        BY <1>2, <4>1, <4>2
    <3>2. \A j \in t[n].rows : Repeats(t[n].mei, j, seen \cup {i}) /\ SameEpisode(t[n].mei, j)
      BY <2>1, RepeatsStay DEF Repetition, GoodItems, Partition
    <3>3. CASE n = g
      <4>1. \A j \in u[n].rows : Repeats(u[n].mei, j, seen \cup {i}) /\ SameEpisode(u[n].mei, j)
        BY <1>3, <3>2, <3>3
      <4>2. \A k, j \in u[n].rows : SameEpisode(k, j)
        BY <1>3, <2>1, <3>3 DEF Repetition, SameEpisode
      <4> QED
        BY <1>2, <1>3, <2>1, <3>1, <3>3, <4>1, <4>2 DEF Repetition
    <3>4. CASE n # g
      BY <1>2, <2>1, <3>1, <3>2, <3>4 DEF Repetition
    <3> QED
      BY <3>3, <3>4
  <2>2. ASSUME NEW n \in DOMAIN t, NEW j \in seen, t[n] = Single(j) PROVE u[n] = Single(j)
    <3>1. n # g
      BY <2>2, ShapesOfOne
    <3> QED
      BY <1>2, <2>2, <3>1
  <2> QED
    BY <1>2, <2>1, <2>2 DEF Honest, GoodItems
<1>8. DistinctKeys(u)
  <2>1. \A n \in DOMAIN t : u[n].kind = t[n].kind /\ u[n].mei = t[n].mei
    BY <1>2, <1>3
  <2> QED
    BY <1>2, <2>1 DEF DistinctKeys, GoodItems
<1> QED
  BY <1>6, <1>7, <1>8 DEF GoodItems

-----------------------------------------------------------------------------
(***************************************************************************)
(* A pass of the loop keeps it.                                            *)
(***************************************************************************)

\* What each change of the state leaves and sets.
LEMMA DisplayFields ==
  ASSUME NEW s \in States, NEW i \in Nat
  PROVE  LET d == Display(s, i) IN
           /\ d \in States /\ d.items = Append(s.items, Single(i))
           /\ d.mei = s.mei /\ d.group = s.group /\ d.moves = s.moves /\ d.episode = s.episode
<1>1. s.items \in Seq(Shapes)
  BY DEF States
<1>2. Append(s.items, Single(i)) \in Seq(Shapes)
  BY <1>1, ShapesOfOne, AppendIsLonger
<1> DEFINE u == Append(s.items, Single(i))
<1>3. Display(s, i) = [s EXCEPT !.items = u]
  BY DEF Display
<1> HIDE DEF u
<1>4. u \in Seq(Shapes)
  BY <1>2 DEF u
<1> HIDE DEF Shapes, Episodes
<1>5. [s EXCEPT !.items = u] \in States
  BY <1>4 DEF States
<1>6. LET d == [s EXCEPT !.items = u] IN
        /\ d.items = u
        /\ d.mei = s.mei /\ d.group = s.group /\ d.moves = s.moves /\ d.episode = s.episode
  BY DEF States
<1> QED
  BY <1>3, <1>5, <1>6 DEF u

LEMMA ForgetFields ==
  ASSUME NEW s \in States
  PROVE  LET d == Forget(s) IN
           /\ d \in States /\ d.mei = None /\ d.group = None
           /\ d.items = s.items /\ d.moves = s.moves /\ d.episode = s.episode
BY DEF States, Forget, None

LEMMA ShownFields ==
  ASSUME NEW s \in States, NEW i \in Nat
  PROVE  LET d == Shown(s, i) IN
           /\ d \in States /\ d.mei = i /\ d.group = None
           /\ d.items = Append(s.items, Single(i)) /\ d.episode = s.episode
<1> DEFINE e == Display(s, i)
<1>1. e \in States /\ e.items = Append(s.items, Single(i)) /\ e.episode = s.episode
  BY DisplayFields
<1>2. Shown(s, i) = [e EXCEPT !.mei = i, !.group = None]
  BY DEF Shown
<1> DEFINE d == [e EXCEPT !.mei = i, !.group = None]
<1> HIDE DEF e, Shapes, Episodes
<1>3. d \in States
  BY <1>1 DEF States, None
<1>4. d.mei = i /\ d.group = None /\ d.items = e.items /\ d.episode = e.episode
  BY <1>1 DEF States
<1> QED
  BY <1>1, <1>2, <1>3, <1>4

LEMMA BoundaryFields ==
  ASSUME NEW s \in States, NEW i \in Nat
  PROVE  LET d == NewBoundary(s, i) IN
           /\ d \in States /\ d.mei = None /\ d.group = None
           /\ d.items = Append(s.items, Single(i))
<1> DEFINE f == Display(s, i)
           e == Forget(f)
<1>0. f \in States /\ f.items = Append(s.items, Single(i))
  BY DisplayFields
<1> HIDE DEF f
<1>1. e \in States /\ e.items = f.items /\ e.mei = None /\ e.group = None
  BY <1>0, ForgetFields
<1>2. NewBoundary(s, i) = [e EXCEPT !.moves = @ + 1, !.episode = Historical(s.moves + 1)]
  BY DEF NewBoundary, f
<1>3. Historical(s.moves + 1) \in Episodes
  BY DEF States, Episodes
<1> DEFINE h == Historical(s.moves + 1)
           d == [e EXCEPT !.moves = @ + 1, !.episode = h]
<1> HIDE DEF e, Shapes, Episodes
<1>4. d \in States
  <2>1. h \in Episodes
    BY <1>3
  <2> HIDE DEF h
  <2>2. PICK m \in Nat : m = e.moves + 1
    BY <1>1 DEF States
  <2>3. d = [e EXCEPT !.moves = m, !.episode = h]
    BY <2>2
  <2>4. [e EXCEPT !.moves = m, !.episode = h] \in States
    BY <1>1, <2>1 DEF States
  <2> QED
    BY <2>3, <2>4
<1>5. d.mei = e.mei /\ d.group = e.group /\ d.items = e.items
  BY <1>1 DEF States
<1> QED
  BY <1>0, <1>1, <1>2, <1>4, <1>5 DEF h

\* Before the first row.
LEMMA FoldStarts == FoldInv(NothingYet, {})
<1>1. Historical(0) \in Episodes
  BY DEF Episodes
<1>2. NothingYet \in States
  <2> HIDE DEF Shapes, Episodes
  <2> QED
    BY <1>1 DEF NothingYet, States, None
<1>3. NothingYet.items = <<>> /\ NothingYet.mei = None /\ NothingYet.group = None
  BY DEF NothingYet
<1>4. DOMAIN NothingYet.items = {}
  BY <1>3
<1> QED
  BY <1>2, <1>3, <1>4 DEF FoldInv, GoodItems, Partition, Honest, DistinctKeys, LastShown,
                          ActiveGroup

\* A row that is displayed and forgets, or leaves, what was shown before it.
LEMMA DisplayKeeps ==
  ASSUME NEW seen \in SUBSET Nat, NEW i \in Nat, \A j \in seen : j < i,
         NEW s, FoldInv(s, seen), NEW d \in States, d.items = Append(s.items, Single(i)),
         \/ d.mei = None /\ d.group = None
         \/ /\ d.mei = s.mei /\ d.group = s.group /\ d.episode = s.episode
            /\ ~ Moves(notices[i])
  PROVE  FoldInv(d, seen \cup {i})
<1>1. s.items \in Seq(Shapes)
  BY DEF FoldInv, States
<1>2. /\ Longer(s.items, d.items, Single(i))
      /\ GoodItems(d.items, seen \cup {i})
  BY <1>1, SingleIsGood DEF FoldInv
<1>3. CASE d.mei = None /\ d.group = None
  BY <1>2, <1>3 DEF FoldInv, LastShown, ActiveGroup
<1>4. CASE d.mei = s.mei /\ d.group = s.group /\ d.episode = s.episode /\ ~ Moves(notices[i])
  <2>1. \A n \in DOMAIN s.items : n \in DOMAIN d.items /\ d.items[n] = s.items[n]
    BY <1>2 DEF Longer
  <2>2. \A n \in DOMAIN d.items :
          n \in DOMAIN s.items \/ (n = Len(s.items) + 1 /\ d.items[n].kind = "notification")
    BY <1>2, ShapesOfOne DEF Longer
  <2>3. LastShown(d, seen \cup {i})
    BY <1>4, <2>1, <2>2 DEF FoldInv, LastShown, OfThis
  <2>4. ActiveGroup(d)
    BY <1>4, <2>1 DEF FoldInv, ActiveGroup, OfThis
  <2> QED
    BY <1>2, <2>3, <2>4 DEF FoldInv
<1> QED
  BY <1>3, <1>4

LEMMA ShownKeeps ==
  ASSUME NEW seen \in SUBSET Nat, NEW i \in Nat \ {0}, \A j \in seen : j < i,
         NEW s, FoldInv(s, seen), OfThis(s, i)
  PROVE  FoldInv(Shown(s, i), seen \cup {i})
<1> DEFINE d == Shown(s, i)
<1>1. s \in States /\ s.items \in Seq(Shapes)
  BY DEF FoldInv, States
<1>2. /\ d \in States /\ d.mei = i /\ d.group = None
      /\ d.items = Append(s.items, Single(i)) /\ d.episode = s.episode
  BY <1>1, ShownFields
<1> HIDE DEF d
<1>3. /\ Longer(s.items, d.items, Single(i))
      /\ GoodItems(d.items, seen \cup {i})
  BY <1>1, <1>2, SingleIsGood DEF FoldInv
<1>4. \E n \in DOMAIN d.items : d.items[n] = Single(i)
  BY <1>3 DEF Longer
<1>5. \A b \in seen \cup {i} : ~ (i < b)
  OBVIOUS
<1>6. ASSUME NEW n \in DOMAIN d.items, d.items[n].kind = "mei-group", d.items[n].mei = i
      PROVE  FALSE
  <2>1. n \in DOMAIN s.items /\ d.items[n] = s.items[n]
    BY <1>3, <1>6, ShapesOfOne DEF Longer
  <2>2. s.items[n].mei \in seen
    BY <1>6, <2>1, ShapesOfOne DEF FoldInv, GoodItems, Honest, Repetition
  <2> QED
    BY <1>6, <2>1, <2>2
<1>7. LastShown(d, seen \cup {i})
  BY <1>2, <1>4, <1>5, <1>6 DEF LastShown, OfThis
<1>8. ActiveGroup(d)
  BY <1>2 DEF ActiveGroup
<1> QED
  BY <1>2, <1>3, <1>7, <1>8 DEF FoldInv, d

\* A recalculation is of the episode the state is in, once that was looked at.
LEMMA EpisodeKeeps ==
  ASSUME NEW seen, NEW s, FoldInv(s, seen), NEW i \in DOMAIN notices
  PROVE  /\ FoldInv(OfEpisode(s, notices[i]), seen) /\ OfThis(OfEpisode(s, notices[i]), i)
         /\ OfEpisode(s, notices[i]).items = s.items
<1> DEFINE k == notices[i]
           f == Forget(s)
           d == [f EXCEPT !.episode = Explicit(k.episode)]
<1>1. CASE k.episode # NoEpisode /\ Explicit(k.episode) # s.episode
  <2>1. f \in States /\ f.items = s.items /\ f.mei = None /\ f.group = None
    BY ForgetFields DEF FoldInv
  <2>2. Explicit(k.episode) \in Episodes
    BY DEF Episodes
  <2>3. d \in States /\ d.items = s.items /\ d.mei = None /\ d.group = None
        /\ d.episode = Explicit(k.episode)
    <3> DEFINE h == Explicit(k.episode)
    <3>1. h \in Episodes /\ d = [f EXCEPT !.episode = h]
      BY <2>2
    <3> HIDE DEF d, f, h, Shapes, Episodes
    <3>2. d \in States
      BY <2>1, <3>1 DEF States
    <3>3. d.items = f.items /\ d.mei = f.mei /\ d.group = f.group /\ d.episode = h
      BY <2>1, <3>1 DEF States
    <3> QED
      BY <2>1, <3>2, <3>3 DEF h
  <2>4. OfEpisode(s, k) = d
    BY <1>1 DEF OfEpisode
  <2> HIDE DEF d
  <2>5. FoldInv(d, seen)
    BY <2>3 DEF FoldInv, LastShown, ActiveGroup
  <2> QED
    BY <2>3, <2>4, <2>5 DEF OfThis
<1>2. CASE ~ (k.episode # NoEpisode /\ Explicit(k.episode) # s.episode)
  <2>1. OfEpisode(s, k) = s
    BY <1>2 DEF OfEpisode
  <2> QED
    BY <1>2, <2>1 DEF OfThis
<1> QED
  BY <1>1, <1>2

LEMMA SameIsSame ==
  ASSUME NEW s, NEW i, NEW j, OfThis(s, i), OfThis(s, j)
  PROVE  SameEpisode(i, j)
BY DEF OfThis, SameEpisode, Explicit

\* What is unchanged repeats the row last shown.
LEMMA UnchangedRepeats ==
  ASSUME NEW seen \in SUBSET Nat, NEW i \in Nat, \A j \in seen : j < i,
         NEW s, FoldInv(s, seen), ~ Changed(s, notices[i]), notices[i].type = "MEI_SELECTED",
         OfThis(s, i)
  PROVE  s.mei # None /\ s.mei \in seen /\ Repeats(s.mei, i, seen \cup {i}) /\ SameEpisode(s.mei, i)
<1>1. s.mei # None /\ ~ Differs(notices[s.mei], notices[i])
  BY DEF Changed
<1>2. s.mei \in seen /\ OfThis(s, s.mei) /\ \A b \in seen : s.mei < b => ~ Moves(notices[b])
  BY <1>1 DEF FoldInv, LastShown
<1>3. ~ (i < i)
  OBVIOUS
<1>4. Repeats(s.mei, i, seen \cup {i})
  BY <1>1, <1>2, <1>3 DEF Repeats
<1> QED
  BY <1>1, <1>2, <1>4, SameIsSame

LEMMA GroupFields ==
  ASSUME NEW s \in States, NEW i \in Nat,
         NEW d, d = [s EXCEPT !.items = Append(@, Group(i, s.mei)), !.group = Len(s.items) + 1]
  PROVE  /\ d \in States /\ d.items = Append(s.items, Group(i, s.mei))
         /\ d.mei = s.mei /\ d.group = Len(s.items) + 1 /\ d.episode = s.episode
<1>1. s.items \in Seq(Shapes) /\ s.mei \in Nat /\ Len(s.items) \in Nat
  <2> HIDE DEF Shapes, Episodes
  <2> QED
    BY DEF States
<1>2. Append(s.items, Group(i, s.mei)) \in Seq(Shapes)
  BY <1>1, ShapesOfOne, AppendIsLonger
<1>3. PICK u \in Seq(Shapes) : u = Append(s.items, Group(i, s.mei))
  BY <1>2
<1>4. PICK g \in Nat : g = Len(s.items) + 1
  BY <1>1
<1>5. d = [s EXCEPT !.items = u, !.group = g]
  BY <1>3, <1>4
<1> HIDE DEF Shapes, Episodes
<1>6. d \in States
  BY <1>5 DEF States
<1>7. d.items = u /\ d.mei = s.mei /\ d.group = g /\ d.episode = s.episode
  BY <1>5 DEF States
<1> QED
  BY <1>3, <1>4, <1>6, <1>7

LEMMA ContinuedFields ==
  ASSUME NEW s \in States, NEW i \in Nat, NEW d, d = Continued(s, i), s.group \in DOMAIN s.items
  PROVE  /\ d \in States /\ d.items = [s.items EXCEPT ![s.group].rows = @ \cup {i}]
         /\ d.mei = s.mei /\ d.group = s.group /\ d.episode = s.episode
<1>1. s.items \in Seq(Shapes)
  BY DEF States
<1> DEFINE g == s.group
<1>2. s.items[g] \in Shapes
  <2> HIDE DEF Shapes
  <2> QED
    BY <1>1
<1>3. [s.items[g] EXCEPT !.rows = @ \cup {i}] \in Shapes
  BY <1>2 DEF Shapes
<1>4. PICK x \in Shapes : x = [s.items[g] EXCEPT !.rows = @ \cup {i}]
  BY <1>3
<1>5. [s.items EXCEPT ![g].rows = @ \cup {i}] = [s.items EXCEPT ![g] = x]
  BY <1>4
<1>6. [s.items EXCEPT ![g] = x] \in Seq(Shapes)
  <2>1. DOMAIN s.items = 1 .. Len(s.items)
    <3> HIDE DEF Shapes
    <3> QED
      BY <1>1
  <2> HIDE DEF Shapes
  <2> QED
    BY <1>1, <2>1, ExceptSeq
<1>7. PICK u \in Seq(Shapes) : u = [s.items EXCEPT ![g].rows = @ \cup {i}]
  BY <1>5, <1>6
<1>8. d = [s EXCEPT !.items = u]
  BY <1>7 DEF Continued, States
<1> HIDE DEF Shapes, Episodes
<1>9. d \in States
  BY <1>8 DEF States
<1>10. d.items = u /\ d.mei = s.mei /\ d.group = s.group /\ d.episode = s.episode
  BY <1>8 DEF States
<1> QED
  BY <1>7, <1>9, <1>10

LEMMA FoldedKeeps ==
  ASSUME NEW seen \in SUBSET Nat, NEW i \in Nat, \A j \in seen : j < i,
         NEW s, FoldInv(s, seen), ~ Changed(s, notices[i]), notices[i].type = "MEI_SELECTED",
         OfThis(s, i)
  PROVE  FoldInv(Folded(s, i), seen \cup {i})
<1> DEFINE d == Folded(s, i)
           t == s.items
           u == d.items
<1>1. s \in States /\ t \in Seq(Shapes) /\ GoodItems(t, seen) /\ s.mei \in Nat
  BY DEF FoldInv, States
<1>2. s.mei # None /\ s.mei \in seen /\ Repeats(s.mei, i, seen \cup {i}) /\ SameEpisode(s.mei, i)
  BY UnchangedRepeats
<1>3. /\ OfThis(s, s.mei)
      /\ \E n \in DOMAIN t : t[n] = Single(s.mei)
      /\ \A b \in seen : s.mei < b => ~ Moves(notices[b])
      /\ \A n \in DOMAIN t : t[n].kind = "mei-group" /\ t[n].mei = s.mei => n = s.group
  BY <1>2 DEF FoldInv, LastShown
<1>4. ~ Moves(notices[i])
  BY DEF Moves
<1>5. CASE s.group # None
  <2> DEFINE g == s.group
  <2>1. /\ g \in DOMAIN t /\ t[g].kind = "mei-group" /\ t[g].mei = s.mei
        /\ \A j \in t[g].rows : OfThis(s, j)
    BY <1>5 DEF FoldInv, ActiveGroup
  <2>2. d = Continued(s, i)
    BY <1>5 DEF Folded
  <2>3. d \in States /\ u = [t EXCEPT ![g].rows = @ \cup {i}]
        /\ d.mei = s.mei /\ d.group = g /\ d.episode = s.episode
    BY <1>1, <2>1, <2>2, ContinuedFields
  <2>4. \A j \in t[g].rows : SameEpisode(j, i)
    BY <2>1, SameIsSame
  <2> HIDE DEF d, u, t, g
  <2>5. /\ DOMAIN u = DOMAIN t
        /\ \A n \in DOMAIN t : u[n].kind = t[n].kind /\ u[n].mei = t[n].mei
        /\ \A n \in DOMAIN t : n # g => u[n] = t[n]
        /\ u[g].rows = t[g].rows \cup {i}
        /\ GoodItems(u, seen \cup {i})
    <3>1. Repeats(t[g].mei, i, seen \cup {i}) /\ SameEpisode(t[g].mei, i)
      BY <1>2, <2>1
    <3>2. t \in Seq(Shapes) /\ GoodItems(t, seen) /\ g \in DOMAIN t /\ t[g].kind = "mei-group"
      BY <1>1, <2>1
    <3>3. Grown(t, u, g, i)
      BY <2>3 DEF Grown
    <3>4. GoodItems(u, seen \cup {i})
      BY <2>4, <3>1, <3>2, <3>3, GrownIsGood
    <3> QED
      BY <3>2, <3>3, <3>4, GrownFields
  <2>6. \E n \in DOMAIN u : u[n] = Single(s.mei)
    <3>1. PICK n \in DOMAIN t : t[n] = Single(s.mei)
      BY <1>3
    <3>2. n # g
      BY <1>1, <2>1, <3>1, ShapesOfOne
    <3> QED
      BY <2>5, <3>1, <3>2
  <2>7. LastShown(d, seen \cup {i})
    BY <1>2, <1>3, <1>4, <2>3, <2>5, <2>6 DEF LastShown, OfThis, u, g
  <2>8. ActiveGroup(d)
    <3>1. \A j \in u[g].rows : OfThis(d, j)
      BY <2>1, <2>3, <2>5 DEF OfThis
    <3> QED
      BY <1>2, <2>1, <2>3, <2>5, <3>1 DEF ActiveGroup, u, g
  <2> QED
    BY <2>3, <2>5, <2>7, <2>8 DEF FoldInv, u, d
<1>6. CASE s.group = None
  <2> DEFINE x == Group(i, s.mei)
  <2>1. d = [s EXCEPT !.items = Append(@, x), !.group = Len(s.items) + 1]
    BY <1>6 DEF Folded
  <2>2. d \in States /\ u = Append(t, x)
        /\ d.mei = s.mei /\ d.group = Len(t) + 1 /\ d.episode = s.episode
    BY <1>1, <2>1, GroupFields
  <2>3. x.kind = "mei-group" /\ x.rows = {i} /\ x.mei = s.mei
    BY <1>1, ShapesOfOne
  <2>4. \A n \in DOMAIN t : ~ (t[n].kind = "mei-group" /\ t[n].mei = s.mei)
    <3>1. 0 \notin DOMAIN t
      <4> HIDE DEF t, Shapes
      <4> QED
        BY <1>1
    <3> QED
      BY <1>3, <1>6, <3>1 DEF None
  <2> HIDE DEF d, u, t
  <2>5. Longer(t, u, x) /\ GoodItems(u, seen \cup {i})
    BY <1>1, <1>2, <1>3, <2>2, <2>4, GroupIsGood
  <2> HIDE DEF x
  <2>6. /\ DOMAIN u = 1 .. Len(t) + 1 /\ Len(t) \in Nat /\ DOMAIN t = 1 .. Len(t)
        /\ u[Len(t) + 1] = x /\ \A n \in DOMAIN t : u[n] = t[n]
    BY <2>5 DEF Longer
  <2>7. /\ \A n \in DOMAIN u : n \in DOMAIN t \/ n = Len(t) + 1
        /\ \A n \in DOMAIN t : n \in DOMAIN u
        /\ Len(t) + 1 \in DOMAIN u /\ Len(t) + 1 # None
    BY <2>6 DEF None
  <2>8. LastShown(d, seen \cup {i})
    <3>1. \E n \in DOMAIN u : u[n] = Single(s.mei)
      BY <1>3, <2>6, <2>7
    <3>2. \A n \in DOMAIN u : u[n].kind = "mei-group" /\ u[n].mei = s.mei => n = Len(t) + 1
      BY <2>4, <2>6, <2>7
    <3> QED
      BY <1>2, <1>3, <1>4, <2>2, <3>1, <3>2 DEF LastShown, OfThis, u
  <2>9. ActiveGroup(d)
    <3>1. d.items[d.group] = x /\ d.group \in DOMAIN d.items
      BY <2>2, <2>6, <2>7 DEF u
    <3>2. \A j \in x.rows : OfThis(d, j)
      BY <2>2, <2>3 DEF OfThis
    <3> QED
      BY <1>2, <2>2, <2>3, <3>1, <3>2 DEF ActiveGroup
  <2> QED
    BY <2>2, <2>5, <2>8, <2>9 DEF FoldInv, u, d
<1> QED
  BY <1>5, <1>6

\* One row more.
LEMMA StepKeeps ==
  ASSUME NEW seen \in SUBSET Nat, NEW i \in Nat \ {0}, i \in DOMAIN notices,
         \A j \in seen : j < i, NEW s, FoldInv(s, seen)
  PROVE  FoldInv(Step(s, i), seen \cup {i})
<1> DEFINE k == notices[i]
           t == OfEpisode(s, k)
<1>1. s \in States
  BY DEF FoldInv
<1>2. CASE Moves(k)
  <2> DEFINE d == NewBoundary(s, i)
  <2>1. /\ d \in States /\ d.mei = None /\ d.group = None
        /\ d.items = Append(s.items, Single(i))
    BY <1>1, BoundaryFields
  <2>2. Step(s, i) = d
    BY <1>2 DEF Step, Moves
  <2> HIDE DEF d
  <2>3. FoldInv(d, seen \cup {i})
    BY <2>1, DisplayKeeps
  <2> QED
    BY <2>2, <2>3
<1>3. CASE ~ Moves(k) /\ k.type # "MEI_SELECTED"
  <2> DEFINE d == Display(s, i)
  <2>1. /\ d \in States /\ d.items = Append(s.items, Single(i))
        /\ d.mei = s.mei /\ d.group = s.group /\ d.episode = s.episode
    BY <1>1, DisplayFields
  <2>2. Step(s, i) = d
    BY <1>3 DEF Step
  <2> HIDE DEF d
  <2>3. FoldInv(d, seen \cup {i})
    BY <1>3, <2>1, DisplayKeeps
  <2> QED
    BY <2>2, <2>3
<1>4. CASE ~ Moves(k) /\ k.type = "MEI_SELECTED"
  <2>1. Step(s, i) = Selected(s, i)
    BY <1>4 DEF Step
  <2>2. FoldInv(t, seen) /\ OfThis(t, i) /\ t \in States /\ t.items = s.items
    BY EpisodeKeeps DEF FoldInv
  <2>3. CASE k.action = NoAction
    <3> DEFINE e == Display(t, i)
               d == Forget(e)
    <3>1. e \in States /\ e.items = Append(t.items, Single(i))
      BY <2>2, DisplayFields
    <3>2. d \in States /\ d.items = e.items /\ d.mei = None /\ d.group = None
      <4> HIDE DEF e
      <4> QED
        BY <3>1, ForgetFields
    <3>3. Selected(s, i) = d
      BY <2>3 DEF Selected
    <3> HIDE DEF d, e, t
    <3>4. FoldInv(d, seen \cup {i})
      BY <2>2, <3>1, <3>2, DisplayKeeps
    <3> QED
      BY <2>1, <3>3, <3>4
  <2>4. CASE k.action # NoAction /\ Changed(t, k)
    <3>1. Selected(s, i) = Shown(t, i)
      BY <2>4 DEF Selected
    <3> HIDE DEF t
    <3>2. FoldInv(Shown(t, i), seen \cup {i})
      BY <2>2, ShownKeeps
    <3> QED
      BY <2>1, <3>1, <3>2
  <2>5. CASE k.action # NoAction /\ ~ Changed(t, k)
    <3>1. Selected(s, i) = Folded(t, i)
      BY <2>5 DEF Selected
    <3> HIDE DEF t
    <3>2. FoldInv(Folded(t, i), seen \cup {i})
      BY <1>4, <2>2, <2>5, FoldedKeeps
    <3> QED
      BY <2>1, <3>1, <3>2
  <2> QED
    BY <2>3, <2>4, <2>5
<1> QED
  BY <1>2, <1>3, <1>4

-----------------------------------------------------------------------------
(***************************************************************************)
(* The whole loop, over the rows the filter lets through.                  *)
(***************************************************************************)

LEMMA FilteredRows ==
  ASSUME ListTypeOK
  PROVE  /\ Passing \in SUBSET (1 .. Len(notices)) /\ Len(notices) \in Nat
         /\ DOMAIN notices = 1 .. Len(notices) /\ Cardinality(Passing) \in Nat
         /\ DOMAIN Filtered = 1 .. Cardinality(Passing)
         /\ \A p \in DOMAIN Filtered : Filtered[p] \in Passing
         /\ \A i \in Passing : \E p \in DOMAIN Filtered : Filtered[p] = i
         /\ \A p, q \in DOMAIN Filtered : p < q => Filtered[p] < Filtered[q]
<1>1. notices \in Seq(Kinds)
  BY DEF ListTypeOK
<1>2. Len(notices) \in Nat /\ DOMAIN notices = 1 .. Len(notices)
  BY <1>1
<1>3. Passing \in SUBSET (1 .. Len(notices))
  BY <1>2 DEF Passing
<1>4. Filtered = Ascending(Passing)
  BY DEF Filtered
<1>5. /\ Cardinality(Passing) \in Nat /\ DOMAIN Filtered = 1 .. Cardinality(Passing)
      /\ \A p \in 1 .. Cardinality(Passing) : Filtered[p] \in Passing
      /\ \A i \in Passing : \E p \in 1 .. Cardinality(Passing) : Filtered[p] = i
      /\ \A p, q \in 1 .. Cardinality(Passing) : p < q => Filtered[p] < Filtered[q]
  BY <1>2, <1>3, <1>4, PlacesInOrder
<1> QED
  BY <1>2, <1>3, <1>5

LEMMA LoopKeeps ==
  ASSUME ListTypeOK
  PROVE  Meaningful(Filtered) \in Seq(Shapes) /\ GoodItems(Meaningful(Filtered), Passing)
<1> DEFINE N == Cardinality(Passing)
           L == Filtered
           Seen(n) == {L[p] : p \in 1 .. n}
           Bad == {n \in 0 .. N : ~ FoldInv(After(L, n), Seen(n))}
<1>1. /\ Passing \in SUBSET (1 .. Len(notices)) /\ Len(notices) \in Nat
      /\ DOMAIN notices = 1 .. Len(notices) /\ N \in Nat
      /\ DOMAIN L = 1 .. N
      /\ \A p \in DOMAIN L : L[p] \in Passing
      /\ \A i \in Passing : \E p \in DOMAIN L : L[p] = i
      /\ \A p, q \in DOMAIN L : p < q => L[p] < L[q]
  BY FilteredRows
<1>0. \A i \in Passing : i \in Nat \ {0} /\ i \in DOMAIN notices
  BY <1>1
<1> HIDE DEF L, N
<1>2. /\ Meaningful(L) = After(L, N).items
      /\ After(L, 0) = NothingYet
      /\ \A n \in 1 .. N : After(L, n) = Step(After(L, n - 1), L[n])
  BY <1>1, FoldSteps
<1>3. FoldInv(After(L, 0), Seen(0))
  <2>1. Seen(0) = {}
    OBVIOUS
  <2> QED
    BY <1>2, <2>1, FoldStarts
<1>4. ASSUME NEW n \in 1 .. N, FoldInv(After(L, n - 1), Seen(n - 1))
      PROVE  FoldInv(After(L, n), Seen(n))
  <2>1. n \in Nat /\ n - 1 \in Nat
    BY <1>1
  <2>2. Seen(n - 1) \cup {L[n]} = Seen(n)
    <3>1. \A p \in 1 .. n : p \in 1 .. (n - 1) \/ p = n
      OBVIOUS
    <3>2. \A p \in 1 .. (n - 1) : p \in 1 .. n
      OBVIOUS
    <3>3. n \in 1 .. n
      OBVIOUS
    <3> QED
      BY <3>1, <3>2, <3>3
  <2>3. \A p \in 1 .. (n - 1) : L[p] < L[n] /\ L[p] \in Nat
    <3>1. \A p \in 1 .. (n - 1) : p \in 1 .. N /\ p < n
      BY <1>1
    <3> QED
      BY <1>0, <1>1, <3>1
  <2>4. Seen(n - 1) \in SUBSET Nat /\ \A j \in Seen(n - 1) : j < L[n]
    BY <2>3
  <2>5. L[n] \in Nat \ {0} /\ L[n] \in DOMAIN notices
    <3>1. L[n] \in Passing
      BY <1>1
    <3> QED
      BY <1>0, <3>1
  <2> DEFINE S == Seen(n - 1)
             a == After(L, n - 1)
  <2> HIDE DEF Seen, S, a
  <2>6. FoldInv(Step(a, L[n]), S \cup {L[n]})
    BY <1>4, <2>4, <2>5, StepKeeps DEF S, a
  <2> QED
    BY <1>2, <2>2, <2>6 DEF S, a
<1>5. Bad = {}
  <2> SUFFICES ASSUME Bad # {} PROVE FALSE
    OBVIOUS
  <2>1. PICK m \in Bad : \A n \in Bad : m <= n
    <3>1. Bad \in SUBSET Nat
      BY <1>1
    <3> HIDE DEF Bad
    <3> QED
      BY <3>1, LeastElement
  <2>2. m \in 0 .. N /\ ~ FoldInv(After(L, m), Seen(m))
    OBVIOUS
  <2>3. m # 0
    <3> HIDE DEF Seen
    <3> QED
      BY <1>3, <2>2
  <2>4. m \in 1 .. N /\ m - 1 \in 0 .. N /\ ~ (m <= m - 1)
    BY <1>1, <2>2, <2>3
  <2>5. m - 1 \notin Bad
    <3> HIDE DEF Bad
    <3> QED
      BY <2>1, <2>4
  <2>6. FoldInv(After(L, m - 1), Seen(m - 1))
    <3> HIDE DEF Seen
    <3> QED
      BY <2>4, <2>5
  <2> HIDE DEF Bad, Seen
  <2> QED
    BY <1>4, <2>2, <2>4, <2>6
<1>6. FoldInv(After(L, N), Seen(N))
  <2>1. N \in 0 .. N
    BY <1>1
  <2> HIDE DEF Seen
  <2> QED
    BY <1>5, <2>1
<1>7. Seen(N) = Passing
  BY <1>1
<1>8. After(L, N).items \in Seq(Shapes) /\ GoodItems(After(L, N).items, Passing)
  <2> HIDE DEF Seen, Shapes, Episodes
  <2> QED
    BY <1>6, <1>7 DEF FoldInv, States
<1> QED
  BY <1>2, <1>8 DEF L

LEMMA PlainIsGood ==
  ASSUME ListTypeOK
  PROVE  Plain(Filtered) \in Seq(Shapes) /\ GoodItems(Plain(Filtered), Passing)
<1> DEFINE N == Cardinality(Passing)
           L == Filtered
           t == Plain(L)
<1>1. /\ N \in Nat /\ DOMAIN L = 1 .. N
      /\ \A p \in DOMAIN L : L[p] \in Passing /\ L[p] \in Nat
      /\ \A i \in Passing : \E p \in DOMAIN L : L[p] = i
      /\ \A p, q \in DOMAIN L : p < q => L[p] < L[q]
  BY FilteredRows
<1> HIDE DEF L, N
<1>2. DOMAIN t = 1 .. N /\ \A n \in 1 .. N : t[n] = Single(L[n])
  BY <1>1 DEF Plain
<1>3. t \in Seq(Shapes)
  <2>1. t \in [1 .. N -> Shapes]
    <3>1. \A n \in 1 .. N : Single(L[n]) \in Shapes
      BY <1>1, ShapesOfOne
    <3> HIDE DEF Shapes
    <3> QED
      BY <1>1, <3>1 DEF Plain
  <2> HIDE DEF t, Shapes
  <2> QED
    BY <1>1, <2>1, SeqDef
<1> HIDE DEF t
<1>4. ASSUME NEW n \in 1 .. N
      PROVE  t[n].rows = {L[n]} /\ t[n].kind = "notification" /\ L[n] \in Passing
  <2>1. L[n] \in Nat /\ L[n] \in Passing
    BY <1>1
  <2>2. Single(L[n]).rows = {L[n]} /\ Single(L[n]).kind = "notification"
    BY <2>1, ShapesOfOne
  <2> QED
    BY <1>2, <2>1, <2>2
<1>5. \A m, n \in 1 .. N : m # n => L[m] # L[n]
  <2> SUFFICES ASSUME NEW m \in 1 .. N, NEW n \in 1 .. N, m # n PROVE L[m] # L[n]
    OBVIOUS
  <2>1. m < n \/ n < m
    OBVIOUS
  <2>2. L[m] \in Nat /\ L[n] \in Nat
    BY <1>1
  <2> QED
    BY <1>1, <2>1, <2>2
<1>6. Partition(t, Passing)
  <2>1. \A n \in DOMAIN t : t[n].rows # {} /\ t[n].rows \subseteq Passing
    BY <1>2, <1>4
  <2>2. \A j \in Passing : \E n \in DOMAIN t : j \in t[n].rows
    BY <1>1, <1>2, <1>4
  <2>3. \A m, n \in DOMAIN t : m # n => t[m].rows \cap t[n].rows = {}
    BY <1>2, <1>4, <1>5
  <2> QED
    BY <2>1, <2>2, <2>3 DEF Partition
<1>7. Honest(t, Passing)
  BY <1>1, <1>2 DEF Honest
<1>8. DistinctKeys(t)
  BY <1>2, <1>4 DEF DistinctKeys
<1> QED
  BY <1>3, <1>6, <1>7, <1>8 DEF GoodItems, t, L

-----------------------------------------------------------------------------
(***************************************************************************)
(* Sorting and the executions filter.                                      *)
(***************************************************************************)

LEMMA LatestRow ==
  ASSUME NEW M \in Nat, NEW x, x.rows \in SUBSET (1 .. M), x.rows # {}
  PROVE  Latest(x) \in x.rows /\ \A j \in x.rows : j <= Latest(x)
<1> DEFINE S == x.rows
<1>1. S \in SUBSET (0 .. M) /\ S # {}
  OBVIOUS
<1>2. \E i \in S : \A j \in S : i >= j
  <2> HIDE DEF S
  <2> QED
    BY <1>1, GreatestElement
<1>3. S \in SUBSET Int
  OBVIOUS
<1>4. \E i \in S : \A j \in S : j <= i
  BY <1>2, <1>3
<1> QED
  BY <1>4 DEF Latest

\* u has the items of t in the order o.
Reorders(o, t, u) ==
  /\ DOMAIN u = DOMAIN t
  /\ \A p \in DOMAIN t : o[p] \in DOMAIN t /\ u[p] = t[o[p]]
  /\ \A n \in DOMAIN t : \E p \in DOMAIN t : o[p] = n
  /\ \A p, q \in DOMAIN t : p # q => o[p] # o[q]

LEMMA ReorderedIsGood ==
  ASSUME NEW seen, NEW t, GoodItems(t, seen), NEW u, NEW o, Reorders(o, t, u)
  PROVE  GoodItems(u, seen)
<1>1. ASSUME NEW p \in DOMAIN u
      PROVE  o[p] \in DOMAIN t /\ u[p] = t[o[p]] /\ p \in DOMAIN t
  BY DEF Reorders
<1>2. ASSUME NEW n \in DOMAIN t PROVE \E p \in DOMAIN u : u[p] = t[n]
  <2>1. PICK p \in DOMAIN t : o[p] = n
    BY DEF Reorders
  <2>2. p \in DOMAIN u /\ u[p] = t[o[p]]
    BY DEF Reorders
  <2> QED
    BY <2>1, <2>2
<1>3. ASSUME NEW p \in DOMAIN u, NEW q \in DOMAIN u, p # q PROVE o[p] # o[q]
  BY <1>3 DEF Reorders
<1>4. Partition(u, seen)
  <2>1. ASSUME NEW p \in DOMAIN u PROVE u[p].rows # {} /\ u[p].rows \subseteq seen
    BY <1>1 DEF GoodItems, Partition
  <2>2. ASSUME NEW j \in seen PROVE \E p \in DOMAIN u : j \in u[p].rows
    <3>1. PICK m \in DOMAIN t : j \in t[m].rows
      BY DEF GoodItems, Partition
    <3> QED
      BY <1>2, <3>1
  <2>3. ASSUME NEW p \in DOMAIN u, NEW q \in DOMAIN u, p # q
        PROVE  u[p].rows \cap u[q].rows = {}
    BY <1>1, <1>3, <2>3 DEF GoodItems, Partition
  <2> QED
    BY <2>1, <2>2, <2>3 DEF Partition
<1>5. ASSUME NEW p \in DOMAIN u
      PROVE  (\E j \in seen : u[p] = Single(j)) \/ Repetition(u, p, seen)
  <2>1. PICK n \in DOMAIN t : u[p] = t[n]
    BY <1>1
  <2>2. CASE \E j \in seen : t[n] = Single(j)
    BY <2>1, <2>2
  <2>3. CASE Repetition(t, n, seen)
    <3>1. \E q \in DOMAIN u : u[q] = Single(u[p].mei)
      <4>1. PICK m \in DOMAIN t : t[m] = Single(t[n].mei)
        BY <2>3 DEF Repetition
      <4> QED
        BY <1>2, <2>1, <4>1
    <3> QED
      BY <2>1, <2>3, <3>1 DEF Repetition
  <2> QED
    BY <2>2, <2>3 DEF GoodItems, Honest
<1>6. Honest(u, seen)
  BY <1>5 DEF Honest
<1>7. ASSUME NEW p \in DOMAIN u, NEW q \in DOMAIN u, p # q,
             u[p].kind = "mei-group", u[q].kind = "mei-group"
      PROVE  u[p].mei # u[q].mei
  BY <1>1, <1>3, <1>7 DEF GoodItems, DistinctKeys
<1>8. DistinctKeys(u)
  BY <1>7 DEF DistinctKeys
<1> QED
  BY <1>4, <1>6, <1>8 DEF GoodItems

LEMMA SortedIsGood ==
  ASSUME NEW M \in Nat, NEW seen \in SUBSET (1 .. M), NEW t \in Seq(Shapes), GoodItems(t, seen)
  PROVE  GoodItems(NewestFirst(t), seen)
<1> DEFINE P == DOMAIN t
           key == [n \in P |-> -Latest(t[n])]
           o == InOrder(P, key)
           u == NewestFirst(t)
<1>1. P = 1 .. Len(t) /\ Len(t) \in Nat
  <2> HIDE DEF Shapes
  <2> QED
    OBVIOUS
<1>2. \A n \in P : Latest(t[n]) \in t[n].rows
  <2> SUFFICES ASSUME NEW n \in P PROVE Latest(t[n]) \in t[n].rows
    OBVIOUS
  <2>1. t[n].rows # {} /\ t[n].rows \in SUBSET (1 .. M)
    BY DEF GoodItems, Partition
  <2> QED
    BY <2>1, LatestRow
<1>3. \A n \in P : Latest(t[n]) \in Nat
  <2>1. \A n \in P : Latest(t[n]) \in seen
    BY <1>2 DEF GoodItems, Partition
  <2>2. \A j \in seen : j \in Nat
    OBVIOUS
  <2> QED
    BY <2>1, <2>2
<1>4. key \in [P -> Int] /\ \A m, n \in P : key[m] = key[n] => m = n
  <2>1. \A m, n \in P : m # n => Latest(t[m]) # Latest(t[n])
    BY <1>2 DEF GoodItems, Partition
  <2>2. \A m, n \in P : key[m] = key[n] => Latest(t[m]) = Latest(t[n])
    BY <1>3
  <2> QED
    BY <1>3, <2>1, <2>2
<1>5. IsFiniteSet(P) /\ Cardinality(P) = Len(t)
  <2> DEFINE L == Len(t)
  <2>1. L \in Nat /\ P = 1 .. L
    BY <1>1
  <2> HIDE DEF L, P
  <2>2. IsFiniteSet(1 .. L) /\ Cardinality(1 .. L) = L
    BY <2>1, FS_Interval
  <2> QED
    BY <2>1, <2>2 DEF L
<1>6. u = [p \in P |-> t[o[p]]]
  BY DEF NewestFirst
<1> HIDE DEF key, P, u
<1>7. /\ \A p \in P : o[p] \in P
      /\ \A n \in P : \E p \in P : o[p] = n
      /\ \A p, q \in P : p < q => key[o[p]] < key[o[q]]
  <2>1. Sorts(o, P, key)
    BY <1>4, <1>5, InOrderSorts
  <2> HIDE DEF o
  <2> QED
    BY <1>1, <1>5, <2>1 DEF Sorts
<1> HIDE DEF o
<1>8. \A p, q \in P : p # q => o[p] # o[q]
  <2> SUFFICES ASSUME NEW p \in P, NEW q \in P, p # q, o[p] = o[q] PROVE FALSE
    OBVIOUS
  <2>1. p < q \/ q < p
    BY <1>1
  <2>2. key[o[p]] < key[o[p]]
    BY <1>7, <2>1
  <2>3. key[o[p]] \in Int
    BY <1>4, <1>7
  <2> QED
    BY <2>2, <2>3
<1>9. DOMAIN u = DOMAIN t /\ \A p \in DOMAIN t : o[p] \in DOMAIN t /\ u[p] = t[o[p]]
  BY <1>6, <1>7 DEF P
<1>10. \A n \in DOMAIN t : \E p \in DOMAIN t : o[p] = n
  BY <1>7 DEF P
<1>11. \A p, q \in DOMAIN t : p # q => o[p] # o[q]
  BY <1>8 DEF P
<1>12. GoodItems(u, seen)
  <2>1. Reorders(o, t, u)
    BY <1>9, <1>10, <1>11 DEF Reorders
  <2> QED
    BY <2>1, ReorderedIsGood
<1> QED
  BY <1>12 DEF u

\* What the page shows, but for the executions filter.
LEMMA SortedItems ==
  ASSUME ListTypeOK
  PROVE  GoodItems(NewestFirst(IF view = "meaningful" THEN Meaningful(Filtered)
                               ELSE Plain(Filtered)), Passing)
<1> DEFINE t == IF view = "meaningful" THEN Meaningful(Filtered) ELSE Plain(Filtered)
<1>1. t \in Seq(Shapes) /\ GoodItems(t, Passing)
  BY LoopKeeps, PlainIsGood
<1>2. Passing \in SUBSET (1 .. Len(notices)) /\ Len(notices) \in Nat
  BY FilteredRows
<1> HIDE DEF t
<1>3. GoodItems(NewestFirst(t), Passing)
  BY <1>1, <1>2, SortedIsGood
<1> QED
  BY <1>3 DEF t

\* Under the executions filter nothing is folded.
LEMMA ExecutionsAreSingle ==
  ASSUME filter = "executions", NEW t, GoodItems(t, Passing), NEW n \in DOMAIN t
  PROVE  \E j \in Passing : t[n] = Single(j)
<1> SUFFICES ASSUME Repetition(t, n, Passing) PROVE FALSE
  BY DEF GoodItems, Honest
<1>1. PICK j \in t[n].rows : notices[j].type = "MEI_SELECTED"
  BY DEF GoodItems, Partition, Repetition, Repeats
<1>2. j \in Passing
  BY DEF GoodItems, Partition
<1>3. Passes(notices[j], "executions")
  BY <1>2 DEF Passing
<1>4. Category(notices[j]) = "executions"
  BY <1>3 DEF Passes
<1> QED
  BY <1>1, <1>4 DEF Category, Failures, Risks, Recommendations, Executions, Moves

\* Events of one execution have the same newest event, which stands for them.
LEMMA NewestOfExecution ==
  ASSUME ListTypeOK, NEW j \in Passing
  PROVE  \E i \in SameExecution(j) : \A k \in SameExecution(j) : k <= i
<1> DEFINE S == SameExecution(j)
           M == Len(notices)
<1>1. Passing \in SUBSET (1 .. M) /\ M \in Nat
  BY FilteredRows
<1>2. S \subseteq Passing /\ j \in S
  BY DEF SameExecution
<1> HIDE DEF S, M
<1>3. S \in SUBSET (0 .. M) /\ S # {} /\ S \in SUBSET Int
  BY <1>1, <1>2
<1>4. \E i \in S : \A k \in S : i >= k
  BY <1>1, <1>3, GreatestElement
<1> QED
  BY <1>3, <1>4 DEF S

\* Item p of r stands for the execution of row[p], the newest of its events.
Grouped(row, r) ==
  /\ \A p \in DOMAIN r : /\ row[p] \in Passing /\ OpensGroup(row[p])
                         /\ r[p] = ExecutionItem(row[p])
  /\ \A j \in Passing : OpensGroup(j) => \E p \in DOMAIN r : row[p] = j
  /\ \A p, q \in DOMAIN r : row[p] = row[q] => p = q

LEMMA ExecutionRows ==
  ASSUME NEW j \in Passing
  PROVE  /\ j \in ExecutionItem(j).rows /\ ExecutionItem(j).rows \subseteq Passing
         /\ ExecutionItem(j).kind # "mei-group"
         /\ \A i \in ExecutionItem(j).rows : notices[i].execution = notices[j].execution
         /\ notices[j].execution = NoIdentity => ExecutionItem(j).rows = {j}
         /\ notices[j].execution # NoIdentity => ExecutionItem(j).rows = SameExecution(j)
BY DEF ExecutionItem, SameExecution, Single

LEMMA GroupedIsPartition ==
  ASSUME ListTypeOK, NEW r, NEW row, Grouped(row, r)
  PROVE  Partition(r, Passing) /\ \A p \in DOMAIN r : r[p].kind # "mei-group"
<1>1. ASSUME NEW p \in DOMAIN r
      PROVE  row[p] \in Passing /\ OpensGroup(row[p]) /\ r[p] = ExecutionItem(row[p])
  BY DEF Grouped
<1>2. \A p \in DOMAIN r : /\ r[p].rows # {} /\ r[p].rows \subseteq Passing
                          /\ r[p].kind # "mei-group"
  BY <1>1, ExecutionRows
<1>3. ASSUME NEW j \in Passing PROVE \E p \in DOMAIN r : j \in r[p].rows
  <2>1. CASE notices[j].execution = NoIdentity
    <3>1. PICK p \in DOMAIN r : row[p] = j
      BY <2>1 DEF Grouped, OpensGroup
    <3> QED
      BY <1>1, <3>1, ExecutionRows
  <2>2. CASE notices[j].execution # NoIdentity
    <3>1. PICK i \in SameExecution(j) : \A k \in SameExecution(j) : k <= i
      BY NewestOfExecution
    <3>2. i \in Passing /\ notices[i].execution = notices[j].execution
      BY DEF SameExecution
    <3>3. SameExecution(i) = SameExecution(j)
      BY <3>2 DEF SameExecution
    <3>4. OpensGroup(i)
      BY <3>1, <3>3 DEF OpensGroup
    <3>5. PICK p \in DOMAIN r : row[p] = i
      BY <3>2, <3>4 DEF Grouped
    <3>6. r[p].rows = SameExecution(j)
      BY <1>1, <2>2, <3>2, <3>3, <3>5, ExecutionRows
    <3> QED
      BY <3>6 DEF SameExecution
  <2> QED
    BY <2>1, <2>2
<1>4. ASSUME NEW p \in DOMAIN r, NEW q \in DOMAIN r, NEW j \in r[p].rows, j \in r[q].rows
      PROVE  p = q
  <2> DEFINE a == row[p]
             b == row[q]
  <2>1. /\ a \in Passing /\ OpensGroup(a) /\ r[p] = ExecutionItem(a)
        /\ b \in Passing /\ OpensGroup(b) /\ r[q] = ExecutionItem(b)
    BY <1>1
  <2>2. notices[a].execution = notices[b].execution
    BY <1>4, <2>1, ExecutionRows
  <2>3. CASE notices[a].execution = NoIdentity
    <3>1. a = b
      BY <1>4, <2>1, <2>2, <2>3, ExecutionRows
    <3> QED
      BY <3>1 DEF Grouped
  <2>4. CASE notices[a].execution # NoIdentity
    <3>1. a \in SameExecution(b) /\ b \in SameExecution(a)
      BY <2>1, <2>2 DEF SameExecution
    <3>2. a <= b /\ b <= a
      BY <2>1, <2>2, <2>4, <3>1 DEF OpensGroup
    <3>3. a \in Nat /\ b \in Nat
      BY <2>1, FilteredRows
    <3>4. a = b
      BY <3>2, <3>3
    <3> QED
      BY <3>4 DEF Grouped
  <2> QED
    BY <2>3, <2>4
<1> QED
  BY <1>2, <1>3, <1>4 DEF Partition

LEMMA ExecutionsGrouped ==
  ASSUME ListTypeOK, NEW t, NEW L \in Nat, DOMAIN t = 1 .. L, GoodItems(t, Passing),
         \A n \in DOMAIN t : \E j \in Passing : t[n] = Single(j)
  PROVE  \E row : Grouped(row, GroupExecutions(t))
<1> DEFINE of == [n \in DOMAIN t |-> Latest(t[n])]
           P == {n \in DOMAIN t : OpensGroup(Latest(t[n]))}
           o == Ascending(P)
           r == GroupExecutions(t)
           row == [p \in DOMAIN o |-> of[o[p]]]
<1>1. ASSUME NEW n \in DOMAIN t
      PROVE  of[n] \in Passing /\ t[n] = Single(of[n]) /\ t[n].rows = {of[n]}
  <2>1. PICK j \in Passing : t[n] = Single(j)
    OBVIOUS
  <2>2. t[n].rows = {j}
    BY <2>1 DEF Single
  <2>3. j <= j
    BY FilteredRows
  <2>4. Latest(t[n]) = j
    BY <2>2, <2>3 DEF Latest
  <2> QED
    BY <2>1, <2>2, <2>4
<1>2. P = {n \in DOMAIN t : OpensGroup(of[n])}
  OBVIOUS
<1>3. \A m, n \in DOMAIN t : of[m] = of[n] => m = n
  BY <1>1 DEF GoodItems, Partition
<1>4. \A j \in Passing : \E n \in DOMAIN t : of[n] = j
  BY <1>1 DEF GoodItems, Partition
<1>5. P \in SUBSET (1 .. L)
  OBVIOUS
<1>6. o = Ascending(P)
  OBVIOUS
<1>7. r = [p \in DOMAIN o |-> ExecutionItem(Latest(t[o[p]]))]
  BY DEF GroupExecutions
<1> HIDE DEF r, o
<1> DEFINE C == Cardinality(P)
<1>8. /\ C \in Nat /\ DOMAIN o = 1 .. C
      /\ \A p \in 1 .. C : o[p] \in P
      /\ \A n \in P : \E p \in 1 .. C : o[p] = n
      /\ \A p, q \in 1 .. C : p < q => o[p] < o[q]
  <2> HIDE DEF P
  <2> QED
    BY <1>5, <1>6, PlacesInOrder
<1> HIDE DEF C
<1>9. \A p, q \in 1 .. C : o[p] = o[q] => p = q
  <2> SUFFICES ASSUME NEW p \in 1 .. C, NEW q \in 1 .. C, p # q, o[p] = o[q] PROVE FALSE
    OBVIOUS
  <2>1. p < q \/ q < p
    BY <1>8
  <2>2. o[p] < o[p]
    BY <1>8, <2>1
  <2>3. o[p] \in Nat
    BY <1>5, <1>8
  <2> QED
    BY <2>2, <2>3
<1>10. DOMAIN r = 1 .. C
  BY <1>7, <1>8
<1>11. ASSUME NEW p \in 1 .. C
       PROVE  /\ o[p] \in DOMAIN t /\ row[p] = of[o[p]] /\ row[p] \in Passing
              /\ OpensGroup(row[p]) /\ r[p] = ExecutionItem(row[p])
  <2>1. o[p] \in P /\ p \in DOMAIN o
    BY <1>8
  <2>2. o[p] \in DOMAIN t /\ of[o[p]] = Latest(t[o[p]]) /\ OpensGroup(of[o[p]])
    BY <2>1
  <2> QED
    BY <1>1, <1>7, <2>1, <2>2
<1>12. ASSUME NEW j \in Passing, OpensGroup(j) PROVE \E p \in 1 .. C : row[p] = j
  <2>1. PICK n \in DOMAIN t : of[n] = j
    BY <1>4
  <2>2. n \in P
    BY <1>2, <1>12, <2>1
  <2>3. PICK p \in 1 .. C : o[p] = n
    BY <1>8, <2>2
  <2> QED
    BY <1>11, <2>1, <2>3
<1>13. ASSUME NEW p \in 1 .. C, NEW q \in 1 .. C, row[p] = row[q] PROVE p = q
  BY <1>3, <1>9, <1>11, <1>13
<1> HIDE DEF row
<1>14. Grouped(row, r)
  BY <1>10, <1>11, <1>12, <1>13 DEF Grouped
<1> QED
  BY <1>14 DEF r

-----------------------------------------------------------------------------
(***************************************************************************)
(* The theorem.                                                            *)
(***************************************************************************)

\* Rows without an episode of their own, and one episode.
LEMMA OneEpisode ==
  ASSUME NEW all, \A i, j \in all : SameEpisode(i, j)
  PROVE  Cardinality({notices[i].episode : i \in all} \ {NoEpisode}) <= 1
<1> DEFINE X == {notices[i].episode : i \in all} \ {NoEpisode}
<1>1. \A x, y \in X : x = y
  BY DEF SameEpisode
<1>2. X = {} \/ \E x : X = {x}
  <2> HIDE DEF X
  <2> QED
    BY <1>1
<1> HIDE DEF X
<1>3. Cardinality(X) = 0 \/ Cardinality(X) = 1
  BY <1>2, FS_EmptySet, FS_Singleton
<1> QED
  BY <1>3 DEF X

\* Good items are what the property asks for.
LEMMA GoodIsHonest ==
  ASSUME ListTypeOK, filter # "executions", GoodItems(Items, Passing)
  PROVE  FoldingIsHonest
<1> DEFINE t == Items
<1>0. Partition(t, Passing) /\ Honest(t, Passing) /\ DistinctKeys(t)
  BY DEF GoodItems
<1>9. \A i \in Passing : i \in Nat \ {0}
  BY FilteredRows
<1>1. ASSUME NEW n \in DOMAIN t, t[n].kind = "mei-group" PROVE Repetition(t, n, Passing)
  BY <1>0, <1>1 DEF Honest, Single
<1>2. ASSUME NEW n \in DOMAIN t, t[n].kind # "mei-group" PROVE t[n].mei = None
  BY <1>0, <1>2 DEF Honest, Repetition, Single
<1>3. UNION {t[n].rows : n \in DOMAIN t} = Passing
  BY <1>0 DEF Partition
<1>4. ASSUME NEW m \in DOMAIN t, NEW n \in DOMAIN t, m # n
      PROVE  /\ t[m].rows \cap t[n].rows = {}
             /\ t[m].kind = "mei-group" => t[m].mei # t[n].mei
  <2>1. t[m].rows \cap t[n].rows = {}
    BY <1>0, <1>4 DEF Partition
  <2>2. ASSUME t[m].kind = "mei-group" PROVE t[m].mei # t[n].mei
    <3>1. CASE t[n].kind = "mei-group"
      BY <1>0, <1>4, <2>2, <3>1 DEF DistinctKeys
    <3>2. CASE t[n].kind # "mei-group"
      <4>1. t[m].mei \in Passing
        BY <1>1, <2>2 DEF Repetition
      <4> QED
        BY <1>9, <1>2, <3>2, <4>1 DEF None
    <3> QED
      BY <3>1, <3>2
  <2> QED
    BY <2>1, <2>2
<1>5. NothingHidden
  BY <1>3, <1>4 DEF NothingHidden
<1>6. ASSUME NEW n \in DOMAIN t, t[n].kind = "mei-group",
             NEW all, all = t[n].rows \cup {t[n].mei}
      PROVE  /\ \E m \in DOMAIN t : t[m] = Single(t[n].mei)
             /\ \A i \in t[n].rows : t[n].mei < i /\ ~Differs(notices[t[n].mei], notices[i])
             /\ Cardinality({notices[i].episode : i \in all} \ {NoEpisode}) <= 1
             /\ filter = "all" =>
                  ~ \E b \in DOMAIN notices : Moves(notices[b]) /\ \E i, j \in all : i < b /\ b < j
  <2> DEFINE m == t[n].mei
  <2>1. /\ m \in Passing
        /\ \E k \in DOMAIN t : t[k] = Single(m)
        /\ \A j \in t[n].rows : Repeats(m, j, Passing) /\ SameEpisode(m, j)
        /\ \A i, j \in t[n].rows : SameEpisode(i, j)
    BY <1>1, <1>6 DEF Repetition
  <2>2. t[n].rows \subseteq Passing
    BY <1>0 DEF Partition
  <2> HIDE DEF t, m
  <2>3. \A i, j \in all : SameEpisode(i, j)
    BY <1>6, <2>1 DEF SameEpisode, m
  <2>4. Cardinality({notices[i].episode : i \in all} \ {NoEpisode}) <= 1
    BY <2>3, OneEpisode
  <2>5. ASSUME filter = "all", NEW b \in DOMAIN notices, Moves(notices[b]),
               NEW i \in all, NEW j \in all, i < b, b < j
        PROVE  FALSE
    <3>1. b \in Passing
      BY <2>5 DEF Passing, Passes
    <3>2. i \in Nat /\ j \in Nat /\ b \in Nat /\ m \in Nat
      BY <1>9, <1>6, <2>1, <2>2, <3>1 DEF m
    <3>3. m <= i
      <4>1. i = m \/ Repeats(m, i, Passing)
        BY <1>6, <2>1 DEF m
      <4> QED
        BY <3>2, <4>1 DEF Repeats
    <3>4. m < b
      BY <2>5, <3>2, <3>3
    <3>5. j # m
      BY <2>5, <3>2, <3>4
    <3>6. Repeats(m, j, Passing)
      BY <1>6, <2>1, <3>5 DEF m
    <3> QED
      BY <2>5, <3>1, <3>4, <3>6 DEF Repeats
  <2> QED
    BY <2>1, <2>4, <2>5 DEF Repeats, m
<1>7. GroupsAreRepeats
  BY <1>6 DEF GroupsAreRepeats
<1> QED
  BY <1>5, <1>7 DEF FoldingIsHonest

LEMMA FoldingHolds == ListTypeOK => FoldingIsHonest
<1> SUFFICES ASSUME ListTypeOK PROVE FoldingIsHonest
  OBVIOUS
<1> DEFINE t == NewestFirst(IF view = "meaningful" THEN Meaningful(Filtered)
                            ELSE Plain(Filtered))
<1>1. GoodItems(t, Passing)
  BY SortedItems
<1>2. CASE filter # "executions"
  <2>1. Items = t
    BY <1>2 DEF Items
  <2> QED
    BY <1>1, <1>2, <2>1, GoodIsHonest
<1>3. CASE filter = "executions"
  <2>1. Items = GroupExecutions(t)
    BY <1>3 DEF Items
  <2>2. \E L \in Nat : DOMAIN t = 1 .. L
    <3> DEFINE u == IF view = "meaningful" THEN Meaningful(Filtered) ELSE Plain(Filtered)
    <3>1. u \in Seq(Shapes)
      BY LoopKeeps, PlainIsGood
    <3>2. DOMAIN t = DOMAIN u
      BY DEF NewestFirst
    <3> HIDE DEF u, Shapes
    <3>3. DOMAIN u = 1 .. Len(u) /\ Len(u) \in Nat
      BY <3>1
    <3> QED
      BY <3>2, <3>3
  <2> HIDE DEF t
  <2>3. PICK row : Grouped(row, GroupExecutions(t))
    BY <1>1, <1>3, <2>2, ExecutionsAreSingle, ExecutionsGrouped
  <2>4. Partition(Items, Passing) /\ \A p \in DOMAIN Items : Items[p].kind # "mei-group"
    BY <2>1, <2>3, GroupedIsPartition
  <2>5. UNION {Items[n].rows : n \in DOMAIN Items} = Passing
    BY <2>4 DEF Partition
  <2>6. NothingHidden
    BY <2>4, <2>5 DEF NothingHidden, Partition
  <2>7. GroupsAreRepeats
    BY <2>4 DEF GroupsAreRepeats
  <2> QED
    BY <2>6, <2>7 DEF FoldingIsHonest
<1> QED
  BY <1>2, <1>3

LEMMA ListTypes == ListSpec => []ListTypeOK
<1>1. ListInit => ListTypeOK
  BY ListBounds DEF ListInit, ListTypeOK
<1>2. ListTypeOK /\ [ListNext]_listVars => ListTypeOK'
  BY ListBounds DEF ListTypeOK, ListNext, listVars, RowArrives, SelectFilter, SelectView, LoadMore
<1> QED
  BY <1>1, <1>2, PTL DEF ListSpec

\* The meaningful view hides nothing and folds only repetitions of one displayed
\* row, whatever rows there are, under every filter and in both views
\* (buildNotificationItems).
THEOREM FoldingHidesNothing == ListSpec => []FoldingIsHonest
BY ListTypes, FoldingHolds, PTL
=============================================================================
