------------------------- MODULE ServicesProofs ---------------------------
(***************************************************************************)
(* The three statements the system makes of something outside it, and all  *)
(* services side by side.                                                  *)
(*                                                                         *)
(* A position is that of one block of the chain (AaveReading), the worker  *)
(* is there (WorkerProcess), and this is the advice about that position    *)
(* (ProductPages).  Each is composed of reads or messages that are of      *)
(* different moments, for any number of blocks, reserves, processes, beats *)
(* and snapshots.                                                          *)
(*                                                                         *)
(* A position: a block that the chain has dropped never comes back, so a   *)
(* hash that is found again at the end was there all the time.  A beat: it *)
(* was sent by a process that was there, so no beat, on its way or in the  *)
(* row, is younger than the last moment at which a process was.  Advice:   *)
(* the newest snapshot only gets newer, and no decision is newest before   *)
(* its snapshot is there; so one about the snapshot that was read was the  *)
(* newest while that was, or was late for it when it was written.          *)
(*                                                                         *)
(* Side by side: a behaviour of Services is one of every service, whose    *)
(* theorems, here, in AccessProofs and in NotificationProofs, it therefore *)
(* inherits.                                                               *)
(***************************************************************************)
EXTENDS Services, AccessProofs, NotificationProofs

-----------------------------------------------------------------------------
(***************************************************************************)
(* AaveReading.                                                            *)
(***************************************************************************)

KnownBlocks == (\A n \in DOMAIN canon : canon[n] <= mined) /\ reader.hash <= mined

SeenOnOneBranch ==
  /\ Running /\ There(reader.at) /\ canon[reader.at] = reader.hash => reader.seen \subseteq {reader.hash}
  /\ Running /\ reader.left # Beside => reader.seen # {}

ReadingInv == ReadingTypeOK /\ KnownBlocks /\ SeenOnOneBranch /\ PositionIsOfOneBlock

Readers == [step : {"none", "network", "reads"}, at : Nat, hash : Blocks \cup {NoBlock},
            left : SUBSET Beside, seen : SUBSET Blocks]

LEMMA InitReading == ReadingInit => ReadingInv
<1> SUFFICES ASSUME ReadingInit PROVE ReadingInv
    OBVIOUS
<1>1. 1 \in Blocks /\ canon = <<1>> /\ mined = 1
  BY ReadingBounds DEF ReadingInit, Blocks
<1>2. canon \in Seq(Blocks) /\ Len(canon) = 1 /\ canon[1] = 1 /\ DOMAIN canon = {1}
  BY <1>1
<1>3. ReadingTypeOK
  BY <1>1, <1>2 DEF ReadingInit, ReadingTypeOK, NoReader, NoPosition, Positions, Untaken, Stages, NoBlock
<1> QED
  BY <1>1, <1>2, <1>3 DEF ReadingInit, ReadingInv, KnownBlocks, SeenOnOneBranch, Running,
     PositionIsOfOneBlock, NoReader, NoBlock

\* What is dropped does not come back: new blocks are new.
LEMMA MiningKept ==
  ASSUME ReadingInv, NEW keep \in 0 .. Len(canon), Mine(keep)
  PROVE  ReadingInv'
<1>1. /\ mined \in Nat /\ mined' = mined + 1 /\ mined' \in Blocks
      /\ UNCHANGED <<reader, reading, position, saved>>
  BY ReadingBounds DEF Mine, ReadingInv, ReadingTypeOK, Blocks
<1>2. canon \in Seq(Blocks) /\ canon' = Append(SubSeq(canon, 1, keep), mined + 1)
  BY DEF Mine, ReadingInv, ReadingTypeOK
<1>3. /\ SubSeq(canon, 1, keep) \in Seq(Blocks) /\ Len(SubSeq(canon, 1, keep)) = keep
      /\ \A n \in 1 .. keep : SubSeq(canon, 1, keep)[n] = canon[n] /\ n \in DOMAIN canon
  BY <1>2
<1>4. canon' \in Seq(Blocks) /\ Len(canon') = keep + 1
  BY <1>1, <1>2, <1>3
<1>5. /\ DOMAIN canon' = 1 .. (keep + 1) /\ canon'[keep + 1] = mined + 1
      /\ \A n \in 1 .. keep : n \in DOMAIN canon /\ canon'[n] = canon[n]
  BY <1>1, <1>2, <1>3, <1>4
<1>6. ReadingTypeOK'
  BY <1>1, <1>4 DEF ReadingInv, ReadingTypeOK
<1>7. reader.hash <= mined /\ reader.hash \in Nat /\ \A n \in DOMAIN canon : canon[n] \in Nat /\ canon[n] <= mined
  <2>1. \A n \in DOMAIN canon : canon[n] \in Blocks
    BY <1>2
  <2>2. Blocks \subseteq Nat /\ NoBlock \in Nat
    BY DEF Blocks, NoBlock
  <2> QED
    BY <2>1, <2>2 DEF ReadingInv, ReadingTypeOK, KnownBlocks
<1>8. KnownBlocks'
  BY <1>1, <1>5, <1>7 DEF KnownBlocks
<1>9. There(reader.at)' /\ canon'[reader.at] = reader.hash
        => There(reader.at) /\ canon[reader.at] = reader.hash
  BY <1>1, <1>5, <1>7 DEF There
<1>10. SeenOnOneBranch'
  BY <1>1, <1>9 DEF ReadingInv, SeenOnOneBranch, Running
<1> QED
  BY <1>1, <1>6, <1>8, <1>10 DEF ReadingInv, PositionIsOfOneBlock

LEMMA AskingKept == ReadingInv /\ Ask => ReadingInv'
<1> SUFFICES ASSUME ReadingInv, Ask PROVE ReadingInv'
    OBVIOUS
<1>1. /\ reader' = [step |-> "network", at |-> Len(canon), hash |-> canon[Len(canon)],
                    left |-> Beside, seen |-> {}]
      /\ reading' = Untaken /\ position' = NoPosition /\ UNCHANGED <<canon, mined, saved>>
  BY DEF Ask
<1>2. Len(canon) \in Nat /\ Len(canon) \in DOMAIN canon /\ canon[Len(canon)] \in Blocks
  BY DEF ReadingInv, ReadingTypeOK
<1>3. ReadingTypeOK'
  BY <1>1, <1>2 DEF ReadingInv, ReadingTypeOK, Untaken, Stages, NoPosition, NoBlock, Positions
<1>4. KnownBlocks' /\ SeenOnOneBranch'
  BY <1>1, <1>2 DEF ReadingInv, KnownBlocks, SeenOnOneBranch
<1> QED
  BY <1>1, <1>3, <1>4 DEF ReadingInv, PositionIsOfOneBlock

\* Every answer is of the block that is at that height when it is given.
LEMMA AnsweringKept ==
  ASSUME ReadingInv, Running, There(reader.at), reader'.seen = Saw,
         reader' \in Readers, reader'.at = reader.at, reader'.hash = reader.hash,
         reading' \in [Reserves -> Stages], UNCHANGED <<canon, mined, position, saved>>
  PROVE  ReadingInv'
<1>1. ReadingTypeOK' /\ KnownBlocks' /\ PositionIsOfOneBlock'
  BY DEF ReadingInv, ReadingTypeOK, KnownBlocks, PositionIsOfOneBlock, Readers
<1>2. SeenOnOneBranch'
  BY DEF ReadingInv, SeenOnOneBranch, Saw
<1> QED
  BY <1>1, <1>2 DEF ReadingInv

LEMMA SawBlocks ==
  ASSUME ReadingInv, There(reader.at)
  PROVE  Saw \in SUBSET Blocks
BY DEF ReadingInv, ReadingTypeOK, There, Saw

LEMMA ReadingStepKept ==
  ASSUME ReadingInv, \/ VerifyNetwork \/ ReadFails \/ SaveSnapshot
                     \/ (\E what \in Beside : ReadBeside(what))
                     \/ (\E r \in Reserves : TakeReserve(r) \/ ReadReserve(r))
  PROVE  ReadingInv'
<1> USE DEF ReadingInv
<1>1. CASE VerifyNetwork
  BY <1>1 DEF VerifyNetwork, ReadingTypeOK, KnownBlocks, SeenOnOneBranch, Running, There, PositionIsOfOneBlock
<1>2. CASE ReadFails
  <2>1. ReadingTypeOK'
    BY <1>2 DEF ReadFails, ReadingTypeOK, NoReader, NoBlock
  <2>2. KnownBlocks' /\ SeenOnOneBranch'
    BY <1>2 DEF ReadFails, ReadingTypeOK, KnownBlocks, SeenOnOneBranch, Running, NoReader, NoBlock, Blocks
  <2> QED
    BY <1>2, <2>1, <2>2 DEF ReadFails, PositionIsOfOneBlock
<1>3. CASE SaveSnapshot
  <2>1. NoPosition \in Positions
    BY DEF NoPosition, Positions
  <2> QED
    BY <1>3, <2>1 DEF SaveSnapshot, ReadingTypeOK, KnownBlocks, SeenOnOneBranch, Running, There, PositionIsOfOneBlock
<1>4. ASSUME NEW what \in Beside, ReadBeside(what) PROVE ReadingInv'
  <2>1. reader' \in Readers
    BY <1>4, SawBlocks DEF ReadBeside, ReadingTypeOK, Readers
  <2> QED
    BY <1>4, <2>1, AnsweringKept DEF ReadBeside, ReadingTypeOK, Running
<1>5. ASSUME NEW r \in Reserves, TakeReserve(r) PROVE ReadingInv'
  BY <1>5 DEF TakeReserve, ReadingTypeOK, Stages, KnownBlocks, SeenOnOneBranch, Running, There, PositionIsOfOneBlock
<1>6. ASSUME NEW r \in Reserves, ReadReserve(r) PROVE ReadingInv'
  <2>1. reader' \in Readers /\ reader'.seen = Saw /\ reader'.at = reader.at /\ reader'.hash = reader.hash
    BY <1>6, SawBlocks DEF ReadReserve, ReadingTypeOK, Readers
  <2>2. reading' \in [Reserves -> Stages]
    BY <1>6 DEF ReadReserve, ReadingTypeOK, Stages
  <2> QED
    BY <1>6, <2>1, <2>2, AnsweringKept DEF ReadReserve, Running
<1> QED
  BY <1>1, <1>2, <1>3, <1>4, <1>5, <1>6

\* The hash is there again: it was there for every answer, and there was one.
LEMMA LookingKept == ReadingInv /\ LookAgain => ReadingInv'
<1> SUFFICES ASSUME ReadingInv, LookAgain PROVE ReadingInv'
    OBVIOUS
<1>1. /\ reader.step = "reads" /\ reader.left = {} /\ There(reader.at)
      /\ reader' = NoReader /\ UNCHANGED <<canon, mined, reading, saved>>
      /\ position' = IF SameBlock THEN [hash |-> reader.hash, seen |-> reader.seen] ELSE NoPosition
  BY DEF LookAgain, AllRead
<1>2. SameBlock => reader.seen = {reader.hash}
  BY <1>1 DEF SameBlock, ReadingInv, SeenOnOneBranch, Running, Beside
<1>3. position' \in Positions /\ (position' # NoPosition => position'.seen = {position'.hash})
  BY <1>1, <1>2 DEF ReadingInv, ReadingTypeOK, Positions, NoPosition
<1>4. ReadingTypeOK'
  BY <1>1, <1>3 DEF ReadingInv, ReadingTypeOK, NoReader, NoBlock
<1>5. KnownBlocks' /\ SeenOnOneBranch'
  BY <1>1 DEF ReadingInv, ReadingTypeOK, KnownBlocks, SeenOnOneBranch, Running, NoReader, NoBlock, Blocks
<1> QED
  BY <1>1, <1>3, <1>4, <1>5 DEF ReadingInv, PositionIsOfOneBlock

LEMMA ReadingStep == ReadingInv /\ [ReadingNext]_readingVars => ReadingInv'
<1> SUFFICES ASSUME ReadingInv, [ReadingNext]_readingVars PROVE ReadingInv'
    OBVIOUS
<1>1. CASE ReadingNext
  BY <1>1, MiningKept, AskingKept, ReadingStepKept, LookingKept DEF ReadingNext
<1>2. CASE UNCHANGED readingVars
  BY <1>2 DEF readingVars, ReadingInv, ReadingTypeOK, KnownBlocks, SeenOnOneBranch, Running, There,
     PositionIsOfOneBlock
<1> QED
  BY <1>1, <1>2

\* Every position that is returned or kept was read on one branch of the chain,
\* however often the chain is reorganised while it is read.
THEOREM PositionsAreOfOneBlock == ReadingSpec => []PositionIsOfOneBlock
<1>1. ReadingInv => PositionIsOfOneBlock
  BY DEF ReadingInv
<1> QED
  BY InitReading, ReadingStep, <1>1, PTL DEF ReadingSpec

-----------------------------------------------------------------------------
(***************************************************************************)
(* WorkerProcess.                                                          *)
(***************************************************************************)

BeatsAreOld ==
  /\ \A b \in beats : b.age >= aliveAge
  /\ rowAge # Never => rowAge >= aliveAge
  /\ AnyoneAlive => aliveAge = 0

LoopShape ==
  \A i \in Instances :
    /\ worker[i].step = "off" => ~worker[i].stopping /\ ~worker[i].ran
    /\ worker[i].step = "starting" => ~worker[i].ran
    /\ worker[i].step = "wait" => ~worker[i].stopping

WorkerInv == WorkerTypeOK /\ BeatsAreOld /\ LoopShape

Processes == [step : {"off", "starting", "sweep", "wait", "closing"}, stopping : BOOLEAN, ran : BOOLEAN]
Beats     == [from : Instances, age : Ages, held : BOOLEAN]

LEMMA AgesOrdered ==
  /\ 0 \in Ages /\ Ancient \in Ages /\ Ages \subseteq Nat
  /\ \A a \in Ages : Older(a) \in Ages
  /\ \A a, b \in Ages : a <= b => Older(a) <= Older(b)
BY HealthThresholds DEF Ages, Ancient, Older

LEMMA InitWorker == WorkerInit => WorkerInv
BY AgesOrdered, MaxLossesIsNat DEF WorkerInit, WorkerInv, WorkerTypeOK, BeatsAreOld, LoopShape, AnyoneAlive,
   Alive, Off

\* A beat is sent by a process that is there, of which time is told.
LEMMA SendingKept ==
  ASSUME WorkerInv, NEW i \in Instances, TimerBeats(i) \/ Start(i)
  PROVE  WorkerInv'
<1>1. NewBeat(i) \in Beats /\ NewBeat(i).age = 0 /\ beats' = beats \cup {NewBeat(i)} /\ aliveAge' = 0
  BY AgesOrdered DEF TimerBeats, Start, NewBeat, Beats, WorkerInv, BeatsAreOld, AnyoneAlive, Alive
<1>2. UNCHANGED <<rowAge, losses>>
  BY DEF TimerBeats, Start
<1>3. worker' \in [Instances -> Processes] /\ LoopShape'
  BY DEF TimerBeats, Start, GoTo, Alive, WorkerInv, WorkerTypeOK, LoopShape, Processes
<1>4. \A b \in beats : b \in Beats
  BY DEF WorkerInv, WorkerTypeOK, Beats
<1>5. WorkerTypeOK'
  BY <1>1, <1>2, <1>3, <1>4, AgesOrdered DEF WorkerInv, WorkerTypeOK, Processes, Beats
<1>6. ASSUME NEW b \in beats' PROVE b.age >= 0
  <2>1. b \in Beats
    BY <1>1, <1>4
  <2>2. b.age \in Ages
    BY <2>1 DEF Beats
  <2>3. b.age \in Nat
    BY <2>2, AgesOrdered, Zenon
  <2> QED
    BY <2>3
<1>7. rowAge # Never => rowAge >= 0
  BY AgesOrdered DEF WorkerInv, WorkerTypeOK
<1> QED
  BY <1>1, <1>2, <1>3, <1>5, <1>6, <1>7 DEF WorkerInv, BeatsAreOld

\* The loop goes on: nothing is sent or written.
LEMMA LoopingKept ==
  ASSUME WorkerInv, NEW i \in Instances,
         EnterLoop(i) \/ SweepEnds(i) \/ WaitEnds(i) \/ Stop(i) \/ Exit(i)
  PROVE  WorkerInv'
<1>1. UNCHANGED <<beats, rowAge, aliveAge, losses>>
  BY DEF EnterLoop, SweepEnds, WaitEnds, Stop, Exit
<1>2. worker' \in [Instances -> Processes] /\ LoopShape'
  <2>1. CASE EnterLoop(i) \/ WaitEnds(i)
    BY <2>1 DEF EnterLoop, WaitEnds, BeginSweep, WorkerInv, WorkerTypeOK, LoopShape, Processes
  <2>2. CASE SweepEnds(i)
    BY <2>2 DEF SweepEnds, GoTo, LoopEnds, WorkerInv, WorkerTypeOK, LoopShape, Processes
  <2>3. CASE Stop(i)
    BY <2>3 DEF Stop, Alive, WorkerInv, WorkerTypeOK, LoopShape, Processes
  <2>4. CASE Exit(i)
    BY <2>4 DEF Exit, Off, WorkerInv, WorkerTypeOK, LoopShape, Processes
  <2> QED
    BY <2>1, <2>2, <2>3, <2>4
<1>3. AnyoneAlive' => AnyoneAlive
  BY DEF EnterLoop, WaitEnds, BeginSweep, SweepEnds, GoTo, Stop, Exit, Off, AnyoneAlive, Alive,
     WorkerInv, WorkerTypeOK
<1> QED
  BY <1>1, <1>2, <1>3 DEF WorkerInv, WorkerTypeOK, BeatsAreOld, Processes

\* A process that dies leaves its beats on their way.
LEMMA DyingKept ==
  ASSUME WorkerInv, NEW i \in Instances, Die(i)
  PROVE  WorkerInv'
<1>1. /\ worker' = [worker EXCEPT ![i] = Off] /\ UNCHANGED <<rowAge, aliveAge>>
      /\ beats' = {IF b.from = i THEN [b EXCEPT !.held = FALSE] ELSE b : b \in beats}
      /\ losses' \in 0 .. MaxLosses
  BY MaxLossesIsNat DEF Die, Lose, WorkerInv, WorkerTypeOK
<1>2. \A b \in beats' : b \in Beats /\ b.age >= aliveAge
  BY <1>1 DEF Beats, WorkerInv, WorkerTypeOK, BeatsAreOld
<1>3. worker' \in [Instances -> Processes] /\ LoopShape' /\ (AnyoneAlive' => AnyoneAlive)
  BY <1>1 DEF Off, WorkerInv, WorkerTypeOK, LoopShape, Processes, AnyoneAlive, Alive
<1> QED
  BY <1>1, <1>2, <1>3 DEF WorkerInv, WorkerTypeOK, BeatsAreOld, Processes, Beats

\* A beat is written with its own age, or is not written.
LEMMA BeatKept ==
  ASSUME WorkerInv, NEW b \in beats, BeatLands(b) \/ BeatFails(b) \/ FileFails(b)
  PROVE  WorkerInv'
<1>1. b \in Beats /\ b.age >= aliveAge /\ b.age \in Ages
  BY DEF Beats, WorkerInv, WorkerTypeOK, BeatsAreOld
<1>2. UNCHANGED <<worker, aliveAge>> /\ losses' \in 0 .. MaxLosses
  BY MaxLossesIsNat DEF BeatLands, BeatFails, FileFails, Lose, WorkerInv, WorkerTypeOK
<1>3. rowAge' \in {rowAge, b.age}
  BY DEF BeatLands, Written, BeatFails, FileFails
<1>4. [b EXCEPT !.held = FALSE] \in Beats /\ [b EXCEPT !.held = FALSE].age = b.age
  BY <1>1 DEF Beats
<1>5. beats' \subseteq beats \cup {[b EXCEPT !.held = FALSE]}
  BY DEF BeatLands, BeatFails, FileFails
<1>6. \A c \in beats' : c \in Beats /\ c.age >= aliveAge
  BY <1>1, <1>4, <1>5 DEF Beats, WorkerInv, WorkerTypeOK, BeatsAreOld
<1>7. WorkerTypeOK'
  BY <1>1, <1>2, <1>3, <1>6 DEF WorkerInv, WorkerTypeOK, Beats
<1>8. BeatsAreOld'
  BY <1>1, <1>2, <1>3, <1>6 DEF WorkerInv, BeatsAreOld, AnyoneAlive, Alive
<1> QED
  BY <1>2, <1>7, <1>8 DEF WorkerInv, LoopShape

\* Beats, row and absence grow old together.
LEMMA TimeKept == WorkerInv /\ TimePasses => WorkerInv'
<1> SUFFICES ASSUME WorkerInv, TimePasses PROVE WorkerInv'
    OBVIOUS
<1>1. /\ beats' = {[b EXCEPT !.age = Older(b.age)] : b \in beats}
      /\ rowAge' = (IF rowAge = Never THEN Never ELSE Older(rowAge))
      /\ aliveAge' = (IF AnyoneAlive THEN 0 ELSE Older(aliveAge))
      /\ UNCHANGED <<worker, losses>>
  BY DEF TimePasses
<1>2. aliveAge \in Ages /\ aliveAge' \in Ages /\ aliveAge' <= Older(aliveAge) /\ Older(aliveAge) \in Nat
  BY <1>1, AgesOrdered DEF WorkerInv, WorkerTypeOK
<1>3. rowAge' \in Ages \cup {Never} /\ (rowAge' # Never => rowAge' >= aliveAge')
  <2>1. CASE rowAge = Never
    BY <1>1, <2>1
  <2>2. CASE rowAge # Never
    <3>1. rowAge \in Ages /\ aliveAge <= rowAge
      BY <1>2, <2>2, AgesOrdered DEF WorkerInv, WorkerTypeOK, BeatsAreOld
    <3>2. Older(aliveAge) <= Older(rowAge) /\ Older(rowAge) \in Ages
      BY <1>2, <3>1, AgesOrdered
    <3> QED
      BY <1>1, <1>2, <2>2, <3>2, AgesOrdered
  <2> QED
    BY <2>1, <2>2
<1>4. ASSUME NEW c \in beats' PROVE c \in Beats /\ c.age >= aliveAge'
  <2>1. PICK b \in beats : c = [b EXCEPT !.age = Older(b.age)]
    BY <1>1
  <2>2. b \in Beats /\ b.age \in Ages /\ aliveAge <= b.age
    BY <1>2, AgesOrdered DEF Beats, WorkerInv, WorkerTypeOK, BeatsAreOld
  <2>3. Older(b.age) \in Ages /\ Older(aliveAge) <= Older(b.age)
    BY <1>2, <2>2, AgesOrdered
  <2>4. c \in Beats /\ c.age = Older(b.age)
    BY <2>1, <2>2, <2>3 DEF Beats
  <2>5. Older(b.age) \in Nat /\ aliveAge' \in Nat
    BY <1>2, <2>3, AgesOrdered
  <2> QED
    BY <1>2, <2>3, <2>4, <2>5
<1>5. WorkerTypeOK'
  BY <1>1, <1>2, <1>3, <1>4 DEF WorkerInv, WorkerTypeOK, Beats
<1>6. BeatsAreOld'
  BY <1>1, <1>3, <1>4 DEF BeatsAreOld, AnyoneAlive, Alive
<1> QED
  BY <1>1, <1>5, <1>6 DEF WorkerInv, LoopShape

LEMMA WorkerStep == WorkerInv /\ [WorkerNext]_workerVars => WorkerInv'
<1> SUFFICES ASSUME WorkerInv, [WorkerNext]_workerVars PROVE WorkerInv'
    OBVIOUS
<1>1. CASE WorkerNext
  BY <1>1, SendingKept, LoopingKept, DyingKept, BeatKept, TimeKept DEF WorkerNext
<1>2. CASE UNCHANGED workerVars
  BY <1>2 DEF workerVars, WorkerInv, WorkerTypeOK, BeatsAreOld, LoopShape, AnyoneAlive, Alive
<1> QED
  BY <1>1, <1>2

LEMMA WorkerAlways == WorkerSpec => []WorkerInv
BY InitWorker, WorkerStep, PTL DEF WorkerSpec

\* However late a beat is written and whoever sent it, the pages call monitoring
\* healthy only if a process was there within WORKER_DEGRADED_AFTER_MS.
THEOREM StatusIsTruthful == WorkerSpec => []StatusTruthful
<1>1. WorkerInv => StatusTruthful
  <2> SUFFICES ASSUME WorkerInv, Reassuring PROVE aliveAge <= DegradedAfter
    BY DEF StatusTruthful
  <2>1. Health = "ONLINE"
    BY DEF Reassuring, Label, Indicator
  <2>2. rowAge # Never /\ ~(rowAge > OfflineAfter) /\ ~(rowAge > DegradedAfter)
    BY <2>1 DEF Health
  <2>3. rowAge \in Nat /\ aliveAge \in Nat /\ aliveAge <= rowAge
    BY <2>2, AgesOrdered DEF WorkerInv, WorkerTypeOK, BeatsAreOld
  <2> QED
    BY <2>2, <2>3, HealthThresholds
<1> QED
  BY WorkerAlways, <1>1, PTL

\* A process that was told to stop begins no sweep but its first, and does not
\* wait for the next.
THEOREM StopIsHonoured == WorkerSpec => StopHonoured
<1> DEFINE Honoured == \A i \in Instances : worker[i].stopping /\ worker'[i].stopping =>
                          /\ worker'[i].step # "wait"
                          /\ worker'[i].step = "sweep" => worker[i].step = "sweep" \/ ~worker[i].ran
<1>1. WorkerInv /\ [WorkerNext]_workerVars => [Honoured]_workerVars
  <2> SUFFICES ASSUME WorkerInv, WorkerNext, NEW i \in Instances,
                      worker[i].stopping, worker'[i].stopping
               PROVE  /\ worker'[i].step # "wait"
                      /\ worker'[i].step = "sweep" => worker[i].step = "sweep" \/ ~worker[i].ran
    OBVIOUS
  <2>1. worker[i].step # "wait" /\ worker[i].step # "off"
    BY DEF WorkerInv, LoopShape
  <2>2. CASE worker'[i] = worker[i]
    BY <2>1, <2>2
  <2>3. ASSUME NEW j \in Instances, \/ TimerBeats(j) \/ Start(j) \/ EnterLoop(j) \/ SweepEnds(j)
                                    \/ WaitEnds(j) \/ Stop(j) \/ Exit(j) \/ Die(j)
        PROVE  worker'[i] = worker[i] \/ i = j
    BY <2>3 DEF TimerBeats, Start, EnterLoop, SweepEnds, WaitEnds, Stop, Exit, Die, GoTo,
       BeginSweep, WorkerInv, WorkerTypeOK
  <2>4. CASE TimePasses \/ \E b \in beats : BeatLands(b) \/ BeatFails(b) \/ FileFails(b)
    BY <2>2, <2>4 DEF TimePasses, BeatLands, BeatFails, FileFails
  <2>5. CASE TimerBeats(i) \/ Start(i) \/ WaitEnds(i) \/ Stop(i)
    BY <2>1, <2>2, <2>5 DEF TimerBeats, Start, Alive, WaitEnds, Stop
  <2>6. CASE EnterLoop(i) \/ SweepEnds(i)
    BY <2>6 DEF EnterLoop, BeginSweep, SweepEnds, GoTo, LoopEnds, WorkerInv, WorkerTypeOK, LoopShape
  <2>7. CASE Exit(i) \/ Die(i)
    BY <2>7 DEF Exit, Die, Off, WorkerInv, WorkerTypeOK
  <2> QED
    BY <2>2, <2>3, <2>4, <2>5, <2>6, <2>7 DEF WorkerNext
<1> QED
  BY WorkerAlways, <1>1, PTL DEF WorkerSpec, StopHonoured
-----------------------------------------------------------------------------
(***************************************************************************)
(* ProductPages.                                                           *)
(***************************************************************************)

Loading == screen.of # "nothing"
Has(part) == Loading /\ part \notin screen.left

\* What has been committed: the newest decision is about the newest snapshot or
\* an earlier one, and nothing is newer than the newest snapshot that a writer
\* has captured, or an execution was confirmed with.
RowsAgree ==
  /\ decision.about <= snapshot.id /\ verified <= snapshot.id
  /\ \A w \in Writers : LET work == writer[w] IN
       /\ work.next = "decide" => work.position.id <= snapshot.id
       /\ work.next = "commit" => work.draft.about <= snapshot.id
       /\ work.next = "reserve" => work.draft.about = work.position.id

\* A decision about a snapshot was late, or the two were the newest together.
Timely(id, d) == d.about = id => d.late \/ id \in screen.current

\* What was read first is ready for what will be read next: a decision that was
\* read is timely, or its snapshot is not the newest and never will be again.
ReadsAgree ==
  /\ Loading => screen.since <= snapshot.id /\ (decision.about = snapshot.id => snapshot.id \in screen.current)
  /\ Has("snapshot") => screen.since <= screen.snapshot.id /\ Timely(screen.snapshot.id, decision)
  /\ Has("decision") => \/ screen.decision.about < snapshot.id
                        \/ Timely(screen.decision.about, screen.decision)
  /\ Has("snapshot") /\ Has("decision") => Timely(screen.snapshot.id, screen.decision)

PagesInv == PagesTypeOK /\ RowsAgree /\ ReadsAgree

LEMMA PagesTypes ==
  ASSUME PagesTypeOK
  PROVE  /\ MaxTime \in Nat /\ Times \subseteq Nat
         /\ NoSnapshot \in Snapshots /\ NoDecision \in Decisions /\ NoWork \in Works /\ NoPage \in Screens
         /\ snapshot.id \in Times /\ decision.about \in Int /\ decision.at \in Times
         /\ \A s \in Snapshots : s.id \in Times
         /\ \A d \in Decisions : d.about \in Int /\ d.at \in Times
<1>1. MaxTime \in Nat /\ Times \subseteq Nat /\ 0 \in Times
  BY PagesBounds DEF Times
<1>2. NoSnapshot \in Snapshots /\ NoDecision \in Decisions
  BY <1>1 DEF NoSnapshot, NoDecision, Snapshots, Decisions
<1>3. NoWork \in Works /\ NoPage \in Screens
  BY <1>1, <1>2 DEF NoWork, NoPage, Works, Screens
<1>4. \A s \in Snapshots : s.id \in Times
  BY DEF Snapshots
<1>5. \A d \in Decisions : d.about \in Int /\ d.at \in Times
  <2> SUFFICES ASSUME NEW d \in Decisions PROVE d.about \in Int /\ d.at \in Times
    OBVIOUS
  <2>1. (d.about \in Times \/ d.about = -1) /\ d.at \in Times
    BY DEF Decisions
  <2>2. d.about \in Nat \/ d.about = -1
    BY <1>1, <2>1
  <2>3. d.about \in Int
    BY <2>2
  <2> QED
    BY <2>1, <2>3
<1> QED
  BY <1>1, <1>2, <1>3, <1>4, <1>5 DEF PagesTypeOK

LEMMA InitPages == PagesInit => PagesInv
<1> SUFFICES ASSUME PagesInit PROVE PagesInv
  OBVIOUS
<1>1. MaxTime \in Nat /\ Times \subseteq Nat /\ 0 \in Times
  BY PagesBounds DEF Times
<1>2. NoSnapshot \in Snapshots /\ NoDecision \in Decisions
  BY <1>1 DEF NoSnapshot, NoDecision, Snapshots, Decisions
<1>3. NoWork \in Works /\ NoPage \in Screens
  BY <1>1, <1>2 DEF NoWork, NoPage, Works, Screens
<1>4. PagesTypeOK
  BY <1>1, <1>2, <1>3 DEF PagesInit, PagesTypeOK
<1> QED
  BY <1>4 DEF PagesInit, PagesInv, RowsAgree, ReadsAgree, Loading, Has, NoPage, NoWork,
     NoSnapshot, NoDecision

\* A write: of the same snapshot or a newer one, and of the same decision with
\* another word perhaps, or of one that is late or about that snapshot.
LEMMA WriteKept ==
  ASSUME PagesInv, NEW s \in Snapshots, NEW d \in Decisions, Write(s, d),
         snapshot.id <= s.id,
         \/ d.about = decision.about /\ d.late = decision.late
         \/ d.late
         \/ d.about = s.id
  PROVE  screen' \in Screens /\ ReadsAgree'
<1>1. /\ snapshot' = s /\ decision' = d
      /\ screen \in Screens /\ snapshot \in Snapshots /\ decision \in Decisions
      /\ s.id \in Times /\ snapshot.id \in Times /\ Times \subseteq Nat
  BY PagesTypes DEF Write, PagesInv, PagesTypeOK
<1>2. /\ screen' \in Screens
      /\ screen'.of = screen.of /\ screen'.left = screen.left /\ screen'.since = screen.since
      /\ screen'.snapshot = screen.snapshot /\ screen'.decision = screen.decision
      /\ screen.current \subseteq screen'.current
      /\ Loading /\ d.about = s.id => s.id \in screen'.current
  BY <1>1 DEF Write, Screens, Loading
<1>3. /\ s.id \in Nat /\ snapshot.id \in Nat /\ screen.since \in Nat
      /\ screen.decision.about \in Int
  BY <1>1, PagesTypes DEF Screens, PagesInv
<1>4. Loading => screen.since <= s.id
  <2>1. Loading => screen.since <= snapshot.id
    BY DEF PagesInv, ReadsAgree
  <2> QED
    BY <1>3, <2>1
<1>5. Has("snapshot") => (d.about = screen.snapshot.id => d.late \/ screen.snapshot.id \in screen'.current)
  BY <1>1, <1>2 DEF PagesInv, ReadsAgree, Timely, Has
<1>6. Has("decision") => \/ screen.decision.about < s.id
                         \/ screen.decision.late \/ screen.decision.about \in screen'.current
  <2>1. screen.decision.about < snapshot.id => screen.decision.about < s.id
    BY <1>1, <1>3
  <2> QED
    BY <1>2, <2>1 DEF PagesInv, ReadsAgree, Timely
<1>7. Has("snapshot") /\ Has("decision") =>
        (screen.decision.about = screen.snapshot.id
           => screen.decision.late \/ screen.snapshot.id \in screen'.current)
  BY <1>2 DEF PagesInv, ReadsAgree, Timely
<1>8. Has("snapshot") => screen.since <= screen.snapshot.id
  BY DEF PagesInv, ReadsAgree
<1> QED
  BY <1>1, <1>2, <1>4, <1>5, <1>6, <1>7, <1>8 DEF ReadsAgree, Timely, Has, Loading

\* The work of a writer changes, and nothing else but the time and what is written.
LEMMA WorkKept ==
  ASSUME PagesInv, NEW w \in Writers, NEW work \in Works, writer' = [writer EXCEPT ![w] = work],
         snapshot' \in Snapshots, decision' \in Decisions, screen' \in Screens, ReadsAgree',
         taken' \in Times, verified' \in Times,
         snapshot.id <= snapshot'.id, decision'.about <= snapshot'.id, verified' <= snapshot'.id,
         work.next = "decide" => work.position.id <= snapshot'.id,
         work.next = "commit" => work.draft.about <= snapshot'.id,
         work.next = "reserve" => work.draft.about = work.position.id
  PROVE  PagesInv'
<1>1. writer \in [Writers -> Works] /\ writer' \in [Writers -> Works]
      /\ writer'[w] = work /\ \A v \in Writers : v # w => writer'[v] = writer[v]
  BY DEF PagesInv, PagesTypeOK
<1>2. PagesTypeOK'
  BY <1>1 DEF PagesTypeOK
<1>3. snapshot.id \in Nat /\ snapshot'.id \in Nat
      /\ \A v \in Writers : writer[v].position.id \in Int /\ writer[v].draft.about \in Int
  BY <1>1, PagesTypes DEF PagesInv, Works
<1>4. RowsAgree'
  <2> SUFFICES ASSUME NEW v \in Writers, v # w
               PROVE  LET other == writer[v] IN
                      /\ other.next = "decide" => other.position.id <= snapshot'.id
                      /\ other.next = "commit" => other.draft.about <= snapshot'.id
                      /\ other.next = "reserve" => other.draft.about = other.position.id
    BY <1>1 DEF RowsAgree
  <2>1. LET other == writer[v] IN
        /\ other.next = "decide" => other.position.id <= snapshot.id
        /\ other.next = "commit" => other.draft.about <= snapshot.id
        /\ other.next = "reserve" => other.draft.about = other.position.id
    BY DEF PagesInv, RowsAgree
  <2> QED
    BY <1>3, <2>1
<1> QED
  BY <1>2, <1>4 DEF PagesInv

\* Nothing is committed.
LEMMA UnwrittenKept ==
  ASSUME PagesInv, NEW w \in Writers, NEW work \in Works, writer' = [writer EXCEPT ![w] = work],
         UNCHANGED <<snapshot, decision, verified, screen>>, taken' \in Times,
         work.next = "decide" => work.position.id <= snapshot.id,
         work.next = "commit" => work.draft.about <= snapshot.id,
         work.next = "reserve" => work.draft.about = work.position.id
  PROVE  PagesInv'
<1>1. ReadsAgree' /\ snapshot' = snapshot /\ snapshot.id \in Nat
  BY PagesTypes DEF PagesInv, ReadsAgree, Timely, Has, Loading
<1>2. snapshot.id <= snapshot'.id /\ decision'.about <= snapshot'.id /\ verified' <= snapshot'.id
  BY <1>1 DEF PagesInv, RowsAgree
<1> QED
  BY <1>1, <1>2, WorkKept DEF PagesInv, PagesTypeOK

\* Rows are committed.
LEMMA WrittenKept ==
  ASSUME PagesInv, NEW w \in Writers, NEW work \in Works, writer' = [writer EXCEPT ![w] = work],
         NEW s \in Snapshots, NEW d \in Decisions, Write(s, d), snapshot.id <= s.id,
         \/ d.about = decision.about /\ d.late = decision.late
         \/ d.late
         \/ d.about = s.id,
         d.about <= s.id, UNCHANGED taken, verified' \in Times, verified' <= s.id,
         work.next = "decide" => work.position.id <= s.id,
         work.next \notin {"commit", "reserve"}
  PROVE  PagesInv'
<1>1. screen' \in Screens /\ ReadsAgree' /\ snapshot' = s /\ decision' = d
  BY WriteKept DEF Write
<1> QED
  BY <1>1, WorkKept DEF PagesInv, PagesTypeOK

\* The newest of rows, however late they are committed.
LEMMA NewerRow ==
  ASSUME PagesInv, NEW s \in Snapshots
  PROVE  /\ Newer(s) \in Snapshots /\ snapshot.id <= Newer(s).id /\ s.id <= Newer(s).id
         /\ decision.about <= Newer(s).id /\ verified <= Newer(s).id
<1>1. snapshot \in Snapshots /\ snapshot.id \in Nat /\ s.id \in Nat /\ decision.about \in Int
      /\ verified \in Nat /\ decision.about <= snapshot.id /\ verified <= snapshot.id
  BY PagesTypes DEF PagesInv, PagesTypeOK, RowsAgree
<1> QED
  BY <1>1 DEF Newer

\* A decision that is committed beside s.
LEMMA LaterRow ==
  ASSUME PagesInv, NEW s \in Snapshots, snapshot.id <= s.id, NEW draft \in Decisions, draft.about <= s.id
  PROVE  LET d == Later(Dated(draft, s)) IN
         /\ d \in Decisions /\ d.about <= s.id
         /\ \/ d.about = decision.about /\ d.late = decision.late
            \/ d.late
            \/ d.about = s.id
<1>1. Dated(draft, s) \in Decisions /\ Dated(draft, s).about = draft.about
      /\ Dated(draft, s).late = (draft.about # s.id)
  BY DEF Dated, Decisions
<1>2. decision \in Decisions /\ decision.about <= s.id
  <2>1. decision.about \in Int /\ snapshot.id \in Nat /\ s.id \in Nat /\ decision.about <= snapshot.id
    BY PagesTypes DEF PagesInv, RowsAgree
  <2> QED
    BY <2>1 DEF PagesInv, PagesTypeOK
<1> QED
  BY <1>1, <1>2 DEF Later

LEMMA RestatedRow ==
  ASSUME PagesInv, NEW about, NEW status \in {"PROTECTION_BLOCKED", "COMPLETED"}
  PROVE  LET d == Restated(about, status) IN
         d \in Decisions /\ d.about = decision.about /\ d.late = decision.late
BY DEF PagesInv, PagesTypeOK, Restated, Decisions, Statuses

LEMMA WorkInHand ==
  ASSUME PagesInv, NEW w \in Writers
  PROVE  /\ writer \in [Writers -> Works] /\ writer[w] \in Works
         /\ writer[w].position \in Snapshots /\ writer[w].draft \in Decisions
         /\ writer[w].position.id \in Nat /\ writer[w].draft.about \in Int
BY PagesTypes DEF PagesInv, PagesTypeOK, Works

\* A time is taken, and the row is not committed yet.
LEMMA UncommittedKept ==
  ASSUME PagesInv, NEW w \in Writers,
         \/ \E hf \in HealthFactors : FetchPosition(w, hf) \/ ReadPost(w, hf)
         \/ \E status \in Verdicts : DraftDecision(w, status) \/ DraftReservation(w, status)
         \/ Resume(w) \/ GiveUp(w)
  PROVE  PagesInv'
<1>0. /\ writer \in [Writers -> Works] /\ writer[w] \in Works
      /\ writer[w].position \in Snapshots /\ writer[w].draft \in Decisions
      /\ writer[w].position.id \in Nat
  BY WorkInHand
<1>1. ASSUME TakeTime
      PROVE  taken' \in Times /\ taken + 1 \in Times
  BY <1>1, PagesBounds DEF TakeTime, Times, PagesInv, PagesTypeOK
<1>2. ASSUME NEW hf \in HealthFactors, FetchPosition(w, hf) \/ ReadPost(w, hf)
      PROVE  PagesInv'
  <2> DEFINE p == [id |-> taken + 1, hf |-> hf]
  <2>1. PICK next \in {"write", "confirm"} :
          writer' = [writer EXCEPT ![w].next = next, ![w].position = p]
    BY <1>2 DEF FetchPosition, ReadPost
  <2>2. TakeTime /\ UNCHANGED <<snapshot, decision, verified, screen>>
    BY <1>2 DEF FetchPosition, ReadPost
  <2>3. p \in Snapshots
    BY <1>1, <2>2 DEF Snapshots
  <2> DEFINE work == [writer[w] EXCEPT !.next = next, !.position = p]
  <2>4. work \in Works /\ work.next = next
    BY <1>0, <2>3 DEF Works
  <2>5. writer' = [writer EXCEPT ![w] = work]
    BY <1>0, <2>1
  <2> HIDE DEF work
  <2> QED
    BY <1>1, <2>2, <2>4, <2>5, UnwrittenKept
<1>3. ASSUME NEW status \in Verdicts, DraftDecision(w, status) \/ DraftReservation(w, status)
      PROVE  PagesInv'
  <2>1. PICK next \in {"commit", "reserve"} :
          Draft(w, status, next) /\ (next = "commit" => writer[w].next = "decide")
    BY <1>3 DEF DraftDecision, DraftReservation
  <2> DEFINE draft == [about |-> writer[w].position.id, at |-> taken + 1,
                       selects |-> SelectedIn(status), status |-> status, late |-> FALSE]
  <2>2. /\ TakeTime /\ UNCHANGED <<snapshot, decision, verified, screen>>
        /\ writer' = [writer EXCEPT ![w].next = next, ![w].draft = draft]
    BY <2>1 DEF Draft
  <2>3. draft \in Decisions /\ draft.about = writer[w].position.id
    <3>1. writer[w].position.id \in Times /\ taken + 1 \in Times
      BY <1>0, <1>1, <2>2, PagesTypes DEF PagesInv
    <3>2. status \in Statuses /\ SelectedIn(status) \in {"candidate", "approval", "none"}
      BY VerdictsAreKnown DEF Statuses, SelectedIn
    <3> QED
      BY <3>1, <3>2 DEF Decisions
  <2> HIDE DEF draft
  <2> DEFINE work == [writer[w] EXCEPT !.next = next, !.draft = draft]
  <2>4. /\ work \in Works /\ work.next = next /\ work.draft = draft
        /\ work.position = writer[w].position
    BY <1>0, <2>3 DEF Works
  <2>5. writer' = [writer EXCEPT ![w] = work]
    BY <1>0, <2>2
  <2>6. next = "commit" => writer[w].position.id <= snapshot.id
    BY <2>1 DEF PagesInv, RowsAgree
  <2> HIDE DEF work
  <2> QED
    BY <1>1, <2>2, <2>3, <2>4, <2>5, <2>6, UnwrittenKept
<1>4. CASE GiveUp(w)
  <2>1. NoWork \in Works /\ NoWork.next = "read"
    BY PagesTypes DEF PagesInv, NoWork
  <2>2. taken' \in Times
    BY <1>4 DEF GiveUp, PagesInv, PagesTypeOK
  <2> QED
    BY <1>4, <2>1, <2>2, UnwrittenKept DEF GiveUp
<1>5. CASE Resume(w)
  <2>1. PICK d \in {decision, NoDecision} :
          writer' = [writer EXCEPT ![w].next = "verify", ![w].draft = d]
    BY <1>5 DEF Resume
  <2>2. d \in Decisions
    BY PagesTypes DEF PagesInv, PagesTypeOK
  <2> DEFINE work == [writer[w] EXCEPT !.next = "verify", !.draft = d]
  <2>3. work \in Works /\ work.next = "verify"
    BY <1>0, <2>2 DEF Works
  <2>4. writer' = [writer EXCEPT ![w] = work]
    BY <1>0, <2>1
  <2>5. taken' \in Times /\ UNCHANGED <<snapshot, decision, verified, screen>>
    BY <1>5 DEF Resume, PagesInv, PagesTypeOK
  <2> HIDE DEF work
  <2> QED
    BY <2>3, <2>4, <2>5, UnwrittenKept
<1> QED
  BY <1>2, <1>3, <1>4, <1>5

\* A position or a decision is committed, or another word on a decision.
LEMMA CommittedKept ==
  ASSUME PagesInv, NEW w \in Writers,
         \/ RefreshPosition(w) \/ Capture(w) \/ Decide(w) \/ Reserve(w) \/ Block(w)
         \/ ConfirmExecution(w)
  PROVE  PagesInv'
<1> DEFINE p     == writer[w].position
           draft == writer[w].draft
<1>0. /\ writer \in [Writers -> Works] /\ writer[w] \in Works /\ p \in Snapshots /\ draft \in Decisions
      /\ p.id \in Nat /\ snapshot \in Snapshots /\ decision \in Decisions /\ verified \in Times
      /\ snapshot.id <= snapshot.id
  BY WorkInHand, PagesTypes DEF PagesInv, PagesTypeOK
<1>1. decision.about <= snapshot.id /\ verified <= snapshot.id
  BY DEF PagesInv, RowsAgree
<1>2. NoWork \in Works /\ NoWork.next = "read"
  BY PagesTypes DEF PagesInv, NoWork
<1>3. ASSUME NEW next \in {"decide", "block", "verify"}
      PROVE  LET work == [writer[w] EXCEPT !.next = next] IN
             /\ work \in Works /\ work.next = next /\ work.position = p
             /\ [writer EXCEPT ![w].next = next] = [writer EXCEPT ![w] = work]
  BY <1>0 DEF Works
<1>4. /\ Newer(p) \in Snapshots /\ snapshot.id <= Newer(p).id /\ p.id <= Newer(p).id
      /\ decision.about <= Newer(p).id /\ verified <= Newer(p).id
  BY <1>0, NewerRow
<1>5. CASE RefreshPosition(w)
  BY <1>0, <1>2, <1>4, <1>5, WrittenKept DEF RefreshPosition
<1>6. CASE Capture(w)
  <2>1. Write(Newer(p), decision) /\ writer' = [writer EXCEPT ![w].next = "decide"]
        /\ UNCHANGED <<taken, verified>>
    BY <1>6 DEF Capture
  <2> QED
    BY <1>0, <1>3, <1>4, <2>1, WrittenKept
<1>7. CASE Decide(w)
  <2> DEFINE d == Later(Dated(draft, snapshot))
  <2>1. draft.about <= snapshot.id
    BY <1>7 DEF Decide, PagesInv, RowsAgree
  <2>2. /\ d \in Decisions /\ d.about <= snapshot.id
        /\ \/ d.about = decision.about /\ d.late = decision.late
           \/ d.late
           \/ d.about = snapshot.id
    BY <1>0, <2>1, LaterRow
  <2>3. Write(snapshot, d) /\ writer' = [writer EXCEPT ![w].next = "block"]
        /\ UNCHANGED <<taken, verified>>
    BY <1>7 DEF Decide
  <2> HIDE DEF d
  <2> QED
    BY <1>0, <1>1, <1>3, <2>2, <2>3, WrittenKept
<1>8. CASE Reserve(w)
  <2> DEFINE s == Newer(p)
             d == Later(Dated(draft, s))
  <2>1. draft.about = p.id
    BY <1>8 DEF Reserve, PagesInv, RowsAgree
  <2>2. /\ d \in Decisions /\ d.about <= s.id
        /\ \/ d.about = decision.about /\ d.late = decision.late
           \/ d.late
           \/ d.about = s.id
    BY <1>0, <1>4, <2>1, LaterRow
  <2>3. Write(s, d) /\ writer' = [writer EXCEPT ![w].next = "verify"]
        /\ UNCHANGED <<taken, verified>>
    BY <1>8 DEF Reserve
  <2> HIDE DEF d, s
  <2> QED
    BY <1>0, <1>3, <1>4, <2>2, <2>3, WrittenKept DEF s
<1>9. CASE Block(w)
  <2> DEFINE d == Restated(draft.about, "PROTECTION_BLOCKED")
  <2>1. d \in Decisions /\ d.about = decision.about /\ d.late = decision.late
    BY RestatedRow
  <2>2. Write(snapshot, d) /\ writer' = [writer EXCEPT ![w] = NoWork] /\ UNCHANGED <<taken, verified>>
    BY <1>9 DEF Block
  <2> HIDE DEF d
  <2> QED
    BY <1>0, <1>1, <1>2, <2>1, <2>2, WrittenKept
<1>10. CASE ConfirmExecution(w)
  <2> DEFINE d == Restated(draft.about, "COMPLETED")
  <2>1. d \in Decisions /\ d.about = decision.about /\ d.late = decision.late
    BY RestatedRow
  <2>2. /\ Write(Newer(p), d) /\ writer' = [writer EXCEPT ![w] = NoWork] /\ UNCHANGED taken
        /\ verified' = IF p.id > verified THEN p.id ELSE verified
    BY <1>10 DEF ConfirmExecution
  <2>3. verified' \in Times /\ verified' <= Newer(p).id
    BY <1>0, <1>4, <2>2, PagesTypes DEF PagesInv
  <2> HIDE DEF d
  <2> QED
    BY <1>0, <1>2, <1>4, <2>1, <2>2, <2>3, WrittenKept
<1> QED
  BY <1>5, <1>6, <1>7, <1>8, <1>9, <1>10

\* A load begins, reads, or is over.
LEMMA LoadKept == PagesInv /\ LoadStep => PagesInv'
<1> SUFFICES ASSUME PagesInv, LoadStep PROVE PagesInv'
  OBVIOUS
<1>1. /\ UNCHANGED <<taken, snapshot, decision, writer, verified>>
      /\ snapshot \in Snapshots /\ decision \in Decisions /\ screen \in Screens /\ verified \in Times
      /\ snapshot.id \in Nat /\ decision.about \in Int /\ snapshot.id \in Times /\ NoPage \in Screens
      /\ decision.about <= snapshot.id /\ verified <= snapshot.id
  BY PagesTypes DEF LoadStep, PagesInv, PagesTypeOK, RowsAgree
<1>2. ASSUME screen' \in Screens, ReadsAgree'
      PROVE  PagesInv'
  BY <1>1, <1>2 DEF PagesInv, PagesTypeOK, RowsAgree
<1>3. CASE LeaveScreen
  BY <1>1, <1>2, <1>3 DEF LeaveScreen, ReadsAgree, Loading, Has, NoPage
<1>4. CASE \E of \in {"page", "shell"} : Load(of)
  <2>1. PICK of \in {"page", "shell"} : Load(of)
    BY <1>4
  <2>2. /\ screen' \in Screens /\ screen'.left = Parts /\ screen'.since = verified
        /\ decision.about = snapshot.id => snapshot.id \in screen'.current
    BY <1>1, <2>1 DEF Load, NoPage, Screens, Parts
  <2>3. ReadsAgree'
    BY <1>1, <2>2 DEF ReadsAgree, Has, Parts
  <2> QED
    BY <1>2, <2>2, <2>3
<1>5. CASE ReadPart /\ ReadSnapshot
  <2>1. /\ screen' \in Screens /\ screen'.current = screen.current /\ screen'.of = screen.of
        /\ screen'.since = screen.since
        /\ screen'.snapshot = snapshot /\ screen'.decision = screen.decision
        /\ screen'.left = screen.left \ {"snapshot"} /\ Loading
    BY <1>1, <1>5 DEF ReadPart, ReadSnapshot, Screens, Loading
  <2>2. Timely(snapshot.id, decision) /\ screen.since <= snapshot.id
    BY <2>1 DEF PagesInv, ReadsAgree, Timely
  <2>3. Has("decision") => Timely(snapshot.id, screen.decision)
    <3>1. screen.decision.about < snapshot.id => screen.decision.about # snapshot.id
      BY <1>1
    <3> QED
      BY <3>1 DEF PagesInv, ReadsAgree, Timely
  <2> QED
    BY <1>1, <1>2, <2>1, <2>2, <2>3 DEF PagesInv, ReadsAgree, Has, Loading, Timely
<1>6. CASE ReadPart /\ ReadDecision
  <2>1. PICK d \in NewestDecisions :
          screen' = [screen EXCEPT !.left = screen.left \ {"decision"}, !.decision = d]
    BY <1>6 DEF ReadDecision
  <2>2. d \in Decisions /\ (d = decision \/ d.about = -1)
    BY <1>1, <2>1 DEF NewestDecisions, Foreign, Decisions
  <2>3. /\ screen' \in Screens /\ screen'.current = screen.current /\ screen'.of = screen.of
        /\ screen'.since = screen.since
        /\ screen'.snapshot = screen.snapshot /\ screen'.decision = d
        /\ screen'.left = screen.left \ {"decision"} /\ Loading
    BY <1>1, <1>6, <2>1, <2>2 DEF ReadPart, Screens, Loading
  <2>4. d.about < snapshot.id \/ Timely(d.about, d)
    BY <1>1, <2>2, <2>3 DEF PagesInv, ReadsAgree, Timely
  <2>5. Has("snapshot") => Timely(screen.snapshot.id, d)
    <3>1. screen.snapshot.id # -1
      BY <1>1, PagesTypes DEF PagesInv, Screens
    <3> QED
      BY <2>2, <3>1 DEF PagesInv, ReadsAgree, Timely
  <2> QED
    BY <1>1, <1>2, <2>3, <2>4, <2>5 DEF PagesInv, ReadsAgree, Has, Loading, Timely
<1> QED
  BY <1>3, <1>4, <1>5, <1>6 DEF LoadStep, ReadPart

LEMMA StepPages == PagesInv /\ [PagesNext]_pagesVars => PagesInv'
<1> SUFFICES ASSUME PagesInv, [PagesNext]_pagesVars PROVE PagesInv'
  OBVIOUS
<1>1. CASE UNCHANGED pagesVars
  BY <1>1 DEF pagesVars, PagesInv, PagesTypeOK, RowsAgree, ReadsAgree, Timely, Has, Loading
<1>2. CASE PagesNext
  BY <1>2, UncommittedKept, CommittedKept, LoadKept DEF PagesNext, WriterStep
<1> QED
  BY <1>1, <1>2

\* A page or the shell that asks the owner to act asks for nothing an execution
\* had been confirmed to have done before it loaded, and unless its decision was
\* late for its snapshot, the two were the newest together: in whatever order the
\* parts are read, and whoever writes between, however late.
THEOREM AdviceWasTimely == PagesSpec => []AdviceIsTimely
<1>1. PagesInv => AdviceIsTimely
  <2> SUFFICES ASSUME PagesInv, Loaded, IsCurrent
               PROVE  /\ screen.snapshot.id >= screen.since
                      /\ screen.snapshot.id \in screen.current \/ screen.decision.late
    BY DEF AdviceIsTimely, AsksToAct, Attention, Actionable
  <2>1. Has("snapshot") /\ Has("decision")
    BY DEF Loaded, Has, Loading
  <2>2. screen.since \in Int /\ screen.snapshot.id \in Int
    BY PagesTypes DEF PagesInv, PagesTypeOK, Screens
  <2> QED
    BY <2>1, <2>2 DEF PagesInv, ReadsAgree, Timely, IsCurrent
<1> QED
  BY InitPages, StepPages, <1>1, PTL DEF PagesSpec

-----------------------------------------------------------------------------
(***************************************************************************)
(* All services.                                                           *)
(***************************************************************************)

\* A step of one service is, to another, no step.
LEMMA StepOfEach ==
  ASSUME [ServicesNext]_servicesVars
  PROVE  /\ [AuthNext]_authVars /\ [CenterNext]_centerVars /\ [ListNext]_listVars
         /\ [WorkerNext]_workerVars /\ [BrowserNext]_browserVars /\ [FormNext]_formVars
         /\ [PagesNext]_pagesVars /\ [ReadingNext]_readingVars
<1>1. CASE UNCHANGED servicesVars
  BY <1>1 DEF servicesVars
<1>2. CASE ServicesNext
  BY <1>2 DEF ServicesNext, NoAuth, NoNotices, NoList, NoWorker, NoTab, NoForm, NoPages, NoReading
<1> QED
  BY <1>1, <1>2

\* What the run of all services checks is what each of them does by itself: a
\* behaviour of Services is a behaviour of every service.
THEOREM EachServiceRuns ==
  ServicesSpec => /\ AuthSpec /\ CenterSpec /\ ListSpec /\ WorkerSpec
                  /\ BrowserSpec /\ FormSpec /\ PagesSpec /\ ReadingSpec
<1>1. ServicesInit => /\ AuthInit /\ CenterInit /\ ListInit /\ WorkerInit
                      /\ BrowserInit /\ FormInit /\ PagesInit /\ ReadingInit
  BY DEF ServicesInit
<1>2. [ServicesNext]_servicesVars =>
        /\ [AuthNext]_authVars /\ [CenterNext]_centerVars /\ [ListNext]_listVars
        /\ [WorkerNext]_workerVars /\ [BrowserNext]_browserVars /\ [FormNext]_formVars
        /\ [PagesNext]_pagesVars /\ [ReadingNext]_readingVars
  BY StepOfEach
<1> QED
  BY <1>1, <1>2, PTL DEF ServicesSpec, AuthSpec, CenterSpec, ListSpec, WorkerSpec, BrowserSpec,
     FormSpec, PagesSpec, ReadingSpec

\* Every reachable state of every service is well typed.
THEOREM ServicesTypes == ServicesSpec => []ServicesTypeOK
<1>1. AuthInv => AuthTypeOK
  BY DEF AuthInv
<1>2. CenterInv => CenterTypeOK
  BY DEF CenterInv
<1>3. WorkerInv => WorkerTypeOK
  BY DEF WorkerInv
<1>4. BrowserInv => BrowserTypeOK
  BY DEF BrowserInv
<1>5. FormInv => FormTypeOK
  BY DEF FormInv
<1>6. PagesInv => PagesTypeOK
  BY DEF PagesInv
<1>7. ReadingInv => ReadingTypeOK
  BY DEF ReadingInv
<1>8. AuthSpec /\ CenterSpec => [](AuthTypeOK /\ CenterTypeOK)
  BY AuthInvariant, InitCenter, StepCenter, <1>1, <1>2, PTL DEF CenterSpec
<1>9. ListSpec /\ WorkerSpec => [](ListTypeOK /\ WorkerTypeOK)
  BY ListTypes, WorkerAlways, <1>3, PTL
<1>10. BrowserSpec /\ FormSpec => [](BrowserTypeOK /\ FormTypeOK)
  BY InitBrowser, StepBrowser, FormInvariant, <1>4, <1>5, PTL DEF BrowserSpec
<1>11. PagesSpec /\ ReadingSpec => [](PagesTypeOK /\ ReadingTypeOK)
  BY InitPages, StepPages, InitReading, ReadingStep, <1>6, <1>7, PTL DEF PagesSpec, ReadingSpec
<1>12. ServicesTypeOK <=> /\ AuthTypeOK /\ CenterTypeOK /\ ListTypeOK /\ WorkerTypeOK
                          /\ BrowserTypeOK /\ FormTypeOK /\ PagesTypeOK /\ ReadingTypeOK
  BY DEF ServicesTypeOK
<1> QED
  BY EachServiceRuns, <1>8, <1>9, <1>10, <1>11, <1>12, PTL
=============================================================================
