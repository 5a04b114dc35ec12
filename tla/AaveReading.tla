----------------------------- MODULE AaveReading -----------------------------
(***************************************************************************)
(* Reading a position from Aave (aave/service.ts, client.ts, reserves.ts)  *)
(* and keeping it (aave/http.ts, snapshots.ts).  getAavePosition takes the *)
(* latest block, asks for everything by its number, some of it in          *)
(* parallel, and at the end looks at that block again.  The chain goes on, *)
(* and may be reorganised, between any two of its calls; a call fails, or  *)
(* the forty-five seconds are over.                                        *)
(*                                                                         *)
(* Abstractions.  A block is the hash it has, a number that grows with the *)
(* time at which it was mined; a reading is the set of the blocks its      *)
(* calls were answered from.  What verifyNetwork reads is one call.  The   *)
(* RPC endpoint answers from one chain at a time, and a block that was     *)
(* dropped does not come back.                                             *)
(***************************************************************************)
EXTENDS Integers, Sequences, FiniteSets

CONSTANTS
  ReserveCount,   \* reserves in getReservesList
  Workers,        \* mapBounded's 6
  MaxBlocks       \* bound: blocks that are mined

ASSUME ReadingBounds == /\ {ReserveCount, Workers} \subseteq Nat \ {0}
                        /\ MaxBlocks \in Nat \ {0}

Reserves == 1 .. ReserveCount
NoBlock  == 0
Blocks   == 1 .. MaxBlocks

VARIABLES
  canon,      \* the blocks of the chain, by height
  mined,      \* blocks mined so far
  reader,     \* getAavePosition
  reading,    \* [Reserves -> where mapBounded is with it]
  position,   \* what the last one returned
  saved       \* the position of the newest snapshot

readingVars == <<canon, mined, reader, reading, position, saved>>

\* Reads that wait for their answer, beside those of reading.
Beside == {"account", "emode", "list"}

NoReader   == [step |-> "none", at |-> 0, hash |-> NoBlock, left |-> {}, seen |-> {}]
NoPosition == [hash |-> NoBlock, seen |-> {}]
Untaken    == [r \in Reserves |-> "waiting"]

ReadingInit ==
  /\ canon = <<1>> /\ mined = 1
  /\ reader = NoReader /\ reading = Untaken
  /\ position = NoPosition /\ saved = NoPosition

-----------------------------------------------------------------------------
(***************************************************************************)
(* The chain, which is not this program's.                                 *)
(***************************************************************************)

\* A block on the head, or a reorganisation that drops some of the last blocks.
Mine(keep) ==
  /\ mined < MaxBlocks
  /\ mined' = mined + 1
  /\ canon' = Append(SubSeq(canon, 1, keep), mined + 1)
  /\ UNCHANGED <<reader, reading, position, saved>>

\* A read at a height: none if the chain does not reach it any more.
There(n) == n \in DOMAIN canon

-----------------------------------------------------------------------------
(***************************************************************************)
(* getAavePosition.                                                        *)
(***************************************************************************)

Running == reader.step # "none"

\* reader.block().
Ask ==
  /\ ~Running
  /\ reader' = [step |-> "network", at |-> Len(canon), hash |-> canon[Len(canon)],
               left |-> Beside, seen |-> {}]
  /\ reading' = Untaken
  /\ position' = NoPosition
  /\ UNCHANGED <<canon, mined, saved>>

Saw == reader.seen \cup {canon[reader.at]}

\* verifyNetwork; nothing of it enters the position.
VerifyNetwork ==
  /\ reader.step = "network" /\ There(reader.at)
  /\ reader' = [reader EXCEPT !.step = "reads"]
  /\ UNCHANGED <<canon, mined, reading, position, saved>>

\* getUserAccountData, getUserEMode, getReservesList.
ReadBeside(what) ==
  /\ reader.step = "reads" /\ what \in reader.left /\ There(reader.at)
  /\ reader' = [reader EXCEPT !.left = @ \ {what}, !.seen = Saw]
  /\ UNCHANGED <<canon, mined, reading, position, saved>>

\* A worker of mapBounded takes the next index.
Busy    == {r \in Reserves : reading[r] \in {"user", "details"}}
NextReserve(r) == reading[r] = "waiting" /\ \A q \in Reserves : q < r => reading[q] # "waiting"

TakeReserve(r) ==
  /\ reader.step = "reads" /\ "list" \notin reader.left
  /\ NextReserve(r) /\ Cardinality(Busy) < Workers
  /\ reading' = [reading EXCEPT ![r] = "user"]
  /\ UNCHANGED <<canon, mined, reader, position, saved>>

\* getUserReserveData and balanceOf: a reserve the wallet has nothing of is left
\* out.  Then its configuration, price and caps.  What is asked for together is one
\* step: a block that any read of the batch can see, this one can.
ReadReserve(r) ==
  /\ reader.step = "reads" /\ There(reader.at)
  /\ \/ reading[r] = "user" /\ \E to \in {"details", "empty"} : reading' = [reading EXCEPT ![r] = to]
     \/ reading[r] = "details" /\ reading' = [reading EXCEPT ![r] = "read"]
  /\ reader' = [reader EXCEPT !.seen = Saw]
  /\ UNCHANGED <<canon, mined, position, saved>>

AllRead == reader.left = {} /\ \A r \in Reserves : reading[r] \in {"read", "empty"}

\* Mutant: a block of that height is found, and that is enough.
SameBlockByNumber == TRUE

SameBlock == canon[reader.at] = reader.hash

\* reader.block(number): the position, or STATE_CHANGED.
LookAgain ==
  /\ reader.step = "reads" /\ AllRead /\ There(reader.at)
  /\ position' = IF SameBlock THEN [hash |-> reader.hash, seen |-> reader.seen] ELSE NoPosition
  /\ reader' = NoReader
  /\ UNCHANGED <<canon, mined, reading, saved>>

\* An RPC error, a contract that is not the configured one, a malformed answer,
\* or the time limit: getAavePosition ends, and answers still to come find it ended.
ReadFails ==
  /\ Running
  /\ reader' = NoReader
  /\ UNCHANGED <<canon, mined, reading, position, saved>>

\* persistPositionSnapshot; if it fails the request is answered without a row
\* (SNAPSHOT_PERSISTENCE_FAILED), or, for a GET, it was not to be kept.
SaveSnapshot ==
  /\ position # NoPosition
  /\ saved' = position /\ position' = NoPosition
  /\ UNCHANGED <<canon, mined, reader, reading>>

ReadingNext ==
  \/ \E keep \in 0 .. Len(canon) : Mine(keep)
  \/ Ask \/ VerifyNetwork \/ LookAgain \/ ReadFails \/ SaveSnapshot
  \/ \E what \in Beside : ReadBeside(what)
  \/ \E r \in Reserves : TakeReserve(r) \/ ReadReserve(r)

ReadingSpec == ReadingInit /\ [][ReadingNext]_readingVars

-----------------------------------------------------------------------------
(***************************************************************************)
(* Properties.                                                             *)
(***************************************************************************)

Stages    == {"waiting", "user", "details", "read", "empty"}
Positions == [hash : Blocks \cup {NoBlock}, seen : SUBSET Blocks]

ReadingTypeOK ==
  /\ mined \in Blocks
  /\ canon \in Seq(Blocks) /\ Len(canon) > 0
  /\ reader \in [step : {"none", "network", "reads"}, at : Nat, hash : Blocks \cup {NoBlock},
                left : SUBSET Beside, seen : SUBSET Blocks]
  /\ reading \in [Reserves -> Stages]
  /\ position \in Positions /\ saved \in Positions

\* A position, as returned and as kept, is that of the block whose number and
\* hash it carries: none of its balances, prices and totals was read on another
\* branch, however the chain moved between the forty calls.
PositionIsOfOneBlock ==
  \A p \in {position, saved} : p # NoPosition => p.seen = {p.hash}
=============================================================================
